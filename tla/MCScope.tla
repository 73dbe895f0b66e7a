-------------------------------- MODULE MCScope --------------------------------
(* Small instances of Scope: three names in two buckets, so that one bucket  *)
(* holds two of them.                                                        *)
EXTENDS Scope

CONSTANTS x, y, z

MCName == {x, y, z}

MCType == {[array |-> FALSE, size |-> 4], [array |-> TRUE, size |-> 3]}

MCHashOf == [n \in MCName |-> IF n = z THEN 1 ELSE 0]
================================================================================
