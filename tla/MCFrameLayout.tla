----------------------------- MODULE MCFrameLayout -----------------------------
(* Small instances of FrameLayout: a scalar and three arrays, of which the   *)
(* smaller ones fit a register, as parameters do: char[2], int[2], char[12]. *)
EXTENDS FrameLayout

MCType == {[array |-> FALSE, size |-> 4],
           [array |-> TRUE,  size |-> 2],
           [array |-> TRUE,  size |-> 8],
           [array |-> TRUE,  size |-> 12]}
================================================================================
