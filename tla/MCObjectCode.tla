----------------------------- MODULE MCObjectCode ------------------------------
(* Small instances of ObjectCode: the two functions are interchangeable.      *)
EXTENDS ObjectCode, TLC

Symmetry == Permutations(Name)
================================================================================
