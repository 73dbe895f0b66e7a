------------------------------ MODULE MCElfObject ------------------------------
(* A small instance of ElfObject: functions with names of one and two          *)
(* characters and one with three, so that offsets into .strtab differ.         *)
EXTENDS ElfObject

CONSTANTS f, gg, hhh

MCNameLength == [n \in {f, gg, hhh} |-> CASE n = f -> 1 [] n = gg -> 2
                                          [] OTHER -> 3]
================================================================================
