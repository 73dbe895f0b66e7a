----------------------------- MODULE FrameLayout -----------------------------
(***************************************************************************)
(* What compiler/scope.c promises the rest of dracon: a lexical            *)
(* environment whose variables own disjoint slots of one stack frame.      *)
(*                                                                         *)
(* The environment is the set `live' of visible declarations, each tagged  *)
(* with the nesting level of its scope.  The 256 hash buckets that hold    *)
(* the entries belong to module Scope, which implements this one.          *)
(*                                                                         *)
(* Offsets are distances below rbp: a variable at offset o whose slot has  *)
(* s bytes owns the bytes rbp-o .. rbp-o+s-1, the distances o-s+1 .. o.    *)
(***************************************************************************)
EXTENDS Integers, Sequences

CONSTANTS
    Name,       \* identifiers of the source program
    Type,       \* declared types, as [array : BOOLEAN, size : Nat] records
    MaxDepth,   \* bound: nested scopes
    MaxFrame    \* bound: bytes of one frame (an int in the code)

ASSUME TypeAssumption ==
    /\ Type \subseteq [array : BOOLEAN, size : Nat]
    /\ MaxDepth \in Nat /\ MaxDepth >= 1
    /\ MaxFrame \in Nat

VARIABLES
    depth,          \* length of the chain that starts at current_scope
    live,           \* the entries reachable from current_scope
    stackOffset,    \* current_stack_offset
    slots,          \* history: the declarations since scope_new, in order
    failed          \* log_error has ended the compiler

vars == <<depth, live, stackOffset, slots, failed>>

Entry == [depth : 1..MaxDepth, name : Name, offset : Nat, type : Type]

(***************************************************************************)
(* Arithmetic of scope_declare_variable.                                   *)
(***************************************************************************)

\* Bytes reserved for a variable: arrays take their size, the rest 8.
SlotSize(type) == IF type.array THEN type.size ELSE 8

\* Mutant: rounds down.
Align8_Down(n) == 8 * (n \div 8)

\* temp_offset += 7; temp_offset &= ~7
Align8(n) == 8 * ((n + 7) \div 8)

(***************************************************************************)
(* What a declaration leaves behind: the slot of its entry, where reads    *)
(* go, and the offset it returned, where the initial value or the          *)
(* parameter is stored.                                                    *)
(***************************************************************************)

\* Bytes asm_MOV_rmx_rx stores: it has no instruction for any other size.
StoreWidth(type) == IF type.size \in {1, 2, 4, 8} THEN type.size ELSE 0

Declared(offset, type) ==
    [offset |-> offset, size |-> SlotSize(type),
     value |-> Align8(offset), width |-> StoreWidth(type), array |-> type.array]

DeclaredSet == [offset : Nat, size : Nat, value : Nat, width : Nat, array : BOOLEAN]

------------------------------------------------------------------------------

Init ==
    /\ depth = 1
    /\ live = {}
    /\ stackOffset = 0
    /\ slots = <<>>
    /\ failed = FALSE

\* Mutant: the duplicate test is gone.
Redefinition_Dropped(name) == FALSE

\* "Redefinition of variable" looks at the current scope only.
Redefinition(name) == \E e \in live : e.depth = depth /\ e.name = name

\* Mutant: current_stack_offset is set before the rounding.
Declare_RoundsLater(name, type) ==
    LET offset == stackOffset + SlotSize(type) IN
    /\ ~failed
    /\ Align8(offset) <= MaxFrame
    /\ ~Redefinition(name)
    /\ live' = live \cup {[depth |-> depth, name |-> name,
                           offset |-> offset, type |-> type]}
    /\ slots' = Append(slots, Declared(offset, type))
    /\ stackOffset' = offset
    /\ UNCHANGED <<depth, failed>>

Declare(name, type) ==
    LET offset == stackOffset + SlotSize(type) IN
    /\ ~failed
    /\ Align8(offset) <= MaxFrame
    /\ ~Redefinition(name)
    /\ live' = live \cup {[depth |-> depth, name |-> name,
                           offset |-> offset, type |-> type]}
    /\ slots' = Append(slots, Declared(offset, type))
    /\ stackOffset' = Align8(offset)
    /\ UNCHANGED <<depth, failed>>

DeclareFails(name) ==
    /\ ~failed
    /\ Redefinition(name)
    /\ failed' = TRUE
    /\ UNCHANGED <<depth, live, stackOffset, slots>>

Push ==
    /\ ~failed
    /\ depth < MaxDepth
    /\ depth' = depth + 1
    /\ UNCHANGED <<live, stackOffset, slots, failed>>

\* Mutant: resets the offset as scope_new does.
Pop_ResetsOffset ==
    /\ ~failed
    /\ depth > 1
    /\ depth' = depth - 1
    /\ live' = {e \in live : e.depth < depth}
    /\ stackOffset' = 0
    /\ UNCHANGED <<slots, failed>>

\* Mutant: a caller pops a scope it did not push.
Pop_Unbalanced ==
    /\ ~failed
    /\ depth' = depth - 1
    /\ live' = {e \in live : e.depth < depth}
    /\ UNCHANGED <<stackOffset, slots, failed>>

Pop ==
    /\ ~failed
    /\ depth > 1
    /\ depth' = depth - 1
    /\ live' = {e \in live : e.depth < depth}
    /\ UNCHANGED <<stackOffset, slots, failed>>

\* scope_new: the end of a function, whatever the nesting.
New ==
    /\ ~failed
    /\ depth' = 1
    /\ live' = {}
    /\ stackOffset' = 0
    /\ slots' = <<>>
    /\ UNCHANGED failed

Stopped == failed /\ UNCHANGED vars

Next ==
    \/ \E name \in Name, type \in Type : Declare(name, type)
    \/ \E name \in Name : DeclareFails(name)
    \/ Push
    \/ Pop
    \/ New
    \/ Stopped

Spec == Init /\ [][Next]_vars

------------------------------------------------------------------------------

\* scope_resolve_variable: the declaration of the innermost scope.
Resolutions(name) ==
    {e \in live : /\ e.name = name
                  /\ \A f \in live : f.name = name => f.depth <= e.depth}

TypeOK ==
    /\ depth \in 1..MaxDepth
    /\ live \subseteq Entry
    /\ stackOffset \in Nat
    /\ slots \in Seq(DeclaredSet)
    /\ failed \in BOOLEAN

\* Two slots of one frame share no byte, even those of blocks already left:
\* the prologue of the function reserves one frame for all its blocks.
SlotsDisjoint ==
    \A i, j \in 1..Len(slots) :
        i < j => \/ slots[i].offset <= slots[j].offset - slots[j].size
                 \/ slots[j].offset <= slots[i].offset - slots[i].size

\* Every slot of the function lies between rbp and rbp - scope_get_sp_offset(),
\* the bytes that add_prologue reserves.
SlotsInFrame ==
    \A i \in 1..Len(slots) :
        slots[i].size <= slots[i].offset /\ slots[i].offset <= stackOffset

\* An identifier denotes at most one variable.
ResolvesUniquely ==
    \A name \in Name : \A e, f \in Resolutions(name) : e = f

\* generate_arg_offsets declares all parameters of a function before the first
\* is stored, and every parameter and initial value is stored through the
\* rounded offset of its declaration while reads use the exact one.  For a
\* scalar the two are the same byte.  Whatever the type, a store stays below
\* rbp, above the end of the frame, and off the slots of all other variables
\* of the function, declared before or after.  Not said, for it is false: that
\* the store of an array parameter reaches its own slot (char[4] misses it).
StoresSound ==
    \A i \in 1..Len(slots) :
        /\ slots[i].array \/ slots[i].value = slots[i].offset
        /\ slots[i].width <= slots[i].value /\ slots[i].value <= stackOffset
        /\ \A j \in 1..Len(slots) :
               i # j => \/ slots[i].value <= slots[j].offset - slots[j].size
                        \/ slots[j].offset <= slots[i].value - slots[i].width

\* Until the function ends, no step takes bytes away from its frame.
FrameNeverShrinks ==
    [][stackOffset' >= stackOffset \/ slots' = <<>>]_vars
==============================================================================
