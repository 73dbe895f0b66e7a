-------------------------------- MODULE Scope --------------------------------
(***************************************************************************)
(* compiler/scope.c: a chain of scopes, each a hash map with chained       *)
(* buckets, and the running stack offset of the function being processed.  *)
(* main.c calls scope_init once; the parser and then the code generator    *)
(* call the other operations.                                              *)
(*                                                                         *)
(* The hash function is a parameter, so what holds here holds for any      *)
(* distribution of the names over the buckets.                             *)
(***************************************************************************)
EXTENDS Integers, Sequences

CONSTANTS
    Name, Type, MaxDepth, MaxFrame, \* as in FrameLayout
    Bucket,     \* 0 .. BUCKET_COUNT - 1
    HashOf      \* hash_function

ASSUME ScopeAssumption ==
    /\ HashOf \in [Name -> Bucket]
    /\ Type \subseteq [array : BOOLEAN, size : Nat]

VARIABLES
    scopes,         \* the chain, the root first and current_scope last
    stackOffset,    \* current_stack_offset
    slots,          \* history: the declarations since scope_new
    failed          \* log_error has ended the compiler

vars == <<scopes, stackOffset, slots, failed>>

Frame == INSTANCE FrameLayout WITH
    depth <- Len(scopes),
    live  <- UNION {UNION {{[depth  |-> d,
                             name   |-> scopes[d][b][i].key,
                             offset |-> scopes[d][b][i].offset,
                             type   |-> scopes[d][b][i].type]
                            : i \in DOMAIN scopes[d][b]}
                           : b \in Bucket}
                    : d \in DOMAIN scopes}

------------------------------------------------------------------------------

\* variable_map_init
EmptyMap == [b \in Bucket |-> <<>>]

\* variables_hashmap_add: to the end of the key's bucket.
MapAdd(map, key, offset, type) ==
    [map EXCEPT ![HashOf[key]] =
        Append(@, [key |-> key, offset |-> offset, type |-> type])]

\* Mutant: any entry of the bucket passes for the key.
Matches_BucketOnly(map, key) == DOMAIN map[HashOf[key]]

\* Positions of the key in its bucket.
Matches(map, key) ==
    {i \in DOMAIN map[HashOf[key]] : map[HashOf[key]][i].key = key}

Mapped(map, key) == Matches(map, key) # {}

\* variables_hashmap_get: the first entry of the bucket with the key.
MapGet(map, key) ==
    map[HashOf[key]][CHOOSE i \in Matches(map, key) :
                        \A j \in Matches(map, key) : i <= j]

\* The scopes a lookup that starts at current_scope can stop at.
Holders(name) == {d \in DOMAIN scopes : Mapped(scopes[d], name)}

Innermost(ds) == CHOOSE d \in ds : \A e \in ds : e <= d

\* scope_resolve_variable of a name that some scope of the chain holds.
Resolve(name) == MapGet(scopes[Innermost(Holders(name))], name)

------------------------------------------------------------------------------

\* scope_init
Init ==
    /\ scopes = <<EmptyMap>>
    /\ stackOffset = 0
    /\ slots = <<>>
    /\ failed = FALSE

Current == Len(scopes)

Declare(name, type) ==
    LET offset == stackOffset + Frame!SlotSize(type) IN
    /\ ~failed
    /\ Frame!Align8(offset) <= MaxFrame
    /\ ~Mapped(scopes[Current], name)
    /\ scopes' = [scopes EXCEPT ![Current] = MapAdd(@, name, offset, type)]
    /\ slots' = Append(slots, Frame!Declared(offset, type))
    /\ stackOffset' = Frame!Align8(offset)
    /\ UNCHANGED failed

\* log_error("Redefinition of variable")
DeclareFails(name) ==
    /\ ~failed
    /\ Mapped(scopes[Current], name)
    /\ failed' = TRUE
    /\ UNCHANGED <<scopes, stackOffset, slots>>

Push ==
    /\ ~failed
    /\ Len(scopes) < MaxDepth
    /\ scopes' = Append(scopes, EmptyMap)
    /\ UNCHANGED <<stackOffset, slots, failed>>

Pop ==
    /\ ~failed
    /\ Len(scopes) > 1
    /\ scopes' = SubSeq(scopes, 1, Len(scopes) - 1)
    /\ UNCHANGED <<stackOffset, slots, failed>>

\* Mutant: the root keeps the variables of the function before.
New_KeepsRoot ==
    /\ ~failed
    /\ scopes' = <<scopes[1]>>
    /\ stackOffset' = 0
    /\ slots' = <<>>
    /\ UNCHANGED failed

\* scope_new: frees every scope but the root, which it empties.
New ==
    /\ ~failed
    /\ scopes' = <<EmptyMap>>
    /\ stackOffset' = 0
    /\ slots' = <<>>
    /\ UNCHANGED failed

Stopped == failed /\ UNCHANGED vars

Next ==
    \/ \E name \in Name, type \in Type : Declare(name, type)
    \/ \E name \in Name : DeclareFails(name)
    \/ Push
    \/ Pop
    \/ New
    \/ Stopped

Spec == Init /\ [][Next]_vars

------------------------------------------------------------------------------

\* Whatever the hash collisions, the scope chain of scope.c behaves as the
\* lexical environment of FrameLayout: same declarations accepted and refused,
\* same offsets, same variables forgotten by scope_pop and scope_new.
ImplementsFrameLayout == Frame!Spec

\* The lookup of scope_resolve_variable, through buckets and parents, returns
\* the declaration that lexical scoping designates, and finds one exactly when
\* there is one.
ResolvesLexically ==
    \A name \in Name :
        /\ (Holders(name) = {}) <=> (Frame!Resolutions(name) = {})
        /\ \A e \in Frame!Resolutions(name) :
              Resolve(name) = [key |-> e.name, offset |-> e.offset,
                               type |-> e.type]
==============================================================================
