-------------------------- MODULE FrameLayoutProofs --------------------------
(***************************************************************************)
(* The frame layout is right for every set of names, every set of types    *)
(* and every bound: the invariants of FrameLayout, proved.                 *)
(***************************************************************************)
EXTENDS FrameLayout, SequenceTheorems, TLAPS

\* The running offset is a multiple of 8 whatever was declared: this is why
\* a scalar's entry and the value returned for it are the same offset.
Aligned == \E k \in Nat : stackOffset = 8 * k

\* A scope holds a name once, and no entry outlives its scope.
KeysUnique ==
    /\ \A e \in live : e.depth <= depth
    /\ \A e, f \in live : e.depth = f.depth /\ e.name = f.name => e = f

\* The inductive invariant.
FrameInv ==
    /\ TypeOK
    /\ Aligned
    /\ KeysUnique
    /\ SlotsInFrame
    /\ SlotsDisjoint
    /\ StoresSound

------------------------------------------------------------------------------

\* Align8 rounds up to a multiple of 8.
LEMMA Align8Rounds ==
    ASSUME NEW n \in Nat
    PROVE  /\ Align8(n) \in Nat
           /\ Align8(n) >= n
           /\ \E k \in Nat : Align8(n) = 8 * k
<1> DEFINE k == (n + 7) \div 8
<1>1. k \in Nat /\ 8 * k >= n
  OBVIOUS
<1>2. Align8(n) = 8 * k
  BY DEF Align8
<1> QED
  BY <1>1, <1>2

\* Align8 leaves a multiple of 8 alone.
LEMMA Align8Fixed ==
    ASSUME NEW k \in Nat
    PROVE  Align8(8 * k) = 8 * k
<1>1. (8 * k + 7) \div 8 = k
  OBVIOUS
<1> QED
  BY <1>1 DEF Align8

\* A type reserves a natural number of bytes.
LEMMA SlotSizeNat ==
    ASSUME NEW type \in Type
    PROVE  SlotSize(type) \in Nat
BY TypeAssumption DEF SlotSize

\* A store is never wider than the slot.
LEMMA StoreFits ==
    ASSUME NEW type \in Type
    PROVE  StoreWidth(type) \in Nat /\ StoreWidth(type) <= SlotSize(type)
BY TypeAssumption DEF SlotSize, StoreWidth

------------------------------------------------------------------------------

\* scope_init establishes the invariant.
LEMMA FrameInit == Init => FrameInv
<1> SUFFICES ASSUME Init
             PROVE  FrameInv
  OBVIOUS
<1>1. TypeOK
  <2>1. depth \in 1..MaxDepth /\ live \subseteq Entry /\ stackOffset \in Nat
    BY TypeAssumption DEF Init
  <2>2. slots \in Seq(DeclaredSet) /\ failed \in BOOLEAN
    <3>1. slots = <<>> /\ failed = FALSE
      BY DEF Init
    <3> QED
      BY <3>1, EmptySeq
  <2> QED
    BY <2>1, <2>2 DEF TypeOK
<1>2. Aligned
  <2>1. stackOffset = 8 * 0
    BY DEF Init
  <2> QED
    BY <2>1 DEF Aligned
<1>3. KeysUnique /\ SlotsInFrame /\ SlotsDisjoint /\ StoresSound
  BY DEF Init, KeysUnique, SlotsInFrame, SlotsDisjoint, StoresSound
<1> QED
  BY <1>1, <1>2, <1>3 DEF FrameInv

\* scope_declare_variable preserves it.
LEMMA FrameDeclare ==
    ASSUME FrameInv, NEW name \in Name, NEW type \in Type, Declare(name, type)
    PROVE  FrameInv'
<1> DEFINE offset == stackOffset + SlotSize(type)
           entry  == [depth |-> depth, name |-> name, offset |-> offset, type |-> type]
           slot   == Declared(offset, type)
<1>1. /\ stackOffset \in Nat
      /\ SlotSize(type) \in Nat
      /\ offset \in Nat
      /\ type \in [array : BOOLEAN, size : Nat]
  BY SlotSizeNat, TypeAssumption DEF FrameInv, TypeOK
<1>2. /\ Align8(offset) \in Nat
      /\ Align8(offset) >= offset
      /\ \E k \in Nat : Align8(offset) = 8 * k
  BY <1>1, Align8Rounds
<1>3. /\ ~Redefinition(name)
      /\ live' = live \cup {entry}
      /\ slots' = Append(slots, slot)
      /\ stackOffset' = Align8(offset)
      /\ depth' = depth
      /\ failed' = failed
  BY DEF Declare
<1>4. /\ slots \in Seq(DeclaredSet)
      /\ slot \in DeclaredSet
      /\ slot.offset = offset /\ slot.size = SlotSize(type)
      /\ slot.value = Align8(offset) /\ slot.width = StoreWidth(type)
      /\ slot.array = type.array
  BY <1>1, <1>2, StoreFits DEF FrameInv, TypeOK, Declared, DeclaredSet
<1>5. /\ Len(slots') = Len(slots) + 1
      /\ \A i \in 1..Len(slots) : slots'[i] = slots[i]
      /\ slots'[Len(slots) + 1] = slot
      /\ slots' \in Seq(DeclaredSet)
      /\ Len(slots) \in Nat
  <2> HIDE DEF slot
  <2> QED
    BY <1>3, <1>4
<1>6. \A i \in 1..Len(slots) : slots[i] \in DeclaredSet
  BY <1>4, ElementOfSeq
<1> HIDE DEF slot
<1>7. TypeOK'
  <2>1. entry \in Entry
    BY <1>1 DEF FrameInv, TypeOK, Entry
  <2>2. live' \subseteq Entry
    BY <1>3, <2>1 DEF FrameInv, TypeOK
  <2> QED
    BY <1>2, <1>3, <1>5, <2>2 DEF FrameInv, TypeOK
<1>8. Aligned'
  BY <1>2, <1>3 DEF Aligned
<1>9. KeysUnique'
  <2>1. \A e \in live : ~(e.depth = entry.depth /\ e.name = entry.name)
    BY <1>3 DEF Redefinition
  <2> QED
    BY <1>1, <1>3, <2>1, TypeAssumption DEF FrameInv, KeysUnique, TypeOK
<1>10. SlotsInFrame'
  <2>1. \A i \in 1..Len(slots) :
            /\ slots[i].offset \in Nat
            /\ slots[i].size <= slots[i].offset
            /\ slots[i].offset <= stackOffset
    BY <1>6 DEF FrameInv, SlotsInFrame, DeclaredSet
  <2>2. \A i \in 1..Len(slots) :
            slots'[i].size <= slots'[i].offset /\ slots'[i].offset <= stackOffset'
    BY <1>1, <1>2, <1>3, <1>5, <2>1
  <2>3. slot.size <= slot.offset /\ slot.offset <= stackOffset'
    BY <1>1, <1>2, <1>3, <1>4
  <2> QED
    BY <1>5, <2>2, <2>3 DEF SlotsInFrame
<1>11. SlotsDisjoint'
  <2>1. \A i \in 1..Len(slots) : slots[i].offset <= slot.offset - slot.size
    <3>1. slot.offset - slot.size = stackOffset
      BY <1>1, <1>4
    <3> QED
      BY <1>6, <3>1 DEF FrameInv, SlotsInFrame, DeclaredSet
  <2> SUFFICES ASSUME NEW i \in 1..Len(slots'), NEW j \in 1..Len(slots'), i < j
               PROVE  \/ slots'[i].offset <= slots'[j].offset - slots'[j].size
                      \/ slots'[j].offset <= slots'[i].offset - slots'[i].size
    BY DEF SlotsDisjoint
  <2>2. i \in 1..Len(slots)
    BY <1>5
  <2>3. CASE j \in 1..Len(slots)
    BY <1>5, <2>2, <2>3 DEF FrameInv, SlotsDisjoint
  <2>4. CASE j = Len(slots) + 1
    BY <1>5, <2>1, <2>2, <2>4
  <2> QED
    BY <1>5, <2>3, <2>4
<1>12. slot.array \/ slot.value = slot.offset
  <2> SUFFICES ASSUME ~type.array
               PROVE  Align8(offset) = offset
    BY <1>4
  <2>1. PICK k \in Nat : stackOffset = 8 * k
    BY DEF FrameInv, Aligned
  <2>2. offset = 8 * (k + 1) /\ k + 1 \in Nat
    BY <2>1 DEF SlotSize
  <2> QED
    BY <2>2, Align8Fixed
<1>13. /\ slot.value = stackOffset' /\ slot.value \in Nat
       /\ slot.width \in Nat
       /\ stackOffset <= slot.value - slot.width
  BY <1>1, <1>2, <1>3, <1>4, StoreFits
<1>14. StoresSound'
  <2> SUFFICES ASSUME NEW i \in 1..Len(slots')
               PROVE  /\ slots'[i].array \/ slots'[i].value = slots'[i].offset
                      /\ slots'[i].width <= slots'[i].value
                      /\ slots'[i].value <= stackOffset'
                      /\ \A j \in 1..Len(slots') :
                             i # j => \/ slots'[i].value <= slots'[j].offset - slots'[j].size
                                      \/ slots'[j].offset <= slots'[i].value - slots'[i].width
    BY DEF StoresSound
  <2>1. CASE i \in 1..Len(slots)
    <3>1. /\ slots[i].array \/ slots[i].value = slots[i].offset
          /\ slots[i].width <= slots[i].value
          /\ slots[i].value <= stackOffset
      BY <2>1 DEF FrameInv, StoresSound
    <3>2. slots[i].value \in Nat
      BY <1>6, <2>1 DEF DeclaredSet
    <3>3. slots[i].value <= slot.offset - slot.size
      BY <1>1, <1>4, <3>1, <3>2
    <3>4. slots[i].value <= stackOffset'
      BY <1>1, <1>2, <1>3, <3>1, <3>2
    <3>5. ASSUME NEW j \in 1..Len(slots'), i # j
          PROVE  \/ slots'[i].value <= slots'[j].offset - slots'[j].size
                 \/ slots'[j].offset <= slots'[i].value - slots'[i].width
      <4>1. CASE j \in 1..Len(slots)
        BY <1>5, <2>1, <3>5, <4>1 DEF FrameInv, StoresSound
      <4>2. CASE j = Len(slots) + 1
        BY <1>5, <2>1, <3>3, <4>2
      <4> QED
        BY <1>5, <4>1, <4>2
    <3> QED
      BY <1>5, <2>1, <3>1, <3>4, <3>5
  <2>2. CASE i = Len(slots) + 1
    <3>1. ASSUME NEW j \in 1..Len(slots'), i # j
          PROVE  slots'[j].offset <= slots'[i].value - slots'[i].width
      <4>1. j \in 1..Len(slots)
        BY <1>5, <2>2, <3>1
      <4>2. slots[j].offset \in Nat /\ slots[j].offset <= stackOffset
        BY <1>6, <4>1 DEF DeclaredSet, FrameInv, SlotsInFrame
      <4> QED
        BY <1>1, <1>5, <1>13, <2>2, <4>1, <4>2
    <3>2. slot.width <= slot.value /\ slot.value <= stackOffset'
      BY <1>1, <1>13
    <3> QED
      BY <1>5, <1>12, <2>2, <3>1, <3>2
  <2> QED
    BY <1>5, <2>1, <2>2
<1> QED
  BY <1>7, <1>8, <1>9, <1>10, <1>11, <1>14 DEF FrameInv

\* Every step preserves it.
LEMMA FrameStep == FrameInv /\ [Next]_vars => FrameInv'
<1> SUFFICES ASSUME FrameInv, [Next]_vars
             PROVE  FrameInv'
  OBVIOUS
<1> USE DEF FrameInv
<1>1. ASSUME NEW name \in Name, NEW type \in Type, Declare(name, type)
      PROVE  FrameInv'
  BY <1>1, FrameDeclare
<1>2. ASSUME NEW name \in Name, DeclareFails(name)
      PROVE  FrameInv'
  BY <1>2 DEF DeclareFails, TypeOK, Aligned, KeysUnique, SlotsInFrame,
              SlotsDisjoint, StoresSound
<1>3. CASE Push
  <2>1. TypeOK'
    BY <1>3, TypeAssumption DEF Push, TypeOK
  <2>2. KeysUnique'
    BY <1>3 DEF Push, KeysUnique, TypeOK, Entry
  <2>3. (Aligned /\ SlotsInFrame /\ SlotsDisjoint /\ StoresSound)'
    BY <1>3 DEF Push, Aligned, SlotsInFrame, SlotsDisjoint, StoresSound
  <2> QED
    BY <2>1, <2>2, <2>3
<1>4. CASE Pop
  <2>1. TypeOK'
    BY <1>4, TypeAssumption DEF Pop, TypeOK
  <2>2. KeysUnique'
    BY <1>4 DEF Pop, KeysUnique, TypeOK, Entry
  <2>3. (Aligned /\ SlotsInFrame /\ SlotsDisjoint /\ StoresSound)'
    BY <1>4 DEF Pop, Aligned, SlotsInFrame, SlotsDisjoint, StoresSound
  <2> QED
    BY <2>1, <2>2, <2>3
<1>5. CASE New
  <2>1. TypeOK'
    <3>1. slots' \in Seq(DeclaredSet)
      BY <1>5 DEF New
    <3> QED
      BY <1>5, <3>1, TypeAssumption DEF New, TypeOK
  <2>2. Aligned'
    <3>1. stackOffset' = 8 * 0
      BY <1>5 DEF New
    <3> QED
      BY <3>1 DEF Aligned
  <2>3. (KeysUnique /\ SlotsInFrame /\ SlotsDisjoint /\ StoresSound)'
    BY <1>5 DEF New, KeysUnique, SlotsInFrame, SlotsDisjoint, StoresSound
  <2> QED
    BY <2>1, <2>2, <2>3
<1>6. CASE UNCHANGED vars
  BY <1>6 DEF vars, TypeOK, Aligned, KeysUnique, SlotsInFrame, SlotsDisjoint,
              StoresSound
<1> QED
  BY <1>1, <1>2, <1>3, <1>4, <1>5, <1>6 DEF Next, Stopped

\* The inductive invariant holds in every reachable state.
THEOREM FrameInvariant == Spec => []FrameInv
BY FrameInit, FrameStep, PTL DEF Spec

\* TypeOK of scope.c's state.
THEOREM FrameTypeCorrect == Spec => []TypeOK
<1>1. FrameInv => TypeOK
  BY DEF FrameInv
<1> QED
  BY FrameInvariant, <1>1, PTL

\* No two variables of a function share a byte of its frame, and all of them
\* lie in the bytes its prologue reserves.
THEOREM FramesAreSound == Spec => [](SlotsDisjoint /\ SlotsInFrame)
<1>1. FrameInv => SlotsDisjoint /\ SlotsInFrame
  BY DEF FrameInv
<1> QED
  BY FrameInvariant, <1>1, PTL

\* An identifier denotes at most one variable at any point.
THEOREM ResolutionUnique == Spec => []ResolvesUniquely
<1>1. FrameInv => ResolvesUniquely
  <2> SUFFICES ASSUME FrameInv, NEW name \in Name,
                      NEW e \in Resolutions(name), NEW f \in Resolutions(name)
               PROVE  e = f
    BY DEF ResolvesUniquely
  <2>1. e \in live /\ f \in live /\ e.name = f.name
    BY DEF Resolutions
  <2>2. e.depth <= f.depth /\ f.depth <= e.depth
    BY <2>1 DEF Resolutions
  <2>3. e.depth \in Int /\ f.depth \in Int
    BY <2>1 DEF FrameInv, TypeOK, Entry
  <2> QED
    BY <2>1, <2>2, <2>3 DEF FrameInv, KeysUnique
<1> QED
  BY FrameInvariant, <1>1, PTL

\* Every variable lies in the bytes below rbp that the prologue reserves when the
\* function ends, whatever the blocks it was declared in.
THEOREM FramesHoldSlots == Spec => []SlotsInFrame
<1>1. FrameInv => SlotsInFrame
  BY DEF FrameInv
<1> QED
  BY FrameInvariant, <1>1, PTL

\* A scalar is stored where reads look for it, and no store through the result
\* of a declaration reaches the slot of another variable or leaves the frame.
THEOREM StoresAreSound == Spec => []StoresSound
<1>1. FrameInv => StoresSound
  BY DEF FrameInv
<1> QED
  BY FrameInvariant, <1>1, PTL

\* Popping a block never takes bytes away from the frame.
THEOREM FrameMonotone == Spec => FrameNeverShrinks
<1>1. FrameInv /\ [Next]_vars => [stackOffset' >= stackOffset \/ slots' = <<>>]_vars
  <2> SUFFICES ASSUME FrameInv, Next
               PROVE  stackOffset' >= stackOffset \/ slots' = <<>>
    OBVIOUS
  <2>0. stackOffset \in Nat
    BY DEF FrameInv, TypeOK
  <2>1. ASSUME NEW name \in Name, NEW type \in Type, Declare(name, type)
        PROVE  stackOffset' >= stackOffset
    <3>1. stackOffset + SlotSize(type) \in Nat
      BY <2>0, SlotSizeNat
    <3>2. Align8(stackOffset + SlotSize(type)) >= stackOffset + SlotSize(type)
      BY <3>1, Align8Rounds
    <3>3. Align8(stackOffset + SlotSize(type)) \in Nat
      BY <3>1, Align8Rounds
    <3> QED
      BY <2>0, <2>1, <3>2, <3>3, SlotSizeNat DEF Declare
  <2>2. ASSUME NEW name \in Name, DeclareFails(name)
        PROVE  stackOffset' >= stackOffset
    BY <2>0, <2>2 DEF DeclareFails
  <2>3. CASE Push \/ Pop
    BY <2>0, <2>3 DEF Push, Pop
  <2>4. CASE New
    BY <2>4 DEF New
  <2>5. CASE Stopped
    BY <2>0, <2>5 DEF Stopped, vars
  <2> QED
    BY <2>1, <2>2, <2>3, <2>4, <2>5 DEF Next
<1> QED
  BY FrameInvariant, <1>1, PTL DEF Spec, FrameNeverShrinks
==============================================================================
