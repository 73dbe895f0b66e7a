------------------------------ MODULE ScopeProofs ------------------------------
(***************************************************************************)
(* The chain of hash maps of scope.c is the lexical environment that       *)
(* FrameLayout describes: for every hash function, every number of         *)
(* buckets, and any nesting of blocks.                                     *)
(***************************************************************************)
EXTENDS Scope, SequenceTheorems, WellFoundedInduction, TLAPS

\* An entry of a bucket (variable_map_entry), and a scope.
MapEntry == [key : Name, offset : Nat, type : Type]

Map == [Bucket -> Seq(MapEntry)]

\* The entry i of bucket b in the scope d of a chain, as FrameLayout has it.
Seen(chain, d, b, i) ==
    [depth |-> d, name |-> chain[d][b][i].key,
     offset |-> chain[d][b][i].offset, type |-> chain[d][b][i].type]

\* All of them: what the variable live of FrameLayout stands for.
Visible(chain) ==
    UNION {UNION {{[depth  |-> d,
                    name   |-> chain[d][b][i].key,
                    offset |-> chain[d][b][i].offset,
                    type   |-> chain[d][b][i].type]
                   : i \in DOMAIN chain[d][b]}
                  : b \in Bucket}
           : d \in DOMAIN chain}

\* Every entry is in the bucket its key is hashed to, and no key is there twice.
MapOK(map) ==
    \A b \in Bucket : \A i \in 1..Len(map[b]) :
        /\ HashOf[map[b][i].key] = b
        /\ \A j \in 1..Len(map[b]) : map[b][i].key = map[b][j].key => i = j

ScopeInv ==
    /\ scopes \in Seq(Map)
    /\ Len(scopes) >= 1
    /\ stackOffset \in Nat
    /\ \A d \in 1..Len(scopes) : MapOK(scopes[d])

------------------------------------------------------------------------------
(* The map of one scope. *)

LEMMA EmptyMapOK == EmptyMap \in Map /\ MapOK(EmptyMap)
  BY DEF EmptyMap, Map, MapOK

\* Adding a key that is not there: one bucket grows by one entry.
LEMMA MapAddOK ==
    ASSUME NEW map \in Map, MapOK(map), NEW key \in Name, ~Mapped(map, key),
           NEW offset \in Nat, NEW type \in Type
    PROVE  /\ MapAdd(map, key, offset, type) \in Map
           /\ MapOK(MapAdd(map, key, offset, type))
           /\ HashOf[key] \in Bucket
           /\ \A b \in Bucket :
                 MapAdd(map, key, offset, type)[b] =
                     IF b = HashOf[key]
                     THEN Append(map[b], [key |-> key, offset |-> offset, type |-> type])
                     ELSE map[b]
<1> DEFINE new == [key |-> key, offset |-> offset, type |-> type]
           grown == MapAdd(map, key, offset, type)
           h == HashOf[key]
<1>1. h \in Bucket
  BY ScopeAssumption
<1>2. new \in MapEntry
  BY DEF MapEntry
<1>3. map[h] \in Seq(MapEntry)
  BY <1>1 DEF Map
<1>4. grown = [map EXCEPT ![h] = Append(map[h], new)]
  BY DEF MapAdd
<1>5. Append(map[h], new) \in Seq(MapEntry)
  BY <1>2, <1>3
<1>6. grown \in Map
  BY <1>1, <1>4, <1>5 DEF Map
<1>7. \A b \in Bucket : grown[b] = IF b = h THEN Append(map[b], new) ELSE map[b]
  BY <1>1, <1>4 DEF Map
<1>8. \A i \in 1..Len(map[h]) : map[h][i].key # key
  <2>1. DOMAIN map[h] = 1..Len(map[h])
    BY <1>3
  <2> QED
    BY <2>1 DEF Mapped, Matches
<1>9. ASSUME NEW b \in Bucket, NEW i \in 1..Len(grown[b])
      PROVE  /\ HashOf[grown[b][i].key] = b
             /\ \A j \in 1..Len(grown[b]) : grown[b][i].key = grown[b][j].key => i = j
  <2> HIDE DEF grown
  <2>1. CASE b # h
    BY <1>7, <1>9, <2>1 DEF MapOK
  <2>2. CASE b = h
    <3>1. grown[b] = Append(map[h], new)
      BY <1>1, <1>7, <2>2
    <3>2. /\ Len(map[h]) \in Nat /\ Len(grown[b]) = Len(map[h]) + 1
          /\ \A j \in 1..Len(map[h]) : grown[b][j] = map[h][j]
          /\ grown[b][Len(map[h]) + 1] = new
      BY <1>2, <1>3, <3>1, AppendProperties
    <3>3. \A j \in 1..Len(grown[b]) : j \in 1..Len(map[h]) \/ j = Len(map[h]) + 1
      BY <3>2
    <3>4. new.key = key
      OBVIOUS
    <3>5. \A j, k \in 1..Len(map[h]) :
             HashOf[map[h][j].key] = h /\ (map[h][j].key = map[h][k].key => j = k)
      BY <1>1 DEF MapOK
    <3> HIDE DEF new
    <3>6. CASE i \in 1..Len(map[h])
      <4>1. grown[b][i] = map[h][i] /\ map[h][i].key # key /\ HashOf[map[h][i].key] = h
        BY <1>8, <3>2, <3>5, <3>6
      <4>2. ASSUME NEW j \in 1..Len(grown[b]), grown[b][i].key = grown[b][j].key
            PROVE  i = j
        <5>1. CASE j \in 1..Len(map[h])
          BY <3>2, <3>5, <3>6, <4>1, <4>2, <5>1
        <5>2. CASE j = Len(map[h]) + 1
          BY <3>2, <3>4, <4>1, <4>2, <5>2
        <5> QED
          BY <3>3, <5>1, <5>2
      <4> QED
        BY <2>2, <4>1, <4>2
    <3>7. CASE i = Len(map[h]) + 1
      BY <1>8, <2>2, <3>2, <3>3, <3>4, <3>7
    <3> QED
      BY <1>9, <3>3, <3>6, <3>7
  <2> QED
    BY <2>1, <2>2
<1> QED
  BY <1>1, <1>6, <1>7, <1>9 DEF MapOK

------------------------------------------------------------------------------
(* What is visible along a chain. *)

LEMMA VisibleIs ==
    ASSUME NEW chain, NEW e
    PROVE  e \in Visible(chain) <=>
               \E d \in DOMAIN chain : \E b \in Bucket : \E i \in DOMAIN chain[d][b] :
                   e = Seen(chain, d, b, i)
  BY DEF Visible, Seen

\* Len and DOMAIN of a chain and of its buckets.
LEMMA ChainIs ==
    ASSUME NEW chain \in Seq(Map)
    PROVE  /\ Len(chain) \in Nat /\ DOMAIN chain = 1..Len(chain)
           /\ \A d \in 1..Len(chain) :
                 /\ chain[d] \in Map
                 /\ \A b \in Bucket : /\ chain[d][b] \in Seq(MapEntry)
                                      /\ DOMAIN chain[d][b] = 1..Len(chain[d][b])
<1>1. Len(chain) \in Nat /\ DOMAIN chain = 1..Len(chain)
  OBVIOUS
<1>2. \A d \in 1..Len(chain) : chain[d] \in Map
  BY ElementOfSeq
<1>3. ASSUME NEW d \in 1..Len(chain), NEW b \in Bucket
      PROVE  chain[d][b] \in Seq(MapEntry) /\ DOMAIN chain[d][b] = 1..Len(chain[d][b])
  BY <1>2 DEF Map
<1> QED
  BY <1>1, <1>2, <1>3

\* A scope holds a name exactly when an entry of its depth is visible.
LEMMA MappedIsVisible ==
    ASSUME ScopeInv, NEW d \in 1..Len(scopes), NEW name \in Name
    PROVE  Mapped(scopes[d], name) <=>
               \E e \in Visible(scopes) : e.depth = d /\ e.name = name
<1> USE DEF ScopeInv
<1>1. HashOf[name] \in Bucket
  BY ScopeAssumption
<1>2. DOMAIN scopes = 1..Len(scopes)
  BY ChainIs
<1>3. ASSUME Mapped(scopes[d], name)
      PROVE  \E e \in Visible(scopes) : e.depth = d /\ e.name = name
  <2>1. PICK i \in DOMAIN scopes[d][HashOf[name]] : scopes[d][HashOf[name]][i].key = name
    BY <1>3 DEF Mapped, Matches
  <2>2. Seen(scopes, d, HashOf[name], i) \in Visible(scopes)
    BY <1>1, <1>2, VisibleIs
  <2> QED
    BY <2>1, <2>2 DEF Seen
<1>4. ASSUME NEW e \in Visible(scopes), e.depth = d, e.name = name
      PROVE  Mapped(scopes[d], name)
  <2>1. PICK c \in DOMAIN scopes, b \in Bucket : \E i \in DOMAIN scopes[c][b] :
           e = Seen(scopes, c, b, i)
    BY VisibleIs
  <2>2. PICK i \in DOMAIN scopes[c][b] : e = Seen(scopes, c, b, i)
    BY <2>1
  <2>3. c = d /\ scopes[d][b][i].key = name
    BY <1>4, <2>2 DEF Seen
  <2>4. i \in 1..Len(scopes[d][b])
    BY <2>2, <2>3, ChainIs
  <2>5. HashOf[name] = b
    BY <2>3, <2>4 DEF MapOK
  <2> QED
    BY <2>2, <2>3, <2>5 DEF Mapped, Matches
<1> QED
  BY <1>3, <1>4

------------------------------------------------------------------------------
(* The invariant. *)

LEMMA ScopeInit == Init => ScopeInv
<1> SUFFICES ASSUME Init PROVE ScopeInv
  OBVIOUS
<1>1. scopes = <<EmptyMap>> /\ stackOffset = 0
  BY DEF Init
<1>2. scopes \in Seq(Map) /\ Len(scopes) = 1 /\ scopes[1] = EmptyMap
  BY <1>1, EmptyMapOK
<1> QED
  BY <1>1, <1>2, EmptyMapOK DEF ScopeInv

LEMMA OffsetsAreNumbers ==
    ASSUME NEW type \in Type, stackOffset \in Nat
    PROVE  /\ stackOffset + Frame!SlotSize(type) \in Nat
           /\ Frame!Align8(stackOffset + Frame!SlotSize(type)) \in Nat
<1>1. type.size \in Nat
  BY ScopeAssumption
<1>2. Frame!SlotSize(type) \in Nat
  BY <1>1 DEF Frame!SlotSize
<1> QED
  BY <1>2 DEF Frame!Align8

\* What scope_declare_variable makes of the chain.
LEMMA DeclareIs ==
    ASSUME ScopeInv, NEW name \in Name, NEW type \in Type, Declare(name, type)
    PROVE  LET offset == stackOffset + Frame!SlotSize(type)
               grown  == MapAdd(scopes[Len(scopes)], name, offset, type)
           IN /\ offset \in Nat
              /\ scopes' \in Seq(Map) /\ Len(scopes') = Len(scopes)
              /\ \A d \in 1..Len(scopes) :
                    scopes'[d] = IF d = Len(scopes) THEN grown ELSE scopes[d]
              /\ MapOK(grown)
              /\ HashOf[name] \in Bucket
              /\ \A b \in Bucket :
                    grown[b] = IF b = HashOf[name]
                               THEN Append(scopes[Len(scopes)][b],
                                           [key |-> name, offset |-> offset, type |-> type])
                               ELSE scopes[Len(scopes)][b]
<1> DEFINE offset == stackOffset + Frame!SlotSize(type)
           last == Len(scopes)
           grown == MapAdd(scopes[last], name, offset, type)
<1>1. last \in 1..Len(scopes) /\ scopes[last] \in Map /\ MapOK(scopes[last])
  BY ChainIs DEF ScopeInv
<1>2. offset \in Nat
  BY OffsetsAreNumbers DEF ScopeInv
<1>3. ~Mapped(scopes[last], name)
  BY DEF Declare, Current
<1> HIDE DEF offset
<1>4. /\ grown \in Map /\ MapOK(grown) /\ HashOf[name] \in Bucket
      /\ \A b \in Bucket :
            grown[b] = IF b = HashOf[name]
                       THEN Append(scopes[last][b],
                                   [key |-> name, offset |-> offset, type |-> type])
                       ELSE scopes[last][b]
  BY <1>1, <1>2, <1>3, MapAddOK
<1>5. scopes' = [scopes EXCEPT ![last] = grown]
  BY DEF Declare, Current, offset
<1> HIDE DEF grown
<1>6. scopes' \in Seq(Map) /\ Len(scopes') = Len(scopes)
  BY <1>1, <1>4, <1>5, ExceptSeq DEF ScopeInv
<1>7. \A d \in 1..Len(scopes) : scopes'[d] = IF d = last THEN grown ELSE scopes[d]
  BY <1>5, ChainIs DEF ScopeInv
<1> QED
  BY <1>2, <1>4, <1>6, <1>7 DEF offset, grown

LEMMA ScopeStep == ScopeInv /\ [Next]_vars => ScopeInv'
<1> SUFFICES ASSUME ScopeInv, [Next]_vars PROVE ScopeInv'
  OBVIOUS
<1>1. ASSUME NEW name \in Name, NEW type \in Type, Declare(name, type)
      PROVE  ScopeInv'
  <2>1. stackOffset' \in Nat
    BY <1>1, OffsetsAreNumbers DEF Declare, ScopeInv
  <2>2. /\ scopes' \in Seq(Map) /\ Len(scopes') = Len(scopes)
        /\ \A d \in 1..Len(scopes) : MapOK(scopes'[d])
    BY <1>1, DeclareIs DEF ScopeInv
  <2> QED
    BY <2>1, <2>2 DEF ScopeInv
<1>2. CASE Push
  <2>1. /\ scopes' = Append(scopes, EmptyMap) /\ stackOffset' = stackOffset
    BY <1>2 DEF Push
  <2>2. /\ scopes' \in Seq(Map) /\ Len(scopes') = Len(scopes) + 1
        /\ \A d \in 1..Len(scopes) : scopes'[d] = scopes[d]
        /\ scopes'[Len(scopes) + 1] = EmptyMap
    BY <2>1, EmptyMapOK, AppendProperties DEF ScopeInv
  <2>3. \A d \in 1..Len(scopes') : d \in 1..Len(scopes) \/ d = Len(scopes) + 1
    BY <2>2 DEF ScopeInv
  <2> QED
    BY <2>1, <2>2, <2>3, EmptyMapOK DEF ScopeInv
<1>3. CASE Pop
  <2>1. /\ scopes' = SubSeq(scopes, 1, Len(scopes) - 1) /\ stackOffset' = stackOffset
        /\ Len(scopes) > 1
    BY <1>3 DEF Pop
  <2>2. /\ scopes' \in Seq(Map) /\ Len(scopes') = Len(scopes) - 1
        /\ \A d \in 1..Len(scopes) - 1 : scopes'[d] = scopes[d]
    BY <2>1 DEF ScopeInv
  <2> QED
    BY <2>1, <2>2 DEF ScopeInv
<1>4. CASE New
  <2>1. scopes' = <<EmptyMap>> /\ stackOffset' = 0
    BY <1>4 DEF New
  <2>2. scopes' \in Seq(Map) /\ Len(scopes') = 1 /\ scopes'[1] = EmptyMap
    BY <2>1, EmptyMapOK
  <2> QED
    BY <2>1, <2>2, EmptyMapOK DEF ScopeInv
<1>5. ASSUME NEW name \in Name, DeclareFails(name)
      PROVE  ScopeInv'
  BY <1>5 DEF DeclareFails, ScopeInv
<1>6. CASE Stopped \/ UNCHANGED vars
  BY <1>6 DEF Stopped, vars, ScopeInv
<1> QED
  BY <1>1, <1>2, <1>3, <1>4, <1>5, <1>6 DEF Next

\* The inductive invariant of the chain: maps in which every entry lies in the
\* bucket of its key, once, whatever is declared, entered and left.
THEOREM ScopeInvariant == Spec => []ScopeInv
  BY ScopeInit, ScopeStep, PTL DEF Spec

------------------------------------------------------------------------------
(* Every step is one of FrameLayout.  Frame!live is Visible(scopes). *)

\* An entry added to the current scope is the only one that appears.
LEMMA DeclareShows ==
    ASSUME ScopeInv, NEW name \in Name, NEW type \in Type, Declare(name, type)
    PROVE  Visible(scopes') =
               Visible(scopes) \cup
               {[depth |-> Len(scopes), name |-> name,
                 offset |-> stackOffset + Frame!SlotSize(type), type |-> type]}
<1> DEFINE offset == stackOffset + Frame!SlotSize(type)
           last == Len(scopes)
           h == HashOf[name]
           new == [key |-> name, offset |-> offset, type |-> type]
           shown == [depth |-> last, name |-> name, offset |-> offset, type |-> type]
           bucket == scopes[last][h]
<1>1. /\ offset \in Nat
      /\ scopes' \in Seq(Map) /\ Len(scopes') = last
      /\ h \in Bucket
      /\ \A d \in 1..last : d # last => scopes'[d] = scopes[d]
      /\ \A b \in Bucket :
            scopes'[last][b] = IF b = h THEN Append(bucket, new) ELSE scopes[last][b]
      /\ last \in 1..last
  BY DeclareIs, ChainIs DEF ScopeInv
<1>2. /\ DOMAIN scopes = 1..last /\ DOMAIN scopes' = 1..last
      /\ \A d \in 1..last : \A b \in Bucket :
            /\ DOMAIN scopes[d][b] = 1..Len(scopes[d][b])
            /\ DOMAIN scopes'[d][b] = 1..Len(scopes'[d][b])
  BY <1>1, ChainIs DEF ScopeInv
<1>3. bucket \in Seq(MapEntry) /\ new \in MapEntry
  BY <1>1, ChainIs DEF ScopeInv, MapEntry
<1>4. /\ Len(bucket) \in Nat /\ Len(scopes'[last][h]) = Len(bucket) + 1
      /\ \A i \in 1..Len(bucket) : scopes'[last][h][i] = bucket[i]
      /\ scopes'[last][h][Len(bucket) + 1] = new
  <2>1. scopes'[last][h] = Append(bucket, new)
    BY <1>1
  <2> HIDE DEF h, bucket, new
  <2> QED
    BY <1>3, <2>1, AppendProperties
<1>5. new.key = name /\ new.offset = offset /\ new.type = type
  OBVIOUS
<1> HIDE DEF offset, new, h
<1>6. DOMAIN scopes'[last][h] = 1..Len(bucket) + 1
  <2>1. last \in 1..last /\ h \in Bucket
    BY <1>1
  <2>2. DOMAIN scopes'[last][h] = 1..Len(scopes'[last][h])
    BY <1>2, <2>1
  <2> HIDE DEF last, bucket
  <2> QED
    BY <1>4, <2>2
<1>7. ASSUME NEW e \in Visible(scopes)
      PROVE  e \in Visible(scopes')
  <2>1. PICK d \in DOMAIN scopes, b \in Bucket : \E i \in DOMAIN scopes[d][b] :
           e = Seen(scopes, d, b, i)
    BY VisibleIs
  <2>2. PICK i \in DOMAIN scopes[d][b] : e = Seen(scopes, d, b, i)
    BY <2>1
  <2>3. i \in DOMAIN scopes'[d][b] /\ scopes'[d][b][i] = scopes[d][b][i]
    <3>1. CASE d = last /\ b = h
      <4>1. i \in 1..Len(bucket)
        BY <1>1, <1>2, <2>2, <3>1
      <4>2. DOMAIN scopes'[d][b] = 1..Len(bucket) + 1
        BY <1>6, <3>1
      <4> QED
        BY <1>4, <3>1, <4>1, <4>2
    <3>2. CASE d # last \/ b # h
      BY <1>1, <1>2, <2>2, <3>2
    <3> QED
      BY <3>1, <3>2
  <2>4. e = Seen(scopes', d, b, i)
    BY <2>2, <2>3 DEF Seen
  <2> QED
    BY <1>2, <2>3, <2>4, VisibleIs
<1>8. shown \in Visible(scopes')
  <2>1. /\ last \in DOMAIN scopes' /\ h \in Bucket
        /\ Len(bucket) + 1 \in DOMAIN scopes'[last][h]
    <3>1. Len(bucket) + 1 \in 1..Len(bucket) + 1
      BY <1>4
    <3> QED
      BY <1>1, <1>2, <1>6, <3>1
  <2>2. shown = Seen(scopes', last, h, Len(bucket) + 1)
    BY <1>4, <1>5 DEF Seen
  <2> QED
    BY <2>1, <2>2, VisibleIs
<1>9. ASSUME NEW e \in Visible(scopes'), e # shown
      PROVE  e \in Visible(scopes)
  <2>1. PICK d \in DOMAIN scopes', b \in Bucket : \E i \in DOMAIN scopes'[d][b] :
           e = Seen(scopes', d, b, i)
    BY VisibleIs
  <2>2. PICK i \in DOMAIN scopes'[d][b] : e = Seen(scopes', d, b, i)
    BY <2>1
  <2>3. i \in DOMAIN scopes[d][b] /\ scopes'[d][b][i] = scopes[d][b][i]
    <3>1. CASE d = last /\ b = h
      <4>1. i # Len(bucket) + 1
        BY <1>4, <1>5, <1>9, <2>2, <3>1 DEF Seen
      <4>2. i \in 1..Len(bucket) + 1
        BY <1>6, <2>2, <3>1
      <4>3. i \in 1..Len(bucket)
        BY <1>4, <4>1, <4>2
      <4>4. DOMAIN bucket = 1..Len(bucket)
        BY <1>3
      <4> QED
        BY <1>4, <3>1, <4>3, <4>4
    <3>2. CASE d # last \/ b # h
      BY <1>1, <1>2, <2>2, <3>2
    <3> QED
      BY <3>1, <3>2
  <2>4. e = Seen(scopes, d, b, i)
    BY <2>2, <2>3 DEF Seen
  <2> QED
    BY <1>2, <2>3, <2>4, VisibleIs
<1>10. Visible(scopes') = Visible(scopes) \cup {shown}
  BY <1>7, <1>8, <1>9
<1> QED
  BY <1>10 DEF offset

\* Nothing is visible in an empty scope.
LEMMA PushShows ==
    ASSUME ScopeInv, Push
    PROVE  Visible(scopes') = Visible(scopes) /\ Len(scopes') = Len(scopes) + 1
<1>1. /\ scopes' = Append(scopes, EmptyMap) /\ Len(scopes) \in Nat
      /\ DOMAIN scopes = 1..Len(scopes)
  BY ChainIs DEF Push, ScopeInv
<1>2. /\ Len(scopes') = Len(scopes) + 1 /\ DOMAIN scopes' = 1..Len(scopes) + 1
      /\ \A d \in 1..Len(scopes) : scopes'[d] = scopes[d]
      /\ scopes'[Len(scopes) + 1] = EmptyMap
  BY <1>1, EmptyMapOK, AppendProperties DEF ScopeInv
<1>3. \A b \in Bucket : DOMAIN EmptyMap[b] = {}
  BY DEF EmptyMap
<1>4. ASSUME NEW e \in Visible(scopes)
      PROVE  e \in Visible(scopes')
  <2>1. PICK d \in DOMAIN scopes, b \in Bucket : \E i \in DOMAIN scopes[d][b] :
           e = Seen(scopes, d, b, i)
    BY VisibleIs
  <2>2. d \in DOMAIN scopes' /\ scopes'[d] = scopes[d]
    BY <1>1, <1>2
  <2> QED
    BY <2>1, <2>2, VisibleIs DEF Seen
<1>5. ASSUME NEW e \in Visible(scopes')
      PROVE  e \in Visible(scopes)
  <2>1. PICK d \in DOMAIN scopes', b \in Bucket : \E i \in DOMAIN scopes'[d][b] :
           e = Seen(scopes', d, b, i)
    BY VisibleIs
  <2>2. d # Len(scopes) + 1
    BY <1>2, <1>3, <2>1
  <2>3. d \in DOMAIN scopes /\ scopes'[d] = scopes[d]
    BY <1>1, <1>2, <2>2
  <2> QED
    BY <2>1, <2>3, VisibleIs DEF Seen
<1> QED
  BY <1>2, <1>4, <1>5

\* scope_pop takes away the entries of the innermost scope, and no others.
LEMMA PopShows ==
    ASSUME ScopeInv, Pop
    PROVE  /\ Visible(scopes') = {e \in Visible(scopes) : e.depth < Len(scopes)}
           /\ Len(scopes') = Len(scopes) - 1
<1>1. /\ scopes' = SubSeq(scopes, 1, Len(scopes) - 1) /\ Len(scopes) > 1
      /\ Len(scopes) \in Nat /\ DOMAIN scopes = 1..Len(scopes)
  BY ChainIs DEF Pop, ScopeInv
<1>2. /\ Len(scopes') = Len(scopes) - 1 /\ DOMAIN scopes' = 1..Len(scopes) - 1
      /\ \A d \in 1..Len(scopes) - 1 : scopes'[d] = scopes[d]
  BY <1>1 DEF ScopeInv
<1>3. ASSUME NEW e \in Visible(scopes), e.depth < Len(scopes)
      PROVE  e \in Visible(scopes')
  <2>1. PICK d \in DOMAIN scopes, b \in Bucket : \E i \in DOMAIN scopes[d][b] :
           e = Seen(scopes, d, b, i)
    BY VisibleIs
  <2>2. e.depth = d
    BY <2>1 DEF Seen
  <2>3. d \in DOMAIN scopes' /\ scopes'[d] = scopes[d]
    BY <1>1, <1>2, <1>3, <2>2
  <2> QED
    BY <2>1, <2>3, VisibleIs DEF Seen
<1>4. ASSUME NEW e \in Visible(scopes')
      PROVE  e \in Visible(scopes) /\ e.depth < Len(scopes)
  <2>1. PICK d \in DOMAIN scopes', b \in Bucket : \E i \in DOMAIN scopes'[d][b] :
           e = Seen(scopes', d, b, i)
    BY VisibleIs
  <2>2. e.depth = d
    BY <2>1 DEF Seen
  <2>3. d \in DOMAIN scopes /\ scopes'[d] = scopes[d] /\ d < Len(scopes)
    BY <1>1, <1>2
  <2> QED
    BY <2>1, <2>2, <2>3, VisibleIs DEF Seen
<1> QED
  BY <1>2, <1>3, <1>4

\* One empty scope, as after scope_init and scope_new.
LEMMA EmptyShows == Visible(<<EmptyMap>>) = {} /\ Len(<<EmptyMap>>) = 1
<1>1. DOMAIN <<EmptyMap>> = {1} /\ <<EmptyMap>>[1] = EmptyMap
  OBVIOUS
<1>2. \A b \in Bucket : DOMAIN EmptyMap[b] = {}
  BY DEF EmptyMap
<1>3. ASSUME NEW e \in Visible(<<EmptyMap>>)
      PROVE  FALSE
  BY <1>1, <1>2, VisibleIs
<1> QED
  BY <1>3

\* "Redefinition of variable": the map of the current scope has the key.
LEMMA RedefinitionIsMapped ==
    ASSUME ScopeInv, NEW name \in Name
    PROVE  Frame!Redefinition(name) <=> Mapped(scopes[Current], name)
<1>1. Len(scopes) \in 1..Len(scopes)
  BY ChainIs DEF ScopeInv
<1>2. Frame!Redefinition(name) <=>
          \E e \in Visible(scopes) : e.depth = Len(scopes) /\ e.name = name
  BY DEF Frame!Redefinition, Visible
<1> QED
  BY <1>1, <1>2, MappedIsVisible DEF Current

LEMMA StepIsFrameStep ==
    ScopeInv /\ [Next]_vars => [Frame!Next]_(Frame!vars)
<1> SUFFICES ASSUME ScopeInv, [Next]_vars PROVE [Frame!Next]_(Frame!vars)
  OBVIOUS
<1>1. ASSUME NEW name \in Name, NEW type \in Type, Declare(name, type)
      PROVE  Frame!Declare(name, type)
  <2>1. ~Frame!Redefinition(name)
    BY <1>1, RedefinitionIsMapped DEF Declare
  <2>2. Len(scopes') = Len(scopes)
    BY <1>1, DeclareIs
  <2>3. Visible(scopes') =
            Visible(scopes) \cup
            {[depth |-> Len(scopes), name |-> name,
              offset |-> stackOffset + Frame!SlotSize(type), type |-> type]}
    BY <1>1, DeclareShows
  <2> QED
    BY <1>1, <2>1, <2>2, <2>3 DEF Declare, Frame!Declare, Visible
<1>2. ASSUME NEW name \in Name, DeclareFails(name)
      PROVE  Frame!DeclareFails(name)
  <2>1. Frame!Redefinition(name)
    BY <1>2, RedefinitionIsMapped DEF DeclareFails
  <2> QED
    BY <1>2, <2>1 DEF DeclareFails, Frame!DeclareFails
<1>3. ASSUME Push
      PROVE  Frame!Push
  BY <1>3, PushShows DEF Push, Frame!Push, Visible
<1>4. ASSUME Pop
      PROVE  Frame!Pop
  BY <1>4, PopShows DEF Pop, Frame!Pop, Visible
<1>5. ASSUME New
      PROVE  Frame!New
  <2>1. Visible(scopes') = {} /\ Len(scopes') = 1
    BY <1>5, EmptyShows DEF New
  <2> QED
    BY <1>5, <2>1 DEF New, Frame!New, Visible
<1>6. ASSUME Stopped
      PROVE  Frame!Stopped
  BY <1>6 DEF Stopped, Frame!Stopped, vars, Frame!vars
<1>7. ASSUME UNCHANGED vars
      PROVE  UNCHANGED Frame!vars
  BY <1>7 DEF vars, Frame!vars
<1> QED
  BY <1>1, <1>2, <1>3, <1>4, <1>5, <1>6, <1>7 DEF Next, Frame!Next

\* Whatever the hash function, every behaviour of the chain of hash maps is one
\* of the lexical environment.
THEOREM ScopeRefinesFrame == Spec => ImplementsFrameLayout
<1>1. Init => Frame!Init
  BY EmptyShows DEF Init, Frame!Init, Visible
<1> QED
  BY <1>1, StepIsFrameStep, ScopeInvariant, PTL DEF Spec, ImplementsFrameLayout, Frame!Spec

------------------------------------------------------------------------------
(* The lookup of scope_resolve_variable. *)

\* A set of depths of the chain has a greatest one.
LEMMA GreatestDepth ==
    ASSUME NEW n \in Nat, NEW ds, ds \subseteq 1..n, ds # {}
    PROVE  \E d \in ds : \A c \in ds : c <= d
<1> DEFINE Above == {n - d : d \in ds}
<1>1. Above \subseteq Nat /\ Above # {}
  <2>1. PICK d \in ds : TRUE
    OBVIOUS
  <2>2. n - d \in Above
    OBVIOUS
  <2>3. \A c \in ds : n - c \in Nat
    OBVIOUS
  <2> QED
    BY <2>2, <2>3
<1>2. PICK a \in Above : \A b \in Above : ~(<<b, a>> \in OpToRel(<, Nat))
  <2> HIDE DEF Above
  <2> QED
    BY <1>1, WFMin, NatLessThanWellFounded, Zenon
<1>3. \A b \in Above : ~(b < a)
  BY <1>1, <1>2 DEF OpToRel
<1>4. PICK d \in ds : a = n - d
  OBVIOUS
<1>5. ASSUME NEW c \in ds
      PROVE  c <= d
  <2>1. n - c \in Above
    OBVIOUS
  <2>2. ~(n - c < n - d)
    BY <1>3, <1>4, <2>1
  <2> QED
    BY <2>2
<1> QED
  BY <1>5

\* The scopes that hold a name are the depths of its visible entries.
LEMMA HoldersAre ==
    ASSUME ScopeInv, NEW name \in Name
    PROVE  /\ Holders(name) \subseteq 1..Len(scopes)
           /\ \A d \in 1..Len(scopes) :
                 d \in Holders(name) <=>
                     \E e \in Visible(scopes) : e.depth = d /\ e.name = name
           /\ \A e \in Visible(scopes) : e.depth \in 1..Len(scopes)
<1>1. DOMAIN scopes = 1..Len(scopes)
  BY ChainIs DEF ScopeInv
<1>2. \A e \in Visible(scopes) : e.depth \in 1..Len(scopes)
  BY <1>1, VisibleIs DEF Seen
<1> QED
  BY <1>1, <1>2, MappedIsVisible DEF Holders

LEMMA LookupIsLexical == ScopeInv => ResolvesLexically
<1> SUFFICES ASSUME ScopeInv, NEW name \in Name
             PROVE  /\ (Holders(name) = {}) <=> (Frame!Resolutions(name) = {})
                    /\ \A e \in Frame!Resolutions(name) :
                          Resolve(name) = [key |-> e.name, offset |-> e.offset,
                                           type |-> e.type]
  BY DEF ResolvesLexically
<1>1. Frame!Resolutions(name) =
          {e \in Visible(scopes) :
              /\ e.name = name
              /\ \A f \in Visible(scopes) : f.name = name => f.depth <= e.depth}
  BY DEF Frame!Resolutions, Visible
<1>2. Len(scopes) \in Nat /\ DOMAIN scopes = 1..Len(scopes)
  BY ChainIs DEF ScopeInv
<1>3. ASSUME Holders(name) # {}
      PROVE  Frame!Resolutions(name) # {}
  <2>1. PICK d \in Holders(name) : \A c \in Holders(name) : c <= d
    BY <1>2, <1>3, HoldersAre, GreatestDepth
  <2>2. PICK e \in Visible(scopes) : e.depth = d /\ e.name = name
    BY HoldersAre
  <2>3. \A f \in Visible(scopes) : f.name = name => f.depth <= e.depth
    BY <2>1, <2>2, HoldersAre
  <2> QED
    BY <1>1, <2>2, <2>3
<1>4. ASSUME NEW e \in Frame!Resolutions(name)
      PROVE  /\ Holders(name) # {}
             /\ Resolve(name) = [key |-> e.name, offset |-> e.offset, type |-> e.type]
  <2>1. /\ e \in Visible(scopes) /\ e.name = name
        /\ \A f \in Visible(scopes) : f.name = name => f.depth <= e.depth
    BY <1>1, <1>4
  <2>2. e.depth \in Holders(name) /\ \A c \in Holders(name) : c <= e.depth
    BY <2>1, HoldersAre
  <2>3. Innermost(Holders(name)) = e.depth
    <3>1. ASSUME NEW d \in Holders(name), \A c \in Holders(name) : c <= d
          PROVE  d = e.depth
      <4>1. d \in Int /\ e.depth \in Int /\ d <= e.depth /\ e.depth <= d
        BY <2>2, <3>1, HoldersAre
      <4> QED
        BY <4>1
    <3> QED
      BY <2>2, <3>1 DEF Innermost
  <2>4. PICK d \in DOMAIN scopes, b \in Bucket : \E i \in DOMAIN scopes[d][b] :
           e = Seen(scopes, d, b, i)
    BY <2>1, VisibleIs
  <2>5. PICK i \in DOMAIN scopes[d][b] : e = Seen(scopes, d, b, i)
    BY <2>4
  <2>6. /\ e.depth = d /\ scopes[d][b][i].key = name
        /\ e.offset = scopes[d][b][i].offset /\ e.type = scopes[d][b][i].type
    BY <2>1, <2>5 DEF Seen
  <2>7. /\ d \in 1..Len(scopes) /\ DOMAIN scopes[d][b] = 1..Len(scopes[d][b])
        /\ scopes[d][b] \in Seq(MapEntry)
    BY <1>2, ChainIs DEF ScopeInv
  <2>8. HashOf[name] = b
    BY <2>5, <2>6, <2>7 DEF ScopeInv, MapOK
  <2>9. Matches(scopes[d], name) = {i}
    <3>1. \A j \in DOMAIN scopes[d][b] : scopes[d][b][j].key = name => j = i
      BY <2>5, <2>6, <2>7 DEF ScopeInv, MapOK
    <3> QED
      BY <2>5, <2>6, <2>8, <3>1 DEF Matches
  <2>10. MapGet(scopes[d], name) = scopes[d][b][i]
    <3>1. i <= i
      BY <2>5, <2>7
    <3>2. (CHOOSE k \in Matches(scopes[d], name) :
              \A j \in Matches(scopes[d], name) : k <= j) = i
      BY <2>9, <3>1
    <3> QED
      BY <2>8, <3>2 DEF MapGet
  <2>11. scopes[d][b][i] \in MapEntry
    BY <2>5, <2>7, ElementOfSeq
  <2>12. scopes[d][b][i] = [key |-> e.name, offset |-> e.offset, type |-> e.type]
    BY <2>1, <2>6, <2>11 DEF MapEntry
  <2> QED
    BY <2>2, <2>3, <2>6, <2>10, <2>12 DEF Resolve
<1> QED
  BY <1>3, <1>4

\* An identifier resolves to the innermost visible declaration of its name, and
\* to one whenever there is one, through any buckets and parents.
THEOREM LookupsAreLexical == Spec => []ResolvesLexically
  BY ScopeInvariant, LookupIsLexical, PTL
==============================================================================
