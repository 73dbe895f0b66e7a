-------------------------- MODULE ObjectCodeProofs ----------------------------
(***************************************************************************)
(* Jumps, relocations and symbols of ObjectCode mean the right bytes for   *)
(* every program: any number of functions, labels and instructions of any  *)
(* size.                                                                   *)
(*                                                                         *)
(* The invariant names the state that the offsets of a function under way  *)
(* are relative to: the byte with identity Base is the first one of the    *)
(* buffer, and offset o of the buffer is the byte Base + o, until the      *)
(* function ends and its code moves.                                       *)
(***************************************************************************)
EXTENDS ObjectCode, SequenceTheorems, TLAPS

\* The identity of the first byte of the buffer.
Base == nextId - Len(buf)

\* The bytes emitted so far: those of the buffer in order and not yet patched,
\* those of finished functions before them.
CodeInv ==
    /\ buf \in Seq(Cell)
    /\ text \in Seq(Cell)
    /\ nextId \in Nat
    /\ Base >= 1
    /\ \A k \in 1..Len(buf) : buf[k] = [id |-> Base + k - 1, v |-> 0]
    /\ \A a \in 1..Len(text) : text[a].id < Base

\* A pending relocation has a label and a field of its own inside the buffer.
PendingInv ==
    /\ definitions \in Seq(Nat)
    /\ pendingRelocs \subseteq [label : 1..Len(definitions), offset : Nat]
    /\ \A p \in pendingRelocs : p.offset + 4 <= Len(buf)
    /\ \A p, q \in pendingRelocs : p.offset = q.offset => p = q

\* The labels of open statements are distinct: the end of a statement, not yet
\* defined, is the label of its exit jump and of no start, and the start of a
\* loop is defined as the byte the loop starts with.
OpenInv ==
    /\ open \in Seq([startLabel : 0..Len(definitions),
                     endLabel : 1..Len(definitions), start : Nat, exit : Nat])
    /\ \A i, j \in 1..Len(open) :
          /\ open[i].endLabel = open[j].endLabel => i = j
          /\ open[i].endLabel # open[j].startLabel
    /\ \A i \in 1..Len(open) :
          /\ open[i].startLabel # 0 =>
                /\ Base <= open[i].start /\ open[i].start <= nextId
                /\ definitions[open[i].startLabel] = open[i].start - Base
          /\ open[i].exit # 0 =>
                /\ open[i].exit >= Base
                /\ [label |-> open[i].endLabel, offset |-> open[i].exit - Base]
                      \in pendingRelocs

\* A jump of the function under way waits for its relocation, whose label is
\* defined as the byte the jump goes to and will not be defined again.
Waiting(j) ==
    /\ Base <= j.target /\ j.target <= nextId
    /\ j.site >= Base
    /\ \E p \in pendingRelocs :
          /\ p.offset = j.site - Base
          /\ definitions[p.label] = j.target - Base
          /\ \A i \in 1..Len(open) : open[i].endLabel # p.label

\* A jump lies with its target in finished code, or waits.
JumpInv ==
    /\ jumps \subseteq [site : Nat \ {0}, target : Nat \ {0}]
    /\ \A j \in jumps : (j.site < Base /\ j.target < Base) \/ Waiting(j)

\* Nothing waits to be patched but a jump or the exit of an open statement.
PatchInv ==
    \A p \in pendingRelocs :
        \/ \E j \in jumps : j.site = Base + p.offset
        \/ \E i \in 1..Len(open) : open[i].exit = Base + p.offset

RelaEntry == [symbol : Name \cup {".rodata"}, addend : Int,
              offset : Nat, site : Nat, literal : Nat]

\* What is left to the linker.
LinkInv ==
    /\ relas \in Seq(RelaEntry)
    /\ lastAdjusted \in 0..Len(relas)
    /\ RelasAtFields

\* The symbols, with the type of what SymbolsTile relates.
SymbolInv ==
    /\ symbols \in Seq([name : Name, value : Nat, size : Nat])
    /\ SymbolsTile

\* The strings, likewise.
StringInv ==
    /\ rodata \in Seq([literal : Nat, byte : Nat])
    /\ StringsAddressed

\* The inductive invariant.
CodeInvariant ==
    /\ CodeInv
    /\ PendingInv
    /\ OpenInv
    /\ JumpInv
    /\ PatchInv
    /\ LinkInv
    /\ SymbolInv
    /\ StringInv
    /\ JumpsLand
    /\ NoStrayPatch
    /\ dumped \in BOOLEAN

------------------------------------------------------------------------------

\* compile_program starts with empty buffers.
LEMMA CodeInit == Init => CodeInvariant
<1> SUFFICES ASSUME Init PROVE CodeInvariant
  OBVIOUS
<1> USE DEF Init
<1>1. CodeInv
  BY DEF CodeInv, Base
<1>2. PendingInv /\ OpenInv
  BY DEF PendingInv, OpenInv
<1>3. JumpInv /\ PatchInv
  BY DEF JumpInv, PatchInv
<1>4. LinkInv
  BY DEF LinkInv, RelasAtFields
<1>5. SymbolInv /\ StringInv
  BY DEF SymbolInv, StringInv, SymbolsTile, StringsAddressed
<1>6. JumpsLand /\ NoStrayPatch
  BY DEF JumpsLand, NoStrayPatch
<1> QED
  BY <1>1, <1>2, <1>3, <1>4, <1>5, <1>6 DEF CodeInvariant

------------------------------------------------------------------------------
(***************************************************************************)
(* Emitting bytes.                                                         *)
(***************************************************************************)

\* compiler_writeb extends the buffer and moves nothing in it.
LEMMA WriteExtends ==
    ASSUME CodeInv, NEW n \in Nat, Write(n)
    PROVE  /\ Len(buf') = Len(buf) + n
           /\ nextId' = nextId + n
           /\ Base' = Base
           /\ Base \in Nat
           /\ buf' \in Seq(Cell)
           /\ \A k \in 1..Len(buf') : buf'[k] = [id |-> Base + k - 1, v |-> 0]
<1>1. Len(buf) \in Nat /\ nextId \in Nat /\ Base \in Nat
  BY LenProperties DEF CodeInv, Base
<1>2. /\ Bytes(n) \in Seq(Cell)
      /\ Len(Bytes(n)) = n
      /\ \A k \in 1..n : Bytes(n)[k] = [id |-> nextId + k - 1, v |-> 0]
  BY <1>1 DEF Bytes, Cell
<1>3. /\ buf' \in Seq(Cell)
      /\ Len(buf') = Len(buf) + n
      /\ \A k \in 1..Len(buf) + n :
            buf'[k] = IF k <= Len(buf) THEN buf[k] ELSE Bytes(n)[k - Len(buf)]
  <2>1. buf' = buf \o Bytes(n) /\ buf \in Seq(Cell)
    BY DEF Write, CodeInv
  <2>2. /\ buf \o Bytes(n) \in Seq(Cell)
        /\ Len(buf \o Bytes(n)) = Len(buf) + Len(Bytes(n))
        /\ \A k \in 1..Len(buf) + Len(Bytes(n)) :
              (buf \o Bytes(n))[k] =
                  IF k <= Len(buf) THEN buf[k] ELSE Bytes(n)[k - Len(buf)]
    BY <1>2, <2>1, ConcatProperties
  <2> QED
    BY <1>2, <2>1, <2>2
<1>4. nextId' = nextId + n /\ Base' = Base
  BY <1>1, <1>3 DEF Write, Base
<1>5. ASSUME NEW k \in 1..Len(buf')
      PROVE  buf'[k] = [id |-> Base + k - 1, v |-> 0]
  <2>1. CASE k <= Len(buf)
    <3>1. k \in 1..Len(buf)
      BY <1>1, <1>3, <2>1
    <3>2. buf'[k] = buf[k]
      BY <1>1, <1>3, <2>1
    <3> QED
      BY <3>1, <3>2 DEF CodeInv
  <2>2. CASE k > Len(buf)
    <3>1. k - Len(buf) \in 1..n
      BY <1>1, <1>3, <2>2
    <3>2. nextId + (k - Len(buf)) - 1 = Base + k - 1
      BY <1>1 DEF Base
    <3> QED
      <4>1. buf'[k] = Bytes(n)[k - Len(buf)]
        BY <1>1, <1>3, <2>2
      <4> QED
        BY <1>2, <3>1, <3>2, <4>1
  <2> QED
    BY <1>1, <1>3, <2>1, <2>2
<1> QED
  BY <1>1, <1>3, <1>4, <1>5

\* Bytes that are no part of a jump disturb no jump.
LEMMA GrowthKeepsJumps ==
    ASSUME CodeInvariant, NEW n \in Nat, Write(n),
           UNCHANGED <<definitions, pendingRelocs, text, open, jumps>>
    PROVE  /\ CodeInv' /\ PendingInv' /\ OpenInv' /\ JumpInv' /\ PatchInv'
           /\ JumpsLand' /\ NoStrayPatch'
<1>1. /\ Len(buf') = Len(buf) + n
      /\ nextId' = nextId + n
      /\ Base' = Base
      /\ Base \in Nat
      /\ buf' \in Seq(Cell)
      /\ \A k \in 1..Len(buf') : buf'[k] = [id |-> Base + k - 1, v |-> 0]
  BY WriteExtends DEF CodeInvariant
<1>2. Len(buf) \in Nat /\ nextId \in Nat
  BY LenProperties DEF CodeInvariant, CodeInv
<1>3. CodeInv'
  BY <1>1, <1>2 DEF CodeInvariant, CodeInv
<1>4. PendingInv'
  BY <1>1, <1>2 DEF CodeInvariant, PendingInv
<1>5. OpenInv'
  <2>1. OpenInv
    BY DEF CodeInvariant
  <2>2. ASSUME NEW i \in 1..Len(open), open[i].start <= nextId
        PROVE  open[i].start <= nextId'
    <3>1. open[i] \in [startLabel : 0..Len(definitions),
                      endLabel : 1..Len(definitions), start : Nat, exit : Nat]
      BY <2>1, ElementOfSeq DEF OpenInv
    <3> QED
      BY <1>1, <1>2, <2>2, <3>1
  <2> QED
    BY <1>1, <2>1, <2>2 DEF OpenInv
<1>6. JumpInv'
  <2>1. JumpInv
    BY DEF CodeInvariant
  <2>2. ASSUME NEW j \in jumps, Waiting(j)
        PROVE  Waiting(j)'
    <3>1. j.target <= nextId'
      BY <1>1, <1>2, <2>1, <2>2 DEF Waiting, JumpInv
    <3> QED
      BY <1>1, <2>2, <3>1 DEF Waiting
  <2> QED
    BY <1>1, <2>1, <2>2 DEF JumpInv
<1>7. PatchInv'
  BY <1>1, <1>2 DEF CodeInvariant, PatchInv
<1>8. JumpsLand' /\ NoStrayPatch'
  BY DEF CodeInvariant, JumpsLand, NoStrayPatch
<1> QED
  BY <1>3, <1>4, <1>5, <1>6, <1>7, <1>8

\* The fields of a relocation, and where RelasAtFields puts it.
LEMMA RelaFields ==
    ASSUME LinkInv, NEW i \in 1..Len(relas)
    PROVE  /\ Len(relas) \in Nat /\ DOMAIN relas = 1..Len(relas)
           /\ lastAdjusted \in Nat /\ lastAdjusted <= Len(relas)
           /\ relas[i] \in RelaEntry
           /\ relas[i].offset \in Nat /\ relas[i].site \in Nat
           /\ relas[i].addend \in Int /\ relas[i].literal \in Nat
           /\ i <= lastAdjusted =>
                 /\ relas[i].offset < Len(text)
                 /\ text[relas[i].offset + 1].id = relas[i].site
           /\ i > lastAdjusted =>
                 /\ globalSize <= relas[i].offset
                 /\ relas[i].offset - globalSize < Len(buf)
                 /\ buf[relas[i].offset - globalSize + 1].id = relas[i].site
<1>1. /\ relas \in Seq(RelaEntry)
      /\ Len(relas) \in Nat /\ DOMAIN relas = 1..Len(relas)
      /\ lastAdjusted \in Nat /\ lastAdjusted <= Len(relas)
  BY LenProperties DEF LinkInv
<1>2. relas[i] \in RelaEntry
  BY <1>1, ElementOfSeq
<1>3. /\ relas[i].offset \in Nat /\ relas[i].site \in Nat
      /\ relas[i].addend \in Int /\ relas[i].literal \in Nat
  BY <1>2 DEF RelaEntry
<1>4. IF i <= lastAdjusted
      THEN /\ relas[i].offset < Len(text)
           /\ text[relas[i].offset + 1].id = relas[i].site
      ELSE /\ globalSize <= relas[i].offset
           /\ relas[i].offset - globalSize < Len(buf)
           /\ buf[relas[i].offset - globalSize + 1].id = relas[i].site
  <2>1. RelasAtFields
    BY DEF LinkInv
  <2> QED
    BY <1>1, <2>1 DEF RelasAtFields
<1>5. i \in Nat
  OBVIOUS
<1> QED
  BY <1>1, <1>2, <1>3, <1>4, <1>5

\* A byte of the buffer stays where it is while the buffer grows.
LEMMA GrowthKeepsBytes ==
    ASSUME CodeInv, NEW n \in Nat, Write(n), NEW o \in Nat, o < Len(buf)
    PROVE  o < Len(buf') /\ buf'[o + 1] = buf[o + 1]
<1>1. /\ Len(buf') = Len(buf) + n
      /\ \A k \in 1..Len(buf') : buf'[k] = [id |-> Base + k - 1, v |-> 0]
  BY WriteExtends
<1>2. /\ Len(buf) \in Nat
      /\ \A k \in 1..Len(buf) : buf[k] = [id |-> Base + k - 1, v |-> 0]
  BY LenProperties DEF CodeInv
<1>3. o + 1 \in 1..Len(buf) /\ o + 1 \in 1..Len(buf') /\ o < Len(buf')
  BY <1>1, <1>2
<1> QED
  BY <1>1, <1>2, <1>3

\* What waits for the linker stays where it is while the buffer grows.
LEMMA GrowthKeepsRelas ==
    ASSUME CodeInvariant, NEW n \in Nat, Write(n),
           NEW i \in 1..Len(relas), i > lastAdjusted
    PROVE  /\ globalSize <= relas[i].offset
           /\ relas[i].offset - globalSize < Len(buf')
           /\ buf'[relas[i].offset - globalSize + 1].id = relas[i].site
<1> DEFINE o == relas[i].offset - globalSize
<1>1. /\ globalSize <= relas[i].offset /\ o < Len(buf)
      /\ buf[o + 1].id = relas[i].site /\ relas[i].offset \in Nat
  BY RelaFields DEF CodeInvariant
<1>2. o \in Nat
  <2>1. globalSize \in Nat
    BY LenProperties DEF CodeInvariant, CodeInv, SymbolInv, SymbolsTile
  <2> QED
    BY <1>1, <2>1
<1>3. o < Len(buf') /\ buf'[o + 1] = buf[o + 1]
  <2> HIDE DEF o
  <2> QED
    BY <1>1, <1>2, GrowthKeepsBytes DEF CodeInvariant
<1> QED
  BY <1>1, <1>3

\* So LinkInv is kept by bytes without a relocation.
LEMMA GrowthKeepsLink ==
    ASSUME CodeInvariant, NEW n \in Nat, Write(n),
           UNCHANGED <<relas, lastAdjusted, text, globalSize>>
    PROVE  LinkInv'
<1>1. LinkInv
  BY DEF CodeInvariant
<1>2. RelasAtFields'
  <2> SUFFICES ASSUME NEW i \in 1..Len(relas)
               PROVE  IF i <= lastAdjusted
                      THEN /\ relas[i].offset < Len(text)
                           /\ text[relas[i].offset + 1].id = relas[i].site
                      ELSE /\ globalSize <= relas[i].offset
                           /\ relas[i].offset - globalSize < Len(buf')
                           /\ buf'[relas[i].offset - globalSize + 1].id
                                = relas[i].site
    BY <1>1, LenProperties DEF RelasAtFields, LinkInv
  <2>1. i \in Nat /\ lastAdjusted \in Nat
    BY <1>1, RelaFields
  <2>2. CASE i <= lastAdjusted
    BY <1>1, <2>1, <2>2, RelaFields
  <2>3. CASE i > lastAdjusted
    BY <2>1, <2>3, GrowthKeepsRelas
  <2> QED
    BY <2>1, <2>2, <2>3
<1> QED
  BY <1>1, <1>2 DEF LinkInv

\* A relocation for the linker names the field emitted with it.
LEMMA RelaKeepsLink ==
    ASSUME CodeInvariant, NEW opcode \in Nat,
           NEW symbol \in Name \cup {".rodata"}, NEW addend \in Int,
           NEW literal \in Nat, Rela(opcode, symbol, addend, literal),
           UNCHANGED <<lastAdjusted, text, globalSize>>
    PROVE  LinkInv'
<1> DEFINE rela == [symbol |-> symbol, addend |-> addend,
                    offset |-> globalSize + Len(buf) + opcode,
                    site |-> nextId + opcode, literal |-> literal]
<1>1. opcode + 4 \in Nat /\ Write(opcode + 4) /\ relas' = Append(relas, rela)
  BY DEF Rela
<1>2. /\ Len(buf') = Len(buf) + (opcode + 4)
      /\ \A k \in 1..Len(buf') : buf'[k] = [id |-> Base + k - 1, v |-> 0]
  BY <1>1, WriteExtends DEF CodeInvariant
<1>3. /\ LinkInv /\ Len(buf) \in Nat /\ nextId \in Nat
      /\ relas \in Seq(RelaEntry) /\ Len(relas) \in Nat
      /\ globalSize \in Nat /\ lastAdjusted \in 0..Len(relas)
  BY LenProperties DEF CodeInvariant, CodeInv, LinkInv, SymbolInv, SymbolsTile
<1>4. /\ rela \in RelaEntry /\ rela.site = nextId + opcode
      /\ rela.offset = globalSize + Len(buf) + opcode
  BY <1>3 DEF RelaEntry
<1>5. /\ relas' \in Seq(RelaEntry)
      /\ Len(relas') = Len(relas) + 1
      /\ DOMAIN relas' = 1..Len(relas) + 1
      /\ \A i \in 1..Len(relas) : relas'[i] = relas[i]
      /\ relas'[Len(relas) + 1] = rela
  <2> HIDE DEF rela
  <2> QED
    BY <1>1, <1>3, <1>4
<1> HIDE DEF rela
<1>6. /\ globalSize <= rela.offset
      /\ rela.offset - globalSize < Len(buf')
      /\ buf'[rela.offset - globalSize + 1].id = rela.site
  <2>1. rela.offset - globalSize + 1 = Len(buf) + opcode + 1
    BY <1>3, <1>4
  <2>2. Len(buf) + opcode + 1 \in 1..Len(buf')
    BY <1>2, <1>3
  <2>3. buf'[Len(buf) + opcode + 1].id = Base + (Len(buf) + opcode + 1) - 1
    BY <1>2, <2>2
  <2>4. Base + (Len(buf) + opcode + 1) - 1 = rela.site
    BY <1>3, <1>4 DEF Base
  <2> QED
    BY <1>2, <1>3, <1>4, <2>1, <2>3, <2>4
<1>7. RelasAtFields'
  <2> SUFFICES ASSUME NEW i \in 1..Len(relas) + 1
               PROVE  IF i <= lastAdjusted
                      THEN /\ relas'[i].offset < Len(text)
                           /\ text[relas'[i].offset + 1].id = relas'[i].site
                      ELSE /\ globalSize <= relas'[i].offset
                           /\ relas'[i].offset - globalSize < Len(buf')
                           /\ buf'[relas'[i].offset - globalSize + 1].id
                                = relas'[i].site
    BY <1>5 DEF RelasAtFields
  <2>1. CASE i = Len(relas) + 1
    <3>1. ~(i <= lastAdjusted) /\ relas'[i] = rela
      BY <1>3, <1>5, <2>1
    <3> QED
      BY <1>6, <3>1
  <2>2. CASE i \in 1..Len(relas)
    <3>1. relas'[i] = relas[i] /\ i \in Nat /\ lastAdjusted \in Nat
      BY <1>3, <1>5, <2>2
    <3>2. CASE i <= lastAdjusted
      BY <1>3, <2>2, <3>1, <3>2, RelaFields
    <3>3. CASE i > lastAdjusted
      BY <1>1, <2>2, <3>1, <3>3, GrowthKeepsRelas
    <3> QED
      BY <3>1, <3>2, <3>3
  <2> QED
    BY <1>3, <2>1, <2>2
<1> QED
  BY <1>3, <1>5, <1>7 DEF LinkInv

\* The strings stay where their relocations expect them while relocations are
\* added for something else, or only move.
LEMMA StringsKept ==
    ASSUME StringInv, UNCHANGED rodata,
           \A i \in DOMAIN relas' :
               \/ relas'[i].literal = 0
               \/ /\ i \in DOMAIN relas
                  /\ relas'[i].literal = relas[i].literal
                  /\ relas'[i].addend = relas[i].addend
    PROVE  StringInv'
<1>1. rodata' \in Seq([literal : Nat, byte : Nat])
  BY DEF StringInv
<1>2. ASSUME NEW i \in DOMAIN relas', relas'[i].literal # 0
      PROVE  /\ relas'[i].addend + 4 \in 0..Len(rodata') - 1
             /\ rodata'[relas'[i].addend + 5] =
                   [literal |-> relas'[i].literal, byte |-> 1]
  <2>1. /\ i \in DOMAIN relas
        /\ relas'[i].literal = relas[i].literal
        /\ relas'[i].addend = relas[i].addend
    BY <1>2
  <2>2. /\ relas[i].addend + 4 \in 0..Len(rodata) - 1
        /\ rodata[relas[i].addend + 5] =
              [literal |-> relas[i].literal, byte |-> 1]
    BY <1>2, <2>1 DEF StringInv, StringsAddressed
  <2> QED
    BY <2>1, <2>2
<1> QED
  BY <1>1, <1>2 DEF StringInv, StringsAddressed

\* An instruction without a relocation.
LEMMA EmitStep ==
    ASSUME CodeInvariant, NEW n \in CodeSizes, Emit(n)
    PROVE  CodeInvariant'
<1>1. n \in Nat /\ Write(n)
  BY SizesAssumption DEF Emit
<1>2. UNCHANGED <<definitions, pendingRelocs, relas, lastAdjusted, rodata,
                  text, globalSize, symbols, open, dumped, jumps>>
  BY DEF Emit
<1>3. /\ CodeInv' /\ PendingInv' /\ OpenInv' /\ JumpInv' /\ PatchInv'
      /\ JumpsLand' /\ NoStrayPatch'
  BY <1>1, <1>2, GrowthKeepsJumps
<1>4. LinkInv'
  BY <1>1, <1>2, GrowthKeepsLink
<1>5. SymbolInv' /\ StringInv' /\ dumped' \in BOOLEAN
  BY <1>2 DEF CodeInvariant, SymbolInv, SymbolsTile, StringInv, StringsAddressed
<1> QED
  BY <1>3, <1>4, <1>5 DEF CodeInvariant

\* A call.
LEMMA CallStep ==
    ASSUME CodeInvariant, NEW name \in Name, Call(name)
    PROVE  CodeInvariant'
<1>1. /\ Rela(1, name, -4, 0)
      /\ Write(5)
      /\ relas' = Append(relas, [symbol |-> name, addend |-> -4,
                                 offset |-> globalSize + Len(buf) + 1,
                                 site |-> nextId + 1, literal |-> 0])
  BY DEF Call, Rela
<1>2. UNCHANGED <<definitions, pendingRelocs, lastAdjusted, rodata, text,
                  globalSize, symbols, open, dumped, jumps>>
  BY DEF Call
<1>3. /\ CodeInv' /\ PendingInv' /\ OpenInv' /\ JumpInv' /\ PatchInv'
      /\ JumpsLand' /\ NoStrayPatch'
  BY <1>1, <1>2, GrowthKeepsJumps
<1>4. LinkInv'
  BY <1>1, <1>2, RelaKeepsLink
<1>5. SymbolInv' /\ dumped' \in BOOLEAN
  BY <1>2 DEF CodeInvariant, SymbolInv, SymbolsTile
<1>6. StringInv'
  <2>1. StringInv /\ LinkInv
    BY DEF CodeInvariant
  <2>2. /\ Len(relas) \in Nat
        /\ DOMAIN relas = 1..Len(relas) /\ DOMAIN relas' = 1..Len(relas) + 1
        /\ \A i \in 1..Len(relas) : relas'[i] = relas[i]
        /\ relas'[Len(relas) + 1].literal = 0
    BY <1>1, <2>1, LenProperties DEF LinkInv
  <2> QED
    BY <1>2, <2>1, <2>2, StringsKept
<1> QED
  BY <1>3, <1>4, <1>5, <1>6 DEF CodeInvariant

\* A string literal.
LEMMA StringStep ==
    ASSUME CodeInvariant, NEW n \in StringSizes, StringLiteral(n)
    PROVE  CodeInvariant'
<1> DEFINE literal == Len(relas) + 1
           D == [literal : Nat, byte : Nat]
           data == [k \in 1..n |-> [literal |-> literal, byte |-> k]]
<1>1. n \in Nat \ {0}
  BY SizesAssumption
<1>2. /\ StringInv /\ LinkInv /\ rodata \in Seq(D)
      /\ Len(relas) \in Nat /\ Len(rodata) \in Nat
  BY LenProperties DEF CodeInvariant, StringInv, LinkInv
<1>3. /\ Rela(3, ".rodata", Len(rodata) - 4, literal)
      /\ Write(7)
      /\ relas' = Append(relas, [symbol |-> ".rodata", addend |-> Len(rodata) - 4,
                                 offset |-> globalSize + Len(buf) + 3,
                                 site |-> nextId + 3, literal |-> literal])
      /\ rodata' = rodata \o data
  BY DEF StringLiteral, StringOffset, Rela
<1>4. UNCHANGED <<definitions, pendingRelocs, lastAdjusted, text,
                  globalSize, symbols, open, dumped, jumps>>
  BY DEF StringLiteral
<1>5. /\ CodeInv' /\ PendingInv' /\ OpenInv' /\ JumpInv' /\ PatchInv'
      /\ JumpsLand' /\ NoStrayPatch'
  BY <1>3, <1>4, GrowthKeepsJumps
<1>6. LinkInv'
  <2>1. Len(rodata) - 4 \in Int /\ literal \in Nat /\ 3 \in Nat
    BY <1>2
  <2>2. Rela(3, ".rodata", Len(rodata) - 4, literal)
    BY <1>3
  <2> HIDE DEF literal
  <2> QED
    BY <1>4, <2>1, <2>2, RelaKeepsLink
<1>7. SymbolInv' /\ dumped' \in BOOLEAN
  BY <1>4 DEF CodeInvariant, SymbolInv, SymbolsTile
<1>8. StringInv'
  <2>1. /\ data \in Seq(D) /\ Len(data) = n
        /\ data[1] = [literal |-> literal, byte |-> 1]
    BY <1>1, <1>2
  <2>2. /\ rodata' \in Seq(D)
        /\ Len(rodata') = Len(rodata) + n
        /\ \A k \in 1..Len(rodata) : rodata'[k] = rodata[k]
        /\ rodata'[Len(rodata) + 1] = data[1]
    <3> HIDE DEF data, D
    <3>1. /\ rodata \o data \in Seq(D)
          /\ Len(rodata \o data) = Len(rodata) + Len(data)
          /\ \A k \in 1..Len(rodata) + Len(data) :
                (rodata \o data)[k] =
                    IF k <= Len(rodata) THEN rodata[k] ELSE data[k - Len(rodata)]
      BY <1>2, <2>1, ConcatProperties
    <3> QED
      BY <1>1, <1>2, <1>3, <2>1, <3>1
  <2>3. /\ DOMAIN relas = 1..Len(relas) /\ DOMAIN relas' = 1..Len(relas) + 1
        /\ \A i \in 1..Len(relas) : relas'[i] = relas[i]
        /\ relas'[Len(relas) + 1].addend = Len(rodata) - 4
        /\ relas'[Len(relas) + 1].literal = literal
    BY <1>2, <1>3, LenProperties DEF LinkInv
  <2>4. ASSUME NEW i \in 1..Len(relas), relas[i].literal # 0
        PROVE  /\ relas[i].addend + 4 \in 0..Len(rodata') - 1
               /\ rodata'[relas[i].addend + 5] =
                      [literal |-> relas[i].literal, byte |-> 1]
    <3>1. /\ relas[i].addend + 4 \in 0..Len(rodata) - 1
          /\ rodata[relas[i].addend + 5] = [literal |-> relas[i].literal,
                                            byte |-> 1]
      BY <1>2, <2>3, <2>4 DEF StringInv, StringsAddressed
    <3>2. relas[i].addend \in Int
      BY <1>2, RelaFields
    <3>3. Len(rodata) \in Nat /\ Len(rodata') = Len(rodata) + n /\ n \in Nat
      BY <1>1, <1>2, <2>2
    <3>4. /\ relas[i].addend + 5 \in 1..Len(rodata)
          /\ relas[i].addend + 4 \in 0..Len(rodata') - 1
      <4> DEFINE a == relas[i].addend
                 m == Len(rodata)
      <4>1. /\ a \in Int /\ m \in Nat /\ n \in Nat
            /\ a + 4 \in 0..m - 1 /\ Len(rodata') = m + n
        BY <3>1, <3>2, <3>3
      <4> HIDE DEF a, m
      <4>2. a + 5 \in 1..m /\ a + 4 \in 0..Len(rodata') - 1
        BY <4>1
      <4> QED
        BY <4>2 DEF a, m
    <3>5. rodata'[relas[i].addend + 5] = rodata[relas[i].addend + 5]
      BY <2>2, <3>4
    <3> QED
      BY <3>1, <3>4, <3>5
  <2>5. /\ (Len(rodata) - 4) + 4 \in 0..Len(rodata') - 1
        /\ (Len(rodata) - 4) + 5 = Len(rodata) + 1
    BY <1>1, <1>2, <2>2
  <2>6. StringsAddressed'
    <3> HIDE DEF data, D, literal
    <3> SUFFICES ASSUME NEW i \in 1..Len(relas) + 1, relas'[i].literal # 0
                 PROVE  /\ relas'[i].addend + 4 \in 0..Len(rodata') - 1
                        /\ rodata'[relas'[i].addend + 5] =
                               [literal |-> relas'[i].literal, byte |-> 1]
      BY <2>3 DEF StringsAddressed
    <3>1. CASE i \in 1..Len(relas)
      BY <2>3, <2>4, <3>1
    <3>2. CASE i = Len(relas) + 1
      BY <2>1, <2>2, <2>3, <2>5, <3>2
    <3> QED
      BY <1>2, <3>1, <3>2
  <2> QED
    BY <2>2, <2>6 DEF StringInv
<1> QED
  BY <1>5, <1>6, <1>7, <1>8 DEF CodeInvariant

------------------------------------------------------------------------------
(***************************************************************************)
(* Statements that jump.                                                   *)
(***************************************************************************)

\* A jump leaves its field where its relocation says, after all others.
LEMMA JumpEffect ==
    ASSUME CodeInvariant, NEW opcode \in Nat, NEW label, Jump(opcode, label),
           UNCHANGED <<relas, lastAdjusted, text, globalSize>>
    PROVE  /\ CodeInv' /\ LinkInv'
           /\ Base \in Nat /\ Base' = Base /\ nextId = Base + Len(buf)
           /\ Len(buf) \in Nat /\ Len(buf') = Len(buf) + opcode + 4
           /\ nextId \in Nat /\ nextId' = nextId + opcode + 4
           /\ pendingRelocs' = pendingRelocs \cup
                 {[label |-> label, offset |-> Len(buf) + opcode]}
<1>1. opcode + 4 \in Nat /\ Write(opcode + 4)
  BY DEF Jump
<1>2. /\ Len(buf') = Len(buf) + (opcode + 4)
      /\ nextId' = nextId + (opcode + 4)
      /\ Base' = Base
      /\ Base \in Nat
      /\ buf' \in Seq(Cell)
      /\ \A k \in 1..Len(buf') : buf'[k] = [id |-> Base + k - 1, v |-> 0]
  BY <1>1, WriteExtends DEF CodeInvariant
<1>3. Len(buf) \in Nat /\ nextId \in Nat
  BY LenProperties DEF CodeInvariant, CodeInv
<1>4. CodeInv'
  BY <1>2, <1>3 DEF CodeInvariant, CodeInv
<1>5. LinkInv'
  BY <1>1, GrowthKeepsLink
<1>6. nextId = Base + Len(buf)
  BY <1>3 DEF Base
<1> QED
  BY <1>2, <1>3, <1>4, <1>5, <1>6 DEF Jump

\* A relocation of a field past all others, for a known label, may be added.
LEMMA PendingKept ==
    ASSUME PendingInv, Len(buf) \in Nat, Len(buf') \in Nat,
           Len(buf) <= Len(buf'),
           definitions' \in Seq(Nat), Len(definitions) <= Len(definitions'),
           NEW label \in 1..Len(definitions'), NEW o \in Nat,
           Len(buf) <= o, o + 4 <= Len(buf'),
           pendingRelocs' = pendingRelocs \cup {[label |-> label, offset |-> o]}
    PROVE  PendingInv'
<1>1. Len(definitions) \in Nat /\ Len(definitions') \in Nat
  BY LenProperties DEF PendingInv
<1>2. ASSUME NEW p \in pendingRelocs
      PROVE  /\ p \in [label : 1..Len(definitions'), offset : Nat]
             /\ p.offset + 4 <= Len(buf')
             /\ p.offset # o
  <2>1. p \in [label : 1..Len(definitions), offset : Nat]
    BY DEF PendingInv
  <2>2. p.offset \in Nat /\ p.offset + 4 <= Len(buf)
    BY <2>1 DEF PendingInv
  <2> QED
    BY <1>1, <2>1, <2>2
<1>3. \A p, q \in pendingRelocs : p.offset = q.offset => p = q
  BY DEF PendingInv
<1> QED
  BY <1>2, <1>3 DEF PendingInv

\* A condition's exit jump, if it has one.
LEMMA EvaluateEffect ==
    ASSUME CodeInvariant, NEW c \in Condition, NEW label \in 1..Len(definitions'),
           Evaluate(c, label),
           definitions' \in Seq(Nat), Len(definitions) <= Len(definitions'),
           UNCHANGED <<relas, lastAdjusted, text, globalSize>>
    PROVE  /\ CodeInv' /\ LinkInv' /\ PendingInv'
           /\ Base \in Nat /\ Base >= 1 /\ Base' = Base
           /\ nextId \in Nat /\ nextId = Base + Len(buf) /\ Len(buf) \in Nat
           /\ nextId' \in Nat /\ nextId <= nextId'
           /\ ExitSite(c) \in Nat
           /\ ExitSite(c) = 0 => pendingRelocs' = pendingRelocs
           /\ ExitSite(c) # 0 =>
                 /\ ExitSite(c) >= Base
                 /\ pendingRelocs' = pendingRelocs \cup
                       {[label |-> label, offset |-> ExitSite(c) - Base]}
<1>1. /\ Len(buf) \in Nat /\ nextId \in Nat /\ Base \in Nat /\ Base >= 1
      /\ nextId = Base + Len(buf)
  BY LenProperties DEF CodeInvariant, CodeInv, Base
<1>2. CASE c = "always"
  <2>1. UNCHANGED <<buf, nextId, pendingRelocs>> /\ ExitSite(c) = 0
    BY <1>2 DEF Evaluate, ExitSite
  <2>2. CodeInv' /\ LinkInv' /\ Base' = Base
    BY <2>1 DEF CodeInvariant, CodeInv, LinkInv, RelasAtFields, Base
  <2>3. PendingInv'
    <3>1. Len(definitions) \in Nat /\ Len(definitions') \in Nat
      BY LenProperties DEF CodeInvariant, PendingInv
    <3> QED
      BY <2>1, <3>1 DEF CodeInvariant, PendingInv
  <2> QED
    BY <1>1, <2>1, <2>2, <2>3
<1>3. CASE c # "always"
  <2>1. /\ OpcodeSize(c) \in Nat
        /\ Jump(OpcodeSize(c), label)
        /\ ExitSite(c) = nextId + OpcodeSize(c)
    BY <1>3 DEF Evaluate, ExitSite, OpcodeSize, Condition
  <2>2. /\ CodeInv' /\ LinkInv' /\ Base' = Base
        /\ Len(buf') = Len(buf) + OpcodeSize(c) + 4
        /\ nextId' = nextId + OpcodeSize(c) + 4
        /\ pendingRelocs' = pendingRelocs \cup
              {[label |-> label, offset |-> Len(buf) + OpcodeSize(c)]}
    BY <2>1, JumpEffect
  <2>3. /\ ExitSite(c) \in Nat /\ ExitSite(c) >= Base /\ ExitSite(c) # 0
        /\ ExitSite(c) - Base = Len(buf) + OpcodeSize(c)
        /\ nextId' \in Nat /\ nextId <= nextId'
    <3>1. nextId' = nextId + OpcodeSize(c) + 4
      BY <2>2
    <3>2. OpcodeSize(c) \in Nat /\ ExitSite(c) = nextId + OpcodeSize(c)
      BY <2>1
    <3>3. /\ nextId = Base + Len(buf) /\ Len(buf) \in Nat /\ Base \in Nat
          /\ Base >= 1
      BY <1>1
    <3> DEFINE o == OpcodeSize(c)
               n == Len(buf)
    <3>4. /\ o \in Nat /\ n \in Nat /\ Base \in Nat /\ Base >= 1
          /\ ExitSite(c) = (Base + n) + o /\ nextId = Base + n
          /\ nextId' = (Base + n) + o + 4
      BY <3>1, <3>2, <3>3
    <3> HIDE DEF o, n
    <3>5. /\ ExitSite(c) \in Nat /\ ExitSite(c) >= Base /\ ExitSite(c) # 0
          /\ ExitSite(c) - Base = n + o
          /\ nextId' \in Nat /\ nextId <= nextId'
      BY <3>4
    <3> QED
      BY <3>5 DEF o, n
  <2>4. PendingInv'
    <3>1. /\ Len(buf) + OpcodeSize(c) \in Nat
          /\ Len(buf) <= Len(buf) + OpcodeSize(c)
          /\ Len(buf) + OpcodeSize(c) + 4 <= Len(buf')
          /\ Len(buf') \in Nat /\ Len(buf) <= Len(buf')
      <4> DEFINE o == OpcodeSize(c)
                 n == Len(buf)
      <4>1. Len(buf') = n + o + 4 /\ n \in Nat /\ o \in Nat
        BY <1>1, <2>1, <2>2
      <4> HIDE DEF o, n
      <4>2. /\ n + o \in Nat /\ n <= n + o /\ n + o + 4 <= Len(buf')
            /\ Len(buf') \in Nat /\ n <= Len(buf')
        BY <4>1
      <4> QED
        BY <4>2 DEF o, n
    <3> QED
      BY <1>1, <2>2, <3>1, PendingKept DEF CodeInvariant
  <2> QED
    BY <1>1, <2>2, <2>3, <2>4
<1> QED
  BY <1>2, <1>3

\* The start of an if or a while: labels that are new, the exit jump, and the
\* statement on top of those that are open.
LEMMA BeginKeeps ==
    ASSUME CodeInvariant, NEW c \in Condition,
           NEW startLabel \in 0..Len(definitions'),
           NEW endLabel \in 1..Len(definitions'),
           definitions' \in Seq(Nat), Len(definitions) <= Len(definitions'),
           \A k \in 1..Len(definitions) : definitions'[k] = definitions[k],
           endLabel > Len(definitions), startLabel # endLabel,
           startLabel # 0 => /\ startLabel > Len(definitions)
                             /\ definitions'[startLabel] = Len(buf),
           Evaluate(c, endLabel),
           open' = Append(open, Opened(startLabel, endLabel, c)),
           UNCHANGED <<relas, lastAdjusted, rodata, text, globalSize, symbols,
                       dumped, jumps>>
    PROVE  CodeInvariant'
<1> DEFINE Opens(n) == [startLabel : 0..n, endLabel : 1..n,
                        start : Nat, exit : Nat]
           new == Opened(startLabel, endLabel, c)
<1>1. /\ CodeInv' /\ LinkInv' /\ PendingInv'
      /\ Base \in Nat /\ Base >= 1 /\ Base' = Base
      /\ nextId \in Nat /\ nextId = Base + Len(buf) /\ Len(buf) \in Nat
      /\ nextId' \in Nat /\ nextId <= nextId'
      /\ ExitSite(c) \in Nat
      /\ ExitSite(c) = 0 => pendingRelocs' = pendingRelocs
      /\ ExitSite(c) # 0 =>
            /\ ExitSite(c) >= Base
            /\ pendingRelocs' = pendingRelocs \cup
                  {[label |-> endLabel, offset |-> ExitSite(c) - Base]}
  BY EvaluateEffect
<1>2. /\ OpenInv /\ PendingInv /\ JumpInv /\ PatchInv
      /\ Len(definitions) \in Nat /\ Len(definitions') \in Nat
      /\ open \in Seq(Opens(Len(definitions))) /\ Len(open) \in Nat
  BY LenProperties DEF CodeInvariant, OpenInv, PendingInv
<1>3. /\ new \in Opens(Len(definitions'))
      /\ new.startLabel = startLabel /\ new.endLabel = endLabel
      /\ new.start = nextId /\ new.exit = ExitSite(c)
  BY <1>1 DEF Opened
<1>4. /\ open' \in Seq(Opens(Len(definitions')))
      /\ Len(open') = Len(open) + 1
      /\ \A i \in 1..Len(open) : open'[i] = open[i]
      /\ open'[Len(open) + 1] = new
  <2>1. Opens(Len(definitions)) \subseteq Opens(Len(definitions'))
    BY <1>2
  <2>2. open \in Seq(Opens(Len(definitions')))
    <3> HIDE DEF Opens
    <3> QED
      BY <1>2, <2>1, SeqMonotonic
  <2>3. open' = Append(open, new) /\ new \in Opens(Len(definitions'))
    BY <1>3
  <2> HIDE DEF Opens, new
  <2> QED
    BY <1>2, <2>2, <2>3
<1>5. ASSUME NEW i \in 1..Len(open)
      PROVE  /\ open[i].startLabel \in 0..Len(definitions)
             /\ open[i].endLabel \in 1..Len(definitions)
             /\ open[i].start \in Nat /\ open[i].exit \in Nat
  <2>1. open[i] \in Opens(Len(definitions))
    <3> HIDE DEF Opens
    <3> QED
      BY <1>2, ElementOfSeq
  <2> QED
    BY <2>1
<1> HIDE DEF new, Opens
<1>6. OpenInv'
  <2>1. ASSUME NEW i \in 1..Len(open'), NEW j \in 1..Len(open')
        PROVE  /\ open'[i].endLabel = open'[j].endLabel => i = j
               /\ open'[i].endLabel # open'[j].startLabel
    <3>1. CASE i \in 1..Len(open) /\ j \in 1..Len(open)
      BY <1>2, <1>4, <3>1 DEF OpenInv
    <3>2. CASE i \in 1..Len(open) /\ j = Len(open) + 1
      <4>1. open'[i] = open[i] /\ open'[j] = new
        BY <1>4, <3>2
      <4>2. open[i].endLabel # endLabel /\ open[i].endLabel # startLabel
        <5> DEFINE e == open[i].endLabel
        <5>1. e \in 1..Len(definitions)
          BY <1>5, <3>2
        <5> HIDE DEF e
        <5>2. e # endLabel /\ e # startLabel
          BY <1>2, <5>1
        <5> QED
          BY <5>2 DEF e
      <4> QED
        BY <1>3, <4>1, <4>2
    <3>3. CASE i = Len(open) + 1 /\ j \in 1..Len(open)
      <4>1. open'[i] = new /\ open'[j] = open[j]
        BY <1>4, <3>3
      <4>2. open[j].endLabel # endLabel /\ open[j].startLabel # endLabel
        <5> DEFINE e == open[j].endLabel
                   b == open[j].startLabel
        <5>1. e \in 1..Len(definitions) /\ b \in 0..Len(definitions)
          BY <1>5, <3>3
        <5> HIDE DEF e, b
        <5>2. e # endLabel /\ b # endLabel
          BY <1>2, <5>1
        <5> QED
          BY <5>2 DEF e, b
      <4> QED
        BY <1>3, <4>1, <4>2
    <3>4. CASE i = Len(open) + 1 /\ j = Len(open) + 1
      BY <1>3, <1>4, <3>4
    <3> QED
      BY <1>2, <1>4, <3>1, <3>2, <3>3, <3>4
  <2>2. ASSUME NEW i \in 1..Len(open'), open'[i].startLabel # 0
        PROVE  /\ Base <= open'[i].start /\ open'[i].start <= nextId'
               /\ definitions'[open'[i].startLabel] = open'[i].start - Base
    <3>1. CASE i \in 1..Len(open)
      <4>1. /\ Base <= open[i].start /\ open[i].start <= nextId
            /\ definitions[open[i].startLabel] = open[i].start - Base
        BY <1>2, <1>4, <2>2, <3>1 DEF OpenInv
      <4>2. open[i].startLabel \in 1..Len(definitions)
        BY <1>2, <1>4, <1>5, <2>2, <3>1
      <4>3. /\ open[i].start \in Nat /\ open'[i] = open[i]
            /\ definitions'[open[i].startLabel] = definitions[open[i].startLabel]
        BY <1>4, <1>5, <3>1, <4>2
      <4>4. open[i].start <= nextId'
        <5> DEFINE b == open[i].start
        <5>1. /\ nextId \in Nat /\ nextId' \in Nat /\ nextId <= nextId'
              /\ b \in Nat /\ b <= nextId
          BY <1>1, <4>1, <4>3
        <5> HIDE DEF b
        <5>2. b <= nextId'
          BY <5>1
        <5> QED
          BY <5>2 DEF b
      <4> QED
        BY <4>1, <4>3, <4>4
    <3>2. CASE i = Len(open) + 1
      <4>1. /\ open'[i].startLabel = startLabel /\ open'[i].start = nextId
            /\ startLabel # 0
        BY <1>3, <1>4, <2>2, <3>2
      <4>2. definitions'[startLabel] = Len(buf)
        BY <4>1
      <4>3. Len(buf) = nextId - Base /\ Base <= nextId /\ nextId <= nextId'
        BY <1>1
      <4> QED
        BY <4>1, <4>2, <4>3
    <3>3. i \in 1..Len(open) \/ i = Len(open) + 1
      BY <1>2, <1>4
    <3> QED
      BY <3>1, <3>2, <3>3
  <2>3. ASSUME NEW i \in 1..Len(open'), open'[i].exit # 0
        PROVE  /\ open'[i].exit >= Base
               /\ [label |-> open'[i].endLabel, offset |-> open'[i].exit - Base]
                     \in pendingRelocs'
    <3>1. CASE i \in 1..Len(open)
      BY <1>1, <1>2, <1>4, <2>3, <3>1 DEF OpenInv
    <3>2. CASE i = Len(open) + 1
      BY <1>1, <1>3, <1>4, <2>3, <3>2
    <3>3. i \in 1..Len(open) \/ i = Len(open) + 1
      BY <1>2, <1>4
    <3> QED
      BY <3>1, <3>2, <3>3
  <2> QED
    BY <1>1, <1>4, <2>1, <2>2, <2>3 DEF OpenInv, Opens
<1>7. JumpInv'
  <2>1. ASSUME NEW j \in jumps, Waiting(j)
        PROVE  Waiting(j)'
    <3>1. /\ Base <= j.target /\ j.target <= nextId /\ j.site >= Base
          /\ j.target \in Nat
      BY <1>2, <2>1 DEF Waiting, JumpInv
    <3>2. PICK p \in pendingRelocs :
              /\ p.offset = j.site - Base
              /\ definitions[p.label] = j.target - Base
              /\ \A i \in 1..Len(open) : open[i].endLabel # p.label
      BY <2>1 DEF Waiting
    <3>3. p \in pendingRelocs' /\ p.label \in 1..Len(definitions)
      BY <1>1, <1>2 DEF PendingInv
    <3>4. definitions'[p.label] = j.target - Base
      BY <3>2, <3>3
    <3>5. \A i \in 1..Len(open') : open'[i].endLabel # p.label
      <4>1. ASSUME NEW i \in 1..Len(open)
            PROVE  open'[i].endLabel # p.label
        BY <1>4, <3>2, <4>1
      <4>2. open'[Len(open) + 1].endLabel # p.label
        BY <1>2, <1>3, <1>4, <3>3
      <4> QED
        BY <1>2, <1>4, <4>1, <4>2
    <3>6. j.target <= nextId'
      BY <1>1, <3>1
    <3> QED
      BY <1>1, <3>1, <3>2, <3>3, <3>4, <3>5, <3>6 DEF Waiting
  <2> QED
    BY <1>1, <1>2, <2>1 DEF JumpInv
<1>8. PatchInv'
  <2> SUFFICES ASSUME NEW p \in pendingRelocs'
               PROVE  \/ \E j \in jumps : j.site = Base + p.offset
                      \/ \E i \in 1..Len(open') : open'[i].exit = Base + p.offset
    BY <1>1 DEF PatchInv
  <2>1. CASE p \in pendingRelocs
    <3>1. \/ \E j \in jumps : j.site = Base + p.offset
          \/ \E i \in 1..Len(open) : open[i].exit = Base + p.offset
      BY <1>2, <2>1 DEF PatchInv
    <3>2. \A i \in 1..Len(open) : i \in 1..Len(open') /\ open'[i] = open[i]
      BY <1>2, <1>4
    <3> QED
      BY <3>1, <3>2
  <2>2. CASE p \notin pendingRelocs
    <3>1. p.offset = ExitSite(c) - Base
      BY <1>1, <2>2
    <3>2. new.exit = Base + p.offset
      BY <1>1, <1>3, <3>1
    <3> QED
      BY <1>2, <1>4, <3>2
  <2> QED
    BY <2>1, <2>2
<1>9. /\ SymbolInv' /\ StringInv' /\ JumpsLand' /\ NoStrayPatch'
      /\ dumped' \in BOOLEAN
  BY DEF CodeInvariant, SymbolInv, SymbolsTile, StringInv, StringsAddressed,
         JumpsLand, NoStrayPatch
<1> QED
  BY <1>1, <1>6, <1>7, <1>8, <1>9 DEF CodeInvariant

\* nodes/if.c up to the body.
LEMMA BeginIfStep ==
    ASSUME CodeInvariant, NEW c \in Condition, BeginIf(c)
    PROVE  CodeInvariant'
<1> DEFINE label == Len(definitions) + 1
<1>1. definitions \in Seq(Nat) /\ Len(definitions) \in Nat
  BY LenProperties DEF CodeInvariant, PendingInv
<1>2. /\ definitions' = Append(definitions, 0)
      /\ Evaluate(c, label)
      /\ open' = Append(open, Opened(0, label, c))
      /\ UNCHANGED <<relas, lastAdjusted, rodata, text, globalSize, symbols,
                     dumped, jumps>>
  BY DEF BeginIf
<1>3. /\ definitions' \in Seq(Nat)
      /\ Len(definitions') = Len(definitions) + 1
      /\ \A k \in 1..Len(definitions) : definitions'[k] = definitions[k]
  BY <1>1, <1>2
<1>4. /\ label \in 1..Len(definitions') /\ label > Len(definitions)
      /\ 0 \in 0..Len(definitions') /\ 0 # label
      /\ Len(definitions) <= Len(definitions')
  BY <1>1, <1>3
<1> HIDE DEF label
<1> QED
  BY <1>2, <1>3, <1>4, BeginKeeps

\* nodes/while.c up to the body.
LEMMA BeginWhileStep ==
    ASSUME CodeInvariant, NEW c \in Condition, BeginWhile(c)
    PROVE  CodeInvariant'
<1> DEFINE label == Len(definitions) + 1
           endLabel == label + 1
<1>1. /\ definitions \in Seq(Nat) /\ Len(definitions) \in Nat
      /\ Len(buf) \in Nat
  BY LenProperties DEF CodeInvariant, CodeInv, PendingInv
<1>2. /\ definitions' = Append(Append(definitions, Len(buf)), 0)
      /\ Evaluate(c, endLabel)
      /\ open' = Append(open, Opened(label, endLabel, c))
      /\ UNCHANGED <<relas, lastAdjusted, rodata, text, globalSize, symbols,
                     dumped, jumps>>
  BY DEF BeginWhile
<1>3. /\ definitions' \in Seq(Nat)
      /\ Len(definitions') = Len(definitions) + 2
      /\ \A k \in 1..Len(definitions) : definitions'[k] = definitions[k]
      /\ definitions'[label] = Len(buf)
  BY <1>1, <1>2
<1>4. /\ label \in 0..Len(definitions') /\ label > Len(definitions)
      /\ endLabel \in 1..Len(definitions') /\ endLabel > Len(definitions)
      /\ label # endLabel
      /\ Len(definitions) <= Len(definitions')
  BY <1>1, <1>3
<1> HIDE DEF label, endLabel
<1> QED
  BY <1>2, <1>3, <1>4, BeginKeeps

\* The end of a statement: its exit jump, and a loop's jump back, get a target.
LEMMA CloseKeeps ==
    ASSUME CodeInvariant, open # <<>>, NEW back,
           CodeInv', PendingInv', LinkInv', Base' = Base,
           Len(buf') = nextId' - Base, nextId' \in Nat, nextId <= nextId',
           definitions' = [definitions EXCEPT ![Top.endLabel] = Len(buf')],
           open' = Closed,
           jumps' = jumps \cup back \cup ExitJump(nextId'),
           \/ back = {} /\ pendingRelocs' = pendingRelocs
           \/ /\ Top.startLabel # 0
              /\ back = {[site |-> nextId + 1, target |-> Top.start]}
              /\ pendingRelocs' = pendingRelocs \cup
                     {[label |-> Top.startLabel, offset |-> (nextId + 1) - Base]},
           UNCHANGED <<rodata, text, globalSize, symbols, dumped>>,
           StringInv'
    PROVE  CodeInvariant'
<1> DEFINE last == Len(open)
           D == [startLabel : 0..Len(definitions), endLabel : 1..Len(definitions),
                 start : Nat, exit : Nat]
<1>1. /\ CodeInv /\ PendingInv /\ OpenInv /\ JumpInv /\ PatchInv
      /\ open \in Seq(D) /\ definitions \in Seq(Nat)
      /\ Len(definitions) \in Nat
      /\ last \in Nat /\ last # 0
  BY LenProperties, EmptySeq DEF CodeInvariant, OpenInv, PendingInv
<1>2. /\ Base \in Nat /\ Base >= 1 /\ nextId \in Nat /\ Base <= nextId
  BY LenProperties DEF CodeInvariant, CodeInv, Base
<1>3. ASSUME NEW i \in 1..last
      PROVE  /\ open[i].startLabel \in 0..Len(definitions)
             /\ open[i].endLabel \in 1..Len(definitions)
             /\ open[i].start \in Nat /\ open[i].exit \in Nat
  <2>1. open[i] \in D
    <3> HIDE DEF D
    <3> QED
      BY <1>1, ElementOfSeq
  <2> QED
    BY <2>1
<1>4. /\ open' \in Seq(D)
      /\ Len(open') = last - 1
      /\ \A i \in 1..Len(open') : i \in 1..last /\ i # last /\ open'[i] = open[i]
      /\ \A i \in 1..last : i # last => i \in 1..Len(open')
  <2>1. \A i \in 1..last - 1 : open[i] \in D
    <3> HIDE DEF D
    <3>1. \A i \in 1..last - 1 : i \in 1..last
      BY <1>1
    <3> QED
      BY <1>1, <3>1, ElementOfSeq
  <2>2. open' = SubSeq(open, 1, last - 1) /\ 1 \in Int /\ last - 1 \in Int
    BY <1>1 DEF Closed
  <2>3. /\ open' \in Seq(D)
        /\ Len(open') = last - 1
        /\ \A i \in 1..(last - 1) - 1 + 1 : open'[i] = open[1 + i - 1]
    <3> HIDE DEF D, last
    <3> QED
      BY <1>1, <2>1, <2>2, SubSeqProperties
  <2>4. /\ \A i \in 1..last - 1 :
              i \in 1..last /\ i # last /\ i \in 1..(last - 1) - 1 + 1
        /\ \A i \in 1..last : i # last => i \in 1..last - 1
        /\ \A i \in 1..last - 1 : 1 + i - 1 = i
    <3> HIDE DEF D, last
    <3> QED
      BY <1>1
  <2> HIDE DEF D, last
  <2>5. ASSUME NEW i \in 1..Len(open')
        PROVE  i \in 1..last /\ i # last /\ open'[i] = open[i]
    <3>1. i \in 1..last - 1
      BY <2>3
    <3>2. open'[i] = open[1 + i - 1] /\ 1 + i - 1 = i
      BY <2>3, <2>4, <3>1
    <3> QED
      BY <2>4, <3>1, <3>2
  <2> QED
    BY <2>3, <2>4, <2>5
<1>5. /\ Top = open[last] /\ last \in 1..last
      /\ Top.startLabel \in 0..Len(definitions)
      /\ Top.endLabel \in 1..Len(definitions)
      /\ Top.start \in Nat /\ Top.exit \in Nat
  <2>1. last \in 1..last
    BY <1>1
  <2>2. Top = open[last]
    BY DEF Top
  <2> HIDE DEF last
  <2> QED
    BY <1>3, <2>1, <2>2
<1>6. /\ Len(definitions') = Len(definitions)
      /\ definitions'[Top.endLabel] = Len(buf')
      /\ \A k \in 1..Len(definitions) :
            k # Top.endLabel => definitions'[k] = definitions[k]
  <2> DEFINE e == Top.endLabel
  <2>1. /\ e \in 1..Len(definitions) /\ definitions \in Seq(Nat)
        /\ definitions' = [definitions EXCEPT ![e] = Len(buf')]
        /\ DOMAIN definitions = 1..Len(definitions)
    BY <1>1, <1>5, LenProperties
  <2> HIDE DEF e
  <2>2. /\ Len(definitions') = Len(definitions)
        /\ definitions'[e] = Len(buf')
        /\ \A k \in 1..Len(definitions) :
              k # e => definitions'[k] = definitions[k]
    BY <2>1
  <2> QED
    BY <2>2 DEF e
<1>7. pendingRelocs \subseteq pendingRelocs'
  OBVIOUS
<1>8. ASSUME NEW i \in 1..last
      PROVE  /\ open[i].endLabel = Top.endLabel => i = last
             /\ Top.endLabel # open[i].startLabel
             /\ open[i].endLabel # Top.startLabel
  BY <1>1, <1>5 DEF OpenInv
<1> HIDE DEF D, last
<1>9. OpenInv'
  <2>1. ASSUME NEW i \in 1..Len(open'), NEW j \in 1..Len(open')
        PROVE  /\ open'[i].endLabel = open'[j].endLabel => i = j
               /\ open'[i].endLabel # open'[j].startLabel
    <3>1. /\ i \in 1..last /\ open'[i] = open[i]
          /\ j \in 1..last /\ open'[j] = open[j]
      BY <1>4
    <3>2. /\ open[i].endLabel = open[j].endLabel => i = j
          /\ open[i].endLabel # open[j].startLabel
      BY <1>1, <3>1 DEF OpenInv, last
    <3> QED
      BY <3>1, <3>2
  <2>2. ASSUME NEW i \in 1..Len(open'), open'[i].startLabel # 0
        PROVE  /\ Base <= open'[i].start /\ open'[i].start <= nextId'
               /\ definitions'[open'[i].startLabel] = open'[i].start - Base
    <3>1. i \in 1..last /\ i # last /\ open'[i] = open[i]
      BY <1>4
    <3>2. /\ Base <= open[i].start /\ open[i].start <= nextId
          /\ definitions[open[i].startLabel] = open[i].start - Base
      BY <1>1, <2>2, <3>1 DEF OpenInv, last
    <3>3. /\ open[i].startLabel \in 1..Len(definitions)
          /\ open[i].startLabel # Top.endLabel
      BY <1>1, <1>3, <1>8, <2>2, <3>1
    <3>4. open[i].start <= nextId'
      BY <1>2, <1>3, <3>1, <3>2
    <3> QED
      BY <1>6, <3>1, <3>2, <3>3, <3>4
  <2>3. ASSUME NEW i \in 1..Len(open'), open'[i].exit # 0
        PROVE  /\ open'[i].exit >= Base
               /\ [label |-> open'[i].endLabel, offset |-> open'[i].exit - Base]
                     \in pendingRelocs'
    BY <1>1, <1>4, <1>7, <2>3 DEF OpenInv, last
  <2>4. open' \in Seq([startLabel : 0..Len(definitions'),
                       endLabel : 1..Len(definitions'), start : Nat, exit : Nat])
    BY <1>4, <1>6 DEF D
  <2> QED
    BY <2>1, <2>2, <2>3, <2>4 DEF OpenInv
<1>10. ASSUME NEW j \in jumps, Waiting(j)
       PROVE  Waiting(j)'
  <2>1. /\ Base <= j.target /\ j.target <= nextId /\ j.site >= Base
        /\ j.target \in Nat
    BY <1>1, <1>10 DEF Waiting, JumpInv
  <2>2. PICK p \in pendingRelocs :
            /\ p.offset = j.site - Base
            /\ definitions[p.label] = j.target - Base
            /\ \A i \in 1..last : open[i].endLabel # p.label
    BY <1>10 DEF Waiting, last
  <2>3. p \in pendingRelocs' /\ p.label \in 1..Len(definitions)
    BY <1>1, <1>7 DEF PendingInv
  <2>4. definitions'[p.label] = j.target - Base
    BY <1>5, <1>6, <2>2, <2>3
  <2>5. \A i \in 1..Len(open') : open'[i].endLabel # p.label
    BY <1>4, <2>2
  <2>6. j.target <= nextId'
    BY <1>2, <2>1
  <2> QED
    BY <2>1, <2>2, <2>3, <2>4, <2>5, <2>6 DEF Waiting
<1>11. ASSUME NEW j \in ExitJump(nextId')
       PROVE  /\ j \in [site : Nat \ {0}, target : Nat \ {0}]
              /\ j.site = Top.exit /\ j.site >= Base
              /\ Waiting(j)'
  <2>1. Top.exit # 0 /\ j = [site |-> Top.exit, target |-> nextId']
    BY DEF ExitJump
  <2> DEFINE p == [label |-> Top.endLabel, offset |-> Top.exit - Base]
  <2>2. Top.exit >= Base /\ p \in pendingRelocs'
    BY <1>1, <1>5, <1>7, <2>1 DEF OpenInv, last
  <2>3. definitions'[p.label] = j.target - Base
    BY <1>6, <2>1
  <2>4. \A i \in 1..Len(open') : open'[i].endLabel # p.label
    BY <1>4, <1>8
  <2>5. Base <= nextId' /\ nextId' # 0 /\ Top.exit # 0
    BY <1>2, <2>1
  <2>6. p.offset = j.site - Base /\ j.target = nextId' /\ j.site = Top.exit
    BY <2>1
  <2>7. Waiting(j)'
    <3> HIDE DEF p
    <3> QED
      BY <2>2, <2>3, <2>4, <2>5, <2>6 DEF Waiting
  <2> QED
    BY <1>5, <2>1, <2>2, <2>5, <2>7
<1>12. ASSUME NEW j \in back
       PROVE  /\ j \in [site : Nat \ {0}, target : Nat \ {0}]
              /\ j.site >= Base
              /\ Waiting(j)'
  <2>1. /\ Top.startLabel # 0
        /\ j = [site |-> nextId + 1, target |-> Top.start]
        /\ [label |-> Top.startLabel, offset |-> (nextId + 1) - Base]
              \in pendingRelocs'
    OBVIOUS
  <2> DEFINE p == [label |-> Top.startLabel, offset |-> (nextId + 1) - Base]
  <2>2. /\ Base <= Top.start /\ Top.start <= nextId
        /\ definitions[Top.startLabel] = Top.start - Base
    BY <1>1, <1>5, <2>1 DEF OpenInv, last
  <2>3. /\ Top.startLabel \in 1..Len(definitions)
        /\ Top.startLabel # Top.endLabel
    <3>1. Top.endLabel # Top.startLabel
      BY <1>5, <1>8
    <3> DEFINE b == Top.startLabel
    <3>2. b \in 0..Len(definitions) /\ b # 0 /\ Len(definitions) \in Nat
      BY <1>1, <1>5, <2>1
    <3> HIDE DEF b
    <3>3. b \in 1..Len(definitions)
      BY <3>2
    <3> QED
      BY <3>1, <3>3 DEF b
  <2>4. definitions'[p.label] = j.target - Base
    BY <1>6, <2>1, <2>2, <2>3
  <2>5. \A i \in 1..Len(open') : open'[i].endLabel # p.label
    BY <1>4, <1>8
  <2>6. /\ Top.start <= nextId' /\ nextId + 1 >= Base
        /\ Top.start # 0 /\ nextId + 1 \in Nat \ {0}
    <3>1. Base <= Top.start /\ Top.start <= nextId /\ Top.start \in Nat
      BY <1>5, <2>2
    <3>2. nextId' \in Nat /\ nextId <= nextId'
      OBVIOUS
    <3>3. Base \in Nat /\ Base >= 1 /\ nextId \in Nat /\ Base <= nextId
      BY <1>2
    <3> HIDE DEF p
    <3> QED
      BY <3>1, <3>2, <3>3
  <2>7. /\ p.offset = j.site - Base /\ j.target = Top.start
        /\ j.site = nextId + 1 /\ p \in pendingRelocs'
    BY <2>1
  <2>8. Waiting(j)'
    <3> HIDE DEF p
    <3> QED
      BY <2>2, <2>4, <2>5, <2>6, <2>7 DEF Waiting
  <2> QED
    BY <1>5, <2>1, <2>6, <2>8
<1>13. JumpInv'
  <2>1. jumps \subseteq [site : Nat \ {0}, target : Nat \ {0}]
    BY <1>1 DEF JumpInv
  <2>2. jumps' \subseteq [site : Nat \ {0}, target : Nat \ {0}]
    BY <1>11, <1>12, <2>1
  <2>3. ASSUME NEW j \in jumps'
        PROVE  (j.site < Base /\ j.target < Base) \/ Waiting(j)'
    BY <1>1, <1>10, <1>11, <1>12 DEF JumpInv
  <2> QED
    BY <2>2, <2>3 DEF JumpInv
<1>14. PatchInv'
  <2> SUFFICES ASSUME NEW p \in pendingRelocs'
               PROVE  \/ \E j \in jumps' : j.site = Base + p.offset
                      \/ \E i \in 1..Len(open') : open'[i].exit = Base + p.offset
    BY DEF PatchInv
  <2>1. CASE p \in pendingRelocs
    <3>1. p.offset \in Nat
      BY <1>1, <2>1 DEF PendingInv
    <3>2. CASE \E j \in jumps : j.site = Base + p.offset
      BY <3>2
    <3>3. CASE \E i \in 1..last : open[i].exit = Base + p.offset
      <4>1. PICK i \in 1..last : open[i].exit = Base + p.offset
        BY <3>3
      <4>2. CASE i # last
        BY <1>4, <4>1, <4>2
      <4>3. CASE i = last
        <5>1. Top.exit = Base + p.offset /\ Top.exit # 0
          BY <1>2, <1>5, <3>1, <4>1, <4>3
        <5>2. [site |-> Top.exit, target |-> nextId'] \in jumps'
          BY <5>1 DEF ExitJump
        <5> QED
          BY <5>1, <5>2
      <4> QED
        BY <4>2, <4>3
    <3> QED
      BY <1>1, <2>1, <3>2, <3>3 DEF PatchInv, last
  <2>2. CASE p \notin pendingRelocs
    <3>1. /\ p.offset = (nextId + 1) - Base
          /\ [site |-> nextId + 1, target |-> Top.start] \in jumps'
      BY <2>2
    <3> QED
      BY <1>2, <3>1
  <2> QED
    BY <2>1, <2>2
<1>15. JumpsLand'
  <2>1. ASSUME NEW a \in DOMAIN text
        PROVE  text[a].id < Base /\ text[a].id \in Nat
    <3>1. text \in Seq(Cell) /\ a \in 1..Len(text)
      BY <1>1, LenProperties DEF CodeInv
    <3>2. text[a] \in Cell
      BY <3>1, ElementOfSeq
    <3> QED
      BY <1>1, <3>1, <3>2 DEF CodeInv, Cell
  <2>2. ASSUME NEW j \in jumps', NEW a \in DOMAIN text, text[a].id = j.site
        PROVE  j \in jumps
    <3>1. ~(j.site >= Base)
      BY <1>2, <2>1, <2>2
    <3> QED
      BY <1>11, <1>12, <3>1
  <2> QED
    BY <2>2 DEF CodeInvariant, JumpsLand
<1>16. /\ NoStrayPatch' /\ SymbolInv' /\ dumped' \in BOOLEAN
  BY DEF CodeInvariant, NoStrayPatch, SymbolInv, SymbolsTile
<1> QED
  BY <1>9, <1>13, <1>14, <1>15, <1>16 DEF CodeInvariant

\* The labels of the statement that ends have a definition.
LEMMA TopLabels ==
    ASSUME CodeInvariant, open # <<>>
    PROVE  /\ Top.startLabel \in 0..Len(definitions)
           /\ Top.endLabel \in 1..Len(definitions)
<1>1. OpenInv
  BY DEF CodeInvariant
<1>2. Len(open) \in 1..Len(open)
  BY <1>1, LenProperties, EmptySeq DEF OpenInv
<1>3. Top \in [startLabel : 0..Len(definitions),
               endLabel : 1..Len(definitions), start : Nat, exit : Nat]
  BY <1>1, <1>2, ElementOfSeq DEF OpenInv, Top
<1> QED
  BY <1>3

\* The end of an if: its label gets the offset the buffer has reached.
LEMMA EndIfStep ==
    ASSUME CodeInvariant, EndIf
    PROVE  CodeInvariant'
<1>1. /\ CodeInv /\ PendingInv /\ OpenInv /\ LinkInv /\ StringInv
      /\ open # <<>>
      /\ definitions' = [definitions EXCEPT ![Top.endLabel] = Len(buf)]
      /\ jumps' = jumps \cup ExitJump(nextId)
      /\ open' = Closed
      /\ UNCHANGED <<buf, pendingRelocs, relas, lastAdjusted, rodata, text,
                     globalSize, symbols, dumped, nextId>>
  BY DEF EndIf, CodeInvariant
<1>2. Len(buf) \in Nat /\ nextId \in Nat /\ Len(buf) = nextId - Base
  BY <1>1, LenProperties DEF CodeInv, Base
<1>3. CodeInv' /\ LinkInv' /\ StringInv' /\ Base' = Base
  BY <1>1 DEF CodeInv, LinkInv, RelasAtFields, StringInv, StringsAddressed, Base
<1>4. PendingInv'
  <2>1. /\ definitions \in Seq(Nat) /\ definitions' \in Seq(Nat)
        /\ Len(definitions') = Len(definitions)
    <3>1. Top.endLabel \in 1..Len(definitions) /\ definitions \in Seq(Nat)
      BY <1>1, TopLabels DEF PendingInv
    <3> QED
      BY <1>1, <1>2, <3>1, ExceptSeq
  <2> QED
    BY <1>1, <2>1 DEF PendingInv
<1>5. /\ definitions' = [definitions EXCEPT ![Top.endLabel] = Len(buf')]
      /\ jumps' = jumps \cup {} \cup ExitJump(nextId')
      /\ Len(buf') = nextId' - Base /\ nextId' \in Nat /\ nextId <= nextId'
      /\ {} = {} /\ pendingRelocs' = pendingRelocs
  <2>1. nextId' = nextId /\ buf' = buf
    BY <1>1
  <2> QED
    BY <1>1, <1>2, <2>1
<1> QED
  BY <1>1, <1>3, <1>4, <1>5, CloseKeeps

\* The end of a while: the jump back to its start, then the end of its exit.
LEMMA EndWhileStep ==
    ASSUME CodeInvariant, EndWhile
    PROVE  CodeInvariant'
<1> DEFINE back == {[site |-> nextId + 1, target |-> Top.start]}
<1>1. /\ CodeInv /\ PendingInv /\ OpenInv /\ LinkInv /\ StringInv
      /\ open # <<>> /\ Top.startLabel # 0
      /\ Jump(1, Top.startLabel)
      /\ definitions' = [definitions EXCEPT ![Top.endLabel] = Len(buf')]
      /\ jumps' = jumps \cup back \cup ExitJump(nextId')
      /\ open' = Closed
      /\ UNCHANGED <<relas, lastAdjusted, rodata, text, globalSize, symbols,
                     dumped>>
  BY DEF EndWhile, CodeInvariant
<1>2. /\ CodeInv' /\ LinkInv'
      /\ Base \in Nat /\ Base' = Base /\ nextId = Base + Len(buf)
      /\ Len(buf) \in Nat /\ Len(buf') = Len(buf) + 1 + 4
      /\ nextId \in Nat /\ nextId' = nextId + 1 + 4
      /\ pendingRelocs' = pendingRelocs \cup
            {[label |-> Top.startLabel, offset |-> Len(buf) + 1]}
  BY <1>1, JumpEffect
<1>3. StringInv'
  BY <1>1 DEF StringInv, StringsAddressed
<1>4. /\ Len(buf') \in Nat /\ Len(buf) <= Len(buf') /\ nextId' \in Nat
      /\ nextId <= nextId' /\ Len(buf') = nextId' - Base
      /\ Len(buf) + 1 \in Nat /\ Len(buf) <= Len(buf) + 1
      /\ (Len(buf) + 1) + 4 <= Len(buf')
      /\ (nextId + 1) - Base = Len(buf) + 1
  BY <1>2
<1>5. /\ definitions \in Seq(Nat) /\ definitions' \in Seq(Nat)
      /\ Len(definitions') = Len(definitions) /\ Len(definitions) \in Nat
  <2>1. Top.endLabel \in 1..Len(definitions) /\ definitions \in Seq(Nat)
    BY <1>1, TopLabels DEF PendingInv
  <2> QED
    BY <1>1, <1>4, <2>1, ExceptSeq, LenProperties
<1>6. Top.startLabel \in 1..Len(definitions')
  BY <1>1, <1>5, TopLabels
<1>7. PendingInv'
  <2>1. Len(definitions) <= Len(definitions')
    BY <1>5
  <2> QED
    BY <1>1, <1>2, <1>4, <1>5, <1>6, <2>1, PendingKept
<1>8. pendingRelocs' = pendingRelocs \cup
            {[label |-> Top.startLabel, offset |-> (nextId + 1) - Base]}
  BY <1>2, <1>4
<1> HIDE DEF back
<1>9. back = {[site |-> nextId + 1, target |-> Top.start]}
  BY DEF back
<1> QED
  BY <1>1, <1>2, <1>3, <1>4, <1>7, <1>8, <1>9, CloseKeeps

------------------------------------------------------------------------------
(***************************************************************************)
(* The end of a function.                                                  *)
(***************************************************************************)

\* relocations_apply patches the field of each pending relocation and no other
\* byte.
LEMMA ApplyBytes ==
    ASSUME CodeInv, PendingInv
    PROVE  /\ Len(Apply(buf)) = Len(buf) /\ Apply(buf) \in Seq(Cell)
           /\ \A k \in 1..Len(buf) :
                 /\ Apply(buf)[k].id = Base + k - 1
                 /\ \A p \in pendingRelocs :
                       p.offset = k - 1 => Apply(buf)[k].v = Rel32(p)
                 /\ Apply(buf)[k].v # 0 =>
                       \E p \in pendingRelocs : p.offset = k - 1
<1> DEFINE A == Apply(buf)
<1>1. /\ Len(buf) \in Nat /\ Base \in Nat /\ definitions \in Seq(Nat)
      /\ \A k \in 1..Len(buf) : buf[k] = [id |-> Base + k - 1, v |-> 0]
      /\ \A p, q \in pendingRelocs : p.offset = q.offset => p = q
  BY LenProperties DEF CodeInv, PendingInv, Base
<1>2. ASSUME NEW p \in pendingRelocs
      PROVE  Rel32(p) \in Int
  <2>1. p \in [label : 1..Len(definitions), offset : Nat]
    BY DEF PendingInv
  <2>2. p.label \in 1..Len(definitions) /\ p.offset \in Nat
    BY <2>1
  <2>3. definitions[p.label] \in Nat
    BY <1>1, <2>2, ElementOfSeq
  <2> QED
    BY <2>2, <2>3 DEF Rel32
<1>3. ASSUME NEW k \in 1..Len(buf)
      PROVE  /\ A[k].id = Base + k - 1
             /\ \A p \in pendingRelocs : p.offset = k - 1 => A[k].v = Rel32(p)
             /\ A[k].v # 0 => \E p \in pendingRelocs : p.offset = k - 1
             /\ A[k] \in Cell
  <2>1. A[k] = IF \E p \in pendingRelocs : p.offset = k - 1
               THEN [buf[k] EXCEPT !.v =
                        Rel32(CHOOSE p \in pendingRelocs : p.offset = k - 1)]
               ELSE buf[k]
    BY DEF Apply
  <2>2. buf[k] = [id |-> Base + k - 1, v |-> 0] /\ Base + k - 1 \in Nat
    BY <1>1
  <2>3. CASE \E p \in pendingRelocs : p.offset = k - 1
    <3>1. PICK q \in pendingRelocs : q.offset = k - 1
      BY <2>3
    <3>2. (CHOOSE p \in pendingRelocs : p.offset = k - 1) = q
      BY <1>1, <3>1
    <3>3. A[k] = [id |-> Base + k - 1, v |-> Rel32(q)]
      <4> HIDE DEF A
      <4>1. A[k] = [buf[k] EXCEPT !.v = Rel32(q)]
        BY <2>1, <2>3, <3>2, Zenon
      <4>2. [[id |-> Base + k - 1, v |-> 0] EXCEPT !.v = Rel32(q)]
               = [id |-> Base + k - 1, v |-> Rel32(q)]
        OBVIOUS
      <4> QED
        BY <2>2, <4>1, <4>2
    <3>4. \A p \in pendingRelocs : p.offset = k - 1 => p = q
      BY <1>1, <3>1
    <3>5. Rel32(q) \in Int
      BY <1>2
    <3> HIDE DEF A
    <3> QED
      BY <2>2, <2>3, <3>3, <3>4, <3>5 DEF Cell
  <2>4. CASE ~\E p \in pendingRelocs : p.offset = k - 1
    <3>1. A[k] = [id |-> Base + k - 1, v |-> 0]
      BY <2>1, <2>2, <2>4
    <3> HIDE DEF A
    <3> QED
      BY <2>2, <2>4, <3>1 DEF Cell
  <2> QED
    BY <2>3, <2>4
<1>4. A \in Seq(Cell) /\ Len(A) = Len(buf)
  <2>1. DOMAIN A = 1..Len(buf) /\ A = [k \in 1..Len(buf) |-> A[k]]
    BY DEF Apply
  <2>2. \A k \in 1..Len(buf) : A[k] \in Cell
    BY <1>3
  <2> HIDE DEF A
  <2> QED
    BY <1>1, <2>1, <2>2, IsASeq, LenProperties
<1> QED
  BY <1>3, <1>4

\* The bytes of a function: the prologue, its code with the jumps patched, and
\* the two bytes of leave and ret.
LEMMA BlockBytes ==
    ASSUME CodeInv, PendingInv, NEW frame \in Nat
    PROVE  /\ Block(frame) \in Seq(Cell)
           /\ PrologueSize(frame) \in Nat /\ PrologueSize(frame) >= 1
           /\ Len(Block(frame)) = PrologueSize(frame) + Len(buf) + 2
           /\ \A k \in 1..PrologueSize(frame) : Block(frame)[k].id = 0
           /\ \A k \in 1..Len(buf) + 2 :
                 Block(frame)[PrologueSize(frame) + k].id = Base + k - 1
           /\ \A p \in pendingRelocs :
                 Block(frame)[PrologueSize(frame) + p.offset + 1].v = Rel32(p)
           /\ \A k \in 1..Len(buf) + 2 :
                 Block(frame)[PrologueSize(frame) + k].v # 0 =>
                    \E p \in pendingRelocs : p.offset = k - 1
<1> DEFINE F == PrologueSize(frame)
           P == Prologue(frame)
           A == Apply(buf)
           E == Bytes(2)
           n == Len(buf)
<1>1. F \in Nat /\ F >= 1
  BY DEF PrologueSize
<1>2. n \in Nat /\ nextId \in Nat /\ Base \in Nat /\ nextId = Base + n
  BY LenProperties DEF CodeInv, Base
<1>3. P \in Seq(Cell) /\ Len(P) = F /\ \A k \in 1..F : P[k].id = 0
  <2>1. P = [k \in 1..F |-> [id |-> 0, v |-> IF k = 9 THEN frame ELSE 0]]
    BY DEF Prologue
  <2>2. \A k \in 1..F : [id |-> 0, v |-> IF k = 9 THEN frame ELSE 0] \in Cell
    BY DEF Cell
  <2> HIDE DEF P, F
  <2> QED
    BY <1>1, <2>1, <2>2
<1>4. /\ A \in Seq(Cell) /\ Len(A) = n
      /\ \A k \in 1..n :
            /\ A[k].id = Base + k - 1
            /\ \A p \in pendingRelocs : p.offset = k - 1 => A[k].v = Rel32(p)
            /\ A[k].v # 0 => \E p \in pendingRelocs : p.offset = k - 1
  BY ApplyBytes
<1>5. /\ E \in Seq(Cell) /\ Len(E) = 2
      /\ \A k \in 1..2 : E[k].id = nextId + k - 1 /\ E[k].v = 0
  BY <1>2 DEF Bytes, Cell
<1>6. Block(frame) = (P \o A) \o E
  BY DEF Block
<1> HIDE DEF F, P, A, E, n
<1>7. /\ P \o A \in Seq(Cell) /\ Len(P \o A) = F + n
      /\ \A k \in 1..F + n : (P \o A)[k] = IF k <= F THEN P[k] ELSE A[k - F]
  BY <1>3, <1>4, ConcatProperties
<1>8. /\ (P \o A) \o E \in Seq(Cell) /\ Len((P \o A) \o E) = F + n + 2
      /\ \A k \in 1..F + n + 2 :
            ((P \o A) \o E)[k] = IF k <= F + n THEN (P \o A)[k] ELSE E[k - (F + n)]
  <2> DEFINE C == P \o A
  <2>1. C \in Seq(Cell) /\ Len(C) = F + n /\ E \in Seq(Cell) /\ Len(E) = 2
    BY <1>5, <1>7
  <2> HIDE DEF C
  <2>2. /\ C \o E \in Seq(Cell) /\ Len(C \o E) = Len(C) + Len(E)
        /\ \A k \in 1..Len(C) + Len(E) :
              (C \o E)[k] = IF k <= Len(C) THEN C[k] ELSE E[k - Len(C)]
    BY <2>1, ConcatProperties
  <2>3. /\ C \o E \in Seq(Cell) /\ Len(C \o E) = F + n + 2
        /\ \A k \in 1..F + n + 2 :
              (C \o E)[k] = IF k <= F + n THEN C[k] ELSE E[k - (F + n)]
    BY <2>1, <2>2
  <2> QED
    BY <2>3 DEF C
<1> DEFINE B == Block(frame)
<1>9. /\ B \in Seq(Cell) /\ Len(B) = F + n + 2
      /\ \A k \in 1..F + n + 2 :
            B[k] = IF k <= F + n THEN (P \o A)[k] ELSE E[k - (F + n)]
  BY <1>6, <1>8
<1> HIDE DEF B
<1>10. \A k \in 1..F : B[k].id = 0
  <2> SUFFICES ASSUME NEW k \in 1..F PROVE B[k].id = 0
    OBVIOUS
  <2>1. k \in 1..F + n /\ k \in 1..F + n + 2 /\ k <= F /\ k <= F + n
    BY <1>1, <1>2
  <2> QED
    BY <1>3, <1>7, <1>9, <2>1
<1>11. ASSUME NEW k \in 1..n
       PROVE  B[F + k] = A[k]
  <2>1. /\ F + k \in 1..F + n /\ F + k \in 1..F + n + 2
        /\ ~(F + k <= F) /\ F + k <= F + n /\ (F + k) - F = k
    BY <1>1, <1>2
  <2> QED
    BY <1>7, <1>9, <2>1
<1>12. ASSUME NEW k \in 1..2
       PROVE  B[F + n + k] = E[k]
  <2>1. /\ F + n + k \in 1..F + n + 2
        /\ ~(F + n + k <= F + n) /\ (F + n + k) - (F + n) = k
    BY <1>1, <1>2
  <2> QED
    BY <1>9, <2>1
<1>13. ASSUME NEW k \in 1..n + 2
       PROVE  /\ B[F + k].id = Base + k - 1
              /\ B[F + k].v # 0 => \E p \in pendingRelocs : p.offset = k - 1
  <2>1. CASE k <= n
    <3>1. k \in 1..n
      BY <1>2, <2>1
    <3> QED
      BY <1>4, <1>11, <3>1
  <2>2. CASE k > n
    <3>1. /\ k - n \in 1..2 /\ F + n + (k - n) = F + k
          /\ nextId + (k - n) - 1 = Base + k - 1
      BY <1>1, <1>2, <2>2
    <3>2. B[F + n + (k - n)] = E[k - n]
      BY <1>12, <3>1
    <3>3. E[k - n].id = nextId + (k - n) - 1 /\ E[k - n].v = 0
      BY <1>5, <3>1
    <3> QED
      BY <3>1, <3>2, <3>3
  <2> QED
    BY <1>2, <2>1, <2>2
<1>14. ASSUME NEW p \in pendingRelocs
       PROVE  B[F + p.offset + 1].v = Rel32(p)
  <2>1. p \in [label : 1..Len(definitions), offset : Nat]
        /\ p.offset + 4 <= n
    BY DEF PendingInv, n
  <2>2. p.offset \in Nat
    BY <2>1
  <2>3. /\ p.offset + 1 \in 1..n /\ p.offset = (p.offset + 1) - 1
        /\ F + (p.offset + 1) = F + p.offset + 1
    BY <1>1, <1>2, <2>1, <2>2
  <2>4. B[F + (p.offset + 1)] = A[p.offset + 1]
    BY <1>11, <2>3
  <2>5. A[p.offset + 1].v = Rel32(p)
    BY <1>4, <2>3
  <2> QED
    BY <2>3, <2>4, <2>5
<1> QED
  BY <1>1, <1>9, <1>10, <1>13, <1>14 DEF B, F, n

\* The function goes to the end of the section, and the buffer starts again
\* with the byte after its last one.
LEMMA FinishEffect ==
    ASSUME CodeInvariant, NEW name \in Name, NEW frame \in FrameSizes,
           Finish(name, frame)
    PROVE  /\ text' \in Seq(Cell)
           /\ Len(text) \in Nat /\ Len(buf) \in Nat /\ nextId \in Nat
           /\ Base \in Nat /\ Base >= 1 /\ nextId = Base + Len(buf)
           /\ Base' = nextId + 2 /\ nextId' = nextId + 2
           /\ PrologueSize(frame) \in Nat /\ PrologueSize(frame) >= 1
           /\ Len(text') = Len(text) + PrologueSize(frame) + Len(buf) + 2
           /\ \A a \in 1..Len(text) : a \in 1..Len(text') /\ text'[a] = text[a]
           /\ \A k \in 1..PrologueSize(frame) : text'[Len(text) + k].id = 0
           /\ \A k \in 1..Len(buf) + 2 :
                 LET a == Len(text) + PrologueSize(frame) + k IN
                 /\ text'[a].id = Base + k - 1
                 /\ text'[a].v # 0 => \E p \in pendingRelocs : p.offset = k - 1
           /\ \A p \in pendingRelocs :
                 text'[Len(text) + PrologueSize(frame) + p.offset + 1].v
                    = Rel32(p)
<1> DEFINE F == PrologueSize(frame)
           B == Block(frame)
           n == Len(buf)
           T == Len(text)
<1>1. /\ CodeInv /\ PendingInv /\ frame \in Nat
      /\ text' = text \o B /\ buf' = <<>> /\ nextId' = nextId + 2
  BY SizesAssumption DEF CodeInvariant, Finish
<1>2. /\ n \in Nat /\ T \in Nat /\ nextId \in Nat /\ Base \in Nat /\ Base >= 1
      /\ nextId = Base + n /\ text \in Seq(Cell)
  BY <1>1, LenProperties DEF CodeInv, Base
<1>3. Base' = nextId + 2
  BY <1>1, <1>2 DEF Base
<1>4. /\ B \in Seq(Cell) /\ F \in Nat /\ F >= 1 /\ Len(B) = F + n + 2
      /\ \A k \in 1..F : B[k].id = 0
      /\ \A k \in 1..n + 2 : B[F + k].id = Base + k - 1
      /\ \A p \in pendingRelocs : B[F + p.offset + 1].v = Rel32(p)
      /\ \A k \in 1..n + 2 :
            B[F + k].v # 0 => \E p \in pendingRelocs : p.offset = k - 1
  BY <1>1, BlockBytes
<1> HIDE DEF F, B, n, T
<1>5. /\ text' \in Seq(Cell) /\ Len(text') = T + F + n + 2
      /\ \A a \in 1..T + F + n + 2 : text'[a] = IF a <= T THEN text[a] ELSE B[a - T]
  <2>1. /\ text \o B \in Seq(Cell) /\ Len(text \o B) = T + Len(B)
        /\ \A a \in 1..T + Len(B) :
              (text \o B)[a] = IF a <= T THEN text[a] ELSE B[a - T]
    BY <1>2, <1>4, ConcatProperties DEF T
  <2>2. T + Len(B) = T + F + n + 2
    BY <1>2, <1>4
  <2> QED
    BY <1>1, <2>1, <2>2
<1>6. \A a \in 1..T : a \in 1..Len(text') /\ text'[a] = text[a]
  <2> SUFFICES ASSUME NEW a \in 1..T
               PROVE  a \in 1..Len(text') /\ text'[a] = text[a]
    OBVIOUS
  <2>1. a \in 1..T + F + n + 2 /\ a <= T
    BY <1>2, <1>4
  <2> QED
    BY <1>5, <2>1
<1>7. ASSUME NEW k \in 1..F + n + 2
      PROVE  text'[T + k] = B[k]
  <2>1. T + k \in 1..T + F + n + 2 /\ ~(T + k <= T) /\ (T + k) - T = k
    BY <1>2, <1>4
  <2> QED
    BY <1>5, <2>1
<1>8. \A k \in 1..F : text'[T + k].id = 0
  <2>1. \A k \in 1..F : k \in 1..F + n + 2
    BY <1>2, <1>4
  <2> QED
    BY <1>4, <1>7, <2>1
<1>9. ASSUME NEW k \in 1..n + 2
      PROVE  /\ text'[T + F + k].id = Base + k - 1
             /\ text'[T + F + k].v # 0 =>
                   \E p \in pendingRelocs : p.offset = k - 1
  <2>1. F + k \in 1..F + n + 2 /\ T + (F + k) = T + F + k
    BY <1>2, <1>4
  <2> QED
    BY <1>4, <1>7, <2>1
<1>10. ASSUME NEW p \in pendingRelocs
       PROVE  text'[T + F + p.offset + 1].v = Rel32(p)
  <2>1. p \in [label : 1..Len(definitions), offset : Nat] /\ p.offset + 4 <= n
    BY <1>1 DEF PendingInv, n
  <2>2. p.offset \in Nat
    BY <2>1
  <2>3. /\ F + p.offset + 1 \in 1..F + n + 2
        /\ T + (F + p.offset + 1) = T + F + p.offset + 1
    BY <1>2, <1>4, <2>1, <2>2
  <2> QED
    BY <1>4, <1>7, <2>3
<1> QED
  BY <1>1, <1>2, <1>3, <1>4, <1>5, <1>6, <1>8, <1>9, <1>10 DEF F, n, T

\* A byte with an identity is an old one, where it was, or one of the function.
LEMMA FinishedByte ==
    ASSUME CodeInvariant, NEW name \in Name, NEW frame \in FrameSizes,
           Finish(name, frame), NEW a \in 1..Len(text')
    PROVE  \/ a \in 1..Len(text) /\ text'[a] = text[a] /\ text[a].id < Base
           \/ text'[a].id = 0
           \/ \E k \in 1..Len(buf) + 2 :
                 /\ a = Len(text) + PrologueSize(frame) + k
                 /\ text'[a].id = Base + k - 1
                 /\ text'[a].v # 0 =>
                       \E p \in pendingRelocs : p.offset = k - 1
<1> DEFINE F == PrologueSize(frame)
           n == Len(buf)
           T == Len(text)
<1>1. /\ T \in Nat /\ n \in Nat /\ F \in Nat /\ Len(text') = T + F + n + 2
      /\ \A b \in 1..T : text'[b] = text[b]
      /\ \A k \in 1..F : text'[T + k].id = 0
      /\ \A k \in 1..n + 2 :
            /\ text'[T + F + k].id = Base + k - 1
            /\ text'[T + F + k].v # 0 =>
                  \E p \in pendingRelocs : p.offset = k - 1
  BY FinishEffect
<1>2. \A b \in 1..T : text[b].id < Base
  BY DEF CodeInvariant, CodeInv
<1> HIDE DEF F, n, T
<1>3. CASE a <= T
  <2>1. a \in 1..T
    BY <1>1, <1>3
  <2> QED
    BY <1>1, <1>2, <2>1 DEF T
<1>4. CASE a > T /\ a <= T + F
  <2>1. a - T \in 1..F /\ T + (a - T) = a
    BY <1>1, <1>4
  <2> QED
    BY <1>1, <2>1
<1>5. CASE a > T + F
  <2>1. a - (T + F) \in 1..n + 2 /\ T + F + (a - (T + F)) = a
    BY <1>1, <1>5
  <2> QED
    BY <1>1, <2>1 DEF F, n, T
<1> QED
  BY <1>1, <1>3, <1>4, <1>5

\* Every jump of the function has its relocation, applied relative to the code
\* before it moved; all of it moved alike.
LEMMA FinishJumps ==
    ASSUME CodeInvariant, NEW name \in Name, NEW frame \in FrameSizes,
           Finish(name, frame)
    PROVE  JumpInv' /\ JumpsLand' /\ NoStrayPatch'
<1> DEFINE F == PrologueSize(frame)
           n == Len(buf)
           T == Len(text)
<1>1. /\ CodeInv /\ PendingInv /\ JumpInv /\ PatchInv /\ JumpsLand
      /\ NoStrayPatch
      /\ open = <<>> /\ jumps' = jumps
  BY DEF CodeInvariant, Finish
<1>2. /\ T \in Nat /\ n \in Nat /\ F \in Nat /\ nextId \in Nat
      /\ Base \in Nat /\ Base >= 1 /\ nextId = Base + n /\ Base' = nextId + 2
      /\ text' \in Seq(Cell) /\ DOMAIN text' = 1..Len(text')
      /\ DOMAIN text = 1..Len(text)
      /\ \A p \in pendingRelocs : text'[T + F + p.offset + 1].v = Rel32(p)
  BY <1>1, FinishEffect, LenProperties DEF CodeInv
<1>3. ASSUME NEW j \in jumps
      PROVE  j.site \in Nat /\ j.site >= 1 /\ j.target \in Nat /\ j.target >= 1
  BY <1>1 DEF JumpInv
<1>4. ASSUME NEW a \in 1..Len(text')
      PROVE  \/ a \in 1..T /\ text'[a] = text[a] /\ text[a].id < Base
             \/ text'[a].id = 0
             \/ \E k \in 1..n + 2 :
                   /\ a = T + F + k
                   /\ text'[a].id = Base + k - 1
                   /\ text'[a].v # 0 =>
                         \E p \in pendingRelocs : p.offset = k - 1
  BY FinishedByte
<1>5. ASSUME NEW p \in pendingRelocs
      PROVE  /\ p.offset \in Nat /\ p.offset + 4 <= n
             /\ definitions[p.label] \in Nat
  <2>1. p \in [label : 1..Len(definitions), offset : Nat]
    BY <1>1 DEF PendingInv
  <2>2. p.offset \in Nat /\ p.label \in 1..Len(definitions)
    BY <2>1
  <2> QED
    BY <1>1, <2>2, ElementOfSeq DEF PendingInv
<1> HIDE DEF F, n, T
\* Where a byte of the function under way, and of finished code, has gone.
<1>6. ASSUME NEW a \in 1..Len(text'), text'[a].id >= Base
      PROVE  a = T + F + (text'[a].id - Base) + 1
  <2>1. ~(text'[a] = text[a] /\ text[a].id < Base) \/ text'[a].id < Base
    OBVIOUS
  <2>2. text'[a].id \in Nat
    <3>1. text'[a] \in Cell
      BY <1>2, ElementOfSeq
    <3> QED
      BY <3>1 DEF Cell
  <2>3. PICK k \in 1..n + 2 : a = T + F + k /\ text'[a].id = Base + k - 1
    BY <1>2, <1>4, <1>6, <2>1, <2>2
  <2>4. T + F + k = T + F + ((Base + k - 1) - Base) + 1
    <3>1. T \in Nat /\ F \in Nat /\ Base \in Nat
      BY <1>2
    <3> QED
      BY <3>1
  <2> QED
    BY <2>3, <2>4
<1>7. ASSUME NEW a \in 1..Len(text'), text'[a].id >= 1, text'[a].id < Base
      PROVE  a \in 1..T /\ text'[a] = text[a]
  <2>1. ~\E k \in 1..n + 2 : text'[a].id = Base + k - 1
    <3> SUFFICES ASSUME NEW k \in 1..n + 2, text'[a].id = Base + k - 1
                 PROVE  FALSE
      OBVIOUS
    <3>1. Base + k - 1 >= Base /\ Base + k - 1 \in Nat
      BY <1>2
    <3>2. text'[a].id \in Nat
      <4>1. text'[a] \in Cell
        BY <1>2, ElementOfSeq
      <4> QED
        BY <4>1 DEF Cell
    <3> QED
      BY <1>2, <1>7, <3>1, <3>2
  <2>2. text'[a].id # 0
    BY <1>7
  <2> QED
    BY <1>4, <2>1, <2>2
<1>8. ASSUME NEW j \in jumps, Waiting(j)
      PROVE  \E p \in pendingRelocs :
                p.offset = j.site - Base /\ definitions[p.label] = j.target - Base
  BY <1>8 DEF Waiting
<1>9. JumpInv'
  <2>1. ASSUME NEW j \in jumps
        PROVE  j.site < nextId + 2 /\ j.target < nextId + 2
    <3>1. CASE j.site < Base /\ j.target < Base
      BY <1>2, <1>3, <3>1
    <3>2. CASE Waiting(j)
      <4>1. PICK p \in pendingRelocs : p.offset = j.site - Base
        BY <1>8, <3>2
      <4>2. j.target <= nextId
        BY <3>2 DEF Waiting
      <4> QED
        BY <1>2, <1>3, <1>5, <4>1, <4>2
    <3> QED
      BY <1>1, <3>1, <3>2 DEF JumpInv
  <2> QED
    BY <1>1, <1>2, <2>1 DEF JumpInv
<1>10. JumpsLand'
  <2> SUFFICES ASSUME NEW j \in jumps,
                      NEW a \in 1..Len(text'), NEW b \in 1..Len(text'),
                      text'[a].id = j.site, text'[b].id = j.target
               PROVE  a + 4 + text'[a].v = b
    BY <1>1, <1>2 DEF JumpsLand
  <2>1. CASE j.site < Base /\ j.target < Base
    <3>1. /\ a \in 1..T /\ text'[a] = text[a]
          /\ b \in 1..T /\ text'[b] = text[b]
      BY <1>3, <1>7, <2>1
    <3> QED
      BY <1>1, <1>2, <3>1 DEF JumpsLand, T
  <2>2. CASE Waiting(j)
    <3>1. PICK p \in pendingRelocs :
             p.offset = j.site - Base /\ definitions[p.label] = j.target - Base
      BY <1>8, <2>2
    <3>2. j.target >= Base /\ j.site >= Base
      BY <2>2 DEF Waiting
    <3>3. a = T + F + p.offset + 1 /\ b = T + F + definitions[p.label] + 1
      BY <1>6, <3>1, <3>2
    <3>4. text'[a].v = definitions[p.label] - (p.offset + 4)
      BY <1>2, <3>3 DEF Rel32
    <3> DEFINE o == p.offset
               d == definitions[p.label]
    <3>5. o \in Nat /\ d \in Nat /\ T \in Nat /\ F \in Nat
      BY <1>2, <1>5
    <3>6. a = T + F + o + 1 /\ b = T + F + d + 1 /\ text'[a].v = d - (o + 4)
      BY <3>3, <3>4
    <3> HIDE DEF o, d
    <3> QED
      BY <3>5, <3>6
  <2> QED
    BY <1>1, <2>1, <2>2 DEF JumpInv
<1>11. NoStrayPatch'
  <2> SUFFICES ASSUME NEW a \in 1..Len(text'), text'[a].id # 0, text'[a].v # 0
               PROVE  \E j \in jumps : j.site = text'[a].id
    BY <1>1, <1>2 DEF NoStrayPatch
  <2>1. CASE a \in 1..T /\ text'[a] = text[a]
    BY <1>1, <1>2, <2>1 DEF NoStrayPatch, T
  <2>2. CASE \E k \in 1..n + 2 :
                /\ text'[a].id = Base + k - 1
                /\ text'[a].v # 0 => \E p \in pendingRelocs : p.offset = k - 1
    <3>1. PICK k \in 1..n + 2, p \in pendingRelocs :
             text'[a].id = Base + k - 1 /\ p.offset = k - 1
      BY <2>2
    <3>2. text'[a].id = Base + p.offset
      BY <1>2, <1>5, <3>1
    <3>3. ~\E i \in 1..Len(open) : open[i].exit = Base + p.offset
      BY <1>1
    <3> QED
      BY <1>1, <3>2, <3>3 DEF PatchInv
  <2> QED
    BY <1>4, <2>1, <2>2
<1> QED
  BY <1>9, <1>10, <1>11

\* The relocations of the function move with it; those of earlier functions
\* have moved.
LEMMA FinishLink ==
    ASSUME CodeInvariant, NEW name \in Name, NEW frame \in FrameSizes,
           Finish(name, frame)
    PROVE  /\ LinkInv'
           /\ \A i \in DOMAIN relas' :
                 /\ i \in DOMAIN relas
                 /\ relas'[i].literal = relas[i].literal
                 /\ relas'[i].addend = relas[i].addend
<1> DEFINE F == PrologueSize(frame)
           n == Len(buf)
           T == Len(text)
<1>1. /\ CodeInv /\ LinkInv
      /\ relas' = Adjusted(F) /\ lastAdjusted' = Len(relas)
      /\ globalSize = Len(text)
      /\ relas \in Seq(RelaEntry) /\ Len(relas) \in Nat
      /\ DOMAIN relas = 1..Len(relas)
  BY LenProperties DEF CodeInvariant, LinkInv, Finish, SymbolInv, SymbolsTile
<1>2. /\ T \in Nat /\ n \in Nat /\ F \in Nat /\ Base \in Nat
      /\ Len(text') = T + F + n + 2
      /\ \A a \in 1..T : text'[a] = text[a]
      /\ \A k \in 1..n + 2 : text'[T + F + k].id = Base + k - 1
  BY FinishEffect
<1>3. \A k \in 1..n : buf[k] = [id |-> Base + k - 1, v |-> 0]
  BY <1>1 DEF CodeInv
<1> HIDE DEF F, n, T
<1>4. ASSUME NEW i \in 1..Len(relas)
      PROVE  /\ relas[i] \in RelaEntry
             /\ lastAdjusted \in Nat
             /\ relas[i].offset \in Nat
             /\ i <= lastAdjusted =>
                   /\ relas[i].offset < T
                   /\ text[relas[i].offset + 1].id = relas[i].site
             /\ i > lastAdjusted =>
                   /\ T <= relas[i].offset
                   /\ relas[i].offset - T < n
                   /\ buf[relas[i].offset - T + 1].id = relas[i].site
  BY <1>1, RelaFields DEF n, T
<1> DEFINE Moved(i) == IF i <= lastAdjusted THEN relas[i]
                       ELSE [relas[i] EXCEPT !.offset = @ + F]
<1>5. ASSUME NEW i \in 1..Len(relas)
      PROVE  /\ Moved(i) \in RelaEntry
             /\ Moved(i).site = relas[i].site
             /\ Moved(i).literal = relas[i].literal
             /\ Moved(i).addend = relas[i].addend
             /\ Moved(i).offset = IF i <= lastAdjusted THEN relas[i].offset
                                  ELSE relas[i].offset + F
  <2>1. relas[i] \in RelaEntry /\ relas[i].offset + F \in Nat
    BY <1>2, <1>4
  <2> QED
    BY <2>1 DEF RelaEntry
<1>6. relas' = [i \in 1..Len(relas) |-> Moved(i)]
  BY <1>1 DEF Adjusted
<1> HIDE DEF Moved
<1>7. /\ relas' \in Seq(RelaEntry) /\ Len(relas') = Len(relas)
      /\ DOMAIN relas' = 1..Len(relas)
      /\ \A i \in 1..Len(relas) : relas'[i] = Moved(i)
  <2>1. \A i \in 1..Len(relas) : Moved(i) \in RelaEntry
    BY <1>5
  <2> QED
    BY <1>1, <1>6, <2>1, IsASeq, LenProperties
<1>8. ASSUME NEW i \in 1..Len(relas)
      PROVE  /\ relas'[i].offset < Len(text')
             /\ text'[relas'[i].offset + 1].id = relas'[i].site
  <2>1. relas'[i].site = relas[i].site
    BY <1>5, <1>7
  <2>2. CASE i <= lastAdjusted
    <3>1. /\ relas'[i].offset = relas[i].offset
          /\ relas[i].offset < T /\ relas[i].offset \in Nat
          /\ text[relas[i].offset + 1].id = relas[i].site
      BY <1>4, <1>5, <1>7, <2>2
    <3>2. relas[i].offset + 1 \in 1..T /\ relas[i].offset < Len(text')
      BY <1>2, <3>1
    <3> QED
      BY <1>2, <2>1, <3>1, <3>2
  <2>3. CASE i > lastAdjusted
    <3> DEFINE o == relas[i].offset - T
    <3>1. /\ relas'[i].offset = relas[i].offset + F
          /\ T <= relas[i].offset /\ relas[i].offset \in Nat /\ o < n
          /\ buf[o + 1].id = relas[i].site
      <4>1. ~(i <= lastAdjusted)
        BY <1>4, <2>3
      <4> QED
        BY <1>4, <1>5, <1>7, <2>3, <4>1
    <3>2. /\ o \in Nat /\ o + 1 \in 1..n /\ o + 1 \in 1..n + 2
          /\ relas'[i].offset + 1 = T + F + (o + 1)
          /\ relas'[i].offset < Len(text')
      <4>1. /\ T \in Nat /\ n \in Nat /\ F \in Nat
            /\ Len(text') = T + F + n + 2
        BY <1>2
      <4>2. o \in Nat /\ relas[i].offset = T + o
        BY <3>1, <4>1
      <4> DEFINE q == relas'[i].offset
      <4> HIDE DEF o
      <4>3. q = T + o + F /\ o < n
        BY <3>1, <4>2
      <4> HIDE DEF q
      <4>4. /\ o + 1 \in 1..n /\ o + 1 \in 1..n + 2
            /\ q + 1 = T + F + (o + 1) /\ q < T + F + n + 2
        BY <4>1, <4>2, <4>3
      <4> QED
        BY <4>1, <4>2, <4>4 DEF q
    <3> HIDE DEF o
    <3>3. buf[o + 1].id = Base + (o + 1) - 1
      <4>1. buf[o + 1] = [id |-> Base + (o + 1) - 1, v |-> 0]
        BY <1>3, <3>2
      <4> QED
        BY <4>1
    <3> QED
      BY <1>2, <2>1, <3>1, <3>2, <3>3
  <2> QED
    BY <1>4, <2>2, <2>3
<1>9. LinkInv'
  <2>1. lastAdjusted' \in 0..Len(relas') /\ lastAdjusted' = Len(relas)
    BY <1>1, <1>7
  <2>2. \A i \in 1..Len(relas) : i <= lastAdjusted'
    BY <1>1, <2>1
  <2>3. RelasAtFields'
    BY <1>7, <1>8, <2>2 DEF RelasAtFields
  <2> QED
    BY <1>7, <2>1, <2>3 DEF LinkInv
<1> QED
  BY <1>1, <1>5, <1>7, <1>9

\* The new symbol starts where the section ended, with a prologue, and reaches
\* where it ends now.
LEMMA FinishSymbols ==
    ASSUME CodeInvariant, NEW name \in Name, NEW frame \in FrameSizes,
           Finish(name, frame)
    PROVE  SymbolInv'
<1> DEFINE S == [name : Name, value : Nat, size : Nat]
           sym == [name |-> name, value |-> Len(text), size |-> Len(Block(frame))]
           T == Len(text)
<1>1. /\ symbols' = Append(symbols, sym)
      /\ globalSize' = globalSize + Len(Block(frame))
      /\ SymbolInv /\ CodeInv /\ PendingInv /\ frame \in Nat
  BY SizesAssumption DEF CodeInvariant, Finish, SymbolValue
<1>2. /\ T \in Nat /\ Len(text') = T + Len(Block(frame))
      /\ Len(Block(frame)) \in Nat /\ Len(Block(frame)) >= 1
      /\ \A a \in 1..T : text'[a] = text[a]
      /\ text'[T + 1].id = 0
  <2>1. /\ PrologueSize(frame) \in Nat /\ PrologueSize(frame) >= 1
        /\ Len(text) \in Nat /\ Len(buf) \in Nat
        /\ Len(text') = Len(text) + PrologueSize(frame) + Len(buf) + 2
        /\ \A a \in 1..T : text'[a] = text[a]
        /\ \A k \in 1..PrologueSize(frame) : text'[T + k].id = 0
    BY FinishEffect
  <2>2. Len(Block(frame)) = PrologueSize(frame) + Len(buf) + 2
    BY <1>1, BlockBytes
  <2>3. 1 \in 1..PrologueSize(frame)
    BY <2>1
  <2>4. text'[T + 1].id = 0
    BY <2>1, <2>3
  <2> QED
    BY <2>1, <2>2, <2>4
<1>3. /\ symbols \in Seq(S) /\ Len(symbols) \in Nat /\ SymbolsTile
      /\ DOMAIN symbols = 1..Len(symbols)
      /\ globalSize = Len(text)
  BY <1>1, LenProperties DEF SymbolInv, SymbolsTile
<1>4. /\ sym \in S /\ sym.value = T /\ sym.size = Len(Block(frame))
  BY <1>2
<1> HIDE DEF sym, S
<1>5. /\ symbols' \in Seq(S) /\ Len(symbols') = Len(symbols) + 1
      /\ DOMAIN symbols' = 1..Len(symbols) + 1
      /\ \A i \in 1..Len(symbols) : symbols'[i] = symbols[i]
      /\ symbols'[Len(symbols) + 1] = sym
  BY <1>1, <1>3, <1>4
<1>6. ASSUME NEW i \in 1..Len(symbols)
      PROVE  /\ symbols[i].value = IF i = 1 THEN 0 ELSE
                    symbols[i - 1].value + symbols[i - 1].size
             /\ symbols[i].value \in Nat /\ symbols[i].value < T
             /\ text[symbols[i].value + 1].id = 0
             /\ i = Len(symbols) => symbols[i].value + symbols[i].size = T
  <2>1. symbols[i] \in S
    BY <1>3, ElementOfSeq
  <2>2. symbols[i].value \in Nat
    BY <2>1 DEF S
  <2> QED
    BY <1>3, <2>2 DEF SymbolsTile
<1> HIDE DEF T
<1>7. ASSUME NEW i \in 1..Len(symbols)
      PROVE  /\ symbols'[i].value = IF i = 1 THEN 0 ELSE
                    symbols'[i - 1].value + symbols'[i - 1].size
             /\ symbols'[i].value < Len(text')
             /\ text'[symbols'[i].value + 1].id = 0
             /\ i # Len(symbols) + 1
  <2>1. symbols'[i] = symbols[i]
    BY <1>5
  <2>2. i # 1 => i - 1 \in 1..Len(symbols)
    BY <1>3
  <2>3. i # 1 => symbols'[i - 1] = symbols[i - 1]
    BY <1>5, <2>2
  <2>4. symbols[i].value + 1 \in 1..T /\ symbols[i].value < Len(text')
    BY <1>2, <1>6
  <2>5. i # Len(symbols) + 1
    BY <1>3
  <2> QED
    BY <1>2, <1>6, <2>1, <2>3, <2>4, <2>5
<1>8. /\ T = IF Len(symbols) + 1 = 1 THEN 0 ELSE
                symbols'[Len(symbols)].value + symbols'[Len(symbols)].size
      /\ T < Len(text') /\ text'[T + 1].id = 0
      /\ T + Len(Block(frame)) = Len(text')
  <2>1. CASE Len(symbols) = 0
    <3>1. symbols = <<>>
      BY <1>3, <2>1, EmptySeq
    <3>2. T = 0
      BY <1>3, <3>1, EmptySeq DEF SymbolsTile, T
    <3> QED
      BY <1>2, <2>1, <3>2
  <2>2. CASE Len(symbols) # 0
    <3>1. Len(symbols) \in 1..Len(symbols) /\ Len(symbols) + 1 # 1
      BY <1>3, <2>2
    <3> QED
      BY <1>2, <1>5, <1>6, <3>1
  <2> QED
    BY <2>1, <2>2
<1>9. SymbolsTile'
  <2>1. globalSize' = Len(text')
    BY <1>1, <1>2, <1>3 DEF T
  <2>2. symbols' # <<>>
    BY <1>3, <1>5, EmptySeq
  <2>3. ASSUME NEW i \in 1..Len(symbols) + 1
        PROVE  /\ symbols'[i].value = IF i = 1 THEN 0 ELSE
                     symbols'[i - 1].value + symbols'[i - 1].size
               /\ symbols'[i].value < Len(text')
               /\ text'[symbols'[i].value + 1].id = 0
               /\ i = Len(symbols') =>
                     symbols'[i].value + symbols'[i].size = Len(text')
    <3>1. CASE i \in 1..Len(symbols)
      BY <1>5, <1>7, <3>1
    <3>2. CASE i = Len(symbols) + 1
      <4>1. i - 1 = Len(symbols) /\ symbols'[i] = sym
        BY <1>3, <1>5, <3>2
      <4> QED
        BY <1>4, <1>8, <3>2, <4>1
    <3> QED
      BY <1>3, <3>1, <3>2
  <2> QED
    BY <1>5, <2>1, <2>2, <2>3 DEF SymbolsTile
<1> QED
  BY <1>5, <1>9 DEF SymbolInv, S

\* compiler_finish_function.
LEMMA FinishStep ==
    ASSUME CodeInvariant, NEW name \in Name, NEW frame \in FrameSizes,
           Finish(name, frame)
    PROVE  CodeInvariant'
<1>1. /\ buf' = <<>> /\ definitions' = <<>> /\ pendingRelocs' = {}
      /\ open' = <<>> /\ nextId' = nextId + 2
      /\ UNCHANGED <<rodata, dumped>>
  BY DEF Finish, PendingAfterFinish
<1>2. /\ text' \in Seq(Cell) /\ nextId \in Nat /\ Base \in Nat
      /\ Len(buf) \in Nat /\ nextId = Base + Len(buf) /\ Base' = nextId + 2
  BY FinishEffect
<1>3. CodeInv'
  <2>1. ASSUME NEW a \in 1..Len(text')
        PROVE  text'[a].id < nextId + 2
    <3>1. text'[a].id \in Nat
      <4>1. text'[a] \in Cell
        BY <1>2, ElementOfSeq
      <4> QED
        BY <4>1 DEF Cell
    <3>2. CASE text'[a].id < Base
      BY <1>2, <3>1, <3>2
    <3>3. CASE text'[a].id = 0
      BY <1>2, <3>3
    <3>4. CASE \E k \in 1..Len(buf) + 2 : text'[a].id = Base + k - 1
      BY <1>2, <3>4
    <3> QED
      BY <3>2, <3>3, <3>4, FinishedByte
  <2>2. Len(buf') = 0 /\ buf' \in Seq(Cell)
    BY <1>1
  <2>3. \A k \in 1..Len(buf') : FALSE
    BY <2>2
  <2> QED
    BY <1>1, <1>2, <2>1, <2>2, <2>3 DEF CodeInv
<1>4. PendingInv' /\ OpenInv' /\ PatchInv'
  <2>1. Len(open') = 0 /\ \A i \in 1..Len(open') : FALSE
    BY <1>1
  <2> QED
    BY <1>1, <2>1 DEF PendingInv, OpenInv, PatchInv
<1>5. JumpInv' /\ JumpsLand' /\ NoStrayPatch'
  BY FinishJumps
<1>6. LinkInv' /\ SymbolInv'
  BY FinishLink, FinishSymbols
<1>7. StringInv'
  <2>1. StringInv
    BY DEF CodeInvariant
  <2> QED
    BY <1>1, <2>1, FinishLink, StringsKept
<1> QED
  BY <1>1, <1>3, <1>4, <1>5, <1>6, <1>7 DEF CodeInvariant

------------------------------------------------------------------------------

\* The file being written, or nothing at all, changes nothing else.
LEMMA QuietStep ==
    ASSUME CodeInvariant, dumped' \in BOOLEAN,
           UNCHANGED <<buf, definitions, pendingRelocs, relas, lastAdjusted,
                       rodata, text, globalSize, symbols, open, nextId, jumps>>
    PROVE  CodeInvariant'
<1>1. CodeInv' /\ PendingInv' /\ OpenInv' /\ PatchInv'
  BY DEF CodeInvariant, CodeInv, PendingInv, OpenInv, PatchInv, Base
<1>2. JumpInv'
  BY DEF CodeInvariant, JumpInv, Waiting, Base
<1>3. LinkInv' /\ SymbolInv' /\ StringInv'
  BY DEF CodeInvariant, LinkInv, RelasAtFields, SymbolInv, SymbolsTile,
         StringInv, StringsAddressed
<1>4. JumpsLand' /\ NoStrayPatch'
  BY DEF CodeInvariant, JumpsLand, NoStrayPatch
<1> QED
  BY <1>1, <1>2, <1>3, <1>4 DEF CodeInvariant

\* Every step of the compiler keeps the invariant.
LEMMA CodeStep == CodeInvariant /\ [Next]_vars => CodeInvariant'
<1> SUFFICES ASSUME CodeInvariant, [Next]_vars
             PROVE  CodeInvariant'
  OBVIOUS
<1>1. CASE \E n \in CodeSizes : Emit(n)
  BY <1>1, EmitStep
<1>2. CASE \E name \in Name : Call(name)
  BY <1>2, CallStep
<1>3. CASE \E n \in StringSizes : StringLiteral(n)
  BY <1>3, StringStep
<1>4. CASE \E c \in Condition : BeginIf(c)
  BY <1>4, BeginIfStep
<1>5. CASE \E c \in Condition : BeginWhile(c)
  BY <1>5, BeginWhileStep
<1>6. CASE EndIf
  BY <1>6, EndIfStep
<1>7. CASE EndWhile
  BY <1>7, EndWhileStep
<1>8. CASE \E name \in Name, frame \in FrameSizes : Finish(name, frame)
  BY <1>8, FinishStep
<1>9. CASE Dump
  BY <1>9, QuietStep DEF Dump
<1>10. CASE UNCHANGED vars
  BY <1>10, QuietStep DEF vars, CodeInvariant
<1> QED
  BY <1>1, <1>2, <1>3, <1>4, <1>5, <1>6, <1>7, <1>8, <1>9, <1>10
     DEF Next, Done

\* The state between two instructions is as described above, in every program.
THEOREM CodeInvariance == Spec => []CodeInvariant
<1>1. Init => CodeInvariant
  BY CodeInit
<1>2. CodeInvariant /\ [Next]_vars => CodeInvariant'
  BY CodeStep
<1> QED
  BY <1>1, <1>2, PTL DEF Spec

\* The buffers and the relocation and symbol tables keep their types.
THEOREM CodeTypeCorrect == Spec => []TypeOK
<1>1. CodeInvariant => TypeOK
  <2> SUFFICES ASSUME CodeInvariant PROVE TypeOK
    OBVIOUS
  <2>1. /\ CodeInv /\ PendingInv /\ OpenInv /\ JumpInv /\ LinkInv
        /\ SymbolInv /\ StringInv /\ dumped \in BOOLEAN
    BY DEF CodeInvariant
  <2>2. globalSize \in Nat
    BY <2>1, LenProperties DEF CodeInv, SymbolInv, SymbolsTile
  <2>3. jumps \subseteq [site : Nat, target : Nat]
    BY <2>1 DEF JumpInv
  <2> QED
    BY <2>1, <2>2, <2>3 DEF TypeOK, CodeInv, PendingInv, OpenInv, LinkInv,
       RelaEntry, SymbolInv, StringInv
<1> QED
  BY <1>1, CodeInvariance, PTL

\* However the if and while statements of a function nest, and however much
\* code each holds, every jump of the finished function goes to the byte its
\* statement means.
THEOREM JumpsAreRight == Spec => []JumpsLand
<1>1. CodeInvariant => JumpsLand
  BY DEF CodeInvariant
<1> QED
  BY <1>1, CodeInvariance, PTL

\* No byte of the section but the field of a jump is ever patched.
THEOREM PatchesAreRight == Spec => []NoStrayPatch
<1>1. CodeInvariant => NoStrayPatch
  BY DEF CodeInvariant
<1> QED
  BY <1>1, CodeInvariance, PTL

\* Every relocation left to the linker names the field emitted for it, while
\* its function is compiled and after later functions have ended.
THEOREM RelocationsAreRight == Spec => []RelasAtFields
<1>1. CodeInvariant => RelasAtFields
  BY DEF CodeInvariant, LinkInv
<1> QED
  BY <1>1, CodeInvariance, PTL

\* Every string relocation resolves to the first byte of its own literal.
THEOREM StringsAreRight == Spec => []StringsAddressed
<1>1. CodeInvariant => StringsAddressed
  BY DEF CodeInvariant, StringInv
<1> QED
  BY <1>1, CodeInvariance, PTL

\* The symbols of the functions tile the text section, without gap or overlap.
THEOREM SymbolsAreRight == Spec => []SymbolsTile
<1>1. CodeInvariant => SymbolsTile
  BY DEF CodeInvariant, SymbolInv
<1> QED
  BY <1>1, CodeInvariance, PTL
==============================================================================
