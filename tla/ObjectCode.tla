------------------------------ MODULE ObjectCode ------------------------------
(***************************************************************************)
(* How dracon turns emitted bytes into a text section: the output buffer   *)
(* and the end of a function (compiler/compiler.c), the jump labels of a   *)
(* function (compiler/relocation.c), the relocations left to the linker    *)
(* (compiler/elf_handler.c), and the if and while statements that use the  *)
(* labels (nodes/if.c, nodes/while.c).                                     *)
(*                                                                         *)
(* A byte is a cell with an identity, so that "the byte the label stood    *)
(* before" keeps a meaning while add_prologue moves the buffer and the     *)
(* text section grows; the first byte of a 32-bit field also carries the   *)
(* number the field encodes.  Offsets are the code's, from 0: offset o of  *)
(* the buffer is buf[o + 1].                                               *)
(***************************************************************************)
EXTENDS Integers, Sequences

CONSTANTS
    Name,           \* names of functions
    CodeSizes,      \* sizes of the instructions that need no relocation
    StringSizes,    \* sizes of string literals, with their NUL
    FrameSizes,     \* values scope_get_sp_offset may return
    MaxLabels,      \* bound: labels of one function, before the last statement
    MaxBytes        \* bound: bytes emitted when an instruction begins

ASSUME SizesAssumption ==
    /\ CodeSizes \subseteq Nat \ {0}
    /\ StringSizes \subseteq Nat \ {0}
    /\ FrameSizes \subseteq Nat
    /\ MaxLabels \in Nat
    /\ MaxBytes \in Nat

VARIABLES
    buf,            \* out_buffer
    definitions,    \* relocs_definitions: the offset of each label
    pendingRelocs,  \* pending_relocs, the jumps of the function
    relas,          \* pending_rela_relocations, for the linker
    lastAdjusted,   \* last_adjusted_relocation
    rodata,         \* the .rodata section
    text,           \* the .text section
    globalSize,     \* global_size
    symbols,        \* the global symbols of .text, in order
    open,           \* the if and while statements being compiled
    dumped,         \* elf_handler_dump has run
    nextId,         \* history: identity of the next byte emitted
    jumps           \* history: where the source says each jump goes

vars == <<buf, definitions, pendingRelocs, relas, lastAdjusted, rodata, text,
          globalSize, symbols, open, dumped, nextId, jumps>>

Cell == [id : Nat, v : Int]

\* What a condition leads to when the true branch just continues (t = -1):
\* nothing for a literal that is not 0, a jump for 0, else a test and a jump.
Condition == {"always", "never", "tested"}

\* Bytes before the jump's field: JMP has one opcode byte; TEST or CMP has
\* three bytes and the JE or JNE that follows it two.
OpcodeSize(c) == CASE c = "never" -> 1 [] c = "tested" -> 5 [] OTHER -> 0

Init ==
    /\ buf = <<>>
    /\ definitions = <<>>
    /\ pendingRelocs = {}
    /\ relas = <<>>
    /\ lastAdjusted = 0
    /\ rodata = <<>>
    /\ text = <<>>
    /\ globalSize = 0
    /\ symbols = <<>>
    /\ open = <<>>
    /\ dumped = FALSE
    /\ nextId = 1
    /\ jumps = {}

------------------------------------------------------------------------------
(***************************************************************************)
(* Emitting code.                                                          *)
(***************************************************************************)

Bytes(n) == [k \in 1..n |-> [id |-> nextId + k - 1, v |-> 0]]

\* The functions whose code has not ended; function_declare lets each be
\* defined once.
Unfinished == Name \ {symbols[i].name : i \in DOMAIN symbols}

\* There is a function for another instruction or statement, and room for it.
Room == Unfinished # {} /\ nextId <= MaxBytes

\* compiler_writeb, n times
Write(n) ==
    /\ buf' = buf \o Bytes(n)
    /\ nextId' = nextId + n

\* asm_JMP_reloc, asm_JE_reloc, asm_JNE_reloc: relocations_add, then a field.
Jump(opcode, label) ==
    /\ Write(opcode + 4)
    /\ pendingRelocs' = pendingRelocs \cup
                        {[label |-> label, offset |-> Len(buf) + opcode]}

\* compiler_add_function_relocation and compiler_add_string_relocation; the
\* fields site and literal are history: the byte meant, the literal meant.
Rela(opcode, symbol, addend, literal) ==
    /\ Write(opcode + 4)
    /\ relas' = Append(relas, [symbol |-> symbol, addend |-> addend,
                               offset |-> globalSize + Len(buf) + opcode,
                               site |-> nextId + opcode, literal |-> literal])

Emit(n) ==
    /\ ~dumped /\ Room
    /\ Write(n)
    /\ UNCHANGED <<definitions, pendingRelocs, relas, lastAdjusted, rodata,
                   text, globalSize, symbols, open, dumped, jumps>>

\* asm_CALL_ereloc
Call(name) ==
    /\ ~dumped /\ Room
    /\ Rela(1, name, -4, 0)
    /\ UNCHANGED <<definitions, pendingRelocs, lastAdjusted, rodata, text,
                   globalSize, symbols, open, dumped, jumps>>

\* Mutant: the offset of a string is the end of its data.
StringOffset_After(n) == Len(rodata) + n

\* elf_handler_add_string returns the size of .rodata before the string.
StringOffset(n) == Len(rodata)

\* A string literal of n bytes: compiler_add_string, then
\* asm_LEA_r64_str_ereloc.  rodata[i] names the literal and the byte of it.
StringLiteral(n) ==
    LET literal == Len(relas) + 1 IN
    /\ ~dumped /\ Room
    /\ rodata' = rodata \o [k \in 1..n |-> [literal |-> literal, byte |-> k]]
    /\ Rela(3, ".rodata", StringOffset(n) - 4, literal)
    /\ UNCHANGED <<definitions, pendingRelocs, lastAdjusted, text,
                   globalSize, symbols, open, dumped, jumps>>

------------------------------------------------------------------------------
(***************************************************************************)
(* Statements that jump.                                                   *)
(***************************************************************************)

\* EXPR_EVALUATE_CONDITION(condition, -1, label)
Evaluate(c, label) ==
    IF c = "always" THEN UNCHANGED <<buf, nextId, pendingRelocs>>
                    ELSE Jump(OpcodeSize(c), label)

\* The byte that the condition's jump is encoded in, 0 without a jump.
ExitSite(c) == IF c = "always" THEN 0 ELSE nextId + OpcodeSize(c)

\* The open statement: its labels (0 for none) and, as history, the byte its
\* loop starts with and the site of its exit jump.
Opened(startLabel, endLabel, c) ==
    [startLabel |-> startLabel, endLabel |-> endLabel,
     start |-> nextId, exit |-> ExitSite(c)]

\* nodes/if.c, up to the body.
BeginIf(c) ==
    LET label == Len(definitions) + 1 IN
    /\ ~dumped
    /\ Room /\ Len(definitions) < MaxLabels
    /\ definitions' = Append(definitions, 0)
    /\ Evaluate(c, label)
    /\ open' = Append(open, Opened(0, label, c))
    /\ UNCHANGED <<relas, lastAdjusted, rodata, text, globalSize, symbols,
                   dumped, jumps>>

\* nodes/while.c, up to the body.
\* The condition is one instruction: none of its calls or strings is between
\* the label of the start and the exit jump.
BeginWhile(c) ==
    LET label == Len(definitions) + 1 IN
    /\ ~dumped
    /\ Room /\ Len(definitions) < MaxLabels
    /\ definitions' = Append(Append(definitions, Len(buf)), 0)
    /\ Evaluate(c, label + 1)
    /\ open' = Append(open, Opened(label, label + 1, c))
    /\ UNCHANGED <<relas, lastAdjusted, rodata, text, globalSize, symbols,
                   dumped, jumps>>

Top == open[Len(open)]

Closed == SubSeq(open, 1, Len(open) - 1)

\* The jump of the condition, once the byte it goes to is known.
ExitJump(target) ==
    IF Top.exit = 0 THEN {} ELSE {[site |-> Top.exit, target |-> target]}

\* nodes/if.c, after the body.
EndIf ==
    /\ ~dumped
    /\ open # <<>>
    /\ Top.startLabel = 0
    /\ definitions' = [definitions EXCEPT ![Top.endLabel] = Len(buf)]
    /\ jumps' = jumps \cup ExitJump(nextId)
    /\ open' = Closed
    /\ UNCHANGED <<buf, pendingRelocs, relas, lastAdjusted, rodata, text,
                   globalSize, symbols, dumped, nextId>>

\* nodes/while.c, after the body: the jump back, then the end.
EndWhile ==
    /\ ~dumped
    /\ open # <<>>
    /\ Top.startLabel # 0
    /\ Jump(1, Top.startLabel)
    /\ definitions' = [definitions EXCEPT ![Top.endLabel] = Len(buf')]
    /\ jumps' = jumps \cup {[site |-> nextId + 1, target |-> Top.start]}
                      \cup ExitJump(nextId')
    /\ open' = Closed
    /\ UNCHANGED <<relas, lastAdjusted, rodata, text, globalSize, symbols,
                   dumped>>

------------------------------------------------------------------------------
(***************************************************************************)
(* The end of a function and of the program.                               *)
(***************************************************************************)

\* Mutant: relative to the field instead of the instruction that follows it.
Rel32_FromField(p) == definitions[p.label] - p.offset

Rel32(p) == definitions[p.label] - (p.offset + 4)

\* relocations_apply, on the bytes the buffer holds.
Apply(bytes) ==
    [k \in 1..Len(bytes) |->
        IF \E p \in pendingRelocs : p.offset = k - 1
        THEN [bytes[k] EXCEPT !.v =
                 Rel32(CHOOSE p \in pendingRelocs : p.offset = k - 1)]
        ELSE bytes[k]]

\* add_prologue: push rbp; mov rbp,rsp; and sub rsp,imm32 for a frame.
PrologueSize(frame) == IF frame = 0 THEN 5 ELSE 12

Prologue(frame) ==
    [k \in 1..PrologueSize(frame) |->
        [id |-> 0, v |-> IF k = 9 THEN frame ELSE 0]]

\* Mutant: starts again from the first relocation at every function.
Adjusted_All(prologueSize) ==
    [i \in 1..Len(relas) |->
        [relas[i] EXCEPT !.offset = @ + prologueSize]]

\* pending_rela_relocations_adjust
Adjusted(prologueSize) ==
    [i \in 1..Len(relas) |->
        IF i <= lastAdjusted THEN relas[i]
        ELSE [relas[i] EXCEPT !.offset = @ + prologueSize]]

\* Mutant: the prologue moves the buffer before the relocations are applied.
Block_PrologueFirst(frame) == Apply(Prologue(frame) \o buf) \o Bytes(2)

\* The whole function: relocations first, then the prologue, then leave; ret.
Block(frame) == (Prologue(frame) \o Apply(buf)) \o Bytes(2)

\* Mutant: elf_text_section_add_block adds the size before the symbol.
SymbolValue_After(frame) == Len(text) + Len(Block(frame))

\* The symbol of a function is where the section ended before it.
SymbolValue(frame) == Len(text)

\* Mutant: relocations_clear forgets the pending ones.
PendingAfterFinish_Kept == pendingRelocs

PendingAfterFinish == {}

\* compiler_finish_function
Finish(name, frame) ==
    /\ ~dumped
    /\ open = <<>>
    /\ name \in Unfinished
    /\ text' = text \o Block(frame)
    /\ symbols' = Append(symbols, [name |-> name, value |-> SymbolValue(frame),
                                   size |-> Len(Block(frame))])
    /\ globalSize' = globalSize + Len(Block(frame))
    /\ relas' = Adjusted(PrologueSize(frame))
    /\ lastAdjusted' = Len(relas)
    /\ nextId' = nextId + 2
    /\ buf' = <<>>
    /\ definitions' = <<>>
    /\ pendingRelocs' = PendingAfterFinish
    /\ UNCHANGED <<rodata, open, dumped, jumps>>

\* The end of compile_program, between functions: parse_top_scope_stmt accepts
\* nothing but functions, so there is no code without a function to end.
Dump ==
    /\ ~dumped
    /\ buf = <<>> /\ definitions = <<>>
    /\ dumped' = TRUE
    /\ UNCHANGED <<buf, definitions, pendingRelocs, relas, lastAdjusted,
                   rodata, text, globalSize, symbols, open, nextId, jumps>>

Done == dumped /\ UNCHANGED vars

Next ==
    \/ \E n \in CodeSizes : Emit(n)
    \/ \E name \in Name : Call(name)
    \/ \E n \in StringSizes : StringLiteral(n)
    \/ \E c \in Condition : BeginIf(c)
    \/ \E c \in Condition : BeginWhile(c)
    \/ EndIf
    \/ EndWhile
    \/ \E name \in Name, frame \in FrameSizes : Finish(name, frame)
    \/ Dump
    \/ Done

Spec == Init /\ [][Next]_vars

------------------------------------------------------------------------------

TypeOK ==
    /\ buf \in Seq(Cell)
    /\ text \in Seq(Cell)
    /\ definitions \in Seq(Nat)
    /\ pendingRelocs \subseteq [label : 1..Len(definitions), offset : Nat]
    /\ relas \in Seq([symbol : Name \cup {".rodata"}, addend : Int,
                      offset : Nat, site : Nat, literal : Nat])
    /\ lastAdjusted \in 0..Len(relas)
    /\ rodata \in Seq([literal : Nat, byte : Nat])
    /\ globalSize \in Nat
    /\ symbols \in Seq([name : Name, value : Nat, size : Nat])
    /\ open \in Seq([startLabel : 0..Len(definitions),
                     endLabel : 1..Len(definitions), start : Nat, exit : Nat])
    /\ dumped \in BOOLEAN
    /\ nextId \in Nat
    /\ jumps \subseteq [site : Nat, target : Nat]

\* Every jump of a finished function lands on the byte its if or while
\* statement means: the end of the statement, or the start of the loop.  The
\* processor adds the field to the address of the next instruction.
JumpsLand ==
    \A j \in jumps : \A a, b \in DOMAIN text :
        text[a].id = j.site /\ text[b].id = j.target => a + 4 + text[a].v = b

\* Nothing but the fields of jumps is patched: no relocation of one function
\* is applied to another.
NoStrayPatch ==
    \A a \in DOMAIN text :
        text[a].id # 0 /\ text[a].v # 0 => \E j \in jumps : j.site = text[a].id

\* What the linker is told to patch is the field the compiler left for it,
\* in the section when its function has ended and in the buffer before.
RelasAtFields ==
    \A i \in DOMAIN relas :
        LET o == relas[i].offset IN
        IF i <= lastAdjusted
        THEN o < Len(text) /\ text[o + 1].id = relas[i].site
        ELSE /\ globalSize <= o /\ o - globalSize < Len(buf)
             /\ buf[o - globalSize + 1].id = relas[i].site

\* A string relocation resolves to the first byte of its literal: the linker
\* computes .rodata + addend - P, where the field P lies 4 bytes before the
\* address that lea adds it to.
StringsAddressed ==
    \A i \in DOMAIN relas :
        relas[i].literal # 0 =>
            /\ relas[i].addend + 4 \in 0..Len(rodata) - 1
            /\ rodata[relas[i].addend + 5] = [literal |-> relas[i].literal,
                                              byte |-> 1]

\* The functions of the symbol table tile the section: each starts where the
\* one before ends, with a prologue, and global_size is where the next starts.
SymbolsTile ==
    /\ globalSize = Len(text)
    /\ symbols = <<>> => text = <<>>
    /\ \A i \in DOMAIN symbols :
          LET s == symbols[i] IN
          /\ s.value = IF i = 1 THEN 0
                       ELSE symbols[i - 1].value + symbols[i - 1].size
          /\ s.value < Len(text) /\ text[s.value + 1].id = 0
          /\ i = Len(symbols) => s.value + s.size = Len(text)
==============================================================================
