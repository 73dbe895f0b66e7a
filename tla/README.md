# A verification development for dracon

dracon is a compiler for a small C-like language. One process reads one source
file and writes one relocatable ELF64 object for x86-64, in one thread. It
builds no intermediate representation: the parser makes a tree of statements
and expressions, each node carries its own `compile` function, and the
functions write machine code into a buffer as they walk the tree. What must
hold across that walk is kept in file-level variables: the mask of registers in
use, the chain of scopes, the running stack offset, the labels and relocations
of the function under way, the sections of the object.

This directory holds TLA+ models of that code, TLC configurations that check
them on small instances, and proofs that TLAPS checks for all instances. Paths
below are relative to the repository's `src/`; `PROJECT.json` maps each
definition of the models to the lines it stands for.

## 1. The system

    main.c:  read_file -> lexer_tokenize -> parse_program -> compile_program
    compile_program:  elf_handler_init, compile each statement, elf_handler_dump

| Component | State | Operations | Talks to |
| --- | --- | --- | --- |
| Driver, files, errors (`main.c`, `file.c`, `error_handling.c`) | none | one call of each pass; `log_error` ends the process | all |
| Lexer (`lexer.c`) | a growing token list, the cursor in the text | one token at a time | parser, by the list |
| Parser (`parser/*.c`, the `parse_*` of `nodes/*.c`) | the token cursor, the growing statement list | recursive descent | declares and resolves in scopes, adds functions |
| Scopes and frames (`compiler/scope.c`) | `current_scope` (a chain of hash maps), `current_stack_offset` | declare, resolve, push, pop, new | parser and code generator, one after the other |
| Function table (`compiler/function.c`) | a growing array of functions, searched from the first, and whether each is defined | declare, define, look up | both passes |
| Types (`types/type.c`) | none | size, equality, basic and default cast | expressions |
| Expressions (`nodes/*.c`) and the register allocator (`compiler/compiler.c`) | `register_use_mask` | `compile_value`, `compile_value_casted`, `get_lvalue_rm`; get, set and reset of registers | scopes, buffer, relocations |
| Instruction encoding (`assembler/*.c`) | none | one function per instruction form | output buffer |
| Output buffer, labels, relocations (`compiler/compiler.c`, `relocation.c`, `elf_handler.c`) | `out_buffer`, label definitions, pending jumps, pending linker relocations, `global_size` | write, define, add, apply, adjust, finish function | ELF sections |
| ELF writer (`elf/*.c`) | string, symbol, relocation, text and rodata sections with their headers | add, find, dump | the file |
| Dynamic arrays and buffers (`data_structures/*.c`) | capacity, count, block | append, free | all tables |

Nothing runs concurrently, nothing is retried and nothing survives the process,
so this code has no interleavings, lost messages or crash recovery. What is
hard in it is of another kind:

- **Two walks that must agree.** Parser and code generator declare and resolve
  the same variables in the same global scopes, in orders that are not the
  same, and nothing resets the scopes in between.
- **Offsets that are relative to something that moves.** A jump, a call or a
  string is noted by its offset in the buffer; later the prologue is put in
  front of the buffer and the buffer behind the section.
- **Registers held across a recursion.** A handler marks a register, calls
  handlers that mark and free others, pushes some of them, and returns one.
  A bit too many costs a register for the rest of the function, a bit too few
  overwrites a live value, and both need a certain nesting of operators to show.
- **A list of tokens and a tree that is complete only later.** The parser has no
  lookahead beyond the next token and no check that it stops at the last one;
  types are attached by a second walk that the handlers and `parse_expr` share.
- **One register, three widths.** A char is one byte of a register whose rest is
  old, an int is loaded as 4 bytes and computed as 8: whether a comparison is
  right depends on which instruction wrote its operands last.
- **Tables that describe each other.** String offsets, symbol indexes, the
  number of local symbols, section sizes and file offsets are counted where the
  data is added and used where it is written.

What makes each component correct, and which hazard is behind it, is listed in
`PROJECT.json` under `hazards`, at the line where it bites.

## 2. Modules

| Module | Models | Composes |
| --- | --- | --- |
| `FrameLayout` | what `scope.c` promises: a lexical environment over one stack frame | |
| `Scope` | what `scope.c` does: the chain of hash maps with buckets | implements `FrameLayout` |
| `TwoPass` | the names of a program, in the parser and again in the code generator | `FrameLayout` for the scopes of both |
| `Lexer` | `lexer_tokenize` and the memory of its list | |
| `Parser` | recursive descent, from tokens to typed nodes | |
| `ExprCodegen` | the expression handlers, the allocator, and the machine the emitted code runs on | `Encoding` for the instructions it emits |
| `Encoding` | the bytes of each instruction, and the processor that reads them | |
| `Values` | the numbers in the registers while statements run, beside the numbers they mean | |
| `ObjectCode` | buffer, `if` and `while`, labels, prologue, text section, linker relocations | |
| `ElfObject` | strings, symbols, relocation entries, section headers, the file | |
| `FrameLayoutProofs`, `ScopeProofs`, `ObjectCodeProofs`, `LexerProofs`, `ParserProofs`, `ExprCodegenProofs`, `TwoPassProofs`, `ElfObjectProofs` | theorems about eight of them | |

The `MC*` modules give the constants their values for TLC.

### FrameLayout and Scope

`FrameLayout` keeps the visible variables as a set of (depth, name, type,
offset) and, as history, every declaration of the function so far: the slot of the
entry, the offset returned, and how many bytes a store through it writes
(`asm_MOV_rmx_rx` stores 1, 2, 4 or 8 bytes and emits nothing for any other size). Its actions are
`Declare` (`scope_declare_variable`), `DeclareFails` (the name is taken in this
scope and the compiler stops), `Push`, `Pop` and `New`. The offset that `Declare`
returns and the offset it keeps in the entry are two values in the code (rounded up to 8,
and not), and so they are here: an initial value or a parameter is stored through the first and
read through the second. `StoresSound` says what holds of them: for a scalar the two are the same,
and whatever is stored, an array parameter included, lies in the frame and in the slot of no
other variable, even of one that is declared before the store, as `generate_arg_offsets`
does with all parameters. It does not say that an array parameter arrives in
its own slot: section 4 has the case.

`Scope` is the same five operations on the data of the code: for each scope a
sequence of entries for each bucket, searched by `strcmp` along the bucket and
scope by scope. The hash is a constant function, so that collisions can be
chosen. It implements `FrameLayout` under the mapping that forgets buckets and
order and numbers the scopes by their distance from the outermost
(`ImplementsFrameLayout`).

### TwoPass

The program is built by the parser, one item at a time: function declaration
and definition, variable with or without an initial value, use, block, end of
function. What the parser resolved a use to is kept with the item as history.
Then the code generator walks the items, with the scopes as the parser left
them. The orders differ as in the code: `var_declaration.c` parses the initial
value before it declares the variable and compiles it after. A definition
that follows a declaration uses the argument list of the declaration in both
passes, as `func_declaration.c` does.

### Lexer

A source is a sequence of characters; one action is one iteration of the loop of
`lexer_tokenize`, which takes a token (`DoubleCharacter`, `SingleCharacter`, `Integer`, `String`,
`Word`), skips a white space, ends the process (`Unexpected`, `UnclosedString`), or finds no
memory. Each iteration begins as in the code by looking whether the list has to grow
(`Grown`), before it is known whether there is a token. A token keeps its span
as history, so that the list can be compared with the source. The value of an
integer is reduced modulo `ValueLimit` at each digit, as `uint64_t` does.

### Parser

The calls that remain to be made are a stack, `todo`, as in `ExprCodegen`; each
parse function is an action, or one for each piece between two calls it makes.
Results lie on stacks (`exprs`, `types`, `names`), the nodes in `nodes` with the
span of tokens they stand for, as history. `post_parse` is a walk of its own
(`PostParse`, `SetType`) that the handlers start for some operands only, as in the code.
The scopes give types to variables and the table of functions gives them to
calls (`Declared`, `WithArgs`). Tokens are revealed one at a time: the parser cannot
see further, so that a source is extended only as long as it is not rejected.

### ExprCodegen

The recursion of the handlers is a stack of tasks, `todo`: a handler that calls
others replaces itself by their tasks and one for the rest of its own body. One
action is one such piece of a handler. The registers a handler returns go to
`results`, its register-memory operands to `lvalues`.

The code emitted for an expression is straight-line, so the machine makes each
step as the instruction is emitted. Its registers hold symbolic contents, "the
value of the subexpression at this path, so many bytes of it", never numbers: an
instruction that finds in its registers the operands it was emitted for leaves
the value of the expression, and otherwise leaves junk. A call writes junk to
every volatile register and the result to rax; `cqo` writes rdx; a write of 1 byte
keeps the rest of the register. Sizes are 1 and 8 here, for 4 and 8 bytes are in
the same registers at the same times; what becomes of the bytes is in `Values`.

Every action also lists the instructions it emits (`Emits`), and `faithful` says
that the processor of `Encoding` reads them as they were meant. An instruction whose
size is that of a type other than char is encoded both with 4 and with 8
bytes (`SizesOf`).

### Encoding

`Encode` is the functions of `assembler.c`: prefix, opcode, `generate_modrm`, the bytes of
displacement and immediate. `Decode` is the processor, external to the code: it
knows that the ids 4 to 7 of a byte operand mean ah, ch, dh and bh without a REX
prefix, that base 4 announces another byte and that base 5 without
displacement is rip.

### Values

A register is a number below `Quad`, a char a number below `Byte`, an int one below
`Word`. `Contents` is what the instructions of the handlers leave in the result
register: a set, since a write of one byte leaves the others as they were.
`Meaning` is the language's: arithmetic modulo `Word`, comparisons 0 or 1. The
statements store, return and branch; `exact` says which of them lie inside what the code computes
rightly, and a run goes on only while they do.

### ObjectCode

A byte is a cell with an identity, so that "the byte the label stood before"
has a meaning after the code has moved; the first byte of a 32-bit field carries
the number in it. The actions emit code of some size, a call, a string literal,
the beginning and the end of an `if` or a `while` with each kind of condition
(never, always or sometimes true, which emit different code), the end of a
function, and the end of the program. `Finish` is the whole of
`compiler_finish_function`: apply the jumps, put the prologue in front, append
`leave; ret`, append the block to the section, add its symbol, adjust the
linker's relocations, clear.

### ElfObject

The compiler adds calls, strings and code blocks, in any order that functions
allow; then `elf_handler_dump` adds the missing symbols, then the relocations,
and `elf_dump` sums the sizes, allocates, and writes section after section. The
model keeps the counters of the headers apart from what they count. Names are
model values with a length, which is what offsets into a string table depend on.

## 3. Runs

The runs of code generation also check for deadlock: the compiler always has a next
step until it has written the object or stopped with an error. `lexer`, `parser`
and `values` switch the check off: the first two stop when their function
returns, and the third when a statement has been run that is not `exact`.

| Run | Bounds | Shows |
| --- | --- | --- |
| `frame_layout` | 2 names, a scalar of 4 bytes and arrays of 2, 8 and 12, depth 3, frame 40 | slots are disjoint, lie inside the frame the prologue will reserve, a name has one meaning, a scalar is stored where it is read, no store reaches another variable, blocks never give bytes back |
| `scope_chain` | 3 names, 2 of them in one bucket, depth 3, frame 32 | resolution along the chain is lexical, and `Scope` implements `FrameLayout` |
| `two_pass` | 2 variables, 2 functions, argument lists (), (x,y), (y,x), (x,x), 7 items, depth 3 | both passes bind uses alike and count the same frame, the code generator accepts what the parser accepted, scopes are clean between functions and between passes, a function is defined once |
| `lexer` | every text of at most 4 characters out of ten classes, and three of up to 14; blocks of 2 tokens, integers modulo 50 | tokens are written inside the list's memory; the source is cut greedily, or rejected where no token starts |
| `parser` | every source of at most 4 tokens, out of 26, behind each of 13 starts (function headers, prototypes, operators, places in calls, conditions, blocks) | the parser never eats the end of the file, every expression has its type, the tree is that of the grammar, every source is parsed or rejected |
| `expressions` | every expression of two levels of operators; sums of five operands; calls with four arguments; divisions as operands of each operator, as arguments, indexes and values to store; four kinds of statement | the value arrives in the register reported, live operands stay marked and calls save them, a lone target register is left free, every register is encodable, every instruction is read as it was meant, each statement frees all it took, callee-saved registers are not written |
| `values` | an int of 8 values and a char of 2 in registers of 16; one operator, or a comparison or division around one; any number of statements | variables, returned values and branches are what the program means, inside the fragment `Exact` |
| `upper_half_clear` | the same | a finding, below |
| `object_code` | 2 functions, instructions of 3 bytes, strings of 3, frames of 0 and 8, at most 4 labels in a function (`MaxLabels` 3), 14 bytes before the last instruction | jumps land on the byte meant, nothing else is patched, relocations name their field, strings resolve to their first byte, symbols tile the section |
| `elf_object` | 3 functions with names of 1, 2 and 3 characters, strings of 5 bytes, 3 relocations | names read back, relocations bind to the symbol meant, one symbol per name, headers agree with contents, the file is tiled by its sections |
| `volatiles_saved` | one statement | a finding, below |
| `rhs_avoids_target` | one statement | a finding, below |

Why the bounds are enough to be of use: the frame sizes include one that is not
a multiple of 8, arrays and scalars, and space for up to five slots, so that each order
of two kinds of variable in nested and successive blocks occurs; two names in one
bucket and one in another give hits, misses and wrong first candidates; seven
items hold a declaration and a definition with a shadowing block, or two
definitions with variables and uses; four labels hold an `if` in a loop, a loop in an `if` and a loop
in a loop, in the first function and in the second, where the section is no longer
empty; two functions are the fewest for which the relocations of an earlier function
could be moved again; names of different lengths make a wrong string offset
visible. Two levels of operators reach every pair of a handler and the handler of
its operand, and the five operands fill all the registers that can be encoded and
allocated (rax, rdi, rsi, rcx, rdx). A block of two tokens has each number of tokens
modulo the block, and four characters hold a pair behind or before each class. The
starts of `parser` hold the deep states that four tokens do not reach, and four
tokens behind them complete each construct or leave it open at each place. Registers of
four bits, with one for a char and three for an int, have values that fit the narrower width,
that do not, and that are negative. For each property of a passing run
`PROJECT.json` names a plausible bug in the code that makes the run fail.

### Liveness and fairness

`Parser` assumes `WF_vars(Next)`: the compiler is one sequential process with nothing to
wait for, so it takes its next step. Under it every source is parsed or rejected
(`ParserEnds`). That is not for free: the loops of `parse_func_decl` and `parse_block`
run until a closing brace, and end on a truncated source only because
`parse_stmt` makes the end of the file an error; a statement that ate no token
would turn them for ever. The sources are finite by `MaxTokens`, as files are.

The other modules state no liveness. The lexer moves its cursor in every step but the last,
and the code generator walks a finite tree: fairness would say nothing there that the
code could fail to provide. A handler that cannot go on is a deadlock, which the
runs check.

## 4. Findings

Three runs refute what a comment of the source says: two in the code for
divisions (`nodes/binaryop.c`), one in the casts (`types/type.c`).

- **A division forgets that rax is in use.** `func_call.c:68` says "If any
  volatile registers are in use, make sure to save them before calling the
  function". A division that finds rax taken pushes it, clears its bit, and pops it
  again without setting the bit. In `f() + 8 / 2 + f()` the second call then does
  not save the first result. With f returning 3 the program computes 6, not 10.
- **The divisor may take the quotient's register.** `binaryop.c:34` says "If only
  one dst register is specified, stop rhs from using that register", but where the
  left operand is compiled first the mask made for this is not used. In
  `h(f() / 2)` the literal 2 is put in rdi, the quotient has no register left, and h
  receives 2.
- **A cast to 8 bytes leaves the upper half as it is.** `type.c:68` says "32 bit
  operations already clear the upper half so we can just omit 64 bit cases", but
  addition, subtraction and multiplication are operations of 64 bits. With x = 0 - 1
  the comparison `x == 0 - 1` has 0x00000000ffffffff on the left and
  0xffffffffffffffff on the right, and is false. `AsMeant` says where this does not
  matter: in everything that is stored to an int or a char.

Behaviour met while modelling that no comment of the source speaks about, so
that there is no run to refute one:

- Six operands, `1+2+3+4+5+6`, use up the registers that have an encoding. The
  allocator then returns r8, which `reg_id` does not know, and the sum is 20. The
  run shows that five operands fit.
- `return *p = 5;` asks for its value in rax only, which the address of the target
  has taken already; the allocator has nothing to give. The runs leave this
  statement out (`ReturnsStore` in `MCExprCodegen`).
- A divisor that the allocator puts in rdx is overwritten by `cqo`:
  `h(1,2,g(),12/4)` stops with SIGFPE. The passing runs divide only in calls
  of at most two arguments.
- In `{ var int x = x; }` inside the scope of another x the parser takes the type
  of the outer x, and the code generator reads the inner one. `BindsAlike` excepts
  this case by name (`OwnInitialiser`) and no other.
- `return` does not cast to the type of its function: `return a == 300;` in a
  function of type int leaves the upper bytes of rax as the comparison found them.
  `Values` leaves such a return outside of `Exact`.
- A parameter may be an array (`parse_args` takes any type), and `func_declaration.c:30-33` stores every
  parameter through the offset that `scope_declare_variable` returned, which is rounded up to
  8; reads use the exact offset of the entry (`scope.c:110`). A parameter of type `int[1]`,
  `char[4]`, `char[2]` or `char[1]` is therefore written to bytes that are not its own: the
  first `int[1]` to rbp-8, and read at rbp-4. Arrays of 8 bytes arrive in their slot, those of
  any other size are not stored at all. The bytes written are padding (`StoresSound`), so no other
  variable is changed. No call compiles, since no value casts to an array type, but the
  function does. Initial values of arrays are refused in the same way.
- Arguments five and six come in r8 and r9, which have no encoding; a seventh
  reads past `arg_registers`.
- After ten top-level statements `parser.c:79` reallocates the list to a number of bytes that
  lacks `sizeof(stmt*)`, and `current_stmt` keeps pointing into the old block.
- The size of an array is cut to an int (`type_parser.c:32`), so that a large one
  moves the running stack offset backwards. `FrameLayout` has sizes that were not cut.

## 5. Proofs

The theorems hold for every value of the constants that the named assumption of
the module allows; TLC evaluates the assumptions in the runs.

**FrameLayoutProofs** (from `TypeAssumption`: sizes are natural numbers). The
inductive invariant `FrameInv` is the type invariant, `Aligned` (the running
offset is a multiple of 8), `KeysUnique` (one variable per scope and name),
`SlotsInFrame`, `SlotsDisjoint` and `StoresSound`. `Aligned` is what makes
the rounded and the unrounded offset of a scalar meet: without it
`StoresSound` is not inductive. A new slot begins where the running
offset stood, and so lies past every old one, and what is stored through its rounded
offset is no wider than the slot (`StoreFits`), so that the same holds of the bytes
stored. From `FrameInvariant` follow
`FrameTypeCorrect`, `FramesAreSound` (disjoint and inside the frame),
`FramesHoldSlots`, `ResolutionUnique`, `StoresAreSound`, and the action property `FrameMonotone`.

**ScopeProofs** (from `ScopeAssumption`: the hash of a name is a bucket, sizes are
natural numbers). `ScopeInv` says that every entry lies in the bucket its key is
hashed to and that a scope has a key once (`MapOK`). With it the map of a scope has a
key exactly when an entry of that depth is visible (`MappedIsVisible`), so
both modules refuse the same redefinitions; `DeclareShows`, `PushShows` and `PopShows` say what
becomes visible, and `ScopeRefinesFrame` follows: `Spec => ImplementsFrameLayout`, for any
hash function. `LookupsAreLexical` is the lookup itself: the greatest depth
that holds a name (it exists, being one of finitely many) and the first match in its bucket
(it is the only one) are the innermost declaration. What `FrameLayoutProofs` shows of
the environment therefore holds of the chain.

**ObjectCodeProofs** (from `SizesAssumption`: sizes are positive, frames are not
negative). The difficulty is that what `JumpsLand` says of a jump becomes true
only when its function has ended and moved. The invariant `CodeInvariant` states
what it waits for:

- `CodeInv`: with `Base` the identity of the first byte in the buffer, offset o of
  the buffer is the byte `Base + o`, not patched yet, and all finished code has
  identities below `Base`;
- `PendingInv`: each pending jump has its own field inside the buffer and a label
  of this function;
- `OpenInv`: labels of open statements are distinct, the start label of a loop is
  defined as the loop's first byte, and the exit jump of an open statement is
  pending for its end label;
- `JumpInv`: a jump whose target is known either lies with it in finished code, or
  a pending relocation is at its field, for a label defined as the target, which no
  open statement will define again;
- `PatchInv`: each pending relocation belongs to such a jump or to the exit of an
  open statement;
- `LinkInv`, `SymbolInv`, `StringInv`: the properties of relocations, symbols and
  strings, with types.

Emitting code extends the buffer and moves nothing (`WriteExtends`). Opening a
statement adds labels past all others (`BeginKeeps`), closing one turns its exit
into a jump that waits (`CloseKeeps`). At the end of a function the buffer is
prologue, patched code and two bytes (`BlockBytes`); all its bytes move by the
same distance, so a difference of two labels stays right (`FinishJumps`), and
so does a linker relocation moved by that distance (`FinishLink`). The theorems
are `CodeTypeCorrect`, `JumpsAreRight`, `PatchesAreRight`, `RelocationsAreRight`,
`StringsAreRight` and `SymbolsAreRight`: for any number of functions, any nesting
of statements, any sizes of code, strings and frames.

**LexerProofs** (from `LexerAssumption`: letters are none of the other characters, a
block has at least one token). `LexerInv` is `LongestMatch` itself with `Cursor` (the
cursor is inside the text or at its end, and the list has a free slot as long as
the loop runs) and the type of the list. The free slot is what makes
`StaysInBounds` inductive: the token that ends the list is written without a look at the
memory. `RunEnds` shows that the end of a run of characters exists, as the least
number of a set; `LexemesAre` and the lemmas after it say of each kind of
token that the text taken is a lexeme and that no longer one begins there, which
needs that the classes of characters are disjoint; `TokenKeeps` then adds one
token to the list. The theorems are `LexerInBounds` and `LexerIsGreedy`: for texts
of any length.

**ParserProofs** (from `ParserAssumption`: identifiers are tokens, and no token is the end of
the file). `NeverPastEnd` is an invariant of every single function (`MovesKeep`: whoever eats
has looked at the token), but whether a function can be called at all
depends on its callers: `parse_program` takes a type and a name that functions far below have pushed,
a subscript takes the node on top. A `Layout` says how high the stacks are and what is known of each
result: a `raw` expression, one with a type (`typed`) or a statement. `Takes` is the contract of each
function, from one layout to the next, `Effect` chains the contracts of several calls, and `WorkInv` says
that the calls that remain lead on from a layout that fits. A function that makes others keeps it
because they have together its own effect (`LevelRuns`, `ExpressionRuns`, `TypeRuns`,
`ParameterRuns`). `FullyInitialised` then is about post_parse: a handler calls it for some operands
and relies on `parse_expr` for the others. `NodesInv` says that the index of a subscript and the arguments of a call
are typed from the beginning; the layout collects the nodes that the post-parsing
under way has given a type (`typed`), and `OperandTakes` asks of the last step of a handler that
the operands it called are among them. So `TypeOf` looks at types that are there (`TypeOfIs`) and a
node with a type has operands with one (`TypedIsSound`). The theorems are `WorkFits` (the invariant),
`TypeCorrect`, `StopsInFront` and `ExpressionsInitialised`: for sources of any length, any names and
any nesting.

**ExprCodegenProofs** (from `ExprAssumption`: an expression has as many operands as its kind, and at
most six arguments; and from `DivisionAssumption`: `Divides` has the value that its own recursive
definition says, which takes an induction over expressions and so is evaluated by TLC in every run
of the module; only the theorems on operands need it). `CalleeSavedKept` says that no instruction
writes a reserved register. A handler writes what the allocator gave it some handlers earlier, so
`ReservedInv` follows the registers on their way: reserved ones stay marked, so that the allocator
never answers one (`AvailableIsFree`); results, the output of a call under way and the bases of
operands are not reserved, except rbp, which `FreedBase` therefore must not free; what a call or a
division saved is volatile, so that what it restores is not reserved. One lemma for each action; the
theorems are `ReservedInvariant` and `CalleeSavedAreKept`, for expressions of any depth.

`StatementsLeaveNothing` (`StatementLeavesNothing` for every expression) needs to know what is on
the stacks in the middle of an expression. A `Layout` says how high the stacks of results, operands and machine
words are, and for each result and operand a set of registers it may be in; `TaskRuns` says from which
layout to which one a task leads, its callees included, which is the contract of a handler: a value
is one result more in a register of its mask, the remainder of a binary operation turns two results into
the left one. `Effect` chains the layouts of several tasks, and `HeightInv` says that the tasks
still to run lead from a layout that fits the stacks to an empty one. For a handler that calls others the proof is
that the tasks it makes have together the effect of the one they replace (`OperandsRun`,
`OffsetRuns`, `ArgumentsRun`, whatever the order of the arguments). `UsedInv` adds that a register in use belongs to a result or
an operand that waits. Two places need the registers and not the heights alone. A division may
clear the bit of rax because its left operand is there: it was compiled with rax as its only
choice. And a call marks what it pops as used again, which is a leak unless somebody still waits for it: the
layout made at the beginning of a call names the registers that wait exactly, and the
tasks in between leave those positions alone.

`EncodingsAreFaithful` (`EncodingsFaithful` for every expression) has two halves. One is about
`Encoding` alone: for any registers that have a reg_id, any displacement and value of four bytes and
each size, `Decode(Encode(i)) = i`. The bytes are those of two numbers written out and put together again
(`BytesOf`, `WrittenIs`), a ModRM byte that is taken apart (`ModRMIs`, `Fields`, `Reads`), one
lemma for each opcode about what the processor makes of it (`BodyStore1` and so on), and one for
each group of operations (`MovMeans`, `RegisterMeans`, `MovRegImmMeans`, `ByteMeans`, ...). The other half is about the
allocator: as a base register of an operand rsp would announce another byte, and rbp without a displacement would
mean rip. `ReservedInv` keeps both out of the registers the handlers get, and rbp is the base of local variables only,
which have a displacement (`OperandIs`, `MovesFaithful`). A register without a reg_id makes
`encodable` false, and then nothing is claimed.

`OperandsAreReserved`, `CallsSaveTheirOperands` and `TargetsLeftFree` (`OperandsReserved`,
`CallsSaveOperands` and `TargetLeftFree` for every expression without a division; with one they
fail, section 4) are about operands that wait while others are compiled. They speak of the nine
volatile registers: the allocator's other answers, bit 16 and no bit at all, are no registers. That
no two operands share a register is not inductive, because a call clears the bits of registers that
still hold operands: it has pushed them, its arguments may take them again, and at its end it marks
them without asking who has them then. So each task gets a second contract. A `Reach` says how many
results and operands there are, above which floor the present call may count on finding them in
registers (`fr`, `fl`), and what was below the floor when it was set (`res`, `lvs`). `Reaches` says
what a task does to that: all but the end of a call keep the floor; the end of a call takes its
arguments away, lowers the floor to that of the call around it, and brings back exactly the operands
between the two floors, which waited in registers of their own (`Apart`) that it has in `saved`
(`GivesBack`). `OwnedInv` says that the tasks still to run follow one another in this way from a
reach that the stacks are in (`Holds`: what is above the floor waits in registers of its own, marked
as used) to one without a floor. There is one lemma for each piece that ends (`LeavesHold` to
`CallHolds`), and one for each that others replace (`CastedOwned` to `CallOwned`). `pend` is there
for `address_of.c`, which takes a register and writes it after its operand is compiled.
`UndividedInv` carries down to each task that the statement has no division. The properties then
follow from the chain of reaches: whatever is below a floor was there when the floor was set
(`ChainBack`), and the first task at which it rises above the floor is the end of a call that has
saved it (`ChainSaves`). For `TargetLeftFree` the layout of a binary operation also says what the
operand compiled first leaves of a single target (`LeavesTarget`): it was told to avoid it, or it is
in it, and then the second operand, in a register of its own, is not. (If there was no register left
for the first, its instructions have no encoding, and nothing is claimed of the second.)

**TwoPassProofs** (from the assumptions of `TwoPass` and `FrameLayout`).
`FunctionsDefinedOnce`: every definition in the program has an entry in the table that is marked
as defined (`TableInv`), and `DeclaringKeeps` shows that no declaration clears the mark.
`ScopesAreClean`: nothing resets the scopes between the passes, and between functions only
`scope_new` at the end of each does. The invariant `CleanInv` says from the items alone where
a function is open (`Open`): in the parser one is being parsed exactly when the program
ends inside it, and in the code generator one is being compiled exactly when the items
compiled so far do. `Nested` adds that the program the parser left has statements
inside of functions only and headers outside, so that the code generator, which
reads no braces, leaves each function by the item that ends it.

`PassesBindAlike` and `NoLateError` (that a program the parser accepts compiles without an error) compare
states that lie far apart: the scopes the code generator has at a use, and those
the parser had when it read that use, which no variable keeps any more. `HistoryInv` therefore says
that a history exists: for each statement the environments (depth, visible variables,
running offset) before it and, in a function's header, after each of its arguments, which `History`
ties to the statements by what the scope operations do. The parser stands at
the end of one (`ParserReached`), the code generator somewhere in one that goes on to the
end (`CompilerReached`). `HistoryGrows` and `HistoryDeclares` extend the history when the
parser accepts a statement or an argument; `Compiles` walks it a second time. Each
statement kept of its use what its environment resolved it to (`BindsAlike`), and in
`var_declaration.c` the type the parser saw is that of the environment before the
declaration, the code generator's that of the one after: they differ for the declared name
and no other. `TypeCorrect` and `PassesAgree` (the invariant itself) come with it.

**ElfObjectProofs** (from `ElfAssumption`: names of functions are not those of
sections, names, blocks and strings are not empty). The offsets are sums over what was
added before, so the first lemmas are about sums: partial sums exist and are
unique (`PartialSumsExist`, by the least number that has none, for the prover has no
induction over data), the sum of a longer list is at least as large, and
different prefixes of a list of positive numbers have different sums, which is why a string is found at
its offset and at no other. The invariant `IInv` has `Sized` (each header's size is
the sum of what its section holds), `SymbolsInv` (string k of .strtab is the name of symbol k,
and no string is there twice), `FunctionsInv` (the functions finished so far are the
first globals, in order, each at the sum of the sizes before it), `EntriesInv` (how far the
pending relocations were turned into symbols and then into entries), `LayoutInv` (how far
the file is written). `NamesCorrect`, `RelocationsCorrect`, `SymbolsUnique`,
`HeadersCorrect`, `FileCorrect` and `TypeCorrect` follow, for any number of functions, calls and
strings.

Model-checked only, so far: of `Parser` that the nodes are the parse tree of the source
(`TreeFollowsGrammar`), and of `ExprCodegen` how many registers suffice (`RegistersSuffice`, which
is true of the expressions of the runs and of no larger set that can be named without computing the
registers each needs). Out of the prover's reach altogether, and so left to TLC: liveness under
fairness (`ParserEnds`), and what is computed by recursion over data, which is all of `Values` and
the contents of registers in `ExprCodegen` (`ResultIsValue`).

## 6. What is not modelled

- The text of messages, and the driver: `main` calls the passes once, in order;
  `log_error` is a final state of each module.
- Memory behind pointers: `free`, `data_structures/*.c`, the parser's statement list.
  The hazards at `parser.c:79` and `func_declaration.c:53` are listed without a property:
  a model of them would restate the wrong expression and nothing else.
- The errors of `type_default_cast` and `not_lvalue`, which end the compiler, and
  `type_check_equal`; pointers have no numbers in `Values`.
- In `Encoding`, instructions of 16 bits and `syscall`. Of the first only the store of a `char[2]`
  parameter is ever emitted (`func_declaration.c:33`), and `ExprCodegen` has expressions and
  statements, not the stores of parameters; the second is never emitted.
- In `ObjectCode`, calls and strings inside the condition of a `while`, between the label of its start
  and its exit jump: a condition is one instruction there. Calls and strings before an
  `if` and in the bodies of both are modelled.
- In `ExprCodegen`, a literal as a condition: it emits a jump or nothing
  (`int_literal.c:37-46`), uses no register, and is `always` and `never` of `ObjectCode`.
- The size of an array in `Parser`, and its truncation.
- Fixed fields of the ELF headers, and files that cannot be read or written.
- More than four arguments of a call in the runs of `ExprCodegen`.

## 7. Plan

Done: all modules above; proofs for eight of them. What is left, in this order:

1. **Calls**: arguments five and six once they have an encoding, and the count of
   arguments against the declaration.
2. **Composition**: a driver over `TwoPass`, `ObjectCode` and `ElfObject` in which the blocks
   and relocations of one are the input of the next.

## 8. Running

    tlc -workers 2 -config MCObjectCode.cfg MCObjectCode
    tlapm ObjectCodeProofs.tla

`PROJECT.json` lists the module and configuration of each run. The longest
takes about a minute and a half, the proofs of one module up to eleven minutes.
