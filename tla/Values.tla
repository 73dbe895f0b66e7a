-------------------------------- MODULE Values ---------------------------------
(***************************************************************************)
(* What the values of a compiled program are: the contents of the 8-byte   *)
(* registers while statements over variables of type char and int run, and *)
(* beside them what the same statements mean.  The instructions are those  *)
(* the handlers in nodes/ and types/type.c emit; which registers they use  *)
(* is the subject of ExprCodegen.                                          *)
(*                                                                         *)
(* A byte, 4 bytes and 8 bytes have Byte, Word and Quad values: 2^8, 2^32 *)
(* and 2^64 in the code.  An instruction that writes one byte leaves the   *)
(* rest of its register as it was, which is anything: an expression        *)
(* therefore has a set of contents.                                        *)
(***************************************************************************)
EXTENDS Integers, Sequences

CONSTANTS
    Variable,       \* names of variables
    Size,           \* their sizes in bytes: 1 or 4
    Expr,           \* expressions over them
    Byte, Word, Quad \* how many values fit into 1, 4 and 8 bytes

ASSUME ValuesAssumption ==
    /\ Byte \in Nat /\ Byte > 1
    /\ Word \in Nat /\ Word > Byte /\ Word % Byte = 0
    /\ Quad \in Nat /\ Quad > Word /\ Quad % Word = 0
    /\ Size \in [Variable -> {1, 4}]

VARIABLES
    memory,         \* the bytes of each variable
    rax,            \* what the last function to return left in the register
    returned,       \* the size of that function's type
    branch,         \* the condition just tested: whether it held, and whether an
                    \* operand cast to 8 bytes needed more than 4
    meant,          \* history: what the variables, rax and branch should hold
    exact           \* history: the statements so far are within what the code does

vars == <<memory, rax, returned, branch, meant, exact>>

Arithmetic == {"+", "-", "*"}
Comparison == {"==", "!="}

Width(bytes) == CASE bytes = 1 -> Byte [] bytes = 4 -> Word [] bytes = 8 -> Quad

\* The type post_parse gives an expression.
SizeOf(e) ==
    CASE e.op = "var" -> Size[e.name]
      [] e.op = "call" -> returned
      [] e.op \in Comparison -> 1
      [] OTHER -> 4

\* A register whose low byte holds v and whose others are what they were.
LowByte(v) == {v + Byte * upper : upper \in 0..(Quad \div Byte) - 1}

------------------------------------------------------------------------------
(* Contents of registers. *)

Bit(b) == IF b THEN 1 ELSE 0

\* add, sub and imul of 8 bytes.
Computed(op, l, r) ==
    CASE op = "+" -> (l + r) % Quad
      [] op = "-" -> (l - r) % Quad
      [] op = "*" -> (l * r) % Quad

\* cmp of 8 bytes; sete and setne write the low byte of the left register.
Compared(op, l, r) == IF op = "==" THEN l = r ELSE l # r
SetByte(op, l, r) == (l - (l % Byte)) + Bit(Compared(op, l, r))

\* cqo and idiv: both operands are signed, the quotient is rounded to zero.
Signed(v) == IF 2 * v < Quad THEN v ELSE v - Quad
Abs(n) == IF n < 0 THEN -n ELSE n
Quotient(l, r) ==
    LET q == Abs(Signed(l)) \div Abs(Signed(r))
    IN (IF (Signed(l) < 0) = (Signed(r) < 0) THEN q ELSE -q) % Quad

\* The value of a literal is kept in an int.
Literal(e) == IF 2 * (e.value % Word) < Word THEN e.value % Word
                                             ELSE (e.value % Word) - Word

\* Mutant: the test for a bigger type is the other way round.
BasicCast_Smaller(from, to, v) == IF from > to THEN v % Width(from) ELSE v

\* type_basic_cast: movzx where the type becomes bigger, and nothing from 4 to
\* 8 bytes.
BasicCast(from, to, v) ==
    LET target == IF to = 8 THEN 4 ELSE to
    IN IF from < target THEN v % Width(from) ELSE v

\* compile_value and compile_value_casted: the contents of the result.
RECURSIVE Contents(_)
Cast(e, to) ==
    IF e.op = "int"
    THEN IF to = 1 THEN LowByte(Literal(e) % Byte) ELSE {Literal(e) % Width(to)}
    ELSE {BasicCast(SizeOf(e), to, v) : v \in Contents(e)}

Operands(e) == Cast(e.kids[1], 8) \X Cast(e.kids[2], 8)

Contents(e) ==
    CASE e.op = "int" -> {Literal(e) % Word}
      [] e.op = "var" -> IF Size[e.name] = 1 THEN LowByte(memory[e.name])
                                             ELSE {memory[e.name]}
      [] e.op = "call" -> {rax}
      [] e.op \in Arithmetic -> {Computed(e.op, o[1], o[2]) : o \in Operands(e)}
      [] e.op \in Comparison -> {SetByte(e.op, o[1], o[2]) : o \in Operands(e)}
      [] e.op = "/" -> {Quotient(o[1], o[2]) : o \in Operands(e)}

\* No divisor is 0, which would be the end of the program.
RECURSIVE Defined(_)
Defined(e) ==
    e.op \in Arithmetic \cup Comparison \cup {"/"} =>
        /\ Defined(e.kids[1]) /\ Defined(e.kids[2])
        /\ e.op = "/" => 0 \notin Cast(e.kids[2], 8)

------------------------------------------------------------------------------
(* The meaning of expressions: int is arithmetic modulo Word, char a number    *)
(* from 0, and a comparison is 0 or 1.                                         *)

RECURSIVE Meaning(_)
Meaning(e) ==
    LET l == Meaning(e.kids[1])
        r == Meaning(e.kids[2])
    IN CASE e.op = "int" -> e.value % Word
         [] e.op = "var" -> meant[e.name]
         [] e.op = "call" -> meant["rax"]
         [] e.op = "+" -> (l + r) % Word
         [] e.op = "-" -> (l - r) % Word
         [] e.op = "*" -> (l * r) % Word
         [] e.op = "/" -> IF r = 0 THEN 0 ELSE l \div r
         [] e.op \in Comparison -> Bit(Compared(e.op, l, r))

\* The upper half of the register is clear when e is widened to 8 bytes: its
\* value was loaded, has one byte or is a positive literal.  The result of an
\* addition, subtraction or multiplication has 8 bytes whatever its type says,
\* and so may a returned one.
RECURSIVE UpperClear(_)
UpperClear(e) ==
    \/ SizeOf(e) = 1
    \/ e.op = "int" /\ Literal(e) >= 0
    \/ e.op = "var"
    \/ e.op = "/" /\ UpperClear(e.kids[1]) /\ UpperClear(e.kids[2])

\* What compares or divides has operands with clear upper halves, and what
\* divides has operands that are the same number signed or not.
RECURSIVE Exact(_)
Exact(e) ==
    e.op \in Arithmetic \cup Comparison \cup {"/"} =>
        /\ Exact(e.kids[1]) /\ Exact(e.kids[2])
        /\ e.op \notin Arithmetic => UpperClear(e.kids[1]) /\ UpperClear(e.kids[2])
        /\ e.op = "/" => \A k \in {1, 2} : 2 * Meaning(e.kids[k]) < Word

------------------------------------------------------------------------------

\* No condition has been tested since the last other statement.
NoBranch == [held |-> FALSE, wide |-> FALSE]
Tested(operands, contents, held) ==
    [held |-> held, wide |-> \E k \in DOMAIN operands :
                                operands[k].op # "int" /\ contents[k] >= Word]

Init ==
    /\ memory = [x \in Variable |-> 0]
    /\ rax = 0 /\ returned = 4
    /\ branch = NoBranch
    /\ meant = [x \in Variable \cup {"rax", "branch"} |-> 0]
    /\ exact = TRUE

\* A statement runs as long as those before it did what they mean.
Run(e) == exact /\ Defined(e)

\* x = e; or var x = e; the value is cast and its low bytes are stored.
Store(x, e) ==
    /\ Run(e)
    /\ \E v \in Cast(e, Size[x]) : memory' = [memory EXCEPT ![x] = v % Width(Size[x])]
    /\ meant' = [meant EXCEPT ![x] = Meaning(e) % Width(Size[x]), !["branch"] = 0]
    /\ exact' = Exact(e)
    /\ branch' = NoBranch
    /\ UNCHANGED <<rax, returned>>

\* return e; in a function whose type has declared bytes: the value is not cast.
Return(e, declared) ==
    /\ Run(e)
    /\ rax' \in Contents(e)
    /\ returned' = declared
    /\ meant' = [meant EXCEPT !["rax"] = Meaning(e) % Width(declared), !["branch"] = 0]
    /\ exact' = (Exact(e) /\ SizeOf(e) >= declared)
    /\ branch' = NoBranch
    /\ UNCHANGED memory

\* if (e) or while (e): a comparison by cmp, a literal by the compiler, and
\* anything else by test of 8 bytes.
Condition(e) ==
    /\ Run(e)
    /\ \/ /\ e.op \in Comparison
          /\ \E o \in Operands(e) :
                branch' = Tested(e.kids, o, Compared(e.op, o[1], o[2]))
       \/ /\ e.op \notin Comparison
          /\ \E v \in Cast(e, 8) : branch' = Tested(<<e>>, <<v>>, v # 0)
    /\ meant' = [meant EXCEPT !["branch"] = Bit(Meaning(e) # 0)]
    /\ exact' = (Exact(e) /\ (e.op \in Comparison \/ UpperClear(e)))
    /\ UNCHANGED <<memory, rax, returned>>

Next ==
    \E e \in Expr :
        \/ \E x \in Variable : Store(x, e)
        \/ \E declared \in {1, 4} : Return(e, declared)
        \/ Condition(e)

Spec == Init /\ [][Next]_vars

------------------------------------------------------------------------------
(* Properties. *)

\* Arithmetic runs on 8 bytes and its results are read as 4, chars are loaded
\* into registers that hold anything else, and casts from 4 to 8 bytes emit
\* nothing (binaryop.c:68-108, type.c:65-73, return.c:11): variables, returned
\* values and conditions are still what the program means, if no comparison,
\* condition or division works on the unfinished result of an operation and no
\* function returns a value smaller than its type.
AsMeant ==
    exact =>
        /\ \A x \in Variable : memory[x] = meant[x]
        /\ rax % Width(returned) = meant["rax"]
        /\ Bit(branch.held) = meant["branch"]

\* "32 bit operations already clear the upper half so we can just omit 64 bit
\* cases" (type.c:68): the operands of a comparison, cast to 8 bytes, are those
\* of 4 bytes.
UpperHalfClear == ~branch.wide
================================================================================
