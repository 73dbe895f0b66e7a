----------------------------- MODULE ExprCodegen -----------------------------
(***************************************************************************)
(* How dracon compiles one expression: the compile_value,                  *)
(* compile_value_casted and get_lvalue_rm handlers of nodes/*.c and the    *)
(* register allocator of compiler/compiler.c that they share.              *)
(*                                                                         *)
(* The recursion of the handlers is the stack `todo': the head is the      *)
(* piece of a handler that runs next, a handler that calls others replaces *)
(* itself by their tasks and one for the rest of its own body.  Handlers   *)
(* return registers (`results') and register_memory operands (`lvalues',   *)
(* by their base register).                                                *)
(*                                                                         *)
(* The emitted code is straight-line, so the machine it runs on makes each *)
(* step as the instruction is emitted: `regs' and `stack' hold symbolic    *)
(* contents, "the value of the subexpression at this path", never numbers. *)
(* Sizes are 1 for byte types and 8 for all wider ones: a write of 4 bytes *)
(* clears the upper half of its register, a write of 1 byte keeps the rest.*)
(***************************************************************************)
EXTENDS Encoding, FiniteSets

CONSTANTS
    Expr,           \* expressions, closed under subexpressions
    Statement       \* [kind, e] with kind in StatementKind, e in Expr

StatementKind == {"exprstmt", "return", "var_decl", "condition"}

\* How many operands an expression has; a call has as many arguments as the
\* function has parameters, and at most one for each of arg_registers.
ArityOK(e) ==
    CASE e.kind \in {"plus", "equals", "over", "subscript", "assign"} -> DOMAIN e.kids = 1..2
      [] e.kind \in {"dereference", "address_of"} -> DOMAIN e.kids = 1..1
      [] e.kind = "call" -> DOMAIN e.kids = 1..Len(e.kids) /\ Len(e.kids) \in 0..6
                            /\ DOMAIN e.params = 1..Len(e.kids)
      [] OTHER -> TRUE

ASSUME ExprAssumption ==
    /\ \A e \in Expr : ArityOK(e) /\ \A i \in DOMAIN e.kids : e.kids[i] \in Expr
    /\ \A s \in Statement : s.kind \in StatementKind /\ s.e \in Expr

VARIABLES
    todo,       \* the pieces of handlers still to run, the next one first
    results,    \* registers returned and not yet consumed, the last one last
    lvalues,    \* the same for register_memory operands
    used,       \* register_use_mask
    regs,       \* machine: contents of the registers
    stack,      \* machine: the words pushed in the expression
    encodable,  \* every register named by an instruction has a reg_id
    faithful    \* the last instructions mean to the machine what they should

vars == <<todo, results, lvalues, used, regs, stack, encodable, faithful>>

------------------------------------------------------------------------------
(***************************************************************************)
(* assembler/registers.h, in the order of the mask's bits.  REG_ANY has    *)
(* one bit more than there are registers.                                  *)
(***************************************************************************)

RegisterBits == <<"RAX", "RBX", "RSP", "RBP", "R12", "R13", "R14", "R15",
                  "RDI", "RSI", "RCX", "RDX", "R8", "R9", "R10", "R11", "BIT16">>

Any == {RegisterBits[i] : i \in 1..17}

NoRegister == "NONE"    \* the mask 0

Register == Any \cup {NoRegister}

\* The initial register_use_mask.
Reserved == {"RBX", "RSP", "RBP", "R12", "R13", "R14", "R15"}

\* volatile_registers
Volatile == {"RAX", "RDI", "RSI", "RDX", "RCX", "R8", "R9", "R10", "R11"}

\* arg_registers
ArgRegister == <<"RDI", "RSI", "RDX", "RCX", "R8", "R9">>

\* Mutant: the lowest bit of the mask, in use or not.
Available_AnyOf(m) ==
    IF m = {} THEN NoRegister
    ELSE RegisterBits[CHOOSE i \in 1..17 :
            /\ RegisterBits[i] \in m
            /\ \A j \in 1..17 : RegisterBits[j] \in m => i <= j]

\* get_available_reg: the lowest bit of m & ~register_use_mask.
Available(m) ==
    IF m \subseteq used THEN NoRegister
    ELSE RegisterBits[CHOOSE i \in 1..17 :
            /\ RegisterBits[i] \in m \ used
            /\ \A j \in 1..17 : RegisterBits[j] \in m \ used => i <= j]

\* register_use_mask after set_register_used; the mask 0 has no bit.
Marked(r) == used \cup ({r} \ {NoRegister})

\* Mutant: the base of an operand stays in use.
FreedBase_None(r) == {}

\* Mutant: the base of a [rbp-x] operand is reset as well.
FreedBase_AnyBase(r) == {r}

\* What reset_register_memory_used resets: not the base of a variable.
FreedBase(r) == {r} \ {"RBP", "RSP"}

------------------------------------------------------------------------------
(***************************************************************************)
(* The machine.  A register holds the value of a subexpression (`size'     *)
(* bytes of it), its address, or junk.                                     *)
(***************************************************************************)

Junk == [part |-> "junk", path |-> <<>>, size |-> 0]

\* What the function found in a register it must not change.
Callers == [part |-> "caller", path |-> <<>>, size |-> 8]

Value(path, size) == [part |-> "value", path |-> path, size |-> size]
Address(path)     == [part |-> "address", path |-> path, size |-> 8]

HoldsValue(r, path, size) ==
    /\ regs[r].part = "value" /\ regs[r].path = path /\ regs[r].size >= size

\* The content of a register that points at an lvalue: the value of a pointer
\* to dereference, or the computed address of an element.
PointsAt(r, path, e) ==
    IF e.kind = "dereference" THEN HoldsValue(r, path \o <<1>>, 8)
    ELSE regs[r] = Address(path)

Last(s) == s[Len(s)]
Front(s) == SubSeq(s, 1, Len(s) - 1)

\* Consumes the last two results.
Front2(s) == SubSeq(s, 1, Len(s) - 2)

------------------------------------------------------------------------------
(***************************************************************************)
(* Tasks.                                                                  *)
(***************************************************************************)

Top == todo[1]
Rest == Tail(todo)

\* EXPR_COMPILE_VALUE, EXPR_COMPILE_VALUE_CASTED, EXPR_LVALUE_GET_RM of the
\* expression e found at path.
Compile(path, e, m) == [op |-> "value", path |-> path, e |-> e, m |-> m]
Casted(path, e, m, to) ==
    [op |-> "casted", path |-> path, e |-> e, m |-> m, to |-> to]
LValue(path, e) == [op |-> "lvalue", path |-> path, e |-> e]

\* The remainder of the handler of e.
Remainder(op, path, e) == [op |-> op, path |-> path, e |-> e]

Kid(path, i) == path \o <<i>>

Runs(op) == todo # <<>> /\ Top.op = op

IsSingle(m) == Cardinality(m) = 1

\* get_priority.  The priority of a call is 2 whatever its arguments.
Priority[e \in Expr] ==
    CASE e.kind = "call" -> 2
      [] e.kind \in {"plus", "equals"} ->
            Priority[e.kids[1]] + Priority[e.kids[2]]
      [] e.kind = "over" -> Priority[e.kids[1]] + Priority[e.kids[2]] + 1
      [] OTHER -> 0

\* A division is somewhere in e.
Divides[e \in Expr] ==
    e.kind = "over" \/ \E i \in DOMAIN e.kids : Divides[e.kids[i]]

\* The equation above, which needs an induction over expressions.
ASSUME DivisionAssumption ==
    \A e \in Expr :
        Divides[e] <=> e.kind = "over" \/ \E i \in DOMAIN e.kids : Divides[e.kids[i]]

------------------------------------------------------------------------------

Init ==
    /\ todo = <<>>
    /\ results = <<>>
    /\ lvalues = <<>>
    /\ used = Reserved
    /\ regs = [r \in Register |-> IF r \in Reserved THEN Callers ELSE Junk]
    /\ stack = <<>>
    /\ encodable = TRUE
    /\ faithful = TRUE

\* The step emits instructions from is.
Emits(is) ==
    /\ encodable' = (encodable /\ \A i \in is : NamedBy(i) \subseteq HasId)
    /\ faithful' = (encodable' => \A i \in is : MeansItself(i))

\* The byte and wider of the model in the bytes of the code.
SizesOf(size) == IF size = 1 THEN {1} ELSE {4, 8}

\* Values of literals and element sizes, and operands of local variables.
Immediate == {7, 70000}
Local == {MemReadDisp("RBP", -8), MemReadDisp("RBP", -264)}

\* The operand of an lvalue whose base is r.
OperandAt(r) == IF r = "RBP" THEN Local ELSE {MemRead(r)}

\* Compiles both operands of a binary operation to 8 bytes, the one with the
\* higher priority first; the second branch forgets rhsMask.
RhsFirst(e) == Priority[e.kids[2]] >= Priority[e.kids[1]]

Operands(path, e, lhsMask, rhsMask) ==
    LET lhs == e.kids[1]
        rhs == e.kids[2] IN
    IF RhsFirst(e)
    THEN <<Casted(Kid(path, 2), rhs, rhsMask \ {"RAX"}, 8),
           Casted(Kid(path, 1), lhs, lhsMask, 8)>>
    ELSE <<Casted(Kid(path, 1), lhs, lhsMask, 8),
           Casted(Kid(path, 2), rhs, Any \ {"RAX"}, 8)>>

\* The registers the two operands came back in.
LhsResult(e) == results[Len(results) - (IF RhsFirst(e) THEN 0 ELSE 1)]
RhsResult(e) == results[Len(results) - (IF RhsFirst(e) THEN 1 ELSE 0)]

OperandsHold(path, e) ==
    /\ HoldsValue(LhsResult(e), Kid(path, 1), 8)
    /\ HoldsValue(RhsResult(e), Kid(path, 2), 8)

------------------------------------------------------------------------------
(***************************************************************************)
(* Statements: exprstmt.c, return.c, var_declaration.c with an initial     *)
(* value of a variable of `to' bytes, and the condition of an if or while. *)
(* A literal as condition touches no register: ObjectCode has its jump.    *)
(***************************************************************************)

StatementEnd(s, need) ==
    <<[op |-> "statement", path |-> <<>>, e |-> s.e, need |-> need, kind |-> s.kind]>>

Begin(s) ==
    LET e == s.e IN
    /\ todo = <<>>
    /\ \/ /\ s.kind = "exprstmt"
          /\ todo' = <<Compile(<<>>, e, Any)>> \o StatementEnd(s, e.size)
       \/ /\ s.kind = "return"
          /\ todo' = <<Compile(<<>>, e, {"RAX"})>> \o StatementEnd(s, e.size)
       \/ /\ s.kind = "var_decl"
          /\ \E to \in {1, 8} :
                todo' = <<Casted(<<>>, e, Any, to)>> \o StatementEnd(s, to)
       \/ /\ s.kind = "condition" /\ e.kind \notin {"equals", "int"}
          /\ todo' = <<Casted(<<>>, e, Any, 8)>> \o StatementEnd(s, 8)
       \/ /\ s.kind = "condition" /\ e.kind = "equals"
          /\ todo' = Operands(<<>>, e, Any, Any)
                     \o <<Remainder("compare", <<>>, e)>>
    \* what earlier statements left in the registers is junk to this one
    /\ regs' = [r \in Register |-> IF r \in Reserved THEN regs[r] ELSE Junk]
    /\ encodable' = TRUE /\ faithful' = TRUE
    /\ UNCHANGED <<results, lvalues, used, stack>>

\* Jumps of a condition, and what ends a function.
Jumps == {Plain("je"), Plain("jne"), Plain("jmp")}
Epilogue == {Plain("leave"), Plain("ret")}

\* The statement uses the value and frees its register.
EndStatement ==
    LET r == Last(results) IN
    /\ Runs("statement") /\ results # <<>>
    /\ Emits(CASE Top.kind = "exprstmt" -> {}
               [] Top.kind = "return" ->
                     Epilogue \cup (IF r = "RAX" THEN {} ELSE {MovStore(Basic("RAX"), r, 8)})
               [] Top.kind = "var_decl" ->
                     {MovStore(rm, r, size) : rm \in Local, size \in SizesOf(Top.need)}
               [] Top.kind = "condition" -> Jumps \cup {RmReg("test", Basic(r), r)})
    /\ used' = used \ {Last(results)}
    /\ results' = Front(results)
    /\ todo' = Rest
    /\ UNCHANGED <<lvalues, regs, stack>>

\* evaluate_condition of a comparison: cmp, and both registers are free.
EndCompare ==
    LET lhs == LhsResult(Top.e)
        rhs == RhsResult(Top.e) IN
    /\ Runs("compare") /\ Len(results) >= 2
    /\ Emits(Jumps \cup {RmReg("cmp", Basic(lhs), rhs)})
    /\ used' = used \ {lhs, rhs}
    /\ results' = Front2(results)
    /\ todo' = Rest
    /\ UNCHANGED <<lvalues, regs, stack>>

------------------------------------------------------------------------------
(***************************************************************************)
(* Literals, variables and casts.                                          *)
(***************************************************************************)

\* int_literal.c, string_literal.c, var_identifier.c: a mov or a lea into the
\* first register available.
CompileLeaf ==
    LET r == Available(Top.m) IN
    /\ Runs("value")
    /\ Top.e.kind \in {"int", "string", "var"}
    /\ regs' = [regs EXCEPT ![r] = Value(Top.path, Top.e.size)]
    /\ used' = Marked(r)
    /\ Emits(CASE Top.e.kind = "int" -> {MovRm32Imm(Basic(r), v) : v \in Immediate}
               [] Top.e.kind = "string" -> {LeaString(r)}
               [] Top.e.kind = "var" ->
                     {MovLoad(r, rm, size) : rm \in Local, size \in SizesOf(Top.e.size)}
                     \cup {Lea(r, rm) : rm \in Local})
    /\ results' = Append(results, r)
    /\ todo' = Rest
    /\ UNCHANGED <<lvalues, stack>>

\* compile_value_casted of int_literal.c: a mov of the size wanted.
CompileIntCasted ==
    LET r == Available(Top.m) IN
    /\ Runs("casted")
    /\ Top.e.kind = "int"
    /\ regs' = [regs EXCEPT ![r] = Value(Top.path, Top.to)]
    /\ used' = Marked(r)
    /\ Emits({MovRegImm(r, IF size = 1 THEN v % 256 ELSE v, size) :
                 v \in Immediate, size \in SizesOf(Top.to)})
    /\ results' = Append(results, r)
    /\ todo' = Rest
    /\ UNCHANGED <<lvalues, stack>>

\* default_compilate_casted: the value, then type_default_cast.
CompileCasted ==
    /\ Runs("casted")
    /\ Top.e.kind # "int"
    /\ todo' = <<Compile(Top.path, Top.e, Top.m),
                 [op |-> "cast", path |-> Top.path, e |-> Top.e,
                  to |-> Top.to]>> \o Rest
    /\ UNCHANGED <<results, lvalues, used, regs, stack, encodable, faithful>>

\* Mutant: byte values are not widened to 8 bytes.
Widens_Not8(from, to) == from < to /\ to # 8

\* type_basic_cast emits a movzx exactly when the type gets bigger.
Widens(from, to) == from < to

Cast ==
    LET r == Last(results) IN
    /\ Runs("cast") /\ results # <<>>
    /\ IF Widens(Top.e.size, Top.to)
       THEN /\ regs' = [regs EXCEPT ![r] =
                           IF HoldsValue(r, Top.path, Top.e.size)
                           THEN Value(Top.path, Top.to) ELSE Junk]
            /\ Emits({Movzx8(r, Basic(r))})
       ELSE UNCHANGED <<regs, encodable, faithful>>
    /\ todo' = Rest
    /\ UNCHANGED <<results, lvalues, used, stack>>

------------------------------------------------------------------------------
(***************************************************************************)
(* Binary operations: binaryop.c.  "plus" stands for +, - and *, which     *)
(* differ only in their opcode, and "equals" for == and !=.                *)
(***************************************************************************)

\* Mutant: the right operand may take the register the result is wanted in.
RhsMask_Any(m) == Any

\* "If only one dst register is specified, stop rhs from using that register"
RhsMask(m) == IF IsSingle(m) THEN Any \ m ELSE Any

CompileBinary ==
    /\ Runs("value")
    /\ Top.e.kind \in {"plus", "equals"}
    /\ todo' = Operands(Top.path, Top.e, Top.m, RhsMask(Top.m))
               \o <<[op |-> "binary", path |-> Top.path, e |-> Top.e,
                     m |-> Top.m]>>
               \o Rest
    /\ UNCHANGED <<results, lvalues, used, regs, stack, encodable, faithful>>

\* Mutant: the register of the right operand stays in use.
BinaryFrees_Nothing(r) == {}

\* reset_register_used(rhs_r)
BinaryFrees(r) == {r}

\* add, sub, imul; or cmp and sete, which writes one byte.
EndBinary ==
    LET lhs == LhsResult(Top.e)
        rhs == RhsResult(Top.e) IN
    /\ Runs("binary") /\ Len(results) >= 2
    /\ regs' = [regs EXCEPT ![lhs] =
                   IF OperandsHold(Top.path, Top.e) /\ lhs # rhs
                   THEN Value(Top.path, Top.e.size) ELSE Junk]
    /\ used' = used \ BinaryFrees(rhs)
    /\ Emits(IF Top.e.kind = "plus"
             THEN {RmReg("add", Basic(lhs), rhs), RmReg("sub", Basic(lhs), rhs),
                   Imul(lhs, Basic(rhs))}
             ELSE {RmReg("cmp", Basic(lhs), rhs), SetByteIf("sete", Basic(lhs)),
                   SetByteIf("setne", Basic(lhs))})
    /\ results' = Append(Front2(results), lhs)
    /\ todo' = Rest
    /\ UNCHANGED <<lvalues, stack>>

\* A division needs rax for its left operand: one in use is pushed.
CompileOver ==
    LET busy == "RAX" \in used IN
    /\ Runs("value")
    /\ Top.e.kind = "over"
    /\ stack' = IF busy THEN Append(stack, regs["RAX"]) ELSE stack
    /\ used' = IF busy THEN used \ {"RAX"} ELSE used
    /\ todo' = Operands(Top.path, Top.e, {"RAX"}, RhsMask(Top.m))
               \o <<[op |-> "over", path |-> Top.path, e |-> Top.e,
                     m |-> Top.m, inRax |-> ~busy /\ "RAX" \in Top.m,
                     saved |-> IF busy THEN {"RAX"} ELSE {},
                     base |-> Len(results)]>>
               \o Rest
    /\ Emits(IF busy THEN {Unary("push", Basic("RAX"))} ELSE {})
    /\ UNCHANGED <<results, lvalues, regs>>

\* rdx, if in use, is saved around cqo and idiv, which overwrite rax and rdx;
\* the quotient leaves rax unless rax was allowed; rax is restored, and not
\* marked as used again.
EndOver ==
    LET lhs == LhsResult(Top.e)
        rhs == RhsResult(Top.e)
        dst == IF Top.inRax THEN lhs ELSE Available(Top.m)
        quotient == IF /\ HoldsValue("RAX", Kid(Top.path, 1), 8)
                       /\ HoldsValue(rhs, Kid(Top.path, 2), 8)
                       /\ rhs \notin {"RAX", "RDX"}
                    THEN Value(Top.path, Top.e.size) ELSE Junk
        divided == [regs EXCEPT !["RAX"] = quotient, !["RDX"] = Junk]
        moved == IF Top.inRax THEN divided
                 ELSE [divided EXCEPT ![dst] = quotient]
        rdxBack == IF "RDX" \in used THEN [moved EXCEPT !["RDX"] = regs["RDX"]]
                   ELSE moved IN
    /\ Runs("over") /\ Len(results) >= 2
    /\ regs' = IF Top.saved = {} THEN rdxBack
               ELSE [rdxBack EXCEPT !["RAX"] = Last(stack)]
    /\ stack' = IF Top.saved = {} THEN stack ELSE Front(stack)
    /\ used' = (IF Top.inRax THEN used ELSE Marked(dst) \ {"RAX"}) \ {rhs}
    /\ Emits(UNION
          {{Plain("cqo"), Unary("idiv", Basic(rhs))},
           IF Top.inRax THEN {} ELSE {MovStore(Basic(dst), "RAX", 8)},
           {Unary(op, Basic("RDX")) : op \in IF "RDX" \in used THEN {"push", "pop"} ELSE {}},
           {Unary("pop", Basic(r)) : r \in Top.saved}})
    /\ results' = Append(Front2(results), dst)
    /\ todo' = Rest
    /\ UNCHANGED lvalues

------------------------------------------------------------------------------
(***************************************************************************)
(* Calls: func_call.c.                                                     *)
(***************************************************************************)

\* A mask's registers in the order of their bits.
BitOf(r) == CHOOSE i \in 1..17 : RegisterBits[i] = r

Sorted(m) ==
    [k \in 1..Cardinality(m) |->
        CHOOSE r \in m : Cardinality({s \in m : BitOf(s) <= BitOf(r)}) = k]

\* qsort by priority; arguments of equal priority in any order.
ArgumentOrders(e) ==
    LET n == Len(e.kids) IN
    {p \in [1..n -> 1..n] :
        \A i, j \in 1..n :
            i < j => /\ p[i] # p[j]
                     /\ Priority[e.kids[p[i]]] <= Priority[e.kids[p[j]]]}

\* Mutant: rdx and rcx are not saved.
CallSaves_NotAll == (used \cap Volatile) \ {"RDX", "RCX"}

\* "If any volatile registers are in use, make sure to save them before
\* calling the function"
CallSaves == used \cap Volatile

CompileCall ==
    LET saved == CallSaves
        pushes == Sorted(saved) IN
    /\ Runs("value")
    /\ Top.e.kind = "call"
    /\ stack' = stack \o [i \in 1..Len(pushes) |-> regs[pushes[i]]]
    /\ used' = used \ saved
    /\ Emits({Unary("push", Basic(r)) : r \in saved})
    /\ \E order \in ArgumentOrders(Top.e) :
          todo' = [i \in DOMAIN order |->
                      Casted(Kid(Top.path, order[i]), Top.e.kids[order[i]],
                             {ArgRegister[order[i]]}, Top.e.params[order[i]])]
                  \o <<[op |-> "call", path |-> Top.path, e |-> Top.e,
                        output |-> Available(Top.m), saved |-> saved,
                        base |-> Len(results)]>>
                  \o Rest
    /\ UNCHANGED <<results, lvalues, regs>>

\* Mutant: pops in the order of the pushes.
Recovered_Unreversed(saved) ==
    LET s == Sorted(saved)
        n == Len(s) IN
    [r \in saved |-> stack[Len(stack) + 1 - (CHOOSE i \in 1..n : s[i] = r)]]

\* What the pops, in reverse order of the pushes, put into each register.
Recovered(saved) ==
    LET s == Sorted(saved)
        n == Len(s) IN
    [r \in saved |-> stack[Len(stack) - n + (CHOOSE i \in 1..n : s[i] = r)]]

\* The call: the callee finds its arguments and may overwrite every volatile
\* register; then the result is moved to its register and the saved ones are
\* popped, marked as used again.
EndCall ==
    LET e == Top.e
        n == Len(e.kids)
        ready == \A i \in 1..n :
            HoldsValue(ArgRegister[i], Kid(Top.path, i), e.params[i])
        answer == IF ready THEN Value(Top.path, e.size) ELSE Junk
        recovered == Recovered(Top.saved) IN
    /\ Runs("call") /\ Len(results) >= n
    /\ regs' = [r \in Register |->
                  IF r \in Top.saved THEN recovered[r]
                  ELSE IF r = Top.output THEN answer
                  ELSE IF r = "RAX" THEN answer
                  ELSE IF r \in Volatile THEN Junk
                  ELSE regs[r]]
    /\ stack' = SubSeq(stack, 1, Len(stack) - Cardinality(Top.saved))
    /\ used' = (used \ {ArgRegister[i] : i \in DOMAIN e.params})
               \cup ({Top.output} \ {NoRegister}) \cup Top.saved
    /\ Emits(UNION
          {{Plain("call")}, {Unary("pop", Basic(r)) : r \in Top.saved},
           IF Top.output = "RAX" THEN {} ELSE {MovStore(Basic(Top.output), "RAX", 8)}})
    /\ results' = Append(SubSeq(results, 1, Len(results) - n), Top.output)
    /\ todo' = Rest
    /\ UNCHANGED lvalues

------------------------------------------------------------------------------
(***************************************************************************)
(* Pointers and assignment: array_subscript.c, dereference.c,              *)
(* address_of.c, assignment.c.                                             *)
(***************************************************************************)

\* compute_offset: kids are the array and the index.
Offset(path, e, m) ==
    <<Casted(Kid(path, 2), e.kids[2], RhsMask(m), 8),
      Remainder("scale", path, e),
      Compile(Kid(path, 1), e.kids[1], m),
      Remainder("add_offset", path, e)>>

\* compile_value of a subscript or of a dereference: the address, a load.
CompileLoad ==
    /\ Runs("value")
    /\ Top.e.kind \in {"subscript", "dereference"}
    /\ todo' = (IF Top.e.kind = "subscript" THEN Offset(Top.path, Top.e, Top.m)
                ELSE <<Compile(Kid(Top.path, 1), Top.e.kids[1], Top.m)>>)
               \o <<Remainder("load", Top.path, Top.e)>> \o Rest
    /\ UNCHANGED <<results, lvalues, used, regs, stack, encodable, faithful>>

\* imul index_r, index_r, element_size
Scale ==
    LET r == Last(results) IN
    /\ Runs("scale") /\ results # <<>>
    /\ regs' = [regs EXCEPT ![r] =
                   IF HoldsValue(r, Kid(Top.path, 2), 8)
                   THEN [part |-> "offset", path |-> Top.path, size |-> 8]
                   ELSE Junk]
    /\ Emits({ImulImm(r, Basic(r), v) : v \in Immediate})
    /\ todo' = Rest
    /\ UNCHANGED <<results, lvalues, used, stack>>

\* add array_addr_r, index_r
AddOffset ==
    LET array == results[Len(results)]
        index == results[Len(results) - 1] IN
    /\ Runs("add_offset") /\ Len(results) >= 2
    /\ regs' = [regs EXCEPT ![array] =
                   IF /\ HoldsValue(array, Kid(Top.path, 1), 8)
                      /\ regs[index].part = "offset"
                      /\ regs[index].path = Top.path
                   THEN Address(Top.path) ELSE Junk]
    /\ used' = used \ {index}
    /\ Emits({RmReg("add", Basic(array), index)})
    /\ results' = Append(Front2(results), array)
    /\ todo' = Rest
    /\ UNCHANGED <<lvalues, stack>>

\* mov r, [r].  For an element that is an array the address is the value and
\* the code emits nothing: the same content here.
Load ==
    LET r == Last(results) IN
    /\ Runs("load") /\ results # <<>>
    /\ regs' = [regs EXCEPT ![r] = IF PointsAt(r, Top.path, Top.e)
                                   THEN Value(Top.path, Top.e.size) ELSE Junk]
    /\ Emits({MovLoad(r, MemRead(r), size) : size \in SizesOf(Top.e.size)})
    /\ todo' = Rest
    /\ UNCHANGED <<results, lvalues, used, stack>>

\* get_lvalue_rm of a variable: [rbp - stack_offset].
LValueOfVariable ==
    /\ Runs("lvalue")
    /\ Top.e.kind = "var"
    /\ lvalues' = Append(lvalues, "RBP")
    /\ todo' = Rest
    /\ UNCHANGED <<results, used, regs, stack, encodable, faithful>>

\* get_lvalue_rm of the others: the register with the address, any register.
LValueInRegister ==
    /\ Runs("lvalue")
    /\ Top.e.kind \in {"subscript", "dereference"}
    /\ todo' = (IF Top.e.kind = "subscript" THEN Offset(Top.path, Top.e, Any)
                ELSE <<Compile(Kid(Top.path, 1), Top.e.kids[1], Any)>>)
               \o <<Remainder("operand", Top.path, Top.e)>> \o Rest
    /\ UNCHANGED <<results, lvalues, used, regs, stack, encodable, faithful>>

\* RM_MEM_READ of the register returned.
EndLValue ==
    /\ Runs("operand") /\ results # <<>>
    /\ lvalues' = Append(lvalues, Last(results))
    /\ results' = Front(results)
    /\ todo' = Rest
    /\ UNCHANGED <<used, regs, stack, encodable, faithful>>

\* The operand [base] or [rbp - x] of the lvalue e at path is still right.
OperandHolds(base, path, e) == e.kind = "var" \/ PointsAt(base, path, e)

CompileAssignment ==
    /\ Runs("value")
    /\ Top.e.kind = "assign"
    /\ todo' = <<LValue(Kid(Top.path, 1), Top.e.kids[1]),
                 Casted(Kid(Top.path, 2), Top.e.kids[2], Top.m, Top.e.size),
                 Remainder("store", Top.path, Top.e)>> \o Rest
    /\ UNCHANGED <<results, lvalues, used, regs, stack, encodable, faithful>>

\* mov rm, src: the value of the assignment stays in src.
EndAssignment ==
    LET src == Last(results)
        base == Last(lvalues) IN
    /\ Runs("store") /\ results # <<>> /\ lvalues # <<>>
    /\ regs' = [regs EXCEPT ![src] =
                   IF /\ HoldsValue(src, Kid(Top.path, 2), Top.e.size)
                      /\ OperandHolds(base, Kid(Top.path, 1), Top.e.kids[1])
                   THEN Value(Top.path, Top.e.size) ELSE Junk]
    /\ used' = used \ FreedBase(base)
    /\ Emits({MovStore(rm, src, size) :
                 rm \in OperandAt(base), size \in SizesOf(Top.e.size)})
    /\ lvalues' = Front(lvalues)
    /\ todo' = Rest
    /\ UNCHANGED <<results, stack>>

\* address_of.c takes its register before it compiles the lvalue.
CompileAddressOf ==
    LET r == Available(Top.m) IN
    /\ Runs("value")
    /\ Top.e.kind = "address_of"
    /\ used' = Marked(r)
    /\ results' = Append(results, r)
    /\ todo' = <<LValue(Kid(Top.path, 1), Top.e.kids[1]),
                 Remainder("lea", Top.path, Top.e)>> \o Rest
    /\ UNCHANGED <<lvalues, regs, stack, encodable, faithful>>

EndAddressOf ==
    LET r == Last(results)
        base == Last(lvalues) IN
    /\ Runs("lea") /\ results # <<>> /\ lvalues # <<>>
    /\ used' = used \ FreedBase(base)
    /\ regs' = [regs EXCEPT ![r] =
                   IF OperandHolds(base, Kid(Top.path, 1), Top.e.kids[1])
                   THEN Value(Top.path, 8) ELSE Junk]
    /\ Emits({Lea(r, rm) : rm \in OperandAt(base)})
    /\ lvalues' = Front(lvalues)
    /\ todo' = Rest
    /\ UNCHANGED <<results, stack>>

------------------------------------------------------------------------------

Next ==
    \/ \E s \in Statement : Begin(s)
    \/ EndStatement
    \/ EndCompare
    \/ CompileLeaf
    \/ CompileIntCasted
    \/ CompileCasted
    \/ Cast
    \/ CompileBinary
    \/ EndBinary
    \/ CompileOver
    \/ EndOver
    \/ CompileCall
    \/ EndCall
    \/ CompileLoad
    \/ Scale
    \/ AddOffset
    \/ Load
    \/ LValueOfVariable
    \/ LValueInRegister
    \/ EndLValue
    \/ CompileAssignment
    \/ EndAssignment
    \/ CompileAddressOf
    \/ EndAddressOf

Spec == Init /\ [][Next]_vars

------------------------------------------------------------------------------

\* When a statement uses the value of its expression, the register it was
\* told holds that value, unless an instruction named a register that the
\* assembler cannot encode.
ResultIsValue ==
    encodable =>
        /\ Runs("statement") => HoldsValue(Last(results), <<>>, Top.need)
        /\ Runs("compare") => OperandsHold(<<>>, Top.e)

\* Result i is saved on the machine's stack by a task below position k of
\* todo, and so out of reach until that task ends.
Saved(i, k) ==
    \E j \in k + 1 .. Len(todo) :
        /\ todo[j].op \in {"call", "over"}
        /\ i <= todo[j].base
        /\ results[i] \in todo[j].saved

\* The statement under way has no division in it.  The comments of func_call.c
\* and binaryop.c below fail for statements that have one.
NoDivision == todo = <<>> \/ ~Divides[todo[Len(todo)].e]

\* A register that holds an operand still to be consumed is marked as used,
\* so that it is not given out again, and no two operands share a register.
\* What else get_available_reg answers, 0 and bit 16, is no register.
OperandsReserved ==
    NoDivision =>
        \A i \in DOMAIN results :
            results[i] \in Volatile /\ ~Saved(i, 0) =>
                /\ results[i] \in used
                /\ \A j \in DOMAIN results :
                      results[j] = results[i] => i = j \/ Saved(j, 0)

\* func_call.c: "If any volatile registers are in use, make sure to save them
\* before calling the function".
VolatilesSaved ==
    \A k \in DOMAIN todo : todo[k].op = "call" =>
        \A i \in 1..todo[k].base :
            results[i] \in Volatile => Saved(i, k) \/ results[i] \in todo[k].saved

\* The same, of statements without a division: no call overwrites an operand
\* that waits in a volatile register.
CallsSaveOperands == NoDivision => VolatilesSaved

\* binaryop.c: "If only one dst register is specified, stop rhs from using
\* that register".  A left operand that came first has the register itself,
\* unless there was none left for it.
RhsAvoidsTarget ==
    (Runs("binary") \/ Runs("over")) /\ IsSingle(Top.m)
        /\ (encodable \/ RhsFirst(Top.e)) =>
        RhsResult(Top.e) \notin Top.m

\* The same, of statements without a division: the right operand leaves free
\* the one register the result must go to.
TargetLeftFree == NoDivision => RhsAvoidsTarget

\* A finished statement leaves every register free and the stack as it was.
StatementLeavesNothing ==
    todo = <<>> => /\ used = Reserved
                   /\ stack = <<>>
                   /\ results = <<>> /\ lvalues = <<>>

\* No instruction of an expression writes a register that the caller of the
\* function expects to find unchanged, the frame pointer included.
CalleeSavedKept == [][\A r \in Reserved : regs'[r] = regs[r]]_vars

\* assembler.c writes prefixes, opcodes and operands by hand, byte by byte: for
\* the registers the allocator gives the handlers and the sizes they work on, the
\* processor reads the instruction that was asked for.
EncodingsFaithful == faithful

\* Every instruction can be encoded: there are registers enough.
RegistersSuffice == encodable
==============================================================================
