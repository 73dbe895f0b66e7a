--------------------------- MODULE ExprCodegenProofs ---------------------------
(***************************************************************************)
(* The code of an expression leaves the callee-saved registers and the     *)
(* frame pointer alone, whatever the expression: the allocator never gives *)
(* out a register that is reserved from the start, because no handler ever *)
(* frees one, because the allocator never gave one out.                    *)
(*                                                                         *)
(* And a statement leaves nothing behind: what each handler does to the    *)
(* stacks of results, operands and machine words is said once, for all of  *)
(* its callees together (Effect), so that the tasks still to run always    *)
(* empty them; a register in use always has an operand that waits in it.   *)
(*                                                                         *)
(* And the bytes that assembler.c writes for the instructions of the       *)
(* handlers mean to the processor what the handlers meant: for every       *)
(* register that has a reg_id, every operand and every value of 4 bytes.   *)
(*                                                                         *)
(* And in a statement without a division each operand stays where it is    *)
(* until it is used: what each handler reaches of the operands that wait,  *)
(* those above what the call around it has put away, is said once for the  *)
(* handler and its callees together (Reaches, Follows).                    *)
(***************************************************************************)
EXTENDS ExprCodegen, SequenceTheorems, FiniteSetTheorems, WellFoundedInduction, TLAPS

\* What get_available_reg may answer: no reserved register.
Free == Register \ Reserved

\* A piece of a handler still to run: it has an expression and a mask of
\* registers, and what it kept from its beginning is not reserved.
TaskOK(t) ==
    /\ t.e \in Expr
    /\ t.op \in {"value", "casted", "binary", "over"} => t.m \subseteq Any
    /\ t.op \in {"over", "call"} => t.saved \subseteq Volatile
    /\ t.op = "call" => t.e.kind = "call" /\ t.output \in Free
    /\ t.op = "statement" => t.kind \in StatementKind

AllTasks(s) ==
    /\ \E S : s \in Seq(S)
    /\ \A i \in 1..Len(s) : TaskOK(s[i])

ReservedInv ==
    /\ AllTasks(todo)
    /\ results \in Seq(Free)
    /\ lvalues \in Seq(Free \cup {"RBP"})
    /\ Reserved \subseteq used
    /\ DOMAIN regs = Register

------------------------------------------------------------------------------
(* Registers. *)

LEMMA RegistersAre ==
    /\ Any = {"RAX", "RBX", "RSP", "RBP", "R12", "R13", "R14", "R15",
              "RDI", "RSI", "RCX", "RDX", "R8", "R9", "R10", "R11", "BIT16"}
    /\ Any \subseteq Register /\ Reserved \subseteq Register
    /\ Volatile \subseteq Free
    /\ NoRegister \in Free
    /\ \A i \in 1..6 : ArgRegister[i] \in Any /\ ArgRegister[i] \in Free
<1>1. Any = {"RAX", "RBX", "RSP", "RBP", "R12", "R13", "R14", "R15",
             "RDI", "RSI", "RCX", "RDX", "R8", "R9", "R10", "R11", "BIT16"}
  <2>1. 1..17 = {1, 2, 3, 4, 5, 6, 7, 8, 9, 10, 11, 12, 13, 14, 15, 16, 17}
    OBVIOUS
  <2>2. Any = {RegisterBits[1], RegisterBits[2], RegisterBits[3], RegisterBits[4],
               RegisterBits[5], RegisterBits[6], RegisterBits[7], RegisterBits[8],
               RegisterBits[9], RegisterBits[10], RegisterBits[11], RegisterBits[12],
               RegisterBits[13], RegisterBits[14], RegisterBits[15], RegisterBits[16],
               RegisterBits[17]}
    BY <2>1 DEF Any
  <2> QED
    BY <2>2 DEF RegisterBits
<1>2. Any \subseteq Register /\ Reserved \subseteq Register
  BY <1>1 DEF Register, Reserved
<1>3. Volatile \subseteq Free
  BY <1>1 DEF Volatile, Free, Register, Reserved
<1>4. NoRegister \in Free
  BY DEF NoRegister, Free, Register, Reserved
<1>5. \A i \in 1..6 : ArgRegister[i] \in {"RDI", "RSI", "RDX", "RCX", "R8", "R9"}
  <2>1. 1..6 = {1, 2, 3, 4, 5, 6}
    OBVIOUS
  <2> QED
    BY <2>1 DEF ArgRegister
<1>6. {"RDI", "RSI", "RDX", "RCX", "R8", "R9"} \subseteq Any
      /\ {"RDI", "RSI", "RDX", "RCX", "R8", "R9"} \subseteq Free
  BY <1>1 DEF Free, Register, Reserved
<1> QED
  BY <1>1, <1>2, <1>3, <1>4, <1>5, <1>6

LEMMA LeastNumber ==
    ASSUME NEW T, T \subseteq Nat, T # {}
    PROVE  \E n \in T : \A m \in T : n <= m
<1>1. PICK n \in T : \A m \in T : ~(<<m, n>> \in OpToRel(<, Nat))
  BY WFMin, NatLessThanWellFounded, Zenon
<1>2. \A m \in T : ~(m < n)
  BY <1>1 DEF OpToRel
<1>3. \A m \in T : m \in Nat /\ n \in Nat
  OBVIOUS
<1> QED
  BY <1>2, <1>3

\* get_available_reg answers with a register of the mask that is not in use, or
\* with none.
LEMMA AvailableIsFree ==
    ASSUME NEW m, m \subseteq Any, Reserved \subseteq used
    PROVE  /\ Available(m) \in Free /\ Available(m) \in m \cup {NoRegister}
           /\ Available(m) \in used => Available(m) = NoRegister
<1>1. CASE m \subseteq used
  BY <1>1, RegistersAre DEF Available
<1>2. CASE ~(m \subseteq used)
  <2> DEFINE T == {i \in 1..17 : RegisterBits[i] \in m \ used}
  <2>1. T \subseteq Nat /\ T # {}
    BY <1>2 DEF Any
  <2>2. PICK k \in T : \A j \in T : k <= j
    <3> HIDE DEF T
    <3> QED
      BY <2>1, LeastNumber
  <2>3. /\ k \in 1..17 /\ RegisterBits[k] \in m \ used
        /\ \A j \in 1..17 : RegisterBits[j] \in m \ used => k <= j
    BY <2>2
  <2>4. Available(m) \in m \ used
    BY <1>2, <2>3 DEF Available
  <2> QED
    BY <2>4, RegistersAre DEF Free
<1> QED
  BY <1>1, <1>2

------------------------------------------------------------------------------
(* Sequences of tasks and of registers. *)

LEMMA Stacks ==
    ASSUME NEW S, NEW s \in Seq(S), s # <<>>
    PROVE  /\ Len(s) \in Nat /\ Len(s) >= 1
           /\ Last(s) \in S
           /\ Front(s) \in Seq(S)
           /\ \A x \in S : Append(s, x) \in Seq(S)
<1>1. Len(s) \in Nat /\ Len(s) >= 1
  BY EmptySeq, LenProperties
<1>2. Last(s) \in S
  BY <1>1, ElementOfSeq DEF Last
<1>3. Front(s) \in Seq(S)
  <2>1. \A i \in 1..Len(s) - 1 : s[i] \in S
    BY <1>1, ElementOfSeq
  <2>2. 1 \in Int /\ Len(s) - 1 \in Int
    BY <1>1
  <2> QED
    BY <2>1, <2>2, SubSeqProperties DEF Front
<1> QED
  BY <1>1, <1>2, <1>3, AppendProperties

LEMMA Prefixes ==
    ASSUME NEW S, NEW s \in Seq(S), NEW n \in Nat, Len(s) >= n
    PROVE  SubSeq(s, 1, Len(s) - n) \in Seq(S)
<1>1. Len(s) \in Nat
  BY LenProperties
<1>2. \A i \in 1..Len(s) - n : s[i] \in S
  BY <1>1, ElementOfSeq
<1>3. 1 \in Int /\ Len(s) - n \in Int
  BY <1>1
<1> QED
  BY <1>2, <1>3, SubSeqProperties

LEMMA NoTasks == AllTasks(<<>>)
<1>1. <<>> \in Seq({}) /\ 1..Len(<<>>) = {}
  BY EmptySeq
<1> QED
  BY <1>1 DEF AllTasks

LEMMA OneTask ==
    ASSUME NEW t, TaskOK(t)
    PROVE  AllTasks(<<t>>)
<1>1. <<t>> \in Seq({t}) /\ Len(<<t>>) = 1 /\ <<t>>[1] = t
  OBVIOUS
<1>2. 1..1 = {1}
  OBVIOUS
<1> QED
  BY <1>1, <1>2 DEF AllTasks

LEMMA MoreTasks ==
    ASSUME NEW s, NEW t, AllTasks(s), AllTasks(t)
    PROVE  AllTasks(s \o t)
<1>1. PICK S : s \in Seq(S)
  BY DEF AllTasks
<1>2. PICK T : t \in Seq(T)
  BY DEF AllTasks
<1>3. s \in Seq(S \cup T) /\ t \in Seq(S \cup T)
  BY <1>1, <1>2, SeqMonotonic
<1>4. /\ s \o t \in Seq(S \cup T)
      /\ Len(s \o t) = Len(s) + Len(t)
      /\ \A i \in 1..Len(s) + Len(t) :
            (s \o t)[i] = IF i <= Len(s) THEN s[i] ELSE t[i - Len(s)]
  BY <1>3, ConcatProperties
<1>5. Len(s) \in Nat /\ Len(t) \in Nat
  BY <1>1, <1>2, LenProperties
<1>6. ASSUME NEW i \in 1..Len(s) + Len(t)
      PROVE  TaskOK((s \o t)[i])
  <2>1. CASE i <= Len(s)
    BY <1>4, <1>5, <2>1 DEF AllTasks
  <2>2. CASE ~(i <= Len(s))
    <3>1. i - Len(s) \in 1..Len(t)
      BY <1>5, <2>2
    <3> QED
      BY <1>4, <2>2, <3>1 DEF AllTasks
  <2> QED
    BY <2>1, <2>2
<1> QED
  BY <1>4, <1>6 DEF AllTasks

LEMMA FirstTask ==
    ASSUME AllTasks(todo), todo # <<>>
    PROVE  TaskOK(Top) /\ AllTasks(Rest)
<1>1. PICK S : todo \in Seq(S)
  BY DEF AllTasks
<1>2. Len(todo) \in Nat /\ Len(todo) >= 1
  BY <1>1, EmptySeq, LenProperties
<1>3. TaskOK(Top)
  BY <1>2 DEF AllTasks, Top
<1>4. /\ Rest \in Seq(S) /\ Len(Rest) = Len(todo) - 1
      /\ \A i \in 1..Len(Rest) : Rest[i] = todo[i + 1]
  BY <1>1, <1>2, HeadTailProperties DEF Rest
<1>5. \A i \in 1..Len(Rest) : i + 1 \in 1..Len(todo)
  BY <1>2, <1>4
<1> QED
  BY <1>3, <1>4, <1>5 DEF AllTasks

LEMMA TwoTasks ==
    ASSUME NEW t, NEW u, TaskOK(t), TaskOK(u)
    PROVE  AllTasks(<<t, u>>)
<1>1. <<t, u>> \in Seq({t, u}) /\ Len(<<t, u>>) = 2 /\ <<t, u>>[1] = t /\ <<t, u>>[2] = u
  OBVIOUS
<1>2. 1..2 = {1, 2}
  OBVIOUS
<1> QED
  BY <1>1, <1>2 DEF AllTasks

LEMMA ThreeTasks ==
    ASSUME NEW t, NEW u, NEW v, TaskOK(t), TaskOK(u), TaskOK(v)
    PROVE  AllTasks(<<t, u, v>>)
<1> DEFINE s == <<t, u, v>>
<1>1. s \in Seq({t, u, v}) /\ Len(s) = 3 /\ s[1] = t /\ s[2] = u /\ s[3] = v
  OBVIOUS
<1>2. 1..3 = {1, 2, 3}
  OBVIOUS
<1> HIDE DEF s
<1>3. AllTasks(s)
  BY <1>1, <1>2 DEF AllTasks
<1> QED
  BY <1>3 DEF s

LEMMA FourTasks ==
    ASSUME NEW t, NEW u, NEW v, NEW w, TaskOK(t), TaskOK(u), TaskOK(v), TaskOK(w)
    PROVE  AllTasks(<<t, u, v, w>>)
<1> DEFINE s == <<t, u, v, w>>
<1>1. s \in Seq({t, u, v, w}) /\ Len(s) = 4 /\ s[1] = t /\ s[2] = u /\ s[3] = v /\ s[4] = w
  OBVIOUS
<1>2. 1..4 = {1, 2, 3, 4}
  OBVIOUS
<1> HIDE DEF s
<1>3. AllTasks(s)
  BY <1>1, <1>2 DEF AllTasks
<1> QED
  BY <1>3 DEF s

------------------------------------------------------------------------------
(* The tasks the handlers make. *)

LEMMA KidsAre ==
    ASSUME NEW e \in Expr
    PROVE  /\ e.kind \in {"plus", "equals", "over", "subscript", "assign"} =>
                 e.kids[1] \in Expr /\ e.kids[2] \in Expr
           /\ e.kind \in {"dereference", "address_of"} => e.kids[1] \in Expr
           /\ e.kind = "call" =>
                 /\ Len(e.kids) \in 0..6
                 /\ DOMAIN e.params = 1..Len(e.kids)
                 /\ \A i \in 1..Len(e.kids) : e.kids[i] \in Expr
BY ExprAssumption DEF ArityOK

LEMMA SimpleTasks ==
    ASSUME NEW e \in Expr
    PROVE  /\ \A path, m : m \subseteq Any => TaskOK(Compile(path, e, m))
           /\ \A path, m, to : m \subseteq Any => TaskOK(Casted(path, e, m, to))
           /\ \A path : TaskOK(LValue(path, e))
           /\ \A path : \A op \in {"compare", "scale", "add_offset", "load", "operand",
                                   "store", "lea"} : TaskOK(Remainder(op, path, e))
BY DEF TaskOK, Compile, Casted, LValue, Remainder

LEMMA MasksAre ==
    /\ {"RAX"} \subseteq Any
    /\ \A m : RhsMask(m) \subseteq Any
    /\ \A m : m \subseteq Any => m \ {"RAX"} \subseteq Any
BY RegistersAre DEF RhsMask

LEMMA OperandTasks ==
    ASSUME NEW e \in Expr, e.kind \in {"plus", "equals", "over"}, NEW path,
           NEW l, l \subseteq Any, NEW r, r \subseteq Any
    PROVE  AllTasks(Operands(path, e, l, r))
<1>1. e.kids[1] \in Expr /\ e.kids[2] \in Expr
  BY KidsAre
<1>2. /\ TaskOK(Casted(Kid(path, 2), e.kids[2], r \ {"RAX"}, 8))
      /\ TaskOK(Casted(Kid(path, 1), e.kids[1], l, 8))
      /\ TaskOK(Casted(Kid(path, 2), e.kids[2], Any \ {"RAX"}, 8))
  BY <1>1, SimpleTasks, MasksAre
<1> QED
  BY <1>2, TwoTasks DEF Operands

LEMMA OffsetTasks ==
    ASSUME NEW e \in Expr, e.kind = "subscript", NEW path, NEW m, m \subseteq Any
    PROVE  AllTasks(Offset(path, e, m))
<1>1. e.kids[1] \in Expr /\ e.kids[2] \in Expr
  BY KidsAre
<1>2. /\ TaskOK(Casted(Kid(path, 2), e.kids[2], RhsMask(m), 8))
      /\ TaskOK(Remainder("scale", path, e))
      /\ TaskOK(Compile(Kid(path, 1), e.kids[1], m))
      /\ TaskOK(Remainder("add_offset", path, e))
  BY <1>1, SimpleTasks, MasksAre
<1> QED
  BY <1>2, FourTasks DEF Offset

\* The arguments of a call, compiled in any order.
LEMMA ArgumentTasks ==
    ASSUME NEW e \in Expr, e.kind = "call", NEW path, NEW order \in ArgumentOrders(e)
    PROVE  AllTasks([i \in DOMAIN order |->
                        Casted(Kid(path, order[i]), e.kids[order[i]],
                               {ArgRegister[order[i]]}, e.params[order[i]])])
<1> DEFINE n == Len(e.kids)
           task(i) == Casted(Kid(path, order[i]), e.kids[order[i]],
                             {ArgRegister[order[i]]}, e.params[order[i]])
           s == [i \in DOMAIN order |-> task(i)]
           S == {task(i) : i \in 1..n}
<1>1. n \in 0..6 /\ n \in Nat
  BY KidsAre
<1>2. order \in [1..n -> 1..n]
  BY DEF ArgumentOrders
<1>3. ASSUME NEW i \in 1..n
      PROVE  TaskOK(task(i))
  <2>1. order[i] \in 1..n /\ order[i] \in 1..6
    <3> HIDE DEF n
    <3>1. order[i] \in 1..n
      BY <1>2
    <3> QED
      BY <1>1, <3>1
  <2>2. e.kids[order[i]] \in Expr /\ {ArgRegister[order[i]]} \subseteq Any
    BY <2>1, KidsAre, RegistersAre
  <2> QED
    BY <2>2, SimpleTasks
<1>4. s \in [1..n -> S]
  BY <1>2
<1>5. s \in Seq(S) /\ Len(s) = n
  <2> HIDE DEF s, S, n
  <2>1. DOMAIN s = 1..n
    BY <1>4
  <2> QED
    BY <1>1, <1>4, <2>1
<1>6. \A i \in 1..n : s[i] = task(i)
  BY <1>2
<1> HIDE DEF s, task, n
<1>7. AllTasks(s)
  BY <1>3, <1>5, <1>6 DEF AllTasks
<1> QED
  BY <1>7 DEF s, task

------------------------------------------------------------------------------
(* What the handlers take from the stacks, write and free. *)

LEMMA ResultsAre ==
    ASSUME ReservedInv
    PROVE  /\ results # <<>> => Last(results) \in Free /\ Front(results) \in Seq(Free)
           /\ Len(results) >= 2 =>
                 /\ \A e : LhsResult(e) \in Free /\ RhsResult(e) \in Free
                 /\ results[Len(results)] \in Free /\ results[Len(results) - 1] \in Free
                 /\ Front2(results) \in Seq(Free)
           /\ \A r \in Free : Append(results, r) \in Seq(Free)
           /\ lvalues # <<>> => /\ Last(lvalues) \in Free \cup {"RBP"}
                                /\ Front(lvalues) \in Seq(Free \cup {"RBP"})
<1>1. results \in Seq(Free) /\ lvalues \in Seq(Free \cup {"RBP"}) /\ Len(results) \in Nat
  BY LenProperties DEF ReservedInv
<1>2. results # <<>> => Last(results) \in Free /\ Front(results) \in Seq(Free)
  BY <1>1, Stacks
<1>3. lvalues # <<>> => /\ Last(lvalues) \in Free \cup {"RBP"}
                        /\ Front(lvalues) \in Seq(Free \cup {"RBP"})
  BY <1>1, Stacks
<1>4. ASSUME Len(results) >= 2
      PROVE  /\ results[Len(results)] \in Free /\ results[Len(results) - 1] \in Free
             /\ Front2(results) \in Seq(Free)
  <2>1. Len(results) \in 1..Len(results) /\ Len(results) - 1 \in 1..Len(results)
    BY <1>1, <1>4
  <2>2. results[Len(results)] \in Free
    BY <1>1, <2>1, ElementOfSeq
  <2>3. results[Len(results) - 1] \in Free
    BY <1>1, <2>1, ElementOfSeq
  <2> QED
    BY <1>1, <1>4, <2>2, <2>3, Prefixes DEF Front2
<1>5. ASSUME Len(results) >= 2, NEW e
      PROVE  LhsResult(e) \in Free /\ RhsResult(e) \in Free
  <2>1. Len(results) - 0 = Len(results)
    BY <1>1
  <2> QED
    BY <1>4, <1>5, <2>1 DEF LhsResult, RhsResult
<1>6. \A r \in Free : Append(results, r) \in Seq(Free)
  BY <1>1, AppendProperties
<1> QED
  BY <1>2, <1>3, <1>4, <1>5, <1>6

LEMMA WritesAre ==
    ASSUME NEW f, DOMAIN f = Register, NEW r \in Free, NEW v
    PROVE  /\ DOMAIN [f EXCEPT ![r] = v] = Register
           /\ \A q \in Reserved : [f EXCEPT ![r] = v][q] = f[q]
BY RegistersAre DEF Free

LEMMA FreeingIs ==
    ASSUME Reserved \subseteq used
    PROVE  /\ \A r \in Free : Reserved \subseteq used \ {r}
           /\ \A r : Reserved \subseteq Marked(r)
           /\ \A base \in Free \cup {"RBP"} : Reserved \subseteq used \ FreedBase(base)
BY DEF Free, Marked, FreedBase

\* What an action has to show.
Keeps == ReservedInv' /\ \A r \in Reserved : regs'[r] = regs[r]

\* A handler that only replaces itself by other tasks.
LEMMA OnlyTasks ==
    ASSUME ReservedInv, todo # <<>>, NEW tasks, AllTasks(tasks), todo' = tasks \o Rest,
           UNCHANGED <<results, lvalues, used, regs>>
    PROVE  Keeps
<1>1. AllTasks(Rest)
  BY FirstTask DEF ReservedInv
<1>2. AllTasks(tasks \o Rest)
  BY <1>1, MoreTasks
<1>3. AllTasks(todo)'
  BY <1>2 DEF AllTasks
<1> QED
  BY <1>3 DEF ReservedInv, Keeps

\* A piece that ends: one result register written, others freed.
LEMMA PieceEnds ==
    ASSUME ReservedInv, todo # <<>>, todo' = Rest,
           results' \in Seq(Free), lvalues' \in Seq(Free \cup {"RBP"}),
           Reserved \subseteq used',
           DOMAIN regs' = Register, \A r \in Reserved : regs'[r] = regs[r]
    PROVE  Keeps
<1>1. AllTasks(Rest)
  BY FirstTask DEF ReservedInv
<1>2. AllTasks(todo)'
  BY <1>1 DEF AllTasks
<1> QED
  BY <1>2 DEF ReservedInv, Keeps

------------------------------------------------------------------------------
(* Every action keeps the invariant and the reserved registers. *)

\* Begin empties no stack and starts with tasks of the statement's expression.
LEMMA BeginKeeps ==
    ASSUME ReservedInv, NEW st \in Statement, Begin(st)
    PROVE  Keeps
<1>0. st.e \in Expr /\ st.kind \in StatementKind
  BY ExprAssumption
<1>1. \A need : TaskOK(StatementEnd(st, need)[1]) /\ AllTasks(StatementEnd(st, need))
  <2> SUFFICES ASSUME NEW need
               PROVE  TaskOK(StatementEnd(st, need)[1]) /\ AllTasks(StatementEnd(st, need))
    OBVIOUS
  <2> DEFINE t == [op |-> "statement", path |-> <<>>, e |-> st.e, need |-> need,
                   kind |-> st.kind]
  <2>1. TaskOK(t)
    BY <1>0 DEF TaskOK
  <2>2. StatementEnd(st, need) = <<t>>
    BY DEF StatementEnd
  <2> HIDE DEF t
  <2> QED
    BY <2>1, <2>2, OneTask
<1>2. Any \subseteq Any /\ {"RAX"} \subseteq Any
  BY RegistersAre
<1>3. /\ AllTasks(<<Compile(<<>>, st.e, Any)>>)
      /\ AllTasks(<<Compile(<<>>, st.e, {"RAX"})>>)
      /\ \A to : AllTasks(<<Casted(<<>>, st.e, Any, to)>>)
      /\ AllTasks(<<Remainder("compare", <<>>, st.e)>>)
  BY <1>0, <1>2, SimpleTasks, OneTask
<1>4. st.e.kind = "equals" => AllTasks(Operands(<<>>, st.e, Any, Any))
  BY <1>0, <1>2, OperandTasks
<1>5. AllTasks(todo')
  <2>1. CASE st.kind = "exprstmt" /\ todo' = <<Compile(<<>>, st.e, Any)>> \o StatementEnd(st, st.e.size)
    BY <1>1, <1>3, <2>1, MoreTasks
  <2>2. CASE st.kind = "return" /\ todo' = <<Compile(<<>>, st.e, {"RAX"})>> \o StatementEnd(st, st.e.size)
    BY <1>1, <1>3, <2>2, MoreTasks
  <2>3. CASE \E to \in {1, 8} : todo' = <<Casted(<<>>, st.e, Any, to)>> \o StatementEnd(st, to)
    BY <1>1, <1>3, <2>3, MoreTasks
  <2>4. CASE todo' = <<Casted(<<>>, st.e, Any, 8)>> \o StatementEnd(st, 8)
    BY <1>1, <1>3, <2>4, MoreTasks
  <2>5. CASE /\ st.e.kind = "equals"
             /\ todo' = Operands(<<>>, st.e, Any, Any) \o <<Remainder("compare", <<>>, st.e)>>
    BY <1>3, <1>4, <2>5, MoreTasks
  <2> QED
    BY <2>1, <2>2, <2>3, <2>4, <2>5 DEF Begin
<1>6. AllTasks(todo)'
  BY <1>5 DEF AllTasks
<1>7. /\ regs' = [r \in Register |-> IF r \in Reserved THEN regs[r] ELSE Junk]
      /\ results' = results /\ lvalues' = lvalues /\ used' = used
  BY DEF Begin
<1> QED
  BY <1>6, <1>7, RegistersAre DEF ReservedInv, Keeps

\* The end of a statement or of a comparison frees registers and writes none.
LEMMA EndsKeep ==
    ASSUME ReservedInv, EndStatement \/ EndCompare
    PROVE  Keeps
<1>1. Reserved \subseteq used /\ DOMAIN regs = Register
  BY DEF ReservedInv
<1>2. CASE EndStatement
  BY <1>1, <1>2, ResultsAre, FreeingIs, PieceEnds DEF EndStatement, Runs, ReservedInv
<1>3. CASE EndCompare
  <2> DEFINE lhs == LhsResult(Top.e)
             rhs == RhsResult(Top.e)
  <2>1. /\ todo # <<>> /\ todo' = Rest /\ used' = used \ {lhs, rhs}
        /\ Len(results) >= 2 /\ results' = Front2(results)
        /\ UNCHANGED <<lvalues, regs>>
    BY <1>3 DEF EndCompare, Runs
  <2>2. lhs \in Free /\ rhs \in Free
    BY <2>1, ResultsAre
  <2> HIDE DEF lhs, rhs
  <2>3. Reserved \subseteq used'
    BY <1>1, <2>1, <2>2 DEF Free
  <2> QED
    BY <1>1, <2>1, <2>3, ResultsAre, PieceEnds DEF ReservedInv
<1> QED
  BY <1>2, <1>3

\* Literals, variables and casts.
LEMMA LeavesKeep ==
    ASSUME ReservedInv, CompileLeaf \/ CompileIntCasted \/ Cast
    PROVE  Keeps
<1>1. Reserved \subseteq used /\ DOMAIN regs = Register /\ lvalues \in Seq(Free \cup {"RBP"})
  BY DEF ReservedInv
<1>2. CASE CompileLeaf \/ CompileIntCasted
  <2> DEFINE r == Available(Top.m)
  <2>1. /\ todo # <<>> /\ todo' = Rest /\ Top.op \in {"value", "casted"}
        /\ used' = Marked(r) /\ results' = Append(results, r) /\ lvalues' = lvalues
        /\ \E v : regs' = [regs EXCEPT ![r] = v]
    BY <1>2 DEF CompileLeaf, CompileIntCasted, Runs
  <2>2. r \in Free
    BY <1>1, <2>1, FirstTask, AvailableIsFree DEF ReservedInv, TaskOK
  <2> HIDE DEF r
  <2> QED
    BY <1>1, <2>1, <2>2, ResultsAre, FreeingIs, WritesAre, PieceEnds
<1>3. CASE Cast
  <2> DEFINE r == Last(results)
  <2>1. /\ todo # <<>> /\ todo' = Rest /\ results # <<>>
        /\ UNCHANGED <<results, lvalues, used>>
        /\ regs' = regs \/ \E v : regs' = [regs EXCEPT ![r] = v]
    BY <1>3 DEF Cast, Runs
  <2>2. r \in Free
    BY <2>1, ResultsAre
  <2> HIDE DEF r
  <2>3. DOMAIN regs' = Register /\ \A q \in Reserved : regs'[q] = regs[q]
    <3>1. CASE regs' = regs
      BY <1>1, <3>1
    <3>2. ASSUME NEW v, regs' = [regs EXCEPT ![r] = v]
          PROVE  DOMAIN regs' = Register /\ \A q \in Reserved : regs'[q] = regs[q]
      <4>1. /\ DOMAIN [regs EXCEPT ![r] = v] = Register
            /\ \A q \in Reserved : [regs EXCEPT ![r] = v][q] = regs[q]
        BY <1>1, <2>2, WritesAre
      <4> QED
        BY <3>2, <4>1
    <3> QED
      BY <2>1, <3>1, <3>2
  <2> QED
    BY <1>1, <2>1, <2>3, PieceEnds DEF ReservedInv
<1> QED
  BY <1>2, <1>3

\* The handlers that call others first.
LEMMA CallersKeep ==
    ASSUME ReservedInv, CompileCasted \/ CompileBinary \/ CompileLoad
                        \/ LValueInRegister \/ CompileAssignment
    PROVE  Keeps
<1>0. AllTasks(todo)
  BY DEF ReservedInv
<1>1. todo # <<>> => TaskOK(Top) /\ Top.e \in Expr
  BY <1>0, FirstTask DEF TaskOK
<1>2. CASE CompileCasted
  <2> DEFINE cast == [op |-> "cast", path |-> Top.path, e |-> Top.e, to |-> Top.to]
             tasks == <<Compile(Top.path, Top.e, Top.m), cast>>
  <2>1. /\ todo # <<>> /\ Top.op = "casted" /\ todo' = tasks \o Rest
        /\ UNCHANGED <<results, lvalues, used, regs>>
    BY <1>2 DEF CompileCasted, Runs
  <2>2. TaskOK(cast)
    BY <1>1, <2>1 DEF TaskOK
  <2>3. TaskOK(Compile(Top.path, Top.e, Top.m))
    BY <1>1, <2>1, SimpleTasks DEF TaskOK
  <2> HIDE DEF cast
  <2>4. AllTasks(tasks)
    BY <2>2, <2>3, TwoTasks
  <2> HIDE DEF tasks
  <2> QED
    BY <2>1, <2>4, OnlyTasks
<1>3. CASE CompileBinary
  <2> DEFINE rest == [op |-> "binary", path |-> Top.path, e |-> Top.e, m |-> Top.m]
             operands == Operands(Top.path, Top.e, Top.m, RhsMask(Top.m))
  <2>1. /\ todo # <<>> /\ Top.op = "value" /\ Top.e.kind \in {"plus", "equals"}
        /\ todo' = operands \o <<rest>> \o Rest
        /\ UNCHANGED <<results, lvalues, used, regs>>
    BY <1>3 DEF CompileBinary, Runs
  <2>2. TaskOK(rest) /\ Top.m \subseteq Any
    BY <1>1, <2>1 DEF TaskOK
  <2>3. AllTasks(operands)
    BY <1>1, <2>1, <2>2, MasksAre, OperandTasks
  <2> HIDE DEF rest, operands
  <2>4. AllTasks(operands \o <<rest>>)
    BY <2>2, <2>3, OneTask, MoreTasks
  <2> QED
    BY <2>1, <2>4, OnlyTasks
<1>4. CASE CompileLoad
  <2> DEFINE address == IF Top.e.kind = "subscript" THEN Offset(Top.path, Top.e, Top.m)
                        ELSE <<Compile(Kid(Top.path, 1), Top.e.kids[1], Top.m)>>
             rest == Remainder("load", Top.path, Top.e)
  <2>1. /\ todo # <<>> /\ Top.op = "value" /\ Top.e.kind \in {"subscript", "dereference"}
        /\ todo' = address \o <<rest>> \o Rest
        /\ UNCHANGED <<results, lvalues, used, regs>>
    BY <1>4 DEF CompileLoad, Runs
  <2>2. TaskOK(rest) /\ Top.m \subseteq Any
    BY <1>1, <2>1, SimpleTasks DEF TaskOK
  <2>3. AllTasks(address)
    BY <1>1, <2>1, <2>2, OffsetTasks, KidsAre, SimpleTasks, OneTask
  <2> HIDE DEF rest, address
  <2>4. AllTasks(address \o <<rest>>)
    BY <2>2, <2>3, OneTask, MoreTasks
  <2> QED
    BY <2>1, <2>4, OnlyTasks
<1>5. CASE LValueInRegister
  <2> DEFINE address == IF Top.e.kind = "subscript" THEN Offset(Top.path, Top.e, Any)
                        ELSE <<Compile(Kid(Top.path, 1), Top.e.kids[1], Any)>>
             rest == Remainder("operand", Top.path, Top.e)
  <2>1. /\ todo # <<>> /\ Top.e.kind \in {"subscript", "dereference"}
        /\ todo' = address \o <<rest>> \o Rest
        /\ UNCHANGED <<results, lvalues, used, regs>>
    BY <1>5 DEF LValueInRegister, Runs
  <2>2. TaskOK(rest)
    BY <1>1, <2>1, SimpleTasks
  <2>3. AllTasks(address)
    BY <1>1, <2>1, OffsetTasks, KidsAre, SimpleTasks, OneTask
  <2> HIDE DEF rest, address
  <2>4. AllTasks(address \o <<rest>>)
    BY <2>2, <2>3, OneTask, MoreTasks
  <2> QED
    BY <2>1, <2>4, OnlyTasks
<1>6. CASE CompileAssignment
  <2> DEFINE target == LValue(Kid(Top.path, 1), Top.e.kids[1])
             source == Casted(Kid(Top.path, 2), Top.e.kids[2], Top.m, Top.e.size)
             rest == Remainder("store", Top.path, Top.e)
  <2>1. /\ todo # <<>> /\ Top.op = "value" /\ Top.e.kind = "assign"
        /\ todo' = <<target, source, rest>> \o Rest
        /\ UNCHANGED <<results, lvalues, used, regs>>
    BY <1>6 DEF CompileAssignment, Runs
  <2>2. TaskOK(target) /\ TaskOK(source) /\ TaskOK(rest)
    BY <1>1, <2>1, KidsAre, SimpleTasks DEF TaskOK
  <2> HIDE DEF target, source, rest
  <2>3. AllTasks(<<target, source, rest>>)
    BY <2>2, ThreeTasks
  <2> QED
    BY <2>1, <2>3, OnlyTasks
<1> QED
  BY <1>2, <1>3, <1>4, <1>5, <1>6

\* Pieces that write one register that was returned to them, and free at most
\* another one.
LEMMA WritersKeep ==
    ASSUME ReservedInv, todo # <<>>, todo' = Rest, NEW r \in Free, NEW v,
           regs' = [regs EXCEPT ![r] = v],
           results' \in Seq(Free), lvalues' \in Seq(Free \cup {"RBP"}),
           used' = used \/ (\E q \in Free : used' = used \ {q})
                        \/ (\E b \in Free \cup {"RBP"} : used' = used \ FreedBase(b))
    PROVE  Keeps
<1>1. Reserved \subseteq used /\ DOMAIN regs = Register
  BY DEF ReservedInv
<1>2. Reserved \subseteq used'
  BY <1>1, FreeingIs
<1>3. /\ DOMAIN [regs EXCEPT ![r] = v] = Register
      /\ \A q \in Reserved : [regs EXCEPT ![r] = v][q] = regs[q]
  <2>1. Reserved \subseteq Register /\ r \notin Reserved
    BY RegistersAre DEF Free
  <2> QED
    BY <1>1, <2>1
<1>4. DOMAIN regs' = Register /\ \A q \in Reserved : regs'[q] = regs[q]
  BY <1>3
<1> QED
  BY <1>2, <1>4, PieceEnds

LEMMA OperationsKeep ==
    ASSUME ReservedInv, EndBinary \/ Scale \/ AddOffset \/ Load
    PROVE  Keeps
<1>1. CASE EndBinary
  <2> DEFINE lhs == LhsResult(Top.e)
             rhs == RhsResult(Top.e)
  <2>1. /\ todo # <<>> /\ todo' = Rest /\ Len(results) >= 2
        /\ used' = used \ {rhs} /\ results' = Append(Front2(results), lhs)
        /\ lvalues' = lvalues
        /\ \E v : regs' = [regs EXCEPT ![lhs] = v]
    BY <1>1 DEF EndBinary, Runs, BinaryFrees
  <2>2. lhs \in Free /\ rhs \in Free /\ Front2(results) \in Seq(Free)
    BY <2>1, ResultsAre
  <2> HIDE DEF lhs, rhs
  <2>3. results' \in Seq(Free)
    BY <2>1, <2>2, AppendProperties
  <2> QED
    BY <2>1, <2>2, <2>3, WritersKeep DEF ReservedInv
<1>2. CASE Scale \/ Load
  <2> DEFINE r == Last(results)
  <2>1. /\ todo # <<>> /\ todo' = Rest /\ results # <<>>
        /\ UNCHANGED <<results, lvalues, used>>
        /\ \E v : regs' = [regs EXCEPT ![r] = v]
    BY <1>2 DEF Scale, Load, Runs
  <2>2. r \in Free
    BY <2>1, ResultsAre
  <2> HIDE DEF r
  <2> QED
    BY <2>1, <2>2, WritersKeep DEF ReservedInv
<1>3. CASE AddOffset
  <2> DEFINE array == results[Len(results)]
             index == results[Len(results) - 1]
  <2>1. /\ todo # <<>> /\ todo' = Rest /\ Len(results) >= 2
        /\ used' = used \ {index} /\ results' = Append(Front2(results), array)
        /\ lvalues' = lvalues
        /\ \E v : regs' = [regs EXCEPT ![array] = v]
    BY <1>3 DEF AddOffset, Runs
  <2>2. array \in Free /\ index \in Free /\ Front2(results) \in Seq(Free)
    BY <2>1, ResultsAre
  <2> HIDE DEF array, index
  <2>3. results' \in Seq(Free)
    BY <2>1, <2>2, AppendProperties
  <2> QED
    BY <2>1, <2>2, <2>3, WritersKeep DEF ReservedInv
<1> QED
  BY <1>1, <1>2, <1>3

LEMMA PlacesKeep ==
    ASSUME ReservedInv, LValueOfVariable \/ EndLValue \/ EndAssignment
                        \/ CompileAddressOf \/ EndAddressOf
    PROVE  Keeps
<1>0. /\ AllTasks(todo) /\ Reserved \subseteq used /\ DOMAIN regs = Register
      /\ results \in Seq(Free) /\ lvalues \in Seq(Free \cup {"RBP"})
  BY DEF ReservedInv
<1>1. CASE LValueOfVariable
  <2>1. /\ todo # <<>> /\ todo' = Rest /\ lvalues' = Append(lvalues, "RBP")
        /\ UNCHANGED <<results, used, regs>>
    BY <1>1 DEF LValueOfVariable, Runs
  <2>2. lvalues' \in Seq(Free \cup {"RBP"})
    BY <1>0, <2>1, AppendProperties
  <2> QED
    BY <1>0, <2>1, <2>2, PieceEnds
<1>2. CASE EndLValue
  <2>1. /\ todo # <<>> /\ todo' = Rest /\ results # <<>>
        /\ lvalues' = Append(lvalues, Last(results)) /\ results' = Front(results)
        /\ UNCHANGED <<used, regs>>
    BY <1>2 DEF EndLValue, Runs
  <2>2. Last(results) \in Free \cup {"RBP"} /\ Front(results) \in Seq(Free)
    BY <2>1, ResultsAre
  <2>3. lvalues' \in Seq(Free \cup {"RBP"})
    BY <1>0, <2>1, <2>2, AppendProperties
  <2> QED
    BY <1>0, <2>1, <2>2, <2>3, PieceEnds
<1>3. CASE EndAssignment \/ EndAddressOf
  <2> DEFINE r == Last(results)
             base == Last(lvalues)
  <2>1. /\ todo # <<>> /\ todo' = Rest /\ results # <<>> /\ lvalues # <<>>
        /\ used' = used \ FreedBase(base) /\ lvalues' = Front(lvalues) /\ results' = results
        /\ \E v : regs' = [regs EXCEPT ![r] = v]
    BY <1>3 DEF EndAssignment, EndAddressOf, Runs
  <2>2. r \in Free /\ base \in Free \cup {"RBP"} /\ Front(lvalues) \in Seq(Free \cup {"RBP"})
    BY <2>1, ResultsAre
  <2> HIDE DEF r, base
  <2> QED
    BY <1>0, <2>1, <2>2, WritersKeep
<1>4. CASE CompileAddressOf
  <2> DEFINE r == Available(Top.m)
             place == LValue(Kid(Top.path, 1), Top.e.kids[1])
             rest == Remainder("lea", Top.path, Top.e)
  <2>1. /\ todo # <<>> /\ Top.op = "value" /\ Top.e.kind = "address_of"
        /\ used' = Marked(r) /\ results' = Append(results, r)
        /\ todo' = <<place, rest>> \o Rest
        /\ UNCHANGED <<lvalues, regs>>
    BY <1>4 DEF CompileAddressOf, Runs
  <2>2. TaskOK(Top) /\ AllTasks(Rest)
    BY <1>0, <2>1, FirstTask
  <2>3. r \in Free
    BY <1>0, <2>1, <2>2, AvailableIsFree DEF TaskOK
  <2>4. TaskOK(place) /\ TaskOK(rest)
    BY <2>1, <2>2, KidsAre, SimpleTasks DEF TaskOK
  <2> HIDE DEF r, place, rest
  <2>5. AllTasks(<<place, rest>> \o Rest)
    BY <2>2, <2>4, TwoTasks, MoreTasks
  <2>6. AllTasks(todo)'
    BY <2>1, <2>5 DEF AllTasks
  <2>7. results' \in Seq(Free) /\ Reserved \subseteq used'
    BY <1>0, <2>1, <2>3, ResultsAre, FreeingIs
  <2> QED
    BY <1>0, <2>1, <2>6, <2>7 DEF ReservedInv, Keeps
<1> QED
  BY <1>1, <1>2, <1>3, <1>4

\* A division frees and writes rax and rdx, which are volatile.
LEMMA OverKeeps ==
    ASSUME ReservedInv, CompileOver \/ EndOver
    PROVE  Keeps
<1>0. /\ AllTasks(todo) /\ Reserved \subseteq used /\ DOMAIN regs = Register
      /\ results \in Seq(Free) /\ lvalues \in Seq(Free \cup {"RBP"})
  BY DEF ReservedInv
<1>1. "RAX" \in Free /\ "RDX" \in Free /\ "RAX" \in Volatile
  BY RegistersAre DEF Volatile
<1>2. CASE CompileOver
  <2> DEFINE busy == "RAX" \in used
             operands == Operands(Top.path, Top.e, {"RAX"}, RhsMask(Top.m))
             rest == [op |-> "over", path |-> Top.path, e |-> Top.e,
                      m |-> Top.m, inRax |-> ~busy /\ "RAX" \in Top.m,
                      saved |-> IF busy THEN {"RAX"} ELSE {},
                      base |-> Len(results)]
  <2>1. /\ todo # <<>> /\ Top.op = "value" /\ Top.e.kind = "over"
        /\ used' = used \/ used' = used \ {"RAX"}
        /\ todo' = operands \o <<rest>> \o Rest
        /\ UNCHANGED <<results, lvalues, regs>>
    BY <1>2 DEF CompileOver, Runs
  <2>2. TaskOK(Top) /\ AllTasks(Rest)
    BY <1>0, <2>1, FirstTask
  <2>3. Top.m \subseteq Any /\ Top.e \in Expr
    BY <2>1, <2>2 DEF TaskOK
  <2>4. TaskOK(rest)
    BY <1>1, <2>3 DEF TaskOK
  <2>5. AllTasks(operands)
    BY <2>1, <2>3, MasksAre, OperandTasks
  <2> HIDE DEF operands, rest
  <2>6. AllTasks(operands \o <<rest>> \o Rest)
    BY <2>2, <2>4, <2>5, OneTask, MoreTasks
  <2>7. AllTasks(todo)'
    BY <2>1, <2>6 DEF AllTasks
  <2>8. Reserved \subseteq used'
    BY <1>0, <1>1, <2>1, FreeingIs
  <2> QED
    BY <1>0, <2>1, <2>7, <2>8 DEF ReservedInv, Keeps
<1>3. CASE EndOver
  <2> DEFINE lhs == LhsResult(Top.e)
             rhs == RhsResult(Top.e)
             dst == IF Top.inRax THEN lhs ELSE Available(Top.m)
             quotient == IF /\ HoldsValue("RAX", Kid(Top.path, 1), 8)
                            /\ HoldsValue(rhs, Kid(Top.path, 2), 8)
                            /\ rhs \notin {"RAX", "RDX"}
                         THEN Value(Top.path, Top.e.size) ELSE Junk
             divided == [[regs EXCEPT !["RAX"] = quotient] EXCEPT !["RDX"] = Junk]
             moved == IF Top.inRax THEN divided
                      ELSE [divided EXCEPT ![dst] = quotient]
             rdxBack == IF "RDX" \in used THEN [moved EXCEPT !["RDX"] = regs["RDX"]]
                        ELSE moved
             raxBack == IF Top.saved = {} THEN rdxBack
                        ELSE [rdxBack EXCEPT !["RAX"] = Last(stack)]
             Same(f) == DOMAIN f = Register /\ \A q \in Reserved : f[q] = regs[q]
  <2>1. /\ todo # <<>> /\ Top.op = "over" /\ todo' = Rest /\ Len(results) >= 2
        /\ used' = (IF Top.inRax THEN used ELSE Marked(dst) \ {"RAX"}) \ {rhs}
        /\ results' = Append(Front2(results), dst) /\ lvalues' = lvalues
    BY <1>3 DEF EndOver, Runs
  <2>2. regs' = raxBack
    BY <1>3 DEF EndOver
  <2>3. lhs \in Free /\ rhs \in Free /\ Front2(results) \in Seq(Free)
    BY <2>1, ResultsAre
  <2>4. dst \in Free
    BY <1>0, <2>1, <2>3, FirstTask, AvailableIsFree DEF TaskOK
  <2> HIDE DEF lhs, rhs, dst, quotient
  <2>5. Same(divided)
    <3> DEFINE first == [regs EXCEPT !["RAX"] = quotient]
    <3>1. Same(first)
      <4>1. /\ DOMAIN [regs EXCEPT !["RAX"] = quotient] = Register
            /\ \A q \in Reserved : [regs EXCEPT !["RAX"] = quotient][q] = regs[q]
        <5>1. Reserved \subseteq Register /\ "RAX" \notin Reserved
          BY <1>1, RegistersAre DEF Free
        <5> QED
          BY <1>0, <5>1
      <4> QED
        BY <4>1
    <3> HIDE DEF first
    <3>2. /\ DOMAIN [first EXCEPT !["RDX"] = Junk] = Register
          /\ \A q \in Reserved : [first EXCEPT !["RDX"] = Junk][q] = first[q]
      BY <1>1, <3>1, WritesAre
    <3>3. Same([first EXCEPT !["RDX"] = Junk])
      BY <3>1, <3>2
    <3> QED
      BY <3>3 DEF first
  <2> HIDE DEF divided
  <2>6. Same(moved)
    BY <2>4, <2>5, WritesAre
  <2> HIDE DEF moved
  <2>7. Same(rdxBack)
    BY <1>1, <2>6, WritesAre
  <2> HIDE DEF rdxBack
  <2>8. Same(regs')
    BY <1>1, <2>2, <2>7, WritesAre
  <2>9. Reserved \subseteq used'
    BY <1>0, <1>1, <2>1, <2>3 DEF Marked, Free
  <2>10. results' \in Seq(Free)
    BY <2>1, <2>3, <2>4, AppendProperties
  <2> QED
    BY <1>0, <2>1, <2>8, <2>9, <2>10, PieceEnds
<1> QED
  BY <1>2, <1>3

\* A call saves, overwrites and restores volatile registers only.
LEMMA CallKeeps ==
    ASSUME ReservedInv, CompileCall \/ EndCall
    PROVE  Keeps
<1>0. /\ AllTasks(todo) /\ Reserved \subseteq used /\ DOMAIN regs = Register
      /\ results \in Seq(Free) /\ lvalues \in Seq(Free \cup {"RBP"})
  BY DEF ReservedInv
<1>1. CASE CompileCall
  <2> DEFINE saved == used \cap Volatile
             call == [op |-> "call", path |-> Top.path, e |-> Top.e,
                      output |-> Available(Top.m), saved |-> saved,
                      base |-> Len(results)]
  <2>1. PICK order \in ArgumentOrders(Top.e) :
           todo' = [i \in DOMAIN order |->
                      Casted(Kid(Top.path, order[i]), Top.e.kids[order[i]],
                             {ArgRegister[order[i]]}, Top.e.params[order[i]])]
                   \o <<call>> \o Rest
    BY <1>1, ZenonT(60) DEF CompileCall, CallSaves
  <2> DEFINE arguments == [i \in DOMAIN order |->
                      Casted(Kid(Top.path, order[i]), Top.e.kids[order[i]],
                             {ArgRegister[order[i]]}, Top.e.params[order[i]])]
  <2>2. /\ todo # <<>> /\ Top.op = "value" /\ Top.e.kind = "call"
        /\ used' = used \ saved /\ UNCHANGED <<results, lvalues, regs>>
    BY <1>1 DEF CompileCall, CallSaves, Runs
  <2>3. TaskOK(Top) /\ AllTasks(Rest)
    BY <1>0, <2>2, FirstTask
  <2>4. Top.m \subseteq Any /\ Top.e \in Expr
    BY <2>2, <2>3 DEF TaskOK
  <2>5. Available(Top.m) \in Free
    BY <1>0, <2>4, AvailableIsFree
  <2>6. TaskOK(call)
    BY <2>2, <2>4, <2>5 DEF TaskOK
  <2>7. AllTasks(arguments)
    BY <2>2, <2>4, ArgumentTasks
  <2>8. Reserved \subseteq used'
    BY <1>0, <2>2, RegistersAre DEF Free
  <2>9. todo' = arguments \o <<call>> \o Rest
    BY <2>1
  <2> HIDE DEF arguments, call
  <2>10. AllTasks(arguments \o <<call>> \o Rest)
    BY <2>3, <2>6, <2>7, OneTask, MoreTasks
  <2>11. AllTasks(todo)'
    BY <2>9, <2>10 DEF AllTasks
  <2> QED
    BY <1>0, <2>2, <2>8, <2>11, SMTT(60) DEF ReservedInv, Keeps
<1>2. CASE EndCall
  <2> DEFINE n == Len(Top.e.kids)
             given == {ArgRegister[i] : i \in DOMAIN Top.e.params}
  <2>1. /\ todo # <<>> /\ Top.op = "call" /\ todo' = Rest /\ Len(results) >= n
        /\ used' = (used \ given) \cup ({Top.output} \ {NoRegister}) \cup Top.saved
        /\ results' = Append(SubSeq(results, 1, Len(results) - n), Top.output)
        /\ lvalues' = lvalues
        /\ DOMAIN regs' = Register
    BY <1>2 DEF EndCall, Runs
  <2>2. /\ Top.e \in Expr /\ Top.e.kind = "call"
        /\ Top.output \in Free /\ Top.saved \subseteq Volatile
    BY <1>0, <2>1, FirstTask DEF TaskOK
  <2>3. n \in 0..6 /\ DOMAIN Top.e.params = 1..n
    BY <2>2, KidsAre
  <2>4. given \subseteq Free
    <3> HIDE DEF n
    <3>1. \A i \in 1..n : i \in 1..6
      BY <2>3
    <3> QED
      BY <2>3, <3>1, RegistersAre
  <2>5. Reserved \subseteq used'
    <3> HIDE DEF given
    <3> QED
      BY <1>0, <2>1, <2>4 DEF Free
  <2>6. ASSUME NEW r \in Reserved
        PROVE  regs'[r] = regs[r]
    <3>1. /\ r \in Register /\ r \notin Free
          /\ r \notin Volatile /\ r \notin Top.saved /\ r # Top.output /\ r # "RAX"
      <4>1. "RAX" \in Free
        BY RegistersAre DEF Volatile
      <4> QED
        BY <2>2, <4>1, RegistersAre DEF Free
    <3> QED
      BY <1>2, <3>1 DEF EndCall
  <2>7. results' \in Seq(Free)
    <3>1. n \in Nat
      BY <2>3
    <3> HIDE DEF n
    <3>2. SubSeq(results, 1, Len(results) - n) \in Seq(Free)
      BY <1>0, <2>1, <3>1, Prefixes
    <3> QED
      BY <2>1, <2>2, <3>2, AppendProperties
  <2> QED
    BY <1>0, <2>1, <2>5, <2>6, <2>7, PieceEnds
<1> QED
  BY <1>1, <1>2

------------------------------------------------------------------------------

LEMMA ReservedInit == Init => ReservedInv
<1> SUFFICES ASSUME Init PROVE ReservedInv
  OBVIOUS
<1>1. AllTasks(todo)
  BY NoTasks DEF Init
<1>2. results \in Seq(Free) /\ lvalues \in Seq(Free \cup {"RBP"})
  BY EmptySeq DEF Init
<1> QED
  BY <1>1, <1>2 DEF Init, ReservedInv

LEMMA ReservedStep == ReservedInv /\ Next => Keeps
<1> SUFFICES ASSUME ReservedInv, Next PROVE Keeps
  OBVIOUS
<1>1. CASE \E st \in Statement : Begin(st)
  BY <1>1, BeginKeeps
<1>2. CASE EndStatement \/ EndCompare
  BY <1>2, EndsKeep
<1>3. CASE CompileLeaf \/ CompileIntCasted \/ Cast
  BY <1>3, LeavesKeep
<1>4. CASE CompileCasted \/ CompileBinary \/ CompileLoad
           \/ LValueInRegister \/ CompileAssignment
  BY <1>4, CallersKeep
<1>5. CASE EndBinary \/ Scale \/ AddOffset \/ Load
  BY <1>5, OperationsKeep
<1>6. CASE CompileOver \/ EndOver
  BY <1>6, OverKeeps
<1>7. CASE CompileCall \/ EndCall
  BY <1>7, CallKeeps
<1>8. CASE LValueOfVariable \/ EndLValue \/ EndAssignment
           \/ CompileAddressOf \/ EndAddressOf
  BY <1>8, PlacesKeep
<1> QED
  BY <1>1, <1>2, <1>3, <1>4, <1>5, <1>6, <1>7, <1>8 DEF Next

\* Reserved registers stay marked, and no handler returns one.
THEOREM ReservedInvariant == Spec => []ReservedInv
<1>1. ReservedInv /\ UNCHANGED vars => ReservedInv'
  BY DEF ReservedInv, AllTasks, vars
<1>2. ReservedInv /\ [Next]_vars => ReservedInv'
  BY <1>1, ReservedStep DEF Keeps
<1> QED
  BY ReservedInit, <1>2, PTL DEF Spec

\* The code of any statement, of any depth, writes none of the registers the
\* caller of the function keeps values in, nor the frame pointer.
THEOREM CalleeSavedAreKept == Spec => CalleeSavedKept
<1>1. ReservedInv /\ [Next]_vars => [\A r \in Reserved : regs'[r] = regs[r]]_vars
  BY ReservedStep DEF Keeps
<1> QED
  BY ReservedInvariant, <1>1, PTL DEF Spec, CalleeSavedKept

------------------------------------------------------------------------------
(* What each task does to the stacks, however deep the expression it       *)
(* compiles.  A layout says how high the stacks are, and of each result    *)
(* and each operand the registers it may be in.                            *)

Layout == [rs : Nat, res : [Nat -> SUBSET Register],
           ls : Nat, lvs : [Nat -> SUBSET Register], ws : Nat]

Within(f, g, n) == \A i \in 1..n : f[i] \subseteq g[i]

OnlyResults(a, b) == b.ls = a.ls /\ Within(a.lvs, b.lvs, a.ls) /\ b.ws = a.ws

\* One more result, in S.
Pushes(a, b, S) ==
    /\ b.rs = a.rs + 1 /\ Within(a.res, b.res, a.rs) /\ S \subseteq b.res[b.rs]
    /\ OnlyResults(a, b)

\* The same results.
Wider(a, b) == b.rs = a.rs /\ Within(a.res, b.res, a.rs) /\ OnlyResults(a, b)

\* The last two results become one, in S.
Combines(a, b, S) ==
    /\ a.rs >= 2 /\ b.rs = a.rs - 1
    /\ Within(a.res, b.res, a.rs - 2) /\ S \subseteq b.res[b.rs]
    /\ b.ls = a.ls /\ Within(a.lvs, b.lvs, a.ls)

\* One operand more.
PushesOperand(a, b) ==
    /\ b.ls = a.ls + 1 /\ Within(a.lvs, b.lvs, a.ls) /\ Register \subseteq b.lvs[b.ls]
    /\ b.ws = a.ws

\* Where the left operand of a binary operation is, of n results.
LhsAt(e, n) == n - (IF RhsFirst(e) THEN 0 ELSE 1)

Arguments(e) == {ArgRegister[i] : i \in DOMAIN e.params}

CallRuns(t, a, b) ==
    LET n == Len(t.e.kids) IN
    /\ a.rs >= n /\ b.rs = a.rs - n + 1
    /\ Within(a.res, b.res, a.rs - n) /\ t.output \in b.res[b.rs]
    /\ \A i \in a.rs - n + 1 .. a.rs : a.res[i] \subseteq Arguments(t.e) \cup {NoRegister}
    \* what was saved is still an operand below the arguments
    /\ \A r \in t.saved : \/ \E i \in 1..a.rs - n : a.res[i] = {r}
                          \/ \E i \in 1..a.ls : a.lvs[i] = {r}
    /\ b.ls = a.ls /\ Within(a.lvs, b.lvs, a.ls)
    /\ a.ws = b.ws + Cardinality(t.saved)

OverRuns(t, a, b) ==
    /\ Combines(a, b, IF t.inRax THEN a.res[LhsAt(t.e, a.rs)] ELSE t.m \cup {NoRegister})
    /\ a.res[LhsAt(t.e, a.rs)] \subseteq {"RAX", NoRegister}
    /\ t.saved \in {{}, {"RAX"}} /\ a.ws = b.ws + Cardinality(t.saved)

\* What the operand compiled first leaves of the one register that a binary
\* operation must answer in.
LeavesTarget(t, a) ==
    IsSingle(t.m) =>
        /\ RhsFirst(t.e) => a.res[a.rs - 1] \cap t.m = {}
        /\ ~RhsFirst(t.e) => a.res[a.rs - 1] \subseteq t.m \cup {NoRegister}

TaskRuns(t, a, b) ==
    /\ t.op \in {"value", "casted"} => Pushes(a, b, t.m \cup {NoRegister})
    /\ t.op \in {"cast", "scale", "load"} => a.rs >= 1 /\ Wider(a, b)
    /\ t.op = "binary" => /\ Combines(a, b, a.res[LhsAt(t.e, a.rs)]) /\ b.ws = a.ws
                          /\ LeavesTarget(t, a)
    /\ t.op = "over" => OverRuns(t, a, b)
    /\ t.op = "call" => CallRuns(t, a, b)
    /\ t.op = "add_offset" => Combines(a, b, a.res[a.rs]) /\ b.ws = a.ws
    /\ t.op = "lvalue" => b.rs = a.rs /\ Within(a.res, b.res, a.rs) /\ PushesOperand(a, b)
    /\ t.op = "operand" => /\ a.rs >= 1 /\ b.rs = a.rs - 1 /\ Within(a.res, b.res, b.rs)
                           /\ PushesOperand(a, b)
    /\ t.op \in {"store", "lea"} =>
          /\ a.rs >= 1 /\ b.rs = a.rs /\ Within(a.res, b.res, a.rs)
          /\ a.ls >= 1 /\ b.ls = a.ls - 1 /\ Within(a.lvs, b.lvs, b.ls) /\ b.ws = a.ws
    /\ t.op = "statement" => /\ a.rs >= 1 /\ b.rs = a.rs - 1 /\ Within(a.res, b.res, b.rs)
                             /\ OnlyResults(a, b)
    /\ t.op = "compare" => /\ a.rs >= 2 /\ b.rs = a.rs - 2 /\ Within(a.res, b.res, b.rs)
                           /\ OnlyResults(a, b)

\* The tasks ts, one after the other, lead from the layout a to the layout b.
Effect(ts, a, b) ==
    \E h \in [1..Len(ts) + 1 -> Layout] :
        /\ h[1] = a /\ h[Len(ts) + 1] = b
        /\ \A k \in 1..Len(ts) : TaskRuns(ts[k], h[k], h[k + 1])

\* The stacks are as the layout says.
Fits(a) ==
    /\ Len(results) = a.rs /\ \A i \in 1..a.rs : results[i] \in a.res[i]
    /\ Len(lvalues) = a.ls /\ \A i \in 1..a.ls : lvalues[i] \in a.lvs[i]
    /\ Len(stack) = a.ws /\ \E S : stack \in Seq(S)

\* All that is still to be done empties the stacks.
HeightInv ==
    \E a \in Layout, z \in Layout :
        /\ Fits(a) /\ Effect(todo, a, z)
        /\ z.rs = 0 /\ z.ls = 0 /\ z.ws = 0

\* Each register in use belongs to a result or an operand that waits.
UsedInv ==
    /\ NoRegister \notin used
    /\ \A r \in used : \/ r \in Reserved
                       \/ \E i \in 1..Len(results) : results[i] = r
                       \/ \E i \in 1..Len(lvalues) : lvalues[i] = r

BalanceInv == ReservedInv /\ HeightInv /\ UsedInv

------------------------------------------------------------------------------
(* Effects compose.                                                        *)

IsSeq(s) == \E S : s \in Seq(S)

LEMMA ListsAreSeqs ==
    /\ \A t : IsSeq(<<t>>)
    /\ \A t, u : IsSeq(<<t, u>>)
    /\ \A t, u, v : IsSeq(<<t, u, v>>)
    /\ \A t, u, v, w : IsSeq(<<t, u, v, w>>)
<1>1. ASSUME NEW t PROVE IsSeq(<<t>>)
  <2>1. <<t>> \in Seq({t})
    OBVIOUS
  <2> QED
    BY <2>1 DEF IsSeq
<1>2. ASSUME NEW t, NEW u PROVE IsSeq(<<t, u>>)
  <2>1. <<t, u>> \in Seq({t, u})
    OBVIOUS
  <2> QED
    BY <2>1 DEF IsSeq
<1>3. ASSUME NEW t, NEW u, NEW v PROVE IsSeq(<<t, u, v>>)
  <2>1. <<t, u, v>> \in Seq({t, u, v})
    OBVIOUS
  <2> QED
    BY <2>1 DEF IsSeq
<1>4. ASSUME NEW t, NEW u, NEW v, NEW w PROVE IsSeq(<<t, u, v, w>>)
  <2>1. <<t, u, v, w>> \in Seq({t, u, v, w})
    OBVIOUS
  <2> QED
    BY <2>1 DEF IsSeq
<1> QED
  BY <1>1, <1>2, <1>3, <1>4

LEMMA ConcatIsSeq ==
    ASSUME NEW s, NEW t, IsSeq(s), IsSeq(t)
    PROVE  IsSeq(s \o t)
<1>1. PICK S, T : s \in Seq(S) /\ t \in Seq(T)
  BY DEF IsSeq
<1>2. s \in Seq(S \cup T) /\ t \in Seq(S \cup T)
  BY <1>1, SeqMonotonic
<1>3. s \o t \in Seq(S \cup T)
  BY <1>2, ConcatProperties
<1> QED
  BY <1>3 DEF IsSeq

LEMMA EffectNone ==
    ASSUME NEW a \in Layout
    PROVE  /\ Effect(<<>>, a, a)
           /\ \A z : Effect(<<>>, a, z) => z = a
<1>1. Len(<<>>) = 0 /\ 1..0 = {} /\ 1..1 = {1}
  BY EmptySeq
<1>2. Effect(<<>>, a, a)
  <2> DEFINE h == [k \in 1..1 |-> a]
  <2>1. h \in [1..1 -> Layout] /\ h[1] = a
    OBVIOUS
  <2> HIDE DEF h
  <2> QED
    BY <1>1, <2>1 DEF Effect
<1>3. \A z : Effect(<<>>, a, z) => z = a
  BY <1>1 DEF Effect
<1> QED
  BY <1>2, <1>3

LEMMA EffectOne ==
    ASSUME NEW t, NEW a \in Layout, NEW b \in Layout, TaskRuns(t, a, b)
    PROVE  Effect(<<t>>, a, b)
<1> DEFINE h == [k \in 1..2 |-> IF k = 1 THEN a ELSE b]
           s == <<t>>
<1>1. Len(s) = 1 /\ s[1] = t /\ 1..1 = {1}
  OBVIOUS
<1>2. h \in [1..2 -> Layout] /\ h[1] = a /\ h[2] = b
  OBVIOUS
<1> HIDE DEF h, s
<1>3. Effect(s, a, b)
  <2>1. h \in [1..Len(s) + 1 -> Layout] /\ h[Len(s) + 1] = b
    BY <1>1, <1>2
  <2>2. \A k \in 1..Len(s) : TaskRuns(s[k], h[k], h[k + 1])
    BY <1>1, <1>2
  <2> QED
    BY <1>2, <2>1, <2>2 DEF Effect
<1> QED
  BY <1>3 DEF s

LEMMA EffectThen ==
    ASSUME NEW s, NEW t, IsSeq(s), IsSeq(t), NEW a, NEW b, NEW c,
           Effect(s, a, b), Effect(t, b, c)
    PROVE  Effect(s \o t, a, c) /\ IsSeq(s \o t)
<1>0. PICK S, T : s \in Seq(S) /\ t \in Seq(T)
  BY DEF IsSeq
<1>1. PICK g \in [1..Len(s) + 1 -> Layout] :
        /\ g[1] = a /\ g[Len(s) + 1] = b
        /\ \A k \in 1..Len(s) : TaskRuns(s[k], g[k], g[k + 1])
  BY DEF Effect
<1>2. PICK h \in [1..Len(t) + 1 -> Layout] :
        /\ h[1] = b /\ h[Len(t) + 1] = c
        /\ \A k \in 1..Len(t) : TaskRuns(t[k], h[k], h[k + 1])
  BY DEF Effect
<1> DEFINE n == Len(s)
           m == Len(t)
           u == s \o t
           f == [k \in 1..n + m + 1 |-> IF k <= n THEN g[k] ELSE h[k - n]]
<1>3. n \in Nat /\ m \in Nat
  BY <1>0, LenProperties
<1>4. /\ u \in Seq(S \cup T) /\ Len(u) = n + m
      /\ \A k \in 1..n + m : u[k] = IF k <= n THEN s[k] ELSE t[k - n]
  <2>1. s \in Seq(S \cup T) /\ t \in Seq(S \cup T)
    BY <1>0, SeqMonotonic
  <2> QED
    BY <2>1, ConcatProperties
<1>5. /\ g \in [1..n + 1 -> Layout] /\ g[1] = a /\ g[n + 1] = b
      /\ h \in [1..m + 1 -> Layout] /\ h[1] = b /\ h[m + 1] = c
      /\ \A k \in 1..n : TaskRuns(s[k], g[k], g[k + 1])
      /\ \A k \in 1..m : TaskRuns(t[k], h[k], h[k + 1])
  BY <1>1, <1>2
<1>6. \A k \in 1..n + m + 1 : f[k] = IF k <= n THEN g[k] ELSE h[k - n]
  OBVIOUS
<1>7. f \in [1..n + m + 1 -> Layout]
  <2>1. ASSUME NEW k \in 1..n + m + 1
        PROVE  (IF k <= n THEN g[k] ELSE h[k - n]) \in Layout
    <3> HIDE DEF n, m
    <3>1. CASE k <= n
      <4>1. k \in 1..n + 1
        BY <1>3, <3>1
      <4> QED
        BY <1>5, <3>1, <4>1
    <3>2. CASE ~(k <= n)
      <4>1. k - n \in 1..m + 1
        BY <1>3, <3>2
      <4> QED
        BY <1>5, <3>2, <4>1
    <3> QED
      BY <3>1, <3>2
  <2> QED
    BY <2>1
<1> HIDE DEF f, n, m, u
<1>8. f[1] = a
  <2>1. CASE n = 0
    <3>1. f[1] = h[1 - n] /\ a = b
      BY <1>3, <1>5, <1>6, <2>1
    <3> QED
      BY <1>5, <2>1, <3>1
  <2>2. CASE n # 0
    BY <1>3, <1>5, <1>6, <2>2
  <2> QED
    BY <2>1, <2>2
<1>9. f[n + m + 1] = c
  <2>1. n + m + 1 \in 1..n + m + 1 /\ ~(n + m + 1 <= n) /\ (n + m + 1) - n = m + 1
    BY <1>3
  <2> QED
    BY <1>5, <1>6, <2>1
<1>10. ASSUME NEW k \in 1..n + m
       PROVE  TaskRuns(u[k], f[k], f[k + 1])
  <2>1. CASE k <= n
    <3>1. k \in 1..n /\ k \in 1..n + m + 1 /\ k + 1 \in 1..n + m + 1
      BY <1>3, <2>1
    <3>2. u[k] = s[k] /\ f[k] = g[k]
      BY <1>4, <1>6, <2>1, <3>1
    <3>3. f[k + 1] = g[k + 1]
      <4>1. CASE k + 1 <= n
        BY <1>6, <3>1, <4>1
      <4>2. CASE ~(k + 1 <= n)
        <5>1. k + 1 = n + 1 /\ (k + 1) - n = 1
          BY <1>3, <2>1, <4>2
        <5>2. f[k + 1] = h[1]
          BY <1>6, <3>1, <4>2, <5>1
        <5> QED
          BY <1>5, <5>1, <5>2
      <4> QED
        BY <4>1, <4>2
    <3> QED
      BY <1>5, <3>1, <3>2, <3>3
  <2>2. CASE ~(k <= n)
    <3>1. PICK l : l = k - n
      OBVIOUS
    <3>2. /\ l \in 1..m /\ k \in 1..n + m + 1 /\ k + 1 \in 1..n + m + 1
          /\ ~(k + 1 <= n) /\ (k + 1) - n = l + 1
      BY <1>3, <2>2, <3>1
    <3>3. u[k] = t[l] /\ f[k] = h[l]
      BY <1>4, <1>6, <2>2, <3>1, <3>2
    <3>4. f[k + 1] = h[l + 1]
      BY <1>6, <3>2
    <3> QED
      BY <1>5, <3>2, <3>3, <3>4
  <2> QED
    BY <2>1, <2>2
<1>11. Effect(u, a, c)
  <2>1. Len(u) + 1 = n + m + 1
    BY <1>3, <1>4
  <2> QED
    BY <1>4, <1>7, <1>8, <1>9, <1>10, <2>1 DEF Effect
<1> QED
  BY <1>4, <1>11 DEF u, IsSeq

\* The first task, and what the others do then.
LEMMA EffectFirst ==
    ASSUME NEW S, NEW s \in Seq(S), s # <<>>, NEW a, NEW z, Effect(s, a, z)
    PROVE  \E b \in Layout : TaskRuns(s[1], a, b) /\ Effect(Tail(s), b, z)
<1>1. PICK h \in [1..Len(s) + 1 -> Layout] :
        /\ h[1] = a /\ h[Len(s) + 1] = z
        /\ \A k \in 1..Len(s) : TaskRuns(s[k], h[k], h[k + 1])
  BY DEF Effect
<1> DEFINE n == Len(s)
           t == Tail(s)
           g == [k \in 1..n |-> h[k + 1]]
<1>2. /\ n \in Nat /\ n >= 1
      /\ t \in Seq(S) /\ Len(t) = n - 1
      /\ \A k \in 1..Len(t) : t[k] = s[k + 1]
  BY EmptySeq, LenProperties, HeadTailProperties
<1>3. /\ h \in [1..n + 1 -> Layout] /\ h[1] = a /\ h[n + 1] = z
      /\ \A k \in 1..n : TaskRuns(s[k], h[k], h[k + 1])
  BY <1>1
<1>4. \A k \in 1..n : g[k] = h[k + 1]
  OBVIOUS
<1>5. g \in [1..n -> Layout]
  <2>1. ASSUME NEW k \in 1..n PROVE h[k + 1] \in Layout
    <3> HIDE DEF n
    <3>1. k + 1 \in 1..n + 1
      BY <1>2
    <3> QED
      BY <1>3, <3>1
  <2> QED
    BY <2>1
<1> HIDE DEF g, n, t
<1>6. h[2] \in Layout /\ TaskRuns(s[1], a, h[2])
  <2>1. 1 \in 1..n /\ 2 \in 1..n + 1 /\ 1 + 1 = 2
    BY <1>2
  <2> QED
    BY <1>3, <2>1
<1>7. Effect(t, h[2], z)
  <2>1. Len(t) + 1 = n
    BY <1>2
  <2>2. g[1] = h[2] /\ g[n] = z
    <3>1. 1 \in 1..n /\ n \in 1..n /\ 1 + 1 = 2
      BY <1>2
    <3> QED
      BY <1>3, <1>4, <3>1
  <2>3. ASSUME NEW k \in 1..Len(t)
        PROVE  TaskRuns(t[k], g[k], g[k + 1])
    <3>1. k \in 1..n /\ k + 1 \in 1..n
      BY <1>2, <2>1
    <3>2. t[k] = s[k + 1] /\ g[k] = h[k + 1] /\ g[k + 1] = h[k + 1 + 1]
      BY <1>2, <1>4, <3>1
    <3> QED
      BY <1>3, <3>1, <3>2
  <2> QED
    BY <1>5, <2>1, <2>2, <2>3 DEF Effect
<1> QED
  BY <1>6, <1>7 DEF t

LEMMA EffectTwo ==
    ASSUME NEW t, NEW u, NEW a \in Layout, NEW b \in Layout, NEW c \in Layout,
           TaskRuns(t, a, b), TaskRuns(u, b, c)
    PROVE  Effect(<<t, u>>, a, c)
<1> DEFINE h == [k \in 1..3 |-> IF k = 1 THEN a ELSE IF k = 2 THEN b ELSE c]
           s == <<t, u>>
<1>1. Len(s) = 2 /\ s[1] = t /\ s[2] = u /\ 1..2 = {1, 2}
  OBVIOUS
<1>2. h \in [1..3 -> Layout] /\ h[1] = a /\ h[2] = b /\ h[3] = c
  OBVIOUS
<1> HIDE DEF h, s
<1>3. Effect(s, a, c)
  <2>1. h \in [1..Len(s) + 1 -> Layout] /\ h[Len(s) + 1] = c
    BY <1>1, <1>2
  <2>2. \A k \in 1..Len(s) : TaskRuns(s[k], h[k], h[k + 1])
    BY <1>1, <1>2
  <2> QED
    BY <1>2, <2>1, <2>2 DEF Effect
<1> QED
  BY <1>3 DEF s

LEMMA EffectThree ==
    ASSUME NEW t, NEW u, NEW v, NEW a \in Layout, NEW b \in Layout, NEW c \in Layout,
           NEW d \in Layout, TaskRuns(t, a, b), TaskRuns(u, b, c), TaskRuns(v, c, d)
    PROVE  Effect(<<t, u, v>>, a, d)
<1> DEFINE h == [k \in 1..4 |-> IF k = 1 THEN a ELSE IF k = 2 THEN b ELSE IF k = 3 THEN c ELSE d]
           s == <<t, u, v>>
<1>1. Len(s) = 3 /\ s[1] = t /\ s[2] = u /\ s[3] = v /\ 1..3 = {1, 2, 3}
  OBVIOUS
<1>2. h \in [1..4 -> Layout] /\ h[1] = a /\ h[2] = b /\ h[3] = c /\ h[4] = d
  OBVIOUS
<1> HIDE DEF h, s
<1>3. Effect(s, a, d)
  <2>1. h \in [1..Len(s) + 1 -> Layout] /\ h[Len(s) + 1] = d
    BY <1>1, <1>2
  <2>2. \A k \in 1..Len(s) : TaskRuns(s[k], h[k], h[k + 1])
    BY <1>1, <1>2
  <2> QED
    BY <1>2, <2>1, <2>2 DEF Effect
<1> QED
  BY <1>3 DEF s

LEMMA EffectFour ==
    ASSUME NEW t, NEW u, NEW v, NEW w, NEW a \in Layout, NEW b \in Layout, NEW c \in Layout,
           NEW d \in Layout, NEW e \in Layout,
           TaskRuns(t, a, b), TaskRuns(u, b, c), TaskRuns(v, c, d), TaskRuns(w, d, e)
    PROVE  Effect(<<t, u, v, w>>, a, e)
<1> DEFINE h == [k \in 1..5 |-> IF k = 1 THEN a ELSE IF k = 2 THEN b ELSE IF k = 3 THEN c
                                ELSE IF k = 4 THEN d ELSE e]
           s == <<t, u, v, w>>
<1>1. Len(s) = 4 /\ s[1] = t /\ s[2] = u /\ s[3] = v /\ s[4] = w /\ 1..4 = {1, 2, 3, 4}
  OBVIOUS
<1>2. h \in [1..5 -> Layout] /\ h[1] = a /\ h[2] = b /\ h[3] = c /\ h[4] = d /\ h[5] = e
  OBVIOUS
<1> HIDE DEF h, s
<1>3. Effect(s, a, e)
  <2>1. h \in [1..Len(s) + 1 -> Layout] /\ h[Len(s) + 1] = e
    BY <1>1, <1>2
  <2>2. \A k \in 1..Len(s) : TaskRuns(s[k], h[k], h[k + 1])
    BY <1>1, <1>2
  <2> QED
    BY <1>2, <2>1, <2>2 DEF Effect
<1> QED
  BY <1>3 DEF s

------------------------------------------------------------------------------
(* The tasks that handlers make. *)

\* The layout with one result more, which is in S.
Pushed(a, S) == [rs |-> a.rs + 1, res |-> [a.res EXCEPT ![a.rs + 1] = S],
                 ls |-> a.ls, lvs |-> a.lvs, ws |-> a.ws]

LEMMA LayoutIs ==
    ASSUME NEW a \in Layout
    PROVE  /\ a.rs \in Nat /\ a.ls \in Nat /\ a.ws \in Nat
           /\ a.res \in [Nat -> SUBSET Register] /\ a.lvs \in [Nat -> SUBSET Register]
BY DEF Layout

LEMMA PushedIs ==
    ASSUME NEW a \in Layout, NEW S \in SUBSET Register
    PROVE  /\ Pushed(a, S) \in Layout
           /\ Pushed(a, S).rs = a.rs + 1
           /\ Pushed(a, S).res[a.rs + 1] = S
           /\ \A i \in 1..a.rs : Pushed(a, S).res[i] = a.res[i]
           /\ Pushed(a, S).ls = a.ls /\ Pushed(a, S).lvs = a.lvs /\ Pushed(a, S).ws = a.ws
           /\ Pushes(a, Pushed(a, S), S)
<1> DEFINE f == [a.res EXCEPT ![a.rs + 1] = S]
           b == Pushed(a, S)
<1>1. a.rs \in Nat /\ a.res \in [Nat -> SUBSET Register]
  BY LayoutIs
<1>2. f \in [Nat -> SUBSET Register] /\ f[a.rs + 1] = S /\ \A i \in 1..a.rs : f[i] = a.res[i]
  BY <1>1
<1>3. b = [rs |-> a.rs + 1, res |-> f, ls |-> a.ls, lvs |-> a.lvs, ws |-> a.ws]
  BY DEF Pushed
<1>4. b.rs = a.rs + 1 /\ b.res = f /\ b.ls = a.ls /\ b.lvs = a.lvs /\ b.ws = a.ws
  BY DEF Pushed
<1> HIDE DEF f
<1>5. b \in Layout
  BY <1>1, <1>2, <1>3, LayoutIs DEF Layout
<1> HIDE DEF b
<1>6. Pushes(a, b, S)
  BY <1>2, <1>4 DEF Pushes, Within, OnlyResults
<1>7. /\ b.rs = a.rs + 1 /\ b.res[a.rs + 1] = S
      /\ \A i \in 1..a.rs : b.res[i] = a.res[i]
      /\ b.ls = a.ls /\ b.lvs = a.lvs /\ b.ws = a.ws
  BY <1>2, <1>4
<1> QED
  BY <1>5, <1>6, <1>7 DEF b

\* A layout that allows another result to be pushed is as wide as the pushed one.
LEMMA PushesIsWider ==
    ASSUME NEW a \in Layout, NEW b \in Layout, NEW S \in SUBSET Register, Pushes(a, b, S)
    PROVE  Wider(Pushed(a, S), b)
<1> PICK c \in Layout : c = Pushed(a, S)
  BY PushedIs
<1>1. /\ c.rs = a.rs + 1 /\ c.res[a.rs + 1] = S /\ \A i \in 1..a.rs : c.res[i] = a.res[i]
      /\ c.ls = a.ls /\ c.lvs = a.lvs /\ c.ws = a.ws
  BY PushedIs
<1>2. a.rs \in Nat
  BY LayoutIs
<1>3. /\ b.rs = a.rs + 1 /\ Within(a.res, b.res, a.rs) /\ S \subseteq b.res[a.rs + 1]
      /\ OnlyResults(a, b)
  BY DEF Pushes
<1>4. \A i \in 1..c.rs : c.res[i] \subseteq b.res[i]
  <2>1. \A i \in 1..c.rs : i \in 1..a.rs \/ i = a.rs + 1
    BY <1>1, <1>2
  <2> QED
    BY <1>1, <1>3, <2>1 DEF Within
<1> QED
  BY <1>1, <1>3, <1>4 DEF Wider, Within, OnlyResults

\* What tasks for values do.
LEMMA ValueRuns ==
    ASSUME NEW a \in Layout, NEW b \in Layout, NEW path, NEW e, NEW m
    PROVE  /\ TaskRuns(Compile(path, e, m), a, b) <=> Pushes(a, b, m \cup {NoRegister})
           /\ \A to : TaskRuns(Casted(path, e, m, to), a, b) <=> Pushes(a, b, m \cup {NoRegister})
<1>1. TaskRuns(Compile(path, e, m), a, b) <=> Pushes(a, b, m \cup {NoRegister})
  <2>1. Compile(path, e, m).op = "value" /\ Compile(path, e, m).m = m
    BY DEF Compile
  <2> QED
    BY <2>1 DEF TaskRuns
<1>2. ASSUME NEW to
      PROVE  TaskRuns(Casted(path, e, m, to), a, b) <=> Pushes(a, b, m \cup {NoRegister})
  <2>1. Casted(path, e, m, to).op = "casted" /\ Casted(path, e, m, to).m = m
    BY DEF Casted
  <2> QED
    BY <2>1 DEF TaskRuns
<1> QED
  BY <1>1, <1>2

\* The remainders of handlers.
LEMMA RemainderRuns ==
    ASSUME NEW a, NEW b, NEW path, NEW e
    PROVE  /\ \A op \in {"scale", "load"} :
                 TaskRuns(Remainder(op, path, e), a, b) <=> a.rs >= 1 /\ Wider(a, b)
           /\ TaskRuns(Remainder("add_offset", path, e), a, b)
                 <=> Combines(a, b, a.res[a.rs]) /\ b.ws = a.ws
<1>1. \A op : Remainder(op, path, e).op = op
  BY DEF Remainder
<1>2. \A op \in {"scale", "load"} :
         TaskRuns(Remainder(op, path, e), a, b) <=> a.rs >= 1 /\ Wider(a, b)
  BY <1>1 DEF TaskRuns
<1>3. TaskRuns(Remainder("add_offset", path, e), a, b)
         <=> Combines(a, b, a.res[a.rs]) /\ b.ws = a.ws
  BY <1>1 DEF TaskRuns
<1> QED
  BY <1>2, <1>3

\* Both operands of a binary operation, in either order.
HasOperands(c, a, e, S) ==
    /\ c.rs = a.rs + 2 /\ \A i \in 1..a.rs : c.res[i] = a.res[i]
    /\ c.res[LhsAt(e, c.rs)] = S
    /\ c.ls = a.ls /\ c.lvs = a.lvs /\ c.ws = a.ws

LEMMA OperandsRun ==
    ASSUME NEW e, NEW path, NEW l, l \subseteq Any, NEW r, r \subseteq Any, NEW a \in Layout
    PROVE  \E c \in Layout :
              /\ Effect(Operands(path, e, l, r), a, c)
              /\ HasOperands(c, a, e, l \cup {NoRegister})
              /\ RhsFirst(e) => c.res[c.rs - 1] \subseteq r \cup {NoRegister}
<1> DEFINE L == l \cup {NoRegister}
           R1 == (r \ {"RAX"}) \cup {NoRegister}
           R2 == (Any \ {"RAX"}) \cup {NoRegister}
<1>1. L \in SUBSET Register /\ R1 \in SUBSET Register /\ R2 \in SUBSET Register
  BY RegistersAre DEF Register
<1>2. a.rs \in Nat
  BY LayoutIs
<1>3. CASE RhsFirst(e)
  <2> DEFINE t == Casted(Kid(path, 2), e.kids[2], r \ {"RAX"}, 8)
             u == Casted(Kid(path, 1), e.kids[1], l, 8)
  <2>1. PICK b \in Layout : b = Pushed(a, R1)
    BY <1>1, PushedIs
  <2>2. PICK c \in Layout : c = Pushed(b, L)
    BY <1>1, PushedIs
  <2>3. /\ b.rs = a.rs + 1 /\ b.res[a.rs + 1] = R1 /\ \A i \in 1..a.rs : b.res[i] = a.res[i]
        /\ b.ls = a.ls /\ b.lvs = a.lvs /\ b.ws = a.ws /\ Pushes(a, b, R1)
    BY <1>1, <2>1, PushedIs
  <2>4. /\ c.rs = b.rs + 1 /\ c.res[b.rs + 1] = L /\ \A i \in 1..b.rs : c.res[i] = b.res[i]
        /\ c.ls = b.ls /\ c.lvs = b.lvs /\ c.ws = b.ws /\ Pushes(b, c, L)
    BY <1>1, <2>2, PushedIs
  <2>5. TaskRuns(t, a, b) /\ TaskRuns(u, b, c)
    BY <2>3, <2>4, ValueRuns
  <2>6. Operands(path, e, l, r) = <<t, u>>
    BY <1>3 DEF Operands
  <2> HIDE DEF t, u, L, R1, R2
  <2>7. Effect(Operands(path, e, l, r), a, c)
    BY <2>5, <2>6, EffectTwo
  <2>8. LhsAt(e, c.rs) = a.rs + 2 /\ c.rs = a.rs + 2 /\ b.rs + 1 = a.rs + 2
    BY <1>2, <1>3, <2>3, <2>4 DEF LhsAt
  <2>9. \A i \in 1..a.rs : c.res[i] = a.res[i]
    BY <1>2, <2>3, <2>4
  <2>10. c.res[LhsAt(e, c.rs)] = L
    BY <2>4, <2>8
  <2>11. c.res[c.rs - 1] \subseteq r \cup {NoRegister}
    <3>1. c.rs - 1 = a.rs + 1 /\ a.rs + 1 \in 1..b.rs
      BY <1>2, <2>3, <2>4
    <3>2. c.res[c.rs - 1] = R1
      BY <2>3, <2>4, <3>1
    <3> QED
      BY <3>2 DEF R1
  <2> QED
    BY <2>3, <2>4, <2>7, <2>8, <2>9, <2>10, <2>11 DEF L, HasOperands
<1>4. CASE ~RhsFirst(e)
  <2> DEFINE t == Casted(Kid(path, 1), e.kids[1], l, 8)
             u == Casted(Kid(path, 2), e.kids[2], Any \ {"RAX"}, 8)
  <2>1. PICK b \in Layout : b = Pushed(a, L)
    BY <1>1, PushedIs
  <2>2. PICK c \in Layout : c = Pushed(b, R2)
    BY <1>1, PushedIs
  <2>3. /\ b.rs = a.rs + 1 /\ b.res[a.rs + 1] = L /\ \A i \in 1..a.rs : b.res[i] = a.res[i]
        /\ b.ls = a.ls /\ b.lvs = a.lvs /\ b.ws = a.ws /\ Pushes(a, b, L)
    BY <1>1, <2>1, PushedIs
  <2>4. /\ c.rs = b.rs + 1 /\ \A i \in 1..b.rs : c.res[i] = b.res[i]
        /\ c.ls = b.ls /\ c.lvs = b.lvs /\ c.ws = b.ws /\ Pushes(b, c, R2)
    BY <1>1, <2>2, PushedIs
  <2>5. TaskRuns(t, a, b) /\ TaskRuns(u, b, c)
    BY <2>3, <2>4, ValueRuns
  <2>6. Operands(path, e, l, r) = <<t, u>>
    BY <1>4 DEF Operands
  <2> HIDE DEF t, u, L, R1, R2
  <2>7. Effect(Operands(path, e, l, r), a, c)
    BY <2>5, <2>6, EffectTwo
  <2>8. LhsAt(e, c.rs) = a.rs + 1 /\ c.rs = a.rs + 2 /\ a.rs + 1 \in 1..b.rs
    BY <1>2, <1>4, <2>3, <2>4 DEF LhsAt
  <2>9. \A i \in 1..a.rs : c.res[i] = a.res[i]
    BY <1>2, <2>3, <2>4
  <2>10. c.res[LhsAt(e, c.rs)] = L
    BY <2>3, <2>4, <2>8
  <2> QED
    BY <1>4, <2>3, <2>4, <2>7, <2>8, <2>9, <2>10 DEF L, HasOperands
<1> QED
  BY <1>3, <1>4

\* The index, scaled, and the array: one result, the address.
LEMMA OffsetRuns ==
    ASSUME NEW e, NEW path, NEW m, m \subseteq Any, NEW a \in Layout
    PROVE  Effect(Offset(path, e, m), a, Pushed(a, m \cup {NoRegister}))
<1> DEFINE M == m \cup {NoRegister}
           I == RhsMask(m) \cup {NoRegister}
           t == Casted(Kid(path, 2), e.kids[2], RhsMask(m), 8)
           u == Remainder("scale", path, e)
           v == Compile(Kid(path, 1), e.kids[1], m)
           w == Remainder("add_offset", path, e)
<1>1. M \in SUBSET Register /\ I \in SUBSET Register
  BY RegistersAre, MasksAre DEF Register
<1>2. a.rs \in Nat
  BY LayoutIs
<1>3. PICK b \in Layout : b = Pushed(a, I)
  BY <1>1, PushedIs
<1>4. PICK c \in Layout : c = Pushed(b, M)
  BY <1>1, PushedIs
<1>5. PICK d \in Layout : d = Pushed(a, M)
  BY <1>1, PushedIs
<1>6. /\ b.rs = a.rs + 1 /\ \A i \in 1..a.rs : b.res[i] = a.res[i]
      /\ b.ls = a.ls /\ b.lvs = a.lvs /\ b.ws = a.ws /\ Pushes(a, b, I)
  BY <1>1, <1>3, PushedIs
<1>7. /\ c.rs = b.rs + 1 /\ c.res[b.rs + 1] = M /\ \A i \in 1..b.rs : c.res[i] = b.res[i]
      /\ c.ls = b.ls /\ c.lvs = b.lvs /\ c.ws = b.ws /\ Pushes(b, c, M)
  BY <1>1, <1>4, PushedIs
<1>8. /\ d.rs = a.rs + 1 /\ d.res[a.rs + 1] = M /\ \A i \in 1..a.rs : d.res[i] = a.res[i]
      /\ d.ls = a.ls /\ d.lvs = a.lvs /\ d.ws = a.ws
  BY <1>1, <1>5, PushedIs
<1>9. TaskRuns(t, a, b) /\ TaskRuns(v, b, c)
  BY <1>6, <1>7, ValueRuns
<1>10. Offset(path, e, m) = <<t, u, v, w>>
  BY DEF Offset
<1>11. TaskRuns(u, b, b) <=> b.rs >= 1 /\ Wider(b, b)
  BY RemainderRuns
<1>12. TaskRuns(w, c, d) <=> Combines(c, d, c.res[c.rs]) /\ d.ws = c.ws
  BY RemainderRuns
<1> HIDE DEF M, I, t, u, v, w
<1>13. TaskRuns(u, b, b)
  <2>1. b.rs >= 1
    BY <1>2, <1>6
  <2> QED
    BY <1>11, <2>1 DEF Wider, OnlyResults, Within
<1>14. TaskRuns(w, c, d)
  <2>1. c.rs = a.rs + 2 /\ c.rs >= 2 /\ d.rs = c.rs - 1 /\ c.rs - 2 = a.rs
    BY <1>2, <1>6, <1>7, <1>8
  <2>2. c.res[c.rs] = M /\ d.res[d.rs] = M
    BY <1>2, <1>7, <1>8
  <2>3. \A i \in 1..a.rs : c.res[i] = a.res[i]
    BY <1>2, <1>6, <1>7
  <2> QED
    BY <1>6, <1>7, <1>8, <1>12, <2>1, <2>2, <2>3 DEF Combines, Within
<1>15. Effect(<<t, u, v, w>>, a, d)
  BY <1>9, <1>13, <1>14, EffectFour
<1> QED
  BY <1>5, <1>10, <1>15 DEF M

\* The layout a with k arguments of the call e above it.
Argued(a, e, k) ==
    [rs |-> a.rs + k,
     res |-> [i \in Nat |-> IF i <= a.rs THEN a.res[i] ELSE Arguments(e) \cup {NoRegister}],
     ls |-> a.ls, lvs |-> a.lvs, ws |-> a.ws]

LEMMA ArgumentsAre ==
    ASSUME NEW e \in Expr, e.kind = "call"
    PROVE  /\ Arguments(e) \cup {NoRegister} \in SUBSET Register
           /\ Len(e.kids) \in Nat
           /\ \A i \in 1..Len(e.kids) : ArgRegister[i] \in Arguments(e)
<1>0. PICK n : n = Len(e.kids)
  OBVIOUS
<1>1. n \in 0..6 /\ n \in Nat /\ DOMAIN e.params = 1..n
  BY <1>0, KidsAre
<1>2. \A i \in 1..n : i \in 1..6
  BY <1>1
<1>3. Arguments(e) \subseteq Register
  BY <1>1, <1>2, RegistersAre DEF Arguments
<1>4. \A i \in 1..n : ArgRegister[i] \in Arguments(e)
  BY <1>1 DEF Arguments
<1> QED
  BY <1>0, <1>1, <1>3, <1>4 DEF Register

HasArguments(b, a, e, k) ==
    /\ b.rs = a.rs + k /\ \A i \in 1..a.rs : b.res[i] = a.res[i]
    /\ \A i \in a.rs + 1 .. a.rs + k : b.res[i] = Arguments(e) \cup {NoRegister}
    /\ b.ls = a.ls /\ b.lvs = a.lvs /\ b.ws = a.ws

LEMMA ArguedIs ==
    ASSUME NEW e \in Expr, e.kind = "call", NEW a \in Layout, NEW k \in Nat
    PROVE  Argued(a, e, k) \in Layout /\ HasArguments(Argued(a, e, k), a, e, k)
<1> DEFINE S == Arguments(e) \cup {NoRegister}
           f == [i \in Nat |-> IF i <= a.rs THEN a.res[i] ELSE S]
           b == Argued(a, e, k)
<1>1. a.rs \in Nat /\ a.res \in [Nat -> SUBSET Register] /\ S \in SUBSET Register
  BY LayoutIs, ArgumentsAre
<1>2. b = [rs |-> a.rs + k, res |-> f, ls |-> a.ls, lvs |-> a.lvs, ws |-> a.ws]
  BY DEF Argued
<1>3. b.rs = a.rs + k /\ b.res = f /\ b.ls = a.ls /\ b.lvs = a.lvs /\ b.ws = a.ws
  BY DEF Argued
<1> HIDE DEF b, S
<1>4. /\ f \in [Nat -> SUBSET Register]
      /\ \A i \in 1..a.rs : f[i] = a.res[i]
      /\ \A i \in a.rs + 1 .. a.rs + k : f[i] = S
  BY <1>1
<1> HIDE DEF f
<1>5. b \in Layout
  BY <1>1, <1>2, <1>4, LayoutIs DEF Layout
<1> QED
  BY <1>3, <1>4, <1>5 DEF b, S, HasArguments

LEMMA ArguedStep ==
    ASSUME NEW e \in Expr, e.kind = "call", NEW a \in Layout, NEW k \in Nat, k >= 1
    PROVE  Pushes(Argued(a, e, k - 1), Argued(a, e, k), Arguments(e) \cup {NoRegister})
<1> DEFINE S == Arguments(e) \cup {NoRegister}
<1>1. PICK j : j = k - 1
  OBVIOUS
<1>2. j \in Nat /\ k = j + 1 /\ a.rs \in Nat
  BY <1>1, LayoutIs
<1>3. PICK b \in Layout : b = Argued(a, e, j) /\ HasArguments(b, a, e, j)
  BY <1>2, ArguedIs
<1>4. PICK c \in Layout : c = Argued(a, e, k) /\ HasArguments(c, a, e, k)
  BY ArguedIs
<1>5. /\ b.rs = a.rs + j /\ \A i \in 1..a.rs : b.res[i] = a.res[i]
      /\ \A i \in a.rs + 1 .. a.rs + j : b.res[i] = S
      /\ b.ls = a.ls /\ b.lvs = a.lvs /\ b.ws = a.ws
  BY <1>3 DEF HasArguments
<1>6. /\ c.rs = a.rs + k /\ \A i \in 1..a.rs : c.res[i] = a.res[i]
      /\ \A i \in a.rs + 1 .. a.rs + k : c.res[i] = S
      /\ c.ls = a.ls /\ c.lvs = a.lvs /\ c.ws = a.ws
  BY <1>4 DEF HasArguments
<1> HIDE DEF S
<1>7. c.rs = b.rs + 1 /\ c.res[c.rs] = S
  BY <1>2, <1>5, <1>6
<1>8. ASSUME NEW i \in 1..b.rs PROVE b.res[i] \subseteq c.res[i]
  <2>1. i \in 1..a.rs \/ (i \in a.rs + 1 .. a.rs + j /\ i \in a.rs + 1 .. a.rs + k)
    BY <1>2, <1>5
  <2> QED
    BY <1>5, <1>6, <2>1
<1>9. Pushes(b, c, S)
  BY <1>5, <1>6, <1>7, <1>8 DEF Pushes, Within, OnlyResults
<1> QED
  BY <1>1, <1>3, <1>4, <1>9 DEF S

\* The arguments of a call, in any order: each goes to the register of its place.
LEMMA ArgumentsRun ==
    ASSUME NEW e \in Expr, e.kind = "call", NEW path, NEW order \in ArgumentOrders(e),
           NEW a \in Layout, NEW tasks,
           tasks = [i \in DOMAIN order |->
                       Casted(Kid(path, order[i]), e.kids[order[i]],
                              {ArgRegister[order[i]]}, e.params[order[i]])]
    PROVE  Effect(tasks, Argued(a, e, 0), Argued(a, e, Len(e.kids)))
<1> DEFINE task(i) == Casted(Kid(path, order[i]), e.kids[order[i]],
                             {ArgRegister[order[i]]}, e.params[order[i]])
<1>0. PICK n : n = Len(e.kids)
  OBVIOUS
<1>1. n \in Nat /\ order \in [1..n -> 1..n]
  BY <1>0, ArgumentsAre DEF ArgumentOrders
<1>2. Len(tasks) = n /\ \A i \in 1..n : tasks[i] = task(i)
  <2>1. DOMAIN tasks = 1..n /\ \A i \in 1..n : tasks[i] = task(i)
    BY <1>1
  <2> DEFINE S == {task(i) : i \in 1..n}
  <2>2. tasks \in [1..n -> S]
    BY <1>1
  <2> HIDE DEF S, task
  <2>3. n \in Nat /\ DOMAIN tasks = 1..n
    BY <1>1, <2>1
  <2>4. Len(tasks) = n
    BY ONLY <2>2, <2>3
  <2> QED
    BY <2>1, <2>4
<1> DEFINE h == [k \in 1..n + 1 |-> Argued(a, e, k - 1)]
<1>3. \A k \in 1..n + 1 : k - 1 \in Nat
  BY <1>1
<1>4. h \in [1..n + 1 -> Layout] /\ \A k \in 1..n + 1 : h[k] = Argued(a, e, k - 1)
  BY <1>3, ArguedIs
<1> HIDE DEF h
<1>5. h[1] = Argued(a, e, 0) /\ h[n + 1] = Argued(a, e, n)
  <2>1. 1 \in 1..n + 1 /\ n + 1 \in 1..n + 1 /\ 1 - 1 = 0 /\ (n + 1) - 1 = n
    BY <1>1
  <2> QED
    BY <1>4, <2>1
<1>6. ASSUME NEW k \in 1..n
      PROVE  TaskRuns(tasks[k], h[k], h[k + 1])
  <2>1. h[k] = Argued(a, e, k - 1) /\ h[k + 1] = Argued(a, e, k)
    <3>1. k \in 1..n + 1 /\ k + 1 \in 1..n + 1 /\ (k + 1) - 1 = k
      BY <1>1
    <3> QED
      BY <1>4, <3>1
  <2>2. PICK b \in Layout, c \in Layout :
          b = h[k] /\ c = h[k + 1] /\ Pushes(b, c, Arguments(e) \cup {NoRegister})
    <3>1. k \in Nat /\ k >= 1 /\ k - 1 \in Nat
      OBVIOUS
    <3> QED
      BY <2>1, <3>1, ArguedIs, ArguedStep
  <2>3. {ArgRegister[order[k]]} \cup {NoRegister} \subseteq Arguments(e) \cup {NoRegister}
    BY <1>0, <1>1, ArgumentsAre
  <2>4. Pushes(b, c, {ArgRegister[order[k]]} \cup {NoRegister})
    BY <2>2, <2>3 DEF Pushes
  <2>9. TaskRuns(task(k), b, c)
    BY <2>4, ValueRuns
  <2> HIDE DEF task
  <2> QED
    BY <1>2, <2>2, <2>9
<1> HIDE DEF task
<1> QED
  BY <1>0, <1>2, <1>4, <1>5, <1>6 DEF Effect

------------------------------------------------------------------------------
(* The stacks follow their layouts.                                        *)

ResultsFit(a) == Len(results) = a.rs /\ \A i \in 1..a.rs : results[i] \in a.res[i]
OperandsFit(a) == Len(lvalues) = a.ls /\ \A i \in 1..a.ls : lvalues[i] \in a.lvs[i]
StackFits(a) == Len(stack) = a.ws /\ \E S : stack \in Seq(S)

LEMMA FitsIs ==
    ASSUME NEW a
    PROVE  /\ Fits(a) <=> ResultsFit(a) /\ OperandsFit(a) /\ StackFits(a)
           /\ (ResultsFit(a) /\ OperandsFit(a) /\ StackFits(a))' => Fits(a)'
BY DEF Fits, ResultsFit, OperandsFit, StackFits

LEMMA OthersFit ==
    ASSUME NEW a, NEW b, Fits(a)
    PROVE  /\ UNCHANGED results /\ b.rs = a.rs /\ Within(a.res, b.res, a.rs) => ResultsFit(b)'
           /\ UNCHANGED lvalues /\ b.ls = a.ls /\ Within(a.lvs, b.lvs, a.ls) => OperandsFit(b)'
           /\ UNCHANGED stack /\ b.ws = a.ws => StackFits(b)'
BY DEF Fits, ResultsFit, OperandsFit, StackFits, Within

LEMMA OneMoreFits ==
    ASSUME NEW a \in Layout, NEW b, Fits(a), results \in Seq(Free), NEW r \in Free,
           results' = Append(results, r),
           b.rs = a.rs + 1, Within(a.res, b.res, a.rs), r \in b.res[b.rs]
    PROVE  ResultsFit(b)'
<1>1. /\ Len(results') = Len(results) + 1 /\ results'[Len(results) + 1] = r
      /\ \A i \in 1..Len(results) : results'[i] = results[i]
  BY AppendProperties
<1>2. a.rs \in Nat /\ Len(results) = a.rs /\ \A i \in 1..a.rs : results[i] \in a.res[i]
  BY LayoutIs DEF Fits
<1>3. \A i \in 1..b.rs : results'[i] \in b.res[i]
  <2>1. \A i \in 1..b.rs : i \in 1..a.rs \/ i = a.rs + 1
    BY <1>2
  <2> QED
    BY <1>1, <1>2, <2>1 DEF Within
<1> QED
  BY <1>1, <1>2, <1>3 DEF ResultsFit

\* What is left when n results are taken.
LEMMA BelowIs ==
    ASSUME NEW S, NEW s \in Seq(S), NEW n \in Nat, Len(s) >= n
    PROVE  /\ SubSeq(s, 1, Len(s) - n) \in Seq(S)
           /\ Len(SubSeq(s, 1, Len(s) - n)) = Len(s) - n /\ Len(s) \in Nat
           /\ \A i \in 1..Len(s) - n : SubSeq(s, 1, Len(s) - n)[i] = s[i]
<1>1. PICK m : m = Len(s) - n
  OBVIOUS
<1>2. Len(s) \in Nat /\ m \in Nat /\ 1 \in Int /\ m \in Int
  BY <1>1, LenProperties
<1>3. SubSeq(s, 1, m) \in Seq(S)
  BY <1>1, Prefixes
<1>4. \A i \in 1..m : s[i] \in S
  BY <1>1, <1>2, ElementOfSeq
<1>5. /\ Len(SubSeq(s, 1, m)) = IF 1 <= m THEN m - 1 + 1 ELSE 0
      /\ \A i \in 1..m - 1 + 1 : SubSeq(s, 1, m)[i] = s[1 + i - 1]
  BY <1>2, <1>4, SubSeqProperties
<1>6. Len(SubSeq(s, 1, m)) = m /\ \A i \in 1..m : SubSeq(s, 1, m)[i] = s[i]
  <2>1. \A i \in 1..m : i \in 1..m - 1 + 1 /\ 1 + i - 1 = i
    BY <1>2
  <2> QED
    BY <1>2, <1>5, <2>1
<1> QED
  BY <1>1, <1>2, <1>3, <1>6

LEMMA BelowFits ==
    ASSUME NEW a \in Layout, NEW b, Fits(a), results \in Seq(Free), NEW n \in Nat, a.rs >= n,
           results' = SubSeq(results, 1, Len(results) - n),
           b.rs = a.rs - n, Within(a.res, b.res, b.rs)
    PROVE  ResultsFit(b)'
<1>1. a.rs \in Nat /\ Len(results) = a.rs /\ \A i \in 1..a.rs : results[i] \in a.res[i]
  BY LayoutIs DEF Fits
<1>2. /\ Len(results') = b.rs
      /\ \A i \in 1..b.rs : results'[i] = results[i]
  BY <1>1, BelowIs
<1>3. \A i \in 1..b.rs : i \in 1..a.rs
  BY <1>1
<1> QED
  BY <1>1, <1>2, <1>3 DEF ResultsFit, Within

LEMMA CombinedFits ==
    ASSUME NEW a \in Layout, NEW b, Fits(a), results \in Seq(Free), NEW n \in Nat, a.rs >= n,
           NEW r \in Free, results' = Append(SubSeq(results, 1, Len(results) - n), r),
           b.rs = a.rs - n + 1, Within(a.res, b.res, a.rs - n), r \in b.res[b.rs]
    PROVE  ResultsFit(b)'
<1>1. a.rs \in Nat /\ Len(results) = a.rs /\ \A i \in 1..a.rs : results[i] \in a.res[i]
  BY LayoutIs DEF Fits
<1>2. PICK m : m = a.rs - n
  OBVIOUS
<1>3. m \in Nat /\ \A i \in 1..m : i \in 1..a.rs
  BY <1>1, <1>2
<1>4. PICK s \in Seq(Free) :
        /\ s = SubSeq(results, 1, Len(results) - n)
        /\ Len(s) = m /\ \A i \in 1..m : s[i] = results[i]
  <2>1. Len(results) >= n /\ Len(results) - n = m
    BY <1>1, <1>2
  <2>2. /\ SubSeq(results, 1, Len(results) - n) \in Seq(Free)
        /\ Len(SubSeq(results, 1, Len(results) - n)) = Len(results) - n
        /\ \A i \in 1..Len(results) - n :
              SubSeq(results, 1, Len(results) - n)[i] = results[i]
    BY <2>1, BelowIs
  <2> QED
    BY <2>1, <2>2
<1>5. /\ Len(results') = m + 1 /\ results'[m + 1] = r
      /\ \A i \in 1..m : results'[i] = results[i]
  BY <1>4, AppendProperties
<1>6. ASSUME NEW i \in 1..m + 1 PROVE results'[i] \in b.res[i]
  <2>1. i \in 1..m \/ i = m + 1
    BY <1>3
  <2> QED
    BY <1>1, <1>2, <1>3, <1>5, <2>1 DEF Within
<1> QED
  BY <1>2, <1>5, <1>6 DEF ResultsFit

LEMMA OperandMoreFits ==
    ASSUME NEW a \in Layout, NEW b, Fits(a), NEW T, lvalues \in Seq(T), NEW r \in T,
           r \in Register, lvalues' = Append(lvalues, r), PushesOperand(a, b)
    PROVE  OperandsFit(b)'
<1>1. /\ Len(lvalues') = Len(lvalues) + 1 /\ lvalues'[Len(lvalues) + 1] = r
      /\ \A i \in 1..Len(lvalues) : lvalues'[i] = lvalues[i]
  BY AppendProperties
<1>2. a.ls \in Nat /\ Len(lvalues) = a.ls /\ \A i \in 1..a.ls : lvalues[i] \in a.lvs[i]
  BY LayoutIs DEF Fits
<1>3. b.ls = a.ls + 1 /\ Within(a.lvs, b.lvs, a.ls) /\ r \in b.lvs[a.ls + 1]
  BY DEF PushesOperand
<1>4. \A i \in 1..b.ls : lvalues'[i] \in b.lvs[i]
  <2>1. \A i \in 1..b.ls : i \in 1..a.ls \/ i = a.ls + 1
    BY <1>2, <1>3
  <2> QED
    BY <1>1, <1>2, <1>3, <2>1 DEF Within
<1> QED
  BY <1>1, <1>2, <1>3, <1>4 DEF OperandsFit

LEMMA OperandLessFits ==
    ASSUME NEW a \in Layout, NEW b, Fits(a), NEW T, lvalues \in Seq(T), lvalues' = Front(lvalues),
           a.ls >= 1, b.ls = a.ls - 1, Within(a.lvs, b.lvs, b.ls)
    PROVE  OperandsFit(b)'
<1>1. a.ls \in Nat /\ Len(lvalues) = a.ls /\ \A i \in 1..a.ls : lvalues[i] \in a.lvs[i]
  BY LayoutIs DEF Fits
<1>2. Len(lvalues') = b.ls /\ \A i \in 1..b.ls : lvalues'[i] = lvalues[i]
  <2>1. 1 \in Nat /\ Len(lvalues) >= 1
    BY <1>1
  <2> QED
    BY <1>1, <2>1, BelowIs DEF Front
<1>3. \A i \in 1..b.ls : i \in 1..a.ls
  BY <1>1
<1> QED
  BY <1>1, <1>2, <1>3 DEF OperandsFit, Within

\* The machine's stack grows and shrinks by what is saved.
LEMMA StackGrows ==
    ASSUME NEW a \in Layout, NEW b, Fits(a), NEW T, NEW s \in Seq(T), stack' = stack \o s,
           b.ws = a.ws + Len(s)
    PROVE  StackFits(b)'
<1>1. PICK S : stack \in Seq(S)
  BY DEF Fits
<1>2. stack \in Seq(S \cup T) /\ s \in Seq(S \cup T)
  BY <1>1, SeqMonotonic
<1>3. stack' \in Seq(S \cup T) /\ Len(stack') = Len(stack) + Len(s)
  BY <1>2, ConcatProperties
<1> QED
  BY <1>3 DEF Fits, StackFits

LEMMA StackShrinks ==
    ASSUME NEW a \in Layout, NEW b \in Layout, Fits(a), NEW n \in Nat,
           stack' = SubSeq(stack, 1, Len(stack) - n), a.ws = b.ws + n
    PROVE  StackFits(b)'
<1>1. PICK S : stack \in Seq(S)
  BY DEF Fits
<1>2. Len(stack) = a.ws /\ a.ws \in Nat /\ b.ws \in Nat
  BY LayoutIs DEF Fits
<1>3. Len(stack) >= n
  BY <1>2
<1>4. stack' \in Seq(S) /\ Len(stack') = Len(stack) - n
  BY <1>1, <1>3, BelowIs
<1>5. Len(stack') = b.ws
  BY <1>2, <1>4
<1> QED
  BY <1>4, <1>5 DEF StackFits

------------------------------------------------------------------------------
(* Registers in use.                                                       *)

\* q belongs to something that waits below the last n results.
Waits(q, n) ==
    \/ q \in Reserved
    \/ \E i \in 1..Len(results) - n : results[i] = q
    \/ \E i \in 1..Len(lvalues) : lvalues[i] = q

LEMMA UsedWaits ==
    ASSUME UsedInv, results \in Seq(Free), NEW n \in Nat, Len(results) >= n, NEW q \in used,
           \A i \in Len(results) - n + 1 .. Len(results) : results[i] # q
    PROVE  Waits(q, n)
<1>1. Len(results) \in Nat
  BY LenProperties
<1>2. \A i \in 1..Len(results) : \/ i \in 1..Len(results) - n
                                 \/ i \in Len(results) - n + 1 .. Len(results)
  BY <1>1
<1>3. CASE q \in Reserved \/ \E i \in 1..Len(lvalues) : lvalues[i] = q
  BY <1>3 DEF Waits
<1>4. CASE \E i \in 1..Len(results) : results[i] = q
  BY <1>2, <1>4 DEF Waits
<1> QED
  BY <1>3, <1>4 DEF UsedInv

LEMMA CombinedUsed ==
    ASSUME results \in Seq(Free), NEW n \in Nat, Len(results) >= n, NEW r \in Free,
           results' = Append(SubSeq(results, 1, Len(results) - n), r), lvalues' = lvalues,
           NoRegister \notin used', \A q \in used' : q = r \/ Waits(q, n)
    PROVE  UsedInv'
<1>1. PICK m : m = Len(results) - n
  OBVIOUS
<1>2. PICK s \in Seq(Free) :
        /\ s = SubSeq(results, 1, Len(results) - n)
        /\ Len(s) = m /\ \A i \in 1..m : s[i] = results[i]
  <2>1. /\ SubSeq(results, 1, Len(results) - n) \in Seq(Free)
        /\ Len(SubSeq(results, 1, Len(results) - n)) = Len(results) - n
        /\ \A i \in 1..Len(results) - n :
              SubSeq(results, 1, Len(results) - n)[i] = results[i]
    BY BelowIs
  <2> QED
    BY <1>1, <2>1
<1>3. m \in Nat
  BY <1>2, LenProperties
<1>4. /\ Len(results') = m + 1 /\ results'[m + 1] = r
      /\ \A i \in 1..m : results'[i] = results[i]
  BY <1>2, AppendProperties
<1>5. \A i \in 1..m : i \in 1..m + 1
  BY <1>3
<1>6. m + 1 \in 1..m + 1
  BY <1>3
<1>7. ASSUME NEW q \in used'
      PROVE  \/ q \in Reserved
             \/ \E i \in 1..Len(results') : results'[i] = q
             \/ \E i \in 1..Len(lvalues') : lvalues'[i] = q
  <2>1. CASE q = r
    BY <1>4, <1>6, <2>1
  <2>2. CASE Waits(q, n)
    BY <1>1, <1>4, <1>5, <2>2 DEF Waits
  <2> QED
    BY <2>1, <2>2
<1> QED
  BY <1>7 DEF UsedInv

LEMMA BelowUsed ==
    ASSUME results \in Seq(Free), NEW n \in Nat, Len(results) >= n,
           results' = SubSeq(results, 1, Len(results) - n), lvalues' = lvalues,
           NoRegister \notin used', \A q \in used' : Waits(q, n)
    PROVE  UsedInv'
<1>1. /\ Len(results') = Len(results) - n
      /\ \A i \in 1..Len(results) - n : results'[i] = results[i]
  BY BelowIs
<1> QED
  BY <1>1 DEF UsedInv, Waits

LEMMA OneMoreUsed ==
    ASSUME UsedInv, results \in Seq(Free), NEW r \in Free, results' = Append(results, r),
           lvalues' = lvalues, used' = Marked(r)
    PROVE  UsedInv'
<1>1. /\ Len(results') = Len(results) + 1 /\ results'[Len(results) + 1] = r
      /\ \A i \in 1..Len(results) : results'[i] = results[i]
      /\ Len(results) \in Nat
  BY AppendProperties, LenProperties
<1>2. \A i \in 1..Len(results) : i \in 1..Len(results')
  BY <1>1
<1>3. Len(results) + 1 \in 1..Len(results')
  BY <1>1
<1>4. \A q \in used' : q = r \/ q \in used
  BY DEF Marked
<1>5. NoRegister \notin used'
  BY DEF Marked, UsedInv
<1>6. ASSUME NEW q \in used'
      PROVE  \/ q \in Reserved
             \/ \E i \in 1..Len(results') : results'[i] = q
             \/ \E i \in 1..Len(lvalues') : lvalues'[i] = q
  <2>1. CASE q = r
    BY <1>1, <1>3, <2>1
  <2>2. CASE q \in used
    BY <1>1, <1>2, <2>2 DEF UsedInv
  <2> QED
    BY <1>4, <2>1, <2>2
<1> QED
  BY <1>5, <1>6 DEF UsedInv

LEMMA UsedStays ==
    ASSUME UsedInv, UNCHANGED <<results, lvalues>>, used' \subseteq used
    PROVE  UsedInv'
BY DEF UsedInv

------------------------------------------------------------------------------
(* The first task, and those that are left.                                *)

Emptied(z) == z.rs = 0 /\ z.ls = 0 /\ z.ws = 0

LEMMA HeadRuns ==
    ASSUME ReservedInv, HeightInv, todo # <<>>
    PROVE  \E a \in Layout, b \in Layout, z \in Layout :
              Fits(a) /\ TaskRuns(Top, a, b) /\ Effect(Rest, b, z) /\ Emptied(z)
<1>1. PICK S : todo \in Seq(S)
  BY DEF ReservedInv, AllTasks
<1>2. PICK a \in Layout, z \in Layout : Fits(a) /\ Effect(todo, a, z) /\ Emptied(z)
  BY DEF HeightInv, Emptied
<1>3. PICK b \in Layout : TaskRuns(todo[1], a, b) /\ Effect(Tail(todo), b, z)
  BY <1>1, <1>2, EffectFirst
<1> QED
  BY <1>2, <1>3 DEF Top, Rest

LEMMA TaskEnds ==
    ASSUME NEW b \in Layout, NEW z \in Layout, Effect(Rest, b, z), Emptied(z), todo' = Rest,
           Fits(b)'
    PROVE  HeightInv'
<1>1. Effect(todo', b, z)
  OBVIOUS
<1>2. Effect(todo, b, z)'
  BY <1>1 DEF Effect
<1> QED
  BY <1>2 DEF HeightInv, Emptied

LEMMA TasksFollow ==
    ASSUME ReservedInv, todo # <<>>, NEW tasks, IsSeq(tasks), NEW a \in Layout, NEW b \in Layout,
           NEW z \in Layout, Effect(tasks, a, b), Effect(Rest, b, z), Emptied(z),
           todo' = tasks \o Rest, Fits(a)'
    PROVE  HeightInv'
<1>1. IsSeq(Rest)
  BY FirstTask DEF ReservedInv, AllTasks, IsSeq
<1>2. Effect(todo', a, z)
  BY <1>1, EffectThen
<1>3. Effect(todo, a, z)'
  BY <1>2 DEF Effect
<1> QED
  BY <1>3 DEF HeightInv, Emptied

\* Tasks for the handler's own, and then the rest of its body.
LEMMA ThenLast ==
    ASSUME NEW tasks, IsSeq(tasks), NEW t, NEW a \in Layout, NEW b \in Layout, NEW c \in Layout,
           Effect(tasks, a, b), TaskRuns(t, b, c)
    PROVE  Effect(tasks \o <<t>>, a, c) /\ IsSeq(tasks \o <<t>>)
BY EffectOne, EffectThen, ListsAreSeqs

LEMMA OperandsAreSeqs ==
    ASSUME NEW path, NEW e
    PROVE  /\ \A l, r : IsSeq(Operands(path, e, l, r))
           /\ \A m : IsSeq(Offset(path, e, m))
<1>1. ASSUME NEW l, NEW r PROVE IsSeq(Operands(path, e, l, r))
  BY ListsAreSeqs DEF Operands
<1>2. ASSUME NEW m PROVE IsSeq(Offset(path, e, m))
  BY ListsAreSeqs DEF Offset
<1> QED
  BY <1>1, <1>2

------------------------------------------------------------------------------
(* Sets of registers to save. *)

LEMMA MaskFinite ==
    ASSUME NEW m, m \subseteq Any
    PROVE  IsFiniteSet(m) /\ Cardinality(m) \in Nat
<1>1. IsFiniteSet(Any)
  <2> DEFINE f == [i \in 1..17 |-> RegisterBits[i]]
  <2>1. f \in Surjection(1..17, Any)
    BY DEF Any, Surjection, Range
  <2>2. IsFiniteSet(1..17)
    <3>1. 1 \in Int /\ 17 \in Int
      OBVIOUS
    <3> QED
      BY <3>1, FS_Interval
  <2> QED
    BY <2>1, <2>2, FS_Surjection
<1> QED
  BY <1>1, FS_Subset, FS_CardinalityType

LEMMA VolatileFinite ==
    ASSUME NEW m, m \subseteq Volatile
    PROVE  IsFiniteSet(m) /\ Cardinality(m) \in Nat
BY MaskFinite, RegistersAre DEF Volatile

\* Every register of the set is pushed, once.
LEMMA SortedIs ==
    ASSUME NEW m, m \subseteq Volatile
    PROVE  Len(Sorted(m)) = Cardinality(m)
<1>1. PICK n : n = Cardinality(m)
  OBVIOUS
<1>2. n \in Nat
  BY <1>1, VolatileFinite
<1> DEFINE nth(k) == CHOOSE r \in m : Cardinality({s \in m : BitOf(s) <= BitOf(r)}) = k
           S == {nth(k) : k \in 1..n}
           s == [k \in 1..n |-> nth(k)]
<1>3. Sorted(m) = s
  BY <1>1 DEF Sorted
<1>4. s \in [1..n -> S]
  OBVIOUS
<1>5. DOMAIN s = 1..n
  OBVIOUS
<1> HIDE DEF s, S, nth
<1>6. Len(s) = n
  BY ONLY <1>2, <1>4, <1>5
<1> QED
  BY <1>1, <1>3, <1>6

------------------------------------------------------------------------------
(* The actions, in groups of one shape.                                    *)

\* A piece that ends: its task is one the layouts allow, and what it leaves fits.
LEMMA EndBalances ==
    ASSUME ReservedInv, HeightInv, todo # <<>>, todo' = Rest,
           \A a \in Layout, b \in Layout : Fits(a) /\ TaskRuns(Top, a, b) => Fits(b)'
    PROVE  HeightInv'
<1>1. PICK a \in Layout, b \in Layout, z \in Layout :
        Fits(a) /\ TaskRuns(Top, a, b) /\ Effect(Rest, b, z) /\ Emptied(z)
  BY HeadRuns
<1>2. Fits(b)'
  BY <1>1
<1> QED
  BY <1>1, <1>2, TaskEnds

\* Literals and variables.
LEMMA LeavesBalance ==
    ASSUME BalanceInv, CompileLeaf \/ CompileIntCasted
    PROVE  HeightInv' /\ UsedInv'
<1> DEFINE r == Available(Top.m)
<1>1. /\ todo # <<>> /\ todo' = Rest /\ Top.op \in {"value", "casted"}
      /\ used' = Marked(r) /\ results' = Append(results, r)
      /\ lvalues' = lvalues /\ stack' = stack
  BY DEF CompileLeaf, CompileIntCasted, Runs
<1>2. ReservedInv /\ HeightInv /\ UsedInv
  BY DEF BalanceInv
<1>3. results \in Seq(Free) /\ r \in Free /\ r \in Top.m \cup {NoRegister}
  BY <1>1, <1>2, FirstTask, AvailableIsFree DEF ReservedInv, TaskOK
<1> HIDE DEF r
<1>4. UsedInv'
  BY <1>1, <1>2, <1>3, OneMoreUsed
<1>5. ASSUME NEW a \in Layout, NEW b \in Layout, Fits(a), TaskRuns(Top, a, b)
      PROVE  Fits(b)'
  <2>1. /\ b.rs = a.rs + 1 /\ Within(a.res, b.res, a.rs) /\ r \in b.res[b.rs]
        /\ b.ls = a.ls /\ Within(a.lvs, b.lvs, a.ls) /\ b.ws = a.ws
    BY <1>1, <1>3, <1>5 DEF TaskRuns, Pushes, OnlyResults
  <2>2. ResultsFit(b)'
    BY <1>1, <1>3, <1>5, <2>1, OneMoreFits
  <2>3. OperandsFit(b)' /\ StackFits(b)'
    BY <1>1, <1>5, <2>1, OthersFit
  <2> QED
    BY <2>2, <2>3, FitsIs
<1>6. HeightInv'
  BY <1>1, <1>2, <1>5, EndBalances
<1> QED
  BY <1>4, <1>6

\* Pieces that work in the register they find.
LEMMA InPlaceBalances ==
    ASSUME BalanceInv, Cast \/ Scale \/ Load
    PROVE  HeightInv' /\ UsedInv'
<1>1. /\ todo # <<>> /\ todo' = Rest /\ Top.op \in {"cast", "scale", "load"}
      /\ UNCHANGED <<results, lvalues, used, stack>>
  BY DEF Cast, Scale, Load, Runs
<1>2. ReservedInv /\ HeightInv /\ UsedInv
  BY DEF BalanceInv
<1>3. UsedInv'
  BY <1>1, <1>2, UsedStays
<1>4. ASSUME NEW a \in Layout, NEW b \in Layout, Fits(a), TaskRuns(Top, a, b)
      PROVE  Fits(b)'
  <2>1. /\ b.rs = a.rs /\ Within(a.res, b.res, a.rs)
        /\ b.ls = a.ls /\ Within(a.lvs, b.lvs, a.ls) /\ b.ws = a.ws
    BY <1>1, <1>4 DEF TaskRuns, Wider, OnlyResults
  <2>2. ResultsFit(b)' /\ OperandsFit(b)' /\ StackFits(b)'
    BY <1>1, <1>4, <2>1, OthersFit
  <2> QED
    BY <2>2, FitsIs
<1>5. HeightInv'
  BY <1>1, <1>2, <1>4, EndBalances
<1> QED
  BY <1>3, <1>5

\* The operands of a binary operation are the last two results.
LEMMA LastTwo ==
    ASSUME results \in Seq(Free), Len(results) >= 2, NEW e
    PROVE  /\ LhsResult(e) = results[LhsAt(e, Len(results))]
           /\ LhsAt(e, Len(results)) \in 1..Len(results)
           /\ \A i \in Len(results) - 2 + 1 .. Len(results) :
                 results[i] \in {LhsResult(e), RhsResult(e)}
           /\ \A i \in Len(results) - 2 + 1 .. Len(results) :
                 i = Len(results) - 1 \/ i = Len(results)
<1>1. Len(results) \in Nat
  BY LenProperties
<1>2. \A i \in Len(results) - 2 + 1 .. Len(results) : i = Len(results) - 1 \/ i = Len(results)
  BY <1>1
<1>3. Len(results) - 0 = Len(results)
  BY <1>1
<1>4. /\ results[Len(results)] \in {LhsResult(e), RhsResult(e)}
      /\ results[Len(results) - 1] \in {LhsResult(e), RhsResult(e)}
  BY <1>3 DEF LhsResult, RhsResult
<1>5. \A i \in Len(results) - 2 + 1 .. Len(results) :
         results[i] \in {LhsResult(e), RhsResult(e)}
  BY <1>2, <1>4
<1>6. LhsResult(e) = results[LhsAt(e, Len(results))]
  BY DEF LhsResult, LhsAt
<1>7. LhsAt(e, Len(results)) \in 1..Len(results)
  BY <1>1 DEF LhsAt
<1> QED
  BY <1>2, <1>5, <1>6, <1>7

\* The end of a statement or a comparison frees what it took.
LEMMA EndsBalance ==
    ASSUME BalanceInv, EndStatement \/ EndCompare
    PROVE  HeightInv' /\ UsedInv'
<1>1. ReservedInv /\ HeightInv /\ UsedInv /\ results \in Seq(Free)
  BY DEF BalanceInv, ReservedInv
<1>2. PICK n \in {1, 2} :
        /\ todo # <<>> /\ todo' = Rest /\ Len(results) >= n
        /\ Top.op = IF n = 1 THEN "statement" ELSE "compare"
        /\ results' = SubSeq(results, 1, Len(results) - n)
        /\ used' \subseteq used /\ UNCHANGED <<lvalues, stack>>
        /\ \A i \in Len(results) - n + 1 .. Len(results) : results[i] \notin used'
  <2>1. CASE EndStatement
    <3>1. /\ todo # <<>> /\ todo' = Rest /\ Top.op = "statement" /\ results # <<>>
          /\ results' = Front(results) /\ used' = used \ {Last(results)}
          /\ UNCHANGED <<lvalues, stack>>
      BY <2>1 DEF EndStatement, Runs
    <3>2. Len(results) \in Nat /\ Len(results) >= 1
      BY <1>1, <3>1, Stacks
    <3>3. \A i \in Len(results) - 1 + 1 .. Len(results) : i = Len(results)
      BY <3>2
    <3>4. \A i \in Len(results) - 1 + 1 .. Len(results) : results[i] \notin used'
      BY <3>1, <3>3 DEF Last
    <3>5. results' = SubSeq(results, 1, Len(results) - 1)
      BY <3>1 DEF Front
    <3> QED
      BY <3>1, <3>2, <3>4, <3>5
  <2>2. CASE EndCompare
    <3>1. /\ todo # <<>> /\ todo' = Rest /\ Top.op = "compare" /\ Len(results) >= 2
          /\ results' = Front2(results) /\ used' = used \ {LhsResult(Top.e), RhsResult(Top.e)}
          /\ UNCHANGED <<lvalues, stack>>
      BY <2>2 DEF EndCompare, Runs
    <3>2. \A i \in Len(results) - 2 + 1 .. Len(results) : results[i] \notin used'
      BY <1>1, <3>1, LastTwo
    <3>3. results' = SubSeq(results, 1, Len(results) - 2)
      BY <3>1 DEF Front2
    <3> QED
      BY <3>1, <3>2, <3>3
  <2> QED
    BY <2>1, <2>2
<1>3. n \in Nat /\ Len(results) >= n
  BY <1>2
<1>4. \A q \in used' : Waits(q, n)
  BY <1>1, <1>2, <1>3, UsedWaits
<1>5. UsedInv'
  <2>1. NoRegister \notin used'
    BY <1>1, <1>2 DEF UsedInv
  <2> QED
    BY <1>1, <1>2, <1>3, <1>4, <2>1, BelowUsed
<1>6. ASSUME NEW a \in Layout, NEW b \in Layout, Fits(a), TaskRuns(Top, a, b)
      PROVE  Fits(b)'
  <2>1. /\ a.rs >= n /\ b.rs = a.rs - n /\ Within(a.res, b.res, b.rs)
        /\ b.ls = a.ls /\ Within(a.lvs, b.lvs, a.ls) /\ b.ws = a.ws
    <3>1. CASE n = 1
      BY <1>2, <1>6, <3>1 DEF TaskRuns, OnlyResults
    <3>2. CASE n = 2
      BY <1>2, <1>6, <3>2 DEF TaskRuns, OnlyResults
    <3> QED
      BY <3>1, <3>2
  <2>2. ResultsFit(b)'
    BY <1>1, <1>2, <1>3, <1>6, <2>1, BelowFits
  <2>3. OperandsFit(b)' /\ StackFits(b)'
    BY <1>2, <1>6, <2>1, OthersFit
  <2> QED
    BY <2>2, <2>3, FitsIs
<1>7. HeightInv'
  BY <1>1, <1>2, <1>6, EndBalances
<1> QED
  BY <1>5, <1>7

\* Two results become one of the two, and the register of the other is free.
LEMMA PairsBalance ==
    ASSUME BalanceInv, EndBinary \/ AddOffset
    PROVE  HeightInv' /\ UsedInv'
<1>1. ReservedInv /\ HeightInv /\ UsedInv /\ results \in Seq(Free)
  BY DEF BalanceInv, ReservedInv
<1>2. Len(results) \in Nat
  BY <1>1, LenProperties
<1>3. PICK k \in 1..Len(results), freed \in Free :
        /\ todo # <<>> /\ todo' = Rest /\ Len(results) >= 2
        /\ \/ Top.op = "binary" /\ k = LhsAt(Top.e, Len(results))
           \/ Top.op = "add_offset" /\ k = Len(results)
        /\ results' = Append(SubSeq(results, 1, Len(results) - 2), results[k])
        /\ used' = used \ {freed} /\ UNCHANGED <<lvalues, stack>>
        /\ \A i \in Len(results) - 2 + 1 .. Len(results) : results[i] \in {results[k], freed}
  <2>1. CASE EndBinary
    <3>1. /\ todo # <<>> /\ todo' = Rest /\ Top.op = "binary" /\ Len(results) >= 2
          /\ results' = Append(Front2(results), LhsResult(Top.e))
          /\ used' = used \ {RhsResult(Top.e)} /\ UNCHANGED <<lvalues, stack>>
      BY <2>1 DEF EndBinary, Runs, BinaryFrees
    <3>2. RhsResult(Top.e) \in Free
      BY <1>1, <3>1, ResultsAre
    <3>3. /\ LhsResult(Top.e) = results[LhsAt(Top.e, Len(results))]
          /\ LhsAt(Top.e, Len(results)) \in 1..Len(results)
          /\ \A i \in Len(results) - 2 + 1 .. Len(results) :
                results[i] \in {LhsResult(Top.e), RhsResult(Top.e)}
      BY <1>1, <3>1, LastTwo
    <3> QED
      BY <3>1, <3>2, <3>3 DEF Front2
  <2>2. CASE AddOffset
    <3>1. /\ todo # <<>> /\ todo' = Rest /\ Top.op = "add_offset" /\ Len(results) >= 2
          /\ results' = Append(Front2(results), results[Len(results)])
          /\ used' = used \ {results[Len(results) - 1]} /\ UNCHANGED <<lvalues, stack>>
      BY <2>2 DEF AddOffset, Runs
    <3>2. results[Len(results) - 1] \in Free
      BY <1>1, <3>1, ResultsAre
    <3>3. \A i \in Len(results) - 2 + 1 .. Len(results) :
             i = Len(results) - 1 \/ i = Len(results)
      BY <1>2
    <3>4. \A i \in Len(results) - 2 + 1 .. Len(results) :
             results[i] \in {results[Len(results)], results[Len(results) - 1]}
      BY <3>3
    <3>5. Len(results) \in 1..Len(results)
      BY <1>2, <3>1
    <3> QED
      BY <3>1, <3>2, <3>4, <3>5 DEF Front2
  <2> QED
    BY <2>1, <2>2
<1>4. PICK r \in Free : r = results[k]
  BY <1>1, ElementOfSeq
<1>5. ASSUME NEW q \in used', q # r PROVE Waits(q, 2)
  <2>1. \A i \in Len(results) - 2 + 1 .. Len(results) : results[i] # q
    BY <1>3, <1>4, <1>5
  <2>2. q \in used /\ 2 \in Nat /\ Len(results) >= 2
    BY <1>3
  <2> QED
    BY <1>1, <2>1, <2>2, UsedWaits
<1>6. UsedInv'
  <2>1. NoRegister \notin used'
    BY <1>1, <1>3 DEF UsedInv
  <2>2. 2 \in Nat /\ Len(results) >= 2
    BY <1>3
  <2>3. results' = Append(SubSeq(results, 1, Len(results) - 2), r) /\ lvalues' = lvalues
    BY <1>3, <1>4
  <2> QED
    BY <1>1, <1>5, <2>1, <2>2, <2>3, CombinedUsed
<1>7. ASSUME NEW a \in Layout, NEW b \in Layout, Fits(a), TaskRuns(Top, a, b)
      PROVE  Fits(b)'
  <2>1. Len(results) = a.rs /\ r \in a.res[k]
    BY <1>3, <1>4, <1>7 DEF Fits
  <2>2. Combines(a, b, a.res[k]) /\ b.ws = a.ws
    BY <1>3, <1>7, <2>1 DEF TaskRuns
  <2>3. /\ a.rs >= 2 /\ b.rs = a.rs - 1 /\ Within(a.res, b.res, a.rs - 2) /\ r \in b.res[b.rs]
        /\ b.ls = a.ls /\ Within(a.lvs, b.lvs, a.ls)
    BY <2>1, <2>2 DEF Combines
  <2>4. b.rs = a.rs - 2 + 1 /\ 2 \in Nat
    BY <2>3, LayoutIs
  <2>5. results' = Append(SubSeq(results, 1, Len(results) - 2), r)
    BY <1>3, <1>4
  <2>6. ResultsFit(b)'
    BY <1>1, <1>7, <2>3, <2>4, <2>5, CombinedFits
  <2>7. OperandsFit(b)' /\ StackFits(b)'
    BY <1>3, <1>7, <2>2, <2>3, OthersFit
  <2> QED
    BY <2>6, <2>7, FitsIs
<1>8. HeightInv'
  BY <1>1, <1>3, <1>7, EndBalances
<1> QED
  BY <1>6, <1>8

\* The end of a division: the quotient replaces both operands, and rax comes
\* back from the stack if it was in use.
LEMMA EndOverBalances ==
    ASSUME BalanceInv, EndOver
    PROVE  HeightInv' /\ UsedInv'
<1> DEFINE lhs == LhsResult(Top.e)
           rhs == RhsResult(Top.e)
           dst == IF Top.inRax THEN lhs ELSE Available(Top.m)
<1>1. /\ ReservedInv /\ HeightInv /\ UsedInv /\ results \in Seq(Free)
      /\ AllTasks(todo) /\ Reserved \subseteq used
  BY DEF BalanceInv, ReservedInv
<1>2. /\ todo # <<>> /\ todo' = Rest /\ Top.op = "over" /\ Len(results) >= 2
      /\ stack' = (IF Top.saved = {} THEN stack ELSE Front(stack))
      /\ used' = (IF Top.inRax THEN used ELSE Marked(dst) \ {"RAX"}) \ {rhs}
      /\ results' = Append(SubSeq(results, 1, Len(results) - 2), dst)
      /\ lvalues' = lvalues
  BY DEF EndOver, Runs, Front2
<1>3. Len(results) \in Nat /\ 2 \in Nat
  BY <1>1, LenProperties
<1>4. lhs \in Free /\ rhs \in Free
  BY <1>1, <1>2, ResultsAre
<1>5. PICK a \in Layout, b \in Layout, z \in Layout :
        Fits(a) /\ TaskRuns(Top, a, b) /\ Effect(Rest, b, z) /\ Emptied(z)
  BY <1>1, <1>2, HeadRuns
<1>6. OverRuns(Top, a, b)
  BY <1>2, <1>5 DEF TaskRuns
<1>7. Len(results) = a.rs /\ \A i \in 1..a.rs : results[i] \in a.res[i]
  BY <1>5 DEF Fits
<1>8. lhs \in a.res[LhsAt(Top.e, a.rs)] /\ lhs \in {"RAX", NoRegister}
  BY <1>1, <1>2, <1>6, <1>7, LastTwo DEF OverRuns
<1>9. Available(Top.m) \in Free /\ Available(Top.m) \in Top.m \cup {NoRegister}
  BY <1>1, <1>2, FirstTask, AvailableIsFree DEF TaskOK
<1>10. dst \in Free
  BY <1>4, <1>9
<1>11. dst \in b.res[b.rs]
  BY <1>6, <1>8, <1>9 DEF OverRuns, Combines
<1>12. NoRegister \notin used' /\ \A q \in used' : q # dst => q \in used /\ q # lhs /\ q # rhs
  <2>1. NoRegister \notin used
    BY <1>1 DEF UsedInv
  <2>2. CASE Top.inRax
    <3>1. used' = used \ {rhs} /\ dst = lhs
      BY <1>2, <2>2
    <3> HIDE DEF lhs, rhs, dst
    <3> QED
      BY <2>1, <3>1
  <2>3. CASE ~Top.inRax
    <3>1. used' = (Marked(dst) \ {"RAX"}) \ {rhs}
      BY <1>2, <2>3
    <3> HIDE DEF lhs, rhs, dst
    <3> QED
      BY <1>8, <2>1, <3>1 DEF Marked
  <2> QED
    BY <2>2, <2>3
<1> HIDE DEF dst
<1>13. \A i \in Len(results) - 2 + 1 .. Len(results) : results[i] \in {lhs, rhs}
  BY <1>1, <1>2, LastTwo
<1> HIDE DEF lhs, rhs
<1>14. ASSUME NEW q \in used', q # dst PROVE Waits(q, 2)
  <2>1. \A i \in Len(results) - 2 + 1 .. Len(results) : results[i] # q
    BY <1>12, <1>13, <1>14
  <2>2. q \in used /\ Len(results) >= 2
    BY <1>2, <1>12, <1>14
  <2> QED
    BY <1>1, <1>3, <2>1, <2>2, UsedWaits
<1>15. UsedInv'
  BY <1>1, <1>2, <1>3, <1>10, <1>12, <1>14, CombinedUsed
<1>16. ResultsFit(b)'
  <2>1. /\ a.rs >= 2 /\ b.rs = a.rs - 1 /\ Within(a.res, b.res, a.rs - 2)
    BY <1>6 DEF OverRuns, Combines
  <2>2. b.rs = a.rs - 2 + 1
    BY <2>1, LayoutIs
  <2> QED
    BY <1>1, <1>2, <1>3, <1>5, <1>10, <1>11, <2>1, <2>2, CombinedFits
<1>17. OperandsFit(b)'
  <2>1. b.ls = a.ls /\ Within(a.lvs, b.lvs, a.ls)
    BY <1>6 DEF OverRuns, Combines
  <2> QED
    BY <1>2, <1>5, <2>1, OthersFit
<1>18. StackFits(b)'
  <2>1. a.ws = b.ws + Cardinality(Top.saved) /\ Top.saved \in {{}, {"RAX"}}
    BY <1>6 DEF OverRuns
  <2>2. CASE Top.saved = {}
    <3>1. b.ws = a.ws
      BY <2>1, <2>2, FS_EmptySet, LayoutIs
    <3> QED
      BY <1>2, <1>5, <2>2, <3>1, OthersFit
  <2>3. CASE Top.saved = {"RAX"}
    <3>1. Cardinality({"RAX"}) = 1
      BY FS_Singleton
    <3>2. a.ws = b.ws + 1 /\ 1 \in Nat
      BY <2>1, <2>3, <3>1
    <3>3. stack' = SubSeq(stack, 1, Len(stack) - 1)
      BY <1>2, <2>3 DEF Front
    <3> QED
      BY <1>5, <3>2, <3>3, StackShrinks
  <2> QED
    BY <2>1, <2>2, <2>3
<1>19. Fits(b)'
  BY <1>16, <1>17, <1>18, FitsIs
<1>20. HeightInv'
  BY <1>2, <1>5, <1>19, TaskEnds
<1> QED
  BY <1>15, <1>20

\* The end of a call: its result replaces the arguments, and the registers
\* that were saved are popped for the operands that wait for them.
LEMMA EndCallBalances ==
    ASSUME BalanceInv, EndCall
    PROVE  HeightInv' /\ UsedInv'
<1>0. PICK n : n = Len(Top.e.kids)
  OBVIOUS
<1>1. /\ ReservedInv /\ HeightInv /\ UsedInv /\ results \in Seq(Free)
      /\ AllTasks(todo)
  BY DEF BalanceInv, ReservedInv
<1>2. /\ todo # <<>> /\ todo' = Rest /\ Top.op = "call" /\ Len(results) >= n
      /\ stack' = SubSeq(stack, 1, Len(stack) - Cardinality(Top.saved))
      /\ used' = (used \ Arguments(Top.e)) \cup ({Top.output} \ {NoRegister}) \cup Top.saved
      /\ results' = Append(SubSeq(results, 1, Len(results) - n), Top.output)
      /\ lvalues' = lvalues
  BY <1>0 DEF EndCall, Runs, Arguments
<1>3. /\ Top.e \in Expr /\ Top.e.kind = "call"
      /\ Top.output \in Free /\ Top.saved \subseteq Volatile
  BY <1>1, <1>2, FirstTask DEF TaskOK
<1>4. n \in Nat /\ Len(results) \in Nat
  BY <1>0, <1>1, <1>3, ArgumentsAre, LenProperties
<1>5. PICK a \in Layout, b \in Layout, z \in Layout :
        Fits(a) /\ TaskRuns(Top, a, b) /\ Effect(Rest, b, z) /\ Emptied(z)
  BY <1>1, <1>2, HeadRuns
<1>6. CallRuns(Top, a, b)
  BY <1>2, <1>5 DEF TaskRuns
<1>7. /\ Len(results) = a.rs /\ \A i \in 1..a.rs : results[i] \in a.res[i]
      /\ Len(lvalues) = a.ls /\ \A i \in 1..a.ls : lvalues[i] \in a.lvs[i]
      /\ a.rs \in Nat /\ b.rs \in Nat /\ a.ws \in Nat /\ b.ws \in Nat
  BY <1>5, LayoutIs DEF Fits
<1>8. /\ a.rs >= n /\ b.rs = a.rs - n + 1
      /\ Within(a.res, b.res, a.rs - n) /\ Top.output \in b.res[b.rs]
      /\ \A i \in a.rs - n + 1 .. a.rs : a.res[i] \subseteq Arguments(Top.e) \cup {NoRegister}
      /\ \A r \in Top.saved : \/ \E i \in 1..a.rs - n : a.res[i] = {r}
                              \/ \E i \in 1..a.ls : a.lvs[i] = {r}
      /\ b.ls = a.ls /\ Within(a.lvs, b.lvs, a.ls)
      /\ a.ws = b.ws + Cardinality(Top.saved)
  BY <1>0, <1>6 DEF CallRuns
<1>9. ASSUME NEW q \in Top.saved PROVE Waits(q, n)
  <2>1. CASE \E i \in 1..a.rs - n : a.res[i] = {q}
    <3>1. \A i \in 1..a.rs - n : i \in 1..a.rs
      BY <1>4, <1>7
    <3> QED
      BY <1>7, <2>1, <3>1 DEF Waits
  <2>2. CASE \E i \in 1..a.ls : a.lvs[i] = {q}
    BY <1>7, <2>2 DEF Waits
  <2> QED
    BY <1>8, <2>1, <2>2
<1>10. ASSUME NEW q \in used, q \notin Arguments(Top.e) PROVE Waits(q, n)
  <2>1. q # NoRegister
    BY <1>1 DEF UsedInv
  <2>2. \A i \in Len(results) - n + 1 .. Len(results) : i \in 1..a.rs /\ i \in a.rs - n + 1 .. a.rs
    BY <1>4, <1>7, <1>8
  <2>3. \A i \in Len(results) - n + 1 .. Len(results) : results[i] # q
    BY <1>7, <1>8, <1>10, <2>1, <2>2
  <2> QED
    BY <1>1, <1>2, <1>4, <2>3, UsedWaits
<1>11. \A q \in used' : q = Top.output \/ Waits(q, n)
  BY <1>2, <1>9, <1>10
<1>12. NoRegister \notin used'
  <2>1. NoRegister \notin used /\ NoRegister \notin Volatile
    BY <1>1 DEF UsedInv, NoRegister, Volatile
  <2> QED
    BY <1>2, <1>3, <2>1
<1>13. UsedInv'
  BY <1>1, <1>2, <1>3, <1>4, <1>11, <1>12, CombinedUsed
<1>14. ResultsFit(b)'
  BY <1>1, <1>2, <1>3, <1>4, <1>5, <1>8, CombinedFits
<1>15. OperandsFit(b)'
  BY <1>2, <1>5, <1>8, OthersFit
<1>16. StackFits(b)'
  <2>1. Cardinality(Top.saved) \in Nat
    BY <1>3, VolatileFinite
  <2> QED
    BY <1>2, <1>5, <1>8, <2>1, StackShrinks
<1>17. Fits(b)'
  BY <1>14, <1>15, <1>16, FitsIs
<1>18. HeightInv'
  BY <1>2, <1>5, <1>17, TaskEnds
<1> QED
  BY <1>13, <1>18

\* A handler that only calls others first.
LEMMA TasksBalance ==
    ASSUME ReservedInv, HeightInv, UsedInv, todo # <<>>, NEW tasks, IsSeq(tasks),
           todo' = tasks \o Rest, UNCHANGED <<results, lvalues, used, stack>>,
           \A a \in Layout, b \in Layout : TaskRuns(Top, a, b) => Effect(tasks, a, b)
    PROVE  HeightInv' /\ UsedInv'
<1>1. PICK a \in Layout, b \in Layout, z \in Layout :
        Fits(a) /\ TaskRuns(Top, a, b) /\ Effect(Rest, b, z) /\ Emptied(z)
  BY HeadRuns
<1>2. Effect(tasks, a, b)
  BY <1>1
<1>3. Fits(a)'
  BY <1>1 DEF Fits
<1>4. HeightInv'
  BY <1>1, <1>2, <1>3, TasksFollow
<1>5. UsedInv'
  BY UsedStays
<1> QED
  BY <1>4, <1>5

LEMMA CastedBalances ==
    ASSUME BalanceInv, CompileCasted
    PROVE  HeightInv' /\ UsedInv'
<1> DEFINE cast == [op |-> "cast", path |-> Top.path, e |-> Top.e, to |-> Top.to]
           value == Compile(Top.path, Top.e, Top.m)
           S == Top.m \cup {NoRegister}
<1>1. /\ todo # <<>> /\ Top.op = "casted" /\ todo' = <<value, cast>> \o Rest
      /\ UNCHANGED <<results, lvalues, used, stack>>
  BY DEF CompileCasted, Runs
<1>2. ReservedInv /\ HeightInv /\ UsedInv /\ AllTasks(todo)
  BY DEF BalanceInv, ReservedInv
<1>3. S \in SUBSET Register
  BY <1>1, <1>2, FirstTask, RegistersAre DEF TaskOK, Register
<1>4. cast.op = "cast"
  OBVIOUS
<1> HIDE DEF cast
<1>5. ASSUME NEW a \in Layout, NEW b \in Layout, TaskRuns(Top, a, b)
      PROVE  Effect(<<value, cast>>, a, b)
  <2>1. Pushes(a, b, S)
    BY <1>1, <1>5 DEF TaskRuns
  <2> HIDE DEF S
  <2>2. PICK c \in Layout : c = Pushed(a, S)
    BY <1>3, PushedIs
  <2>3. Pushes(a, c, S) /\ c.rs = a.rs + 1
    BY <1>3, <2>2, PushedIs
  <2>4. Wider(c, b)
    BY <1>3, <2>1, <2>2, PushesIsWider
  <2>5. TaskRuns(value, a, c)
    BY <2>3, ValueRuns DEF S
  <2>6. c.rs >= 1
    BY <2>3, LayoutIs
  <2>7. TaskRuns(cast, c, b)
    BY <1>4, <2>4, <2>6 DEF TaskRuns
  <2> HIDE DEF value
  <2> QED
    BY <2>5, <2>7, EffectTwo
<1> HIDE DEF value
<1> QED
  BY <1>1, <1>2, <1>5, ListsAreSeqs, TasksBalance

LEMMA BinaryBalances ==
    ASSUME BalanceInv, CompileBinary
    PROVE  HeightInv' /\ UsedInv'
<1> DEFINE rest == [op |-> "binary", path |-> Top.path, e |-> Top.e, m |-> Top.m]
           operands == Operands(Top.path, Top.e, Top.m, RhsMask(Top.m))
           S == Top.m \cup {NoRegister}
<1>1. /\ todo # <<>> /\ Top.op = "value" /\ todo' = operands \o <<rest>> \o Rest
      /\ UNCHANGED <<results, lvalues, used, stack>>
  BY DEF CompileBinary, Runs
<1>2. ReservedInv /\ HeightInv /\ UsedInv /\ AllTasks(todo)
  BY DEF BalanceInv, ReservedInv
<1>3. Top.m \subseteq Any /\ RhsMask(Top.m) \subseteq Any
  BY <1>1, <1>2, FirstTask, MasksAre DEF TaskOK
<1>4. rest.op = "binary" /\ rest.e = Top.e /\ rest.m = Top.m
  OBVIOUS
<1>5. IsSeq(operands)
  BY OperandsAreSeqs
<1> HIDE DEF rest
<1>6. ASSUME NEW a \in Layout, NEW b \in Layout, TaskRuns(Top, a, b)
      PROVE  Effect(operands \o <<rest>>, a, b)
  <2>1. Pushes(a, b, S)
    BY <1>1, <1>6 DEF TaskRuns
  <2>2. PICK c \in Layout :
          /\ Effect(operands, a, c) /\ HasOperands(c, a, Top.e, S)
          /\ RhsFirst(Top.e) => c.res[c.rs - 1] \subseteq RhsMask(Top.m) \cup {NoRegister}
    BY <1>3, OperandsRun
  <2>9. /\ c.rs = a.rs + 2 /\ \A i \in 1..a.rs : c.res[i] = a.res[i]
        /\ c.res[LhsAt(Top.e, c.rs)] = S
        /\ c.ls = a.ls /\ c.lvs = a.lvs /\ c.ws = a.ws
    BY <2>2 DEF HasOperands
  <2> HIDE DEF S
  <2>3. c.rs >= 2 /\ b.rs = c.rs - 1 /\ c.rs - 2 = a.rs
    BY <2>1, <2>9, LayoutIs DEF Pushes
  <2>4. Combines(c, b, S) /\ b.ws = c.ws
    BY <2>1, <2>9, <2>3 DEF Pushes, Combines, Within, OnlyResults
  <2>10. LeavesTarget(rest, c)
    <3>1. SUFFICES ASSUME IsSingle(Top.m)
                   PROVE  /\ RhsFirst(Top.e) => c.res[c.rs - 1] \cap Top.m = {}
                          /\ ~RhsFirst(Top.e) => c.res[c.rs - 1] \subseteq S
      BY <1>4 DEF LeavesTarget, S
    <3>2. CASE RhsFirst(Top.e)
      <4>1. RhsMask(Top.m) \cap Top.m = {}
        BY <3>1 DEF RhsMask
      <4>2. NoRegister \notin Top.m
        BY <1>3, RegistersAre DEF NoRegister
      <4> QED
        BY <2>2, <3>2, <4>1, <4>2
    <3>3. CASE ~RhsFirst(Top.e)
      BY <2>9, <3>3 DEF LhsAt
    <3> QED
      BY <3>2, <3>3
  <2>5. TaskRuns(rest, c, b)
    BY <1>4, <2>9, <2>4, <2>10 DEF TaskRuns
  <2> HIDE DEF operands
  <2> QED
    BY <1>5, <2>2, <2>5, ThenLast
<1> HIDE DEF operands
<1>7. IsSeq(operands \o <<rest>>)
  BY <1>5, ListsAreSeqs, ConcatIsSeq
<1> QED
  BY <1>1, <1>2, <1>6, <1>7, TasksBalance

\* The address of an element, or the value of a pointer: one result more.
LEMMA AddressRuns ==
    ASSUME NEW e, NEW path, NEW m, m \subseteq Any, NEW address,
           address = IF e.kind = "subscript" THEN Offset(path, e, m)
                     ELSE <<Compile(Kid(path, 1), e.kids[1], m)>>
    PROVE  /\ IsSeq(address)
           /\ \A a \in Layout : Effect(address, a, Pushed(a, m \cup {NoRegister}))
<1>1. CASE e.kind = "subscript"
  BY <1>1, OffsetRuns, OperandsAreSeqs
<1>2. CASE e.kind # "subscript"
  <2> DEFINE S == m \cup {NoRegister}
             t == Compile(Kid(path, 1), e.kids[1], m)
  <2>1. S \in SUBSET Register
    BY RegistersAre DEF Register
  <2>2. ASSUME NEW a \in Layout PROVE Effect(address, a, Pushed(a, S))
    <3>1. PICK c \in Layout : c = Pushed(a, S) /\ Pushes(a, c, S)
      <4> HIDE DEF S
      <4> QED
        BY <2>1, PushedIs
    <3>2. TaskRuns(t, a, c)
      BY <3>1, ValueRuns
    <3> HIDE DEF t, S
    <3>3. Effect(<<t>>, a, c)
      BY <3>2, EffectOne
    <3> QED
      BY <1>2, <3>1, <3>3 DEF t
  <2>3. IsSeq(address)
    BY <1>2, ListsAreSeqs
  <2> QED
    BY <2>2, <2>3
<1> QED
  BY <1>1, <1>2

LEMMA LoadBalances ==
    ASSUME BalanceInv, CompileLoad
    PROVE  HeightInv' /\ UsedInv'
<1> DEFINE address == IF Top.e.kind = "subscript" THEN Offset(Top.path, Top.e, Top.m)
                      ELSE <<Compile(Kid(Top.path, 1), Top.e.kids[1], Top.m)>>
           rest == Remainder("load", Top.path, Top.e)
           S == Top.m \cup {NoRegister}
<1>1. /\ todo # <<>> /\ Top.op = "value" /\ todo' = address \o <<rest>> \o Rest
      /\ UNCHANGED <<results, lvalues, used, stack>>
  BY DEF CompileLoad, Runs
<1>2. ReservedInv /\ HeightInv /\ UsedInv /\ AllTasks(todo)
  BY DEF BalanceInv, ReservedInv
<1>3. Top.m \subseteq Any
  BY <1>1, <1>2, FirstTask DEF TaskOK
<1>4. IsSeq(address) /\ \A a \in Layout : Effect(address, a, Pushed(a, S))
  BY <1>3, AddressRuns
<1>5. S \in SUBSET Register
  BY <1>3, RegistersAre DEF Register
<1>6. \A a, b : TaskRuns(rest, a, b) <=> a.rs >= 1 /\ Wider(a, b)
  BY RemainderRuns
<1> HIDE DEF address, rest
<1>7. ASSUME NEW a \in Layout, NEW b \in Layout, TaskRuns(Top, a, b)
      PROVE  Effect(address \o <<rest>>, a, b)
  <2>1. Pushes(a, b, S)
    BY <1>1, <1>7 DEF TaskRuns
  <2> HIDE DEF S
  <2>2. PICK c \in Layout : c = Pushed(a, S) /\ c.rs = a.rs + 1
    BY <1>5, PushedIs
  <2>3. Wider(c, b)
    BY <1>5, <2>1, <2>2, PushesIsWider
  <2>4. c.rs >= 1
    BY <2>2, LayoutIs
  <2>5. TaskRuns(rest, c, b)
    BY <1>6, <2>3, <2>4
  <2>6. Effect(address, a, c)
    BY <1>4, <2>2
  <2> QED
    BY <1>4, <2>5, <2>6, ThenLast
<1>8. IsSeq(address \o <<rest>>)
  BY <1>4, ListsAreSeqs, ConcatIsSeq
<1> QED
  BY <1>1, <1>2, <1>7, <1>8, TasksBalance

\* The layout with one operand more, in any register.
Placed(a) == [rs |-> a.rs, res |-> a.res, ls |-> a.ls + 1,
              lvs |-> [a.lvs EXCEPT ![a.ls + 1] = Register], ws |-> a.ws]

LEMMA PlacedIs ==
    ASSUME NEW a \in Layout
    PROVE  /\ Placed(a) \in Layout
           /\ Placed(a).rs = a.rs /\ Placed(a).res = a.res /\ Placed(a).ws = a.ws
           /\ Placed(a).ls = a.ls + 1
           /\ \A i \in 1..a.ls : Placed(a).lvs[i] = a.lvs[i]
           /\ \A path, e : TaskRuns(LValue(path, e), a, Placed(a))
<1> DEFINE f == [a.lvs EXCEPT ![a.ls + 1] = Register]
           b == Placed(a)
<1>1. a.ls \in Nat /\ a.lvs \in [Nat -> SUBSET Register]
  BY LayoutIs
<1>2. /\ f \in [Nat -> SUBSET Register] /\ f[a.ls + 1] = Register
      /\ \A i \in 1..a.ls : f[i] = a.lvs[i]
  BY <1>1
<1>3. b = [rs |-> a.rs, res |-> a.res, ls |-> a.ls + 1, lvs |-> f, ws |-> a.ws]
  BY DEF Placed
<1>4. b.rs = a.rs /\ b.res = a.res /\ b.ls = a.ls + 1 /\ b.lvs = f /\ b.ws = a.ws
  BY DEF Placed
<1> HIDE DEF f
<1>5. b \in Layout
  BY <1>1, <1>2, <1>3, LayoutIs DEF Layout
<1> HIDE DEF b
<1>6. ASSUME NEW path, NEW e PROVE TaskRuns(LValue(path, e), a, b)
  <2>1. LValue(path, e).op = "lvalue"
    BY DEF LValue
  <2>2. PushesOperand(a, b) /\ b.rs = a.rs /\ Within(a.res, b.res, a.rs)
    BY <1>2, <1>4 DEF PushesOperand, Within
  <2> QED
    BY <2>1, <2>2 DEF TaskRuns
<1>7. \A i \in 1..a.ls : b.lvs[i] = a.lvs[i]
  BY <1>2, <1>4
<1> QED
  BY <1>4, <1>5, <1>6, <1>7 DEF b

\* What is left to do after an lvalue and a value: the value stays.
LEMMA PlaceRuns ==
    ASSUME NEW path, NEW e, NEW op \in {"store", "lea"}, NEW a \in Layout, NEW b \in Layout,
           NEW c \in Layout, NEW S \in SUBSET Register, Pushes(a, b, S),
           c.rs = a.rs + 1, c.res[a.rs + 1] = S, \A i \in 1..a.rs : c.res[i] = a.res[i],
           c.ls = a.ls + 1, \A i \in 1..a.ls : c.lvs[i] = a.lvs[i], c.ws = a.ws
    PROVE  TaskRuns(Remainder(op, path, e), c, b)
<1>1. a.rs \in Nat /\ a.ls \in Nat
  BY LayoutIs
<1>2. /\ b.rs = a.rs + 1 /\ Within(a.res, b.res, a.rs) /\ S \subseteq b.res[a.rs + 1]
      /\ b.ls = a.ls /\ Within(a.lvs, b.lvs, a.ls) /\ b.ws = a.ws
  BY DEF Pushes, OnlyResults
<1>3. c.rs >= 1 /\ b.rs = c.rs /\ c.ls >= 1 /\ b.ls = c.ls - 1
  BY <1>1, <1>2
<1>4. Within(c.res, b.res, c.rs)
  <2>1. \A i \in 1..c.rs : i \in 1..a.rs \/ i = a.rs + 1
    BY <1>1
  <2> QED
    BY <1>2, <2>1 DEF Within
<1>5. Within(c.lvs, b.lvs, b.ls)
  BY <1>2 DEF Within
<1>6. Remainder(op, path, e).op = op
  BY DEF Remainder
<1> QED
  BY <1>2, <1>3, <1>4, <1>5, <1>6 DEF TaskRuns

LEMMA InRegisterBalances ==
    ASSUME BalanceInv, LValueInRegister
    PROVE  HeightInv' /\ UsedInv'
<1> DEFINE address == IF Top.e.kind = "subscript" THEN Offset(Top.path, Top.e, Any)
                      ELSE <<Compile(Kid(Top.path, 1), Top.e.kids[1], Any)>>
           rest == Remainder("operand", Top.path, Top.e)
           S == Any \cup {NoRegister}
<1>1. /\ todo # <<>> /\ Top.op = "lvalue" /\ todo' = address \o <<rest>> \o Rest
      /\ UNCHANGED <<results, lvalues, used, stack>>
  BY DEF LValueInRegister, Runs
<1>2. ReservedInv /\ HeightInv /\ UsedInv
  BY DEF BalanceInv
<1>3. Any \subseteq Any
  OBVIOUS
<1>4. IsSeq(address) /\ \A a \in Layout : Effect(address, a, Pushed(a, S))
  BY <1>3, AddressRuns
<1>5. S \in SUBSET Register
  BY RegistersAre DEF Register
<1>6. rest.op = "operand"
  BY DEF Remainder
<1> HIDE DEF address, rest, S
<1>7. ASSUME NEW a \in Layout, NEW b \in Layout, TaskRuns(Top, a, b)
      PROVE  Effect(address \o <<rest>>, a, b)
  <2>1. b.rs = a.rs /\ Within(a.res, b.res, a.rs) /\ PushesOperand(a, b)
    BY <1>1, <1>7 DEF TaskRuns
  <2>2. PICK c \in Layout :
          /\ c = Pushed(a, S) /\ c.rs = a.rs + 1 /\ \A i \in 1..a.rs : c.res[i] = a.res[i]
          /\ c.ls = a.ls /\ c.lvs = a.lvs /\ c.ws = a.ws
    BY <1>5, PushedIs
  <2>3. c.rs >= 1 /\ b.rs = c.rs - 1
    BY <2>1, <2>2, LayoutIs
  <2>4. Within(c.res, b.res, b.rs) /\ PushesOperand(c, b)
    BY <2>1, <2>2 DEF Within, PushesOperand
  <2>5. TaskRuns(rest, c, b)
    BY <1>6, <2>3, <2>4 DEF TaskRuns
  <2>6. Effect(address, a, c)
    BY <1>4, <2>2
  <2> QED
    BY <1>4, <2>5, <2>6, ThenLast
<1>8. IsSeq(address \o <<rest>>)
  BY <1>4, ListsAreSeqs, ConcatIsSeq
<1> QED
  BY <1>1, <1>2, <1>7, <1>8, TasksBalance

LEMMA AssignmentBalances ==
    ASSUME BalanceInv, CompileAssignment
    PROVE  HeightInv' /\ UsedInv'
<1> DEFINE target == LValue(Kid(Top.path, 1), Top.e.kids[1])
           source == Casted(Kid(Top.path, 2), Top.e.kids[2], Top.m, Top.e.size)
           rest == Remainder("store", Top.path, Top.e)
           S == Top.m \cup {NoRegister}
<1>1. /\ todo # <<>> /\ Top.op = "value" /\ todo' = <<target, source, rest>> \o Rest
      /\ UNCHANGED <<results, lvalues, used, stack>>
  BY DEF CompileAssignment, Runs
<1>2. ReservedInv /\ HeightInv /\ UsedInv /\ AllTasks(todo)
  BY DEF BalanceInv, ReservedInv
<1>3. S \in SUBSET Register
  BY <1>1, <1>2, FirstTask, RegistersAre DEF TaskOK, Register
<1>4. ASSUME NEW a \in Layout, NEW b \in Layout, TaskRuns(Top, a, b)
      PROVE  Effect(<<target, source, rest>>, a, b)
  <2>1. Pushes(a, b, S)
    BY <1>1, <1>4 DEF TaskRuns
  <2>2. PICK c \in Layout :
          /\ c.rs = a.rs /\ c.res = a.res /\ c.ws = a.ws /\ c.ls = a.ls + 1
          /\ \A i \in 1..a.ls : c.lvs[i] = a.lvs[i]
          /\ TaskRuns(target, a, c)
    <3>1. PICK path, e : path = Kid(Top.path, 1) /\ e = Top.e.kids[1]
      OBVIOUS
    <3> QED
      BY <3>1, PlacedIs
  <2>3. PICK d \in Layout :
          /\ d = Pushed(c, S) /\ Pushes(c, d, S) /\ d.rs = c.rs + 1 /\ d.res[c.rs + 1] = S
          /\ \A i \in 1..c.rs : d.res[i] = c.res[i]
          /\ d.ls = c.ls /\ d.lvs = c.lvs /\ d.ws = c.ws
    <3> HIDE DEF S
    <3> QED
      BY <1>3, PushedIs
  <2>4. TaskRuns(source, c, d)
    BY <2>3, ValueRuns
  <2> HIDE DEF S, source, target
  <2>5. TaskRuns(rest, d, b)
    BY <1>3, <2>1, <2>2, <2>3, PlaceRuns
  <2> HIDE DEF rest
  <2> QED
    BY <2>2, <2>4, <2>5, EffectThree
<1> HIDE DEF target, source, rest
<1> QED
  BY <1>1, <1>2, <1>4, ListsAreSeqs, TasksBalance

\* An operand more, and perhaps the last result less.
LEMMA PlacesBalance ==
    ASSUME BalanceInv, LValueOfVariable \/ EndLValue
    PROVE  HeightInv' /\ UsedInv'
<1> DEFINE T == Free \cup {"RBP"}
<1>1. /\ ReservedInv /\ HeightInv /\ UsedInv
      /\ results \in Seq(Free) /\ lvalues \in Seq(T)
  BY DEF BalanceInv, ReservedInv
<1>2. Len(results) \in Nat /\ Len(lvalues) \in Nat
  BY <1>1, LenProperties
<1>3. T \subseteq Register
  BY RegistersAre DEF Free, Register
<1>4. PICK r \in T, n \in {0, 1} :
        /\ todo # <<>> /\ todo' = Rest /\ Top.op = IF n = 0 THEN "lvalue" ELSE "operand"
        /\ lvalues' = Append(lvalues, r) /\ used' = used /\ stack' = stack
        /\ IF n = 0 THEN results' = results
           ELSE /\ results # <<>> /\ results' = SubSeq(results, 1, Len(results) - 1)
                /\ r = results[Len(results)]
  <2>1. CASE LValueOfVariable
    <3>1. "RBP" \in T /\ 0 \in {0, 1}
      OBVIOUS
    <3> QED
      BY <2>1, <3>1 DEF LValueOfVariable, Runs
  <2>2. CASE EndLValue
    <3>1. /\ todo # <<>> /\ todo' = Rest /\ Top.op = "operand" /\ results # <<>>
          /\ lvalues' = Append(lvalues, results[Len(results)])
          /\ results' = SubSeq(results, 1, Len(results) - 1)
          /\ used' = used /\ stack' = stack
      BY <2>2 DEF EndLValue, Runs, Last, Front
    <3>2. results[Len(results)] \in T
      BY <1>1, <3>1, Stacks DEF Last
    <3> HIDE DEF T
    <3> QED
      BY <3>1, <3>2
  <2> QED
    BY <2>1, <2>2
<1> HIDE DEF T
<1>5. /\ Len(lvalues') = Len(lvalues) + 1 /\ lvalues'[Len(lvalues) + 1] = r
      /\ \A i \in 1..Len(lvalues) : lvalues'[i] = lvalues[i]
  BY <1>1, <1>4, AppendProperties
<1>6. \A i \in 1..Len(lvalues) : i \in 1..Len(lvalues')
  BY <1>2, <1>5
<1>7. Len(lvalues) + 1 \in 1..Len(lvalues')
  BY <1>2, <1>5
<1>8. ASSUME NEW i \in 1..Len(results)
      PROVE  (\E j \in 1..Len(results') : results'[j] = results[i]) \/ results[i] = r
  <2>1. CASE n = 0
    BY <1>4, <2>1
  <2>2. CASE n = 1
    <3>1. Len(results) >= 1 /\ 1 \in Nat
      BY <1>2
    <3>2. /\ Len(SubSeq(results, 1, Len(results) - 1)) = Len(results) - 1
          /\ \A j \in 1..Len(results) - 1 :
                SubSeq(results, 1, Len(results) - 1)[j] = results[j]
      BY <1>1, <3>1, BelowIs
    <3>3. /\ Len(results') = Len(results) - 1
          /\ \A j \in 1..Len(results) - 1 : results'[j] = results[j]
      BY <1>4, <2>2, <3>2
    <3>4. i \in 1..Len(results) - 1 \/ i = Len(results)
      BY <1>2
    <3> QED
      BY <1>4, <2>2, <3>3, <3>4
  <2> QED
    BY <2>1, <2>2
<1>9. UsedInv'
  <2>1. NoRegister \notin used'
    BY <1>1, <1>4 DEF UsedInv
  <2>2. ASSUME NEW q \in used'
        PROVE  \/ q \in Reserved
               \/ \E i \in 1..Len(results') : results'[i] = q
               \/ \E i \in 1..Len(lvalues') : lvalues'[i] = q
    <3>1. \/ q \in Reserved
          \/ \E i \in 1..Len(results) : results[i] = q
          \/ \E i \in 1..Len(lvalues) : lvalues[i] = q
      BY <1>1, <1>4, <2>2 DEF UsedInv
    <3>2. CASE \E i \in 1..Len(results) : results[i] = q
      BY <1>5, <1>7, <1>8, <3>2
    <3>3. CASE \E i \in 1..Len(lvalues) : lvalues[i] = q
      BY <1>5, <1>6, <3>3
    <3> QED
      BY <3>1, <3>2, <3>3
  <2> QED
    BY <2>1, <2>2 DEF UsedInv
<1>10. ASSUME NEW a \in Layout, NEW b \in Layout, Fits(a), TaskRuns(Top, a, b)
       PROVE  Fits(b)'
  <2>1. PushesOperand(a, b) /\ ResultsFit(b)'
    <3>1. CASE n = 0
      <4>1. PushesOperand(a, b) /\ b.rs = a.rs /\ Within(a.res, b.res, a.rs)
        BY <1>4, <1>10, <3>1 DEF TaskRuns
      <4> QED
        BY <1>4, <1>10, <3>1, <4>1, OthersFit
    <3>2. CASE n = 1
      <4>1. PushesOperand(a, b) /\ a.rs >= 1 /\ b.rs = a.rs - 1 /\ Within(a.res, b.res, b.rs)
        BY <1>4, <1>10, <3>2 DEF TaskRuns
      <4>2. 1 \in Nat /\ results' = SubSeq(results, 1, Len(results) - 1)
        BY <1>4, <3>2
      <4> QED
        BY <1>1, <1>10, <4>1, <4>2, BelowFits
    <3> QED
      BY <3>1, <3>2
  <2>2. r \in Register
    BY <1>3
  <2>3. OperandsFit(b)'
    BY <1>1, <1>4, <1>10, <2>1, <2>2, OperandMoreFits
  <2>4. StackFits(b)'
    <3>1. b.ws = a.ws
      BY <2>1 DEF PushesOperand
    <3> QED
      BY <1>4, <1>10, <3>1, OthersFit
  <2> QED
    BY <2>1, <2>3, <2>4, FitsIs
<1>11. HeightInv'
  BY <1>1, <1>4, <1>10, EndBalances
<1> QED
  BY <1>9, <1>11

\* The operand is used up, and the base of it free unless it is a frame's.
LEMMA StoresBalance ==
    ASSUME BalanceInv, EndAssignment \/ EndAddressOf
    PROVE  HeightInv' /\ UsedInv'
<1> DEFINE T == Free \cup {"RBP"}
<1>1. /\ ReservedInv /\ HeightInv /\ UsedInv
      /\ results \in Seq(Free) /\ lvalues \in Seq(T)
  BY DEF BalanceInv, ReservedInv
<1> HIDE DEF T
<1>2. /\ todo # <<>> /\ todo' = Rest /\ lvalues # <<>> /\ Top.op \in {"store", "lea"}
      /\ lvalues' = Front(lvalues) /\ used' = used \ FreedBase(Last(lvalues))
      /\ results' = results /\ stack' = stack
  BY DEF EndAssignment, EndAddressOf, Runs
<1>3. Len(lvalues) \in Nat /\ Len(lvalues) >= 1
  BY <1>1, <1>2, Stacks
<1>4. /\ Len(lvalues') = Len(lvalues) - 1
      /\ \A i \in 1..Len(lvalues) - 1 : lvalues'[i] = lvalues[i]
  <2>1. /\ Len(SubSeq(lvalues, 1, Len(lvalues) - 1)) = Len(lvalues) - 1
        /\ \A j \in 1..Len(lvalues) - 1 :
              SubSeq(lvalues, 1, Len(lvalues) - 1)[j] = lvalues[j]
    <3>1. 1 \in Nat
      OBVIOUS
    <3> QED
      BY <1>1, <1>3, <3>1, BelowIs
  <2> QED
    BY <1>2, <2>1 DEF Front
<1>5. UsedInv'
  <2>1. NoRegister \notin used'
    BY <1>1, <1>2 DEF UsedInv
  <2>2. ASSUME NEW q \in used'
        PROVE  \/ q \in Reserved
               \/ \E i \in 1..Len(results') : results'[i] = q
               \/ \E i \in 1..Len(lvalues') : lvalues'[i] = q
    <3>1. /\ q \notin FreedBase(Last(lvalues))
          /\ \/ q \in Reserved
             \/ \E i \in 1..Len(results) : results[i] = q
             \/ \E i \in 1..Len(lvalues) : lvalues[i] = q
      BY <1>1, <1>2, <2>2 DEF UsedInv
    <3>2. CASE \E i \in 1..Len(lvalues) : lvalues[i] = q
      <4>1. PICK i \in 1..Len(lvalues) : lvalues[i] = q
        BY <3>2
      <4>2. CASE i = Len(lvalues)
        <5>1. q = Last(lvalues)
          BY <4>1, <4>2 DEF Last
        <5>2. q \in {"RBP", "RSP"}
          BY <3>1, <5>1 DEF FreedBase
        <5> QED
          BY <5>2 DEF Reserved
      <4>3. CASE i # Len(lvalues)
        <5>1. i \in 1..Len(lvalues) - 1 /\ i \in 1..Len(lvalues')
          BY <1>3, <1>4, <4>3
        <5> QED
          BY <1>4, <4>1, <5>1
      <4> QED
        BY <4>2, <4>3
    <3> QED
      BY <1>2, <3>1, <3>2
  <2> QED
    BY <2>1, <2>2 DEF UsedInv
<1>6. ASSUME NEW a \in Layout, NEW b \in Layout, Fits(a), TaskRuns(Top, a, b)
      PROVE  Fits(b)'
  <2>1. /\ b.rs = a.rs /\ Within(a.res, b.res, a.rs)
        /\ a.ls >= 1 /\ b.ls = a.ls - 1 /\ Within(a.lvs, b.lvs, b.ls) /\ b.ws = a.ws
    BY <1>2, <1>6 DEF TaskRuns
  <2>2. OperandsFit(b)'
    BY <1>1, <1>2, <1>6, <2>1, OperandLessFits
  <2>3. ResultsFit(b)' /\ StackFits(b)'
    BY <1>2, <1>6, <2>1, OthersFit
  <2> QED
    BY <2>2, <2>3, FitsIs
<1>7. HeightInv'
  BY <1>1, <1>2, <1>6, EndBalances
<1> QED
  BY <1>5, <1>7

LEMMA AddressOfBalances ==
    ASSUME BalanceInv, CompileAddressOf
    PROVE  HeightInv' /\ UsedInv'
<1> DEFINE r == Available(Top.m)
           place == LValue(Kid(Top.path, 1), Top.e.kids[1])
           rest == Remainder("lea", Top.path, Top.e)
           S == Top.m \cup {NoRegister}
<1>1. /\ todo # <<>> /\ Top.op = "value" /\ todo' = <<place, rest>> \o Rest
      /\ used' = Marked(r) /\ results' = Append(results, r)
      /\ UNCHANGED <<lvalues, stack>>
  BY DEF CompileAddressOf, Runs
<1>2. /\ ReservedInv /\ HeightInv /\ UsedInv /\ AllTasks(todo)
      /\ results \in Seq(Free) /\ Reserved \subseteq used
  BY DEF BalanceInv, ReservedInv
<1>3. Top.m \subseteq Any /\ S \in SUBSET Register
  BY <1>1, <1>2, FirstTask, RegistersAre DEF TaskOK, Register
<1>4. r \in Free /\ r \in S
  BY <1>2, <1>3, AvailableIsFree
<1> HIDE DEF r
<1>5. UsedInv'
  BY <1>1, <1>2, <1>4, OneMoreUsed
<1>6. PICK a \in Layout, b \in Layout, z \in Layout :
        Fits(a) /\ TaskRuns(Top, a, b) /\ Effect(Rest, b, z) /\ Emptied(z)
  BY <1>1, <1>2, HeadRuns
<1>7. Pushes(a, b, S)
  BY <1>1, <1>6 DEF TaskRuns
<1> HIDE DEF S
<1>8. PICK c \in Layout :
        /\ c = Pushed(a, S) /\ c.rs = a.rs + 1 /\ c.res[a.rs + 1] = S
        /\ \A i \in 1..a.rs : c.res[i] = a.res[i]
        /\ c.ls = a.ls /\ c.lvs = a.lvs /\ c.ws = a.ws
  BY <1>3, PushedIs
<1>9. Fits(c)'
  <2>1. ResultsFit(c)'
    <3>1. Within(a.res, c.res, a.rs) /\ r \in c.res[c.rs]
      BY <1>4, <1>8 DEF Within
    <3> QED
      BY <1>1, <1>2, <1>4, <1>6, <1>8, <3>1, OneMoreFits
  <2>2. OperandsFit(c)' /\ StackFits(c)'
    <3>1. Within(a.lvs, c.lvs, a.ls)
      BY <1>8 DEF Within
    <3> QED
      BY <1>1, <1>6, <1>8, <3>1, OthersFit
  <2> QED
    BY <2>1, <2>2, FitsIs
<1>10. PICK d \in Layout :
          /\ d.rs = c.rs /\ d.res = c.res /\ d.ws = c.ws /\ d.ls = c.ls + 1
          /\ \A i \in 1..c.ls : d.lvs[i] = c.lvs[i]
          /\ TaskRuns(place, c, d)
  <2>1. PICK path, e : path = Kid(Top.path, 1) /\ e = Top.e.kids[1]
    OBVIOUS
  <2> QED
    BY <2>1, PlacedIs
<1> HIDE DEF place
<1>11. TaskRuns(rest, d, b)
  BY <1>3, <1>7, <1>8, <1>10, PlaceRuns
<1> HIDE DEF rest
<1>12. Effect(<<place, rest>>, c, b)
  BY <1>10, <1>11, EffectTwo
<1>13. HeightInv'
  BY <1>1, <1>2, <1>6, <1>9, <1>12, ListsAreSeqs, TasksFollow
<1> QED
  BY <1>5, <1>13

\* A division: rax, if in use, waits on the stack.
LEMMA OverBalances ==
    ASSUME BalanceInv, CompileOver
    PROVE  HeightInv' /\ UsedInv'
<1> DEFINE busy == "RAX" \in used
           operands == Operands(Top.path, Top.e, {"RAX"}, RhsMask(Top.m))
           rest == [op |-> "over", path |-> Top.path, e |-> Top.e,
                    m |-> Top.m, inRax |-> ~busy /\ "RAX" \in Top.m,
                    saved |-> IF busy THEN {"RAX"} ELSE {},
                    base |-> Len(results)]
           S == Top.m \cup {NoRegister}
<1>1. /\ todo # <<>> /\ Top.op = "value" /\ todo' = operands \o <<rest>> \o Rest
      /\ stack' = IF busy THEN Append(stack, regs["RAX"]) ELSE stack
      /\ used' \subseteq used /\ UNCHANGED <<results, lvalues>>
  BY DEF CompileOver, Runs
<1>2. ReservedInv /\ HeightInv /\ UsedInv /\ AllTasks(todo)
  BY DEF BalanceInv, ReservedInv
<1>3. Top.m \subseteq Any /\ RhsMask(Top.m) \subseteq Any /\ {"RAX"} \subseteq Any
  BY <1>1, <1>2, FirstTask, MasksAre DEF TaskOK
<1>4. /\ rest.op = "over" /\ rest.e = Top.e /\ rest.m = Top.m
      /\ rest.inRax => "RAX" \in Top.m
      /\ rest.saved = IF busy THEN {"RAX"} ELSE {}
  OBVIOUS
<1>5. IsSeq(operands)
  BY OperandsAreSeqs
<1>6. UsedInv'
  BY <1>1, <1>2, UsedStays
<1> HIDE DEF rest
<1>7. PICK a \in Layout, b \in Layout, z \in Layout :
        Fits(a) /\ TaskRuns(Top, a, b) /\ Effect(Rest, b, z) /\ Emptied(z)
  BY <1>1, <1>2, HeadRuns
<1>8. Pushes(a, b, S)
  BY <1>1, <1>7 DEF TaskRuns
<1>9. PICK k \in {0, 1} : k = IF busy THEN 1 ELSE 0
  OBVIOUS
<1>10. Cardinality(rest.saved) = k
  <2>1. CASE busy
    <3>1. rest.saved = {"RAX"} /\ k = 1
      BY <1>4, <1>9, <2>1
    <3>2. Cardinality({"RAX"}) = 1
      BY FS_Singleton
    <3> QED
      BY <3>1, <3>2
  <2>2. CASE ~busy
    <3>1. rest.saved = {} /\ k = 0
      BY <1>4, <1>9, <2>2
    <3>2. Cardinality({}) = 0
      BY FS_EmptySet
    <3> QED
      BY <3>1, <3>2
  <2> QED
    BY <2>1, <2>2
<1>11. PICK c \in Layout :
          /\ c.rs = a.rs /\ c.res = a.res /\ c.ls = a.ls /\ c.lvs = a.lvs /\ c.ws = a.ws + k
  <2>1. [rs |-> a.rs, res |-> a.res, ls |-> a.ls, lvs |-> a.lvs, ws |-> a.ws + k] \in Layout
    BY <1>9, LayoutIs DEF Layout
  <2> QED
    BY <2>1
<1>12. Fits(c)'
  <2>1. ResultsFit(c)' /\ OperandsFit(c)'
    BY <1>1, <1>7, <1>11, OthersFit DEF Within
  <2>2. StackFits(c)'
    <3>1. CASE busy
      <4>1. PICK T : stack \in Seq(T) /\ Len(stack) = a.ws
        BY <1>7 DEF Fits
      <4>2. stack \in Seq(T \cup {regs["RAX"]}) /\ regs["RAX"] \in T \cup {regs["RAX"]}
        BY <4>1, SeqMonotonic
      <4>3. stack' \in Seq(T \cup {regs["RAX"]}) /\ Len(stack') = Len(stack) + 1
        BY <1>1, <3>1, <4>2, AppendProperties
      <4>4. Len(stack') = c.ws
        BY <1>9, <1>11, <3>1, <4>1, <4>3
      <4> QED
        BY <4>3, <4>4 DEF StackFits
    <3>2. CASE ~busy
      <4>1. c.ws = a.ws
        BY <1>9, <1>11, <3>2, LayoutIs
      <4> QED
        BY <1>1, <1>7, <3>2, <4>1, OthersFit
    <3> QED
      BY <3>1, <3>2
  <2> QED
    BY <2>1, <2>2, FitsIs
<1>13. PICK d \in Layout :
         Effect(operands, c, d) /\ HasOperands(d, c, Top.e, {"RAX"} \cup {NoRegister})
  BY <1>3, OperandsRun
<1>14. TaskRuns(rest, d, b)
  <2> DEFINE L == d.res[LhsAt(Top.e, d.rs)]
  <2>1. /\ d.rs = c.rs + 2 /\ \A i \in 1..c.rs : d.res[i] = c.res[i]
        /\ L = {"RAX"} \cup {NoRegister}
        /\ d.ls = c.ls /\ d.lvs = c.lvs /\ d.ws = c.ws
    BY <1>13 DEF HasOperands
  <2>2. d.rs >= 2 /\ b.rs = d.rs - 1 /\ d.rs - 2 = a.rs
    BY <1>8, <1>11, <2>1, LayoutIs DEF Pushes
  <2>3. PICK W : W = IF rest.inRax THEN L ELSE rest.m \cup {NoRegister}
    OBVIOUS
  <2>4. W \subseteq S
    BY <1>4, <2>1, <2>3
  <2> HIDE DEF L, S
  <2>5. Combines(d, b, W)
    BY <1>8, <1>11, <2>1, <2>2, <2>4 DEF Pushes, Combines, Within, OnlyResults
  <2>6. d.ws = b.ws + Cardinality(rest.saved)
    BY <1>8, <1>10, <1>11, <2>1 DEF Pushes, OnlyResults
  <2>7. rest.saved \in {{}, {"RAX"}}
    BY <1>4
  <2>8. OverRuns(rest, d, b)
    BY <1>4, <2>1, <2>3, <2>5, <2>6, <2>7 DEF OverRuns, L
  <2> QED
    BY <1>4, <2>8 DEF TaskRuns
<1> HIDE DEF operands
<1>15. Effect(operands \o <<rest>>, c, b) /\ IsSeq(operands \o <<rest>>)
  BY <1>5, <1>13, <1>14, ThenLast
<1>16. HeightInv'
  BY <1>1, <1>2, <1>7, <1>12, <1>15, TasksFollow
<1> QED
  BY <1>6, <1>16

\* A call: each register saved belongs to an operand that waits, which the
\* layout from here on names exactly.
LEMMA CallBalances ==
    ASSUME BalanceInv, CompileCall
    PROVE  HeightInv' /\ UsedInv'
<1> DEFINE saved == used \cap Volatile
           call == [op |-> "call", path |-> Top.path, e |-> Top.e,
                    output |-> Available(Top.m), saved |-> saved,
                    base |-> Len(results)]
           S == Top.m \cup {NoRegister}
<1>1. PICK order \in ArgumentOrders(Top.e) :
         todo' = [i \in DOMAIN order |->
                    Casted(Kid(Top.path, order[i]), Top.e.kids[order[i]],
                           {ArgRegister[order[i]]}, Top.e.params[order[i]])]
                 \o <<call>> \o Rest
  BY DEF CompileCall, CallSaves
<1>2. PICK arguments :
         arguments = [i \in DOMAIN order |->
                        Casted(Kid(Top.path, order[i]), Top.e.kids[order[i]],
                               {ArgRegister[order[i]]}, Top.e.params[order[i]])]
  OBVIOUS
<1>3. todo' = arguments \o <<call>> \o Rest
  BY <1>1, <1>2
<1>4. /\ todo # <<>> /\ Top.op = "value" /\ Top.e.kind = "call"
      /\ stack' = stack \o [i \in 1..Len(Sorted(saved)) |-> regs[Sorted(saved)[i]]]
      /\ used' = used \ saved /\ UNCHANGED <<results, lvalues>>
  BY DEF CompileCall, CallSaves, Runs
<1>5. /\ ReservedInv /\ HeightInv /\ UsedInv /\ AllTasks(todo) /\ Reserved \subseteq used
      /\ results \in Seq(Free) /\ lvalues \in Seq(Free \cup {"RBP"})
  BY DEF BalanceInv, ReservedInv
<1>6. Top.m \subseteq Any /\ Top.e \in Expr
  BY <1>4, <1>5, FirstTask DEF TaskOK
<1>7. /\ call.op = "call" /\ call.e = Top.e /\ call.saved = saved
      /\ call.output \in S
  BY <1>5, <1>6, AvailableIsFree
<1> HIDE DEF call
<1>8. UsedInv'
  BY <1>4, <1>5, UsedStays
<1>9. PICK a \in Layout, b \in Layout, z \in Layout :
        Fits(a) /\ TaskRuns(Top, a, b) /\ Effect(Rest, b, z) /\ Emptied(z)
  BY <1>4, <1>5, HeadRuns
<1>10. Pushes(a, b, S)
  BY <1>4, <1>9 DEF TaskRuns
<1> HIDE DEF S
<1>11. PICK k \in Nat : k = Cardinality(saved) /\ Len(Sorted(saved)) = k
  <2>1. saved \subseteq Volatile
    OBVIOUS
  <2> HIDE DEF saved
  <2> QED
    BY <2>1, VolatileFinite, SortedIs
<1>12. /\ Len(results) = a.rs /\ \A i \in 1..a.rs : results[i] \in a.res[i]
       /\ Len(lvalues) = a.ls /\ \A i \in 1..a.ls : lvalues[i] \in a.lvs[i]
       /\ a.rs \in Nat /\ a.ls \in Nat /\ a.ws \in Nat
  BY <1>9, LayoutIs DEF Fits
\* the layout that names the registers
<1>13. PICK c \in Layout :
          /\ c.rs = a.rs /\ \A i \in 1..a.rs : c.res[i] = {results[i]}
          /\ c.ls = a.ls /\ \A i \in 1..a.ls : c.lvs[i] = {lvalues[i]}
          /\ c.ws = a.ws + k
  <2> DEFINE f == [i \in Nat |-> IF i \in 1..a.rs THEN {results[i]} ELSE {}]
             g == [i \in Nat |-> IF i \in 1..a.ls THEN {lvalues[i]} ELSE {}]
             d == [rs |-> a.rs, res |-> f, ls |-> a.ls, lvs |-> g, ws |-> a.ws + k]
  <2>1. Free \subseteq Register /\ Free \cup {"RBP"} \subseteq Register
    BY RegistersAre DEF Free, Register
  <2>2. \A i \in 1..a.rs : results[i] \in Register
    BY <1>5, <1>12, <2>1, ElementOfSeq
  <2>3. \A i \in 1..a.ls : lvalues[i] \in Register
    BY <1>5, <1>12, <2>1, ElementOfSeq
  <2>4. f \in [Nat -> SUBSET Register] /\ g \in [Nat -> SUBSET Register]
    BY <2>2, <2>3
  <2>5. (\A i \in 1..a.rs : f[i] = {results[i]}) /\ (\A i \in 1..a.ls : g[i] = {lvalues[i]})
    BY <1>12
  <2> HIDE DEF f, g
  <2>6. d \in Layout
    BY <1>11, <1>12, <2>4 DEF Layout
  <2>7. d.rs = a.rs /\ d.res = f /\ d.ls = a.ls /\ d.lvs = g /\ d.ws = a.ws + k
    OBVIOUS
  <2> HIDE DEF d
  <2> QED
    BY <2>5, <2>6, <2>7
<1>14. PICK n \in Nat : n = Len(Top.e.kids)
  BY <1>4, <1>6, ArgumentsAre
<1>15. PICK first \in Layout : first = Argued(c, Top.e, 0) /\ HasArguments(first, c, Top.e, 0)
  BY <1>4, <1>6, ArguedIs
<1>16. PICK last \in Layout : last = Argued(c, Top.e, n) /\ HasArguments(last, c, Top.e, n)
  BY <1>4, <1>6, ArguedIs
<1>17. Effect(arguments, first, last)
  BY <1>2, <1>4, <1>6, <1>14, <1>15, <1>16, ArgumentsRun
<1>18. Fits(first)'
  <2>1. /\ first.rs = a.rs /\ \A i \in 1..a.rs : first.res[i] = {results[i]}
        /\ first.ls = a.ls /\ \A i \in 1..a.ls : first.lvs[i] = {lvalues[i]}
        /\ first.ws = a.ws + k
    BY <1>12, <1>13, <1>15 DEF HasArguments
  <2>2. ResultsFit(first)' /\ OperandsFit(first)'
    BY <1>4, <1>12, <2>1 DEF ResultsFit, OperandsFit
  <2>3. StackFits(first)'
    <3> DEFINE T == {regs[Sorted(saved)[i]] : i \in 1..k}
               s == [i \in 1..k |-> regs[Sorted(saved)[i]]]
    <3>1. s \in [1..k -> T] /\ DOMAIN s = 1..k
      OBVIOUS
    <3>2. stack' = stack \o s
      BY <1>4, <1>11
    <3> HIDE DEF s, T
    <3>3. s \in Seq(T) /\ Len(s) = k
      <4>1. k \in Nat
        OBVIOUS
      <4> QED
        BY ONLY <3>1, <4>1
    <3> QED
      BY <1>9, <2>1, <3>2, <3>3, StackGrows
  <2> QED
    BY <2>2, <2>3, FitsIs
<1>19. CallRuns(call, last, b)
  <2>1. /\ last.rs = a.rs + n /\ \A i \in 1..a.rs : last.res[i] = {results[i]}
        /\ \A i \in a.rs + 1 .. a.rs + n : last.res[i] = Arguments(Top.e) \cup {NoRegister}
        /\ last.ls = a.ls /\ \A i \in 1..a.ls : last.lvs[i] = {lvalues[i]}
        /\ last.ws = a.ws + k
    BY <1>13, <1>16 DEF HasArguments
  <2>2. /\ b.rs = a.rs + 1 /\ Within(a.res, b.res, a.rs) /\ S \subseteq b.res[b.rs]
        /\ b.ls = a.ls /\ Within(a.lvs, b.lvs, a.ls) /\ b.ws = a.ws
    BY <1>10 DEF Pushes, OnlyResults
  <2>3. last.rs >= n /\ last.rs - n = a.rs /\ b.rs = last.rs - n + 1
    BY <1>12, <2>1, <2>2
  <2>4. Within(last.res, b.res, last.rs - n) /\ Within(last.lvs, b.lvs, last.ls)
    <3>1. ASSUME NEW i \in 1..a.rs PROVE last.res[i] \subseteq b.res[i]
      <4>1. a.res[i] \subseteq b.res[i]
        BY <2>2 DEF Within
      <4>2. last.res[i] = {results[i]} /\ results[i] \in a.res[i]
        BY <1>12, <2>1
      <4> QED
        BY <4>1, <4>2
    <3>2. ASSUME NEW i \in 1..a.ls PROVE last.lvs[i] \subseteq b.lvs[i]
      <4>1. a.lvs[i] \subseteq b.lvs[i]
        BY <2>2 DEF Within
      <4>2. last.lvs[i] = {lvalues[i]} /\ lvalues[i] \in a.lvs[i]
        BY <1>12, <2>1
      <4> QED
        BY <4>1, <4>2
    <3> QED
      BY <2>1, <2>3, <3>1, <3>2 DEF Within
  <2>5. \A i \in last.rs - n + 1 .. last.rs :
           last.res[i] \subseteq Arguments(Top.e) \cup {NoRegister}
    BY <1>12, <2>1
  <2>6. ASSUME NEW r \in saved
        PROVE  \/ \E i \in 1..last.rs - n : last.res[i] = {r}
               \/ \E i \in 1..last.ls : last.lvs[i] = {r}
    <3>1. r \in used /\ r \notin Reserved
      BY <2>6, RegistersAre DEF Free
    <3>2. \/ \E i \in 1..Len(results) : results[i] = r
          \/ \E i \in 1..Len(lvalues) : lvalues[i] = r
      BY <1>5, <3>1 DEF UsedInv
    <3>3. CASE \E i \in 1..Len(results) : results[i] = r
      <4>1. PICK i \in 1..a.rs : results[i] = r
        BY <1>12, <3>3
      <4>2. last.res[i] = {r} /\ i \in 1..last.rs - n
        BY <2>1, <2>3, <4>1
      <4> QED
        BY <4>2
    <3>4. CASE \E i \in 1..Len(lvalues) : lvalues[i] = r
      <4>1. PICK i \in 1..a.ls : lvalues[i] = r
        BY <1>12, <3>4
      <4>2. last.lvs[i] = {r} /\ i \in 1..last.ls
        BY <2>1, <4>1
      <4> QED
        BY <4>2
    <3> QED
      BY <3>2, <3>3, <3>4
  <2>7. last.ws = b.ws + Cardinality(saved)
    BY <1>11, <2>1, <2>2
  <2> HIDE DEF saved
  <2> QED
    BY <1>7, <1>14, <2>1, <2>2, <2>3, <2>4, <2>5, <2>6, <2>7 DEF CallRuns
<1>20. TaskRuns(call, last, b)
  BY <1>7, <1>19 DEF TaskRuns
<1>21. IsSeq(arguments)
  <2>1. order \in [1..n -> 1..n]
    BY <1>1, <1>14 DEF ArgumentOrders
  <2> DEFINE task(i) == Casted(Kid(Top.path, order[i]), Top.e.kids[order[i]],
                               {ArgRegister[order[i]]}, Top.e.params[order[i]])
             T == {task(i) : i \in 1..n}
  <2>2. arguments \in [1..n -> T]
    BY <1>2, <2>1
  <2> HIDE DEF T
  <2>3. arguments \in Seq(T)
    BY ONLY <2>2, <1>14
  <2> QED
    BY <2>3, SMTT(60) DEF IsSeq
<1>22. Effect(arguments \o <<call>>, first, b) /\ IsSeq(arguments \o <<call>>)
  BY <1>17, <1>20, <1>21, ThenLast
<1>23. HeightInv'
  BY <1>3, <1>4, <1>5, <1>9, <1>18, <1>22, TasksFollow
<1> QED
  BY <1>8, <1>23

\* A statement begins with empty stacks and no task.
LEMMA BeginBalances ==
    ASSUME BalanceInv, NEW st \in Statement, Begin(st)
    PROVE  HeightInv' /\ UsedInv'
<1>1. ReservedInv /\ HeightInv /\ UsedInv
  BY DEF BalanceInv
<1>2. todo = <<>> /\ UNCHANGED <<results, lvalues, used, stack>>
  BY DEF Begin
<1>3. UsedInv'
  BY <1>1, <1>2, UsedStays
<1>4. PICK a \in Layout : Fits(a) /\ Emptied(a)
  <2>1. PICK a \in Layout, z \in Layout : Fits(a) /\ Effect(todo, a, z) /\ Emptied(z)
    BY <1>1 DEF HeightInv, Emptied
  <2>2. z = a
    BY <1>2, <2>1, EffectNone
  <2> QED
    BY <2>1, <2>2
<1>5. Any \subseteq Any /\ {"RAX"} \subseteq Any
  BY RegistersAre
\* a value and the end of the statement
<1>6. ASSUME NEW m, m \subseteq Any, NEW t, NEW need,
             \A b \in Layout, c \in Layout :
                TaskRuns(t, b, c) <=> Pushes(b, c, m \cup {NoRegister})
      PROVE  Effect(<<t>> \o StatementEnd(st, need), a, a)
  <2> DEFINE S == m \cup {NoRegister}
             end == [op |-> "statement", path |-> <<>>, e |-> st.e, need |-> need,
                     kind |-> st.kind]
  <2>1. S \in SUBSET Register
    BY <1>6, RegistersAre DEF Register
  <2>2. StatementEnd(st, need) = <<end>> /\ end.op = "statement"
    BY DEF StatementEnd
  <2> HIDE DEF S, end
  <2>3. PICK c \in Layout :
          /\ Pushes(a, c, S) /\ c.rs = a.rs + 1 /\ \A i \in 1..a.rs : c.res[i] = a.res[i]
          /\ c.ls = a.ls /\ c.lvs = a.lvs /\ c.ws = a.ws
    BY <2>1, PushedIs
  <2>4. TaskRuns(t, a, c)
    BY <1>6, <2>3 DEF S
  <2>5. c.rs >= 1 /\ a.rs = c.rs - 1
    BY <2>3, LayoutIs
  <2>6. TaskRuns(end, c, a)
    BY <2>2, <2>3, <2>5 DEF TaskRuns, Within, OnlyResults
  <2>7. Effect(<<t>>, a, c)
    BY <2>4, EffectOne
  <2>8. Effect(<<t>> \o <<end>>, a, a)
    BY <2>6, <2>7, ListsAreSeqs, ThenLast
  <2> QED
    BY <2>2, <2>8
<1>7. ASSUME NEW need, NEW m, m \subseteq Any
      PROVE  /\ Effect(<<Compile(<<>>, st.e, m)>> \o StatementEnd(st, need), a, a)
             /\ \A to : Effect(<<Casted(<<>>, st.e, m, to)>> \o StatementEnd(st, need), a, a)
  <2>1. PICK t : t = Compile(<<>>, st.e, m)
    OBVIOUS
  <2>2. \A b \in Layout, c \in Layout : TaskRuns(t, b, c) <=> Pushes(b, c, m \cup {NoRegister})
    BY <2>1, ValueRuns
  <2>3. ASSUME NEW to
        PROVE  Effect(<<Casted(<<>>, st.e, m, to)>> \o StatementEnd(st, need), a, a)
    <3>1. PICK u : u = Casted(<<>>, st.e, m, to)
      OBVIOUS
    <3>2. \A b \in Layout, c \in Layout :
             TaskRuns(u, b, c) <=> Pushes(b, c, m \cup {NoRegister})
      BY <3>1, ValueRuns
    <3> QED
      BY <1>6, <1>7, <3>1, <3>2
  <2> QED
    BY <1>6, <1>7, <2>1, <2>2, <2>3
\* both operands, and the comparison
<1>8. Effect(Operands(<<>>, st.e, Any, Any) \o <<Remainder("compare", <<>>, st.e)>>, a, a)
  <2> DEFINE t == Remainder("compare", <<>>, st.e)
             path == <<>>
             operands == Operands(path, st.e, Any, Any)
  <2>1. t.op = "compare"
    BY DEF Remainder
  <2>2. PICK c \in Layout :
          Effect(operands, a, c) /\ HasOperands(c, a, st.e, Any \cup {NoRegister})
    BY <1>5, OperandsRun
  <2>3. IsSeq(operands)
    BY OperandsAreSeqs
  <2> HIDE DEF t
  <2>4. /\ c.rs = a.rs + 2 /\ \A i \in 1..a.rs : c.res[i] = a.res[i]
        /\ c.ls = a.ls /\ c.lvs = a.lvs /\ c.ws = a.ws
    BY <2>2 DEF HasOperands
  <2>5. c.rs >= 2 /\ a.rs = c.rs - 2
    BY <2>4, LayoutIs
  <2>6. TaskRuns(t, c, a)
    BY <2>1, <2>4, <2>5 DEF TaskRuns, Within, OnlyResults
  <2> HIDE DEF operands
  <2>7. Effect(operands \o <<t>>, a, a)
    BY <2>2, <2>3, <2>6, ThenLast
  <2> QED
    BY <2>7 DEF operands, t
<1>9. Effect(todo', a, a)
  <2>1. \/ \E m, need : m \subseteq Any
              /\ todo' = <<Compile(<<>>, st.e, m)>> \o StatementEnd(st, need)
        \/ \E m, to, need : m \subseteq Any
              /\ todo' = <<Casted(<<>>, st.e, m, to)>> \o StatementEnd(st, need)
        \/ todo' = Operands(<<>>, st.e, Any, Any) \o <<Remainder("compare", <<>>, st.e)>>
    BY <1>5, Zenon DEF Begin
  <2> QED
    BY <1>7, <1>8, <2>1
<1>10. Fits(a)'
  BY <1>2, <1>4 DEF Fits
<1>11. Effect(todo, a, a)'
  BY <1>9 DEF Effect
<1>12. HeightInv'
  BY <1>4, <1>10, <1>11 DEF HeightInv, Emptied
<1> QED
  BY <1>3, <1>12

LEMMA BalanceInit == Init => BalanceInv
<1> SUFFICES ASSUME Init PROVE BalanceInv
  OBVIOUS
<1>1. PICK a \in Layout : a.rs = 0 /\ a.ls = 0 /\ a.ws = 0
  <2>1. [rs |-> 0, res |-> [i \in Nat |-> {}], ls |-> 0, lvs |-> [i \in Nat |-> {}], ws |-> 0]
           \in Layout
    BY DEF Layout
  <2> QED
    BY <2>1
<1>2. Fits(a)
  <2>1. <<>> \in Seq({}) /\ Len(<<>>) = 0 /\ 1..0 = {}
    BY EmptySeq
  <2> QED
    BY <1>1, <2>1 DEF Init, Fits
<1>3. Effect(todo, a, a)
  BY EffectNone DEF Init
<1>4. HeightInv
  BY <1>1, <1>2, <1>3 DEF HeightInv
<1>5. UsedInv
  BY DEF Init, UsedInv, Reserved, NoRegister
<1> QED
  BY <1>4, <1>5, ReservedInit DEF BalanceInv

LEMMA BalanceStep == BalanceInv /\ Next => BalanceInv'
<1> SUFFICES ASSUME BalanceInv, Next PROVE BalanceInv'
  OBVIOUS
<1>1. HeightInv' /\ UsedInv'
  <2>1. CASE \E st \in Statement : Begin(st)
    BY <2>1, BeginBalances
  <2>2. CASE EndStatement \/ EndCompare
    BY <2>2, EndsBalance
  <2>3. CASE CompileLeaf \/ CompileIntCasted
    BY <2>3, LeavesBalance
  <2>4. CASE Cast \/ Scale \/ Load
    BY <2>4, InPlaceBalances
  <2>5. CASE EndBinary \/ AddOffset
    BY <2>5, PairsBalance
  <2>6. CASE CompileCasted \/ CompileBinary \/ CompileLoad
             \/ LValueInRegister \/ CompileAssignment
    BY <2>6, CastedBalances, BinaryBalances, LoadBalances, InRegisterBalances,
       AssignmentBalances
  <2>7. CASE CompileOver \/ EndOver
    BY <2>7, OverBalances, EndOverBalances
  <2>8. CASE CompileCall \/ EndCall
    BY <2>8, CallBalances, EndCallBalances
  <2>9. CASE LValueOfVariable \/ EndLValue
    BY <2>9, PlacesBalance
  <2>10. CASE EndAssignment \/ EndAddressOf
    BY <2>10, StoresBalance
  <2>11. CASE CompileAddressOf
    BY <2>11, AddressOfBalances
  <2> QED
    BY <2>1, <2>2, <2>3, <2>4, <2>5, <2>6, <2>7, <2>8, <2>9, <2>10, <2>11 DEF Next
<1>2. ReservedInv'
  BY ReservedStep DEF BalanceInv, Keeps
<1> QED
  BY <1>1, <1>2 DEF BalanceInv

\* The invariant behind the next theorem: the tasks still to run take from the
\* stacks what the handlers before them put there, no more and no less, and
\* no register is in use without an operand that waits in it.
THEOREM BalanceInvariant == Spec => []BalanceInv
<1>1. BalanceInv /\ UNCHANGED vars => BalanceInv'
  <2> SUFFICES ASSUME BalanceInv, UNCHANGED vars PROVE BalanceInv'
    OBVIOUS
  <2>1. ReservedInv'
    BY DEF BalanceInv, ReservedInv, AllTasks, vars
  <2>2. UsedInv'
    BY UsedStays DEF BalanceInv, vars
  <2>3. PICK a \in Layout, z \in Layout : Fits(a) /\ Effect(todo, a, z) /\ Emptied(z)
    BY DEF BalanceInv, HeightInv, Emptied
  <2>4. Fits(a)' /\ Effect(todo, a, z)'
    BY <2>3 DEF Fits, Effect, vars
  <2>5. HeightInv'
    BY <2>3, <2>4 DEF HeightInv, Emptied
  <2> QED
    BY <2>1, <2>2, <2>5 DEF BalanceInv
<1>2. BalanceInv /\ [Next]_vars => BalanceInv'
  BY <1>1, BalanceStep
<1> QED
  BY BalanceInit, <1>2, PTL DEF Spec

LEMMA BalancedLeavesNothing == BalanceInv => StatementLeavesNothing
<1> SUFFICES ASSUME BalanceInv, todo = <<>>
             PROVE  used = Reserved /\ stack = <<>> /\ results = <<>> /\ lvalues = <<>>
  BY DEF StatementLeavesNothing
<1>1. PICK a \in Layout, z \in Layout : Fits(a) /\ Effect(todo, a, z) /\ Emptied(z)
  BY DEF BalanceInv, HeightInv, Emptied
<1>2. Emptied(a)
  BY <1>1, EffectNone
<1>3. /\ results \in Seq(Free) /\ Len(results) = 0
      /\ lvalues \in Seq(Free \cup {"RBP"}) /\ Len(lvalues) = 0
      /\ \E S : stack \in Seq(S) /\ Len(stack) = 0
  BY <1>1, <1>2 DEF Fits, Emptied, BalanceInv, ReservedInv
<1>4. results = <<>> /\ lvalues = <<>> /\ stack = <<>>
  BY <1>3, EmptySeq
<1>5. 1..Len(results) = {} /\ 1..Len(lvalues) = {}
  BY <1>3
<1>6. used = Reserved
  BY <1>5 DEF BalanceInv, ReservedInv, UsedInv
<1> QED
  BY <1>4, <1>6

\* However deep the expression, with calls and divisions in any place: when its
\* statement ends, all of the allocator's registers are free, every push of the
\* code has been popped, and no handler's result is left over.
THEOREM StatementsLeaveNothing == Spec => []StatementLeavesNothing
BY BalanceInvariant, BalancedLeavesNothing, PTL

------------------------------------------------------------------------------
(* The encoder: what the bytes of an instruction are, and what the         *)
(* processor reads in them.  First numbers, prefixes and the r/m operand.  *)

\* What 4 bytes can hold, as a signed number.
Signed32 == {v \in Int : v >= -2147483648 /\ v <= 2147483647}

LEMMA BytesOf ==
    ASSUME NEW v \in Signed32
    PROVE  LET d == (v \div 16777216) % 256 IN
           /\ (v % 256) + 256 * ((v \div 256) % 256) + 65536 * ((v \div 65536) % 256)
                 + 16777216 * (IF d > 127 THEN d - 256 ELSE d) = v
           /\ v % 256 \in 0..255 /\ (v \div 256) % 256 \in 0..255
           /\ (v \div 65536) % 256 \in 0..255 /\ d \in 0..255
<1> DEFINE q1 == v \div 256
           q2 == v \div 65536
           q3 == v \div 16777216
<1>0. v \in Int /\ v >= -2147483648 /\ v <= 2147483647
  BY SMT DEF Signed32
<1>1. /\ q1 \in Int /\ q2 \in Int /\ q3 \in Int
      /\ q2 = q1 \div 256 /\ q3 = q2 \div 256
  BY <1>0, SMT
<1>2. v = 256 * q1 + (v % 256) /\ v % 256 \in 0..255
  BY <1>0, SMT
<1>3. q3 >= -128 /\ q3 <= 127
  BY <1>0, SMT
<1> HIDE DEF q1, q2, q3
<1>4. q1 = 256 * q2 + (q1 % 256) /\ q1 % 256 \in 0..255
  BY <1>1, SMT
<1>5. q2 = 256 * q3 + (q2 % 256) /\ q2 % 256 \in 0..255
  BY <1>1, SMT
<1>6. q3 % 256 \in 0..255 /\ (IF q3 % 256 > 127 THEN (q3 % 256) - 256 ELSE q3 % 256) = q3
  BY <1>1, <1>3, SMT
<1>7. v = (v % 256) + 256 * (q1 % 256) + 65536 * (q2 % 256) + 16777216 * q3
  <2>1. PICK r0 \in Int, r1 \in Int, r2 \in Int :
          r0 = v % 256 /\ r1 = q1 % 256 /\ r2 = q2 % 256
    BY <1>0, <1>1, SMT
  <2>2. v = 256 * q1 + r0 /\ q1 = 256 * q2 + r1 /\ q2 = 256 * q3 + r2
    BY <1>2, <1>4, <1>5, <2>1
  <2>3. v = r0 + 256 * r1 + 65536 * r2 + 16777216 * q3
    BY <1>1, <2>1, <2>2, SMT
  <2> QED
    BY <2>1, <2>3
<1> QED
  BY <1>2, <1>4, <1>5, <1>6, <1>7 DEF q1, q2, q3

LEMMA WrittenIs ==
    ASSUME NEW v \in Signed32, NEW n \in {4, 8}
    PROVE  /\ Written(v, n) \in Seq(Int) /\ Len(Written(v, n)) = n
           /\ Number(SubSeq(Written(v, n), 1, 4)) = v
<1> DEFINE w == Written(v, n)
<1>1. w = [k \in 1..n |-> IF k <= 4 THEN (v \div Power256[k]) % 256
                          ELSE IF v < 0 THEN 255 ELSE 0]
  BY SMT DEF Written
<1>2. 1 \in 1..n /\ 2 \in 1..n /\ 3 \in 1..n /\ 4 \in 1..n
  OBVIOUS
<1>3. /\ w[1] = (v \div 1) % 256 /\ w[2] = (v \div 256) % 256
      /\ w[3] = (v \div 65536) % 256 /\ w[4] = (v \div 16777216) % 256
  <2>1. /\ Power256[1] = 1 /\ Power256[2] = 256 /\ Power256[3] = 65536
        /\ Power256[4] = 16777216
    BY SMT DEF Power256
  <2> HIDE DEF w
  <2> QED
    BY <1>1, <1>2, <2>1, SMT
<1>4. /\ w[1] = v % 256
      /\ w[1] \in 0..255 /\ w[2] \in 0..255 /\ w[3] \in 0..255 /\ w[4] \in 0..255
  <2> HIDE DEF w
  <2>1. v \in Int /\ v \div 1 = v
    BY SMT DEF Signed32
  <2> QED
    BY <1>3, <2>1, BytesOf
<1>5. DOMAIN w = 1..n
  BY <1>1
<1>6. \A k \in 1..n : w[k] \in Int
  <2> HIDE DEF w
  <2>1. \A k \in 1..n : k <= 4 => k \in {1, 2, 3, 4}
    OBVIOUS
  <2>2. \A k \in 1..n : ~(k <= 4) => w[k] \in {0, 255}
    BY <1>1
  <2> QED
    BY <1>4, <2>1, <2>2
<1> HIDE DEF w
<1>7. w = [k \in 1..n |-> w[k]]
  BY <1>1, <1>5
<1>8. w \in [1..n -> Int]
  BY <1>6, <1>7
<1>9. w \in Seq(Int) /\ Len(w) = n
  BY ONLY <1>8, n \in {4, 8}
<1>10. Number(SubSeq(w, 1, 4)) = v
  <2> DEFINE s == SubSeq(w, 1, 4)
  <2>1. Len(s) = 4 /\ s[1] = w[1] /\ s[2] = w[2] /\ s[3] = w[3] /\ s[4] = w[4]
    BY ONLY <1>9, n \in {4, 8}
  <2> HIDE DEF s
  <2> QED
    BY <1>3, <1>4, <2>1, BytesOf, SMT DEF Number
<1> QED
  BY <1>9, <1>10 DEF w

LEMMA Cons ==
    ASSUME NEW a \in Int, NEW s \in Seq(Int)
    PROVE  /\ <<a>> \o s \in Seq(Int) /\ Tail(<<a>> \o s) = s /\ (<<a>> \o s)[1] = a
           /\ Len(<<a>> \o s) = Len(s) + 1
           /\ \A i \in 1..Len(s) : (<<a>> \o s)[i + 1] = s[i]
<1>1. <<a>> \in Seq(Int) /\ Len(<<a>>) = 1 /\ <<a>>[1] = a
  OBVIOUS
<1>2. Len(s) \in Nat
  BY LenProperties
<1> DEFINE t == <<a>> \o s
<1>3. /\ t \in Seq(Int) /\ Len(t) = 1 + Len(s)
      /\ \A i \in 1 .. 1 + Len(s) : t[i] = IF i <= 1 THEN <<a>>[i] ELSE s[i - 1]
  BY <1>1, ConcatProperties
<1> HIDE DEF t
<1>4. /\ t[1] = a
      /\ \A i \in 1..Len(s) : t[i + 1] = s[i]
  BY <1>1, <1>2, <1>3
<1>5. t # <<>>
  BY <1>2, <1>3, EmptySeq
<1>6. /\ Tail(t) \in Seq(Int) /\ Len(Tail(t)) = Len(s)
      /\ \A i \in 1..Len(Tail(t)) : Tail(t)[i] = t[i + 1]
  BY <1>2, <1>3, <1>5, HeadTailProperties
<1>7. Tail(t) = s
  BY <1>4, <1>6, SeqEqual
<1> QED
  BY <1>2, <1>3, <1>4, <1>7 DEF t

LEMMA Prefixed ==
    ASSUME NEW a \in Int, NEW s \in Seq(Int), NEW t \in Seq(Int)
    PROVE  (<<a>> \o s) \o t = <<a>> \o (s \o t)
<1>1. <<a>> \in Seq(Int)
  OBVIOUS
<1> QED
  BY <1>1, ConcatAssociative

LEMMA RegIds ==
    ASSUME NEW r \in HasId
    PROVE  /\ RegId(r) \in 0..7 /\ RegName[RegId(r) + 1] = r
           /\ r \in {"RSP", "RBP", "RSI", "RDI"} <=> RegId(r) >= 4
           /\ RegId(r) = 4 <=> r = "RSP"
           /\ RegId(r) = 5 <=> r = "RBP"
<1>1. PICK k \in 1..8 : RegName[k] = r
  BY DEF HasId
<1> DEFINE q == CHOOSE i \in 1..8 : RegName[i] = r
<1>2. q \in 1..8 /\ RegName[q] = r
  BY <1>1
<1>3. RegId(r) = q - 1
  BY DEF RegId
<1> HIDE DEF q
<1>4. \/ q = 1 \/ q = 2 \/ q = 3 \/ q = 4 \/ q = 5 \/ q = 6 \/ q = 7 \/ q = 8
  BY <1>2
<1> QED
  BY <1>2, <1>3, <1>4 DEF RegName

LEMMA Fields ==
    ASSUME NEW mode \in 0..3, NEW f \in 0..7, NEW id \in 0..7
    PROVE  LET b == 64 * mode + 8 * f + id IN
           b \div 64 = mode /\ b % 8 = id /\ (b \div 8) % 8 = f
BY SMT

\* Operands that one ModRM byte and a displacement can say.
InMemory == {MemRead(r) : r \in HasId \ {"RSP", "RBP"}}
            \cup {MemReadDisp(r, d) : r \in HasId \ {"RSP"}, d \in Signed32}
Addressed == {Basic(r) : r \in HasId} \cup InMemory

OperandSize == {1, 4, 8}

\* The REX bytes the encoder writes, and 0 for none.
RexByte == {0, 64, 72}

LEMMA ModRMIs ==
    ASSUME NEW rm \in Addressed, NEW f \in 0..7
    PROVE  /\ ModRM(rm, f) \in Seq(Int)
           /\ Len(ModRM(rm, f)) >= 1
           /\ (ModRM(rm, f)[1] \div 8) % 8 = f
           /\ rm # None
           /\ \A s \in Seq(Int), size \in OperandSize, rex \in RexByte :
                 (size = 1 /\ rex = 0 => rm \in InMemory \/ RegId(rm.base) < 4)
                 => ReadRM(ModRM(rm, f) \o s, size, rex) = [rm |-> rm, len |-> Len(ModRM(rm, f))]
<1>1. CASE rm \in {Basic(r) : r \in HasId}
  <2>1. PICK r \in HasId : rm = Basic(r)
    BY <1>1
  <2> DEFINE b == 192 + 8 * f + RegId(r)
  <2>2. ModRM(rm, f) = <<b>>
    BY <2>1 DEF ModRM, Basic
  <2>3. RegId(r) \in 0..7 /\ RegName[RegId(r) + 1] = r
    BY RegIds
  <2>4. b \in Int /\ b \div 64 = 3 /\ b % 8 = RegId(r) /\ (b \div 8) % 8 = f
    BY <2>3, SMT
  <2> HIDE DEF b
  <2>5. ASSUME NEW s \in Seq(Int), NEW size \in OperandSize, NEW rex \in RexByte,
               size = 1 /\ rex = 0 => RegId(r) < 4
        PROVE  ReadRM(<<b>> \o s, size, rex) = [rm |-> rm, len |-> 1]
    <3>1. (<<b>> \o s)[1] = b
      BY <2>4, Cons
    <3>2. RegisterNamed(RegId(r), size, rex) = r
      BY <2>3, <2>5 DEF RegisterNamed
    <3> QED
      BY <2>1, <2>4, <3>1, <3>2, SMTT(60) DEF ReadRM
  <2>6. rm \notin InMemory /\ rm.base = r /\ rm # None
    <3>1. rm.mode = "basic" /\ None.mode = "none" /\ rm.base = r
      BY <2>1 DEF Basic, None
    <3>2. ASSUME NEW o \in InMemory PROVE o.mode # "basic"
      BY DEF InMemory, MemRead, MemReadDisp
    <3> QED
      BY <3>1, <3>2
  <2> QED
    BY <2>2, <2>4, <2>5, <2>6
<1>2. CASE rm \in {MemRead(r) : r \in HasId \ {"RSP", "RBP"}}
  <2>1. PICK r \in HasId \ {"RSP", "RBP"} : rm = MemRead(r)
    BY <1>2
  <2> DEFINE b == 8 * f + RegId(r)
  <2>2. ModRM(rm, f) = <<b>>
    BY <2>1 DEF ModRM, MemRead
  <2>3. RegId(r) \in 0..7 /\ RegName[RegId(r) + 1] = r /\ RegId(r) \notin {4, 5}
    BY RegIds
  <2>4. b \in Int /\ b \div 64 = 0 /\ b % 8 = RegId(r) /\ (b \div 8) % 8 = f
    BY <2>3, SMT
  <2> HIDE DEF b
  <2>5. ASSUME NEW s \in Seq(Int), NEW size \in OperandSize, NEW rex \in RexByte
        PROVE  ReadRM(<<b>> \o s, size, rex) = [rm |-> rm, len |-> 1]
    <3>1. (<<b>> \o s)[1] = b
      BY <2>4, Cons
    <3> QED
      BY <2>1, <2>3, <2>4, <3>1 DEF ReadRM
  <2>6. rm # None /\ Len(<<b>>) = 1 /\ <<b>>[1] = b /\ <<b>> \in Seq(Int)
    <3>1. rm.mode = "read" /\ None.mode = "none"
      BY <2>1 DEF MemRead, None
    <3> QED
      BY <2>4, <3>1
  <2> QED
    BY <2>2, <2>4, <2>5, <2>6
<1>3. CASE rm \in {MemReadDisp(r, d) : r \in HasId \ {"RSP"}, d \in Signed32}
  <2>1. PICK r \in HasId \ {"RSP"}, d \in Signed32 : rm = MemReadDisp(r, d)
    BY <1>3
  <2> DEFINE b == 128 + 8 * f + RegId(r)
  <2>9. PICK w : w = Written(d, 4)
    OBVIOUS
  <2>2. ModRM(rm, f) = <<b>> \o w
    BY <2>1, <2>9 DEF ModRM, MemReadDisp
  <2>3. RegId(r) \in 0..7 /\ RegName[RegId(r) + 1] = r /\ RegId(r) # 4
    BY RegIds
  <2>4. b \in Int /\ b \div 64 = 2 /\ b % 8 = RegId(r) /\ (b \div 8) % 8 = f
    BY <2>3, SMT
  <2>5. w \in Seq(Int) /\ Len(w) = 4
    BY <2>9, WrittenIs
  <2>10. Number(SubSeq(w, 1, 4)) = d
    BY <2>9, WrittenIs
  <2> HIDE DEF b
  <2>6. /\ <<b>> \o w \in Seq(Int) /\ Len(<<b>> \o w) = 5 /\ (<<b>> \o w)[1] = b
    <3>1. Len(<<b>> \o w) = Len(w) + 1 /\ <<b>> \o w \in Seq(Int) /\ (<<b>> \o w)[1] = b
      BY <2>4, <2>5, Cons
    <3> QED
      BY <2>5, <3>1
  <2>7. ASSUME NEW s \in Seq(Int)
        PROVE  \A size \in OperandSize, rex \in RexByte :
                  ReadRM((<<b>> \o w) \o s, size, rex) = [rm |-> rm, len |-> 5]
    <3>1. (<<b>> \o w) \o s = <<b>> \o (w \o s)
      BY <2>4, <2>5, Prefixed
    <3>2. w \o s \in Seq(Int) /\ Len(w \o s) = 4 + Len(s) /\ Len(s) \in Nat
      <4>1. w \o s \in Seq(Int) /\ Len(w \o s) = Len(w) + Len(s)
        BY <2>5, ConcatProperties
      <4> QED
        BY <2>5, <4>1, LenProperties
    <3>3. PICK t : t = <<b>> \o (w \o s)
      OBVIOUS
    <3>4. t \in Seq(Int) /\ t[1] = b /\ Len(t) >= 5
      BY <2>4, <3>2, <3>3, Cons
    <3>5. SubSeq(t, 2, 5) = SubSeq(w, 1, 4)
      <4>1. <<b>> \in Seq(Int) /\ Len(<<b>>) = 1
        BY <2>4
      <4>2. SubSeq(t, 2, 5) = SubSeq(w \o s, 2 - 1, 5 - 1)
        <5>1. 2 \in 1 + 1 .. 1 + (4 + Len(s)) /\ 5 \in 1 + 1 .. 1 + (4 + Len(s))
          BY <3>2
        <5> QED
          BY SMTT(60), <3>2, <3>3, <4>1, <5>1, SubSeqOfConcat2
      <4>3. SubSeq(w \o s, 1, 4) = SubSeq(w, 1, 4)
        <5>1. 1 \in 1..Len(w) /\ 4 \in 1..Len(w)
          BY <2>5
        <5> QED
          BY <2>5, <5>1, SubSeqOfConcat1
      <4>4. 2 - 1 = 1 /\ 5 - 1 = 4
        OBVIOUS
      <4> QED
        BY <4>2, <4>3, <4>4
    <3>6. \A size \in OperandSize, rex \in RexByte : ReadRM(t, size, rex) =
            [rm |-> MemReadDisp(RegName[RegId(r) + 1], Number(SubSeq(t, 2, 5))), len |-> 5]
      BY <2>3, <2>4, <3>4, SMTT(60) DEF ReadRM
    <3> QED
      BY <2>1, <2>3, <2>10, <3>1, <3>3, <3>5, <3>6
  <2>8. rm # None
    <3>1. rm.mode = "read_disp" /\ None.mode = "none"
      BY <2>1 DEF MemReadDisp, None
    <3> QED
      BY <3>1
  <2>11. PICK t : t = <<b>> \o w
    OBVIOUS
  <2>12. t \in Seq(Int) /\ Len(t) = 5 /\ Len(t) >= 1 /\ (t[1] \div 8) % 8 = f
    BY <2>4, <2>6, <2>11
  <2>13. ModRM(rm, f) = t
    BY <2>2, <2>11
  <2>14. \A s \in Seq(Int), size \in OperandSize, rex \in RexByte :
            ReadRM(t \o s, size, rex) = [rm |-> rm, len |-> Len(t)]
    BY <2>7, <2>11, <2>12
  <2> QED
    BY <2>8, <2>12, <2>13, <2>14
<1> QED
  BY <1>1, <1>2, <1>3 DEF Addressed, InMemory

\* What an instruction with a ModRM byte and no or a 4-byte immediate reads.
LEMMA Reads ==
    ASSUME NEW rm \in Addressed, NEW f \in 0..7, NEW op, NEW size,
           NEW rmSize \in OperandSize, NEW rex \in RexByte,
           rmSize = 1 /\ rex = 0 => rm \in InMemory \/ RegId(rm.base) < 4,
           NEW m, m = ModRM(rm, f), NEW reg
    PROVE  /\ WithRM(op, size, rmSize, m, rex, reg, 0) = Instr(op, size, rm, reg, 0)
           /\ \A v \in Signed32 :
                 WithRM(op, size, rmSize, m \o Written(v, 4), rex, reg, 4)
                    = Instr(op, size, rm, reg, v)
<1>1. m \in Seq(Int) /\ Len(m) >= 1 /\ rm # None
  BY ModRMIs
<1>2. ASSUME NEW s \in Seq(Int)
      PROVE  ReadRM(m \o s, rmSize, rex) = [rm |-> rm, len |-> Len(m)]
  BY ModRMIs
<1>3. ASSUME NEW im \in Seq(Int)
      PROVE  WithRM(op, size, rmSize, m \o im, rex, reg, Len(im))
               = Instr(op, size, rm, reg, IF Len(im) = 0 THEN 0 ELSE Number(im))
  <2>1. PICK t : t = m \o im
    OBVIOUS
  <2>2. Len(m) \in Nat /\ Len(im) \in Nat
    BY <1>1, LenProperties
  <2>3. Len(t) = Len(m) + Len(im)
    BY <1>1, <2>1, ConcatProperties
  <2>4. ReadRM(t, rmSize, rex) = [rm |-> rm, len |-> Len(m)]
    BY <1>2, <2>1
  <2>5. Len(im) # 0 => SubSeq(t, Len(m) + 1, Len(m) + Len(im)) = im
    <3>1. SUFFICES ASSUME Len(im) # 0
                   PROVE  SubSeq(t, Len(m) + 1, Len(m) + Len(im)) = im
      OBVIOUS
    <3>2. /\ Len(m) + 1 \in Len(m) + 1 .. Len(m) + Len(im)
          /\ Len(m) + Len(im) \in Len(m) + 1 .. Len(m) + Len(im)
      BY <2>2, <3>1
    <3>3. SubSeq(t, Len(m) + 1, Len(m) + Len(im))
            = SubSeq(im, Len(m) + 1 - Len(m), Len(m) + Len(im) - Len(m))
      BY <1>1, <2>1, <3>2, SubSeqOfConcat2
    <3>4. Len(m) + 1 - Len(m) = 1 /\ Len(m) + Len(im) - Len(m) = Len(im)
      BY <2>2
    <3>5. SubSeq(im, 1, Len(im)) = im
      BY SubSeqFull
    <3> QED
      BY <3>3, <3>4, <3>5
  <2>6. WithRM(op, size, rmSize, t, rex, reg, Len(im))
          = Instr(op, size, rm, reg, IF Len(im) = 0 THEN 0
                                     ELSE Number(SubSeq(t, Len(m) + 1, Len(m) + Len(im))))
    <3>1. PICK d : d = [rm |-> rm, len |-> Len(m)]
      OBVIOUS
    <3>2. d.rm = rm /\ d.len = Len(m) /\ d.len # 0 /\ Len(t) = d.len + Len(im)
      BY <1>1, <2>2, <2>3, <3>1
    <3> QED
      BY <1>1, <2>4, <3>1, <3>2 DEF WithRM
  <2> QED
    BY <2>1, <2>5, <2>6
<1>4. <<>> \in Seq(Int) /\ Len(<<>>) = 0 /\ m \o <<>> = m
  BY <1>1, EmptySeq, ConcatEmptySeq
<1>5. ASSUME NEW v \in Signed32
      PROVE  WithRM(op, size, rmSize, m \o Written(v, 4), rex, reg, 4)
               = Instr(op, size, rm, reg, v)
  <2>1. PICK t : t = Written(v, 4)
    OBVIOUS
  <2>2. t \in Seq(Int) /\ Len(t) = 4 /\ Number(SubSeq(t, 1, 4)) = v
    BY <2>1, WrittenIs
  <2>3. SubSeq(t, 1, 4) = t
    BY <2>2, SubSeqFull
  <2>4. WithRM(op, size, rmSize, m \o t, rex, reg, Len(t))
          = Instr(op, size, rm, reg, IF Len(t) = 0 THEN 0 ELSE Number(t))
    BY <1>3, <2>2
  <2>5. Len(t) # 0
    BY <2>2
  <2> QED
    BY <2>1, <2>2, <2>3, <2>4, <2>5
<1>6. WithRM(op, size, rmSize, m, rex, reg, 0) = Instr(op, size, rm, reg, 0)
  BY <1>3, <1>4
<1> QED
  BY <1>5, <1>6

\* The prefixes the encoder writes: none, and two of one byte.
Prefix(pre, rex) ==
    \/ pre = <<>> /\ rex = 0
    \/ rex \in {64, 72} /\ pre = <<rex>>

LEMMA Decodes ==
    ASSUME NEW pre, NEW rex, Prefix(pre, rex), NEW c \in Int, c \notin 64..79,
           NEW t \in Seq(Int)
    PROVE  /\ Decode((pre \o <<c>>) \o t)
                = IF c = 15 THEN LongBody(t, rex) ELSE Body(<<c>> \o t, rex)
           /\ (<<c>> \o t)[1] = c /\ Tail(<<c>> \o t) = t
           /\ Len(<<c>> \o t) = Len(t) + 1
           /\ \A i \in 1..Len(t) : (<<c>> \o t)[i + 1] = t[i]
<1>1. PICK u : u = <<c>> \o t
  OBVIOUS
<1>2. /\ u \in Seq(Int) /\ u[1] = c /\ Tail(u) = t /\ Len(u) = Len(t) + 1
      /\ \A i \in 1..Len(t) : u[i + 1] = t[i]
  BY <1>1, Cons
<1>5. CASE pre = <<>> /\ rex = 0
  <2>1. <<c>> \in Seq(Int)
    OBVIOUS
  <2>2. pre \o <<c>> = <<c>>
    BY <1>5, <2>1, ConcatEmptySeq
  <2>3. Decode(u) = IF c = 15 THEN LongBody(t, 0) ELSE Body(u, 0)
    BY <1>2 DEF Decode
  <2> QED
    BY <1>1, <1>2, <1>5, <2>2, <2>3
<1>6. CASE rex \in {64, 72} /\ pre = <<rex>>
  <2>0. rex \in Int
    BY <1>6
  <2>1. PICK s : s = <<rex>> \o u
    OBVIOUS
  <2>2. <<c>> \in Seq(Int)
    OBVIOUS
  <2>3. (pre \o <<c>>) \o t = s
    BY <1>1, <1>6, <2>0, <2>1, <2>2, Prefixed
  <2>4. s[1] = rex /\ Tail(s) = u
    BY <1>2, <2>0, <2>1, Cons
  <2>6. s[1] \in 64..79 /\ s[1] # 0
    BY <1>6, <2>4
  <2>5. Decode(s) = IF c = 15 THEN LongBody(t, rex) ELSE Body(u, rex)
    BY <1>2, <2>4, <2>6, Zenon DEF Decode
  <2> QED
    BY <1>1, <1>2, <2>3, <2>5
<1> QED
  BY <1>5, <1>6 DEF Prefix

------------------------------------------------------------------------------
(* What the processor reads after each opcode. *)

LEMMA BodyStore1 ==
    ASSUME NEW s, s[1] = 136, NEW rex
    PROVE  Body(s, rex)
              = WithRM("mov_rm_r", 1, 1, Tail(s), rex, RegOperand(Tail(s), 1, rex), 0)
<1>1. /\ s[1] # 1 /\ s[1] # 41 /\ s[1] # 57 /\ s[1] # 105 /\ s[1] # 133 /\ s[1] # 137
      /\ s[1] # 138 /\ s[1] # 139 /\ s[1] # 141 /\ s[1] # 143 /\ s[1] # 199
      /\ s[1] # 247 /\ s[1] # 255 /\ s[1] # 153 /\ s[1] # 195 /\ s[1] # 201
      /\ s[1] # 232 /\ s[1] # 233 /\ s[1] \notin 176..183 /\ s[1] \notin 184..191
  OBVIOUS
<1> QED
  BY <1>1, Zenon DEF Body

LEMMA BodyLoad1 ==
    ASSUME NEW s, s[1] = 138, NEW rex
    PROVE  Body(s, rex)
              = WithRM("mov_r_rm", 1, 1, Tail(s), rex, RegOperand(Tail(s), 1, rex), 0)
<1>1. /\ s[1] # 1 /\ s[1] # 41 /\ s[1] # 57 /\ s[1] # 105 /\ s[1] # 133 /\ s[1] # 136
      /\ s[1] # 137 /\ s[1] # 139 /\ s[1] # 141 /\ s[1] # 143 /\ s[1] # 199
      /\ s[1] # 247 /\ s[1] # 255 /\ s[1] # 153 /\ s[1] # 195 /\ s[1] # 201
      /\ s[1] # 232 /\ s[1] # 233 /\ s[1] \notin 176..183 /\ s[1] \notin 184..191
  OBVIOUS
<1> QED
  BY <1>1, Zenon DEF Body

LEMMA BodyStore4 ==
    ASSUME NEW s, s[1] = 137, NEW rex, ~IsWide(rex)
    PROVE  Body(s, rex)
              = WithRM("mov_rm_r", 4, 4, Tail(s), rex, RegOperand(Tail(s), 4, rex), 0)
<1>1. /\ s[1] # 1 /\ s[1] # 41 /\ s[1] # 57 /\ s[1] # 105 /\ s[1] # 133 /\ s[1] # 136
      /\ s[1] # 138 /\ s[1] # 139 /\ s[1] # 141 /\ s[1] # 143 /\ s[1] # 199
      /\ s[1] # 247 /\ s[1] # 255 /\ s[1] # 153 /\ s[1] # 195 /\ s[1] # 201
      /\ s[1] # 232 /\ s[1] # 233 /\ s[1] \notin 176..183 /\ s[1] \notin 184..191
  OBVIOUS
<1> QED
  BY <1>1, Zenon DEF Body

LEMMA BodyLoad4 ==
    ASSUME NEW s, s[1] = 139, NEW rex, ~IsWide(rex)
    PROVE  Body(s, rex)
              = WithRM("mov_r_rm", 4, 4, Tail(s), rex, RegOperand(Tail(s), 4, rex), 0)
<1>1. /\ s[1] # 1 /\ s[1] # 41 /\ s[1] # 57 /\ s[1] # 105 /\ s[1] # 133 /\ s[1] # 136
      /\ s[1] # 137 /\ s[1] # 138 /\ s[1] # 141 /\ s[1] # 143 /\ s[1] # 199
      /\ s[1] # 247 /\ s[1] # 255 /\ s[1] # 153 /\ s[1] # 195 /\ s[1] # 201
      /\ s[1] # 232 /\ s[1] # 233 /\ s[1] \notin 176..183 /\ s[1] \notin 184..191
  OBVIOUS
<1> QED
  BY <1>1, Zenon DEF Body

LEMMA BodyStore8 ==
    ASSUME NEW s, s[1] = 137, NEW rex, IsWide(rex)
    PROVE  Body(s, rex)
              = WithRM("mov_rm_r", 8, 8, Tail(s), rex, RegOperand(Tail(s), 8, rex), 0)
<1>1. /\ s[1] # 1 /\ s[1] # 41 /\ s[1] # 57 /\ s[1] # 105 /\ s[1] # 133 /\ s[1] # 136
      /\ s[1] # 138 /\ s[1] # 139 /\ s[1] # 141 /\ s[1] # 143 /\ s[1] # 199
      /\ s[1] # 247 /\ s[1] # 255 /\ s[1] # 153 /\ s[1] # 195 /\ s[1] # 201
      /\ s[1] # 232 /\ s[1] # 233 /\ s[1] \notin 176..183 /\ s[1] \notin 184..191
  OBVIOUS
<1> QED
  BY <1>1, Zenon DEF Body

LEMMA BodyLoad8 ==
    ASSUME NEW s, s[1] = 139, NEW rex, IsWide(rex)
    PROVE  Body(s, rex)
              = WithRM("mov_r_rm", 8, 8, Tail(s), rex, RegOperand(Tail(s), 8, rex), 0)
<1>1. /\ s[1] # 1 /\ s[1] # 41 /\ s[1] # 57 /\ s[1] # 105 /\ s[1] # 133 /\ s[1] # 136
      /\ s[1] # 137 /\ s[1] # 138 /\ s[1] # 141 /\ s[1] # 143 /\ s[1] # 199
      /\ s[1] # 247 /\ s[1] # 255 /\ s[1] # 153 /\ s[1] # 195 /\ s[1] # 201
      /\ s[1] # 232 /\ s[1] # 233 /\ s[1] \notin 176..183 /\ s[1] \notin 184..191
  OBVIOUS
<1> QED
  BY <1>1, Zenon DEF Body

LEMMA BodyAdd ==
    ASSUME NEW s, s[1] = 1, NEW rex, IsWide(rex)
    PROVE  Body(s, rex)
              = WithRM("add", 8, 8, Tail(s), rex, RegOperand(Tail(s), 8, rex), 0)
<1>1. /\ s[1] # 41 /\ s[1] # 57 /\ s[1] # 105 /\ s[1] # 133 /\ s[1] # 136
      /\ s[1] # 137 /\ s[1] # 138 /\ s[1] # 139 /\ s[1] # 141 /\ s[1] # 143
      /\ s[1] # 199 /\ s[1] # 247 /\ s[1] # 255 /\ s[1] # 153 /\ s[1] # 195
      /\ s[1] # 201 /\ s[1] # 232 /\ s[1] # 233 /\ s[1] \notin 176..183
      /\ s[1] \notin 184..191
  OBVIOUS
<1> QED
  BY <1>1, Zenon DEF Body

LEMMA BodySub ==
    ASSUME NEW s, s[1] = 41, NEW rex, IsWide(rex)
    PROVE  Body(s, rex)
              = WithRM("sub", 8, 8, Tail(s), rex, RegOperand(Tail(s), 8, rex), 0)
<1>1. /\ s[1] # 1 /\ s[1] # 57 /\ s[1] # 105 /\ s[1] # 133 /\ s[1] # 136 /\ s[1] # 137
      /\ s[1] # 138 /\ s[1] # 139 /\ s[1] # 141 /\ s[1] # 143 /\ s[1] # 199
      /\ s[1] # 247 /\ s[1] # 255 /\ s[1] # 153 /\ s[1] # 195 /\ s[1] # 201
      /\ s[1] # 232 /\ s[1] # 233 /\ s[1] \notin 176..183 /\ s[1] \notin 184..191
  OBVIOUS
<1> QED
  BY <1>1, Zenon DEF Body

LEMMA BodyCmp ==
    ASSUME NEW s, s[1] = 57, NEW rex, IsWide(rex)
    PROVE  Body(s, rex)
              = WithRM("cmp", 8, 8, Tail(s), rex, RegOperand(Tail(s), 8, rex), 0)
<1>1. /\ s[1] # 1 /\ s[1] # 41 /\ s[1] # 105 /\ s[1] # 133 /\ s[1] # 136 /\ s[1] # 137
      /\ s[1] # 138 /\ s[1] # 139 /\ s[1] # 141 /\ s[1] # 143 /\ s[1] # 199
      /\ s[1] # 247 /\ s[1] # 255 /\ s[1] # 153 /\ s[1] # 195 /\ s[1] # 201
      /\ s[1] # 232 /\ s[1] # 233 /\ s[1] \notin 176..183 /\ s[1] \notin 184..191
  OBVIOUS
<1> QED
  BY <1>1, Zenon DEF Body

LEMMA BodyTest ==
    ASSUME NEW s, s[1] = 133, NEW rex, IsWide(rex)
    PROVE  Body(s, rex)
              = WithRM("test", 8, 8, Tail(s), rex, RegOperand(Tail(s), 8, rex), 0)
<1>1. /\ s[1] # 1 /\ s[1] # 41 /\ s[1] # 57 /\ s[1] # 105 /\ s[1] # 136 /\ s[1] # 137
      /\ s[1] # 138 /\ s[1] # 139 /\ s[1] # 141 /\ s[1] # 143 /\ s[1] # 199
      /\ s[1] # 247 /\ s[1] # 255 /\ s[1] # 153 /\ s[1] # 195 /\ s[1] # 201
      /\ s[1] # 232 /\ s[1] # 233 /\ s[1] \notin 176..183 /\ s[1] \notin 184..191
  OBVIOUS
<1> QED
  BY <1>1, Zenon DEF Body

LEMMA BodyLea ==
    ASSUME NEW s, s[1] = 141, NEW rex, IsWide(rex)
    PROVE  Body(s, rex)
              = WithRM("lea", 8, 8, Tail(s), rex, RegOperand(Tail(s), 8, rex), 0)
<1>1. /\ s[1] # 1 /\ s[1] # 41 /\ s[1] # 57 /\ s[1] # 105 /\ s[1] # 133 /\ s[1] # 136
      /\ s[1] # 137 /\ s[1] # 138 /\ s[1] # 139 /\ s[1] # 143 /\ s[1] # 199
      /\ s[1] # 247 /\ s[1] # 255 /\ s[1] # 153 /\ s[1] # 195 /\ s[1] # 201
      /\ s[1] # 232 /\ s[1] # 233 /\ s[1] \notin 176..183 /\ s[1] \notin 184..191
  OBVIOUS
<1> QED
  BY <1>1, Zenon DEF Body

LEMMA BodyImulImm ==
    ASSUME NEW s, s[1] = 105, NEW rex, IsWide(rex)
    PROVE  Body(s, rex)
              = WithRM("imul_imm", 8, 8, Tail(s), rex, RegOperand(Tail(s), 8, rex), 4)
<1>1. /\ s[1] # 1 /\ s[1] # 41 /\ s[1] # 57 /\ s[1] # 133 /\ s[1] # 136 /\ s[1] # 137
      /\ s[1] # 138 /\ s[1] # 139 /\ s[1] # 141 /\ s[1] # 143 /\ s[1] # 199
      /\ s[1] # 247 /\ s[1] # 255 /\ s[1] # 153 /\ s[1] # 195 /\ s[1] # 201
      /\ s[1] # 232 /\ s[1] # 233 /\ s[1] \notin 176..183 /\ s[1] \notin 184..191
  OBVIOUS
<1> QED
  BY <1>1, Zenon DEF Body

LEMMA BodyMovImm ==
    ASSUME NEW s, s[1] = 199, RegField(s[2]) = 0, NEW rex, ~IsWide(rex)
    PROVE  Body(s, rex) = WithRM("mov_rm_imm", 4, 4, Tail(s), rex, NoOperand, 4)
<1>1. /\ s[1] # 1 /\ s[1] # 41 /\ s[1] # 57 /\ s[1] # 105 /\ s[1] # 133 /\ s[1] # 136
      /\ s[1] # 137 /\ s[1] # 138 /\ s[1] # 139 /\ s[1] # 141 /\ s[1] # 143
      /\ s[1] # 247 /\ s[1] # 255 /\ s[1] # 153 /\ s[1] # 195 /\ s[1] # 201
      /\ s[1] # 232 /\ s[1] # 233 /\ s[1] \notin 176..183 /\ s[1] \notin 184..191
  OBVIOUS
<1> QED
  BY <1>1, Zenon DEF Body

LEMMA BodyIdiv ==
    ASSUME NEW s, s[1] = 247, RegField(s[2]) = 7, NEW rex, IsWide(rex)
    PROVE  Body(s, rex) = WithRM("idiv", 8, 8, Tail(s), rex, NoOperand, 0)
<1>1. /\ s[1] # 1 /\ s[1] # 41 /\ s[1] # 57 /\ s[1] # 105 /\ s[1] # 133 /\ s[1] # 136
      /\ s[1] # 137 /\ s[1] # 138 /\ s[1] # 139 /\ s[1] # 141 /\ s[1] # 143
      /\ s[1] # 199 /\ s[1] # 255 /\ s[1] # 153 /\ s[1] # 195 /\ s[1] # 201
      /\ s[1] # 232 /\ s[1] # 233 /\ s[1] \notin 176..183 /\ s[1] \notin 184..191
  OBVIOUS
<1> QED
  BY <1>1, Zenon DEF Body

LEMMA BodyPush ==
    ASSUME NEW s, s[1] = 255, RegField(s[2]) = 6, NEW rex
    PROVE  Body(s, rex) = WithRM("push", 8, 8, Tail(s), rex, NoOperand, 0)
<1>1. /\ s[1] # 1 /\ s[1] # 41 /\ s[1] # 57 /\ s[1] # 105 /\ s[1] # 133 /\ s[1] # 136
      /\ s[1] # 137 /\ s[1] # 138 /\ s[1] # 139 /\ s[1] # 141 /\ s[1] # 143
      /\ s[1] # 199 /\ s[1] # 247 /\ s[1] # 153 /\ s[1] # 195 /\ s[1] # 201
      /\ s[1] # 232 /\ s[1] # 233 /\ s[1] \notin 176..183 /\ s[1] \notin 184..191
  OBVIOUS
<1> QED
  BY <1>1, Zenon DEF Body

LEMMA BodyPop ==
    ASSUME NEW s, s[1] = 143, RegField(s[2]) = 0, NEW rex
    PROVE  Body(s, rex) = WithRM("pop", 8, 8, Tail(s), rex, NoOperand, 0)
<1>1. /\ s[1] # 1 /\ s[1] # 41 /\ s[1] # 57 /\ s[1] # 105 /\ s[1] # 133 /\ s[1] # 136
      /\ s[1] # 137 /\ s[1] # 138 /\ s[1] # 139 /\ s[1] # 141 /\ s[1] # 199
      /\ s[1] # 247 /\ s[1] # 255 /\ s[1] # 153 /\ s[1] # 195 /\ s[1] # 201
      /\ s[1] # 232 /\ s[1] # 233 /\ s[1] \notin 176..183 /\ s[1] \notin 184..191
  OBVIOUS
<1> QED
  BY <1>1, Zenon DEF Body

LEMMA BodyCqo ==
    ASSUME NEW s, s[1] = 153, Len(s) = 1, NEW rex, IsWide(rex)
    PROVE  Body(s, rex) = Plain("cqo")
<1>1. /\ s[1] # 1 /\ s[1] # 41 /\ s[1] # 57 /\ s[1] # 105 /\ s[1] # 133 /\ s[1] # 136
      /\ s[1] # 137 /\ s[1] # 138 /\ s[1] # 139 /\ s[1] # 141 /\ s[1] # 143
      /\ s[1] # 199 /\ s[1] # 247 /\ s[1] # 255 /\ s[1] # 195 /\ s[1] # 201
      /\ s[1] # 232 /\ s[1] # 233 /\ s[1] \notin 176..183 /\ s[1] \notin 184..191
  OBVIOUS
<1> QED
  BY <1>1, Zenon DEF Body

LEMMA BodyLeave ==
    ASSUME NEW s, s[1] = 201, Len(s) = 1, NEW rex
    PROVE  Body(s, rex) = Plain("leave")
<1>1. /\ s[1] # 1 /\ s[1] # 41 /\ s[1] # 57 /\ s[1] # 105 /\ s[1] # 133 /\ s[1] # 136
      /\ s[1] # 137 /\ s[1] # 138 /\ s[1] # 139 /\ s[1] # 141 /\ s[1] # 143
      /\ s[1] # 199 /\ s[1] # 247 /\ s[1] # 255 /\ s[1] # 153 /\ s[1] # 195
      /\ s[1] # 232 /\ s[1] # 233 /\ s[1] \notin 176..183 /\ s[1] \notin 184..191
  OBVIOUS
<1> QED
  BY <1>1, Zenon DEF Body

LEMMA BodyRet ==
    ASSUME NEW s, s[1] = 195, Len(s) = 1, NEW rex
    PROVE  Body(s, rex) = Plain("ret")
<1>1. /\ s[1] # 1 /\ s[1] # 41 /\ s[1] # 57 /\ s[1] # 105 /\ s[1] # 133 /\ s[1] # 136
      /\ s[1] # 137 /\ s[1] # 138 /\ s[1] # 139 /\ s[1] # 141 /\ s[1] # 143
      /\ s[1] # 199 /\ s[1] # 247 /\ s[1] # 255 /\ s[1] # 153 /\ s[1] # 201
      /\ s[1] # 232 /\ s[1] # 233 /\ s[1] \notin 176..183 /\ s[1] \notin 184..191
  OBVIOUS
<1> QED
  BY <1>1, Zenon DEF Body

LEMMA BodyJmp ==
    ASSUME NEW s, s[1] = 233, Len(s) = 5, NEW rex
    PROVE  Body(s, rex) = Plain("jmp")
<1>1. /\ s[1] # 1 /\ s[1] # 41 /\ s[1] # 57 /\ s[1] # 105 /\ s[1] # 133 /\ s[1] # 136
      /\ s[1] # 137 /\ s[1] # 138 /\ s[1] # 139 /\ s[1] # 141 /\ s[1] # 143
      /\ s[1] # 199 /\ s[1] # 247 /\ s[1] # 255 /\ s[1] # 153 /\ s[1] # 195
      /\ s[1] # 201 /\ s[1] # 232 /\ s[1] \notin 176..183 /\ s[1] \notin 184..191
  OBVIOUS
<1> QED
  BY <1>1, Zenon DEF Body

LEMMA BodyCall ==
    ASSUME NEW s, s[1] = 232, Len(s) = 5, NEW rex
    PROVE  Body(s, rex) = Plain("call")
<1>1. /\ s[1] # 1 /\ s[1] # 41 /\ s[1] # 57 /\ s[1] # 105 /\ s[1] # 133 /\ s[1] # 136
      /\ s[1] # 137 /\ s[1] # 138 /\ s[1] # 139 /\ s[1] # 141 /\ s[1] # 143
      /\ s[1] # 199 /\ s[1] # 247 /\ s[1] # 255 /\ s[1] # 153 /\ s[1] # 195
      /\ s[1] # 201 /\ s[1] # 233 /\ s[1] \notin 176..183 /\ s[1] \notin 184..191
  OBVIOUS
<1> QED
  BY <1>1, Zenon DEF Body

LEMMA BodyImm8 ==
    ASSUME NEW s, NEW k \in 1..8, s[1] = 183 + k, Len(s) = 9, NEW rex, IsWide(rex)
    PROVE  Body(s, rex)
              = Instr("mov_r_imm", 8, None, RegName[k], Number(SubSeq(s, 2, 5)))
<1>0. PICK c \in 184..191 : c = s[1] /\ c - 183 = k
  OBVIOUS
<1>1. c \in Int /\ c >= 184 /\ c <= 191
  OBVIOUS
<1>2. /\ c # 1 /\ c # 41 /\ c # 57 /\ c # 105 /\ c # 133 /\ c # 136 /\ c # 137
      /\ c # 138 /\ c # 139 /\ c # 141 /\ c # 143 /\ c # 199 /\ c # 247 /\ c # 255
      /\ c # 153 /\ c # 195 /\ c # 201 /\ c # 232 /\ c # 233 /\ c \notin 176..183
  BY <1>1
<1> QED
  BY <1>0, <1>2, ZenonT(60) DEF Body

LEMMA BodyImm1 ==
    ASSUME NEW s, NEW id \in 0..7, s[1] = 176 + id, Len(s) = 2, NEW rex
    PROVE  Body(s, rex)
              = Instr("mov_r_imm", 1, None, RegisterNamed(id, 1, rex), s[2])
<1>0. PICK c \in 176..183 : c = s[1] /\ c - 176 = id
  OBVIOUS
<1>1. c \in Int /\ c >= 176 /\ c <= 183
  OBVIOUS
<1>2. /\ c # 1 /\ c # 41 /\ c # 57 /\ c # 105 /\ c # 133 /\ c # 136 /\ c # 137
      /\ c # 138 /\ c # 139 /\ c # 141 /\ c # 143 /\ c # 199 /\ c # 247 /\ c # 255
      /\ c # 153 /\ c # 195 /\ c # 201 /\ c # 232 /\ c # 233 /\ c \notin 184..191
  BY <1>1
<1> QED
  BY <1>0, <1>2, ZenonT(60) DEF Body

LEMMA LongImul ==
    ASSUME NEW s, s[1] = 175, NEW rex, IsWide(rex)
    PROVE  LongBody(s, rex) = WithRM("imul", 8, 8, Tail(s), rex, RegOperand(Tail(s), 8, rex), 0)
<1>1. /\ s[1] # 182 /\ s[1] # 148 /\ s[1] # 149 /\ s[1] # 132 /\ s[1] # 133
  OBVIOUS
<1> QED
  BY <1>1, Zenon DEF LongBody

LEMMA LongMovzx ==
    ASSUME NEW s, s[1] = 182, NEW rex
    PROVE  LongBody(s, rex) = WithRM("movzx8", 4, 1, Tail(s), rex, RegOperand(Tail(s), 4, rex), 0)
<1>1. /\ s[1] # 175 /\ s[1] # 148 /\ s[1] # 149 /\ s[1] # 132 /\ s[1] # 133
  OBVIOUS
<1> QED
  BY <1>1, Zenon DEF LongBody

LEMMA LongSete ==
    ASSUME NEW s, s[1] = 148, NEW rex
    PROVE  LongBody(s, rex) = WithRM("sete", 1, 1, Tail(s), rex, NoOperand, 0)
<1>1. /\ s[1] # 175 /\ s[1] # 182 /\ s[1] # 149 /\ s[1] # 132 /\ s[1] # 133
  OBVIOUS
<1> QED
  BY <1>1, Zenon DEF LongBody

LEMMA LongSetne ==
    ASSUME NEW s, s[1] = 149, NEW rex
    PROVE  LongBody(s, rex) = WithRM("setne", 1, 1, Tail(s), rex, NoOperand, 0)
<1>1. /\ s[1] # 175 /\ s[1] # 182 /\ s[1] # 148 /\ s[1] # 132 /\ s[1] # 133
  OBVIOUS
<1> QED
  BY <1>1, Zenon DEF LongBody

LEMMA LongJe ==
    ASSUME NEW s, s[1] = 132, Len(s) = 5, NEW rex
    PROVE  LongBody(s, rex) = Plain("je")
<1>1. /\ s[1] # 175 /\ s[1] # 182 /\ s[1] # 148 /\ s[1] # 149 /\ s[1] # 133
  OBVIOUS
<1> QED
  BY <1>1, Zenon DEF LongBody

LEMMA LongJne ==
    ASSUME NEW s, s[1] = 133, Len(s) = 5, NEW rex
    PROVE  LongBody(s, rex) = Plain("jne")
<1>1. /\ s[1] # 175 /\ s[1] # 182 /\ s[1] # 148 /\ s[1] # 149 /\ s[1] # 132
  OBVIOUS
<1> QED
  BY <1>1, Zenon DEF LongBody

------------------------------------------------------------------------------
(* Instructions with a register and an r/m operand, byte by byte. *)

LEMMA Single ==
    ASSUME NEW a \in Int
    PROVE  <<a>> \in Seq(Int) /\ Len(<<a>>) = 1 /\ <<a>>[1] = a
OBVIOUS

LEMMA RegisterIs ==
    ASSUME NEW r \in HasId, NEW size \in OperandSize, NEW rex \in RexByte,
           size = 1 /\ rex = 0 => RegId(r) < 4
    PROVE  RegisterNamed(RegId(r), size, rex) = r
<1>1. RegId(r) \in 0..7 /\ RegName[RegId(r) + 1] = r
  BY RegIds
<1>2. RegId(r) < 4 => ~(RegId(r) >= 4)
  BY <1>1
<1> QED
  BY <1>1, <1>2, Zenon DEF RegisterNamed

\* The reg field of the ModRM byte names the register it was made from.
LEMMA ReadsRegister ==
    ASSUME NEW rm \in Addressed, NEW r \in HasId, NEW size \in OperandSize,
           NEW rex \in RexByte, size = 1 /\ rex = 0 => RegId(r) < 4,
           NEW m, m = ModRM(rm, RegId(r))
    PROVE  /\ m \in Seq(Int)
           /\ RegOperand(m, size, rex) = r
           /\ \A t \in Seq(Int) : RegOperand(m \o t, size, rex) = r
<1>1. RegId(r) \in 0..7
  BY RegIds
<1>2. m \in Seq(Int) /\ Len(m) >= 1 /\ RegField(m[1]) = RegId(r)
  BY <1>1, ModRMIs DEF RegField
<1>3. ASSUME NEW t \in Seq(Int) PROVE (m \o t)[1] = m[1]
  BY <1>2, ConcatProperties, LenProperties
<1>4. RegisterNamed(RegId(r), size, rex) = r
  BY RegisterIs
<1> QED
  BY <1>2, <1>3, <1>4 DEF RegOperand

\* The prefix of a byte in register r.
LEMMA ByteRexIs ==
    ASSUME NEW r \in HasId
    PROVE  \/ ByteRex(r) = <<64>> /\ Prefix(ByteRex(r), 64)
           \/ ByteRex(r) = <<>> /\ Prefix(ByteRex(r), 0) /\ RegId(r) < 4
<1>1. RegId(r) \in 0..7 /\ (r \in {"RSP", "RBP", "RSI", "RDI"} <=> RegId(r) >= 4)
  BY RegIds
<1>2. ~(RegId(r) >= 4) => RegId(r) < 4
  BY <1>1
<1>3. CASE RegId(r) >= 4
  BY <1>1, <1>3 DEF ByteRex, Prefix
<1>4. CASE ~(RegId(r) >= 4)
  BY <1>1, <1>2, <1>4, Zenon DEF ByteRex, Prefix
<1> QED
  BY <1>3, <1>4

LEMMA RexPrefixes ==
    /\ Prefix(<<>>, 0) /\ Prefix(<<72>>, 72) /\ Prefix(<<64>>, 64)
    /\ IsWide(72) /\ ~IsWide(0) /\ ~IsWide(64)
    /\ 0 \in RexByte /\ 64 \in RexByte /\ 72 \in RexByte
BY DEF Prefix, IsWide, RexByte

\* What follows an opcode of one byte, and of two.
LEMMA DecodesShort ==
    ASSUME NEW pre, NEW rex, Prefix(pre, rex), NEW c \in Int, c \notin 64..79, c # 15,
           NEW t \in Seq(Int)
    PROVE  \E s : /\ Decode((pre \o <<c>>) \o t) = Body(s, rex)
                  /\ s = <<c>> \o t /\ s[1] = c /\ Tail(s) = t /\ Len(s) = Len(t) + 1
                  /\ Len(t) >= 1 => s[2] = t[1]
<1>1. PICK s : s = <<c>> \o t
  OBVIOUS
<1>2. /\ Decode((pre \o <<c>>) \o t) = Body(s, rex)
      /\ s[1] = c /\ Tail(s) = t /\ Len(s) = Len(t) + 1
  BY <1>1, Decodes
<1>3. \A i \in 1..Len(t) : s[i + 1] = t[i]
  BY <1>1, Decodes
<1>5. Len(t) >= 1 => 1 \in 1..Len(t) /\ 1 + 1 = 2
  BY LenProperties
<1>4. Len(t) >= 1 => s[2] = t[1]
  BY <1>3, <1>5
<1> QED
  BY <1>1, <1>2, <1>3, <1>4

LEMMA DecodesLong ==
    ASSUME NEW pre, NEW rex, Prefix(pre, rex), NEW c \in Int, NEW t \in Seq(Int)
    PROVE  \E s : /\ Decode((pre \o <<15, c>>) \o t) = LongBody(s, rex)
                  /\ s[1] = c /\ Tail(s) = t /\ Len(s) = Len(t) + 1
<1>1. PICK s : s = <<c>> \o t
  OBVIOUS
<1>2. s \in Seq(Int) /\ s[1] = c /\ Tail(s) = t /\ Len(s) = Len(t) + 1
  BY <1>1, Cons
<1>3. Decode((pre \o <<15>>) \o s) = LongBody(s, rex)
  BY <1>2, Decodes
<1>4. pre \in Seq(Int) /\ <<15>> \in Seq(Int) /\ <<c>> \in Seq(Int)
  <2>1. <<>> \in Seq(Int) /\ <<64>> \in Seq(Int) /\ <<72>> \in Seq(Int)
    OBVIOUS
  <2>2. pre \in {<<>>, <<64>>, <<72>>}
    BY DEF Prefix
  <2>3. pre \in Seq(Int)
    BY <2>1, <2>2
  <2>4. <<15>> \in Seq(Int)
    OBVIOUS
  <2>5. <<c>> \in Seq(Int)
    OBVIOUS
  <2> QED
    BY <2>3, <2>4, <2>5
<1>5. <<15, c>> = <<15>> \o <<c>>
  OBVIOUS
<1>6. pre \o <<15>> \in Seq(Int)
  BY <1>4, ConcatProperties
<1>7. pre \o <<15, c>> = (pre \o <<15>>) \o <<c>>
  <2>1. PICK a \in Seq(Int), b \in Seq(Int) : a = <<15>> /\ b = <<c>>
    BY <1>4
  <2>2. (pre \o a) \o b = pre \o (a \o b)
    BY SMTT(60), <1>4, ConcatAssociative
  <2> QED
    BY <1>5, <2>1, <2>2
<1>8. (pre \o <<15, c>>) \o t = (pre \o <<15>>) \o s
  <2>1. PICK u \in Seq(Int) : u = pre \o <<15>>
    BY <1>6
  <2>2. (u \o <<c>>) \o t = u \o (<<c>> \o t)
    BY <1>4, ConcatAssociative
  <2> QED
    BY <1>1, <1>7, <2>1, <2>2
<1> QED
  BY <1>2, <1>3, <1>8

------------------------------------------------------------------------------
(* The bytes of each operation. *)

LEMMA EncodeIs ==
    ASSUME NEW i
    PROVE  /\ i.op = "mov_rm_r" => Encode(i)
                = Sized(i.size, i.reg, 137) \o ModRM(i.rm, RegId(i.reg))
           /\ i.op = "mov_r_rm" => Encode(i)
                = Sized(i.size, i.reg, 139) \o ModRM(i.rm, RegId(i.reg))
           /\ i.op = "mov_rm_imm" => Encode(i)
                = <<199>> \o ModRM(i.rm, 0) \o Written(i.imm, 4)
           /\ i.op = "mov_r_imm" => Encode(i)
                = IF i.size = 8
                  THEN RexW \o <<184 + RegId(i.reg)>> \o Written(i.imm, 8)
                  ELSE ByteRex(i.reg) \o <<176 + RegId(i.reg)>> \o Written(i.imm, 1)
           /\ i.op = "movzx8" => Encode(i)
                = ByteRexOf(i.rm) \o <<15, 182>> \o ModRM(i.rm, RegId(i.reg))
           /\ i.op = "lea_rip" => Encode(i)
                = RexW \o <<141, 5 + 8 * RegId(i.reg)>> \o Written(0, 4)
           /\ i.op = "sete" => Encode(i)
                = ByteRexOf(i.rm) \o <<15, 148>> \o ModRM(i.rm, 0)
           /\ i.op = "setne" => Encode(i)
                = ByteRexOf(i.rm) \o <<15, 149>> \o ModRM(i.rm, 0)
           /\ i.op \in {"add", "sub", "cmp", "test", "lea", "imul"} => Encode(i)
                = RexW \o Opcode[i.op] \o ModRM(i.rm, RegId(i.reg)) \o <<>>
           /\ i.op = "imul_imm" => Encode(i)
                = RexW \o Opcode[i.op] \o ModRM(i.rm, RegId(i.reg)) \o Written(i.imm, 4)
           /\ i.op \in {"idiv", "push", "pop"} => Encode(i)
                = UnaryOpcode[i.op] \o ModRM(i.rm, UnaryField[i.op])
           /\ i.op \in {"cqo", "leave", "ret", "jmp", "call", "je", "jne"} => Encode(i)
                = PlainCode[i.op]
<1>0. /\ DOMAIN Opcode = {"add", "sub", "cmp", "test", "lea", "imul", "imul_imm"}
      /\ DOMAIN UnaryOpcode = {"idiv", "push", "pop"}
      /\ DOMAIN PlainCode = {"cqo", "leave", "ret", "jmp", "call", "je", "jne"}
  BY DEF Opcode, UnaryOpcode, PlainCode
<1>1. ASSUME i.op = "mov_rm_r"
      PROVE  Encode(i) = Sized(i.size, i.reg, 137) \o ModRM(i.rm, RegId(i.reg))
  <2>1. /\ i.op # "mov_r_rm" /\ i.op # "mov_rm_imm" /\ i.op # "mov_r_imm"
        /\ i.op # "movzx8" /\ i.op # "lea_rip" /\ i.op # "sete" /\ i.op # "setne"
        /\ i.op \notin DOMAIN Opcode /\ i.op \notin DOMAIN UnaryOpcode
        /\ i.op \notin DOMAIN PlainCode
    BY <1>0, <1>1
  <2> QED
    BY <1>1, <2>1, Zenon DEF Encode
<1>2. ASSUME i.op = "mov_r_rm"
      PROVE  Encode(i) = Sized(i.size, i.reg, 139) \o ModRM(i.rm, RegId(i.reg))
  <2>1. /\ i.op # "mov_rm_r" /\ i.op # "mov_rm_imm" /\ i.op # "mov_r_imm"
        /\ i.op # "movzx8" /\ i.op # "lea_rip" /\ i.op # "sete" /\ i.op # "setne"
        /\ i.op \notin DOMAIN Opcode /\ i.op \notin DOMAIN UnaryOpcode
        /\ i.op \notin DOMAIN PlainCode
    BY <1>0, <1>2
  <2> QED
    BY <1>2, <2>1, Zenon DEF Encode
<1>3. ASSUME i.op = "mov_rm_imm"
      PROVE  Encode(i) = <<199>> \o ModRM(i.rm, 0) \o Written(i.imm, 4)
  <2>1. /\ i.op # "mov_rm_r" /\ i.op # "mov_r_rm" /\ i.op # "mov_r_imm"
        /\ i.op # "movzx8" /\ i.op # "lea_rip" /\ i.op # "sete" /\ i.op # "setne"
        /\ i.op \notin DOMAIN Opcode /\ i.op \notin DOMAIN UnaryOpcode
        /\ i.op \notin DOMAIN PlainCode
    BY <1>0, <1>3
  <2> QED
    BY <1>3, <2>1, Zenon DEF Encode
<1>4. ASSUME i.op = "mov_r_imm"
      PROVE  Encode(i) = IF i.size = 8
                  THEN RexW \o <<184 + RegId(i.reg)>> \o Written(i.imm, 8)
                  ELSE ByteRex(i.reg) \o <<176 + RegId(i.reg)>> \o Written(i.imm, 1)
  <2>1. /\ i.op # "mov_rm_r" /\ i.op # "mov_r_rm" /\ i.op # "mov_rm_imm"
        /\ i.op # "movzx8" /\ i.op # "lea_rip" /\ i.op # "sete" /\ i.op # "setne"
        /\ i.op \notin DOMAIN Opcode /\ i.op \notin DOMAIN UnaryOpcode
        /\ i.op \notin DOMAIN PlainCode
    BY <1>0, <1>4
  <2> QED
    BY <1>4, <2>1, Zenon DEF Encode
<1>5. ASSUME i.op = "movzx8"
      PROVE  Encode(i) = ByteRexOf(i.rm) \o <<15, 182>> \o ModRM(i.rm, RegId(i.reg))
  <2>1. /\ i.op # "mov_rm_r" /\ i.op # "mov_r_rm" /\ i.op # "mov_rm_imm"
        /\ i.op # "mov_r_imm" /\ i.op # "lea_rip" /\ i.op # "sete" /\ i.op # "setne"
        /\ i.op \notin DOMAIN Opcode /\ i.op \notin DOMAIN UnaryOpcode
        /\ i.op \notin DOMAIN PlainCode
    BY <1>0, <1>5
  <2> QED
    BY <1>5, <2>1, Zenon DEF Encode
<1>6. ASSUME i.op = "lea_rip"
      PROVE  Encode(i) = RexW \o <<141, 5 + 8 * RegId(i.reg)>> \o Written(0, 4)
  <2>1. /\ i.op # "mov_rm_r" /\ i.op # "mov_r_rm" /\ i.op # "mov_rm_imm"
        /\ i.op # "mov_r_imm" /\ i.op # "movzx8" /\ i.op # "sete" /\ i.op # "setne"
        /\ i.op \notin DOMAIN Opcode /\ i.op \notin DOMAIN UnaryOpcode
        /\ i.op \notin DOMAIN PlainCode
    BY <1>0, <1>6
  <2> QED
    BY <1>6, <2>1, Zenon DEF Encode
<1>7. ASSUME i.op = "sete"
      PROVE  Encode(i) = ByteRexOf(i.rm) \o <<15, 148>> \o ModRM(i.rm, 0)
  <2>1. /\ i.op # "mov_rm_r" /\ i.op # "mov_r_rm" /\ i.op # "mov_rm_imm"
        /\ i.op # "mov_r_imm" /\ i.op # "movzx8" /\ i.op # "lea_rip" /\ i.op # "setne"
        /\ i.op \notin DOMAIN Opcode /\ i.op \notin DOMAIN UnaryOpcode
        /\ i.op \notin DOMAIN PlainCode
    BY <1>0, <1>7
  <2> QED
    BY <1>7, <2>1, Zenon DEF Encode
<1>8. ASSUME i.op = "setne"
      PROVE  Encode(i) = ByteRexOf(i.rm) \o <<15, 149>> \o ModRM(i.rm, 0)
  <2>1. /\ i.op # "mov_rm_r" /\ i.op # "mov_r_rm" /\ i.op # "mov_rm_imm"
        /\ i.op # "mov_r_imm" /\ i.op # "movzx8" /\ i.op # "lea_rip" /\ i.op # "sete"
        /\ i.op \notin DOMAIN Opcode /\ i.op \notin DOMAIN UnaryOpcode
        /\ i.op \notin DOMAIN PlainCode
    BY <1>0, <1>8
  <2> QED
    BY <1>8, <2>1, Zenon DEF Encode
<1>9. ASSUME i.op \in {"add", "sub", "cmp", "test", "lea", "imul"}
      PROVE  Encode(i) = RexW \o Opcode[i.op] \o ModRM(i.rm, RegId(i.reg)) \o <<>>
  <2>1. /\ i.op # "mov_rm_r" /\ i.op # "mov_r_rm" /\ i.op # "mov_rm_imm"
        /\ i.op # "mov_r_imm" /\ i.op # "movzx8" /\ i.op # "lea_rip" /\ i.op # "sete"
        /\ i.op # "setne" /\ i.op # "imul_imm" /\ i.op \notin DOMAIN UnaryOpcode
        /\ i.op \notin DOMAIN PlainCode /\ i.op \in DOMAIN Opcode
    BY <1>0, <1>9
  <2> QED
    BY <1>9, <2>1, Zenon DEF Encode
<1>10. ASSUME i.op = "imul_imm"
      PROVE  Encode(i) = RexW \o Opcode[i.op] \o ModRM(i.rm, RegId(i.reg)) \o Written(i.imm, 4)
  <2>1. /\ i.op # "mov_rm_r" /\ i.op # "mov_r_rm" /\ i.op # "mov_rm_imm"
        /\ i.op # "mov_r_imm" /\ i.op # "movzx8" /\ i.op # "lea_rip" /\ i.op # "sete"
        /\ i.op # "setne" /\ i.op \notin DOMAIN UnaryOpcode
        /\ i.op \notin DOMAIN PlainCode /\ i.op \in DOMAIN Opcode
    BY <1>0, <1>10
  <2> QED
    BY <1>10, <2>1, Zenon DEF Encode
<1>11. ASSUME i.op \in {"idiv", "push", "pop"}
      PROVE  Encode(i) = UnaryOpcode[i.op] \o ModRM(i.rm, UnaryField[i.op])
  <2>1. /\ i.op # "mov_rm_r" /\ i.op # "mov_r_rm" /\ i.op # "mov_rm_imm"
        /\ i.op # "mov_r_imm" /\ i.op # "movzx8" /\ i.op # "lea_rip" /\ i.op # "sete"
        /\ i.op # "setne" /\ i.op \notin DOMAIN Opcode /\ i.op \notin DOMAIN PlainCode
        /\ i.op \in DOMAIN UnaryOpcode
    BY <1>0, <1>11
  <2> QED
    BY <1>11, <2>1, Zenon DEF Encode
<1>12. ASSUME i.op \in {"cqo", "leave", "ret", "jmp", "call", "je", "jne"}
      PROVE  Encode(i) = PlainCode[i.op]
  <2>1. /\ i.op # "mov_rm_r" /\ i.op # "mov_r_rm" /\ i.op # "mov_rm_imm"
        /\ i.op # "mov_r_imm" /\ i.op # "movzx8" /\ i.op # "lea_rip" /\ i.op # "sete"
        /\ i.op # "setne" /\ i.op \notin DOMAIN Opcode
        /\ i.op \notin DOMAIN UnaryOpcode /\ i.op \in DOMAIN PlainCode
    BY <1>0, <1>12
  <2> QED
    BY <1>12, <2>1, Zenon DEF Encode
<1> QED
  BY <1>1, <1>2, <1>3, <1>4, <1>5, <1>6, <1>7, <1>8, <1>9, <1>10, <1>11, <1>12

------------------------------------------------------------------------------
(* Every instruction of the handlers means itself to the processor. *)

\* mov between a register and memory, of any size, or another register.
LEMMA MovMeans ==
    ASSUME NEW r \in HasId, NEW rm \in Addressed, NEW size \in OperandSize,
           size = 1 => rm \in InMemory
    PROVE  MeansItself(MovStore(rm, r, size)) /\ MeansItself(MovLoad(r, rm, size))
<1>1. PICK m : m = ModRM(rm, RegId(r))
  OBVIOUS
<1>2. m \in Seq(Int) /\ RegId(r) \in 0..7
  BY <1>1, RegIds, ModRMIs
<1>3. PICK pre, rex, c : /\ pre = (IF size = 8 THEN <<72>>
                                   ELSE IF size = 4 THEN <<>> ELSE ByteRex(r))
                         /\ Prefix(pre, rex) /\ rex \in RexByte
                         /\ size = 1 /\ rex = 0 => RegId(r) < 4
                         /\ size = 8 => IsWide(rex)
                         /\ size = 4 => ~IsWide(rex)
                         /\ c = (IF size = 1 THEN 136 ELSE 137)
  BY ByteRexIs, RexPrefixes DEF OperandSize
<1>4. /\ c \in Int /\ c \notin 64..79 /\ c # 15
      /\ c + 2 \in Int /\ c + 2 \notin 64..79 /\ c + 2 # 15
      /\ size = 1 => c = 136 /\ c + 2 = 138
      /\ size # 1 => c = 137 /\ c + 2 = 139
  BY <1>3
<1>5. /\ Encode(MovStore(rm, r, size)) = (pre \o <<c>>) \o m
      /\ Encode(MovLoad(r, rm, size)) = (pre \o <<c + 2>>) \o m
  <2>1. Sized(size, r, 137) = pre \o <<c>> /\ Sized(size, r, 139) = pre \o <<c + 2>>
    <3>1. CASE size = 8
      BY <1>3, <1>4, <3>1 DEF Sized, RexW
    <3>2. CASE size = 4
      <4>1. <<>> \o <<137>> = <<137>> /\ <<>> \o <<139>> = <<139>>
        OBVIOUS
      <4> QED
        BY <1>3, <1>4, <3>2, <4>1 DEF Sized
    <3>3. CASE size = 1
      BY <1>3, <1>4, <3>3 DEF Sized
    <3> QED
      BY <3>1, <3>2, <3>3 DEF OperandSize
  <2>2. PICK i, j : i = MovStore(rm, r, size) /\ j = MovLoad(r, rm, size)
    OBVIOUS
  <2>3. /\ i.op = "mov_rm_r" /\ i.size = size /\ i.rm = rm /\ i.reg = r
        /\ j.op = "mov_r_rm" /\ j.size = size /\ j.rm = rm /\ j.reg = r
    BY <2>2 DEF MovStore, MovLoad, Instr
  <2>4. /\ Encode(i) = Sized(i.size, i.reg, 137) \o ModRM(i.rm, RegId(i.reg))
        /\ Encode(j) = Sized(j.size, j.reg, 139) \o ModRM(j.rm, RegId(j.reg))
    BY <2>3, EncodeIs, Zenon
  <2> QED
    BY <1>1, <2>1, <2>2, <2>3, <2>4, ZenonT(60)
<1>6. PICK s : /\ Decode((pre \o <<c>>) \o m) = Body(s, rex)
               /\ s[1] = c /\ Tail(s) = m
  BY <1>2, <1>3, <1>4, DecodesShort
<1>7. PICK t : /\ Decode((pre \o <<c + 2>>) \o m) = Body(t, rex)
               /\ t[1] = c + 2 /\ Tail(t) = m
  BY <1>2, <1>3, <1>4, DecodesShort
<1>8. /\ Body(s, rex) = WithRM("mov_rm_r", size, size, m, rex, RegOperand(m, size, rex), 0)
      /\ Body(t, rex) = WithRM("mov_r_rm", size, size, m, rex, RegOperand(m, size, rex), 0)
  <2>1. CASE size = 1
    <3>1. s[1] = 136 /\ Tail(s) = m /\ t[1] = 138 /\ Tail(t) = m
      BY <1>4, <1>6, <1>7, <2>1
    <3> QED
      BY <2>1, <3>1, BodyStore1, BodyLoad1
  <2>2. CASE size = 4
    <3>1. s[1] = 137 /\ Tail(s) = m /\ t[1] = 139 /\ Tail(t) = m /\ ~IsWide(rex)
      BY <1>3, <1>4, <1>6, <1>7, <2>2
    <3> QED
      BY <2>2, <3>1, BodyStore4, BodyLoad4
  <2>3. CASE size = 8
    <3>1. s[1] = 137 /\ Tail(s) = m /\ t[1] = 139 /\ Tail(t) = m /\ IsWide(rex)
      BY <1>3, <1>4, <1>6, <1>7, <2>3
    <3> QED
      BY <2>3, <3>1, BodyStore8, BodyLoad8
  <2> QED
    BY <2>1, <2>2, <2>3 DEF OperandSize
<1>9. RegOperand(m, size, rex) = r
  BY <1>1, <1>3, ReadsRegister
<1>10. ASSUME NEW op
       PROVE  WithRM(op, size, size, m, rex, r, 0) = Instr(op, size, rm, r, 0)
  <2>1. PICK f \in 0..7 : m = ModRM(rm, f)
    BY <1>1, <1>2
  <2>2. rex \in RexByte
    BY <1>3
  <2>3. CASE size = 1
    BY <2>1, <2>2, <2>3, Reads
  <2>4. CASE size # 1
    BY <2>1, <2>2, <2>4, Reads, SMTT(60)
  <2> QED
    BY <2>3, <2>4
<1> QED
  BY <1>5, <1>6, <1>7, <1>8, <1>9, <1>10 DEF MeansItself, MovStore, MovLoad

\* The 8-byte operations with a register and an r/m operand.
LEMMA RegisterMeans ==
    ASSUME NEW r \in HasId, NEW rm \in Addressed
    PROVE  /\ \A op \in {"add", "sub", "cmp", "test"} : MeansItself(RmReg(op, rm, r))
           /\ MeansItself(Lea(r, rm)) /\ MeansItself(Imul(r, rm))
           /\ \A v \in Signed32 : MeansItself(ImulImm(r, rm, v))
<1>1. PICK m : m = ModRM(rm, RegId(r))
  OBVIOUS
<1>2. m \in Seq(Int) /\ RegId(r) \in 0..7 /\ m \o <<>> = m
  BY <1>1, RegIds, ModRMIs, ConcatEmptySeq
<1>3. Prefix(<<72>>, 72) /\ IsWide(72) /\ 72 \in RexByte /\ 8 \in OperandSize
  BY RexPrefixes DEF OperandSize
<1>4. /\ RegOperand(m, 8, 72) = r
      /\ \A t \in Seq(Int) : RegOperand(m \o t, 8, 72) = r
  BY <1>1, <1>3, ReadsRegister
<1>5. \A op : /\ WithRM(op, 8, 8, m, 72, r, 0) = Instr(op, 8, rm, r, 0)
              /\ \A v \in Signed32 : WithRM(op, 8, 8, m \o Written(v, 4), 72, r, 4)
                                       = Instr(op, 8, rm, r, v)
  BY <1>1, <1>2, <1>3, Reads
<1>6. ASSUME NEW op \in {"add", "sub", "cmp", "test", "lea"}
      PROVE  MeansItself(Instr(op, 8, rm, r, 0))
  <2>1. PICK c : \/ op = "add" /\ c = 1
                 \/ op = "sub" /\ c = 41
                 \/ op = "cmp" /\ c = 57
                 \/ op = "test" /\ c = 133
                 \/ op = "lea" /\ c = 141
    OBVIOUS
  <2>2. c \in {1, 41, 57, 133, 141}
    BY <2>1
  <2>3. c \in Int /\ c \notin 64..79 /\ c # 15
    BY <2>2
  <2>4. Encode(Instr(op, 8, rm, r, 0)) = (<<72>> \o <<c>>) \o m
    <3>1. Opcode[op] = <<c>> /\ op \in DOMAIN Opcode
      BY <2>1 DEF Opcode
    <3>2. PICK i : i = Instr(op, 8, rm, r, 0)
      OBVIOUS
    <3>3. i.op = op /\ i.rm = rm /\ i.reg = r
      BY <3>2 DEF Instr
    <3>4. Encode(i) = RexW \o Opcode[op] \o ModRM(rm, RegId(r)) \o <<>>
      BY <3>3, EncodeIs, ZenonT(60)
    <3> QED
      BY <1>1, <1>2, <3>1, <3>2, <3>4 DEF RexW
  <2>5. PICK s : Decode((<<72>> \o <<c>>) \o m) = Body(s, 72) /\ s[1] = c /\ Tail(s) = m
    BY <1>2, <1>3, <2>3, DecodesShort
  <2>6. Body(s, 72) = WithRM(op, 8, 8, m, 72, RegOperand(m, 8, 72), 0)
    <3>1. CASE op = "add" /\ c = 1
      BY <1>3, <2>5, <3>1, BodyAdd
    <3>2. CASE op = "sub" /\ c = 41
      BY <1>3, <2>5, <3>2, BodySub
    <3>3. CASE op = "cmp" /\ c = 57
      BY <1>3, <2>5, <3>3, BodyCmp
    <3>4. CASE op = "test" /\ c = 133
      BY <1>3, <2>5, <3>4, BodyTest
    <3>5. CASE op = "lea" /\ c = 141
      BY <1>3, <2>5, <3>5, BodyLea
    <3> QED
      BY <2>1, <3>1, <3>2, <3>3, <3>4, <3>5
  <2> QED
    BY <1>4, <1>5, <2>4, <2>5, <2>6 DEF MeansItself
<1>7. MeansItself(Imul(r, rm))
  <2>1. Encode(Imul(r, rm)) = (<<72>> \o <<15, 175>>) \o m
    <3>1. Opcode["imul"] = <<15, 175>> /\ "imul" \in DOMAIN Opcode
      BY DEF Opcode
    <3>2. PICK i : i = Imul(r, rm)
      OBVIOUS
    <3>3. i.op = "imul" /\ i.rm = rm /\ i.reg = r
      BY <3>2 DEF Imul, Instr
    <3>4. Encode(i) = RexW \o Opcode["imul"] \o ModRM(rm, RegId(r)) \o <<>>
      BY <3>3, EncodeIs, ZenonT(60)
    <3> QED
      BY <1>1, <1>2, <3>1, <3>2, <3>4 DEF RexW
  <2>2. PICK s : /\ Decode((<<72>> \o <<15, 175>>) \o m) = LongBody(s, 72)
                 /\ s[1] = 175 /\ Tail(s) = m
    BY <1>2, <1>3, DecodesLong
  <2>3. LongBody(s, 72) = WithRM("imul", 8, 8, m, 72, RegOperand(m, 8, 72), 0)
    BY <1>3, <2>2, LongImul
  <2> QED
    BY <1>4, <1>5, <2>1, <2>2, <2>3 DEF MeansItself, Imul
<1>8. ASSUME NEW v \in Signed32
      PROVE  MeansItself(ImulImm(r, rm, v))
  <2>1. PICK w : w = Written(v, 4)
    OBVIOUS
  <2>2. w \in Seq(Int) /\ m \o w \in Seq(Int)
    BY <1>2, <2>1, WrittenIs, ConcatProperties
  <2>3. Encode(ImulImm(r, rm, v)) = (<<72>> \o <<105>>) \o (m \o w)
    <3>1. Opcode["imul_imm"] = <<105>> /\ "imul_imm" \in DOMAIN Opcode
      BY DEF Opcode
    <3>2. Encode(ImulImm(r, rm, v)) = ((<<72>> \o <<105>>) \o m) \o w
      <4>1. PICK i : i = ImulImm(r, rm, v)
        OBVIOUS
      <4>2. i.op = "imul_imm" /\ i.rm = rm /\ i.reg = r /\ i.imm = v
        BY <4>1 DEF ImulImm, Instr
      <4> QED
        <5>1. Encode(i) = RexW \o Opcode["imul_imm"] \o ModRM(rm, RegId(r)) \o Written(v, 4)
          BY <4>2, EncodeIs, ZenonT(60)
        <5> QED
          BY <1>1, <2>1, <3>1, <4>1, <5>1 DEF RexW
    <3>3. <<72>> \o <<105>> \in Seq(Int)
      OBVIOUS
    <3> QED
      BY <1>2, <2>2, <3>2, <3>3, ConcatAssociative
  <2>4. PICK t \in Seq(Int) : t = m \o w
    BY <2>2
  <2>5. PICK s : Decode((<<72>> \o <<105>>) \o t) = Body(s, 72) /\ s[1] = 105 /\ Tail(s) = t
    BY <1>3, DecodesShort
  <2>6. Body(s, 72) = WithRM("imul_imm", 8, 8, t, 72, RegOperand(t, 8, 72), 4)
    BY <1>3, <2>5, BodyImulImm
  <2>7. RegOperand(t, 8, 72) = r
    BY <1>4, <2>2, <2>4
  <2>8. WithRM("imul_imm", 8, 8, t, 72, r, 4) = Instr("imul_imm", 8, rm, r, v)
    BY <1>5, <2>1, <2>4
  <2> QED
    BY <2>3, <2>4, <2>5, <2>6, <2>7, <2>8 DEF MeansItself, ImulImm
<1> QED
  BY <1>6, <1>7, <1>8 DEF RmReg, Lea

\* mov of an immediate of 4 bytes.
LEMMA MovImmMeans ==
    ASSUME NEW rm \in Addressed, NEW v \in Signed32
    PROVE  MeansItself(MovRm32Imm(rm, v))
<1>1. PICK m : m = ModRM(rm, 0)
  OBVIOUS
<1>2. 0 \in 0..7 /\ Prefix(<<>>, 0) /\ ~IsWide(0) /\ 0 \in RexByte /\ 4 \in OperandSize
  BY RexPrefixes DEF OperandSize
<1>3. m \in Seq(Int) /\ Len(m) >= 1 /\ RegField(m[1]) = 0
  BY <1>1, <1>2, ModRMIs DEF RegField
<1>4. PICK w : w = Written(v, 4)
  OBVIOUS
<1>5. w \in Seq(Int)
  BY <1>4, WrittenIs
<1>6. PICK t : t = m \o w
  OBVIOUS
<1>7. t \in Seq(Int) /\ Len(t) >= 1 /\ t[1] = m[1]
  BY <1>3, <1>5, <1>6, ConcatProperties, LenProperties
<1>0. PICK pre, c : pre = <<>> /\ c = 199
  OBVIOUS
<1>9. c \in Int /\ c \notin 64..79 /\ c # 15
  BY <1>0
<1>8. Encode(MovRm32Imm(rm, v)) = (pre \o <<c>>) \o t
  <2>1. PICK i : i = MovRm32Imm(rm, v)
    OBVIOUS
  <2>2. i.op = "mov_rm_imm" /\ i.rm = rm /\ i.imm = v
    BY <2>1 DEF MovRm32Imm, Instr
  <2>3. Encode(i) = <<199>> \o ModRM(rm, 0) \o Written(v, 4)
    BY <2>2, EncodeIs, Zenon
  <2>4. PICK u \in Seq(Int) : u = <<c>>
    BY <1>9, Single
  <2>5. (u \o m) \o w = u \o (m \o w)
    <3>1. m \in Seq(Int)
      BY <1>3
    <3> QED
      BY <1>5, <3>1, ConcatAssociative, SMTT(60)
  <2>6. pre \o u = u
    BY <1>0, ConcatEmptySeq
  <2> QED
    BY <1>0, <1>1, <1>4, <1>6, <2>1, <2>3, <2>4, <2>5, <2>6
<1>13. Prefix(pre, 0)
  BY <1>0, <1>2
<1>10. PICK s : /\ Decode((pre \o <<c>>) \o t) = Body(s, 0)
                /\ s[1] = c /\ Tail(s) = t /\ s[2] = t[1]
  BY <1>7, <1>9, <1>13, DecodesShort
<1>11. Body(s, 0) = WithRM("mov_rm_imm", 4, 4, t, 0, NoOperand, 4)
  BY <1>0, <1>2, <1>3, <1>7, <1>10, BodyMovImm
<1>12. WithRM("mov_rm_imm", 4, 4, t, 0, NoOperand, 4)
         = Instr("mov_rm_imm", 4, rm, NoOperand, v)
  BY <1>1, <1>2, <1>4, <1>6, Reads
<1> QED
  BY <1>8, <1>10, <1>11, <1>12 DEF MeansItself, MovRm32Imm

\* mov of an immediate into a register, of any size.
LEMMA MovRegImmMeans ==
    ASSUME NEW r \in HasId
    PROVE  /\ \A v \in Signed32 : MeansItself(MovRegImm(r, v, 4))
           /\ \A v \in Signed32 : MeansItself(MovRegImm(r, v, 8))
           /\ \A v \in 0..255 : MeansItself(MovRegImm(r, v, 1))
<1>0. RegId(r) \in 0..7 /\ RegName[RegId(r) + 1] = r
  BY RegIds
<1>1. ASSUME NEW v \in Signed32 PROVE MeansItself(MovRegImm(r, v, 4))
  <2>1. Basic(r) \in Addressed
    BY DEF Addressed
  <2> QED
    BY <2>1, MovImmMeans DEF MovRegImm
<1>2. ASSUME NEW v \in Signed32 PROVE MeansItself(MovRegImm(r, v, 8))
  <2>1. PICK w : w = Written(v, 8)
    OBVIOUS
  <2>2. w \in Seq(Int) /\ Len(w) = 8 /\ Number(SubSeq(w, 1, 4)) = v
    BY <2>1, WrittenIs
  <2>3. PICK k \in 1..8 : k = RegId(r) + 1 /\ RegName[k] = r
    BY <1>0
  <2>13. PICK c : c = 184 + RegId(r)
    OBVIOUS
  <2>4. c \in Int /\ c = 184 + RegId(r) /\ c \notin 64..79 /\ c # 15 /\ c = 183 + k
    BY <1>0, <2>3, <2>13
  <2>5. Encode(MovRegImm(r, v, 8)) = (<<72>> \o <<c>>) \o w
    <3>1. PICK i : i = MovRegImm(r, v, 8)
      OBVIOUS
    <3>2. i.op = "mov_r_imm" /\ i.size = 8 /\ i.reg = r /\ i.imm = v
      BY <3>1 DEF MovRegImm, Instr
    <3>3. Encode(i) = IF i.size = 8
                      THEN RexW \o <<184 + RegId(i.reg)>> \o Written(i.imm, 8)
                      ELSE ByteRex(i.reg) \o <<176 + RegId(i.reg)>> \o Written(i.imm, 1)
      BY <3>2, EncodeIs, Zenon
    <3> QED
      BY <2>1, <2>4, <3>1, <3>2, <3>3 DEF RexW
  <2>6. Prefix(<<72>>, 72) /\ IsWide(72)
    BY RexPrefixes
  <2>12. c \in Int /\ c \notin 64..79 /\ c # 15
    BY <2>4
  <2>14. PICK s : s = <<c>> \o w
    OBVIOUS
  <2>7. /\ Decode((<<72>> \o <<c>>) \o w) = Body(s, 72)
        /\ s = <<c>> \o w /\ s[1] = c /\ Len(s) = Len(w) + 1
    <3>1. w \in Seq(Int)
      BY <2>2
    <3>2. Prefix(<<72>>, 72)
      BY <2>6
    <3>3. Decode((<<72>> \o <<c>>) \o w) = Body(s, 72)
      <4>1. PICK pre, rex : pre = <<72>> /\ rex = 72 /\ Prefix(pre, rex)
        BY <3>2
      <4>2. Decode((pre \o <<c>>) \o w) = Body(s, rex)
        <5>1. Prefix(pre, rex)
          BY <4>1
        <5>2. Decode((pre \o <<c>>) \o w) = Body(<<c>> \o w, rex)
          BY <2>12, <3>1, <5>1, Decodes
        <5> QED
          BY <2>14, <5>2
      <4> QED
        BY <4>1, <4>2
    <3>4. s[1] = c /\ Len(s) = Len(w) + 1
      BY <2>12, <2>14, <3>1, Cons
    <3> QED
      BY <2>14, <3>3, <3>4
  <2>8. Body(s, 72) = Instr("mov_r_imm", 8, None, RegName[k], Number(SubSeq(s, 2, 5)))
    <3>1. Len(s) = 9 /\ s[1] = 183 + k
      BY <2>2, <2>4, <2>7
    <3> QED
      BY <2>6, <3>1, BodyImm8
  <2>9. SubSeq(s, 2, 5) = SubSeq(w, 1, 4)
    <3>1. <<c>> \in Seq(Int) /\ Len(<<c>>) = 1
      BY <2>4
    <3>2. 2 \in 1 + 1 .. 1 + 8 /\ 5 \in 1 + 1 .. 1 + 8 /\ 2 - 1 = 1 /\ 5 - 1 = 4
      OBVIOUS
    <3>3. SubSeq(s, 2, 5) = SubSeq(w, 2 - 1, 5 - 1)
      BY <2>2, <2>7, <3>1, <3>2, SubSeqOfConcat2
    <3> QED
      BY <3>2, <3>3
  <2>10. Body(s, 72) = Instr("mov_r_imm", 8, None, r, v)
    BY <2>2, <2>3, <2>8, <2>9
  <2> QED
    <3>1. MovRegImm(r, v, 8) = Instr("mov_r_imm", 8, None, r, v)
      BY DEF MovRegImm
    <3> QED
      BY <2>5, <2>7, <2>10, <3>1 DEF MeansItself
<1>3. ASSUME NEW v \in 0..255 PROVE MeansItself(MovRegImm(r, v, 1))
  <2>1. Written(v, 1) = <<v>>
    <3>1. PICK w : w = Written(v, 1)
      OBVIOUS
    <3>2. w = [k \in 1..1 |-> IF k <= 4 THEN (v \div Power256[k]) % 256
                              ELSE IF v < 0 THEN 255 ELSE 0]
      BY <3>1 DEF Written
    <3>3. 1 \in 1..1 /\ Power256[1] = 1
      BY DEF Power256
    <3>4. w[1] = (v \div 1) % 256
      BY <3>2, <3>3
    <3>5. (v \div 1) % 256 = v
      OBVIOUS
    <3>6. w = [k \in 1..1 |-> v]
      <4>1. \A k \in 1..1 : k = 1
        OBVIOUS
      <4> QED
        BY <3>2, <3>4, <3>5, <4>1, ZenonT(60)
    <3>7. [k \in 1..1 |-> v] = <<v>>
      OBVIOUS
    <3> QED
      BY <3>1, <3>6, <3>7
  <2>2. PICK id \in 0..7 : id = RegId(r)
    BY <1>0
  <2>11. PICK c : c = 176 + RegId(r)
    OBVIOUS
  <2>3. c \in Int /\ c = 176 + RegId(r) /\ c \notin 64..79 /\ c # 15 /\ c = 176 + id
    BY <1>0, <2>2, <2>11
  <2>4. PICK pre : pre = ByteRex(r)
    OBVIOUS
  <2>5. PICK rex \in RexByte : Prefix(pre, rex) /\ (rex = 0 => RegId(r) < 4)
    <3>1. \/ pre = <<64>> /\ Prefix(pre, 64)
          \/ pre = <<>> /\ Prefix(pre, 0) /\ RegId(r) < 4
      BY <2>4, ByteRexIs
    <3>2. 0 \in RexByte /\ 64 \in RexByte /\ 64 # 0
      BY DEF RexByte
    <3> QED
      BY <3>1, <3>2
  <2>6. PICK w \in Seq(Int) : w = <<v>> /\ Len(w) = 1 /\ w[1] = v
    <3>1. v \in Int
      OBVIOUS
    <3> QED
      BY <3>1, Single
  <2>7. Encode(MovRegImm(r, v, 1)) = (pre \o <<c>>) \o w
    <3>1. PICK i : i = MovRegImm(r, v, 1)
      OBVIOUS
    <3>2. i.op = "mov_r_imm" /\ i.size = 1 /\ i.reg = r /\ i.imm = v
      BY <3>1 DEF MovRegImm, Instr
    <3>3. Encode(i) = IF i.size = 8
                      THEN RexW \o <<184 + RegId(i.reg)>> \o Written(i.imm, 8)
                      ELSE ByteRex(i.reg) \o <<176 + RegId(i.reg)>> \o Written(i.imm, 1)
      BY <3>2, EncodeIs, Zenon
    <3> QED
      <4>1. Encode(i) = ByteRex(r) \o <<176 + RegId(r)>> \o Written(v, 1)
        BY <3>2, <3>3
      <4> QED
        BY <2>1, <2>11, <2>4, <2>6, <3>1, <4>1, Zenon
  <2>8. PICK s : /\ Decode((pre \o <<c>>) \o w) = Body(s, rex)
                 /\ s[1] = c /\ Len(s) = Len(w) + 1 /\ s[2] = w[1]
    <3>1. Len(w) >= 1
      BY <2>6
    <3> QED
      BY <2>3, <2>5, <3>1, DecodesShort, SMTT(60)
  <2>9. Body(s, rex) = Instr("mov_r_imm", 1, None, RegisterNamed(id, 1, rex), s[2])
    <3>1. Len(s) = 2 /\ s[1] = 176 + id
      BY <2>3, <2>6, <2>8
    <3> QED
      BY <3>1, BodyImm1
  <2>10. RegisterNamed(RegId(r), 1, rex) = r
    <3>1. 1 \in OperandSize
      BY DEF OperandSize
    <3> QED
      BY <2>5, <3>1, RegisterIs
  <2> QED
    <3>1. MovRegImm(r, v, 1) = Instr("mov_r_imm", 1, None, r, v)
      BY DEF MovRegImm
    <3> QED
      BY <2>2, <2>6, <2>7, <2>8, <2>9, <2>10, <3>1 DEF MeansItself
<1> QED
  BY <1>1, <1>2, <1>3

\* movzx of the byte of a register, and the byte that sete and setne set.
LEMMA ByteMeans ==
    ASSUME NEW r \in HasId, NEW q \in HasId
    PROVE  /\ MeansItself(Movzx8(q, Basic(r)))
           /\ MeansItself(SetByteIf("sete", Basic(r)))
           /\ MeansItself(SetByteIf("setne", Basic(r)))
<1>1. PICK rm \in Addressed : rm = Basic(r)
  BY DEF Addressed
<1>2. rm.base = r /\ rm.mode = "basic"
  BY <1>1 DEF Basic
<1>3. PICK pre : pre = ByteRexOf(rm)
  OBVIOUS
<1>4. PICK rex \in RexByte : Prefix(pre, rex) /\ (rex = 0 => RegId(r) < 4)
  <2>1. pre = ByteRex(r)
    BY <1>2, <1>3 DEF ByteRexOf
  <2>2. \/ pre = <<64>> /\ Prefix(pre, 64)
        \/ pre = <<>> /\ Prefix(pre, 0) /\ RegId(r) < 4
    BY <2>1, ByteRexIs
  <2>3. 0 \in RexByte /\ 64 \in RexByte /\ 64 # 0
    BY DEF RexByte
  <2> QED
    BY <2>2, <2>3
<1>5. 1 \in OperandSize /\ 4 \in OperandSize /\ 4 # 1
  BY DEF OperandSize
<1>6. RegId(q) \in 0..7 /\ 0 \in 0..7
  BY RegIds
<1>7. MeansItself(Movzx8(q, rm))
  <2>1. PICK m : m = ModRM(rm, RegId(q))
    OBVIOUS
  <2>2. m \in Seq(Int)
    BY <1>6, <2>1, ModRMIs
  <2>3. PICK c : c = 182
    OBVIOUS
  <2>4. Encode(Movzx8(q, rm)) = (pre \o <<15, c>>) \o m
    <3>1. PICK i : i = Movzx8(q, rm)
      OBVIOUS
    <3>2. i.op = "movzx8" /\ i.rm = rm /\ i.reg = q
      BY <3>1 DEF Movzx8, Instr
    <3>3. Encode(i) = ByteRexOf(i.rm) \o <<15, 182>> \o ModRM(i.rm, RegId(i.reg))
      BY <3>2, EncodeIs, Zenon
    <3> QED
      BY <1>3, <2>1, <2>3, <3>1, <3>2, <3>3, Zenon
  <2>5. c \in Int
    BY <2>3
  <2>6. PICK s : /\ Decode((pre \o <<15, c>>) \o m) = LongBody(s, rex)
                 /\ s[1] = c /\ Tail(s) = m
    BY <1>4, <2>2, <2>5, DecodesLong
  <2>7. LongBody(s, rex) = WithRM("movzx8", 4, 1, m, rex, RegOperand(m, 4, rex), 0)
    BY <2>3, <2>6, LongMovzx
  <2>8. RegOperand(m, 4, rex) = q
    BY <1>5, <2>1, ReadsRegister
  <2>9. WithRM("movzx8", 4, 1, m, rex, q, 0) = Instr("movzx8", 4, rm, q, 0)
    <3>1. rex = 0 => RegId(rm.base) < 4
      BY <1>2, <1>4
    <3> QED
      BY <1>5, <1>6, <2>1, <3>1, Reads
  <2> QED
    BY <2>4, <2>6, <2>7, <2>8, <2>9 DEF MeansItself, Movzx8
<1>8. PICK m : m = ModRM(rm, 0)
  OBVIOUS
<1>9. m \in Seq(Int)
  BY <1>6, <1>8, ModRMIs
<1>10. ASSUME NEW op
       PROVE  WithRM(op, 1, 1, m, rex, NoOperand, 0) = Instr(op, 1, rm, NoOperand, 0)
  <2>1. rex = 0 => RegId(rm.base) < 4
    BY <1>2, <1>4
  <2> QED
    BY <1>5, <1>6, <1>8, <2>1, Reads
<1>11. MeansItself(SetByteIf("sete", rm))
  <2>3. PICK c : c = 148
    OBVIOUS
  <2>4. Encode(SetByteIf("sete", rm)) = (pre \o <<15, c>>) \o m
    <3>1. PICK i : i = SetByteIf("sete", rm)
      OBVIOUS
    <3>2. i.op = "sete" /\ i.rm = rm
      BY <3>1 DEF SetByteIf, Instr
    <3>3. Encode(i) = ByteRexOf(i.rm) \o <<15, 148>> \o ModRM(i.rm, 0)
      BY <3>2, EncodeIs, Zenon
    <3> QED
      BY <1>3, <1>8, <2>3, <3>1, <3>2, <3>3, Zenon
  <2>5. c \in Int
    BY <2>3
  <2>6. PICK s : /\ Decode((pre \o <<15, c>>) \o m) = LongBody(s, rex)
                 /\ s[1] = c /\ Tail(s) = m
    BY <1>4, <1>9, <2>5, DecodesLong
  <2>7. LongBody(s, rex) = WithRM("sete", 1, 1, m, rex, NoOperand, 0)
    BY <2>3, <2>6, LongSete
  <2> QED
    BY <1>10, <2>4, <2>6, <2>7 DEF MeansItself, SetByteIf
<1>12. MeansItself(SetByteIf("setne", rm))
  <2>3. PICK c : c = 149
    OBVIOUS
  <2>4. Encode(SetByteIf("setne", rm)) = (pre \o <<15, c>>) \o m
    <3>1. PICK i : i = SetByteIf("setne", rm)
      OBVIOUS
    <3>2. i.op = "setne" /\ i.rm = rm
      BY <3>1 DEF SetByteIf, Instr
    <3>3. Encode(i) = ByteRexOf(i.rm) \o <<15, 149>> \o ModRM(i.rm, 0)
      BY <3>2, EncodeIs, Zenon
    <3> QED
      BY <1>3, <1>8, <2>3, <3>1, <3>2, <3>3, Zenon
  <2>5. c \in Int
    BY <2>3
  <2>6. PICK s : /\ Decode((pre \o <<15, c>>) \o m) = LongBody(s, rex)
                 /\ s[1] = c /\ Tail(s) = m
    BY <1>4, <1>9, <2>5, DecodesLong
  <2>7. LongBody(s, rex) = WithRM("setne", 1, 1, m, rex, NoOperand, 0)
    BY <2>3, <2>6, LongSetne
  <2> QED
    BY <1>10, <2>4, <2>6, <2>7 DEF MeansItself, SetByteIf
<1> QED
  BY <1>1, <1>7, <1>11, <1>12

\* The operations with one r/m operand of 8 bytes.
LEMMA UnaryMeans ==
    ASSUME NEW rm \in Addressed
    PROVE  /\ MeansItself(Unary("idiv", rm)) /\ MeansItself(Unary("push", rm))
           /\ MeansItself(Unary("pop", rm))
<1>1. 8 \in OperandSize /\ 8 # 1
  BY DEF OperandSize
<1>2. ASSUME NEW op \in {"idiv", "push", "pop"}
      PROVE  MeansItself(Unary(op, rm))
  <2>1. PICK pre, rex, c, f :
           \/ op = "idiv" /\ pre = <<72>> /\ rex = 72 /\ c = 247 /\ f = 7
           \/ op = "push" /\ pre = <<>> /\ rex = 0 /\ c = 255 /\ f = 6
           \/ op = "pop" /\ pre = <<>> /\ rex = 0 /\ c = 143 /\ f = 0
    OBVIOUS
  <2>2. f \in 0..7 /\ c \in Int /\ c \notin 64..79 /\ c # 15
    BY SMTT(60), <2>1
  <2>3. Prefix(pre, rex) /\ rex \in RexByte
    BY <2>1, RexPrefixes
  <2>4. PICK m : m = ModRM(rm, f)
    OBVIOUS
  <2>5. m \in Seq(Int) /\ Len(m) >= 1 /\ RegField(m[1]) = f
    BY <2>2, <2>4, ModRMIs DEF RegField
  <2>6. Encode(Unary(op, rm)) = (pre \o <<c>>) \o m
    <3>1. PICK i : i = Unary(op, rm)
      OBVIOUS
    <3>2. i.op = op /\ i.rm = rm
      BY <3>1 DEF Unary, Instr
    <3>3. Encode(i) = UnaryOpcode[i.op] \o ModRM(i.rm, UnaryField[i.op])
      BY <3>2, EncodeIs, Zenon
    <3>4. UnaryField[op] = f
      BY <2>1 DEF UnaryField
    <3>5. UnaryOpcode[op] = pre \o <<c>>
      <4>1. <<>> \o <<255>> = <<255>> /\ <<>> \o <<143>> = <<143>>
        OBVIOUS
      <4>2. CASE op = "idiv"
        BY <2>1, <4>2 DEF UnaryOpcode, RexW
      <4>3. CASE op = "push"
        BY <2>1, <4>1, <4>3 DEF UnaryOpcode
      <4>4. CASE op = "pop"
        BY <2>1, <4>1, <4>4 DEF UnaryOpcode
      <4> QED
        BY <4>2, <4>3, <4>4
    <3> QED
      BY <2>4, <3>1, <3>2, <3>3, <3>4, <3>5, Zenon
  <2>7. PICK s : /\ Decode((pre \o <<c>>) \o m) = Body(s, rex)
                 /\ s[1] = c /\ Tail(s) = m /\ s[2] = m[1]
    BY <2>2, <2>3, <2>5, DecodesShort
  <2>8. Body(s, rex) = WithRM(op, 8, 8, m, rex, NoOperand, 0)
    <3>1. CASE op = "idiv"
      <4>1. s[1] = 247 /\ RegField(s[2]) = 7 /\ IsWide(rex)
        BY <2>1, <2>5, <2>7, <3>1, RexPrefixes
      <4> QED
        BY <2>7, <3>1, <4>1, BodyIdiv
    <3>2. CASE op = "push"
      <4>1. s[1] = 255 /\ RegField(s[2]) = 6
        BY <2>1, <2>5, <2>7, <3>2
      <4> QED
        BY <2>7, <3>2, <4>1, BodyPush
    <3>3. CASE op = "pop"
      <4>1. s[1] = 143 /\ RegField(s[2]) = 0
        BY <2>1, <2>5, <2>7, <3>3
      <4> QED
        BY <2>7, <3>3, <4>1, BodyPop
    <3> QED
      BY <3>1, <3>2, <3>3
  <2>9. WithRM(op, 8, 8, m, rex, NoOperand, 0) = Instr(op, 8, rm, NoOperand, 0)
    BY <1>1, <2>2, <2>3, <2>4, Reads
  <2> QED
    BY <2>6, <2>7, <2>8, <2>9 DEF MeansItself, Unary
<1> QED
  BY <1>2

\* lea of a string: a displacement from rip that is filled in later.
LEMMA LeaStringMeans ==
    ASSUME NEW r \in HasId
    PROVE  MeansItself(LeaString(r))
<1>1. PICK f \in 0..7 : f = RegId(r)
  BY RegIds
<1>2. PICK b : b = 5 + 8 * f
  OBVIOUS
<1>3. b \in Int /\ b \div 64 = 0 /\ b % 8 = 5 /\ (b \div 8) % 8 = f
  BY <1>2, SMT
<1>4. PICK w : w = Written(0, 4)
  OBVIOUS
<1>5. w \in Seq(Int) /\ Len(w) = 4
  <2>1. 0 \in Signed32
    BY DEF Signed32
  <2> QED
    BY <1>4, <2>1, WrittenIs
<1>6. PICK t : t = <<b>> \o w
  OBVIOUS
<1>7. t \in Seq(Int) /\ t[1] = b /\ Len(t) = 5
  <2>1. b \in Int /\ w \in Seq(Int)
    BY <1>3, <1>5
  <2>2. t \in Seq(Int) /\ t[1] = b /\ Len(t) = Len(w) + 1
    BY <1>6, <2>1, Cons
  <2> QED
    BY <1>5, <2>2
<1>8. PICK c : c = 141
  OBVIOUS
<1>9. c \in Int /\ c \notin 64..79 /\ c # 15
  BY <1>8
<1>10. Encode(LeaString(r)) = (<<72>> \o <<c>>) \o t
  <2>1. PICK i : i = LeaString(r)
    OBVIOUS
  <2>2. i.op = "lea_rip" /\ i.reg = r
    BY <2>1 DEF LeaString, Instr
  <2>3. Encode(i) = RexW \o <<141, 5 + 8 * RegId(i.reg)>> \o Written(0, 4)
    BY <2>2, EncodeIs, Zenon
  <2>4. Encode(i) = (<<72>> \o <<c, b>>) \o w
    BY <1>1, <1>2, <1>4, <1>8, <2>2, <2>3 DEF RexW
  <2>5. <<c, b>> = <<c>> \o <<b>>
    OBVIOUS
  <2>6. PICK u \in Seq(Int), x \in Seq(Int), y \in Seq(Int) :
          u = <<72>> /\ x = <<c>> /\ y = <<b>>
    <3>1. PICK a \in Int : a = 72
      OBVIOUS
    <3>2. <<a>> \in Seq(Int) /\ <<c>> \in Seq(Int) /\ <<b>> \in Seq(Int)
      BY <1>3, <1>9, Single
    <3> QED
      BY <3>1, <3>2
  <2>7. u \o x \in Seq(Int) /\ u \o (x \o y) = (u \o x) \o y
    <3>1. u \o x \in Seq(Int)
      BY ConcatProperties
    <3>2. u \o (x \o y) = (u \o x) \o y
      BY ConcatAssociative, SMTT(60)
    <3> QED
      BY <3>1, <3>2
  <2>8. PICK z \in Seq(Int) : z = u \o x
    BY <2>7
  <2>9. (z \o y) \o w = z \o (y \o w)
    BY <1>5, ConcatAssociative, SMTT(60)
  <2> QED
    BY <1>6, <2>1, <2>4, <2>5, <2>6, <2>7, <2>8, <2>9
<1>11. Prefix(<<72>>, 72) /\ IsWide(72) /\ 72 \in RexByte /\ 8 \in OperandSize /\ 8 # 1
  BY RexPrefixes DEF OperandSize
<1>12. PICK s : Decode((<<72>> \o <<c>>) \o t) = Body(s, 72) /\ s[1] = c /\ Tail(s) = t
  <2>1. t \in Seq(Int) /\ Prefix(<<72>>, 72)
    BY <1>7, <1>11
  <2> QED
    BY <1>9, <2>1, DecodesShort
<1>13. Body(s, 72) = WithRM("lea", 8, 8, t, 72, RegOperand(t, 8, 72), 0)
  BY <1>8, <1>11, <1>12, BodyLea
<1>14. RegOperand(t, 8, 72) = r
  <2>1. RegField(t[1]) = RegId(r)
    BY <1>1, <1>3, <1>7 DEF RegField
  <2>2. RegisterNamed(RegId(r), 8, 72) = r
    BY <1>11, RegisterIs
  <2> QED
    BY <2>1, <2>2 DEF RegOperand
<1>15. ReadRM(t, 8, 72) = [rm |-> None, len |-> 5]
  BY <1>3, <1>7 DEF ReadRM
<1>16. WithRM("lea", 8, 8, t, 72, r, 0) = Instr("lea_rip", 8, None, r, 0)
  <2>1. PICK d : d = [rm |-> None, len |-> 5]
    OBVIOUS
  <2>2. d.rm = None /\ d.len = 5 /\ d.len # 0 /\ Len(t) = d.len + 0
    BY <1>7, <2>1
  <2> QED
    BY <1>15, <2>1, <2>2 DEF WithRM
<1> QED
  BY <1>10, <1>12, <1>13, <1>14, <1>16 DEF MeansItself, LeaString

\* The operations without operands.
LEMMA PlainMeans ==
    ASSUME NEW op \in {"cqo", "leave", "ret", "jmp", "call", "je", "jne"}
    PROVE  MeansItself(Plain(op))
<1>1. PICK w : w = Written(0, 4)
  OBVIOUS
<1>2. w \in Seq(Int) /\ Len(w) = 4
  <2>1. 0 \in Signed32
    BY DEF Signed32
  <2> QED
    BY <1>1, <2>1, WrittenIs
<1>3. Encode(Plain(op)) = PlainCode[op]
  <2>1. PICK i : i = Plain(op)
    OBVIOUS
  <2>2. i.op = op
    BY <2>1 DEF Plain, Instr
  <2> QED
    BY <2>1, <2>2, EncodeIs, ZenonT(60)
<1>4. <<>> \in Seq(Int) /\ Len(<<>>) = 0
  BY EmptySeq
<1>5. CASE op \in {"cqo", "leave", "ret", "jmp", "call"}
  <2>1. PICK pre, rex, c, t :
           \/ op = "cqo" /\ pre = <<72>> /\ rex = 72 /\ c = 153 /\ t = <<>>
           \/ op = "leave" /\ pre = <<>> /\ rex = 0 /\ c = 201 /\ t = <<>>
           \/ op = "ret" /\ pre = <<>> /\ rex = 0 /\ c = 195 /\ t = <<>>
           \/ op = "jmp" /\ pre = <<>> /\ rex = 0 /\ c = 233 /\ t = w
           \/ op = "call" /\ pre = <<>> /\ rex = 0 /\ c = 232 /\ t = w
    BY <1>5
  <2>2. c \in Int /\ c \notin 64..79 /\ c # 15
    BY <2>1, SMTT(60)
  <2>3. Prefix(pre, rex)
    BY <2>1, RexPrefixes
  <2>4. t \in Seq(Int)
    BY <1>2, <1>4, <2>1
  <2>5. PlainCode[op] = (pre \o <<c>>) \o t
    <3>1. PICK x \in Seq(Int) : x = <<c>>
      BY <2>2, Single
    <3>2. x \o <<>> = x /\ <<>> \o x = x
      BY ConcatEmptySeq
    <3>3. CASE op = "cqo"
      <4>1. PlainCode[op] = <<72>> \o <<153>>
        BY <3>3 DEF PlainCode, RexW
      <4>2. PICK y \in Seq(Int) : y = <<72>> \o <<c>>
        <5>1. PICK z \in Seq(Int) : z = <<72>>
          <6>1. PICK a \in Int : a = 72
            OBVIOUS
          <6> QED
            BY <6>1, Single
        <5> QED
          BY <3>1, <5>1, ConcatProperties
      <4>3. y \o <<>> = y
        BY ConcatEmptySeq
      <4> QED
        BY <2>1, <3>3, <4>1, <4>2, <4>3
    <3>4. CASE op = "leave"
      BY <2>1, <3>1, <3>2, <3>4 DEF PlainCode
    <3>5. CASE op = "ret"
      BY <2>1, <3>1, <3>2, <3>5 DEF PlainCode
    <3>6. CASE op = "jmp"
      BY <1>1, <2>1, <3>1, <3>2, <3>6 DEF PlainCode
    <3>7. CASE op = "call"
      BY <1>1, <2>1, <3>1, <3>2, <3>7 DEF PlainCode
    <3> QED
      BY <1>5, <3>3, <3>4, <3>5, <3>6, <3>7
  <2>6. PICK s : /\ Decode((pre \o <<c>>) \o t) = Body(s, rex)
                 /\ s[1] = c /\ Len(s) = Len(t) + 1
    BY <2>2, <2>3, <2>4, DecodesShort
  <2>7. Body(s, rex) = Plain(op)
    <3>1. CASE op = "cqo"
      <4>1. s[1] = 153 /\ Len(s) = 1 /\ IsWide(rex)
        BY <1>4, <2>1, <2>6, <3>1, RexPrefixes
      <4> QED
        BY <3>1, <4>1, BodyCqo
    <3>2. CASE op = "leave"
      <4>1. s[1] = 201 /\ Len(s) = 1
        BY <1>4, <2>1, <2>6, <3>2
      <4> QED
        BY <3>2, <4>1, BodyLeave
    <3>3. CASE op = "ret"
      <4>1. s[1] = 195 /\ Len(s) = 1
        BY <1>4, <2>1, <2>6, <3>3
      <4> QED
        BY <3>3, <4>1, BodyRet
    <3>4. CASE op = "jmp"
      <4>1. s[1] = 233 /\ Len(s) = 5
        <5>1. c = 233 /\ Len(t) = 4
          BY <1>2, <2>1, <3>4
        <5> QED
          BY <2>6, <5>1
      <4> QED
        BY <3>4, <4>1, BodyJmp
    <3>5. CASE op = "call"
      <4>1. s[1] = 232 /\ Len(s) = 5
        <5>1. c = 232 /\ Len(t) = 4
          BY <1>2, <2>1, <3>5
        <5> QED
          BY <2>6, <5>1
      <4> QED
        BY <3>5, <4>1, BodyCall
    <3> QED
      BY <1>5, <3>1, <3>2, <3>3, <3>4, <3>5
  <2> QED
    BY <1>3, <2>5, <2>6, <2>7 DEF MeansItself
<1>6. CASE op \in {"je", "jne"}
  <2>1. PICK c : \/ op = "je" /\ c = 132
                 \/ op = "jne" /\ c = 133
    BY <1>6
  <2>2. c \in Int
    BY <2>1
  <2>3. PICK pre : pre = <<>> /\ Prefix(pre, 0)
    BY RexPrefixes
  <2>4. PlainCode[op] = (pre \o <<15, c>>) \o w
    <3>1. pre \o <<15, 132>> = <<15, 132>> /\ pre \o <<15, 133>> = <<15, 133>>
      BY <2>3
    <3>2. CASE op = "je"
      BY <1>1, <2>1, <3>1, <3>2, ZenonT(60) DEF PlainCode
    <3>3. CASE op = "jne"
      BY <1>1, <2>1, <3>1, <3>3, ZenonT(60) DEF PlainCode
    <3> QED
      BY <1>6, <3>2, <3>3
  <2>5. PICK s : /\ Decode((pre \o <<15, c>>) \o w) = LongBody(s, 0)
                 /\ s[1] = c /\ Len(s) = Len(w) + 1
    <3>1. Prefix(pre, 0) /\ w \in Seq(Int)
      BY <1>2, <2>3
    <3> QED
      BY <2>2, <3>1, DecodesLong
  <2>6. LongBody(s, 0) = Plain(op)
    <3>1. Len(s) = 5
      BY <1>2, <2>5
    <3>2. CASE op = "je"
      <4>1. s[1] = 132
        BY <2>1, <2>5, <3>2
      <4> QED
        BY <3>1, <3>2, <4>1, LongJe
    <3>3. CASE op = "jne"
      <4>1. s[1] = 133
        BY <2>1, <2>5, <3>3
      <4> QED
        BY <3>1, <3>3, <4>1, LongJne
    <3> QED
      BY <1>6, <3>2, <3>3
  <2> QED
    BY <1>3, <2>4, <2>5, <2>6 DEF MeansItself
<1> QED
  BY <1>5, <1>6

------------------------------------------------------------------------------
(* The registers and operands that the handlers name. *)

\* If the assembler knows the registers of i, its bytes mean i.
Faithful(i) == NamedBy(i) \subseteq HasId => MeansItself(i)

LEMMA Names ==
    ASSUME NEW r \in Free \cup {"RBP"}, NEW i, r \in {i.rm.base, i.reg}, NamedBy(i) \subseteq HasId
    PROVE  r \in HasId
<1>1. r # NoOperand
  BY RegistersAre DEF Free, NoOperand, Register, NoRegister
<1> QED
  BY <1>1 DEF NamedBy

LEMMA LocalIs ==
    Local \subseteq InMemory
<1>1. "RBP" \in HasId \ {"RSP"}
  BY DEF HasId, RegName
<1>2. -8 \in Signed32 /\ -264 \in Signed32
  BY DEF Signed32
<1> QED
  BY <1>1, <1>2 DEF Local, InMemory

\* The operand of an lvalue: a local variable or what a register points at.
LEMMA OperandIs ==
    ASSUME NEW base \in Free \cup {"RBP"}, NEW rm \in OperandAt(base), base \in HasId
    PROVE  rm \in InMemory
<1>1. CASE base = "RBP"
  BY <1>1, LocalIs DEF OperandAt
<1>2. CASE base # "RBP"
  <2>1. base \in HasId \ {"RSP", "RBP"}
    BY <1>2 DEF Free, Reserved
  <2> QED
    BY <1>2, <2>1 DEF OperandAt, InMemory
<1> QED
  BY <1>1, <1>2

\* The instructions of the handlers.
LEMMA MovesFaithful ==
    ASSUME NEW r \in Free, NEW base \in Free \cup {"RBP"}
    PROVE  /\ \A rm \in OperandAt(base), size \in OperandSize :
                 /\ Faithful(MovStore(rm, r, size)) /\ Faithful(MovLoad(r, rm, size))
                 /\ Faithful(Lea(r, rm))
           /\ \A q \in Free : Faithful(MovStore(Basic(r), q, 8))
           /\ \A v \in Immediate :
                 /\ Faithful(MovRm32Imm(Basic(r), v)) /\ Faithful(ImulImm(r, Basic(r), v))
                 /\ \A size \in OperandSize :
                       Faithful(MovRegImm(r, IF size = 1 THEN v % 256 ELSE v, size))
<1>1. ASSUME NEW rm \in OperandAt(base), NEW size \in OperandSize
      PROVE  /\ Faithful(MovStore(rm, r, size)) /\ Faithful(MovLoad(r, rm, size))
             /\ Faithful(Lea(r, rm))
  <2>1. rm.base = base
    BY DEF OperandAt, Local, MemRead, MemReadDisp
  <2>2. ASSUME r \in HasId, base \in HasId
        PROVE  MeansItself(MovStore(rm, r, size)) /\ MeansItself(MovLoad(r, rm, size))
               /\ MeansItself(Lea(r, rm))
    <3>1. rm \in InMemory /\ rm \in Addressed
      BY <2>2, OperandIs DEF Addressed
    <3> QED
      BY <2>2, <3>1, MovMeans, RegisterMeans
  <2>3. ASSUME NEW i, i.rm = rm, i.reg = r, NamedBy(i) \subseteq HasId
        PROVE  r \in HasId /\ base \in HasId
    BY <2>1, <2>3, Names
  <2>4. /\ MovStore(rm, r, size).rm = rm /\ MovStore(rm, r, size).reg = r
        /\ MovLoad(r, rm, size).rm = rm /\ MovLoad(r, rm, size).reg = r
        /\ Lea(r, rm).rm = rm /\ Lea(r, rm).reg = r
    BY DEF MovStore, MovLoad, Lea, Instr
  <2> QED
    BY <2>2, <2>3, <2>4 DEF Faithful
<1>2. ASSUME NEW q \in Free
      PROVE  Faithful(MovStore(Basic(r), q, 8))
  <2>1. PICK i : i = MovStore(Basic(r), q, 8)
    OBVIOUS
  <2>2. i.rm.base = r /\ i.reg = q
    BY <2>1 DEF MovStore, Instr, Basic
  <2>3. NamedBy(i) \subseteq HasId => r \in HasId /\ q \in HasId
    BY <2>2, Names
  <2>4. ASSUME r \in HasId, q \in HasId PROVE MeansItself(i)
    <3>1. Basic(r) \in Addressed /\ 8 \in OperandSize /\ 8 # 1
      BY <2>4 DEF Addressed, OperandSize
    <3> QED
      BY <2>1, <2>4, <3>1, MovMeans
  <2> QED
    BY <2>1, <2>3, <2>4 DEF Faithful
<1>3. ASSUME NEW v \in Immediate
      PROVE  /\ Faithful(MovRm32Imm(Basic(r), v)) /\ Faithful(ImulImm(r, Basic(r), v))
             /\ \A size \in OperandSize :
                   Faithful(MovRegImm(r, IF size = 1 THEN v % 256 ELSE v, size))
  <2>1. v \in Signed32 /\ v % 256 \in 0..255
    BY DEF Immediate, Signed32
  <2>2. ASSUME r \in HasId
        PROVE  /\ MeansItself(MovRm32Imm(Basic(r), v)) /\ MeansItself(ImulImm(r, Basic(r), v))
               /\ \A size \in OperandSize :
                     MeansItself(MovRegImm(r, IF size = 1 THEN v % 256 ELSE v, size))
    <3>1. Basic(r) \in Addressed
      BY <2>2 DEF Addressed
    <3>2. MeansItself(MovRm32Imm(Basic(r), v))
      BY <2>1, <3>1, MovImmMeans
    <3>3. MeansItself(ImulImm(r, Basic(r), v))
      BY <2>1, <2>2, <3>1, RegisterMeans
    <3>4. /\ MeansItself(MovRegImm(r, v % 256, 1)) /\ MeansItself(MovRegImm(r, v, 4))
          /\ MeansItself(MovRegImm(r, v, 8))
      BY <2>1, <2>2, MovRegImmMeans
    <3> QED
      BY <3>2, <3>3, <3>4 DEF OperandSize
  <2>3. ASSUME NEW i, i.reg = r \/ i.rm.base = r, NamedBy(i) \subseteq HasId
        PROVE  r \in HasId
    BY <2>3, Names
  <2>4. /\ MovRm32Imm(Basic(r), v).rm.base = r /\ ImulImm(r, Basic(r), v).reg = r
        /\ \A size, x : \/ MovRegImm(r, x, size).reg = r
                        \/ MovRegImm(r, x, size).rm.base = r
    BY DEF MovRm32Imm, MovRegImm, ImulImm, Instr, Basic
  <2> QED
    BY <2>2, <2>3, <2>4 DEF Faithful
<1> QED
  BY <1>1, <1>2, <1>3

LEMMA OperationsFaithful ==
    ASSUME NEW r \in Free, NEW q \in Free
    PROVE  /\ \A op \in {"add", "sub", "cmp", "test"} : Faithful(RmReg(op, Basic(r), q))
           /\ Faithful(Imul(r, Basic(q)))
           /\ Faithful(Movzx8(r, Basic(r))) /\ Faithful(LeaString(r))
           /\ \A op \in {"idiv", "push", "pop"} : Faithful(Unary(op, Basic(r)))
           /\ \A op \in {"sete", "setne"} : Faithful(SetByteIf(op, Basic(r)))
           /\ \A op \in {"cqo", "leave", "ret", "jmp", "call", "je", "jne"} : Faithful(Plain(op))
<1>1. ASSUME NEW i, r \in {i.rm.base, i.reg}, NamedBy(i) \subseteq HasId
      PROVE  r \in HasId
  BY <1>1, Names
<1>2. ASSUME NEW i, q \in {i.rm.base, i.reg}, NamedBy(i) \subseteq HasId
      PROVE  q \in HasId
  BY <1>2, Names
<1>3. ASSUME r \in HasId PROVE Basic(r) \in Addressed
  BY <1>3 DEF Addressed
<1>4. ASSUME NEW op \in {"add", "sub", "cmp", "test"}
      PROVE  Faithful(RmReg(op, Basic(r), q))
  <2>1. PICK i : i = RmReg(op, Basic(r), q)
    OBVIOUS
  <2>2. r \in {i.rm.base, i.reg} /\ q \in {i.rm.base, i.reg}
    BY <2>1 DEF RmReg, Instr, Basic
  <2> QED
    BY <1>1, <1>2, <1>3, <2>1, <2>2, RegisterMeans DEF Faithful
<1>5. Faithful(Imul(r, Basic(q)))
  <2>1. PICK i : i = Imul(r, Basic(q))
    OBVIOUS
  <2>2. r \in {i.rm.base, i.reg} /\ q \in {i.rm.base, i.reg}
    BY <2>1 DEF Imul, Instr, Basic
  <2>3. q \in HasId => Basic(q) \in Addressed
    BY DEF Addressed
  <2> QED
    BY <1>1, <1>2, <2>1, <2>2, <2>3, RegisterMeans DEF Faithful
<1>6. Faithful(Movzx8(r, Basic(r))) /\ Faithful(LeaString(r))
  <2>1. r \in {Movzx8(r, Basic(r)).reg} /\ r \in {LeaString(r).reg}
    BY DEF Movzx8, LeaString, Instr
  <2> QED
    BY <1>1, <2>1, ByteMeans, LeaStringMeans DEF Faithful
<1>7. ASSUME NEW op
      PROVE  /\ op \in {"idiv", "push", "pop"} => Faithful(Unary(op, Basic(r)))
             /\ op \in {"sete", "setne"} => Faithful(SetByteIf(op, Basic(r)))
  <2>1. r \in {Unary(op, Basic(r)).rm.base} /\ r \in {SetByteIf(op, Basic(r)).rm.base}
    BY DEF Unary, SetByteIf, Instr, Basic
  <2> QED
    BY <1>1, <1>3, <2>1, UnaryMeans, ByteMeans DEF Faithful
<1>8. ASSUME NEW op \in {"cqo", "leave", "ret", "jmp", "call", "je", "jne"}
      PROVE  Faithful(Plain(op))
  BY PlainMeans DEF Faithful
<1> QED
  BY <1>4, <1>5, <1>6, <1>7, <1>8

------------------------------------------------------------------------------
(* Every step emits instructions that mean themselves. *)

LEMMA EmitsFaithful ==
    ASSUME NEW is, Emits(is), \A i \in is : Faithful(i)
    PROVE  faithful'
BY Zenon DEF Emits, Faithful

LEMMA SizesAre ==
    ASSUME NEW size
    PROVE  SizesOf(size) \subseteq OperandSize /\ 8 \in OperandSize
BY DEF SizesOf, OperandSize

\* What the handlers find on top of their stacks, get from the allocator and kept.
LEMMA Named ==
    ASSUME ReservedInv, todo # <<>>
    PROVE  /\ results # <<>> => Last(results) \in Free
           /\ lvalues # <<>> => Last(lvalues) \in Free \cup {"RBP"}
           /\ Len(results) >= 2 =>
                 /\ \A e : LhsResult(e) \in Free /\ RhsResult(e) \in Free
                 /\ results[Len(results)] \in Free /\ results[Len(results) - 1] \in Free
           /\ Top.op \in {"value", "casted", "binary", "over"} => Available(Top.m) \in Free
           /\ Top.op \in {"over", "call"} => \A r \in Top.saved : r \in Free
           /\ Top.op = "call" => Top.output \in Free
           /\ Top.op = "statement" => Top.kind \in StatementKind
           /\ "RAX" \in Free /\ "RDX" \in Free
<1>1. TaskOK(Top)
  BY FirstTask DEF ReservedInv
<1>2. Top.op \in {"value", "casted", "binary", "over"} => Available(Top.m) \in Free
  BY <1>1, AvailableIsFree DEF TaskOK, ReservedInv
<1>3. "RAX" \in Free /\ "RDX" \in Free
  BY RegistersAre DEF Volatile
<1>4. /\ Top.op \in {"over", "call"} => \A r \in Top.saved : r \in Free
      /\ Top.op = "call" => Top.output \in Free
      /\ Top.op = "statement" => Top.kind \in StatementKind
  BY <1>1, RegistersAre DEF TaskOK
<1> QED
  BY <1>2, <1>3, <1>4, ResultsAre

\* The moves a statement, a leaf or the end of a handler may need.
LEMMA StoresFaithful ==
    ASSUME NEW r \in Free, NEW base \in Free \cup {"RBP"}, NEW size
    PROVE  /\ \A rm \in OperandAt(base), n \in SizesOf(size) :
                 Faithful(MovStore(rm, r, n)) /\ Faithful(MovLoad(r, rm, n))
           /\ \A rm \in OperandAt(base) : Faithful(Lea(r, rm))
BY SizesAre, MovesFaithful

LEMMA LocalOperand == Local = OperandAt("RBP")
BY DEF OperandAt

LEMMA StatementsFaithful ==
    ASSUME ReservedInv, EndStatement \/ EndCompare \/ \E st \in Statement : Begin(st)
    PROVE  faithful'
<1>1. CASE EndStatement
  <2>1. PICK r : r = Last(results)
    OBVIOUS
  <2>2. todo # <<>> /\ r \in Free /\ "RAX" \in Free /\ Top.kind \in StatementKind
    BY <1>1, <2>1, Named DEF EndStatement, Runs
  <2>4. \A i \in Epilogue \cup Jumps : Faithful(i)
    BY <2>2, OperationsFaithful DEF Epilogue, Jumps
  <2>5. Faithful(MovStore(Basic("RAX"), r, 8))
    BY <2>2, MovesFaithful
  <2>6. \A rm \in Local, size \in SizesOf(Top.need) : Faithful(MovStore(rm, r, size))
    BY <2>2, StoresFaithful, LocalOperand
  <2>7. Faithful(RmReg("test", Basic(r), r))
    BY <2>2, OperationsFaithful
  <2>8. CASE Top.kind = "exprstmt"
    <3>1. Emits({})
      BY <1>1, <2>8 DEF EndStatement
    <3> QED
      BY <3>1, EmitsFaithful
  <2>9. CASE Top.kind = "return"
    <3>1. PICK is : is = Epilogue \cup (IF r = "RAX" THEN {}
                                        ELSE {MovStore(Basic("RAX"), r, 8)})
      OBVIOUS
    <3>2. Emits(is)
      BY <1>1, <2>1, <2>9, <3>1 DEF EndStatement
    <3> QED
      BY <2>4, <2>5, <3>1, <3>2, EmitsFaithful
  <2>10. CASE Top.kind = "var_decl"
    <3>1. Emits({MovStore(rm, r, size) : rm \in Local, size \in SizesOf(Top.need)})
      BY <1>1, <2>1, <2>10 DEF EndStatement
    <3> QED
      BY <2>6, <3>1, EmitsFaithful
  <2>11. CASE Top.kind = "condition"
    <3>1. Emits(Jumps \cup {RmReg("test", Basic(r), r)})
      BY <1>1, <2>1, <2>11 DEF EndStatement
    <3> QED
      BY <2>4, <2>7, <3>1, EmitsFaithful
  <2> QED
    BY <2>2, <2>8, <2>9, <2>10, <2>11 DEF StatementKind
<1>2. CASE EndCompare
  <2>1. PICK lhs, rhs : lhs = LhsResult(Top.e) /\ rhs = RhsResult(Top.e)
    OBVIOUS
  <2>2. lhs \in Free /\ rhs \in Free
    BY <1>2, <2>1, Named DEF EndCompare, Runs
  <2>3. Emits(Jumps \cup {RmReg("cmp", Basic(lhs), rhs)})
    BY <1>2, <2>1 DEF EndCompare
  <2>4. \A i \in Jumps \cup {RmReg("cmp", Basic(lhs), rhs)} : Faithful(i)
    BY <2>2, OperationsFaithful DEF Jumps
  <2> QED
    BY <2>3, <2>4, EmitsFaithful
<1>3. CASE \E st \in Statement : Begin(st)
  BY <1>3 DEF Begin
<1> QED
  BY <1>1, <1>2, <1>3

LEMMA LeavesFaithful ==
    ASSUME ReservedInv, faithful, CompileLeaf \/ CompileIntCasted \/ Cast
    PROVE  faithful'
<1>1. CASE CompileLeaf
  <2>1. PICK r : r = Available(Top.m)
    OBVIOUS
  <2>2. r \in Free
    BY <1>1, <2>1, Named DEF CompileLeaf, Runs
  <2>3. PICK is :
          /\ Emits(is)
          /\ is = (CASE Top.e.kind = "int" -> {MovRm32Imm(Basic(r), v) : v \in Immediate}
                     [] Top.e.kind = "string" -> {LeaString(r)}
                     [] Top.e.kind = "var" ->
                           {MovLoad(r, rm, size) : rm \in Local, size \in SizesOf(Top.e.size)}
                           \cup {Lea(r, rm) : rm \in Local})
    BY <1>1, <2>1 DEF CompileLeaf
  <2>4. \A v \in Immediate : Faithful(MovRm32Imm(Basic(r), v))
    BY <2>2, MovesFaithful
  <2>5. Faithful(LeaString(r))
    BY <2>2, OperationsFaithful
  <2>6. /\ \A rm \in Local, size \in SizesOf(Top.e.size) : Faithful(MovLoad(r, rm, size))
        /\ \A rm \in Local : Faithful(Lea(r, rm))
    BY <2>2, StoresFaithful, LocalOperand
  <2>7. Top.e.kind \in {"int", "string", "var"}
    BY <1>1 DEF CompileLeaf
  <2>8. \A i \in is : Faithful(i)
    <3>1. CASE Top.e.kind = "int"
      BY <2>3, <2>4, <3>1
    <3>2. CASE Top.e.kind = "string"
      BY <2>3, <2>5, <3>2
    <3>3. CASE Top.e.kind = "var"
      BY <2>3, <2>6, <3>3
    <3> QED
      BY <2>7, <3>1, <3>2, <3>3
  <2> QED
    BY <2>3, <2>8, EmitsFaithful
<1>2. CASE CompileIntCasted
  <2>1. PICK r : r = Available(Top.m)
    OBVIOUS
  <2>2. r \in Free
    BY <1>2, <2>1, Named DEF CompileIntCasted, Runs
  <2>3. Emits({MovRegImm(r, IF size = 1 THEN v % 256 ELSE v, size) :
                  v \in Immediate, size \in SizesOf(Top.to)})
    BY <1>2, <2>1 DEF CompileIntCasted
  <2>4. \A v \in Immediate, size \in SizesOf(Top.to) :
           Faithful(MovRegImm(r, IF size = 1 THEN v % 256 ELSE v, size))
    BY <2>2, MovesFaithful, SizesAre
  <2> QED
    BY <2>3, <2>4, EmitsFaithful
<1>3. CASE Cast
  <2>1. PICK r : r = Last(results)
    OBVIOUS
  <2>2. r \in Free
    BY <1>3, <2>1, Named DEF Cast, Runs
  <2>3. Emits({Movzx8(r, Basic(r))}) \/ UNCHANGED faithful
    BY <1>3, <2>1 DEF Cast
  <2>4. Faithful(Movzx8(r, Basic(r)))
    BY <2>2, OperationsFaithful
  <2> QED
    BY <2>3, <2>4, EmitsFaithful
<1> QED
  BY <1>1, <1>2, <1>3

LEMMA ArithmeticFaithful ==
    ASSUME ReservedInv, EndBinary \/ Scale \/ AddOffset \/ Load
    PROVE  faithful'
<1>1. CASE EndBinary
  <2>1. PICK lhs, rhs : lhs = LhsResult(Top.e) /\ rhs = RhsResult(Top.e)
    OBVIOUS
  <2>2. lhs \in Free /\ rhs \in Free
    BY <1>1, <2>1, Named DEF EndBinary, Runs
  <2>3. Emits(IF Top.e.kind = "plus"
              THEN {RmReg("add", Basic(lhs), rhs), RmReg("sub", Basic(lhs), rhs),
                    Imul(lhs, Basic(rhs))}
              ELSE {RmReg("cmp", Basic(lhs), rhs), SetByteIf("sete", Basic(lhs)),
                    SetByteIf("setne", Basic(lhs))})
    BY <1>1, <2>1 DEF EndBinary
  <2>4. /\ Faithful(RmReg("add", Basic(lhs), rhs)) /\ Faithful(RmReg("sub", Basic(lhs), rhs))
        /\ Faithful(Imul(lhs, Basic(rhs))) /\ Faithful(RmReg("cmp", Basic(lhs), rhs))
        /\ Faithful(SetByteIf("sete", Basic(lhs))) /\ Faithful(SetByteIf("setne", Basic(lhs)))
    BY <2>2, OperationsFaithful
  <2> QED
    BY <2>3, <2>4, EmitsFaithful
<1>2. CASE Scale
  <2>1. PICK r : r = Last(results)
    OBVIOUS
  <2>2. r \in Free
    BY <1>2, <2>1, Named DEF Scale, Runs
  <2>3. Emits({ImulImm(r, Basic(r), v) : v \in Immediate})
    BY <1>2, <2>1 DEF Scale
  <2>4. \A v \in Immediate : Faithful(ImulImm(r, Basic(r), v))
    BY <2>2, MovesFaithful
  <2> QED
    BY <2>3, <2>4, EmitsFaithful
<1>3. CASE AddOffset
  <2>1. PICK array, index : array = results[Len(results)] /\ index = results[Len(results) - 1]
    OBVIOUS
  <2>2. array \in Free /\ index \in Free
    BY <1>3, <2>1, Named DEF AddOffset, Runs
  <2>3. Emits({RmReg("add", Basic(array), index)})
    BY <1>3, <2>1 DEF AddOffset
  <2>4. Faithful(RmReg("add", Basic(array), index))
    BY <2>2, OperationsFaithful
  <2> QED
    BY <2>3, <2>4, EmitsFaithful
<1>4. CASE Load
  <2>1. PICK r : r = Last(results)
    OBVIOUS
  <2>2. r \in Free
    BY <1>4, <2>1, Named DEF Load, Runs
  <2>3. Emits({MovLoad(r, MemRead(r), size) : size \in SizesOf(Top.e.size)})
    BY <1>4, <2>1 DEF Load
  <2>4. MemRead(r) \in OperandAt(r)
    BY <2>2 DEF OperandAt, Free, Reserved
  <2>5. \A size \in SizesOf(Top.e.size) : Faithful(MovLoad(r, MemRead(r), size))
    BY <2>2, <2>4, StoresFaithful
  <2> QED
    BY <2>3, <2>5, EmitsFaithful
<1> QED
  BY <1>1, <1>2, <1>3, <1>4

LEMMA OversFaithful ==
    ASSUME ReservedInv, CompileOver \/ EndOver
    PROVE  faithful'
<1>1. CASE CompileOver
  <2>1. Faithful(Unary("push", Basic("RAX")))
    BY <1>1, Named, OperationsFaithful DEF CompileOver, Runs
  <2>2. Emits(IF "RAX" \in used THEN {Unary("push", Basic("RAX"))} ELSE {})
    BY <1>1 DEF CompileOver
  <2> QED
    BY <2>1, <2>2, EmitsFaithful
<1>2. CASE EndOver
  <2>1. PICK rhs, dst :
          /\ rhs = RhsResult(Top.e)
          /\ dst = IF Top.inRax THEN LhsResult(Top.e) ELSE Available(Top.m)
    OBVIOUS
  <2>2. rhs \in Free /\ dst \in Free /\ "RAX" \in Free /\ "RDX" \in Free
    BY <1>2, <2>1, Named DEF EndOver, Runs
  <2>3. PICK first, second, third, fourth :
          /\ first = {Plain("cqo"), Unary("idiv", Basic(rhs))}
          /\ second = IF Top.inRax THEN {} ELSE {MovStore(Basic(dst), "RAX", 8)}
          /\ third = {Unary(op, Basic("RDX")) : op \in IF "RDX" \in used THEN {"push", "pop"}
                                                       ELSE {}}
          /\ fourth = {Unary("pop", Basic(r)) : r \in Top.saved}
    OBVIOUS
  <2>4. Emits(UNION {first, second, third, fourth})
    BY <1>2, <2>1, <2>3 DEF EndOver
  <2>5. \A i \in first : Faithful(i)
    BY <2>2, <2>3, OperationsFaithful
  <2>6. \A i \in second : Faithful(i)
    BY <2>2, <2>3, MovesFaithful
  <2>7. \A i \in third : Faithful(i)
    BY <2>2, <2>3, OperationsFaithful
  <2>8. \A i \in fourth : Faithful(i)
    <3>1. \A r \in Top.saved : r \in Free
      BY <1>2, Named DEF EndOver, Runs
    <3> QED
      BY <2>3, <3>1, OperationsFaithful
  <2> QED
    BY <2>4, <2>5, <2>6, <2>7, <2>8, EmitsFaithful
<1> QED
  BY <1>1, <1>2

LEMMA CallsFaithful ==
    ASSUME ReservedInv, CompileCall \/ EndCall
    PROVE  faithful'
<1>1. CASE CompileCall
  <2>1. Emits({Unary("push", Basic(r)) : r \in CallSaves})
    BY <1>1 DEF CompileCall
  <2>2. \A r \in CallSaves : r \in Free
    BY RegistersAre DEF CallSaves
  <2>3. \A r \in CallSaves : Faithful(Unary("push", Basic(r)))
    BY <2>2, OperationsFaithful
  <2> QED
    BY <2>1, <2>3, EmitsFaithful, SMTT(60)
<1>2. CASE EndCall
  <2>1. /\ \A r \in Top.saved : r \in Free
        /\ Top.output \in Free /\ "RAX" \in Free
    BY <1>2, Named DEF EndCall, Runs
  <2>2. PICK first, second, third :
          /\ first = {Plain("call")}
          /\ second = {Unary("pop", Basic(r)) : r \in Top.saved}
          /\ third = IF Top.output = "RAX" THEN {}
                     ELSE {MovStore(Basic(Top.output), "RAX", 8)}
    OBVIOUS
  <2>3. Emits(UNION {first, second, third})
    BY <1>2, <2>2 DEF EndCall
  <2>4. \A i \in first : Faithful(i)
    BY <2>1, <2>2, OperationsFaithful
  <2>5. \A i \in second : Faithful(i)
    BY <2>1, <2>2, OperationsFaithful
  <2>6. \A i \in third : Faithful(i)
    BY <2>1, <2>2, MovesFaithful
  <2> QED
    BY <2>3, <2>4, <2>5, <2>6, EmitsFaithful
<1> QED
  BY <1>1, <1>2

LEMMA PlacesFaithful ==
    ASSUME ReservedInv, EndAssignment \/ EndAddressOf
    PROVE  faithful'
<1>1. CASE EndAssignment
  <2>1. PICK src, base : src = Last(results) /\ base = Last(lvalues)
    OBVIOUS
  <2>2. src \in Free /\ base \in Free \cup {"RBP"}
    BY <1>1, <2>1, Named DEF EndAssignment, Runs
  <2>3. Emits({MovStore(rm, src, size) :
                 rm \in OperandAt(base), size \in SizesOf(Top.e.size)})
    BY <1>1, <2>1 DEF EndAssignment
  <2>4. \A rm \in OperandAt(base), size \in SizesOf(Top.e.size) :
           Faithful(MovStore(rm, src, size))
    BY <2>2, StoresFaithful
  <2> QED
    BY <2>3, <2>4, EmitsFaithful
<1>2. CASE EndAddressOf
  <2>1. PICK r, base : r = Last(results) /\ base = Last(lvalues)
    OBVIOUS
  <2>2. r \in Free /\ base \in Free \cup {"RBP"}
    BY <1>2, <2>1, Named DEF EndAddressOf, Runs
  <2>3. Emits({Lea(r, rm) : rm \in OperandAt(base)})
    BY <1>2, <2>1 DEF EndAddressOf
  <2>4. \A rm \in OperandAt(base) : Faithful(Lea(r, rm))
    BY <2>2, StoresFaithful
  <2> QED
    BY <2>3, <2>4, EmitsFaithful
<1> QED
  BY <1>1, <1>2

\* The bytes are those of the instruction because the allocator gives handlers no
\* reserved register: of the base registers, only rsp and rbp read otherwise.
EncodingInv == ReservedInv /\ EncodingsFaithful

LEMMA EncodingStep == EncodingInv /\ Next => EncodingsFaithful'
<1> SUFFICES ASSUME ReservedInv, faithful, Next PROVE faithful'
  BY DEF EncodingInv, EncodingsFaithful
<1>1. CASE EndStatement \/ EndCompare \/ \E st \in Statement : Begin(st)
  BY <1>1, StatementsFaithful
<1>2. CASE CompileLeaf \/ CompileIntCasted \/ Cast
  BY <1>2, LeavesFaithful
<1>3. CASE EndBinary \/ Scale \/ AddOffset \/ Load
  BY <1>3, ArithmeticFaithful
<1>4. CASE CompileOver \/ EndOver
  BY <1>4, OversFaithful
<1>5. CASE CompileCall \/ EndCall
  BY SMTT(60), <1>5, CallsFaithful
<1>6. CASE EndAssignment \/ EndAddressOf
  BY <1>6, PlacesFaithful
<1>7. CASE CompileCasted \/ CompileBinary \/ CompileLoad \/ LValueOfVariable
           \/ LValueInRegister \/ EndLValue \/ CompileAssignment \/ CompileAddressOf
  BY <1>7 DEF CompileCasted, CompileBinary, CompileLoad, LValueOfVariable,
              LValueInRegister, EndLValue, CompileAssignment, CompileAddressOf
<1> QED
  BY <1>1, <1>2, <1>3, <1>4, <1>5, <1>6, <1>7 DEF Next

\* assembler.c writes every instruction the handlers ask for so that the
\* processor reads that instruction and no other, whatever the expression: as
\* long as the registers are ones that reg_id knows.
THEOREM EncodingsAreFaithful == Spec => []EncodingsFaithful
<1>1. Init => EncodingInv
  BY ReservedInit DEF Init, EncodingInv, EncodingsFaithful
<1>2. EncodingInv /\ Next => EncodingInv'
  BY ReservedStep, EncodingStep DEF EncodingInv, Keeps
<1>3. EncodingInv /\ UNCHANGED vars => EncodingInv'
  BY DEF EncodingInv, EncodingsFaithful, ReservedInv, AllTasks, vars
<1>4. EncodingInv => EncodingsFaithful
  BY DEF EncodingInv
<1> QED
  BY <1>1, <1>2, <1>3, <1>4, PTL DEF Spec

------------------------------------------------------------------------------
(* Registers that hold something each hold one thing.                      *)

\* The registers among f[i], i in I, and g[j], j in J, that a call may
\* overwrite are in S, and no two of them are the same.
Apart(f, I, g, J, S) ==
    /\ \A i \in I : f[i] \in Volatile => f[i] \in S
    /\ \A j \in J : g[j] \in Volatile => g[j] \in S
    /\ \A i, k \in I : f[i] = f[k] /\ f[i] \in Volatile => i = k
    /\ \A j, k \in J : g[j] = g[k] /\ g[j] \in Volatile => j = k
    /\ \A i \in I, j \in J : f[i] = g[j] => f[i] \notin Volatile

LEMMA ApartNone == \A f, g, S : Apart(f, {}, g, {}, S)
BY DEF Apart

LEMMA ApartBothWays ==
    ASSUME NEW f, NEW I, NEW g, NEW J, NEW S, Apart(f, I, g, J, S)
    PROVE  Apart(g, J, f, I, S)
BY DEF Apart

\* Fewer of them, and the registers freed are those of the others.
LEMMA ApartFewer ==
    ASSUME NEW f, NEW I, NEW g, NEW J, NEW S, Apart(f, I, g, J, S),
           NEW h, NEW K, K \subseteq I, \A i \in K : h[i] = f[i],
           NEW T, \A r \in S \cap Volatile : r \in T \/ \E i \in I \ K : f[i] = r
    PROVE  Apart(h, K, g, J, T)
<1>1. \A i \in K : h[i] \in Volatile => h[i] \in T
  BY DEF Apart
<1>2. \A j \in J : g[j] \in Volatile => g[j] \in T
  BY DEF Apart
<1> QED
  BY <1>1, <1>2 DEF Apart

\* One more, in a register that was free or that is none a call may overwrite.
LEMMA ApartMore ==
    ASSUME NEW f, NEW I, NEW g, NEW J, NEW S, Apart(f, I, g, J, S),
           NEW h, NEW n, \A i \in I : h[i] = f[i],
           h[n] \in Volatile => h[n] \notin S,
           NEW T, \A r \in S \cap Volatile : r \in T, h[n] \in Volatile => h[n] \in T
    PROVE  Apart(h, I \cup {n}, g, J, T)
<1>1. \A i \in I \cup {n} : h[i] \in Volatile => h[i] \in T
  BY DEF Apart
<1>2. \A j \in J : g[j] \in Volatile => g[j] \in T
  BY DEF Apart
<1>3. ASSUME NEW i \in I \cup {n}, NEW k \in I \cup {n}, h[i] = h[k], h[i] \in Volatile
      PROVE  i = k
  <2>1. CASE i \in I /\ k \in I
    BY <1>3, <2>1 DEF Apart
  <2>2. CASE i = n /\ k \in I
    BY <1>3, <2>2 DEF Apart
  <2>3. CASE i \in I /\ k = n
    BY <1>3, <2>3 DEF Apart
  <2> QED
    BY <2>1, <2>2, <2>3
<1>4. ASSUME NEW i \in I \cup {n}, NEW j \in J, h[i] = g[j]
      PROVE  h[i] \notin Volatile
  BY <1>4 DEF Apart
<1> QED
  BY <1>1, <1>2, <1>3, <1>4 DEF Apart

\* The same things in the same registers.
LEMMA ApartSame ==
    ASSUME NEW f, NEW I, NEW g, NEW J, NEW S, Apart(f, I, g, J, S),
           NEW h, \A i \in I : h[i] = f[i], NEW k, \A j \in J : k[j] = g[j],
           NEW T, \A r \in S \cap Volatile : r \in T
    PROVE  Apart(h, I, k, J, T)
BY DEF Apart

------------------------------------------------------------------------------
(* Which results and operands a piece of a handler reaches: those above    *)
(* what the call under way has put away.  `res' and `lvs' are the registers *)
(* of what is put away, `pend' the results an address_of took a register   *)
(* for and has not written yet.                                            *)

Reach == [rs : Nat, fr : Nat, res : [Nat -> Register],
          ls : Nat, fl : Nat, lvs : [Nat -> Register], pend : SUBSET Nat]

\* How many results and operands a task consumes, and how many it returns.
Takes(t) ==
    CASE t.op \in {"value", "casted", "lvalue"} -> 0
      [] t.op \in {"binary", "over", "add_offset", "compare"} -> 2
      [] t.op = "call" -> Len(t.e.kids)
      [] OTHER -> 1
Gives(t) == IF t.op \in {"lvalue", "operand", "statement", "compare"} THEN 0 ELSE 1
TakesOperand(t) == IF t.op \in {"store", "lea"} THEN 1 ELSE 0
GivesOperand(t) == IF t.op \in {"lvalue", "operand"} THEN 1 ELSE 0

\* A call puts away what was above the call around it, and gives it back.
GivesBack(t, a, b) ==
    /\ a.fr = t.base /\ a.rs = t.base + Len(t.e.kids) /\ a.fl = a.ls
    /\ b.fr <= a.fr /\ \A i \in 1..b.fr : b.res[i] = a.res[i]
    /\ b.fl <= a.fl /\ \A i \in 1..b.fl : b.lvs[i] = a.lvs[i]
    /\ Apart(a.res, b.fr + 1 .. a.fr, a.lvs, b.fl + 1 .. a.fl, t.saved)
    /\ t.output \notin t.saved

SameFloor(a, b) == b.fr = a.fr /\ b.res = a.res /\ b.fl = a.fl /\ b.lvs = a.lvs

Reaches(t, a, b) ==
    /\ a.rs >= a.fr + Takes(t) /\ b.rs = a.rs - Takes(t) + Gives(t)
    /\ a.ls >= a.fl + TakesOperand(t) /\ b.ls = a.ls - TakesOperand(t) + GivesOperand(t)
    /\ a.pend \subseteq 1..a.rs
    /\ IF t.op = "call" THEN GivesBack(t, a, b) ELSE SameFloor(a, b)
    /\ IF t.op = "lea" THEN a.pend = b.pend \cup {a.rs}
       ELSE b.pend = a.pend /\ \A i \in a.rs - Takes(t) + 1 .. a.rs : i \notin a.pend

\* The tasks ts, one after the other, reach from a to b.
Follows(ts, a, b) ==
    \E h \in [1..Len(ts) + 1 -> Reach] :
        /\ h[1] = a /\ h[Len(ts) + 1] = b
        /\ \A k \in 1..Len(ts) : Reaches(ts[k], h[k], h[k + 1])

LEMMA FollowsNone ==
    ASSUME NEW a \in Reach
    PROVE  /\ Follows(<<>>, a, a)
           /\ \A z : Follows(<<>>, a, z) => z = a
<1>1. Len(<<>>) = 0 /\ 1..0 = {} /\ 1..1 = {1}
  BY EmptySeq
<1>2. Follows(<<>>, a, a)
  <2> DEFINE h == [k \in 1..1 |-> a]
  <2>1. h \in [1..1 -> Reach] /\ h[1] = a
    OBVIOUS
  <2> HIDE DEF h
  <2> QED
    BY <1>1, <2>1 DEF Follows
<1>3. \A z : Follows(<<>>, a, z) => z = a
  BY <1>1 DEF Follows
<1> QED
  BY <1>2, <1>3

LEMMA FollowsOne ==
    ASSUME NEW t, NEW a \in Reach, NEW b \in Reach, Reaches(t, a, b)
    PROVE  Follows(<<t>>, a, b)
<1> DEFINE h == [k \in 1..2 |-> IF k = 1 THEN a ELSE b]
           s == <<t>>
<1>1. Len(s) = 1 /\ s[1] = t /\ 1..1 = {1}
  OBVIOUS
<1>2. h \in [1..2 -> Reach] /\ h[1] = a /\ h[2] = b
  OBVIOUS
<1> HIDE DEF h, s
<1>3. Follows(s, a, b)
  <2>1. h \in [1..Len(s) + 1 -> Reach] /\ h[Len(s) + 1] = b
    BY <1>1, <1>2
  <2>2. \A k \in 1..Len(s) : Reaches(s[k], h[k], h[k + 1])
    BY <1>1, <1>2
  <2> QED
    BY <1>2, <2>1, <2>2 DEF Follows
<1> QED
  BY <1>3 DEF s

LEMMA FollowsThen ==
    ASSUME NEW s, NEW t, IsSeq(s), IsSeq(t), NEW a, NEW b, NEW c,
           Follows(s, a, b), Follows(t, b, c)
    PROVE  Follows(s \o t, a, c) /\ IsSeq(s \o t)
<1>0. PICK S, T : s \in Seq(S) /\ t \in Seq(T)
  BY DEF IsSeq
<1>1. PICK g \in [1..Len(s) + 1 -> Reach] :
        /\ g[1] = a /\ g[Len(s) + 1] = b
        /\ \A k \in 1..Len(s) : Reaches(s[k], g[k], g[k + 1])
  BY DEF Follows
<1>2. PICK h \in [1..Len(t) + 1 -> Reach] :
        /\ h[1] = b /\ h[Len(t) + 1] = c
        /\ \A k \in 1..Len(t) : Reaches(t[k], h[k], h[k + 1])
  BY DEF Follows
<1> DEFINE n == Len(s)
           m == Len(t)
           u == s \o t
           f == [k \in 1..n + m + 1 |-> IF k <= n THEN g[k] ELSE h[k - n]]
<1>3. n \in Nat /\ m \in Nat
  BY <1>0, LenProperties
<1>4. /\ u \in Seq(S \cup T) /\ Len(u) = n + m
      /\ \A k \in 1..n + m : u[k] = IF k <= n THEN s[k] ELSE t[k - n]
  <2>1. s \in Seq(S \cup T) /\ t \in Seq(S \cup T)
    BY <1>0, SeqMonotonic
  <2> QED
    BY <2>1, ConcatProperties
<1>5. /\ g \in [1..n + 1 -> Reach] /\ g[1] = a /\ g[n + 1] = b
      /\ h \in [1..m + 1 -> Reach] /\ h[1] = b /\ h[m + 1] = c
      /\ \A k \in 1..n : Reaches(s[k], g[k], g[k + 1])
      /\ \A k \in 1..m : Reaches(t[k], h[k], h[k + 1])
  BY <1>1, <1>2
<1>6. \A k \in 1..n + m + 1 : f[k] = IF k <= n THEN g[k] ELSE h[k - n]
  OBVIOUS
<1>7. f \in [1..n + m + 1 -> Reach]
  <2>1. ASSUME NEW k \in 1..n + m + 1
        PROVE  (IF k <= n THEN g[k] ELSE h[k - n]) \in Reach
    <3> HIDE DEF n, m
    <3>1. CASE k <= n
      <4>1. k \in 1..n + 1
        BY <1>3, <3>1
      <4> QED
        BY <1>5, <3>1, <4>1
    <3>2. CASE ~(k <= n)
      <4>1. k - n \in 1..m + 1
        BY <1>3, <3>2
      <4> QED
        BY <1>5, <3>2, <4>1
    <3> QED
      BY <3>1, <3>2
  <2> QED
    BY <2>1
<1> HIDE DEF f, n, m, u
<1>8. f[1] = a
  <2>1. CASE n = 0
    <3>1. f[1] = h[1 - n] /\ a = b
      BY <1>3, <1>5, <1>6, <2>1
    <3> QED
      BY <1>5, <2>1, <3>1
  <2>2. CASE n # 0
    BY <1>3, <1>5, <1>6, <2>2
  <2> QED
    BY <2>1, <2>2
<1>9. f[n + m + 1] = c
  <2>1. n + m + 1 \in 1..n + m + 1 /\ ~(n + m + 1 <= n) /\ (n + m + 1) - n = m + 1
    BY <1>3
  <2> QED
    BY <1>5, <1>6, <2>1
<1>10. ASSUME NEW k \in 1..n + m
       PROVE  Reaches(u[k], f[k], f[k + 1])
  <2>1. CASE k <= n
    <3>1. k \in 1..n /\ k \in 1..n + m + 1 /\ k + 1 \in 1..n + m + 1
      BY <1>3, <2>1
    <3>2. u[k] = s[k] /\ f[k] = g[k]
      BY <1>4, <1>6, <2>1, <3>1
    <3>3. f[k + 1] = g[k + 1]
      <4>1. CASE k + 1 <= n
        BY <1>6, <3>1, <4>1
      <4>2. CASE ~(k + 1 <= n)
        <5>1. k + 1 = n + 1 /\ (k + 1) - n = 1
          BY <1>3, <2>1, <4>2
        <5>2. f[k + 1] = h[1]
          BY <1>6, <3>1, <4>2, <5>1
        <5> QED
          BY <1>5, <5>1, <5>2
      <4> QED
        BY <4>1, <4>2
    <3> QED
      BY <1>5, <3>1, <3>2, <3>3
  <2>2. CASE ~(k <= n)
    <3>1. PICK l : l = k - n
      OBVIOUS
    <3>2. /\ l \in 1..m /\ k \in 1..n + m + 1 /\ k + 1 \in 1..n + m + 1
          /\ ~(k + 1 <= n) /\ (k + 1) - n = l + 1
      BY <1>3, <2>2, <3>1
    <3>3. u[k] = t[l] /\ f[k] = h[l]
      BY <1>4, <1>6, <2>2, <3>1, <3>2
    <3>4. f[k + 1] = h[l + 1]
      BY <1>6, <3>2
    <3> QED
      BY <1>5, <3>2, <3>3, <3>4
  <2> QED
    BY <2>1, <2>2
<1>11. Follows(u, a, c)
  <2>1. Len(u) + 1 = n + m + 1
    BY <1>3, <1>4
  <2> QED
    BY <1>4, <1>7, <1>8, <1>9, <1>10, <2>1 DEF Follows
<1> QED
  BY <1>4, <1>11 DEF u, IsSeq

\* The first task, and what the others do then.
LEMMA FollowsFirst ==
    ASSUME NEW S, NEW s \in Seq(S), s # <<>>, NEW a, NEW z, Follows(s, a, z)
    PROVE  \E b \in Reach : Reaches(s[1], a, b) /\ Follows(Tail(s), b, z)
<1>1. PICK h \in [1..Len(s) + 1 -> Reach] :
        /\ h[1] = a /\ h[Len(s) + 1] = z
        /\ \A k \in 1..Len(s) : Reaches(s[k], h[k], h[k + 1])
  BY DEF Follows
<1> DEFINE n == Len(s)
           t == Tail(s)
           g == [k \in 1..n |-> h[k + 1]]
<1>2. /\ n \in Nat /\ n >= 1
      /\ t \in Seq(S) /\ Len(t) = n - 1
      /\ \A k \in 1..Len(t) : t[k] = s[k + 1]
  BY EmptySeq, LenProperties, HeadTailProperties
<1>3. /\ h \in [1..n + 1 -> Reach] /\ h[1] = a /\ h[n + 1] = z
      /\ \A k \in 1..n : Reaches(s[k], h[k], h[k + 1])
  BY <1>1
<1>4. \A k \in 1..n : g[k] = h[k + 1]
  OBVIOUS
<1>5. g \in [1..n -> Reach]
  <2>1. ASSUME NEW k \in 1..n PROVE h[k + 1] \in Reach
    <3> HIDE DEF n
    <3>1. k + 1 \in 1..n + 1
      BY <1>2
    <3> QED
      BY <1>3, <3>1
  <2> QED
    BY <2>1
<1> HIDE DEF g, n, t
<1>6. h[2] \in Reach /\ Reaches(s[1], a, h[2])
  <2>1. 1 \in 1..n /\ 2 \in 1..n + 1 /\ 1 + 1 = 2
    BY <1>2
  <2> QED
    BY <1>3, <2>1
<1>7. Follows(t, h[2], z)
  <2>1. Len(t) + 1 = n
    BY <1>2
  <2>2. g[1] = h[2] /\ g[n] = z
    <3>1. 1 \in 1..n /\ n \in 1..n /\ 1 + 1 = 2
      BY <1>2
    <3> QED
      BY <1>3, <1>4, <3>1
  <2>3. ASSUME NEW k \in 1..Len(t)
        PROVE  Reaches(t[k], g[k], g[k + 1])
    <3>1. k \in 1..n /\ k + 1 \in 1..n
      BY <1>2, <2>1
    <3>2. t[k] = s[k + 1] /\ g[k] = h[k + 1] /\ g[k + 1] = h[k + 1 + 1]
      BY <1>2, <1>4, <3>1
    <3> QED
      BY <1>3, <3>1, <3>2
  <2> QED
    BY <1>5, <2>1, <2>2, <2>3 DEF Follows
<1> QED
  BY <1>6, <1>7 DEF t

LEMMA FollowsTwo ==
    ASSUME NEW t, NEW u, NEW a \in Reach, NEW b \in Reach, NEW c \in Reach,
           Reaches(t, a, b), Reaches(u, b, c)
    PROVE  Follows(<<t, u>>, a, c)
<1> DEFINE h == [k \in 1..3 |-> IF k = 1 THEN a ELSE IF k = 2 THEN b ELSE c]
           s == <<t, u>>
<1>1. Len(s) = 2 /\ s[1] = t /\ s[2] = u /\ 1..2 = {1, 2}
  OBVIOUS
<1>2. h \in [1..3 -> Reach] /\ h[1] = a /\ h[2] = b /\ h[3] = c
  OBVIOUS
<1> HIDE DEF h, s
<1>3. Follows(s, a, c)
  <2>1. h \in [1..Len(s) + 1 -> Reach] /\ h[Len(s) + 1] = c
    BY <1>1, <1>2
  <2>2. \A k \in 1..Len(s) : Reaches(s[k], h[k], h[k + 1])
    BY <1>1, <1>2
  <2> QED
    BY <1>2, <2>1, <2>2 DEF Follows
<1> QED
  BY <1>3 DEF s

LEMMA FollowsThree ==
    ASSUME NEW t, NEW u, NEW v, NEW a \in Reach, NEW b \in Reach, NEW c \in Reach,
           NEW d \in Reach, Reaches(t, a, b), Reaches(u, b, c), Reaches(v, c, d)
    PROVE  Follows(<<t, u, v>>, a, d)
<1> DEFINE h == [k \in 1..4 |-> IF k = 1 THEN a ELSE IF k = 2 THEN b ELSE IF k = 3 THEN c ELSE d]
           s == <<t, u, v>>
<1>1. Len(s) = 3 /\ s[1] = t /\ s[2] = u /\ s[3] = v /\ 1..3 = {1, 2, 3}
  OBVIOUS
<1>2. h \in [1..4 -> Reach] /\ h[1] = a /\ h[2] = b /\ h[3] = c /\ h[4] = d
  OBVIOUS
<1> HIDE DEF h, s
<1>3. Follows(s, a, d)
  <2>1. h \in [1..Len(s) + 1 -> Reach] /\ h[Len(s) + 1] = d
    BY <1>1, <1>2
  <2>2. \A k \in 1..Len(s) : Reaches(s[k], h[k], h[k + 1])
    BY <1>1, <1>2
  <2> QED
    BY <1>2, <2>1, <2>2 DEF Follows
<1> QED
  BY <1>3 DEF s

LEMMA FollowsFour ==
    ASSUME NEW t, NEW u, NEW v, NEW w, NEW a \in Reach, NEW b \in Reach, NEW c \in Reach,
           NEW d \in Reach, NEW e \in Reach,
           Reaches(t, a, b), Reaches(u, b, c), Reaches(v, c, d), Reaches(w, d, e)
    PROVE  Follows(<<t, u, v, w>>, a, e)
<1> DEFINE h == [k \in 1..5 |-> IF k = 1 THEN a ELSE IF k = 2 THEN b ELSE IF k = 3 THEN c
                                ELSE IF k = 4 THEN d ELSE e]
           s == <<t, u, v, w>>
<1>1. Len(s) = 4 /\ s[1] = t /\ s[2] = u /\ s[3] = v /\ s[4] = w /\ 1..4 = {1, 2, 3, 4}
  OBVIOUS
<1>2. h \in [1..5 -> Reach] /\ h[1] = a /\ h[2] = b /\ h[3] = c /\ h[4] = d /\ h[5] = e
  OBVIOUS
<1> HIDE DEF h, s
<1>3. Follows(s, a, e)
  <2>1. h \in [1..Len(s) + 1 -> Reach] /\ h[Len(s) + 1] = e
    BY <1>1, <1>2
  <2>2. \A k \in 1..Len(s) : Reaches(s[k], h[k], h[k + 1])
    BY <1>1, <1>2
  <2> QED
    BY <1>2, <2>1, <2>2 DEF Follows
<1> QED
  BY <1>3 DEF s

\* The stacks of results f and of operands g reach as a says: what is above
\* the floor waits in registers of its own, marked in S.
Waiting(a, f, g, S, ok) ==
    /\ a.rs = Len(f) /\ a.fr <= a.rs /\ \A i \in 1..a.fr : f[i] = a.res[i]
    /\ a.ls = Len(g) /\ a.fl <= a.ls /\ \A j \in 1..a.fl : g[j] = a.lvs[j]
    /\ Apart(f, a.fr + 1 .. a.rs, g, a.fl + 1 .. a.ls, S)
    \* each has a reg_id, unless an address_of has only taken it
    /\ ok => \A i \in 1..a.rs : i \in a.pend \/ f[i] \in HasId

LEMMA ReachIs ==
    ASSUME NEW a \in Reach
    PROVE  a.rs \in Nat /\ a.fr \in Nat /\ a.ls \in Nat /\ a.fl \in Nat
BY DEF Reach

LEMMA WaitingMore ==
    ASSUME NEW a \in Reach, NEW b \in Reach, NEW S, NEW T, NEW F, NEW f \in Seq(F), NEW g,
           NEW ok, NEW yes, Waiting(a, f, g, S, ok), NEW r \in F, r \in Volatile => r \notin S,
           SameFloor(a, b), b.rs = a.rs + 1, b.ls = a.ls,
           \A q \in S \cap Volatile : q \in T, r \in Volatile => r \in T,
           yes => ok /\ \A i \in 1..a.rs : i \in a.pend => i \in b.pend,
           yes => r \in HasId \/ a.rs + 1 \in b.pend
    PROVE  Waiting(b, Append(f, r), g, T, yes)
<1> PICK h : h = Append(f, r)
  OBVIOUS
<1>1. /\ Len(h) = Len(f) + 1 /\ h[Len(f) + 1] = r
      /\ \A i \in 1..Len(f) : h[i] = f[i]
  BY AppendProperties
<1>2. a.rs \in Nat /\ a.fr \in Nat /\ a.ls \in Nat /\ a.fl \in Nat
  BY ReachIs
<1>3. b.fr = a.fr /\ b.res = a.res /\ b.fl = a.fl /\ b.lvs = a.lvs
  BY DEF SameFloor
<1>4. /\ a.rs = Len(f) /\ a.fr <= a.rs /\ \A i \in 1..a.fr : f[i] = a.res[i]
      /\ a.ls = Len(g) /\ a.fl <= a.ls /\ \A j \in 1..a.fl : g[j] = a.lvs[j]
      /\ Apart(f, a.fr + 1 .. a.rs, g, a.fl + 1 .. a.ls, S)
      /\ ok => \A i \in 1..a.rs : i \in a.pend \/ f[i] \in HasId
  BY DEF Waiting
<1>5. b.rs = Len(h) /\ b.fr <= b.rs /\ \A i \in 1..b.fr : h[i] = b.res[i]
  <2>1. \A i \in 1..a.fr : i \in 1..Len(f)
    BY <1>2, <1>4
  <2> QED
    BY <1>1, <1>2, <1>3, <1>4, <2>1
<1>6. Apart(h, b.fr + 1 .. b.rs, g, b.fl + 1 .. b.ls, T)
  <2>1. \A i \in a.fr + 1 .. a.rs : h[i] = f[i]
    BY <1>1, <1>2, <1>4
  <2>2. h[a.rs + 1] = r
    BY <1>1, <1>4
  <2>3. Apart(h, (a.fr + 1 .. a.rs) \cup {a.rs + 1}, g, a.fl + 1 .. a.ls, T)
    <3>1. /\ h[a.rs + 1] \in Volatile => h[a.rs + 1] \notin S
          /\ h[a.rs + 1] \in Volatile => h[a.rs + 1] \in T
      BY <2>2
    <3>2. \A q \in S \cap Volatile : q \in T
      OBVIOUS
    <3>3. Apart(f, a.fr + 1 .. a.rs, g, a.fl + 1 .. a.ls, S)
      BY <1>4
    <3> QED
      BY ONLY <2>1, <3>1, <3>2, <3>3, ApartMore
  <2>4. b.fr + 1 .. b.rs = (a.fr + 1 .. a.rs) \cup {a.rs + 1}
    BY <1>2, <1>3, <1>4
  <2> QED
    BY <1>3, <2>3, <2>4
<1>7. ASSUME yes, NEW i \in 1..b.rs
      PROVE  i \in b.pend \/ h[i] \in HasId
  <2>1. i \in 1..a.rs \/ i = a.rs + 1
    BY <1>2
  <2> QED
    BY <1>1, <1>4, <1>7, <2>1
<1> QED
  BY <1>3, <1>4, <1>5, <1>6, <1>7 DEF Waiting

LEMMA WaitingLess ==
    ASSUME NEW a \in Reach, NEW b \in Reach, NEW S, NEW T, NEW F, NEW f \in Seq(F), NEW g,
           NEW ok, NEW yes, Waiting(a, f, g, S, ok), NEW n \in Nat, a.rs >= a.fr + n,
           SameFloor(a, b), b.rs = a.rs - n, b.ls = a.ls,
           \A q \in S \cap Volatile : q \in T \/ \E i \in a.rs - n + 1 .. a.rs : f[i] = q,
           yes => ok /\ \A i \in 1..b.rs : i \in a.pend => i \in b.pend
    PROVE  Waiting(b, SubSeq(f, 1, Len(f) - n), g, T, yes)
<1> PICK h : h = SubSeq(f, 1, Len(f) - n)
  OBVIOUS
<1>1. a.rs \in Nat /\ a.fr \in Nat /\ a.ls \in Nat /\ a.fl \in Nat
  BY ReachIs
<1>2. /\ a.rs = Len(f) /\ a.fr <= a.rs /\ \A i \in 1..a.fr : f[i] = a.res[i]
      /\ a.ls = Len(g) /\ a.fl <= a.ls /\ \A j \in 1..a.fl : g[j] = a.lvs[j]
      /\ Apart(f, a.fr + 1 .. a.rs, g, a.fl + 1 .. a.ls, S)
      /\ ok => \A i \in 1..a.rs : i \in a.pend \/ f[i] \in HasId
  BY DEF Waiting
<1>3. Len(h) = b.rs /\ \A i \in 1..b.rs : h[i] = f[i]
  <2>1. Len(f) >= n
    BY <1>1, <1>2
  <2>2. Len(h) = Len(f) - n /\ \A i \in 1..Len(f) - n : h[i] = f[i]
    BY <2>1, BelowIs
  <2> QED
    BY <1>2, <2>2
<1>4. b.fr = a.fr /\ b.res = a.res /\ b.fl = a.fl /\ b.lvs = a.lvs
  BY DEF SameFloor
<1>5. b.fr <= b.rs /\ \A i \in 1..b.fr : i \in 1..b.rs
  BY <1>1, <1>2, <1>4
<1>6. Apart(h, b.fr + 1 .. b.rs, g, b.fl + 1 .. b.ls, T)
  <2>1. /\ b.fr + 1 .. b.rs \subseteq a.fr + 1 .. a.rs
        /\ a.rs - n + 1 .. a.rs \subseteq (a.fr + 1 .. a.rs) \ (b.fr + 1 .. b.rs)
        /\ b.fr + 1 .. b.rs \subseteq 1..b.rs
    BY <1>1, <1>2, <1>4
  <2> DEFINE I == a.fr + 1 .. a.rs
             K == b.fr + 1 .. b.rs
  <2>2. K \subseteq I /\ \A i \in K : h[i] = f[i]
    BY <1>3, <2>1
  <2>3. \A q \in S \cap Volatile : q \in T \/ \E i \in I \ K : f[i] = q
    BY <2>1
  <2> HIDE DEF I, K
  <2>4. Apart(f, I, g, a.fl + 1 .. a.ls, S)
    BY <1>2 DEF I
  <2>5. Apart(h, K, g, a.fl + 1 .. a.ls, T)
    BY ONLY <2>2, <2>3, <2>4, ApartFewer
  <2> QED
    BY <1>4, <2>5 DEF K
<1>7. ASSUME yes, NEW i \in 1..b.rs
      PROVE  i \in b.pend \/ h[i] \in HasId
  <2>1. i \in 1..a.rs
    BY <1>1
  <2> QED
    BY <1>2, <1>3, <1>7, <2>1
<1> QED
  BY <1>2, <1>3, <1>4, <1>5, <1>6, <1>7 DEF Waiting

LEMMA WaitingOperandMore ==
    ASSUME NEW a \in Reach, NEW b \in Reach, NEW S, NEW G, NEW g \in Seq(G), NEW f,
           NEW ok, Waiting(a, f, g, S, ok), NEW r \in G, r \in Volatile => r \notin S,
           NEW T, \A q \in S \cap Volatile : q \in T, r \in Volatile => r \in T,
           SameFloor(a, b), b.rs = a.rs, b.ls = a.ls + 1, b.pend = a.pend
    PROVE  Waiting(b, f, Append(g, r), T, ok)
<1> PICK h : h = Append(g, r)
  OBVIOUS
<1>1. /\ Len(h) = Len(g) + 1 /\ h[Len(g) + 1] = r
      /\ \A i \in 1..Len(g) : h[i] = g[i]
  BY AppendProperties
<1>2. a.rs \in Nat /\ a.fr \in Nat /\ a.ls \in Nat /\ a.fl \in Nat
  BY ReachIs
<1>3. b.fr = a.fr /\ b.res = a.res /\ b.fl = a.fl /\ b.lvs = a.lvs
  BY DEF SameFloor
<1>4. /\ a.rs = Len(f) /\ a.fr <= a.rs /\ \A i \in 1..a.fr : f[i] = a.res[i]
      /\ a.ls = Len(g) /\ a.fl <= a.ls /\ \A j \in 1..a.fl : g[j] = a.lvs[j]
      /\ Apart(f, a.fr + 1 .. a.rs, g, a.fl + 1 .. a.ls, S)
      /\ ok => \A i \in 1..a.rs : i \in a.pend \/ f[i] \in HasId
  BY DEF Waiting
<1>5. b.ls = Len(h) /\ b.fl <= b.ls /\ \A i \in 1..b.fl : h[i] = b.lvs[i]
  <2>1. \A i \in 1..a.fl : i \in 1..Len(g)
    BY <1>2, <1>4
  <2> QED
    BY <1>1, <1>2, <1>3, <1>4, <2>1
<1>6. Apart(f, b.fr + 1 .. b.rs, h, b.fl + 1 .. b.ls, T)
  <2>1. \A i \in a.fl + 1 .. a.ls : h[i] = g[i]
    BY <1>1, <1>2, <1>4
  <2>2. h[a.ls + 1] = r
    BY <1>1, <1>4
  <2>3. Apart(g, a.fl + 1 .. a.ls, f, a.fr + 1 .. a.rs, S)
    BY <1>4, ApartBothWays
  <2>4. Apart(h, (a.fl + 1 .. a.ls) \cup {a.ls + 1}, f, a.fr + 1 .. a.rs, T)
    <3>1. /\ h[a.ls + 1] \in Volatile => h[a.ls + 1] \notin S
          /\ h[a.ls + 1] \in Volatile => h[a.ls + 1] \in T
      BY <2>2
    <3>2. \A q \in S \cap Volatile : q \in T
      OBVIOUS
    <3> QED
      BY ONLY <2>1, <2>3, <3>1, <3>2, ApartMore
  <2>5. b.fl + 1 .. b.ls = (a.fl + 1 .. a.ls) \cup {a.ls + 1}
    BY <1>2, <1>3, <1>4
  <2> QED
    BY <1>3, <2>4, <2>5, ApartBothWays
<1> QED
  BY <1>3, <1>4, <1>5, <1>6 DEF Waiting

LEMMA WaitingOperandLess ==
    ASSUME NEW a \in Reach, NEW b \in Reach, NEW S, NEW T, NEW G, NEW g \in Seq(G), NEW f,
           NEW ok, NEW yes, Waiting(a, f, g, S, ok), a.ls >= a.fl + 1,
           SameFloor(a, b), b.rs = a.rs, b.ls = a.ls - 1,
           \A q \in S \cap Volatile : q \in T \/ g[a.ls] = q,
           yes => ok /\ \A i \in 1..a.rs : i \in a.pend => i \in b.pend \/ f[i] \in HasId
    PROVE  Waiting(b, f, Front(g), T, yes)
<1> PICK h : h = Front(g)
  OBVIOUS
<1>1. a.rs \in Nat /\ a.fr \in Nat /\ a.ls \in Nat /\ a.fl \in Nat
  BY ReachIs
<1>2. /\ a.rs = Len(f) /\ a.fr <= a.rs /\ \A i \in 1..a.fr : f[i] = a.res[i]
      /\ a.ls = Len(g) /\ a.fl <= a.ls /\ \A j \in 1..a.fl : g[j] = a.lvs[j]
      /\ Apart(f, a.fr + 1 .. a.rs, g, a.fl + 1 .. a.ls, S)
      /\ ok => \A i \in 1..a.rs : i \in a.pend \/ f[i] \in HasId
  BY DEF Waiting
<1>3. Len(h) = b.ls /\ \A i \in 1..b.ls : h[i] = g[i]
  <2>1. Len(g) >= 1 /\ 1 \in Nat
    BY <1>1, <1>2
  <2>2. Len(h) = Len(g) - 1 /\ \A i \in 1..Len(g) - 1 : h[i] = g[i]
    BY <2>1, BelowIs DEF Front
  <2> QED
    BY <1>2, <2>2
<1>4. b.fr = a.fr /\ b.res = a.res /\ b.fl = a.fl /\ b.lvs = a.lvs
  BY DEF SameFloor
<1>5. b.fl <= b.ls /\ \A i \in 1..b.fl : i \in 1..b.ls
  BY <1>1, <1>2, <1>4
<1>6. Apart(f, b.fr + 1 .. b.rs, h, b.fl + 1 .. b.ls, T)
  <2> DEFINE I == a.fl + 1 .. a.ls
             K == b.fl + 1 .. b.ls
  <2>1. K \subseteq I /\ a.ls \in I \ K /\ K \subseteq 1..b.ls
    BY <1>1, <1>2, <1>4
  <2>2. \A i \in K : h[i] = g[i]
    BY <1>3, <2>1
  <2>3. \A q \in S \cap Volatile : q \in T \/ \E i \in I \ K : g[i] = q
    BY <2>1
  <2> HIDE DEF I, K
  <2>4. Apart(g, I, f, a.fr + 1 .. a.rs, S)
    BY <1>2, ApartBothWays DEF I
  <2>5. Apart(h, K, f, a.fr + 1 .. a.rs, T)
    BY ONLY <2>1, <2>2, <2>3, <2>4, ApartFewer
  <2> QED
    BY <1>4, <2>5, ApartBothWays DEF K
<1>7. ASSUME yes, NEW i \in 1..b.rs
      PROVE  i \in b.pend \/ f[i] \in HasId
  BY <1>2, <1>7
<1> QED
  BY <1>2, <1>3, <1>4, <1>5, <1>6, <1>7 DEF Waiting

LEMMA WaitingSame ==
    ASSUME NEW a \in Reach, NEW b \in Reach, NEW S, NEW T, NEW f, NEW g, NEW ok, NEW yes,
           Waiting(a, f, g, S, ok), SameFloor(a, b), b.rs = a.rs, b.ls = a.ls,
           \A q \in S \cap Volatile : q \in T,
           yes => ok, b.pend = a.pend
    PROVE  Waiting(b, f, g, T, yes)
<1>1. Apart(f, a.fr + 1 .. a.rs, g, a.fl + 1 .. a.ls, S)
  BY DEF Waiting
<1>2. Apart(f, a.fr + 1 .. a.rs, g, a.fl + 1 .. a.ls, T)
  BY <1>1, ApartSame
<1> QED
  BY <1>2 DEF Waiting, SameFloor

------------------------------------------------------------------------------
(* Statements without a division: none of their pieces has one.            *)

Undivided(t) == t.op # "over" /\ ~Divides[t.e]

AllUndivided(s) == \A k \in 1..Len(s) : Undivided(s[k])

UndividedInv == NoDivision => AllUndivided(todo)

LEMMA KidsUndivided ==
    ASSUME NEW e \in Expr, ~Divides[e]
    PROVE  e.kind # "over" /\ \A i \in DOMAIN e.kids : ~Divides[e.kids[i]]
BY DivisionAssumption

LEMMA UndividedLists ==
    /\ \A t : Undivided(t) => AllUndivided(<<t>>)
    /\ \A t, u : Undivided(t) /\ Undivided(u) => AllUndivided(<<t, u>>)
    /\ \A t, u, v : Undivided(t) /\ Undivided(u) /\ Undivided(v)
                    => AllUndivided(<<t, u, v>>)
    /\ \A t, u, v, w : Undivided(t) /\ Undivided(u) /\ Undivided(v) /\ Undivided(w)
                       => AllUndivided(<<t, u, v, w>>)
<1>1. ASSUME NEW t, Undivided(t) PROVE AllUndivided(<<t>>)
  <2>1. Len(<<t>>) = 1 /\ <<t>>[1] = t /\ \A k \in 1..1 : k = 1
    OBVIOUS
  <2> QED
    BY <1>1, <2>1 DEF AllUndivided
<1>2. ASSUME NEW t, NEW u, Undivided(t), Undivided(u) PROVE AllUndivided(<<t, u>>)
  <2> DEFINE s == <<t, u>>
  <2>1. Len(s) = 2 /\ s[1] = t /\ s[2] = u /\ \A k \in 1..2 : k = 1 \/ k = 2
    OBVIOUS
  <2> HIDE DEF s
  <2>2. AllUndivided(s)
    BY <1>2, <2>1 DEF AllUndivided
  <2> QED
    BY <2>2 DEF s
<1>4. ASSUME NEW t, NEW u, NEW v, Undivided(t), Undivided(u), Undivided(v)
      PROVE  AllUndivided(<<t, u, v>>)
  <2> DEFINE s == <<t, u, v>>
  <2>1. Len(s) = 3 /\ s[1] = t /\ s[2] = u /\ s[3] = v /\ \A k \in 1..3 : k = 1 \/ k = 2 \/ k = 3
    OBVIOUS
  <2> HIDE DEF s
  <2>2. AllUndivided(s)
    BY <1>4, <2>1 DEF AllUndivided
  <2> QED
    BY <2>2 DEF s
<1>3. ASSUME NEW t, NEW u, NEW v, NEW w, Undivided(t), Undivided(u), Undivided(v), Undivided(w)
      PROVE  AllUndivided(<<t, u, v, w>>)
  <2> DEFINE s == <<t, u, v, w>>
  <2>1. /\ Len(s) = 4 /\ s[1] = t /\ s[2] = u /\ s[3] = v /\ s[4] = w
        /\ \A k \in 1..4 : k = 1 \/ k = 2 \/ k = 3 \/ k = 4
    OBVIOUS
  <2> HIDE DEF s
  <2>2. AllUndivided(s)
    BY <1>3, <2>1 DEF AllUndivided
  <2> QED
    BY <2>2 DEF s
<1> QED
  BY <1>1, <1>2, <1>3, <1>4

LEMMA Concatenated ==
    ASSUME NEW s, NEW t, IsSeq(s), IsSeq(t)
    PROVE  /\ IsSeq(s \o t)
           /\ Len(s) \in Nat /\ Len(t) \in Nat /\ Len(s \o t) = Len(s) + Len(t)
           /\ \A i \in 1..Len(s) : (s \o t)[i] = s[i]
           /\ \A i \in 1..Len(t) : (s \o t)[Len(s) + i] = t[i]
           /\ \A i \in 1..Len(s) + Len(t) :
                 i \in 1..Len(s) \/ \E j \in 1..Len(t) : i = Len(s) + j
<1>1. PICK S, T : s \in Seq(S) /\ t \in Seq(T)
  BY DEF IsSeq
<1>2. s \in Seq(S \cup T) /\ t \in Seq(S \cup T)
  BY <1>1, SeqMonotonic
<1>3. /\ s \o t \in Seq(S \cup T)
      /\ Len(s \o t) = Len(s) + Len(t)
      /\ \A i \in 1..Len(s) + Len(t) :
            (s \o t)[i] = IF i <= Len(s) THEN s[i] ELSE t[i - Len(s)]
  BY <1>2, ConcatProperties
<1>4. Len(s) \in Nat /\ Len(t) \in Nat
  BY <1>1, LenProperties
<1>5. \A i \in 1..Len(s) : i \in 1..Len(s) + Len(t) /\ i <= Len(s)
  BY <1>4
<1>6. \A i \in 1..Len(t) : /\ Len(s) + i \in 1..Len(s) + Len(t) /\ ~(Len(s) + i <= Len(s))
                           /\ Len(s) + i - Len(s) = i
  BY <1>4
<1>7. ASSUME NEW i \in 1..Len(s) + Len(t), i \notin 1..Len(s)
      PROVE  \E j \in 1..Len(t) : i = Len(s) + j
  <2>1. i - Len(s) \in 1..Len(t) /\ i = Len(s) + (i - Len(s))
    BY <1>4, <1>7
  <2> QED
    BY <2>1
<1>8. \A i \in 1..Len(s) : (s \o t)[i] = s[i]
  BY <1>3, <1>5
<1>9. \A i \in 1..Len(t) : (s \o t)[Len(s) + i] = t[i]
  BY <1>3, <1>6
<1> QED
  BY <1>3, <1>4, <1>7, <1>8, <1>9 DEF IsSeq

LEMMA UndividedBoth ==
    ASSUME NEW s, NEW t, IsSeq(s), IsSeq(t), AllUndivided(s), AllUndivided(t)
    PROVE  AllUndivided(s \o t)
<1>1. PICK u : u = s \o t
  OBVIOUS
<1>2. /\ Len(u) = Len(s) + Len(t)
      /\ \A i \in 1..Len(s) : u[i] = s[i]
      /\ \A i \in 1..Len(t) : u[Len(s) + i] = t[i]
      /\ \A i \in 1..Len(u) : i \in 1..Len(s) \/ \E j \in 1..Len(t) : i = Len(s) + j
  BY <1>1, Concatenated
<1> QED
  BY <1>1, <1>2 DEF AllUndivided

\* The last task is the last of the pieces left, and has the whole expression.
LEMMA DivisionEnds ==
    ASSUME ReservedInv, UndividedInv, todo # <<>>, todo' = Rest
    PROVE  UndividedInv' /\ (NoDivision' /\ todo' # <<>> => NoDivision)
<1>1. PICK S : todo \in Seq(S)
  BY DEF ReservedInv, AllTasks
<1>2. /\ Rest \in Seq(S) /\ Len(Rest) = Len(todo) - 1 /\ Len(todo) \in Nat
      /\ \A k \in 1..Len(Rest) : Rest[k] = todo[k + 1]
  BY <1>1, HeadTailProperties, LenProperties DEF Rest
<1>3. CASE Rest = <<>>
  <2>1. 1..Len(Rest) = {}
    BY <1>3, NoTasks, EmptySeq
  <2> QED
    BY <1>3, <2>1 DEF UndividedInv, AllUndivided
<1>4. CASE Rest # <<>>
  <2>1. Len(Rest) \in Nat /\ Len(Rest) >= 1 /\ Len(Rest) \in 1..Len(Rest)
        /\ Len(Rest) + 1 = Len(todo)
    BY <1>2, <1>4, EmptySeq, LenProperties
  <2>2. Rest[Len(Rest)] = todo[Len(todo)]
    BY <1>2, <2>1
  <2>3. NoDivision' => NoDivision
    BY <1>4, <2>2 DEF NoDivision
  <2>4. \A k \in 1..Len(Rest) : k + 1 \in 1..Len(todo)
    BY <1>2
  <2> QED
    BY <1>2, <2>3, <2>4 DEF UndividedInv, AllUndivided
<1> QED
  BY <1>3, <1>4

\* The tasks that replace the first, the last of them with its expression.
LEMMA DivisionFollows ==
    ASSUME ReservedInv, UndividedInv, todo # <<>>, NEW tasks, IsSeq(tasks), Len(tasks) >= 1,
           todo' = tasks \o Rest, tasks[Len(tasks)].e = Top.e,
           ~Divides[Top.e] => AllUndivided(tasks)
    PROVE  UndividedInv' /\ todo' # <<>> /\ (NoDivision' => NoDivision /\ ~Divides[Top.e])
<1>1. PICK S : todo \in Seq(S)
  BY DEF ReservedInv, AllTasks
<1>2. /\ Rest \in Seq(S) /\ Len(Rest) = Len(todo) - 1 /\ Len(todo) \in Nat
      /\ \A k \in 1..Len(Rest) : Rest[k] = todo[k + 1]
  BY <1>1, HeadTailProperties, LenProperties DEF Rest
<1>6. IsSeq(Rest)
  BY <1>2 DEF IsSeq
<1>7. /\ Len(todo') = Len(tasks) + Len(Rest) /\ Len(Rest) \in Nat /\ Len(tasks) \in Nat
      /\ \A i \in 1..Len(tasks) : todo'[i] = tasks[i]
      /\ \A i \in 1..Len(Rest) : todo'[Len(tasks) + i] = Rest[i]
  BY <1>6, Concatenated
<1>8. todo' # <<>>
  BY <1>7, EmptySeq
<1>9. todo'[Len(todo')].e = todo[Len(todo)].e
  <2>1. CASE Len(Rest) = 0
    <3>1. Len(todo') = Len(tasks) /\ Len(tasks) \in 1..Len(tasks) /\ Len(todo) = 1
      BY <1>2, <1>7, <2>1
    <3> QED
      BY <1>7, <3>1 DEF Top
  <2>2. CASE Len(Rest) # 0
    <3>1. Len(Rest) \in 1..Len(Rest) /\ Len(Rest) + 1 = Len(todo)
      BY <1>2, <1>7, <2>2
    <3> QED
      BY <1>2, <1>7, <3>1
  <2> QED
    BY <2>1, <2>2
<1>10. NoDivision' => NoDivision
  BY <1>8, <1>9 DEF NoDivision
<1>11. ASSUME NoDivision' PROVE AllUndivided(todo') /\ ~Divides[Top.e]
  <2>1. AllUndivided(todo)
    BY <1>10, <1>11 DEF UndividedInv
  <2>2. 1 \in 1..Len(todo)
    BY <1>1, EmptySeq, LenProperties
  <2>3. ~Divides[Top.e]
    BY <2>1, <2>2 DEF AllUndivided, Undivided, Top
  <2>5. \A k \in 1..Len(Rest) : k + 1 \in 1..Len(todo)
    BY <1>2
  <2>6. AllUndivided(Rest)
    BY <1>2, <2>1, <2>5 DEF AllUndivided
  <2> QED
    BY <1>6, <2>3, <2>6, UndividedBoth
<1> QED
  BY <1>8, <1>10, <1>11 DEF UndividedInv, AllUndivided, Undivided

\* Tasks and one more: the last is that one.
LEMMA LastTask ==
    ASSUME NEW tasks, IsSeq(tasks), NEW t
    PROVE  /\ IsSeq(tasks \o <<t>>) /\ Len(tasks \o <<t>>) >= 1
           /\ (tasks \o <<t>>)[Len(tasks \o <<t>>)] = t
           /\ AllUndivided(tasks) /\ Undivided(t) => AllUndivided(tasks \o <<t>>)
<1>1. IsSeq(<<t>>) /\ Len(<<t>>) = 1 /\ <<t>>[1] = t /\ 1 \in 1..1
  BY ListsAreSeqs
<1>2. PICK s : s = tasks \o <<t>>
  OBVIOUS
<1>3. IsSeq(s) /\ Len(s) = Len(tasks) + 1 /\ Len(tasks) \in Nat /\ s[Len(tasks) + 1] = t
  BY <1>1, <1>2, Concatenated
<1>4. AllUndivided(tasks) /\ Undivided(t) => AllUndivided(s)
  BY <1>1, <1>2, UndividedBoth, UndividedLists
<1> QED
  BY <1>2, <1>3, <1>4

------------------------------------------------------------------------------
(* Pieces that end.                                                        *)

Holds(a) == Waiting(a, results, lvalues, used, encodable)

LEMMA HoldsIs ==
    ASSUME NEW a, Waiting(a, results', lvalues', used', encodable')
    PROVE  Holds(a)'
BY DEF Holds, Waiting, Apart

LEMMA EmitsEncodable ==
    ASSUME NEW is, Emits(is)
    PROVE  encodable' => encodable /\ \A i \in is : NamedBy(i) \subseteq HasId
BY DEF Emits

LEMMA VolatileIs ==
    /\ NoRegister \notin Volatile /\ "RBP" \notin Volatile /\ "BIT16" \notin Volatile
    /\ Volatile \cap Reserved = {}
    /\ Free \cap HasId \subseteq Volatile /\ NoRegister \notin HasId
<1>1. HasId \subseteq {"RAX", "RCX", "RDX", "RBX", "RSP", "RBP", "RSI", "RDI"}
  <2>1. 1..8 = {1, 2, 3, 4, 5, 6, 7, 8}
    OBVIOUS
  <2> QED
    BY <2>1 DEF HasId, RegName
<1> QED
  BY <1>1 DEF Volatile, NoRegister, Reserved, Free

\* A register that the allocator answers with was not in use.
LEMMA AvailableIsUnused ==
    ASSUME ReservedInv, todo # <<>>, Top.op \in {"value", "casted", "binary", "over"}
    PROVE  /\ Available(Top.m) \in Free
           /\ Available(Top.m) \in Volatile => Available(Top.m) \notin used
<1>1. Top.m \subseteq Any /\ Reserved \subseteq used
  BY FirstTask DEF ReservedInv, TaskOK
<1> QED
  BY <1>1, AvailableIsFree, VolatileIs

LEMMA LeafNames ==
    ASSUME ReservedInv, CompileLeaf \/ CompileIntCasted, encodable'
    PROVE  encodable /\ Available(Top.m) \in HasId
<1>1. PICK r : r = Available(Top.m)
  OBVIOUS
<1>2. r \in Free
  BY <1>1, Named DEF CompileLeaf, CompileIntCasted, Runs
<1>3. CASE CompileLeaf
  <2>1. PICK is :
          /\ Emits(is)
          /\ is = (CASE Top.e.kind = "int" -> {MovRm32Imm(Basic(r), v) : v \in Immediate}
                     [] Top.e.kind = "string" -> {LeaString(r)}
                     [] Top.e.kind = "var" ->
                           {MovLoad(r, rm, size) : rm \in Local, size \in SizesOf(Top.e.size)}
                           \cup {Lea(r, rm) : rm \in Local})
    BY <1>1, <1>3 DEF CompileLeaf
  <2>2. PICK i \in is : r \in {i.rm.base, i.reg}
    <3>1. CASE Top.e.kind = "int"
      <4>1. MovRm32Imm(Basic(r), 7) \in is
        BY <2>1, <3>1 DEF Immediate
      <4> QED
        BY <4>1 DEF MovRm32Imm, Basic, Instr
    <3>2. CASE Top.e.kind = "string"
      <4>1. LeaString(r) \in is
        BY <2>1, <3>2
      <4> QED
        BY <4>1 DEF LeaString, Instr
    <3>3. CASE Top.e.kind = "var"
      <4>1. Lea(r, MemReadDisp("RBP", -8)) \in is
        BY <2>1, <3>3 DEF Local
      <4> QED
        BY <4>1 DEF Lea, Instr
    <3> QED
      BY <1>3, <3>1, <3>2, <3>3 DEF CompileLeaf
  <2>3. Emits(is)
    BY <2>1
  <2>4. encodable /\ NamedBy(i) \subseteq HasId
    BY <2>2, <2>3, EmitsEncodable
  <2> QED
    BY <1>1, <1>2, <2>2, <2>4, Names
<1>4. CASE CompileIntCasted
  <2>1. PICK is :
          /\ Emits(is)
          /\ is = {MovRegImm(r, IF size = 1 THEN v % 256 ELSE v, size) :
                      v \in Immediate, size \in SizesOf(Top.to)}
    BY <1>1, <1>4 DEF CompileIntCasted
  <2>2. PICK i \in is : r \in {i.rm.base, i.reg}
    <3>1. PICK size \in SizesOf(Top.to) : size # 4
      BY DEF SizesOf
    <3>2. MovRegImm(r, IF size = 1 THEN 7 % 256 ELSE 7, size) \in is
      BY <2>1, <3>1 DEF Immediate
    <3> QED
      BY <3>1, <3>2 DEF MovRegImm, Instr
  <2>3. Emits(is)
    BY <2>1
  <2>4. encodable /\ NamedBy(i) \subseteq HasId
    BY <2>2, <2>3, EmitsEncodable
  <2> QED
    BY <1>1, <1>2, <2>2, <2>4, Names
<1> QED
  BY <1>3, <1>4

\* Literals and variables.
LEMMA LeavesHold ==
    ASSUME ReservedInv, CompileLeaf \/ CompileIntCasted,
           NEW a \in Reach, NEW b \in Reach, Holds(a), Reaches(Top, a, b)
    PROVE  Holds(b)'
<1>1. PICK r : r = Available(Top.m)
  OBVIOUS
<1>2. /\ todo # <<>> /\ Top.op \in {"value", "casted"}
      /\ used' = Marked(r) /\ results' = Append(results, r) /\ lvalues' = lvalues
  BY <1>1 DEF CompileLeaf, CompileIntCasted, Runs
<1>3. r \in Free /\ (r \in Volatile => r \notin used)
  BY <1>1, <1>2, AvailableIsUnused
<1>4. /\ b.rs = a.rs + 1 /\ b.ls = a.ls /\ SameFloor(a, b) /\ b.pend = a.pend
      /\ a.rs \in Nat /\ a.ls \in Nat
  BY <1>2, ReachIs DEF Reaches, Takes, Gives, TakesOperand, GivesOperand
<1>5. encodable' => encodable /\ r \in HasId
  BY <1>1, LeafNames
<1>6. /\ \A q \in used \cap Volatile : q \in used'
      /\ r \in Volatile => r \in used'
  BY <1>2, VolatileIs DEF Marked
<1>7. Waiting(b, Append(results, r), lvalues, used', encodable')
  <2>1. Waiting(a, results, lvalues, used, encodable) /\ results \in Seq(Free)
    BY DEF Holds, ReservedInv
  <2> QED
    BY <1>3, <1>4, <1>5, <1>6, <2>1, WaitingMore
<1> QED
  BY <1>2, <1>7, HoldsIs

\* Pieces that work in the register they find.
LEMMA InPlaceHold ==
    ASSUME ReservedInv, Cast \/ Scale \/ Load,
           NEW a \in Reach, NEW b \in Reach, Holds(a), Reaches(Top, a, b)
    PROVE  Holds(b)'
<1>1. /\ todo # <<>> /\ Top.op \in {"cast", "scale", "load"}
      /\ used' = used /\ results' = results /\ lvalues' = lvalues
  BY DEF Cast, Scale, Load, Runs
<1>2. b.rs = a.rs /\ b.ls = a.ls /\ SameFloor(a, b) /\ b.pend = a.pend
  BY <1>1, ReachIs DEF Reaches, Takes, Gives, TakesOperand, GivesOperand
<1>3. encodable' => encodable
  BY EmitsEncodable DEF Cast, Scale, Load
<1>4. Waiting(b, results, lvalues, used', encodable')
  BY <1>1, <1>2, <1>3, WaitingSame DEF Holds
<1> QED
  BY <1>1, <1>4, HoldsIs

\* A reach of other heights over the same floor.
LEMMA ReachAt ==
    \A a \in Reach, n \in Nat, m \in Nat :
        \E c \in Reach : c.rs = n /\ c.ls = m /\ c.pend = a.pend /\ SameFloor(a, c)
<1> TAKE a \in Reach, n \in Nat, m \in Nat
<1> DEFINE c == [rs |-> n, fr |-> a.fr, res |-> a.res,
                 ls |-> m, fl |-> a.fl, lvs |-> a.lvs, pend |-> a.pend]
<1>1. c \in Reach
  BY DEF Reach
<1>2. c.rs = n /\ c.ls = m /\ c.pend = a.pend /\ SameFloor(a, c)
  BY DEF SameFloor
<1> HIDE DEF c
<1> QED
  BY <1>1, <1>2

\* What waits above the floor: where it is, and that it is there alone.
LEMMA HeldAbove ==
    ASSUME NEW a \in Reach, Holds(a)
    PROVE  /\ a.rs = Len(results) /\ a.ls = Len(lvalues)
           /\ \A i \in a.fr + 1 .. a.rs : results[i] \in Volatile => results[i] \in used
           /\ \A i, j \in a.fr + 1 .. a.rs :
                 results[i] = results[j] /\ results[i] \in Volatile => i = j
           /\ encodable => \A i \in 1..a.rs : i \in a.pend \/ results[i] \in HasId
BY SMTT(60) DEF Holds, Waiting, Apart

LEMMA OperandsAt ==
    ASSUME results \in Seq(Free), Len(results) >= 2, NEW e
    PROVE  \E l, r \in {Len(results) - 1, Len(results)} :
              l # r /\ LhsResult(e) = results[l] /\ RhsResult(e) = results[r]
<1>1. Len(results) \in Nat
  BY LenProperties
<1>2. Len(results) - 0 = Len(results) /\ Len(results) - 1 # Len(results)
  BY <1>1
<1> QED
  BY <1>2 DEF LhsResult, RhsResult

\* Two results become one of the two, and the register of the other is free.
LEMMA PairsHold ==
    ASSUME ReservedInv, EndBinary \/ AddOffset,
           NEW a \in Reach, NEW b \in Reach, Holds(a), Reaches(Top, a, b)
    PROVE  Holds(b)'
<1>1. results \in Seq(Free) /\ Len(results) \in Nat
  BY LenProperties DEF ReservedInv
<1>2. PICK k, j \in {Len(results) - 1, Len(results)} :
        /\ k # j /\ todo # <<>> /\ Len(results) >= 2 /\ Top.op \in {"binary", "add_offset"}
        /\ results' = Append(SubSeq(results, 1, Len(results) - 2), results[k])
        /\ used' = used \ {results[j]} /\ lvalues' = lvalues /\ (encodable' => encodable)
  <2>1. CASE EndBinary
    <3>1. /\ todo # <<>> /\ Len(results) >= 2 /\ Top.op = "binary"
          /\ results' = Append(SubSeq(results, 1, Len(results) - 2), LhsResult(Top.e))
          /\ used' = used \ {RhsResult(Top.e)} /\ lvalues' = lvalues
      BY <2>1 DEF EndBinary, Runs, Front2, BinaryFrees
    <3>2. encodable' => encodable
      BY <2>1, EmitsEncodable DEF EndBinary
    <3>3. PICK l, r \in {Len(results) - 1, Len(results)} :
             l # r /\ LhsResult(Top.e) = results[l] /\ RhsResult(Top.e) = results[r]
      BY <1>1, <3>1, OperandsAt
    <3> QED
      BY <3>1, <3>2, <3>3
  <2>2. CASE AddOffset
    <3>1. /\ todo # <<>> /\ Len(results) >= 2 /\ Top.op = "add_offset"
          /\ results' = Append(SubSeq(results, 1, Len(results) - 2), results[Len(results)])
          /\ used' = used \ {results[Len(results) - 1]} /\ lvalues' = lvalues
      BY <2>2 DEF AddOffset, Runs, Front2
    <3>2. encodable' => encodable
      BY <2>2, EmitsEncodable DEF AddOffset
    <3>3. Len(results) # Len(results) - 1
      BY <1>1
    <3> QED
      BY <3>1, <3>2, <3>3
  <2> QED
    BY <2>1, <2>2
<1>3. PICK s, freed : s = results[k] /\ freed = results[j]
  OBVIOUS
<1>4. /\ a.rs >= a.fr + 2 /\ b.rs = a.rs - 2 + 1 /\ b.ls = a.ls /\ SameFloor(a, b)
      /\ b.pend = a.pend /\ \A i \in a.rs - 2 + 1 .. a.rs : i \notin a.pend
      /\ a.rs \in Nat /\ a.fr \in Nat /\ a.ls \in Nat
  BY <1>2, ReachIs DEF Reaches, Takes, Gives, TakesOperand, GivesOperand
<1>5. a.rs = Len(results) /\ a.rs - 2 \in Nat
  BY <1>4, HeldAbove
<1>6. /\ k \in a.fr + 1 .. a.rs /\ j \in a.fr + 1 .. a.rs
      /\ k \in a.rs - 2 + 1 .. a.rs /\ j \in a.rs - 2 + 1 .. a.rs /\ k \in 1..a.rs
      /\ k \in 1..Len(results)
  BY <1>2, <1>4, <1>5
<1>7. /\ s \in Free /\ (s \in Volatile => s \in used /\ s # freed)
      /\ encodable => s \in HasId
  <2>1. s \in Free
    BY <1>1, <1>3, <1>6, ElementOfSeq
  <2>2. s \in Volatile => s \in used /\ s # freed
    BY <1>2, <1>3, <1>6, HeldAbove
  <2>3. encodable => s \in HasId
    BY <1>3, <1>4, <1>6, HeldAbove
  <2> QED
    BY <2>1, <2>2, <2>3
<1>8. PICK c \in Reach : c.rs = a.rs - 2 /\ c.ls = a.ls /\ c.pend = a.pend /\ SameFloor(a, c)
  <2>1. PICK n \in Nat : n = a.rs - 2
    BY <1>5
  <2>2. n \in Nat /\ a.ls \in Nat /\ a \in Reach
    BY <1>4, <2>1
  <2>3. \E c \in Reach : c.rs = n /\ c.ls = a.ls /\ c.pend = a.pend /\ SameFloor(a, c)
    BY ONLY <2>2, ReachAt
  <2> QED
    BY <2>1, <2>3
<1>9. PICK T : T = used \ {s, freed}
  OBVIOUS
<1>10. PICK f \in Seq(Free) : f = SubSeq(results, 1, Len(results) - 2)
  BY <1>1, <1>2, BelowIs
<1>11. Waiting(c, f, lvalues, T, encodable')
  <2>1. \A q \in used \cap Volatile : q \in T \/ \E i \in a.rs - 2 + 1 .. a.rs : results[i] = q
    BY <1>3, <1>6, <1>9
  <2>2. Waiting(a, results, lvalues, used, encodable)
    BY DEF Holds
  <2>3. encodable' => encodable /\ \A i \in 1..c.rs : i \in a.pend => i \in c.pend
    BY <1>2, <1>8
  <2> QED
    BY <1>1, <1>4, <1>8, <1>10, <2>1, <2>2, <2>3, WaitingLess
<1>12. Waiting(b, Append(f, s), lvalues, used', encodable')
  <2>1. SameFloor(c, b) /\ b.rs = c.rs + 1 /\ b.ls = c.ls /\ b.pend = c.pend
    BY <1>4, <1>8 DEF SameFloor
  <2>2. /\ s \notin T /\ \A q \in T \cap Volatile : q \in used'
        /\ s \in Volatile => s \in used'
    BY <1>2, <1>3, <1>7, <1>9
  <2>3. encodable' => s \in HasId
    BY <1>2, <1>7
  <2> QED
    BY <1>7, <1>10, <1>11, <2>1, <2>2, <2>3, WaitingMore
<1> QED
  BY <1>2, <1>3, <1>10, <1>12, HoldsIs

\* The end of a statement or a comparison frees what it took.
LEMMA StatementsHold ==
    ASSUME ReservedInv, EndStatement \/ EndCompare,
           NEW a \in Reach, NEW b \in Reach, Holds(a), Reaches(Top, a, b)
    PROVE  Holds(b)'
<1>1. results \in Seq(Free) /\ Len(results) \in Nat
  BY LenProperties DEF ReservedInv
<1>2. PICK n \in {1, 2} :
        /\ todo # <<>> /\ Len(results) >= n
        /\ Top.op = IF n = 1 THEN "statement" ELSE "compare"
        /\ results' = SubSeq(results, 1, Len(results) - n) /\ lvalues' = lvalues
        /\ \A q \in used : q \in used' \/ \E i \in Len(results) - n + 1 .. Len(results) :
                                             results[i] = q
  <2>1. CASE EndStatement
    <3>1. /\ todo # <<>> /\ Top.op = "statement" /\ results # <<>>
          /\ results' = SubSeq(results, 1, Len(results) - 1)
          /\ used' = used \ {results[Len(results)]} /\ lvalues' = lvalues
      BY <2>1 DEF EndStatement, Runs, Front, Last
    <3>2. Len(results) >= 1 /\ Len(results) \in Len(results) - 1 + 1 .. Len(results)
      BY <1>1, <3>1, Stacks
    <3> QED
      BY <3>1, <3>2
  <2>2. CASE EndCompare
    <3>1. /\ todo # <<>> /\ Top.op = "compare" /\ Len(results) >= 2
          /\ results' = SubSeq(results, 1, Len(results) - 2)
          /\ used' = used \ {LhsResult(Top.e), RhsResult(Top.e)} /\ lvalues' = lvalues
      BY <2>2 DEF EndCompare, Runs, Front2
    <3>2. PICK l, r \in {Len(results) - 1, Len(results)} :
             LhsResult(Top.e) = results[l] /\ RhsResult(Top.e) = results[r]
      BY <1>1, <3>1, OperandsAt
    <3>3. /\ l \in Len(results) - 2 + 1 .. Len(results)
          /\ r \in Len(results) - 2 + 1 .. Len(results)
      BY <1>1, <3>1, <3>2
    <3> QED
      BY <3>1, <3>2, <3>3
  <2> QED
    BY <2>1, <2>2
<1>3. encodable' => encodable
  BY EmitsEncodable DEF EndStatement, EndCompare
<1>4. /\ a.rs >= a.fr + n /\ b.rs = a.rs - n /\ b.ls = a.ls /\ SameFloor(a, b)
      /\ b.pend = a.pend /\ n \in Nat /\ a.rs = Len(results)
  <2>1. a.rs \in Nat /\ a.ls \in Nat /\ a.fr \in Nat
    BY ReachIs
  <2>2. CASE n = 1
    BY <1>2, <2>1, <2>2, HeldAbove DEF Reaches, Takes, Gives, TakesOperand, GivesOperand
  <2>3. CASE n = 2
    BY <1>2, <2>1, <2>3, HeldAbove DEF Reaches, Takes, Gives, TakesOperand, GivesOperand
  <2> QED
    BY <2>2, <2>3
<1>5. Waiting(b, SubSeq(results, 1, Len(results) - n), lvalues, used', encodable')
  <2>1. Waiting(a, results, lvalues, used, encodable)
    BY DEF Holds
  <2>2. \A q \in used \cap Volatile : q \in used' \/ \E i \in a.rs - n + 1 .. a.rs : results[i] = q
    BY <1>2, <1>4
  <2>3. encodable' => encodable /\ \A i \in 1..b.rs : i \in a.pend => i \in b.pend
    BY <1>3, <1>4
  <2> QED
    BY <1>1, <1>4, <2>1, <2>2, <2>3, WaitingLess
<1> QED
  BY <1>2, <1>5, HoldsIs

\* An operand of a variable is at the frame pointer, which is nobody's.
LEMMA PlacesHold ==
    ASSUME ReservedInv, LValueOfVariable \/ EndLValue,
           NEW a \in Reach, NEW b \in Reach, Holds(a), Reaches(Top, a, b)
    PROVE  Holds(b)'
<1>1. /\ results \in Seq(Free) /\ Len(results) \in Nat
      /\ lvalues \in Seq(Free \cup {"RBP"})
      /\ a.rs \in Nat /\ a.fr \in Nat /\ a.ls \in Nat /\ a.fl \in Nat
      /\ a.rs = Len(results)
  BY LenProperties, ReachIs, HeldAbove DEF ReservedInv
<1>2. Waiting(a, results, lvalues, used, encodable)
  BY DEF Holds
<1>3. CASE LValueOfVariable
  <2>1. /\ Top.op = "lvalue" /\ lvalues' = Append(lvalues, "RBP")
        /\ results' = results /\ used' = used /\ encodable' = encodable
    BY <1>3 DEF LValueOfVariable, Runs
  <2>2. b.rs = a.rs /\ b.ls = a.ls + 1 /\ SameFloor(a, b) /\ b.pend = a.pend
    BY <1>1, <2>1 DEF Reaches, Takes, Gives, TakesOperand, GivesOperand
  <2>3. Waiting(b, results, Append(lvalues, "RBP"), used, encodable)
    BY <1>1, <1>2, <2>2, VolatileIs, WaitingOperandMore
  <2> QED
    BY <2>1, <2>3, HoldsIs
<1>4. CASE EndLValue
  <2>1. PICK r : r = results[Len(results)]
    OBVIOUS
  <2>2. /\ Top.op = "operand" /\ lvalues' = Append(lvalues, r) /\ results # <<>>
        /\ results' = SubSeq(results, 1, Len(results) - 1)
        /\ used' = used /\ encodable' = encodable
    BY <1>4, <2>1 DEF EndLValue, Runs, Last, Front
  <2>3. /\ a.rs >= a.fr + 1 /\ b.rs = a.rs - 1 /\ b.ls = a.ls + 1 /\ SameFloor(a, b)
        /\ b.pend = a.pend
    BY <1>1, <2>2 DEF Reaches, Takes, Gives, TakesOperand, GivesOperand
  <2>4. r \in Free /\ a.rs \in a.fr + 1 .. a.rs /\ a.rs \in a.rs - 1 + 1 .. a.rs
    <3>1. Len(results) \in 1..Len(results)
      BY <1>1, <2>3
    <3> QED
      BY <1>1, <2>1, <2>3, <3>1, ElementOfSeq
  <2>5. r \in Volatile => r \in used
    BY <1>1, <2>1, <2>4, HeldAbove
  <2>6. PICK n \in Nat : n = a.rs - 1
    BY <1>1, <2>3
  <2>7. PICK c \in Reach : c.rs = n /\ c.ls = a.ls /\ c.pend = a.pend /\ SameFloor(a, c)
    BY <1>1, ReachAt
  <2>8. PICK T : T = used \ {r}
    OBVIOUS
  <2>9. PICK f : f = SubSeq(results, 1, Len(results) - 1)
    OBVIOUS
  <2>10. Waiting(c, f, lvalues, T, encodable)
    <3>1. \A q \in used \cap Volatile : q \in T \/ \E i \in a.rs - 1 + 1 .. a.rs : results[i] = q
      BY <1>1, <2>1, <2>4, <2>8
    <3>2. 1 \in Nat /\ c.rs = a.rs - 1 /\ \A i \in 1..c.rs : i \in a.pend => i \in c.pend
      BY <2>6, <2>7
    <3> QED
      BY ZenonT(60), <1>1, <1>2, <2>3, <2>7, <2>9, <3>1, <3>2, WaitingLess
  <2>11. Waiting(b, f, Append(lvalues, r), used, encodable)
    <3>1. SameFloor(c, b) /\ b.rs = c.rs /\ b.ls = c.ls + 1 /\ b.pend = c.pend
      BY <2>3, <2>6, <2>7 DEF SameFloor
    <3>2. /\ r \notin T /\ \A q \in T \cap Volatile : q \in used
          /\ r \in Free \cup {"RBP"}
      BY <2>4, <2>8
    <3> QED
      BY <1>1, <2>5, <2>10, <3>1, <3>2, WaitingOperandMore
  <2> QED
    BY <2>2, <2>9, <2>11, HoldsIs
<1> QED
  BY <1>3, <1>4

LEMMA AddressNames ==
    ASSUME ReservedInv, EndAddressOf, encodable'
    PROVE  encodable /\ results[Len(results)] \in HasId
<1>1. PICK r, base : r = Last(results) /\ base = Last(lvalues)
  OBVIOUS
<1>2. r \in Free
  BY <1>1, Named DEF EndAddressOf, Runs
<1>3. Emits({Lea(r, rm) : rm \in OperandAt(base)})
  BY <1>1 DEF EndAddressOf
<1>4. PICK rm : rm \in OperandAt(base)
  <2>1. OperandAt(base) # {}
    BY DEF OperandAt, Local
  <2> QED
    BY <2>1
<1>5. PICK i : i = Lea(r, rm)
  OBVIOUS
<1>6. r \in {i.rm.base, i.reg}
  BY <1>5 DEF Lea, Instr
<1>7. encodable /\ NamedBy(i) \subseteq HasId
  BY <1>3, <1>4, <1>5, EmitsEncodable
<1> QED
  BY <1>1, <1>2, <1>6, <1>7, Names DEF Last

\* The operand of an assignment or an address_of is consumed, and its base is free.
LEMMA StoresHold ==
    ASSUME ReservedInv, EndAssignment \/ EndAddressOf,
           NEW a \in Reach, NEW b \in Reach, Holds(a), Reaches(Top, a, b)
    PROVE  Holds(b)'
<1>1. /\ results \in Seq(Free) /\ Len(results) \in Nat
      /\ lvalues \in Seq(Free \cup {"RBP"})
      /\ a.rs \in Nat /\ a.fr \in Nat /\ a.ls \in Nat /\ a.fl \in Nat
      /\ a.rs = Len(results) /\ a.ls = Len(lvalues)
  BY LenProperties, ReachIs, HeldAbove DEF ReservedInv
<1>2. Waiting(a, results, lvalues, used, encodable)
  BY DEF Holds
<1>3. /\ Top.op \in {"store", "lea"} /\ results' = results /\ lvalues' = Front(lvalues)
      /\ used' = used \ FreedBase(lvalues[Len(lvalues)])
  BY DEF EndAssignment, EndAddressOf, Runs, Last
<1>4. /\ a.rs >= 1 /\ b.rs = a.rs /\ a.ls >= a.fl + 1 /\ b.ls = a.ls - 1 /\ SameFloor(a, b)
  <2>1. Top.op # "call" /\ Takes(Top) = 1 /\ Gives(Top) = 1
        /\ TakesOperand(Top) = 1 /\ GivesOperand(Top) = 0
    BY <1>3 DEF Takes, Gives, TakesOperand, GivesOperand
  <2> QED
    BY <1>1, <2>1 DEF Reaches
<1>5. encodable' => encodable /\ \A i \in 1..a.rs : i \in a.pend => i \in b.pend \/ results[i] \in HasId
  <2>1. CASE EndAssignment
    <3>1. Top.op # "lea"
      BY <2>1 DEF EndAssignment, Runs
    <3>2. b.pend = a.pend
      BY <3>1 DEF Reaches
    <3>3. encodable' => encodable
      BY <2>1, EmitsEncodable DEF EndAssignment
    <3> QED
      BY <3>2, <3>3
  <2>2. CASE EndAddressOf
    <3>1. Top.op = "lea"
      BY <2>2 DEF EndAddressOf, Runs
    <3>2. a.pend = b.pend \cup {a.rs}
      BY <3>1 DEF Reaches
    <3>3. encodable' => encodable /\ results[a.rs] \in HasId
      BY <1>1, <2>2, AddressNames
    <3> QED
      BY <3>2, <3>3
  <2> QED
    BY <2>1, <2>2
<1>6. Waiting(b, results, Front(lvalues), used', encodable')
  <2>1. \A q \in used \cap Volatile : q \in used' \/ lvalues[a.ls] = q
    BY <1>1, <1>3 DEF FreedBase
  <2> QED
    BY <1>1, <1>2, <1>4, <1>5, <2>1, WaitingOperandLess
<1> QED
  BY <1>3, <1>6, HoldsIs

LEMMA OutputNamed ==
    ASSUME ReservedInv, EndCall, encodable'
    PROVE  encodable /\ Top.output \in HasId
<1>1. PICK r : r = Top.output
  OBVIOUS
<1>2. r \in Free
  BY <1>1, Named DEF EndCall, Runs
<1>3. PICK is : is = UNION {{Plain("call")}, {Unary("pop", Basic(q)) : q \in Top.saved},
           IF Top.output = "RAX" THEN {} ELSE {MovStore(Basic(Top.output), "RAX", 8)}}
  OBVIOUS
<1>4. Emits(is)
  BY <1>3 DEF EndCall
<1>5. CASE r = "RAX"
  <2>1. 1 \in 1..8
    OBVIOUS
  <2>2. "RAX" \in HasId
    BY <2>1 DEF HasId, RegName
  <2> QED
    BY <1>1, <1>4, <1>5, <2>2, EmitsEncodable
<1>6. CASE r # "RAX"
  <2>1. PICK i : i = MovStore(Basic(r), "RAX", 8)
    OBVIOUS
  <2>2. i \in is
    BY <1>1, <1>3, <1>6, <2>1
  <2>3. r \in {i.rm.base, i.reg}
    BY <2>1 DEF MovStore, Basic, Instr
  <2>4. encodable /\ NamedBy(i) \subseteq HasId
    BY <1>4, <2>2, EmitsEncodable
  <2> QED
    BY <1>1, <1>2, <2>3, <2>4, Names
<1> QED
  BY <1>5, <1>6

\* A call gives back what it put away: each operand is again in its register,
\* which is in use again, and the answer is in another one.
LEMMA CallHolds ==
    ASSUME ReservedInv, EndCall,
           NEW a \in Reach, NEW b \in Reach, Holds(a), Reaches(Top, a, b)
    PROVE  Holds(b)'
<1>1. /\ results \in Seq(Free) /\ Len(results) \in Nat /\ todo # <<>> /\ Top.op = "call"
      /\ a.rs \in Nat /\ a.fr \in Nat /\ a.ls \in Nat /\ a.fl \in Nat
      /\ b.rs \in Nat /\ b.fr \in Nat /\ b.ls \in Nat /\ b.fl \in Nat
  BY LenProperties, ReachIs DEF ReservedInv, EndCall, Runs
<1>2. PICK n \in Nat : n = Len(Top.e.kids)
  <2>1. Top.e \in Expr /\ Top.e.kind = "call"
    BY <1>1, FirstTask DEF ReservedInv, TaskOK
  <2> QED
    BY <2>1, ArgumentsAre
<1>3. PICK r, saved : r = Top.output /\ saved = Top.saved
  OBVIOUS
<1>4. /\ results' = Append(SubSeq(results, 1, Len(results) - n), r) /\ lvalues' = lvalues
      /\ used' = (used \ {ArgRegister[i] : i \in DOMAIN Top.e.params})
                 \cup ({r} \ {NoRegister}) \cup saved
  BY <1>2, <1>3 DEF EndCall
<1>5. /\ a.rs = Len(results) /\ a.ls = Len(lvalues)
      /\ \A i \in 1..a.fr : results[i] = a.res[i]
      /\ \A i \in 1..a.fl : lvalues[i] = a.lvs[i]
      /\ encodable => \A i \in 1..a.rs : i \in a.pend \/ results[i] \in HasId
  BY DEF Holds, Waiting
<1>6. /\ a.rs = a.fr + n /\ a.fl = a.ls
      /\ b.fr <= a.fr /\ \A i \in 1..b.fr : b.res[i] = a.res[i]
      /\ b.fl <= a.fl /\ \A i \in 1..b.fl : b.lvs[i] = a.lvs[i]
      /\ Apart(a.res, b.fr + 1 .. a.fr, a.lvs, b.fl + 1 .. a.fl, saved)
      /\ r \notin saved
  BY <1>1, <1>2, <1>3 DEF Reaches, GivesBack
<1>7. /\ b.rs = a.fr + 1 /\ b.ls = a.ls /\ b.pend = a.pend
  <2>1. Takes(Top) = n /\ Gives(Top) = 1 /\ TakesOperand(Top) = 0 /\ GivesOperand(Top) = 0
    BY <1>1, <1>2 DEF Takes, Gives, TakesOperand, GivesOperand
  <2>2. b.rs = a.rs - n + 1 /\ b.ls = a.ls - 0 + 0 /\ b.pend = a.pend
    BY <1>1, <2>1 DEF Reaches
  <2> QED
    BY <1>1, <1>6, <2>2
<1>8. PICK c \in Reach : c.rs = a.fr /\ c.ls = a.ls /\ c.pend = b.pend /\ SameFloor(b, c)
  <2>1. PICK p \in Nat, q \in Nat : p = a.fr /\ q = a.ls
    BY <1>1
  <2>2. \E c \in Reach : c.rs = p /\ c.ls = q /\ c.pend = b.pend /\ SameFloor(b, c)
    BY ReachAt
  <2> QED
    BY <2>1, <2>2
<1>9. PICK f \in Seq(Free) :
        /\ f = SubSeq(results, 1, Len(results) - n)
        /\ Len(f) = a.fr /\ \A i \in 1..a.fr : f[i] = results[i]
  <2>1. Len(results) >= n /\ Len(results) - n = a.fr
    BY <1>1, <1>5, <1>6
  <2>2. /\ SubSeq(results, 1, Len(results) - n) \in Seq(Free)
        /\ Len(SubSeq(results, 1, Len(results) - n)) = Len(results) - n
        /\ \A i \in 1..Len(results) - n :
              SubSeq(results, 1, Len(results) - n)[i] = results[i]
    BY <1>1, <2>1, BelowIs
  <2> QED
    BY <2>1, <2>2
<1>10. c.fr = b.fr /\ c.res = b.res /\ c.fl = b.fl /\ c.lvs = b.lvs
  BY <1>8 DEF SameFloor
<1>11. Waiting(c, f, lvalues, saved, encodable)
  <2>1. /\ \A i \in 1..c.fr : i \in 1..a.fr
        /\ \A i \in 1..c.fl : i \in 1..a.fl
        /\ c.fr + 1 .. c.rs = b.fr + 1 .. a.fr /\ c.fl + 1 .. c.ls = b.fl + 1 .. a.fl
        /\ \A i \in b.fr + 1 .. a.fr : i \in 1..a.fr
        /\ \A i \in b.fl + 1 .. a.fl : i \in 1..a.fl
        /\ \A i \in 1..a.fr : i \in 1..a.rs
    <3>1. /\ c.fr = b.fr /\ c.fl = b.fl /\ c.rs = a.fr /\ c.ls = a.fl
          /\ b.fr <= a.fr /\ b.fl <= a.fl /\ a.fr <= a.rs
      BY <1>1, <1>2, <1>6, <1>8, <1>10
    <3> QED
      BY SMTT(60), <1>1, <3>1
  <2>2. \A i \in 1..c.fr : f[i] = c.res[i]
    BY <1>5, <1>6, <1>9, <1>10, <2>1
  <2>3. \A i \in 1..c.fl : lvalues[i] = c.lvs[i]
    BY <1>5, <1>6, <1>10, <2>1
  <2>4. \A i \in b.fr + 1 .. a.fr : f[i] = a.res[i]
    BY <1>5, <1>9, <2>1
  <2>5. \A i \in b.fl + 1 .. a.fl : lvalues[i] = a.lvs[i]
    BY <1>5, <2>1
  <2>6. Apart(f, b.fr + 1 .. a.fr, lvalues, b.fl + 1 .. a.fl, saved)
    BY ZenonT(60), <1>6, <2>4, <2>5, ApartSame
  <2>7. encodable => \A i \in 1..c.rs : i \in c.pend \/ f[i] \in HasId
    BY <1>5, <1>7, <1>9, <1>8, <2>1
  <2>8. c.rs = Len(f) /\ c.fr <= c.rs /\ c.ls = Len(lvalues) /\ c.fl <= c.ls
    BY <1>5, <1>6, <1>9, <1>8, <1>10
  <2> QED
    BY <2>1, <2>2, <2>3, <2>6, <2>7, <2>8 DEF Waiting
<1>12. Waiting(b, Append(f, r), lvalues, used', encodable')
  <2>1. SameFloor(c, b) /\ b.rs = c.rs + 1 /\ b.ls = c.ls /\ b.pend = c.pend
    BY <1>7, <1>8, <1>10 DEF SameFloor
  <2>2. r \in Free
    BY <1>1, <1>3, Named
  <2>3. r \notin saved /\ (\A q \in saved \cap Volatile : q \in used')
        /\ (r \in Volatile => r \in used')
    BY <1>4, <1>6, VolatileIs
  <2>4. encodable' => encodable /\ r \in HasId
    BY <1>3, OutputNamed
  <2> QED
    BY <1>11, <2>1, <2>2, <2>3, <2>4, WaitingMore
<1> QED
  BY <1>4, <1>9, <1>12, HoldsIs

------------------------------------------------------------------------------
(* All the tasks, one after the other: where every operand is until it is  *)
(* used.                                                                   *)

OwnedInv == NoDivision => \E a, z \in Reach : Holds(a) /\ Follows(todo, a, z) /\ z.fr = 0

LEMMA NextLeavesNothing ==
    BalanceInv' => (todo' = <<>> => results' = <<>> /\ lvalues' = <<>>)
<1>1. BalanceInv' => StatementLeavesNothing'
  BY BalancedLeavesNothing, PTL
<1> QED
  BY <1>1 DEF StatementLeavesNothing

\* A reach of nothing, over no floor.
LEMMA NothingHeld ==
    \E a \in Reach : /\ a.rs = 0 /\ a.fr = 0 /\ a.ls = 0 /\ a.fl = 0 /\ a.pend = {}
                     /\ \A S, ok : Waiting(a, <<>>, <<>>, S, ok)
<1> DEFINE a == [rs |-> 0, fr |-> 0, res |-> [i \in Nat |-> NoRegister],
                 ls |-> 0, fl |-> 0, lvs |-> [i \in Nat |-> NoRegister], pend |-> {}]
<1>1. a \in Reach
  BY DEF Reach, Register
<1>2. a.rs = 0 /\ a.fr = 0 /\ a.ls = 0 /\ a.fl = 0 /\ a.pend = {}
  OBVIOUS
<1> HIDE DEF a
<1>3. Len(<<>>) = 0 /\ 1..0 = {} /\ 0 + 1 .. 0 = {}
  BY EmptySeq
<1>4. ASSUME NEW S, NEW ok PROVE Waiting(a, <<>>, <<>>, S, ok)
  BY <1>2, <1>3, ApartNone DEF Waiting
<1> QED
  BY <1>1, <1>2, <1>4

LEMMA OwnedEmpty ==
    ASSUME BalanceInv', todo' = <<>>
    PROVE  OwnedInv'
<1>1. results' = <<>> /\ lvalues' = <<>>
  BY NextLeavesNothing
<1>2. PICK a \in Reach : a.fr = 0 /\ \A S, ok : Waiting(a, <<>>, <<>>, S, ok)
  BY NothingHeld
<1>3. Holds(a)'
  BY <1>1, <1>2, HoldsIs
<1>4. Follows(todo', a, a)
  BY FollowsNone
<1>5. Follows(todo, a, a)'
  BY <1>4 DEF Follows
<1> QED
  BY <1>2, <1>3, <1>5 DEF OwnedInv

LEMMA OwnedHead ==
    ASSUME ReservedInv, OwnedInv, NoDivision, todo # <<>>
    PROVE  \E a, b, z \in Reach :
              Holds(a) /\ Reaches(Top, a, b) /\ Follows(Rest, b, z) /\ z.fr = 0
<1>1. PICK S : todo \in Seq(S)
  BY DEF ReservedInv, AllTasks
<1>2. PICK a, z \in Reach : Holds(a) /\ Follows(todo, a, z) /\ z.fr = 0
  BY DEF OwnedInv
<1>3. PICK b \in Reach : Reaches(todo[1], a, b) /\ Follows(Tail(todo), b, z)
  BY <1>1, <1>2, FollowsFirst
<1> QED
  BY <1>2, <1>3 DEF Top, Rest

\* A piece that ends.
LEMMA OwnedEnds ==
    ASSUME ReservedInv, UndividedInv, OwnedInv, BalanceInv', todo # <<>>, todo' = Rest,
           \A a, b \in Reach : Holds(a) /\ Reaches(Top, a, b) => Holds(b)'
    PROVE  UndividedInv' /\ OwnedInv'
<1>1. UndividedInv' /\ (NoDivision' /\ todo' # <<>> => NoDivision)
  BY DivisionEnds
<1>2. ASSUME NoDivision', todo' # <<>> PROVE OwnedInv'
  <2>1. NoDivision
    BY <1>1, <1>2
  <2>2. PICK a, b, z \in Reach :
           Holds(a) /\ Reaches(Top, a, b) /\ Follows(Rest, b, z) /\ z.fr = 0
    BY <2>1, OwnedHead
  <2>3. Holds(b)'
    BY <2>2
  <2>4. Follows(todo', b, z)
    BY <2>2
  <2>5. Follows(todo, b, z)'
    BY <2>4 DEF Follows
  <2> QED
    BY <2>2, <2>3, <2>5 DEF OwnedInv
<1>3. ASSUME ~NoDivision' PROVE OwnedInv'
  BY <1>3 DEF OwnedInv
<1> QED
  BY <1>1, <1>2, <1>3, OwnedEmpty

\* A piece that others replace, the last of them with its expression.
LEMMA OwnedFollows ==
    ASSUME ReservedInv, UndividedInv, OwnedInv, todo # <<>>,
           NEW tasks, IsSeq(tasks), Len(tasks) >= 1,
           todo' = tasks \o Rest, tasks[Len(tasks)].e = Top.e,
           ~Divides[Top.e] => AllUndivided(tasks),
           ~Divides[Top.e] => \A a, b \in Reach :
              Holds(a) /\ Reaches(Top, a, b) => \E c \in Reach : Holds(c)' /\ Follows(tasks, c, b)
    PROVE  UndividedInv' /\ OwnedInv'
<1>1. UndividedInv' /\ (NoDivision' => NoDivision /\ ~Divides[Top.e])
  BY DivisionFollows
<1>2. ASSUME NoDivision' PROVE OwnedInv'
  <2>1. NoDivision /\ ~Divides[Top.e]
    BY <1>1, <1>2
  <2>2. PICK a, b, z \in Reach :
           Holds(a) /\ Reaches(Top, a, b) /\ Follows(Rest, b, z) /\ z.fr = 0
    BY <2>1, OwnedHead
  <2>3. PICK c \in Reach : Holds(c)' /\ Follows(tasks, c, b)
    BY <2>1, <2>2
  <2>4. IsSeq(Rest)
    BY FirstTask DEF ReservedInv, AllTasks, IsSeq
  <2>5. Follows(todo', c, z)
    BY <2>2, <2>3, <2>4, FollowsThen
  <2>6. Follows(todo, c, z)'
    BY <2>5 DEF Follows
  <2> QED
    BY <2>2, <2>3, <2>6 DEF OwnedInv
<1> QED
  BY <1>1, <1>2 DEF OwnedInv

\* Every piece that ends.
LEMMA EndsOwned ==
    ASSUME ReservedInv, UndividedInv, OwnedInv, BalanceInv',
           \/ CompileLeaf \/ CompileIntCasted \/ Cast \/ Scale \/ Load
           \/ EndBinary \/ AddOffset \/ EndStatement \/ EndCompare
           \/ LValueOfVariable \/ EndLValue \/ EndAssignment \/ EndAddressOf \/ EndCall
    PROVE  UndividedInv' /\ OwnedInv'
<1>1. todo # <<>> /\ todo' = Rest
  BY DEF CompileLeaf, CompileIntCasted, Cast, Scale, Load, EndBinary, AddOffset, EndStatement,
     EndCompare, LValueOfVariable, EndLValue, EndAssignment, EndAddressOf, EndCall, Runs
<1>2. ASSUME NEW a \in Reach, NEW b \in Reach, Holds(a), Reaches(Top, a, b)
      PROVE  Holds(b)'
  <2>1. CASE CompileLeaf \/ CompileIntCasted
    BY <1>2, <2>1, LeavesHold
  <2>2. CASE Cast \/ Scale \/ Load
    BY <1>2, <2>2, InPlaceHold
  <2>3. CASE EndBinary \/ AddOffset
    BY <1>2, <2>3, PairsHold
  <2>4. CASE EndStatement \/ EndCompare
    BY <1>2, <2>4, StatementsHold
  <2>5. CASE LValueOfVariable \/ EndLValue
    BY <1>2, <2>5, PlacesHold
  <2>6. CASE EndAssignment \/ EndAddressOf
    BY <1>2, <2>6, StoresHold
  <2>7. CASE EndCall
    BY <1>2, <2>7, CallHolds
  <2> QED
    BY <2>1, <2>2, <2>3, <2>4, <2>5, <2>6, <2>7
<1> QED
  BY <1>1, <1>2, OwnedEnds

------------------------------------------------------------------------------
(* Pieces that others replace.                                             *)

\* A value more, over the same floor.
LEMMA ValueReaches ==
    ASSUME NEW t, t.op \in {"value", "casted"}, NEW a \in Reach, NEW b \in Reach
    PROVE  Reaches(t, a, b) <=> /\ a.rs >= a.fr /\ a.ls >= a.fl /\ a.pend \subseteq 1..a.rs
                                /\ b.rs = a.rs + 1 /\ b.ls = a.ls /\ b.pend = a.pend
                                /\ SameFloor(a, b)
<1>1. /\ Takes(t) = 0 /\ Gives(t) = 1 /\ TakesOperand(t) = 0 /\ GivesOperand(t) = 0
      /\ t.op # "call" /\ t.op # "lea"
  BY DEF Takes, Gives, TakesOperand, GivesOperand
<1>2. a.rs \in Nat /\ a.fr \in Nat /\ a.ls \in Nat /\ a.fl \in Nat
  BY ReachIs
<1>3. \A i \in a.rs - 0 + 1 .. a.rs : i \notin a.pend
  BY <1>2
<1> QED
  BY <1>1, <1>2, <1>3 DEF Reaches

\* In the register of the last result.
LEMMA InPlaceReaches ==
    ASSUME NEW t, t.op \in {"cast", "scale", "load"}, NEW a \in Reach, a.rs >= a.fr + 1,
           a.ls >= a.fl, a.pend \subseteq 1..a.rs, a.rs \notin a.pend
    PROVE  Reaches(t, a, a)
<1>1. /\ Takes(t) = 1 /\ Gives(t) = 1 /\ TakesOperand(t) = 0 /\ GivesOperand(t) = 0
      /\ t.op # "call" /\ t.op # "lea"
  BY DEF Takes, Gives, TakesOperand, GivesOperand
<1>2. a.rs \in Nat /\ a.fr \in Nat /\ a.ls \in Nat /\ a.fl \in Nat
  BY ReachIs
<1>3. \A i \in a.rs - 1 + 1 .. a.rs : i \notin a.pend
  BY <1>2
<1> QED
  BY <1>1, <1>2, <1>3 DEF Reaches, SameFloor

\* Two results become one.
LEMMA PairReaches ==
    ASSUME NEW t, t.op \in {"binary", "add_offset"}, NEW a \in Reach, NEW b \in Reach,
           a.rs = b.rs + 1, a.ls = b.ls, b.rs >= b.fr + 1, b.ls >= b.fl,
           SameFloor(b, a), a.pend = b.pend, b.pend \subseteq 1..b.rs, b.rs \notin b.pend
    PROVE  Reaches(t, a, b)
<1>1. /\ Takes(t) = 2 /\ Gives(t) = 1 /\ TakesOperand(t) = 0 /\ GivesOperand(t) = 0
      /\ t.op # "call" /\ t.op # "lea"
  BY DEF Takes, Gives, TakesOperand, GivesOperand
<1>2. b.rs \in Nat /\ b.fr \in Nat /\ b.ls \in Nat /\ b.fl \in Nat
  BY ReachIs
<1>3. \A i \in a.rs - 2 + 1 .. a.rs : i = b.rs \/ i = b.rs + 1
  BY <1>2
<1>4. b.rs + 1 \notin b.pend
  BY <1>2
<1>5. a.pend \subseteq 1..a.rs
  BY <1>2
<1>6. SameFloor(a, b)
  BY DEF SameFloor
<1>7. a.rs >= a.fr + 2 /\ a.ls >= a.fl
  BY <1>2 DEF SameFloor
<1>8. b.rs = a.rs - 2 + 1 /\ b.ls = a.ls - 0 + 0 /\ a.ls >= a.fl + 0
  BY <1>2, <1>7, ReachIs
<1>9. \A i \in a.rs - 2 + 1 .. a.rs : i \notin a.pend
  BY <1>3, <1>4
<1> QED
  BY <1>1, <1>5, <1>6, <1>7, <1>8, <1>9 DEF Reaches

\* What a value's piece starts from, and a reach of one result more.
LEMMA ValueStarts ==
    ASSUME NEW a \in Reach, NEW b \in Reach, Reaches(Top, a, b), Top.op \in {"value", "casted"}
    PROVE  /\ a.rs \in Nat /\ a.fr \in Nat /\ a.ls \in Nat /\ a.fl \in Nat
           /\ a.rs >= a.fr /\ a.ls >= a.fl /\ a.pend \subseteq 1..a.rs
           /\ b.rs = a.rs + 1 /\ b.ls = a.ls /\ b.pend = a.pend /\ SameFloor(a, b)
           /\ b.fr = a.fr /\ b.fl = a.fl
           /\ b.rs >= b.fr + 1 /\ b.ls >= b.fl /\ b.pend \subseteq 1..b.rs /\ b.rs \notin b.pend
           /\ \E c \in Reach : /\ c.rs = b.rs + 1 /\ c.ls = b.ls /\ c.pend = b.pend
                               /\ SameFloor(b, c) /\ c.fr = b.fr /\ c.fl = b.fl
<1>1. a.rs \in Nat /\ a.fr \in Nat /\ a.ls \in Nat /\ a.fl \in Nat
  BY ReachIs
<1>2. /\ a.rs >= a.fr /\ a.ls >= a.fl /\ a.pend \subseteq 1..a.rs
      /\ b.rs = a.rs + 1 /\ b.ls = a.ls /\ b.pend = a.pend /\ SameFloor(a, b)
  BY ValueReaches
<1>3. b.fr = a.fr /\ b.fl = a.fl
  BY <1>2 DEF SameFloor
<1>4. /\ b.rs >= b.fr + 1 /\ b.ls >= b.fl /\ b.pend \subseteq 1..b.rs /\ b.rs \notin b.pend
  BY <1>1, <1>2, <1>3
<1>5. PICK n \in Nat, m \in Nat : n = b.rs + 1 /\ m = b.ls
  BY <1>1, <1>2
<1>6. \E c \in Reach : c.rs = n /\ c.ls = m /\ c.pend = b.pend /\ SameFloor(b, c)
  BY ReachAt
<1> QED
  BY <1>1, <1>2, <1>3, <1>4, <1>5, <1>6 DEF SameFloor

\* Nothing that is held has changed.
LEMMA SameHolds ==
    ASSUME UNCHANGED <<results, lvalues, used, encodable>>, NEW a, Holds(a)
    PROVE  Holds(a)'
BY DEF Holds, Waiting, Apart

LEMMA TasksOwned ==
    ASSUME ReservedInv, UndividedInv, OwnedInv, todo # <<>>,
           UNCHANGED <<results, lvalues, used, encodable>>,
           NEW tasks, IsSeq(tasks), Len(tasks) >= 1,
           todo' = tasks \o Rest, tasks[Len(tasks)].e = Top.e,
           ~Divides[Top.e] => AllUndivided(tasks),
           \A a, b \in Reach : Reaches(Top, a, b) => Follows(tasks, a, b)
    PROVE  UndividedInv' /\ OwnedInv'
<1>1. ASSUME NEW a \in Reach, NEW b \in Reach, Holds(a), Reaches(Top, a, b)
      PROVE  \E c \in Reach : Holds(c)' /\ Follows(tasks, c, b)
  BY <1>1, SameHolds
<1> QED
  BY <1>1, OwnedFollows

LEMMA CastedOwned ==
    ASSUME ReservedInv, UndividedInv, OwnedInv, CompileCasted
    PROVE  UndividedInv' /\ OwnedInv'
<1> DEFINE cast == [op |-> "cast", path |-> Top.path, e |-> Top.e, to |-> Top.to]
           value == Compile(Top.path, Top.e, Top.m)
<1>1. /\ todo # <<>> /\ Top.op = "casted" /\ todo' = <<value, cast>> \o Rest
      /\ UNCHANGED <<results, lvalues, used, encodable>>
  BY DEF CompileCasted, Runs
<1>2. value.op = "value" /\ cast.op = "cast" /\ value.e = Top.e /\ cast.e = Top.e
  BY DEF Compile
<1> HIDE DEF cast, value
<1>3. ASSUME NEW a \in Reach, NEW b \in Reach, Reaches(Top, a, b)
      PROVE  Follows(<<value, cast>>, a, b)
  <2>1. Reaches(value, a, b)
    BY <1>1, <1>2, <1>3, ValueReaches
  <2>2. Reaches(cast, b, b)
    BY SMTT(60), <1>1, <1>2, <1>3, ValueStarts, InPlaceReaches
  <2> QED
    BY <2>1, <2>2, FollowsTwo
<1>4. PICK tasks : tasks = <<value, cast>>
  OBVIOUS
<1>5. IsSeq(tasks) /\ Len(tasks) = 2 /\ tasks[2] = cast
  BY <1>4, ListsAreSeqs
<1>6. ~Divides[Top.e] => AllUndivided(tasks)
  BY <1>2, <1>4, UndividedLists DEF Undivided
<1>7. Len(tasks) >= 1 /\ tasks[Len(tasks)].e = Top.e
  BY <1>2, <1>5
<1>8. \A a, b \in Reach : Reaches(Top, a, b) => Follows(tasks, a, b)
  BY <1>3, <1>4
<1>9. todo' = tasks \o Rest
  BY <1>1, <1>4
<1> QED
  BY <1>1, <1>5, <1>6, <1>7, <1>8, <1>9, TasksOwned

\* Both operands of a binary operation: two results more.
LEMMA OperandsReach ==
    ASSUME NEW e, NEW path, NEW l, NEW r, NEW a \in Reach, NEW b \in Reach, NEW c \in Reach,
           a.rs >= a.fr, a.ls >= a.fl, a.pend \subseteq 1..a.rs,
           b.rs = a.rs + 1, b.ls = a.ls, b.pend = a.pend, SameFloor(a, b),
           c.rs = b.rs + 1, c.ls = b.ls, c.pend = b.pend, SameFloor(b, c)
    PROVE  Follows(Operands(path, e, l, r), a, c)
<1>1. \A x, m, p, to : Casted(p, x, m, to).op = "casted"
  BY DEF Casted
<1>2. PICK t, u : t.op = "casted" /\ u.op = "casted" /\ Operands(path, e, l, r) = <<t, u>>
  BY <1>1 DEF Operands
<1>3. a.rs \in Nat /\ a.fr \in Nat /\ a.ls \in Nat /\ a.fl \in Nat
  BY ReachIs
<1>4. b.rs >= b.fr /\ b.ls >= b.fl /\ b.pend \subseteq 1..b.rs
  BY <1>3 DEF SameFloor
<1>5. Reaches(t, a, b)
  BY <1>2, ValueReaches
<1>6. Reaches(u, b, c)
  BY <1>2, <1>4, ValueReaches
<1> QED
  BY <1>2, <1>5, <1>6, FollowsTwo

LEMMA OperandsUndivided ==
    ASSUME NEW e \in Expr, e.kind \in {"plus", "equals", "over"}, ~Divides[e],
           NEW path, NEW l, NEW r
    PROVE  AllUndivided(Operands(path, e, l, r))
<1>1. ~Divides[e.kids[1]] /\ ~Divides[e.kids[2]]
  <2>1. DOMAIN e.kids = 1..2
    BY ExprAssumption DEF ArityOK
  <2>2. 1 \in DOMAIN e.kids /\ 2 \in DOMAIN e.kids
    BY <2>1
  <2> QED
    BY <2>2, KidsUndivided
<1>2. \A p, m, to : Undivided(Casted(p, e.kids[1], m, to)) /\ Undivided(Casted(p, e.kids[2], m, to))
  BY <1>1 DEF Casted, Undivided
<1> QED
  BY <1>2, UndividedLists DEF Operands

LEMMA BinaryOwned ==
    ASSUME ReservedInv, UndividedInv, OwnedInv, CompileBinary
    PROVE  UndividedInv' /\ OwnedInv'
<1> DEFINE rest == [op |-> "binary", path |-> Top.path, e |-> Top.e, m |-> Top.m]
           operands == Operands(Top.path, Top.e, Top.m, RhsMask(Top.m))
<1>1. /\ todo # <<>> /\ Top.op = "value" /\ todo' = operands \o <<rest>> \o Rest
      /\ UNCHANGED <<results, lvalues, used, encodable>>
      /\ Top.e.kind \in {"plus", "equals"}
  BY DEF CompileBinary, Runs
<1>2. rest.op = "binary" /\ rest.e = Top.e
  OBVIOUS
<1>3. IsSeq(operands)
  BY OperandsAreSeqs
<1>4. Top.e \in Expr
  BY <1>1, FirstTask DEF ReservedInv, TaskOK
<1> HIDE DEF rest
<1>5. ASSUME NEW a \in Reach, NEW b \in Reach, Reaches(Top, a, b)
      PROVE  Follows(operands \o <<rest>>, a, b)
  <2>1. PICK c \in Reach : /\ c.rs = b.rs + 1 /\ c.ls = b.ls /\ c.pend = b.pend
                           /\ SameFloor(b, c) /\ c.fr = b.fr /\ c.fl = b.fl
    BY <1>1, <1>5, ValueStarts
  <2>2. Follows(operands, a, c)
    BY <1>1, <1>5, <2>1, ValueStarts, OperandsReach
  <2>3. Reaches(rest, c, b)
    BY <1>1, <1>2, <1>5, <2>1, ValueStarts, PairReaches
  <2>4. Follows(<<rest>>, c, b)
    BY <2>3, FollowsOne
  <2> HIDE DEF operands
  <2> QED
    BY <1>3, <2>2, <2>4, ListsAreSeqs, FollowsThen
<1>6. ~Divides[Top.e] => AllUndivided(operands) /\ Undivided(rest)
  BY <1>1, <1>2, <1>4, OperandsUndivided DEF Undivided
<1> HIDE DEF operands
<1>7. PICK tasks : tasks = operands \o <<rest>>
  OBVIOUS
<1>8. /\ IsSeq(tasks) /\ Len(tasks) >= 1 /\ tasks[Len(tasks)] = rest
      /\ AllUndivided(operands) /\ Undivided(rest) => AllUndivided(tasks)
  BY <1>3, <1>7, LastTask
<1> QED
  BY <1>1, <1>2, <1>5, <1>6, <1>7, <1>8, TasksOwned

\* The address of an element, or the value of a pointer: one result more.
LEMMA AddressReaches ==
    ASSUME NEW e \in Expr, e.kind \in {"subscript", "dereference"}, NEW path, NEW m,
           NEW address,
           address = IF e.kind = "subscript" THEN Offset(path, e, m)
                     ELSE <<Compile(Kid(path, 1), e.kids[1], m)>>,
           NEW a \in Reach, NEW b \in Reach, NEW c \in Reach,
           a.rs >= a.fr, a.ls >= a.fl, a.pend \subseteq 1..a.rs,
           b.rs = a.rs + 1, b.ls = a.ls, b.pend = a.pend, SameFloor(a, b),
           c.rs = b.rs + 1, c.ls = b.ls, c.pend = b.pend, SameFloor(b, c)
    PROVE  /\ IsSeq(address) /\ Follows(address, a, b)
           /\ ~Divides[e] => AllUndivided(address)
<1>1. a.rs \in Nat /\ a.fr \in Nat /\ a.ls \in Nat /\ a.fl \in Nat
  BY ReachIs
<1>2. /\ b.rs >= b.fr + 1 /\ b.rs >= b.fr /\ b.ls >= b.fl
      /\ b.pend \subseteq 1..b.rs /\ b.rs \notin b.pend
  BY <1>1 DEF SameFloor
<1>3. /\ \A p, x, n, to : /\ Casted(p, x, n, to).op = "casted" /\ Casted(p, x, n, to).e = x
                          /\ Compile(p, x, n).op = "value" /\ Compile(p, x, n).e = x
      /\ \A op, p : Remainder(op, p, e).op = op /\ Remainder(op, p, e).e = e
  BY DEF Casted, Compile, Remainder
<1>4. CASE e.kind = "subscript"
  <2>1. PICK t, u, v, w :
          /\ t.op = "casted" /\ u.op = "scale" /\ v.op = "value" /\ w.op = "add_offset"
          /\ t.e = e.kids[2] /\ u.e = e /\ v.e = e.kids[1] /\ w.e = e
          /\ address = <<t, u, v, w>>
    BY <1>3, <1>4 DEF Offset
  <2>2. Reaches(t, a, b)
    BY <2>1, ValueReaches
  <2>3. Reaches(u, b, b)
    BY <1>2, <2>1, InPlaceReaches
  <2>4. Reaches(v, b, c)
    BY <1>2, <2>1, ValueReaches
  <2>5. Reaches(w, c, b)
    BY <1>2, <2>1, PairReaches
  <2>6. Follows(address, a, b) /\ IsSeq(address)
    BY <2>1, <2>2, <2>3, <2>4, <2>5, FollowsFour, ListsAreSeqs
  <2>7. ASSUME ~Divides[e] PROVE AllUndivided(address)
    <3>1. DOMAIN e.kids = 1..2
      BY <1>4, ExprAssumption DEF ArityOK
    <3>2. 1 \in DOMAIN e.kids /\ 2 \in DOMAIN e.kids
      BY <3>1
    <3>3. ~Divides[e.kids[1]] /\ ~Divides[e.kids[2]]
      BY <2>7, <3>2, KidsUndivided
    <3> QED
      BY <2>1, <2>7, <3>3, UndividedLists DEF Undivided
  <2> QED
    BY <2>6, <2>7
<1>5. CASE e.kind = "dereference"
  <2>1. PICK t : t.op = "value" /\ t.e = e.kids[1] /\ address = <<t>>
    BY <1>3, <1>5
  <2>2. Reaches(t, a, b)
    BY <2>1, ValueReaches
  <2>3. Follows(address, a, b) /\ IsSeq(address)
    BY <2>1, <2>2, FollowsOne, ListsAreSeqs
  <2>4. ASSUME ~Divides[e] PROVE AllUndivided(address)
    <3>1. DOMAIN e.kids = 1..1
      BY <1>5, ExprAssumption DEF ArityOK
    <3>2. 1 \in DOMAIN e.kids
      BY <3>1
    <3>3. ~Divides[e.kids[1]]
      BY <2>4, <3>2, KidsUndivided
    <3> QED
      BY <2>1, <3>3, UndividedLists DEF Undivided
  <2> QED
    BY <2>3, <2>4
<1> QED
  BY <1>4, <1>5

LEMMA LoadOwned ==
    ASSUME ReservedInv, UndividedInv, OwnedInv, CompileLoad
    PROVE  UndividedInv' /\ OwnedInv'
<1> PICK address, rest :
      /\ address = IF Top.e.kind = "subscript" THEN Offset(Top.path, Top.e, Top.m)
                   ELSE <<Compile(Kid(Top.path, 1), Top.e.kids[1], Top.m)>>
      /\ rest = Remainder("load", Top.path, Top.e)
  OBVIOUS
<1>1. /\ todo # <<>> /\ Top.op = "value" /\ todo' = address \o <<rest>> \o Rest
      /\ UNCHANGED <<results, lvalues, used, encodable>>
      /\ Top.e.kind \in {"subscript", "dereference"}
  BY DEF CompileLoad, Runs
<1>2. rest.op = "load" /\ rest.e = Top.e
  BY DEF Remainder
<1>3. Top.e \in Expr
  BY <1>1, FirstTask DEF ReservedInv, TaskOK
<1>4. ASSUME NEW a \in Reach, NEW b \in Reach, Reaches(Top, a, b)
      PROVE  Follows(address \o <<rest>>, a, b)
  <2>1. PICK c \in Reach : /\ c.rs = b.rs + 1 /\ c.ls = b.ls /\ c.pend = b.pend
                           /\ SameFloor(b, c) /\ c.fr = b.fr /\ c.fl = b.fl
    BY <1>1, <1>4, ValueStarts
  <2>2. /\ a.rs >= a.fr /\ a.ls >= a.fl /\ a.pend \subseteq 1..a.rs
        /\ b.rs = a.rs + 1 /\ b.ls = a.ls /\ b.pend = a.pend /\ SameFloor(a, b)
    BY <1>1, <1>4, ValueStarts
  <2>3. PICK path, e, m : path = Top.path /\ e = Top.e /\ m = Top.m
    OBVIOUS
  <2>4. IsSeq(address) /\ Follows(address, a, b)
    BY <1>1, <1>3, <2>1, <2>2, <2>3, AddressReaches
  <2>5. Reaches(rest, b, b)
    BY <1>1, <1>2, <1>4, ValueStarts, InPlaceReaches
  <2> QED
    BY <2>4, <2>5, FollowsOne, ListsAreSeqs, FollowsThen
<1>5. IsSeq(address) /\ (~Divides[Top.e] => AllUndivided(address))
  <2>1. PICK a \in Reach : a.rs = 0 /\ a.fr = 0 /\ a.ls = 0 /\ a.fl = 0 /\ a.pend = {}
    BY NothingHeld
  <2>2. PICK b \in Reach : b.rs = 1 /\ b.ls = 0 /\ b.pend = a.pend /\ SameFloor(a, b)
    BY ReachAt
  <2>3. PICK c \in Reach : c.rs = 2 /\ c.ls = 0 /\ c.pend = b.pend /\ SameFloor(b, c)
    BY ReachAt
  <2>4. PICK path, e, m : path = Top.path /\ e = Top.e /\ m = Top.m
    OBVIOUS
  <2>5. /\ a.rs >= a.fr /\ a.ls >= a.fl /\ a.pend \subseteq 1..a.rs
        /\ b.rs = a.rs + 1 /\ b.ls = a.ls /\ c.rs = b.rs + 1 /\ c.ls = b.ls
    BY <2>1, <2>2, <2>3
  <2> QED
    BY <1>1, <1>3, <2>1, <2>2, <2>3, <2>4, <2>5, AddressReaches
<1>6. Undivided(rest) \/ Divides[Top.e]
  BY <1>2 DEF Undivided
<1>7. PICK tasks : tasks = address \o <<rest>>
  OBVIOUS
<1>8. /\ IsSeq(tasks) /\ Len(tasks) >= 1 /\ tasks[Len(tasks)] = rest
      /\ AllUndivided(address) /\ Undivided(rest) => AllUndivided(tasks)
  BY <1>5, <1>7, LastTask
<1>9. ~Divides[Top.e] => AllUndivided(tasks)
  BY <1>5, <1>6, <1>8
<1>10. \A a, b \in Reach : Reaches(Top, a, b) => Follows(tasks, a, b)
  BY <1>4, <1>7
<1>11. todo' = tasks \o Rest /\ tasks[Len(tasks)].e = Top.e
  BY <1>1, <1>2, <1>7, <1>8
<1> QED
  BY <1>1, <1>8, <1>9, <1>10, <1>11, TasksOwned

LEMMA InRegisterOwned ==
    ASSUME ReservedInv, UndividedInv, OwnedInv, LValueInRegister
    PROVE  UndividedInv' /\ OwnedInv'
<1> PICK address, rest :
      /\ address = IF Top.e.kind = "subscript" THEN Offset(Top.path, Top.e, Any)
                   ELSE <<Compile(Kid(Top.path, 1), Top.e.kids[1], Any)>>
      /\ rest = Remainder("operand", Top.path, Top.e)
  OBVIOUS
<1>1. /\ todo # <<>> /\ Top.op = "lvalue" /\ todo' = address \o <<rest>> \o Rest
      /\ UNCHANGED <<results, lvalues, used, encodable>>
      /\ Top.e.kind \in {"subscript", "dereference"}
  BY DEF LValueInRegister, Runs
<1>2. rest.op = "operand" /\ rest.e = Top.e
  BY DEF Remainder
<1>3. Top.e \in Expr
  BY <1>1, FirstTask DEF ReservedInv, TaskOK
<1>4. ASSUME NEW a \in Reach, NEW b \in Reach, Reaches(Top, a, b)
      PROVE  Follows(address \o <<rest>>, a, b)
  <2>1. /\ a.rs \in Nat /\ a.fr \in Nat /\ a.ls \in Nat /\ a.fl \in Nat
        /\ b.rs \in Nat /\ b.fr \in Nat /\ b.ls \in Nat /\ b.fl \in Nat
    BY ReachIs
  <2>2. /\ Takes(Top) = 0 /\ Gives(Top) = 0 /\ TakesOperand(Top) = 0 /\ GivesOperand(Top) = 1
        /\ Top.op # "call" /\ Top.op # "lea"
    BY <1>1 DEF Takes, Gives, TakesOperand, GivesOperand
  <2>3. /\ a.rs >= a.fr /\ a.ls >= a.fl /\ a.pend \subseteq 1..a.rs
        /\ b.rs = a.rs /\ b.ls = a.ls + 1 /\ b.pend = a.pend /\ SameFloor(a, b)
    BY <1>4, <2>1, <2>2 DEF Reaches
  <2>4. PICK n \in Nat, p \in Nat : n = a.rs + 1 /\ p = a.rs + 2
    BY <2>1
  <2>5. PICK c \in Reach : c.rs = n /\ c.ls = a.ls /\ c.pend = a.pend /\ SameFloor(a, c)
    BY <2>1, ReachAt
  <2>6. PICK d \in Reach : d.rs = p /\ d.ls = a.ls /\ d.pend = c.pend /\ SameFloor(c, d)
    BY <2>1, ReachAt
  <2>7. c.rs = a.rs + 1 /\ d.rs = c.rs + 1 /\ c.ls = a.ls /\ d.ls = c.ls
    BY <2>1, <2>4, <2>5, <2>6
  <2>8. PICK path, e, m : path = Top.path /\ e = Top.e /\ m = Any
    OBVIOUS
  <2>9. IsSeq(address) /\ Follows(address, a, c)
    BY <1>1, <1>3, <2>3, <2>5, <2>6, <2>7, <2>8, AddressReaches
  <2>10. Reaches(rest, c, b)
    <3>1. /\ Takes(rest) = 1 /\ Gives(rest) = 0 /\ TakesOperand(rest) = 0
          /\ GivesOperand(rest) = 1 /\ rest.op # "call" /\ rest.op # "lea"
      BY <1>2 DEF Takes, Gives, TakesOperand, GivesOperand
    <3>2. SameFloor(c, b) /\ c.fr = a.fr /\ c.fl = a.fl
      BY <2>3, <2>5 DEF SameFloor
    <3>3. /\ c.rs >= c.fr + 1 /\ b.rs = c.rs - 1 + 0 /\ c.ls >= c.fl + 0
          /\ b.ls = c.ls - 0 + 1 /\ c.pend \subseteq 1..c.rs
          /\ \A i \in c.rs - 1 + 1 .. c.rs : i \notin c.pend
      BY <2>1, <2>3, <2>5, <2>7, <3>2
    <3>4. b.pend = c.pend
      BY <2>3, <2>5
    <3> QED
      BY <3>1, <3>2, <3>3, <3>4 DEF Reaches
  <2> QED
    BY <2>9, <2>10, FollowsOne, ListsAreSeqs, FollowsThen
<1>5. PICK tasks : tasks = address \o <<rest>>
  OBVIOUS
<1>6. IsSeq(address) /\ (~Divides[Top.e] => AllUndivided(address))
  <2>1. PICK a \in Reach : a.rs = 0 /\ a.fr = 0 /\ a.ls = 0 /\ a.fl = 0 /\ a.pend = {}
    BY NothingHeld
  <2>2. PICK b \in Reach : b.rs = 1 /\ b.ls = 0 /\ b.pend = a.pend /\ SameFloor(a, b)
    BY ReachAt
  <2>3. PICK c \in Reach : c.rs = 2 /\ c.ls = 0 /\ c.pend = b.pend /\ SameFloor(b, c)
    BY ReachAt
  <2>4. PICK path, e, m : path = Top.path /\ e = Top.e /\ m = Any
    OBVIOUS
  <2>5. /\ a.rs >= a.fr /\ a.ls >= a.fl /\ a.pend \subseteq 1..a.rs
        /\ b.rs = a.rs + 1 /\ b.ls = a.ls /\ c.rs = b.rs + 1 /\ c.ls = b.ls
    BY <2>1, <2>2, <2>3
  <2> QED
    BY <1>1, <1>3, <2>1, <2>2, <2>3, <2>4, <2>5, AddressReaches
<1>7. Undivided(rest) \/ Divides[Top.e]
  BY <1>2 DEF Undivided
<1>8. /\ IsSeq(tasks) /\ Len(tasks) >= 1 /\ tasks[Len(tasks)] = rest
      /\ AllUndivided(address) /\ Undivided(rest) => AllUndivided(tasks)
  BY <1>5, <1>6, LastTask
<1>9. ~Divides[Top.e] => AllUndivided(tasks)
  BY <1>6, <1>7, <1>8
<1>10. \A a, b \in Reach : Reaches(Top, a, b) => Follows(tasks, a, b)
  BY <1>4, <1>5
<1>11. todo' = tasks \o Rest /\ tasks[Len(tasks)].e = Top.e
  BY <1>1, <1>2, <1>5, <1>8
<1> QED
  BY <1>1, <1>8, <1>9, <1>10, <1>11, TasksOwned

\* An operand more, then the results and operands that are left of it.
LEMMA PlaceReaches ==
    ASSUME NEW t, t.op = "lvalue", NEW a \in Reach, NEW b \in Reach,
           a.rs >= a.fr, a.ls >= a.fl, a.pend \subseteq 1..a.rs,
           b.rs = a.rs, b.ls = a.ls + 1, b.pend = a.pend, SameFloor(a, b)
    PROVE  Reaches(t, a, b)
<1>1. /\ Takes(t) = 0 /\ Gives(t) = 0 /\ TakesOperand(t) = 0 /\ GivesOperand(t) = 1
      /\ t.op # "call" /\ t.op # "lea"
  BY DEF Takes, Gives, TakesOperand, GivesOperand
<1>2. a.rs \in Nat /\ a.fr \in Nat /\ a.ls \in Nat /\ a.fl \in Nat
  BY ReachIs
<1>3. /\ a.rs >= a.fr + 0 /\ b.rs = a.rs - 0 + 0 /\ a.ls >= a.fl + 0 /\ b.ls = a.ls - 0 + 1
      /\ \A i \in a.rs - 0 + 1 .. a.rs : i \notin a.pend
  BY <1>2
<1> QED
  BY <1>1, <1>3 DEF Reaches

LEMMA StoreReaches ==
    ASSUME NEW t, t.op \in {"store", "lea"}, NEW a \in Reach, NEW b \in Reach,
           a.rs = b.rs, a.ls = b.ls + 1, SameFloor(b, a), b.rs >= b.fr + 1, b.ls >= b.fl,
           a.pend \subseteq 1..a.rs,
           IF t.op = "lea" THEN a.pend = b.pend \cup {a.rs}
           ELSE a.pend = b.pend /\ a.rs \notin a.pend
    PROVE  Reaches(t, a, b)
<1>1. /\ Takes(t) = 1 /\ Gives(t) = 1 /\ TakesOperand(t) = 1 /\ GivesOperand(t) = 0
      /\ t.op # "call"
  BY DEF Takes, Gives, TakesOperand, GivesOperand
<1>2. b.rs \in Nat /\ b.fr \in Nat /\ b.ls \in Nat /\ b.fl \in Nat
  BY ReachIs
<1>3. SameFloor(a, b) /\ a.fr = b.fr /\ a.fl = b.fl
  BY DEF SameFloor
<1>4. /\ a.rs >= a.fr + 1 /\ b.rs = a.rs - 1 + 1 /\ a.ls >= a.fl + 1 /\ b.ls = a.ls - 1 + 0
      /\ \A i \in a.rs - 1 + 1 .. a.rs : i = a.rs
  BY <1>2, <1>3
<1> QED
  BY <1>1, <1>3, <1>4 DEF Reaches

LEMMA AssignmentOwned ==
    ASSUME ReservedInv, UndividedInv, OwnedInv, CompileAssignment
    PROVE  UndividedInv' /\ OwnedInv'
<1>0. PICK place, value, rest :
      /\ place = LValue(Kid(Top.path, 1), Top.e.kids[1])
      /\ value = Casted(Kid(Top.path, 2), Top.e.kids[2], Top.m, Top.e.size)
      /\ rest = Remainder("store", Top.path, Top.e)
  OBVIOUS
<1>1. /\ todo # <<>> /\ Top.op = "value" /\ todo' = <<place, value, rest>> \o Rest
      /\ UNCHANGED <<results, lvalues, used, encodable>>
      /\ Top.e.kind = "assign"
  BY <1>0 DEF CompileAssignment, Runs
<1>2. /\ place.op = "lvalue" /\ place.e = Top.e.kids[1]
      /\ value.op = "casted" /\ value.e = Top.e.kids[2] /\ rest.op = "store" /\ rest.e = Top.e
  BY <1>0 DEF LValue, Casted, Remainder
<1>3. Top.e \in Expr
  BY <1>1, FirstTask DEF ReservedInv, TaskOK
<1>4. ASSUME NEW a \in Reach, NEW b \in Reach, Reaches(Top, a, b)
      PROVE  Follows(<<place, value, rest>>, a, b)
  <2>1. /\ a.rs \in Nat /\ a.fr \in Nat /\ a.ls \in Nat /\ a.fl \in Nat
        /\ a.rs >= a.fr /\ a.ls >= a.fl /\ a.pend \subseteq 1..a.rs
        /\ b.rs = a.rs + 1 /\ b.ls = a.ls /\ b.pend = a.pend /\ SameFloor(a, b)
        /\ b.fr = a.fr /\ b.fl = a.fl /\ b.pend \subseteq 1..b.rs /\ b.rs \notin b.pend
    BY <1>1, <1>4, ValueStarts
  <2>2. PICK k \in Nat, p \in Nat, q \in Nat : k = a.rs /\ p = a.rs + 1 /\ q = a.ls + 1
    BY <2>1
  <2>3. PICK c \in Reach : c.rs = k /\ c.ls = q /\ c.pend = a.pend /\ SameFloor(a, c)
    BY ReachAt
  <2>4. PICK d \in Reach : d.rs = p /\ d.ls = q /\ d.pend = c.pend /\ SameFloor(c, d)
    BY ReachAt
  <2>5. c.fr = a.fr /\ c.fl = a.fl /\ SameFloor(b, d)
    BY <2>1, <2>3, <2>4 DEF SameFloor
  <2>6. Reaches(place, a, c)
    BY <1>2, <2>1, <2>2, <2>3, PlaceReaches
  <2>7. Reaches(value, c, d)
    <3>1. c.rs >= c.fr /\ c.ls >= c.fl /\ c.pend \subseteq 1..c.rs /\ d.rs = c.rs + 1 /\ d.ls = c.ls
      BY <2>1, <2>2, <2>3, <2>4, <2>5
    <3> QED
      BY <1>2, <2>4, <3>1, ValueReaches
  <2>8. Reaches(rest, d, b)
    <3>1. /\ d.rs = b.rs /\ d.ls = b.ls + 1 /\ b.rs >= b.fr + 1 /\ b.ls >= b.fl
          /\ d.pend \subseteq 1..d.rs /\ d.pend = b.pend /\ d.rs \notin d.pend
      BY <2>1, <2>2, <2>3, <2>4
    <3>2. rest.op # "lea"
      BY <1>2
    <3> QED
      BY <1>2, <2>5, <3>1, <3>2, StoreReaches
  <2> QED
    BY <2>6, <2>7, <2>8, FollowsThree
<1>5. PICK tasks : tasks = <<place, value, rest>>
  OBVIOUS
<1>6. IsSeq(tasks) /\ Len(tasks) = 3 /\ tasks[3] = rest
  BY <1>5, ListsAreSeqs
<1>7. ASSUME ~Divides[Top.e] PROVE AllUndivided(tasks)
  <2>1. DOMAIN Top.e.kids = 1..2
    BY <1>1, <1>3, ExprAssumption DEF ArityOK
  <2>2. 1 \in DOMAIN Top.e.kids /\ 2 \in DOMAIN Top.e.kids
    BY <2>1
  <2>3. ~Divides[Top.e.kids[1]] /\ ~Divides[Top.e.kids[2]]
    BY <1>3, <1>7, <2>2, KidsUndivided
  <2> QED
    BY <1>2, <1>5, <1>7, <2>3, UndividedLists DEF Undivided
<1>8. Len(tasks) >= 1 /\ tasks[Len(tasks)].e = Top.e
  BY <1>2, <1>6
<1>9. \A a, b \in Reach : Reaches(Top, a, b) => Follows(tasks, a, b)
  BY <1>4, <1>5
<1>10. todo' = tasks \o Rest
  BY <1>1, <1>5
<1> QED
  BY <1>1, <1>6, <1>7, <1>8, <1>9, <1>10, TasksOwned

\* The register of an address_of is taken before its operand is computed.
LEMMA AddressOfOwned ==
    ASSUME ReservedInv, UndividedInv, OwnedInv, CompileAddressOf
    PROVE  UndividedInv' /\ OwnedInv'
<1>0. PICK r, place, rest :
      /\ r = Available(Top.m)
      /\ place = LValue(Kid(Top.path, 1), Top.e.kids[1])
      /\ rest = Remainder("lea", Top.path, Top.e)
  OBVIOUS
<1>1. /\ todo # <<>> /\ Top.op = "value" /\ todo' = <<place, rest>> \o Rest
      /\ used' = Marked(r) /\ results' = Append(results, r)
      /\ UNCHANGED <<lvalues, encodable>>
      /\ Top.e.kind = "address_of"
  BY <1>0 DEF CompileAddressOf, Runs
<1>2. /\ place.op = "lvalue" /\ place.e = Top.e.kids[1] /\ rest.op = "lea" /\ rest.e = Top.e
  BY <1>0 DEF LValue, Remainder
<1>3. Top.e \in Expr
  BY <1>1, FirstTask DEF ReservedInv, TaskOK
<1>4. r \in Free /\ (r \in Volatile => r \notin used)
  BY <1>0, <1>1, AvailableIsUnused
<1>5. ASSUME NEW a \in Reach, NEW b \in Reach, Holds(a), Reaches(Top, a, b)
      PROVE  \E c \in Reach : Holds(c)' /\ Follows(<<place, rest>>, c, b)
  <2>1. /\ a.rs \in Nat /\ a.fr \in Nat /\ a.ls \in Nat /\ a.fl \in Nat
        /\ a.rs >= a.fr /\ a.ls >= a.fl /\ a.pend \subseteq 1..a.rs
        /\ b.rs = a.rs + 1 /\ b.ls = a.ls /\ b.pend = a.pend /\ SameFloor(a, b)
        /\ b.fr = a.fr /\ b.fl = a.fl /\ b.pend \subseteq 1..b.rs
    BY <1>1, <1>5, ValueStarts
  <2>2. PICK c \in Reach : /\ c.rs = a.rs + 1 /\ c.ls = a.ls /\ SameFloor(a, c)
                           /\ c.pend = a.pend \cup {a.rs + 1}
    <3> DEFINE c == [b EXCEPT !.pend = a.pend \cup {a.rs + 1}]
    <3>1. /\ c \in Reach /\ c.rs = b.rs /\ c.ls = b.ls /\ c.pend = a.pend \cup {a.rs + 1}
          /\ c.fr = b.fr /\ c.res = b.res /\ c.fl = b.fl /\ c.lvs = b.lvs
      <4>1. a.pend \cup {a.rs + 1} \in SUBSET Nat
        BY <2>1
      <4> QED
        BY <4>1 DEF Reach
    <3> HIDE DEF c
    <3> QED
      BY <2>1, <3>1 DEF SameFloor
  <2>3. Holds(c)'
    <3>1. Waiting(a, results, lvalues, used, encodable) /\ results \in Seq(Free)
      BY <1>5 DEF Holds, ReservedInv
    <3>2. /\ \A q \in used \cap Volatile : q \in used'
          /\ r \in Volatile => r \in used'
      BY <1>1, VolatileIs DEF Marked
    <3>3. /\ \A i \in 1..a.rs : i \in a.pend => i \in c.pend
          /\ a.rs + 1 \in c.pend
      BY <2>2
    <3>4. Waiting(c, Append(results, r), lvalues, used', encodable)
      BY <1>4, <2>2, <3>1, <3>2, <3>3, WaitingMore
    <3> QED
      BY <1>1, <3>4, HoldsIs
  <2>4. c.fr = a.fr /\ c.fl = a.fl /\ c.pend \subseteq 1..c.rs
    BY <2>1, <2>2 DEF SameFloor
  <2>5. PICK p \in Nat, q \in Nat : p = a.rs + 1 /\ q = a.ls + 1
    BY <2>1
  <2>6. PICK d \in Reach : d.rs = p /\ d.ls = q /\ d.pend = c.pend /\ SameFloor(c, d)
    BY ReachAt
  <2>7. Reaches(place, c, d)
    <3>1. c.rs >= c.fr /\ c.ls >= c.fl /\ d.rs = c.rs /\ d.ls = c.ls + 1
      BY <2>1, <2>2, <2>4, <2>5, <2>6
    <3> QED
      BY <1>2, <2>4, <2>6, <3>1, PlaceReaches
  <2>8. Reaches(rest, d, b)
    <3>1. /\ d.rs = b.rs /\ d.ls = b.ls + 1 /\ b.rs >= b.fr + 1 /\ b.ls >= b.fl
          /\ d.pend \subseteq 1..d.rs /\ d.pend = b.pend \cup {d.rs}
      BY <2>1, <2>2, <2>4, <2>5, <2>6
    <3>2. SameFloor(b, d)
      BY <2>1, <2>2, <2>6 DEF SameFloor
    <3> QED
      BY <1>2, <3>1, <3>2, StoreReaches
  <2> QED
    BY <2>3, <2>7, <2>8, FollowsTwo
<1>6. PICK tasks : tasks = <<place, rest>>
  OBVIOUS
<1>7. IsSeq(tasks) /\ Len(tasks) = 2 /\ tasks[2] = rest
  BY <1>6, ListsAreSeqs
<1>8. ASSUME ~Divides[Top.e] PROVE AllUndivided(tasks)
  <2>1. DOMAIN Top.e.kids = 1..1
    BY <1>1, <1>3, ExprAssumption DEF ArityOK
  <2>2. 1 \in DOMAIN Top.e.kids
    BY <2>1
  <2>3. ~Divides[Top.e.kids[1]]
    BY <1>3, <1>8, <2>2, KidsUndivided
  <2> QED
    BY <1>2, <1>6, <1>8, <2>3, UndividedLists DEF Undivided
<1>9. Len(tasks) >= 1 /\ tasks[Len(tasks)].e = Top.e
  BY <1>2, <1>7
<1>10. \A a, b \in Reach : Holds(a) /\ Reaches(Top, a, b) =>
          \E c \in Reach : Holds(c)' /\ Follows(tasks, c, b)
  BY <1>5, <1>6
<1>11. todo' = tasks \o Rest
  BY <1>1, <1>6
<1> QED
  BY <1>1, <1>7, <1>8, <1>9, <1>10, <1>11, OwnedFollows

\* The arguments of a call, in any order: as many results more.
LEMMA ArgumentsReach ==
    ASSUME NEW e \in Expr, e.kind = "call", NEW path, NEW order \in ArgumentOrders(e),
           NEW tasks,
           tasks = [i \in DOMAIN order |->
                       Casted(Kid(path, order[i]), e.kids[order[i]],
                              {ArgRegister[order[i]]}, e.params[order[i]])],
           NEW a \in Reach, a.rs >= a.fr, a.ls >= a.fl, a.pend \subseteq 1..a.rs,
           NEW c \in Reach, c.rs = a.rs + Len(e.kids), c.ls = a.ls, c.pend = a.pend,
           SameFloor(a, c)
    PROVE  /\ IsSeq(tasks) /\ Follows(tasks, a, c)
           /\ ~Divides[e] => AllUndivided(tasks)
<1> DEFINE task(i) == Casted(Kid(path, order[i]), e.kids[order[i]],
                             {ArgRegister[order[i]]}, e.params[order[i]])
<1>0. PICK n : n = Len(e.kids)
  OBVIOUS
<1>1. n \in Nat /\ order \in [1..n -> 1..n]
  BY <1>0, ArgumentsAre DEF ArgumentOrders
<1>2. Len(tasks) = n /\ IsSeq(tasks) /\ \A i \in 1..n : tasks[i] = task(i)
  <2>1. DOMAIN tasks = 1..n /\ \A i \in 1..n : tasks[i] = task(i)
    BY <1>1
  <2> DEFINE S == {task(i) : i \in 1..n}
  <2>2. tasks \in [1..n -> S]
    BY <1>1
  <2> HIDE DEF S, task
  <2>3. n \in Nat /\ DOMAIN tasks = 1..n
    BY <1>1, <2>1
  <2>4. Len(tasks) = n /\ tasks \in Seq(S)
    BY ONLY <2>2, <2>3
  <2>5. IsSeq(tasks)
    BY ONLY <2>4 DEF IsSeq
  <2> QED
    BY <2>1, <2>4, <2>5
<1>3. \A i \in 1..n : task(i).op = "casted" /\ task(i).e = e.kids[order[i]]
  BY DEF Casted
<1> HIDE DEF task
<1>4. a.rs \in Nat /\ a.fr \in Nat /\ a.ls \in Nat /\ a.fl \in Nat
  BY ReachIs
<1> DEFINE at(k) == [a EXCEPT !.rs = a.rs + k - 1]
           h == [k \in 1..n + 1 |-> at(k)]
<1>5. ASSUME NEW k \in 1..n + 1
      PROVE  /\ at(k) \in Reach /\ at(k).rs = a.rs + k - 1 /\ at(k).ls = a.ls
             /\ at(k).pend = a.pend /\ SameFloor(a, at(k))
             /\ at(k).fr = a.fr /\ at(k).fl = a.fl
  <2>1. a.rs + k - 1 \in Nat
    BY <1>1, <1>4
  <2> QED
    BY <2>1 DEF Reach, SameFloor
<1>6. h \in [1..n + 1 -> Reach] /\ \A k \in 1..n + 1 : h[k] = at(k)
  BY <1>5
<1>7. at(1) = a /\ at(n + 1) = c
  <2>1. 1 \in 1..n + 1 /\ n + 1 \in 1..n + 1
    BY <1>1
  <2>2. /\ at(1) \in Reach /\ at(1).rs = a.rs /\ at(1).ls = a.ls
        /\ at(1).pend = a.pend /\ SameFloor(a, at(1))
    <3>1. a.rs + 1 - 1 = a.rs
      BY <1>4
    <3>2. /\ at(1) \in Reach /\ at(1).rs = a.rs + 1 - 1 /\ at(1).ls = a.ls
          /\ at(1).pend = a.pend /\ SameFloor(a, at(1))
      BY <1>5, <2>1
    <3> HIDE DEF at
    <3> QED
      BY <3>1, <3>2
  <2>3. /\ at(n + 1) \in Reach /\ at(n + 1).rs = a.rs + n /\ at(n + 1).ls = a.ls
        /\ at(n + 1).pend = a.pend /\ SameFloor(a, at(n + 1))
    BY <1>1, <1>4, <1>5, <2>1
  <2>4. \A x, y \in Reach : x.rs = y.rs /\ x.ls = y.ls /\ x.pend = y.pend /\ SameFloor(x, y)
                            => x = y
    <3>1. \A x \in Reach : x = [rs |-> x.rs, fr |-> x.fr, res |-> x.res, ls |-> x.ls,
                                fl |-> x.fl, lvs |-> x.lvs, pend |-> x.pend]
      BY DEF Reach
    <3>2. \A x, y : SameFloor(x, y) => /\ x.fr = y.fr /\ x.res = y.res
                                        /\ x.fl = y.fl /\ x.lvs = y.lvs
      BY DEF SameFloor
    <3> QED
      BY <3>1, <3>2
  <2>5. at(1) = a
    BY <2>2, <2>4
  <2>6. SameFloor(c, at(n + 1))
    BY <2>3 DEF SameFloor
  <2> HIDE DEF at
  <2> QED
    BY <1>0, <2>3, <2>4, <2>5, <2>6
<1> HIDE DEF h, at
<1>8. ASSUME NEW k \in 1..n
      PROVE  Reaches(tasks[k], h[k], h[k + 1])
  <2>1. k \in 1..n + 1 /\ k + 1 \in 1..n + 1
    BY <1>1
  <2>2. PICK b \in Reach, d \in Reach : b = h[k] /\ d = h[k + 1]
    BY <1>6, <2>1
  <2>3. /\ b.rs = a.rs + k - 1 /\ b.ls = a.ls /\ b.pend = a.pend /\ SameFloor(a, b)
        /\ b.fr = a.fr /\ b.fl = a.fl
    BY <1>5, <1>6, <2>1, <2>2
  <2>4. /\ d.rs = a.rs + (k + 1) - 1 /\ d.ls = a.ls /\ d.pend = a.pend /\ SameFloor(a, d)
    BY <1>5, <1>6, <2>1, <2>2
  <2>5. /\ b.rs >= b.fr /\ b.ls >= b.fl /\ b.pend \subseteq 1..b.rs
        /\ d.rs = b.rs + 1 /\ d.ls = b.ls /\ d.pend = b.pend
    <3>0. k \in Nat /\ k >= 1
      BY <1>1
    <3>1. b.rs >= a.rs /\ b.rs \in Nat /\ d.rs = b.rs + 1
      <4>1. a.rs \in Nat /\ b.rs = a.rs + k - 1 /\ d.rs = a.rs + (k + 1) - 1
        BY <1>4, <2>3, <2>4
      <4> QED
        BY ONLY <3>0, <4>1
    <3>2. 1..a.rs \subseteq 1..b.rs
      BY <1>4, <3>1
    <3> QED
      BY <1>4, <2>3, <2>4, <3>1, <3>2
  <2>6. SameFloor(b, d)
    BY <2>3, <2>4 DEF SameFloor
  <2>7. tasks[k].op = "casted"
    BY <1>2, <1>3
  <2>8. Reaches(tasks[k], b, d)
    BY <2>5, <2>6, <2>7, ValueReaches
  <2> QED
    BY <2>2, <2>8
<1>9. Follows(tasks, a, c)
  <2>1. h[1] = a /\ h[n + 1] = c
    <3>1. 1 \in 1..n + 1 /\ n + 1 \in 1..n + 1
      BY <1>1
    <3> QED
      BY <1>6, <1>7, <3>1
  <2> QED
    BY <1>2, <1>6, <1>8, <2>1 DEF Follows
<1>10. ASSUME ~Divides[e] PROVE AllUndivided(tasks)
  <2>1. DOMAIN e.kids = 1..n
    BY <1>0, ExprAssumption DEF ArityOK
  <2>2. ASSUME NEW i \in 1..n PROVE Undivided(tasks[i])
    <3>1. order[i] \in 1..n
      BY <1>1
    <3>2. ~Divides[e.kids[order[i]]]
      BY <1>10, <2>1, <3>1, KidsUndivided
    <3>3. tasks[i].op = "casted" /\ tasks[i].e = e.kids[order[i]]
      BY <1>2, <1>3
    <3> QED
      BY <3>2, <3>3 DEF Undivided
  <2> QED
    BY <1>2, <2>2 DEF AllUndivided
<1> QED
  BY <1>2, <1>9, <1>10

\* A call puts away every operand that waits above the call around it.
LEMMA CallOwned ==
    ASSUME ReservedInv, UndividedInv, OwnedInv, CompileCall
    PROVE  UndividedInv' /\ OwnedInv'
<1>0. PICK order, arguments, saved, output, call :
         /\ order \in ArgumentOrders(Top.e)
         /\ arguments = [i \in DOMAIN order |->
                        Casted(Kid(Top.path, order[i]), Top.e.kids[order[i]],
                               {ArgRegister[order[i]]}, Top.e.params[order[i]])]
         /\ saved = used \cap Volatile /\ output = Available(Top.m)
         /\ call = [op |-> "call", path |-> Top.path, e |-> Top.e,
                    output |-> output, saved |-> saved, base |-> Len(results)]
         /\ todo' = arguments \o <<call>> \o Rest
  BY DEF CompileCall, CallSaves
<1>1. /\ todo # <<>> /\ Top.op = "value" /\ Top.e.kind = "call"
      /\ used' = used \ saved /\ UNCHANGED <<results, lvalues>>
  BY <1>0 DEF CompileCall, CallSaves, Runs
<1>2. encodable' => encodable
  BY EmitsEncodable DEF CompileCall
<1>3. /\ call.op = "call" /\ call.e = Top.e /\ call.saved = saved
      /\ call.output = output /\ call.base = Len(results)
  BY <1>0
<1>4. Top.e \in Expr
  BY <1>1, FirstTask DEF ReservedInv, TaskOK
<1>5. PICK n \in Nat : n = Len(Top.e.kids)
  BY <1>1, <1>4, ArgumentsAre
<1>6. /\ saved = used \cap Volatile /\ output \notin saved
      /\ results \in Seq(Free) /\ lvalues \in Seq(Free \cup {"RBP"})
  BY <1>0, <1>1, AvailableIsUnused DEF ReservedInv
<1>7. ASSUME NEW a \in Reach, NEW b \in Reach, Holds(a), Reaches(Top, a, b)
      PROVE  \E c \in Reach : Holds(c)' /\ Follows(arguments \o <<call>>, c, b)
  <2>1. /\ a.rs \in Nat /\ a.fr \in Nat /\ a.ls \in Nat /\ a.fl \in Nat
        /\ a.rs >= a.fr /\ a.ls >= a.fl /\ a.pend \subseteq 1..a.rs
        /\ b.rs = a.rs + 1 /\ b.ls = a.ls /\ b.pend = a.pend /\ SameFloor(a, b)
    BY <1>1, <1>7, ValueStarts
  <2>2. b.fr = a.fr /\ b.res = a.res /\ b.fl = a.fl /\ b.lvs = a.lvs
    BY <2>1 DEF SameFloor
  <2>3. /\ a.rs = Len(results) /\ \A i \in 1..a.fr : results[i] = a.res[i]
        /\ a.ls = Len(lvalues) /\ \A i \in 1..a.fl : lvalues[i] = a.lvs[i]
        /\ Apart(results, a.fr + 1 .. a.rs, lvalues, a.fl + 1 .. a.ls, used)
        /\ encodable => \A i \in 1..a.rs : i \in a.pend \/ results[i] \in HasId
    BY <1>7 DEF Holds, Waiting
  \* the reach above what is put away
  <2>4. PICK c \in Reach : /\ c.rs = a.rs /\ c.fr = a.rs /\ c.ls = a.ls /\ c.fl = a.ls
                           /\ c.pend = a.pend
                           /\ \A i \in 1..a.rs : c.res[i] = results[i]
                           /\ \A i \in 1..a.ls : c.lvs[i] = lvalues[i]
    <3> DEFINE f == [i \in Nat |-> IF i \in 1..a.rs THEN results[i] ELSE NoRegister]
               g == [i \in Nat |-> IF i \in 1..a.ls THEN lvalues[i] ELSE NoRegister]
               c == [rs |-> a.rs, fr |-> a.rs, res |-> f, ls |-> a.ls, fl |-> a.ls, lvs |-> g,
                     pend |-> a.pend]
    <3>1. Free \subseteq Register /\ Free \cup {"RBP"} \subseteq Register /\ NoRegister \in Register
      BY RegistersAre DEF Free, Register
    <3>2. \A i \in 1..a.rs : results[i] \in Register
      BY <1>6, <2>3, <3>1, ElementOfSeq
    <3>3. \A i \in 1..a.ls : lvalues[i] \in Register
      BY <1>6, <2>3, <3>1, ElementOfSeq
    <3>4. f \in [Nat -> Register] /\ g \in [Nat -> Register]
      BY <3>1, <3>2, <3>3
    <3>5. (\A i \in 1..a.rs : f[i] = results[i]) /\ (\A i \in 1..a.ls : g[i] = lvalues[i])
      BY <2>1
    <3> HIDE DEF f, g
    <3>6. a.pend \in SUBSET Nat
      BY DEF Reach
    <3>7. c \in Reach
      BY <2>1, <3>4, <3>6 DEF Reach
    <3>8. /\ c.rs = a.rs /\ c.fr = a.rs /\ c.ls = a.ls /\ c.fl = a.ls /\ c.pend = a.pend
          /\ c.res = f /\ c.lvs = g
      OBVIOUS
    <3> HIDE DEF c
    <3> QED
      BY <3>5, <3>7, <3>8
  <2>5. Holds(c)'
    <3>1. c.fr + 1 .. c.rs = {} /\ c.fl + 1 .. c.ls = {}
      BY <2>1, <2>4
    <3>2. Apart(results, c.fr + 1 .. c.rs, lvalues, c.fl + 1 .. c.ls, used')
      BY <3>1, ApartNone
    <3>3. Waiting(c, results, lvalues, used', encodable')
      BY <1>2, <2>1, <2>3, <2>4, <3>2 DEF Waiting
    <3> QED
      BY <1>1, <3>3, HoldsIs
  <2>6. PICK p \in Nat, q \in Nat : p = a.rs + n /\ q = a.ls
    BY <2>1
  <2>7. PICK d \in Reach : d.rs = p /\ d.ls = q /\ d.pend = c.pend /\ SameFloor(c, d)
    BY ReachAt
  <2>8. d.fr = a.rs /\ d.res = c.res /\ d.fl = a.ls /\ d.lvs = c.lvs
    BY <2>4, <2>7 DEF SameFloor
  <2>9. IsSeq(arguments) /\ Follows(arguments, c, d)
    <3>1. /\ c.rs >= c.fr /\ c.ls >= c.fl /\ c.pend \subseteq 1..c.rs
          /\ d.rs = c.rs + n /\ d.ls = c.ls
      BY <2>1, <2>4, <2>6, <2>7
    <3>2. PICK path, e : path = Top.path /\ e = Top.e
      OBVIOUS
    <3> QED
      BY <1>0, <1>1, <1>4, <1>5, <2>7, <3>1, <3>2, ArgumentsReach
  <2>10. GivesBack(call, d, b)
    <3>1. /\ d.fr = call.base /\ d.rs = call.base + Len(call.e.kids) /\ d.fl = d.ls
      BY <1>3, <1>5, <2>3, <2>6, <2>7, <2>8
    <3>2. b.fr <= d.fr /\ \A i \in 1..b.fr : b.res[i] = d.res[i]
      <4>1. \A i \in 1..a.fr : i \in 1..a.rs
        BY <2>1
      <4> QED
        BY <2>1, <2>2, <2>3, <2>4, <2>8, <4>1
    <3>3. b.fl <= d.fl /\ \A i \in 1..b.fl : b.lvs[i] = d.lvs[i]
      <4>1. \A i \in 1..a.fl : i \in 1..a.ls
        BY <2>1
      <4> QED
        BY <2>1, <2>2, <2>3, <2>4, <2>8, <4>1
    <3>4. Apart(d.res, b.fr + 1 .. d.fr, d.lvs, b.fl + 1 .. d.fl, saved)
      <4> DEFINE I == b.fr + 1 .. d.fr
                 J == b.fl + 1 .. d.fl
      <4>1. /\ \A i \in I : d.res[i] = results[i]
            /\ \A i \in J : d.lvs[i] = lvalues[i]
        <5>1. I \subseteq 1..a.rs /\ J \subseteq 1..a.ls
          BY <2>1, <2>2, <2>8
        <5> QED
          BY <2>4, <2>8, <5>1
      <4>2. \A r \in used \cap Volatile : r \in saved
        BY <1>6
      <4>3. Apart(results, I, lvalues, J, used)
        BY <2>2, <2>3, <2>8
      <4> HIDE DEF I, J
      <4>4. Apart(d.res, I, d.lvs, J, saved)
        BY <4>1, <4>2, <4>3, ApartSame
      <4> QED
        BY <4>4 DEF I, J
    <3> QED
      BY <1>3, <1>6, <3>1, <3>2, <3>3, <3>4 DEF GivesBack
  <2>11. Reaches(call, d, b)
    <3>1. /\ Takes(call) = n /\ Gives(call) = 1 /\ TakesOperand(call) = 0
          /\ GivesOperand(call) = 0
      BY <1>3, <1>5 DEF Takes, Gives, TakesOperand, GivesOperand
    <3>2. /\ d.rs >= d.fr + n /\ b.rs = d.rs - n + 1 /\ d.ls >= d.fl + 0 /\ b.ls = d.ls - 0 + 0
      BY <2>1, <2>6, <2>7, <2>8
    <3>3. d.pend = a.pend
      BY <2>4, <2>7
    <3>4. \A i \in d.rs - n + 1 .. d.rs : i \notin d.pend
      BY <2>1, <2>6, <2>7, <3>3
    <3>5. d.pend \subseteq 1..d.rs
      BY SMTT(60), <2>1, <2>6, <2>7, <3>3
    <3> QED
      BY <1>3, <2>1, <2>10, <3>1, <3>2, <3>3, <3>4, <3>5 DEF Reaches
  <2> QED
    BY <2>5, <2>9, <2>11, FollowsOne, ListsAreSeqs, FollowsThen
<1>8. IsSeq(arguments) /\ (~Divides[Top.e] => AllUndivided(arguments))
  <2>1. PICK a \in Reach : a.rs = 0 /\ a.fr = 0 /\ a.ls = 0 /\ a.fl = 0 /\ a.pend = {}
    BY NothingHeld
  <2>2. PICK c \in Reach : c.rs = n /\ c.ls = 0 /\ c.pend = a.pend /\ SameFloor(a, c)
    BY ReachAt
  <2>3. PICK path, e : path = Top.path /\ e = Top.e
    OBVIOUS
  <2>4. a.rs >= a.fr /\ a.ls >= a.fl /\ a.pend \subseteq 1..a.rs /\ c.rs = a.rs + n /\ c.ls = a.ls
    BY <2>1, <2>2
  <2> QED
    BY <1>0, <1>1, <1>4, <1>5, <2>2, <2>3, <2>4, ArgumentsReach
<1>9. Divides[Top.e] \/ Undivided(call)
  BY <1>3 DEF Undivided
<1>10. PICK tasks : tasks = arguments \o <<call>>
  OBVIOUS
<1>11. /\ IsSeq(tasks) /\ Len(tasks) >= 1 /\ tasks[Len(tasks)] = call
       /\ AllUndivided(arguments) /\ Undivided(call) => AllUndivided(tasks)
  BY <1>8, <1>10, LastTask
<1>12. ~Divides[Top.e] => AllUndivided(tasks)
  BY <1>8, <1>9, <1>11
<1>13. \A a, b \in Reach : Holds(a) /\ Reaches(Top, a, b) =>
          \E c \in Reach : Holds(c)' /\ Follows(tasks, c, b)
  BY SMTT(60), <1>7, <1>10
<1>14. todo' = tasks \o Rest /\ tasks[Len(tasks)].e = Top.e
  BY <1>0, <1>3, <1>10, <1>11
<1> QED
  BY <1>1, <1>11, <1>12, <1>13, <1>14, OwnedFollows

\* The invariant says nothing of a division.
LEMMA OverOwned ==
    ASSUME ReservedInv, UndividedInv, OwnedInv, CompileOver
    PROVE  UndividedInv' /\ OwnedInv'
<1>0. PICK operands, over :
        /\ operands = Operands(Top.path, Top.e, {"RAX"}, RhsMask(Top.m))
        /\ over.e = Top.e /\ todo' = operands \o <<over>> \o Rest
  <2> DEFINE over == [op |-> "over", path |-> Top.path, e |-> Top.e,
                      m |-> Top.m, inRax |-> ~("RAX" \in used) /\ "RAX" \in Top.m,
                      saved |-> IF "RAX" \in used THEN {"RAX"} ELSE {},
                      base |-> Len(results)]
  <2>1. over.e = Top.e
    OBVIOUS
  <2>2. todo' = Operands(Top.path, Top.e, {"RAX"}, RhsMask(Top.m)) \o <<over>> \o Rest
    BY DEF CompileOver
  <2> HIDE DEF over
  <2> QED
    BY <2>1, <2>2
<1>1. todo # <<>> /\ Top.op = "value" /\ Top.e.kind = "over"
  BY DEF CompileOver, Runs
<1>2. Top.e \in Expr
  BY <1>1, FirstTask DEF ReservedInv, TaskOK
<1>3. Divides[Top.e]
  BY <1>1, <1>2, DivisionAssumption
<1>4. IsSeq(operands)
  BY <1>0, OperandsAreSeqs
<1>5. PICK tasks : tasks = operands \o <<over>>
  OBVIOUS
<1>6. IsSeq(tasks) /\ Len(tasks) >= 1 /\ tasks[Len(tasks)] = over
  BY <1>4, <1>5, LastTask
<1>7. todo' = tasks \o Rest
  BY <1>0, <1>5
<1> QED
  BY <1>0, <1>1, <1>3, <1>6, <1>7, OwnedFollows

LEMMA EndOverOwned ==
    ASSUME ReservedInv, UndividedInv, OwnedInv, BalanceInv', EndOver
    PROVE  UndividedInv' /\ OwnedInv'
<1>1. todo # <<>> /\ Top.op = "over" /\ todo' = Rest
  BY DEF EndOver, Runs
<1>2. ~NoDivision
  <2>1. 1 \in 1..Len(todo)
    BY <1>1, EmptySeq, LenProperties DEF ReservedInv, AllTasks
  <2>2. ~AllUndivided(todo)
    BY <1>1, <2>1 DEF AllUndivided, Undivided, Top
  <2> QED
    BY <2>2 DEF UndividedInv
<1>3. UndividedInv' /\ (NoDivision' /\ todo' # <<>> => NoDivision)
  BY <1>1, DivisionEnds
<1>4. todo' = <<>> \/ ~NoDivision'
  BY <1>2, <1>3
<1> QED
  BY <1>3, <1>4, OwnedEmpty DEF OwnedInv

\* A value and what uses it, or both operands of a comparison.
LEMMA StatementReaches ==
    ASSUME NEW t, t.op \in {"value", "casted"}, NEW end, end.op = "statement",
           NEW a \in Reach, a.rs = 0, a.fr = 0, a.ls = 0, a.fl = 0, a.pend = {}
    PROVE  Follows(<<t>> \o <<end>>, a, a)
<1>1. PICK b \in Reach : b.rs = 1 /\ b.ls = 0 /\ b.pend = a.pend /\ SameFloor(a, b)
  BY ReachAt
<1>2. Reaches(t, a, b)
  <2>1. /\ a.rs >= a.fr /\ a.ls >= a.fl /\ a.pend \subseteq 1..a.rs
        /\ b.rs = a.rs + 1 /\ b.ls = a.ls
    BY <1>1
  <2>2. b.pend = a.pend /\ SameFloor(a, b) /\ a \in Reach /\ b \in Reach
    BY <1>1
  <2>3. t.op \in {"value", "casted"}
    OBVIOUS
  <2> QED
    BY ONLY <2>1, <2>2, <2>3, ValueReaches
<1>3. /\ Takes(end) = 1 /\ Gives(end) = 0 /\ TakesOperand(end) = 0 /\ GivesOperand(end) = 0
      /\ end.op # "call" /\ end.op # "lea"
  BY DEF Takes, Gives, TakesOperand, GivesOperand
<1>4. SameFloor(b, a) /\ b.fr = 0 /\ b.fl = 0
  BY <1>1 DEF SameFloor
<1>5. Reaches(end, b, a)
  BY <1>1, <1>3, <1>4 DEF Reaches
<1> QED
  BY <1>2, <1>5, FollowsOne, ListsAreSeqs, FollowsThen

LEMMA CompareReaches ==
    ASSUME NEW e, NEW path, NEW l, NEW r, NEW end, end.op = "compare",
           NEW a \in Reach, a.rs = 0, a.fr = 0, a.ls = 0, a.fl = 0, a.pend = {}
    PROVE  Follows(Operands(path, e, l, r) \o <<end>>, a, a)
<1>1. PICK b \in Reach : b.rs = 1 /\ b.ls = 0 /\ b.pend = a.pend /\ SameFloor(a, b)
  BY ReachAt
<1>2. PICK c \in Reach : c.rs = 2 /\ c.ls = 0 /\ c.pend = b.pend /\ SameFloor(b, c)
  BY ReachAt
<1>3. PICK operands : operands = Operands(path, e, l, r)
  OBVIOUS
<1>4. IsSeq(operands) /\ Follows(operands, a, c)
  <2>1. /\ a.rs >= a.fr /\ a.ls >= a.fl /\ a.pend \subseteq 1..a.rs
        /\ b.rs = a.rs + 1 /\ b.ls = a.ls /\ c.rs = b.rs + 1 /\ c.ls = b.ls
    BY <1>1, <1>2
  <2> QED
    BY <1>1, <1>2, <1>3, <2>1, OperandsReach, OperandsAreSeqs
<1>5. /\ Takes(end) = 2 /\ Gives(end) = 0 /\ TakesOperand(end) = 0 /\ GivesOperand(end) = 0
      /\ end.op # "call" /\ end.op # "lea"
  BY DEF Takes, Gives, TakesOperand, GivesOperand
<1>6. SameFloor(c, a) /\ c.fr = 0 /\ c.fl = 0
  BY <1>1, <1>2 DEF SameFloor
<1>7. Reaches(end, c, a)
  BY <1>1, <1>2, <1>5, <1>6 DEF Reaches
<1> QED
  BY <1>3, <1>4, <1>7, FollowsOne, ListsAreSeqs, FollowsThen

LEMMA BeginOwned ==
    ASSUME BalanceInv, NEW st \in Statement, Begin(st)
    PROVE  UndividedInv' /\ OwnedInv'
<1>1. /\ todo = <<>> /\ UNCHANGED <<results, lvalues>>
      /\ results = <<>> /\ lvalues = <<>>
  BY BalancedLeavesNothing DEF Begin, StatementLeavesNothing
<1>2. PICK a \in Reach : /\ a.rs = 0 /\ a.fr = 0 /\ a.ls = 0 /\ a.fl = 0 /\ a.pend = {}
                         /\ \A S, ok : Waiting(a, <<>>, <<>>, S, ok)
  BY NothingHeld
<1>3. Holds(a)'
  BY <1>1, <1>2, HoldsIs
<1>4. st.e \in Expr
  BY ExprAssumption
<1>5. \/ \E t, end : /\ t.op \in {"value", "casted"} /\ t.e = st.e
                     /\ end.op = "statement" /\ end.e = st.e
                     /\ todo' = <<t>> \o <<end>>
      \/ \E end : /\ st.e.kind = "equals" /\ end.op = "compare" /\ end.e = st.e
                  /\ todo' = Operands(<<>>, st.e, Any, Any) \o <<end>>
  <2> DEFINE stop(need) == [op |-> "statement", path |-> <<>>, e |-> st.e, need |-> need,
                            kind |-> st.kind]
  <2>1. \A need : /\ StatementEnd(st, need) = <<stop(need)>>
                  /\ stop(need).op = "statement" /\ stop(need).e = st.e
    BY DEF StatementEnd
  <2> HIDE DEF stop
  <2>2. /\ \A p, m : Compile(p, st.e, m).op = "value" /\ Compile(p, st.e, m).e = st.e
        /\ \A p, m, to : Casted(p, st.e, m, to).op = "casted" /\ Casted(p, st.e, m, to).e = st.e
        /\ \A op, p : Remainder(op, p, st.e).op = op /\ Remainder(op, p, st.e).e = st.e
    BY DEF Compile, Casted, Remainder
  <2>3. CASE \E m, need : todo' = <<Compile(<<>>, st.e, m)>> \o StatementEnd(st, need)
    <3>1. PICK m, need : todo' = <<Compile(<<>>, st.e, m)>> \o StatementEnd(st, need)
      BY <2>3
    <3>2. PICK t, end : t = Compile(<<>>, st.e, m) /\ end = stop(need)
      OBVIOUS
    <3>3. /\ t.op = "value" /\ t.e = st.e /\ end.op = "statement" /\ end.e = st.e
          /\ todo' = <<t>> \o <<end>>
      BY <2>1, <2>2, <3>1, <3>2
    <3> QED
      BY <3>3
  <2>4. CASE \E m, to, need : todo' = <<Casted(<<>>, st.e, m, to)>> \o StatementEnd(st, need)
    <3>1. PICK m, to, need : todo' = <<Casted(<<>>, st.e, m, to)>> \o StatementEnd(st, need)
      BY <2>4
    <3>2. PICK t, end : t = Casted(<<>>, st.e, m, to) /\ end = stop(need)
      OBVIOUS
    <3>3. /\ t.op = "casted" /\ t.e = st.e /\ end.op = "statement" /\ end.e = st.e
          /\ todo' = <<t>> \o <<end>>
      BY <2>1, <2>2, <3>1, <3>2
    <3> QED
      BY <3>3
  <2>5. CASE /\ st.e.kind = "equals"
             /\ todo' = Operands(<<>>, st.e, Any, Any) \o <<Remainder("compare", <<>>, st.e)>>
    BY <2>2, <2>5
  <2>6. \/ \E m, need : todo' = <<Compile(<<>>, st.e, m)>> \o StatementEnd(st, need)
        \/ \E m, to, need : todo' = <<Casted(<<>>, st.e, m, to)>> \o StatementEnd(st, need)
        \/ /\ st.e.kind = "equals"
           /\ todo' = Operands(<<>>, st.e, Any, Any) \o <<Remainder("compare", <<>>, st.e)>>
    BY Zenon DEF Begin
  <2> QED
    BY <2>3, <2>4, <2>5, <2>6
<1>6. PICK tasks, end :
         /\ tasks = todo' /\ IsSeq(tasks) /\ Len(tasks) >= 1 /\ tasks[Len(tasks)] = end
         /\ end.e = st.e /\ Follows(tasks, a, a)
         /\ ~Divides[st.e] => AllUndivided(tasks)
  <2>1. CASE \E t, end : /\ t.op \in {"value", "casted"} /\ t.e = st.e
                         /\ end.op = "statement" /\ end.e = st.e
                         /\ todo' = <<t>> \o <<end>>
    <3>1. PICK t, end : /\ t.op \in {"value", "casted"} /\ t.e = st.e
                        /\ end.op = "statement" /\ end.e = st.e
                        /\ todo' = <<t>> \o <<end>>
      BY <2>1
    <3>2. PICK tasks : tasks = <<t>> \o <<end>>
      OBVIOUS
    <3>3. Follows(tasks, a, a)
      <4>1. t.op \in {"value", "casted"} /\ end.op = "statement"
        BY <3>1
      <4>2. /\ a \in Reach /\ a.rs = 0 /\ a.fr = 0 /\ a.ls = 0 /\ a.fl = 0
            /\ a.pend = {}
        BY <1>2
      <4>3. Follows(<<t>> \o <<end>>, a, a)
        BY ONLY <4>1, <4>2, StatementReaches
      <4> QED
        BY <3>2, <4>3
    <3>4. /\ IsSeq(<<t>>) /\ IsSeq(tasks) /\ Len(tasks) >= 1 /\ tasks[Len(tasks)] = end
          /\ AllUndivided(<<t>>) /\ Undivided(end) => AllUndivided(tasks)
      BY <3>2, ListsAreSeqs, LastTask
    <3>5. ~Divides[st.e] => AllUndivided(<<t>>) /\ Undivided(end)
      BY <3>1, UndividedLists DEF Undivided
    <3> QED
      BY <3>1, <3>2, <3>3, <3>4, <3>5
  <2>2. CASE \E end : /\ st.e.kind = "equals" /\ end.op = "compare" /\ end.e = st.e
                      /\ todo' = Operands(<<>>, st.e, Any, Any) \o <<end>>
    <3>1. PICK end, operands : /\ st.e.kind = "equals" /\ end.op = "compare" /\ end.e = st.e
                               /\ operands = Operands(<<>>, st.e, Any, Any)
                               /\ todo' = operands \o <<end>>
      BY <2>2
    <3>2. PICK tasks : tasks = operands \o <<end>>
      OBVIOUS
    <3>3. PICK path, e, m : path = <<>> /\ e = st.e /\ m = Any
      OBVIOUS
    <3>4. Follows(tasks, a, a)
      BY <1>2, <3>1, <3>2, <3>3, CompareReaches
    <3>5. IsSeq(operands) /\ (~Divides[st.e] => AllUndivided(operands))
      BY <1>4, <3>1, <3>3, OperandsAreSeqs, OperandsUndivided
    <3>6. /\ IsSeq(tasks) /\ Len(tasks) >= 1 /\ tasks[Len(tasks)] = end
          /\ AllUndivided(operands) /\ Undivided(end) => AllUndivided(tasks)
      BY <3>2, <3>5, LastTask
    <3>7. Divides[st.e] \/ Undivided(end)
      BY <3>1 DEF Undivided
    <3> QED
      BY <3>1, <3>2, <3>4, <3>5, <3>6, <3>7
  <2> QED
    BY <1>5, <2>1, <2>2
<1>7. OwnedInv'
  <2>1. Follows(todo', a, a)
    BY <1>6
  <2>2. Follows(todo, a, a)'
    BY <2>1 DEF Follows
  <2> QED
    BY <1>2, <1>3, <2>2 DEF OwnedInv
<1>8. UndividedInv'
  <2>1. Len(tasks) \in Nat /\ tasks # <<>>
    BY <1>6, LenProperties, EmptySeq DEF IsSeq
  <2>2. NoDivision' => ~Divides[st.e]
    BY <1>6, <2>1 DEF NoDivision
  <2> QED
    BY <1>6, <2>2 DEF UndividedInv, AllUndivided, Undivided
<1> QED
  BY <1>7, <1>8

LEMMA OwnedInit == Init => UndividedInv /\ OwnedInv
<1> SUFFICES ASSUME Init PROVE UndividedInv /\ OwnedInv
  OBVIOUS
<1>1. todo = <<>> /\ results = <<>> /\ lvalues = <<>>
  BY DEF Init
<1>2. PICK a \in Reach : a.fr = 0 /\ \A S, ok : Waiting(a, <<>>, <<>>, S, ok)
  BY NothingHeld
<1>3. Holds(a) /\ Follows(todo, a, a)
  BY <1>1, <1>2, FollowsNone DEF Holds
<1>4. 1..Len(todo) = {}
  BY <1>1, EmptySeq
<1> QED
  BY <1>2, <1>3, <1>4 DEF OwnedInv, UndividedInv, AllUndivided

LEMMA OwnedStep ==
    ASSUME BalanceInv, BalanceInv', UndividedInv, OwnedInv, [Next]_vars
    PROVE  UndividedInv' /\ OwnedInv'
<1>1. ReservedInv
  BY DEF BalanceInv
<1>2. CASE \E st \in Statement : Begin(st)
  BY <1>2, BeginOwned
<1>3. CASE \/ CompileLeaf \/ CompileIntCasted \/ Cast \/ Scale \/ Load
           \/ EndBinary \/ AddOffset \/ EndStatement \/ EndCompare
           \/ LValueOfVariable \/ EndLValue \/ EndAssignment \/ EndAddressOf \/ EndCall
  BY <1>1, <1>3, EndsOwned
<1>4. CASE CompileCasted \/ CompileBinary \/ CompileLoad
           \/ LValueInRegister \/ CompileAssignment \/ CompileAddressOf
  BY <1>1, <1>4, CastedOwned, BinaryOwned, LoadOwned, InRegisterOwned, AssignmentOwned,
     AddressOfOwned
<1>5. CASE CompileOver \/ EndOver
  BY <1>1, <1>5, OverOwned, EndOverOwned
<1>6. CASE CompileCall
  BY <1>1, <1>6, CallOwned
<1>7. CASE UNCHANGED vars
  <2>1. /\ todo' = todo /\ UNCHANGED <<results, lvalues, used, encodable>>
        /\ NoDivision' => NoDivision
    BY <1>7 DEF vars, NoDivision
  <2>2. UndividedInv'
    BY <2>1 DEF UndividedInv, AllUndivided, Undivided
  <2>3. ASSUME NoDivision' PROVE OwnedInv'
    <3>1. PICK a, z \in Reach : Holds(a) /\ Follows(todo, a, z) /\ z.fr = 0
      BY <2>1, <2>3 DEF OwnedInv
    <3>2. Holds(a)'
      BY <2>1, <3>1, SameHolds
    <3>3. Follows(todo', a, z)
      BY <2>1, <3>1
    <3>4. Follows(todo, a, z)'
      BY <3>3 DEF Follows
    <3> QED
      BY <3>1, <3>2, <3>4 DEF OwnedInv
  <2> QED
    BY <2>2, <2>3 DEF OwnedInv
<1> QED
  BY <1>2, <1>3, <1>4, <1>5, <1>6, <1>7 DEF Next

\* The invariant behind the theorems on operands: as long as a statement has
\* no division, every operand still to be used is in a register of its own
\* that is marked as used, or is put away by a call under way that will give
\* it back.
THEOREM OwnershipInvariant == Spec => [](BalanceInv /\ UndividedInv /\ OwnedInv)
<1>1. BalanceInv /\ BalanceInv' /\ UndividedInv /\ OwnedInv /\ [Next]_vars
      => UndividedInv' /\ OwnedInv'
  BY OwnedStep
<1> QED
  BY BalanceInvariant, OwnedInit, <1>1, PTL DEF Spec

------------------------------------------------------------------------------
(* What the invariant says of operands that calls have put away.           *)

\* The tasks of todo reach as h says, from what the stacks hold to no floor.
Chain(h) ==
    /\ h \in [1..Len(todo) + 1 -> Reach]
    /\ Holds(h[1]) /\ h[Len(todo) + 1].fr = 0
    /\ \A k \in 1..Len(todo) : Reaches(todo[k], h[k], h[k + 1])

LEMMA OwnedChain == OwnedInv /\ NoDivision => \E h : Chain(h)
BY DEF OwnedInv, Follows, Chain

\* A result below the floor of a task stays there, unless the task is the call
\* that put it away.
LEMMA OneBelow ==
    ASSUME NEW t, Undivided(t), NEW a \in Reach, NEW b \in Reach, Reaches(t, a, b),
           NEW i \in Nat, i >= 1
    PROVE  /\ b.fr <= a.fr
           /\ i <= b.fr => b.res[i] = a.res[i]
           /\ i <= a.fr /\ ~(i <= b.fr) /\ a.res[i] \in Volatile
              => t.op = "call" /\ i <= t.base /\ a.res[i] \in t.saved
<1>1. a.fr \in Nat /\ b.fr \in Nat
  BY ReachIs
<1>2. CASE t.op = "call"
  <2>1. /\ a.fr = t.base /\ b.fr <= a.fr /\ \A l \in 1..b.fr : b.res[l] = a.res[l]
        /\ Apart(a.res, b.fr + 1 .. a.fr, a.lvs, b.fl + 1 .. a.fl, t.saved)
    BY <1>2 DEF Reaches, GivesBack
  <2>2. i <= b.fr => i \in 1..b.fr
    BY <1>1
  <2>3. i <= a.fr /\ ~(i <= b.fr) => i \in b.fr + 1 .. a.fr
    BY <1>1
  <2>4. \A l \in b.fr + 1 .. a.fr : a.res[l] \in Volatile => a.res[l] \in t.saved
    BY <2>1 DEF Apart
  <2> QED
    BY <1>2, <2>1, <2>2, <2>3, <2>4
<1>3. CASE t.op # "call"
  <2>1. b.fr = a.fr /\ b.res = a.res
    BY <1>3 DEF Reaches, SameFloor
  <2> QED
    BY <1>1, <2>1
<1> QED
  BY <1>2, <1>3

LEMMA StepBelow ==
    ASSUME ReservedInv, AllUndivided(todo), NEW h, Chain(h), NEW i \in Nat, i >= 1,
           NEW k \in 1..Len(todo)
    PROVE  /\ h[k + 1].fr <= h[k].fr
           /\ i <= h[k + 1].fr => h[k + 1].res[i] = h[k].res[i]
           /\ i <= h[k].fr /\ ~(i <= h[k + 1].fr) /\ h[k].res[i] \in Volatile
              => todo[k].op = "call" /\ i <= todo[k].base /\ h[k].res[i] \in todo[k].saved
           /\ h[k].fr \in Nat /\ h[k + 1].fr \in Nat
<1>1. Len(todo) \in Nat
  BY LenProperties DEF ReservedInv, AllTasks
<1>2. k \in 1..Len(todo) + 1 /\ k + 1 \in 1..Len(todo) + 1
  BY <1>1
<1>3. h[k] \in Reach /\ h[k + 1] \in Reach
  BY <1>2 DEF Chain
<1>4. Reaches(todo[k], h[k], h[k + 1]) /\ Undivided(todo[k])
  BY DEF Chain, AllUndivided
<1> QED
  BY <1>3, <1>4, OneBelow, ReachIs

\* A result below a task's floor was there already when the tasks before it
\* had not run.
LEMMA ChainBack ==
    ASSUME ReservedInv, AllUndivided(todo), NEW h, Chain(h), NEW i \in Nat, i >= 1,
           NEW k \in 1..Len(todo), i <= h[k].fr
    PROVE  h[k].res[i] = results[i]
<1> DEFINE T == {j \in 1..k : \A l \in j..k : i <= h[l].fr /\ h[l].res[i] = h[k].res[i]}
<1>1. k \in T
  <2>1. \A l \in k..k : l = k
    OBVIOUS
  <2> QED
    BY <2>1
<1>2. PICK m \in T : \A j \in T : m <= j
  <2>1. T \subseteq Nat /\ T # {}
    BY <1>1
  <2> QED
    BY <2>1, LeastNumber
<1>3. m \in 1..k /\ \A l \in m..k : i <= h[l].fr /\ h[l].res[i] = h[k].res[i]
  BY <1>2
<1>4. Len(todo) \in Nat
  BY LenProperties DEF ReservedInv, AllTasks
<1>5. m = 1
  <2>1. SUFFICES ASSUME m # 1 PROVE FALSE
    OBVIOUS
  <2>2. PICK j : j = m - 1
    OBVIOUS
  <2>3. /\ j \in 1..k /\ j \in 1..Len(todo) /\ j + 1 = m /\ ~(m <= j) /\ m \in m..k
        /\ \A l \in j..k : l = j \/ l \in m..k
    BY <1>3, <1>4, <2>1, <2>2
  <2>4. i <= h[m].fr /\ h[m].res[i] = h[k].res[i]
    BY <1>3, <2>3
  <2>5. i <= h[j].fr /\ h[j].res[i] = h[k].res[i]
    <3>1. /\ h[j + 1].fr <= h[j].fr /\ h[j].fr \in Nat /\ h[j + 1].fr \in Nat
          /\ i <= h[j + 1].fr => h[j + 1].res[i] = h[j].res[i]
      BY <2>3, StepBelow
    <3> QED
      BY <2>3, <2>4, <3>1
  <2>6. j \in T
    BY <1>3, <2>3, <2>5
  <2> QED
    BY <1>2, <2>3, <2>6
<1>6. i <= h[1].fr /\ h[1].res[i] = h[k].res[i]
  BY <1>3, <1>5
<1>7. h[1] \in Reach
  BY <1>4 DEF Chain
<1>8. i \in 1..h[1].fr
  BY <1>6, <1>7, ReachIs
<1> QED
  BY <1>6, <1>8 DEF Chain, Holds, Waiting

\* And a call that has yet to end will give it back, if the callee may
\* overwrite its register.
LEMMA ChainSaves ==
    ASSUME ReservedInv, AllUndivided(todo), NEW h, Chain(h), NEW i \in Nat, i >= 1,
           NEW k \in 0..Len(todo), i <= h[k + 1].fr, h[k + 1].res[i] = results[i],
           results[i] \in Volatile
    PROVE  Saved(i, k)
<1> DEFINE T == {j \in k + 1 .. Len(todo) + 1 : ~(i <= h[j].fr /\ h[j].res[i] = results[i])}
<1>1. Len(todo) \in Nat
  BY LenProperties DEF ReservedInv, AllTasks
<1>2. Len(todo) + 1 \in T
  BY <1>1 DEF Chain
<1>3. PICK m \in T : \A j \in T : m <= j
  <2>1. T \subseteq Nat /\ T # {}
    BY <1>2
  <2> QED
    BY <2>1, LeastNumber
<1>4. /\ m \in k + 1 .. Len(todo) + 1 /\ m # k + 1
      /\ ~(i <= h[m].fr /\ h[m].res[i] = results[i])
  BY <1>3
<1>5. PICK j : j = m - 1
  OBVIOUS
<1>6. /\ j \in k + 1 .. Len(todo) /\ j \in k + 1 .. Len(todo) + 1 /\ j \in 1..Len(todo)
      /\ j + 1 = m /\ ~(m <= j)
  BY <1>1, <1>4, <1>5
<1>7. i <= h[j].fr /\ h[j].res[i] = results[i]
  BY <1>3, <1>6
<1>8. /\ i <= h[j + 1].fr => h[j + 1].res[i] = h[j].res[i]
      /\ i <= h[j].fr /\ ~(i <= h[j + 1].fr) /\ h[j].res[i] \in Volatile
         => todo[j].op = "call" /\ i <= todo[j].base /\ h[j].res[i] \in todo[j].saved
  BY <1>6, StepBelow
<1>9. ~(i <= h[j + 1].fr)
  BY <1>4, <1>6, <1>7, <1>8
<1>10. todo[j].op = "call" /\ i <= todo[j].base /\ results[i] \in todo[j].saved
  BY <1>7, <1>8, <1>9
<1> QED
  BY <1>6, <1>10 DEF Saved

LEMMA OperandsAreOwned ==
    BalanceInv /\ UndividedInv /\ OwnedInv => OperandsReserved
<1> SUFFICES ASSUME BalanceInv, UndividedInv, OwnedInv, NoDivision
             PROVE  \A i \in DOMAIN results :
                       results[i] \in Volatile /\ ~Saved(i, 0) =>
                          /\ results[i] \in used
                          /\ \A j \in DOMAIN results :
                                results[j] = results[i] => i = j \/ Saved(j, 0)
  BY DEF OperandsReserved
<1>1. ReservedInv /\ AllUndivided(todo)
  BY DEF BalanceInv, UndividedInv
<1>2. PICK h : Chain(h)
  BY OwnedChain
<1>3. Len(todo) \in Nat /\ DOMAIN results = 1..Len(results) /\ Len(results) \in Nat
  BY <1>1, LenProperties DEF ReservedInv, AllTasks
<1>4. PICK a \in Reach : a = h[1] /\ Holds(a)
  BY <1>2, <1>3 DEF Chain
<1>5. /\ a.rs = Len(results) /\ a.fr \in Nat
      /\ \A i \in a.fr + 1 .. a.rs : results[i] \in Volatile => results[i] \in used
      /\ \A i, j \in a.fr + 1 .. a.rs :
            results[i] = results[j] /\ results[i] \in Volatile => i = j
      /\ \A i \in 1..a.fr : results[i] = a.res[i]
  <2>1. \A i \in 1..a.fr : results[i] = a.res[i]
    BY <1>4 DEF Holds, Waiting
  <2> QED
    BY <1>4, <2>1, HeldAbove, ReachIs
<1>6. ASSUME NEW i \in DOMAIN results, results[i] \in Volatile, ~Saved(i, 0)
      PROVE  i \in a.fr + 1 .. a.rs
  <2>1. i \in Nat /\ i >= 1 /\ i <= a.rs
    BY <1>3, <1>5
  <2>2. ASSUME i <= a.fr PROVE FALSE
    <3>1. h[0 + 1].res[i] = results[i] /\ i <= h[0 + 1].fr /\ 0 \in 0..Len(todo)
      <4>1. i \in 1..a.fr /\ 0 + 1 = 1
        BY <1>5, <2>1, <2>2
      <4> QED
        BY <1>3, <1>4, <1>5, <2>2, <4>1
    <3>2. Saved(i, 0)
      BY <1>1, <1>2, <1>6, <2>1, <3>1, ChainSaves
    <3> QED
      BY <1>6, <3>2
  <2> QED
    BY <1>3, <1>5, <2>1, <2>2
<1> TAKE i \in DOMAIN results
<1> HAVE results[i] \in Volatile /\ ~Saved(i, 0)
<1>7. results[i] \in used
  BY <1>5, <1>6
<1>8. ASSUME NEW j \in DOMAIN results, results[j] = results[i]
      PROVE  i = j \/ Saved(j, 0)
  BY <1>5, <1>6, <1>8
<1> QED
  BY <1>7, <1>8

\* A register that holds an operand still to be consumed, and that a call may
\* overwrite, is marked as used and holds that operand only, unless a call
\* under way has put the operand away: in every statement without a division,
\* whatever its shape and the calls in it.
THEOREM OperandsAreReserved == Spec => []OperandsReserved
BY OwnershipInvariant, OperandsAreOwned, PTL

LEMMA CallsSaveWhatWaits ==
    BalanceInv /\ UndividedInv /\ OwnedInv => CallsSaveOperands
<1> SUFFICES ASSUME BalanceInv, UndividedInv, OwnedInv, NoDivision,
                    NEW k \in DOMAIN todo, todo[k].op = "call",
                    NEW i \in 1..todo[k].base, results[i] \in Volatile
             PROVE  Saved(i, k) \/ results[i] \in todo[k].saved
  BY DEF CallsSaveOperands, VolatilesSaved
<1>1. ReservedInv /\ AllUndivided(todo)
  BY DEF BalanceInv, UndividedInv
<1>2. PICK h : Chain(h)
  BY OwnedChain
<1>3. Len(todo) \in Nat /\ DOMAIN todo = 1..Len(todo)
  BY <1>1, LenProperties DEF ReservedInv, AllTasks
<1>4. /\ k \in 1..Len(todo) /\ k \in 0..Len(todo)
      /\ k \in 1..Len(todo) + 1 /\ k + 1 \in 1..Len(todo) + 1
  BY <1>3
<1>5. /\ h[k] \in Reach /\ Reaches(todo[k], h[k], h[k + 1])
  BY <1>2, <1>4 DEF Chain
<1>6. todo[k].base = h[k].fr /\ h[k].fr \in Nat
  BY <1>5, ReachIs DEF Reaches, GivesBack
<1>7. i \in Nat /\ i >= 1 /\ i <= h[k].fr
  BY <1>6
<1>8. h[k].res[i] = results[i]
  BY <1>1, <1>2, <1>4, <1>7, ChainBack
<1>9. /\ i <= h[k + 1].fr => h[k + 1].res[i] = h[k].res[i]
      /\ i <= h[k].fr /\ ~(i <= h[k + 1].fr) /\ h[k].res[i] \in Volatile
         => h[k].res[i] \in todo[k].saved
  BY <1>1, <1>2, <1>4, <1>7, StepBelow
<1>10. CASE i <= h[k + 1].fr
  <2>1. h[k + 1].res[i] = results[i]
    BY <1>8, <1>9, <1>10
  <2> QED
    BY <1>1, <1>2, <1>4, <1>7, <1>10, <2>1, ChainSaves
<1>11. CASE ~(i <= h[k + 1].fr)
  BY <1>7, <1>8, <1>9, <1>11
<1> QED
  BY <1>10, <1>11

\* Whatever waits in a register that a function may overwrite while a call is
\* compiled is saved by that call or by one around it, in every statement
\* without a division.
THEOREM CallsSaveTheirOperands == Spec => []CallsSaveOperands
BY OwnershipInvariant, CallsSaveWhatWaits, PTL

LEMMA SingleIs ==
    ASSUME NEW m, m \subseteq Any, IsSingle(m), NEW q \in m, NEW r \in m
    PROVE  q = r
<1>1. PICK x : m = {x}
  BY MaskFinite, FS_Singleton DEF IsSingle
<1> QED
  BY <1>1

LEMMA TargetsAreLeftFree ==
    BalanceInv /\ UndividedInv /\ OwnedInv => TargetLeftFree
<1> SUFFICES ASSUME BalanceInv, UndividedInv, OwnedInv, NoDivision,
                    Runs("binary") \/ Runs("over"), IsSingle(Top.m),
                    encodable \/ RhsFirst(Top.e)
             PROVE  RhsResult(Top.e) \notin Top.m
  BY DEF TargetLeftFree, RhsAvoidsTarget
<1>1. ReservedInv /\ HeightInv /\ todo # <<>> /\ AllUndivided(todo) /\ results \in Seq(Free)
  BY DEF BalanceInv, ReservedInv, UndividedInv, Runs
<1>2. Top.op = "binary"
  <2>1. 1 \in 1..Len(todo)
    BY <1>1, EmptySeq, LenProperties DEF ReservedInv, AllTasks
  <2>2. Undivided(Top)
    BY <1>1, <2>1 DEF AllUndivided, Top
  <2> QED
    BY <2>2 DEF Runs, Undivided
<1>3. PICK a \in Layout, b \in Layout : Fits(a) /\ TaskRuns(Top, a, b)
  BY <1>1, HeadRuns
<1>4. /\ a.rs \in Nat /\ a.rs >= 2 /\ Len(results) = a.rs
      /\ \A i \in 1..a.rs : results[i] \in a.res[i]
      /\ LeavesTarget(Top, a)
  BY <1>2, <1>3, LayoutIs DEF TaskRuns, Combines, Fits
<1>5. PICK p, q : p = a.rs - 1 /\ q = a.rs
  OBVIOUS
<1>6. p \in 1..a.rs /\ q \in 1..a.rs /\ p # q
  BY <1>4, <1>5
<1>7. results[p] \in a.res[p]
  BY <1>4, <1>6
<1>8. CASE RhsFirst(Top.e)
  <2>1. RhsResult(Top.e) = results[p]
    BY <1>4, <1>5, <1>8 DEF RhsResult
  <2>2. a.res[p] \cap Top.m = {}
    BY <1>4, <1>5, <1>8 DEF LeavesTarget
  <2> QED
    BY <1>7, <2>1, <2>2
<1>9. CASE ~RhsFirst(Top.e)
  <2>1. RhsResult(Top.e) = results[q] /\ encodable
    BY <1>4, <1>5, <1>9 DEF RhsResult
  <2>2. a.res[p] \subseteq Top.m \cup {NoRegister}
    BY <1>4, <1>5, <1>9 DEF LeavesTarget
  <2>3. PICK c, d \in Reach : Holds(c) /\ Reaches(Top, c, d)
    BY <1>1, OwnedHead
  <2>4. /\ c.rs >= c.fr + 2 /\ c.rs = a.rs /\ c.fr \in Nat
        /\ \A i \in c.rs - 2 + 1 .. c.rs : i \notin c.pend
    <3>1. Takes(Top) = 2
      BY <1>2 DEF Takes
    <3>2. c.rs = Len(results)
      BY <2>3, HeldAbove
    <3> QED
      BY <1>2, <1>4, <2>3, <3>1, <3>2, ReachIs DEF Reaches
  <2>5. /\ p \in c.fr + 1 .. c.rs /\ q \in c.fr + 1 .. c.rs /\ p \in 1..c.rs
        /\ p \in c.rs - 2 + 1 .. c.rs
    BY <1>4, <1>5, <2>4
  <2>6. results[p] \in HasId
    BY <2>1, <2>3, <2>4, <2>5, HeldAbove
  <2>7. results[p] \in Top.m /\ results[p] \in Volatile
    <3>1. results[p] \in Free
      BY <1>1, <1>4, <1>6, ElementOfSeq
    <3> QED
      BY <1>7, <2>2, <2>6, <3>1, VolatileIs
  <2>8. ASSUME results[q] \in Top.m PROVE FALSE
    <3>1. Top.m \subseteq Any
      BY <1>1, <1>2, FirstTask DEF ReservedInv, TaskOK
    <3>2. results[p] = results[q]
      BY <2>7, <2>8, <3>1, SingleIs
    <3>3. p = q
      BY <2>3, <2>5, <2>7, <3>2, HeldAbove
    <3> QED
      BY <1>6, <3>3
  <2> QED
    BY <2>1, <2>8
<1> QED
  BY <1>8, <1>9

\* The right operand of a binary operation leaves free the one register that
\* the result must go to, in every statement without a division: it was
\* compiled without that register, or behind a left operand that has it.
THEOREM TargetsLeftFree == Spec => []TargetLeftFree
BY OwnershipInvariant, TargetsAreLeftFree, PTL

=============================================================================
