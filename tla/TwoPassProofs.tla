----------------------------- MODULE TwoPassProofs -----------------------------
(***************************************************************************)
(* Facts about the passes of TwoPass for programs of any length, with any  *)
(* names, types and argument lists.  No function is defined twice; the     *)
(* scopes are empty between functions, in both passes and from the one to  *)
(* the other, although they are emptied only at the end of a function; and *)
(* the code generator repeats what the parser did: it resolves every use   *)
(* to the same slot, but for a variable in its own initial value, reserves *)
(* the same frame and reports no error.                                    *)
(***************************************************************************)
EXTENDS TwoPass, SequenceTheorems, TLAPS

------------------------------------------------------------------------------
(* A function is defined once: each definition in the program has its      *)
(* entry in the table, which no later declaration makes undefined.         *)

Definition(i) == program[i].op = "define"

\* The table, and what the program says of it.
TableInv ==
    /\ \E S : program \in Seq(S)
    /\ functions \subseteq [symbol : Function, args : Args, defined : BOOLEAN]
    /\ \A i \in 1..Len(program) :
          Definition(i) => \E f \in functions : f.symbol = program[i].function /\ f.defined

OnceInv == TableInv /\ DefinedOnce

\* function_declare forgets no definition and enters the new one.
LEMMA DeclaringKeeps ==
    ASSUME NEW function \in Function, NEW args \in Args, NEW defined \in BOOLEAN,
           functions \subseteq [symbol : Function, args : Args, defined : BOOLEAN],
           DeclareFunction(function, args, defined)
    PROVE  /\ functions' \subseteq [symbol : Function, args : Args, defined : BOOLEAN]
           /\ \A f \in functions : f.defined =>
                 \E g \in functions' : g.symbol = f.symbol /\ g.defined
           /\ defined => \E g \in functions' : g.symbol = function /\ g.defined
<1> DEFINE new == [symbol |-> function, args |-> args, defined |-> defined]
           with(f) == IF f.symbol = function
                      THEN [f EXCEPT !.defined = f.defined \/ defined] ELSE f
<1>1. CASE Declared(function) = {}
  <2>1. functions' = functions \cup {new}
    BY <1>1 DEF DeclareFunction
  <2>2. /\ new \in [symbol : Function, args : Args, defined : BOOLEAN]
        /\ new.symbol = function /\ new.defined = defined
    OBVIOUS
  <2> HIDE DEF new
  <2> QED
    BY <2>1, <2>2
<1>2. CASE Declared(function) # {}
  <2>1. functions' = {with(f) : f \in functions}
    BY <1>2 DEF DeclareFunction, DefinedAfter
  <2>2. ASSUME NEW f \in functions
        PROVE  /\ with(f) \in [symbol : Function, args : Args, defined : BOOLEAN]
               /\ with(f).symbol = f.symbol
               /\ f.defined => with(f).defined
               /\ f.symbol = function /\ defined => with(f).defined
    OBVIOUS
  <2>3. PICK f \in functions : f.symbol = function
    BY <1>2 DEF Declared
  <2> HIDE DEF with
  <2> QED
    BY <2>1, <2>2, <2>3
<1> QED
  BY <1>1, <1>2

\* An item put behind the program.
LEMMA ProgramGrows ==
    ASSUME NEW item, Parsed(item), \E S : program \in Seq(S)
    PROVE  /\ \E S : program' \in Seq(S)
           /\ Len(program) \in Nat /\ Len(program') = Len(program) + 1
           /\ \A i \in 1..Len(program) : program'[i] = program[i]
           /\ program'[Len(program) + 1] = item
           /\ DOMAIN program = 1..Len(program)
           /\ DOMAIN program' = 1..Len(program) + 1
<1>1. PICK S : program \in Seq(S)
  OBVIOUS
<1>2. program \in Seq(S \cup {item})
  BY <1>1, SeqMonotonic
<1>3. /\ program' \in Seq(S \cup {item})
      /\ Len(program') = Len(program) + 1
      /\ \A i \in 1..Len(program) : program'[i] = program[i]
      /\ program'[Len(program) + 1] = item
  BY <1>2, AppendProperties DEF Parsed
<1> QED
  BY <1>1, <1>3, LenProperties

\* A step that adds a statement, and leaves the table as it is.
LEMMA OtherItem ==
    ASSUME OnceInv, NEW item, item.op # "define", Parsed(item), functions' = functions
    PROVE  OnceInv'
<1>1. /\ \E S : program' \in Seq(S)
      /\ Len(program) \in Nat /\ Len(program') = Len(program) + 1
      /\ \A i \in 1..Len(program) : program'[i] = program[i]
      /\ program'[Len(program) + 1] = item
      /\ DOMAIN program = 1..Len(program)
      /\ DOMAIN program' = 1..Len(program) + 1
  BY ProgramGrows DEF OnceInv, TableInv
<1>2. \A i \in 1..Len(program) + 1 : program'[i].op = "define" =>
         i \in 1..Len(program) /\ program'[i] = program[i] /\ program[i].op = "define"
  BY <1>1
<1>3. TableInv'
  BY <1>1, <1>2 DEF OnceInv, TableInv, Definition
<1>4. DefinedOnce'
  BY <1>1, <1>2 DEF OnceInv, DefinedOnce
<1> QED
  BY <1>3, <1>4 DEF OnceInv

LEMMA OnceInit == Init => OnceInv
<1> SUFFICES ASSUME Init PROVE OnceInv
  OBVIOUS
<1>1. program = <<>> /\ functions = {} /\ program \in Seq({}) /\ Len(program) = 0
  BY EmptySeq DEF Init
<1>2. 1..Len(program) = {} /\ DOMAIN program = {}
  BY <1>1
<1> QED
  BY <1>1, <1>2 DEF OnceInv, TableInv, DefinedOnce

LEMMA OnceStep == OnceInv /\ [Next]_vars => OnceInv'
<1> SUFFICES ASSUME OnceInv, [Next]_vars PROVE OnceInv'
  OBVIOUS
<1>0. functions \subseteq [symbol : Function, args : Args, defined : BOOLEAN]
      /\ \E S : program \in Seq(S)
  BY DEF OnceInv, TableInv
<1>1. ASSUME NEW function \in Function, NEW args \in Args, ParseDeclaration(function, args)
      PROVE  OnceInv'
  <2> DEFINE item == [Bare("declare") EXCEPT !.function = function]
  <2>1. Parsed(item) /\ item.op = "declare" /\ DeclareFunction(function, args, FALSE)
    BY <1>1 DEF ParseDeclaration, Bare
  <2> HIDE DEF item
  <2>2. /\ functions' \subseteq [symbol : Function, args : Args, defined : BOOLEAN]
        /\ \A f \in functions : f.defined =>
              \E g \in functions' : g.symbol = f.symbol /\ g.defined
    BY <1>0, <2>1, DeclaringKeeps
  <2>3. /\ \E S : program' \in Seq(S)
        /\ Len(program) \in Nat /\ Len(program') = Len(program) + 1
        /\ \A i \in 1..Len(program) : program'[i] = program[i]
        /\ program'[Len(program) + 1] = item
        /\ DOMAIN program = 1..Len(program)
        /\ DOMAIN program' = 1..Len(program) + 1
    BY <1>0, <2>1, ProgramGrows
  <2>4. \A i \in 1..Len(program) + 1 : program'[i].op = "define" =>
           i \in 1..Len(program) /\ program'[i] = program[i] /\ program[i].op = "define"
    BY <2>1, <2>3
  <2>5. TableInv'
    BY <2>2, <2>3, <2>4 DEF OnceInv, TableInv, Definition
  <2>6. DefinedOnce'
    BY <2>3, <2>4 DEF OnceInv, DefinedOnce
  <2> QED
    BY <2>5, <2>6 DEF OnceInv
<1>2. ASSUME NEW function \in Function, NEW args \in Args, ParseDefinition(function, args)
      PROVE  OnceInv'
  <2> DEFINE item == [Bare("define") EXCEPT !.function = function]
  <2>1. /\ Parsed(item) /\ item.function = function
        /\ DeclareFunction(function, args, TRUE) /\ ~RedefinitionOf(function)
    BY <1>2 DEF ParseDefinition, Bare
  <2> HIDE DEF item
  <2>2. /\ functions' \subseteq [symbol : Function, args : Args, defined : BOOLEAN]
        /\ \A f \in functions : f.defined =>
              \E g \in functions' : g.symbol = f.symbol /\ g.defined
        /\ \E g \in functions' : g.symbol = function /\ g.defined
    BY <1>0, <2>1, DeclaringKeeps
  <2>3. /\ \E S : program' \in Seq(S)
        /\ Len(program) \in Nat /\ Len(program') = Len(program) + 1
        /\ \A i \in 1..Len(program) : program'[i] = program[i]
        /\ program'[Len(program) + 1] = item
        /\ DOMAIN program = 1..Len(program)
        /\ DOMAIN program' = 1..Len(program) + 1
    BY <1>0, <2>1, ProgramGrows
  <2>4. \A i \in 1..Len(program) + 1 : i \in 1..Len(program) \/ i = Len(program) + 1
    BY <2>3
  <2>5. \A i \in 1..Len(program) :
           program[i].op = "define" => program[i].function # function
    BY <2>1 DEF OnceInv, TableInv, Definition, RedefinitionOf, Declared
  <2>6. TableInv'
    <3>1. ASSUME NEW i \in 1..Len(program) + 1, program'[i].op = "define"
          PROVE  \E g \in functions' : g.symbol = program'[i].function /\ g.defined
      <4>1. CASE i = Len(program) + 1
        BY <2>1, <2>2, <2>3, <4>1
      <4>2. CASE i \in 1..Len(program)
        BY <2>2, <2>3, <3>1, <4>2 DEF OnceInv, TableInv, Definition
      <4> QED
        BY <2>4, <4>1, <4>2
    <3> QED
      BY <2>2, <2>3, <3>1 DEF TableInv, Definition
  <2>7. DefinedOnce'
    <3>1. ASSUME NEW i \in 1..Len(program) + 1, NEW j \in 1..Len(program) + 1,
                 program'[i].op = "define", program'[j].op = "define",
                 program'[i].function = program'[j].function
          PROVE  i = j
      BY <2>1, <2>3, <2>4, <2>5, <3>1 DEF OnceInv, DefinedOnce
    <3> QED
      BY <2>3, <3>1 DEF DefinedOnce
  <2> QED
    BY <2>6, <2>7 DEF OnceInv
<1>3. ASSUME UNCHANGED <<functions, program>>
      PROVE  OnceInv'
  BY <1>3 DEF OnceInv, TableInv, Definition, DefinedOnce
<1>4. ASSUME NEW name \in Name, ParseUse(name)
      PROVE  OnceInv'
  <2> DEFINE item == [Bare("use") EXCEPT !.name = name, !.bound = OffsetOf(name)]
  <2>1. Parsed(item) /\ item.op = "use" /\ functions' = functions
    BY <1>4 DEF ParseUse, Bare
  <2> HIDE DEF item
  <2> QED
    BY <2>1, OtherItem
<1>5. ASSUME NEW name \in Name, NEW type \in Type, NEW init \in Name \cup {NoInit},
             ParseVar(name, type, init)
      PROVE  OnceInv'
  <2> DEFINE item == [Bare("var") EXCEPT !.name = name, !.type = type, !.init = init,
                         !.bound = IF init = NoInit THEN None ELSE OffsetOf(init)]
  <2>1. functions' = functions /\ (Parsed(item) \/ program' = program)
    BY <1>5 DEF ParseVar
  <2>2. item.op = "var"
    BY DEF Bare
  <2> HIDE DEF item
  <2> QED
    BY <1>3, <2>1, <2>2, OtherItem
<1>6. CASE ParseOpen \/ ParseClose
  <2>1. /\ functions' = functions /\ Bare("open").op = "open" /\ Bare("close").op = "close"
        /\ Parsed(Bare("open")) \/ Parsed(Bare("close"))
    BY <1>6 DEF ParseOpen, ParseClose, Bare
  <2> QED
    BY <2>1, OtherItem
<1>7. CASE ParseEnd
  <2> DEFINE item == [Bare("end") EXCEPT !.frame = stackOffset]
  <2>1. Parsed(item) /\ item.op = "end" /\ functions' = functions
    BY <1>7 DEF ParseEnd, Bare
  <2> HIDE DEF item
  <2> QED
    BY <2>1, OtherItem
<1>8. CASE \E function \in Function : ParseRedefinition(function)
  BY <1>3, <1>8 DEF ParseRedefinition
<1>9. CASE \E name \in Name : ParseUseFails(name)
  BY <1>3, <1>9 DEF ParseUseFails
<1>10. CASE ParseArg \/ StartCompile \/ Finish \/ Stopped \/ UNCHANGED vars
  BY <1>3, <1>10 DEF ParseArg, StartCompile, Finish, Stopped, vars
<1>11. CASE \/ CompileDeclaration \/ CompileDefinition \/ CompileArg \/ CompileUse
            \/ (\E init \in Name \cup {NoInit} : CompileVar(init))
            \/ CompileOpen \/ CompileClose \/ CompileEnd
  BY <1>3, <1>11 DEF CompileDeclaration, CompileDefinition, CompileArg, CompileUse, CompileVar,
                     CompileOpen, CompileClose, CompileEnd
<1> QED
  BY <1>1, <1>2, <1>4, <1>5, <1>6, <1>7, <1>8, <1>9, <1>10, <1>11 DEF Next

\* No program, however long and however its declarations and definitions are
\* mixed, defines a function twice.
THEOREM FunctionsDefinedOnce == Spec => []DefinedOnce
<1>1. OnceInv => DefinedOnce
  BY DEF OnceInv
<1> QED
  BY OnceInit, OnceStep, <1>1, PTL DEF Spec

------------------------------------------------------------------------------
(* The scopes are clean between functions.  A statement of the program     *)
(* lies inside of a function or not; the code generator is inside of one   *)
(* when the statements it has compiled leave one open.                     *)

\* The first i statements leave a function open.
Open(i) ==
    \E d \in 1..i : /\ program[d].op = "define"
                    /\ \A k \in d + 1..i : program[k].op # "end"

InnerOps == {"var", "use", "open", "close", "end"}

\* Statements are inside of functions, headers outside.
Nested ==
    \A i \in 1..Len(program) :
        /\ program[i].op \in InnerOps => Open(i - 1)
        /\ program[i].op \in {"define", "declare"} => ~Open(i - 1)

CleanInv ==
    /\ \E S : program \in Seq(S)
    /\ \E S : compiled \in Seq(S)
    /\ inFunction \in BOOLEAN
    /\ toDeclare # <<>> => inFunction
    /\ phase = "parse" => compiled = <<>> /\ (inFunction <=> Open(Len(program)))
    /\ phase = "compile" => /\ Len(compiled) <= Len(program)
                            /\ inFunction <=> Open(Len(compiled))
    /\ phase \in {"parse", "compile", "done"}
    /\ Nested
    /\ FunctionsStartClean

\* What an item behind the program does to the nesting.
LEMMA NestingGrows ==
    ASSUME NEW item, Parsed(item), \E S : program \in Seq(S), Nested,
           item.op \in InnerOps => Open(Len(program)),
           item.op \in {"define", "declare"} => ~Open(Len(program))
    PROVE  /\ \E S : program' \in Seq(S)
           /\ Nested'
           /\ Open(Len(program))' <=> item.op = "define"
                                       \/ (Open(Len(program)) /\ item.op # "end")
<1>1. /\ \E S : program' \in Seq(S)
      /\ Len(program) \in Nat /\ Len(program') = Len(program) + 1
      /\ \A i \in 1..Len(program) : program'[i] = program[i]
      /\ program'[Len(program) + 1] = item
  BY ProgramGrows
<1> DEFINE n == Len(program)
<1>2. \A i \in 0..n : Open(i)' <=> Open(i)
  <2> SUFFICES ASSUME NEW i \in 0..n PROVE Open(i)' <=> Open(i)
    OBVIOUS
  <2>1. \A k \in 1..i : program'[k] = program[k]
    BY <1>1
  <2>2. \A d \in 1..i : \A k \in d + 1..i : k \in 1..i
    OBVIOUS
  <2> QED
    BY <2>1, <2>2 DEF Open
<1>3. n \in Nat /\ n \in 0..n
  BY <1>1
<1>4. (\E d \in 1..n + 1 : program'[d].op = "define" /\ \A k \in d + 1..n + 1 : program'[k].op # "end")
         <=> item.op = "define" \/ (Open(n) /\ item.op # "end")
  <2>1. ASSUME item.op = "define"
        PROVE  \E d \in 1..n + 1 : program'[d].op = "define"
                                    /\ \A k \in d + 1..n + 1 : program'[k].op # "end"
    <3>1. n + 1 \in 1..n + 1 /\ (n + 1) + 1..n + 1 = {}
      BY <1>3
    <3> QED
      BY <1>1, <2>1, <3>1
  <2>2. ASSUME Open(n), item.op # "end"
        PROVE  \E d \in 1..n + 1 : program'[d].op = "define"
                                    /\ \A k \in d + 1..n + 1 : program'[k].op # "end"
    <3>1. PICK d \in 1..n : program[d].op = "define" /\ \A k \in d + 1..n : program[k].op # "end"
      BY <2>2 DEF Open
    <3>2. ASSUME NEW k \in d + 1..n + 1
          PROVE  program'[k].op # "end"
      <4>1. k = n + 1 \/ (k \in d + 1..n /\ k \in 1..n)
        BY <1>3
      <4> QED
        BY <1>1, <2>2, <3>1, <4>1
    <3>3. d \in 1..n + 1 /\ program'[d] = program[d]
      BY <1>1
    <3> QED
      BY <3>1, <3>2, <3>3
  <2>3. ASSUME NEW d \in 1..n + 1, program'[d].op = "define",
               \A k \in d + 1..n + 1 : program'[k].op # "end", item.op # "define"
        PROVE  Open(n) /\ item.op # "end"
    <3>1. d # n + 1
      BY <1>1, <2>3
    <3>2. d \in 1..n /\ n + 1 \in d + 1..n + 1
      BY <1>3, <3>1
    <3>3. \A k \in d + 1..n : k \in 1..n /\ k \in d + 1..n + 1
      BY <1>3
    <3> QED
      BY <1>1, <2>3, <3>2, <3>3 DEF Open
  <2> QED
    BY <2>1, <2>2, <2>3
<1>5. Open(Len(program))' <=> item.op = "define" \/ (Open(Len(program)) /\ item.op # "end")
  BY <1>1, <1>4 DEF Open
<1>6. Nested'
  <2>1. ASSUME NEW i \in 1..n + 1
        PROVE  (/\ program[i].op \in InnerOps => Open(i - 1)
                /\ program[i].op \in {"define", "declare"} => ~Open(i - 1))'
    <3>1. i - 1 \in 0..n /\ (i = n + 1 \/ i \in 1..n)
      BY <1>3
    <3>2. Open(i - 1)' <=> Open(i - 1)
      BY <1>2, <3>1
    <3>3. CASE i \in 1..n
      BY <1>1, <3>2, <3>3 DEF Nested
    <3>4. CASE i = n + 1
      <4>1. i - 1 = n
        BY <1>3, <3>4
      <4> QED
        BY <1>1, <3>2, <3>4, <4>1
    <3> QED
      BY <3>1, <3>3, <3>4
  <2> QED
    BY <1>1, <2>1 DEF Nested
<1> QED
  BY <1>1, <1>5, <1>6

\* The same for the next statement the code generator compiles.
LEMMA NestingNext ==
    ASSUME \E S : program \in Seq(S), NEW n \in Nat, n < Len(program)
    PROVE  Open(n + 1) <=> program[n + 1].op = "define"
                           \/ (Open(n) /\ program[n + 1].op # "end")
<1>1. ASSUME program[n + 1].op = "define"
      PROVE  Open(n + 1)
  <2>1. n + 1 \in 1..n + 1 /\ (n + 1) + 1..n + 1 = {}
    OBVIOUS
  <2> QED
    BY <1>1, <2>1 DEF Open
<1>2. ASSUME Open(n), program[n + 1].op # "end"
      PROVE  Open(n + 1)
  <2>1. PICK d \in 1..n : program[d].op = "define" /\ \A k \in d + 1..n : program[k].op # "end"
    BY <1>2 DEF Open
  <2>2. ASSUME NEW k \in d + 1..n + 1
        PROVE  program[k].op # "end"
    <3>1. k = n + 1 \/ k \in d + 1..n
      OBVIOUS
    <3> QED
      BY <1>2, <2>1, <3>1
  <2>3. d \in 1..n + 1
    OBVIOUS
  <2> QED
    BY <2>1, <2>2, <2>3 DEF Open
<1>3. ASSUME Open(n + 1), program[n + 1].op # "define"
      PROVE  Open(n) /\ program[n + 1].op # "end"
  <2>1. PICK d \in 1..n + 1 : program[d].op = "define"
                               /\ \A k \in d + 1..n + 1 : program[k].op # "end"
    BY <1>3 DEF Open
  <2>2. d # n + 1
    BY <1>3, <2>1
  <2>3. d \in 1..n /\ n + 1 \in d + 1..n + 1
    BY <2>2
  <2>4. \A k \in d + 1..n : k \in d + 1..n + 1
    OBVIOUS
  <2> QED
    BY <2>1, <2>3, <2>4 DEF Open
<1> QED
  BY <1>1, <1>2, <1>3

\* The parser adds a statement inside of a function, or a header outside.
LEMMA ParsingKeeps ==
    ASSUME CleanInv, phase = "parse", NEW item, Parsed(item),
           item.op \in InnerOps => inFunction,
           item.op \in {"define", "declare"} => ~inFunction,
           UNCHANGED <<phase, compiled>>,
           inFunction' = (item.op = "define" \/ (inFunction /\ item.op # "end")),
           toDeclare' # <<>> => inFunction',
           FunctionsStartClean'
    PROVE  CleanInv'
<1>1. /\ \E S : program' \in Seq(S)
      /\ Nested'
      /\ Open(Len(program))' <=> item.op = "define"
                                  \/ (Open(Len(program)) /\ item.op # "end")
  BY NestingGrows DEF CleanInv
<1> QED
  BY <1>1 DEF CleanInv

\* A step that leaves the statements alone.
LEMMA OtherwiseKeeps ==
    ASSUME CleanInv, UNCHANGED <<program, inFunction, phase, compiled>>,
           toDeclare' # <<>> => inFunction,
           FunctionsStartClean'
    PROVE  CleanInv'
BY DEF CleanInv, Nested, Open

\* The code generator compiles the next statement.
LEMMA CompilingKeeps ==
    ASSUME CleanInv, NEW op, Compiling(op), NEW what, compiled' = Append(compiled, what),
           UNCHANGED <<program, phase>>,
           inFunction' = (op = "define" \/ (inFunction /\ op # "end")),
           toDeclare' # <<>> => inFunction',
           FunctionsStartClean'
    PROVE  CleanInv'
<1>1. PICK S : compiled \in Seq(S)
  BY DEF CleanInv
<1>2. compiled \in Seq(S \cup {what})
  BY <1>1, SeqMonotonic
<1>3. /\ compiled' \in Seq(S \cup {what}) /\ Len(compiled') = Len(compiled) + 1
      /\ Len(compiled) \in Nat
  BY <1>1, <1>2, AppendProperties, LenProperties
<1>4. /\ Len(compiled) < Len(program) /\ program[Len(compiled) + 1].op = op
      /\ phase = "compile" /\ \E T : program \in Seq(T)
      /\ inFunction <=> Open(Len(compiled))
  BY DEF Compiling, CleanInv
<1>5. Open(Len(compiled) + 1) <=> op = "define" \/ (Open(Len(compiled)) /\ op # "end")
  BY <1>3, <1>4, NestingNext
<1>6. Open(Len(compiled))' <=> Open(Len(compiled) + 1)
  BY <1>3 DEF Open
<1>7. Len(program) \in Nat
  BY <1>4, LenProperties
<1>8. Len(compiled') <= Len(program')
  BY <1>3, <1>4, <1>7
<1>9. Nested'
  BY DEF CleanInv, Nested, Open
<1>10. \E T : compiled' \in Seq(T)
  BY <1>3
<1>11. inFunction' <=> Open(Len(compiled))'
  BY <1>4, <1>5, <1>6
<1>12. inFunction' \in BOOLEAN
  BY <1>4
<1> QED
  BY <1>4, <1>8, <1>9, <1>10, <1>11, <1>12 DEF CleanInv

\* What the code generator compiles inside of a function.
LEMMA CompilingInside ==
    ASSUME CleanInv, NEW op, op \in InnerOps, Compiling(op)
    PROVE  inFunction = TRUE
<1>1. \E S : compiled \in Seq(S)
  BY DEF CleanInv
<1>2. \E S : program \in Seq(S)
  BY DEF CleanInv
<1>3. Len(compiled) \in Nat /\ Len(program) \in Nat
  BY <1>1, <1>2, LenProperties
<1>4. /\ Len(compiled) < Len(program) /\ program[Len(compiled) + 1].op = op
      /\ inFunction <=> Open(Len(compiled))
      /\ inFunction \in BOOLEAN
  BY DEF Compiling, CleanInv
<1>5. Len(compiled) + 1 \in 1..Len(program) /\ (Len(compiled) + 1) - 1 = Len(compiled)
  BY <1>3, <1>4
<1>6. Open((Len(compiled) + 1) - 1)
  BY <1>4, <1>5 DEF CleanInv, Nested
<1> QED
  BY <1>4, <1>5, <1>6

LEMMA CleanInit == Init => CleanInv
<1> SUFFICES ASSUME Init PROVE CleanInv
  OBVIOUS
<1>1. /\ program = <<>> /\ compiled = <<>> /\ <<>> \in Seq({}) /\ Len(<<>>) = 0
      /\ inFunction = FALSE /\ toDeclare = <<>> /\ phase = "parse"
  BY EmptySeq DEF Init
<1>2. 1..Len(program) = {}
  BY <1>1
<1>3. Nested /\ ~Open(Len(program))
  BY <1>2 DEF Nested, Open
<1>4. FunctionsStartClean
  BY DEF Init, Frame!Init, FunctionsStartClean
<1> QED
  BY <1>1, <1>3, <1>4 DEF CleanInv

LEMMA CleanStep == CleanInv /\ [Next]_vars => CleanInv'
<1> SUFFICES ASSUME CleanInv, [Next]_vars PROVE CleanInv'
  OBVIOUS
<1>0. FunctionsStartClean /\ (toDeclare # <<>> => inFunction) /\ inFunction \in BOOLEAN
  BY DEF CleanInv
<1>1. ASSUME UNCHANGED <<scopes, inFunction>>
      PROVE  FunctionsStartClean'
  BY <1>0, <1>1 DEF scopes, FunctionsStartClean
<1>2. ASSUME inFunction' = TRUE \/ failed' = TRUE
      PROVE  FunctionsStartClean'
  BY <1>2 DEF FunctionsStartClean
<1>3. ASSUME Frame!New
      PROVE  FunctionsStartClean'
  BY <1>3 DEF Frame!New, FunctionsStartClean
<1>4. CASE \E function \in Function, args \in Args : ParseDeclaration(function, args)
  <2>1. PICK function \in Function, args \in Args : ParseDeclaration(function, args)
    BY <1>4
  <2> DEFINE item == [Bare("declare") EXCEPT !.function = function]
  <2>2. /\ Parsed(item) /\ item.op = "declare" /\ phase = "parse" /\ ~inFunction
        /\ UNCHANGED <<scopes, inFunction, toDeclare, phase, compiled>>
    BY <2>1 DEF ParseDeclaration, Bare, Parsing
  <2> HIDE DEF item
  <2> QED
    BY <1>0, <1>1, <2>2, ParsingKeeps DEF InnerOps
<1>5. CASE \E function \in Function, args \in Args : ParseDefinition(function, args)
  <2>1. PICK function \in Function, args \in Args : ParseDefinition(function, args)
    BY <1>5
  <2> DEFINE item == [Bare("define") EXCEPT !.function = function]
  <2>2. /\ Parsed(item) /\ item.op = "define" /\ phase = "parse" /\ ~inFunction
        /\ inFunction' = TRUE /\ UNCHANGED <<scopes, phase, compiled>>
    BY <2>1 DEF ParseDefinition, Bare, Parsing
  <2> HIDE DEF item
  <2> QED
    BY <1>2, <2>2, ParsingKeeps DEF InnerOps
<1>6. CASE \/ \E function \in Function : ParseRedefinition(function)
           \/ \E name \in Name : ParseUseFails(name)
  <2>1. /\ failed' = TRUE
        /\ UNCHANGED <<program, inFunction, toDeclare, phase, compiled>>
    BY <1>6 DEF ParseRedefinition, ParseUseFails
  <2> QED
    BY <1>0, <1>2, <2>1, OtherwiseKeeps
<1>7. CASE ParseArg \/ CompileArg
  <2>1. toDeclare # <<>> /\ UNCHANGED <<program, inFunction, phase, compiled>>
    BY <1>7 DEF ParseArg, CompileArg
  <2> QED
    BY <1>0, <1>2, <2>1, OtherwiseKeeps
<1>8. ASSUME InBody, NEW item, Parsed(item), item.op \in {"use", "var", "open", "close"},
             UNCHANGED <<inFunction, toDeclare, phase, compiled>>
      PROVE  CleanInv'
  <2>1. inFunction = TRUE /\ phase = "parse" /\ toDeclare' = <<>>
    BY <1>0, <1>8 DEF InBody, Parsing
  <2> QED
    BY <1>2, <1>8, <2>1, ParsingKeeps DEF InnerOps
<1>9. CASE \E name \in Name : ParseUse(name)
  <2>1. PICK name \in Name : ParseUse(name)
    BY <1>9
  <2> DEFINE item == [Bare("use") EXCEPT !.name = name, !.bound = OffsetOf(name)]
  <2>2. /\ InBody /\ Parsed(item) /\ item.op = "use"
        /\ UNCHANGED <<inFunction, toDeclare, phase, compiled>>
    BY <2>1 DEF ParseUse, Bare
  <2> HIDE DEF item
  <2> QED
    BY <1>8, <2>2
<1>10. CASE \E name \in Name, type \in Type, init \in Name \cup {NoInit} :
               ParseVar(name, type, init)
  <2>1. PICK name \in Name, type \in Type, init \in Name \cup {NoInit} :
               ParseVar(name, type, init)
    BY <1>10
  <2> DEFINE item == [Bare("var") EXCEPT !.name = name, !.type = type, !.init = init,
                         !.bound = IF init = NoInit THEN None ELSE OffsetOf(init)]
  <2>2. /\ InBody /\ (Parsed(item) \/ program' = program)
        /\ UNCHANGED <<inFunction, toDeclare, phase, compiled>>
    BY <2>1 DEF ParseVar
  <2>3. item.op = "var"
    BY DEF Bare
  <2> HIDE DEF item
  <2>4. CASE program' = program
    BY <1>0, <1>2, <2>2, <2>4, OtherwiseKeeps DEF InBody
  <2> QED
    BY <1>8, <2>2, <2>3, <2>4
<1>11. CASE ParseOpen \/ ParseClose
  <2>1. /\ InBody /\ Bare("open").op = "open" /\ Bare("close").op = "close"
        /\ Parsed(Bare("open")) \/ Parsed(Bare("close"))
        /\ UNCHANGED <<inFunction, toDeclare, phase, compiled>>
    BY <1>11 DEF ParseOpen, ParseClose, Bare
  <2> QED
    BY <1>8, <2>1
<1>12. CASE ParseEnd
  <2> DEFINE item == [Bare("end") EXCEPT !.frame = stackOffset]
  <2>1. /\ InBody /\ Parsed(item) /\ item.op = "end" /\ Frame!New
        /\ inFunction' = FALSE /\ UNCHANGED <<toDeclare, phase, compiled>>
    BY <1>12 DEF ParseEnd, AfterBody, Bare
  <2>2. inFunction = TRUE /\ phase = "parse" /\ toDeclare' = <<>>
    BY <1>0, <2>1 DEF InBody, Parsing
  <2> HIDE DEF item
  <2> QED
    BY <1>3, <2>1, <2>2, ParsingKeeps DEF InnerOps
<1>13. CASE StartCompile
  <2>1. /\ phase = "parse" /\ phase' = "compile" /\ inFunction = FALSE /\ compiled = <<>>
        /\ UNCHANGED <<scopes, program, inFunction, toDeclare, compiled>>
        /\ \E S : program \in Seq(S)
    BY <1>0, <1>13 DEF StartCompile, Parsing, CleanInv
  <2>2. Len(compiled) = 0 /\ Len(program) \in Nat
    BY <2>1, LenProperties
  <2>3. ~Open(0)
    BY DEF Open
  <2>4. FunctionsStartClean'
    BY <1>1, <2>1
  <2>5. Len(compiled') <= Len(program') /\ ~Open(Len(compiled))'
    BY <2>1, <2>2, <2>3 DEF Open
  <2>6. Nested'
    BY <2>1 DEF CleanInv, Nested, Open
  <2> QED
    BY <1>0, <2>1, <2>4, <2>5, <2>6 DEF CleanInv
<1>14. CASE CompileDeclaration
  <2>1. /\ Compiling("declare")
        /\ compiled' = Append(compiled, [bound |-> None, frame |-> None])
        /\ UNCHANGED <<scopes, program, inFunction, toDeclare, phase>>
    BY <1>14 DEF CompileDeclaration, Compiled
  <2> QED
    BY <1>0, <1>1, <2>1, CompilingKeeps
<1>15. CASE CompileDefinition
  <2>1. /\ Compiling("define")
        /\ compiled' = Append(compiled, [bound |-> None, frame |-> None])
        /\ inFunction' = TRUE /\ UNCHANGED <<program, phase>>
    BY <1>15 DEF CompileDefinition, Compiled
  <2> QED
    BY <1>2, <2>1, CompilingKeeps
<1>16. ASSUME NEW op, op \in {"use", "var", "open", "close"}, Compiling(op),
              NEW what, compiled' = Append(compiled, what),
              UNCHANGED <<program, inFunction, toDeclare, phase>>
       PROVE  CleanInv'
  <2>1. inFunction = TRUE
    BY <1>16, CompilingInside DEF InnerOps
  <2>2. inFunction' = (op = "define" \/ (inFunction /\ op # "end"))
    BY <1>16, <2>1
  <2> QED
    BY <1>2, <1>16, <2>1, <2>2, CompilingKeeps
<1>17. CASE CompileUse
  BY <1>16, <1>17 DEF CompileUse, Compiled
<1>18. CASE \E init \in Name \cup {NoInit} : CompileVar(init)
  BY <1>16, <1>18 DEF CompileVar, Compiled
<1>19. CASE CompileOpen
  BY <1>16, <1>19 DEF CompileOpen, Compiled
<1>20. CASE CompileClose
  BY <1>16, <1>20 DEF CompileClose, Compiled
<1>21. CASE CompileEnd
  <2>1. /\ Compiling("end") /\ Frame!New
        /\ compiled' = Append(compiled, [bound |-> None, frame |-> stackOffset])
        /\ inFunction' = FALSE /\ UNCHANGED <<program, toDeclare, phase>>
        /\ toDeclare = <<>>
    BY <1>21 DEF CompileEnd, Compiled, Compiling
  <2> QED
    BY <1>3, <2>1, CompilingKeeps
<1>22. CASE Finish
  <2>1. /\ phase' = "done" /\ UNCHANGED <<scopes, program, inFunction, toDeclare, compiled>>
    BY <1>22 DEF Finish
  <2>2. Nested' /\ FunctionsStartClean'
    BY <1>1, <2>1 DEF CleanInv, Nested, Open
  <2> QED
    BY <2>1, <2>2 DEF CleanInv
<1>23. CASE Stopped \/ UNCHANGED vars
  <2>1. UNCHANGED <<scopes, program, inFunction, toDeclare, phase, compiled>>
    BY <1>23 DEF Stopped, vars
  <2> QED
    BY <1>0, <1>1, <2>1, OtherwiseKeeps
<1> QED
  BY <1>4, <1>5, <1>6, <1>7, <1>9, <1>10, <1>11, <1>12, <1>13, <1>14, <1>15,
     <1>17, <1>18, <1>19, <1>20, <1>21, <1>22, <1>23 DEF Next

\* Each function of either pass finds one empty scope and a frame of no bytes,
\* the code generator's first function too, for programs of any length and depth.
THEOREM ScopesAreClean == Spec => []FunctionsStartClean
<1>1. CleanInv => FunctionsStartClean
  BY DEF CleanInv
<1> QED
  BY CleanInit, CleanStep, <1>1, PTL DEF Spec

------------------------------------------------------------------------------
(***************************************************************************)
(* Both passes bind alike.  What the parser leaves of the scopes is not in *)
(* the state once it has gone on, so the proof keeps it as history: for    *)
(* each statement the environments it leads through, one for a statement   *)
(* and one more for each argument of a function header.  The parser is at  *)
(* the end of the history, the code generator at the place in it of the    *)
(* statement it has reached.                                               *)
(***************************************************************************)

\* What resolving and declaring depend on.
Env == [depth : Nat, live : SUBSET Frame!Entry, off : Nat]

Cur == [depth |-> depth, live |-> live, off |-> stackOffset]

EmptyEnv == [depth |-> 1, live |-> {}, off |-> 0]

ResolutionsIn(e, name) ==
    {x \in e.live : /\ x.name = name
                    /\ \A y \in e.live : y.name = name => y.depth <= x.depth}

OffsetIn(e, name) == (CHOOSE x \in ResolutionsIn(e, name) : TRUE).offset

RedefinedIn(e, name) == \E x \in e.live : x.depth = e.depth /\ x.name = name

\* The environment that a declaration leads to.
WithDeclared(e, name, type) ==
    LET offset == e.off + Frame!SlotSize(type) IN
    [depth |-> e.depth,
     live |-> e.live \cup {[depth |-> e.depth, name |-> name,
                            offset |-> offset, type |-> type]},
     off |-> Frame!Align8(offset)]

\* The environment that a statement, or the header of a function before its
\* arguments, leads to.
After(item, e) ==
    CASE item.op = "var" -> WithDeclared(e, item.name, item.type)
      [] item.op = "open" -> [e EXCEPT !.depth = @ + 1]
      [] item.op = "close" -> [depth |-> e.depth - 1, off |-> e.off,
                               live |-> {x \in e.live : x.depth < e.depth}]
      [] item.op = "end" -> EmptyEnv
      [] OTHER -> e

\* What the parser has made sure of, and has noted, when it accepts a statement
\* in an environment.
Legal(item, e) ==
    /\ item.op \in Ops
    /\ item.op = "use" => /\ ResolutionsIn(e, item.name) # {}
                          /\ item.bound = OffsetIn(e, item.name)
    /\ item.op = "var" =>
          /\ item.name \in Name /\ item.type \in Type /\ item.init \in Name \cup {NoInit}
          /\ ~RedefinedIn(e, item.name)
          /\ item.init = NoInit => item.bound = None
          /\ item.init # NoInit => /\ ResolutionsIn(e, item.init) # {}
                                   /\ item.bound = OffsetIn(e, item.init)
    /\ item.op \notin {"use", "var"} => item.bound = None
    /\ item.frame = IF item.op = "end" THEN e.off ELSE None

\* The arguments declared behind the header of a function.
ArgsOf(function) == (CHOOSE f \in Declared(function) : TRUE).args

ArgList(i) ==
    IF i # 0 /\ program[i].op = "define" THEN ArgsOf(program[i].function) ELSE <<>>

\* The environment behind statement i and what is declared with it.
LastOf(h, i) == h[i][Len(h[i])]

\* The arguments of the header are all declared.
Complete(h, i) == Len(h[i]) = Len(ArgList(i)) + 1

\* Each environment follows from the one before, and the parser accepted each
\* statement in the one before it.
History(h) ==
    /\ h \in [0..Len(program) -> Seq(Env)]
    /\ \A i \in 0..Len(program) : Len(h[i]) \in 1..Len(ArgList(i)) + 1
    /\ h[0] = <<EmptyEnv>>
    /\ \A i \in 1..Len(program) :
          /\ Complete(h, i - 1)
          /\ Legal(program[i], LastOf(h, i - 1))
          /\ h[i][1] = After(program[i], LastOf(h, i - 1))
          /\ \A j \in 1..Len(h[i]) - 1 :
                /\ ~RedefinedIn(h[i][j], ArgList(i)[j].name)
                /\ h[i][j + 1] = WithDeclared(h[i][j], ArgList(i)[j].name, ArgList(i)[j].type)

\* A pass has done m statements, and the last of them as far as its j - 1st
\* argument.
Reached(h, m, j) ==
    /\ m \in 0..Len(program) /\ j \in 1..Len(h[m])
    /\ Cur = h[m][j]
    /\ Len(toDeclare) = Len(ArgList(m)) + 1 - j
    /\ \A k \in 1..Len(toDeclare) : toDeclare[k] = ArgList(m)[j - 1 + k]

\* The parser, at the end of the history.
ParserReached ==
    \E h : History(h) /\ Reached(h, Len(program), Len(h[Len(program)]))

\* The code generator, somewhere in it.
CompilerReached ==
    \E h : /\ History(h) /\ Complete(h, Len(program))
           /\ \E j \in 1..Len(h[Len(compiled)]) : Reached(h, Len(compiled), j)

HistoryInv ==
    /\ phase = "parse" /\ ~failed => ParserReached
    /\ phase = "compile" => CompilerReached

\* Every function that the program mentions is in the table.
MentionedInv ==
    \A i \in 1..Len(program) :
        program[i].op = "define" => Declared(program[i].function) # {}

BindInv ==
    /\ TypeOK
    /\ MentionedInv
    /\ HistoryInv
    /\ BindsAlike
    /\ CompileNeverFails

PassInv == CleanInv /\ BindInv

------------------------------------------------------------------------------
(* The scopes' operations on environments.                                 *)

LEMMA SlotSizes ==
    /\ \A type \in Type : Frame!SlotSize(type) \in Nat
    /\ \A n \in Nat : Frame!Align8(n) \in Nat
    /\ \A type \in Type : Frame!StoreWidth(type) \in Nat
<1>1. ASSUME NEW type \in Type PROVE Frame!SlotSize(type) \in Nat
  BY TwoPassAssumption DEF Frame!SlotSize
<1>2. ASSUME NEW n \in Nat PROVE Frame!Align8(n) \in Nat
  BY DEF Frame!Align8
<1>3. ASSUME NEW type \in Type PROVE Frame!StoreWidth(type) \in Nat
  BY TwoPassAssumption DEF Frame!StoreWidth
<1> QED
  BY <1>1, <1>2, <1>3

LEMMA CurIsEnv ==
    ASSUME Frame!TypeOK
    PROVE  /\ Cur \in Env
           /\ \A name : ResolutionsIn(Cur, name) = Frame!Resolutions(name)
           /\ \A name : OffsetIn(Cur, name) = OffsetOf(name)
           /\ \A name : RedefinedIn(Cur, name) <=> Frame!Redefinition(name)
<1>1. /\ Cur.depth = depth /\ Cur.live = live /\ Cur.off = stackOffset
      /\ Cur \in Env
  BY TwoPassAssumption DEF Cur, Env, Frame!TypeOK
<1>2. ASSUME NEW name PROVE ResolutionsIn(Cur, name) = Frame!Resolutions(name)
  BY <1>1 DEF ResolutionsIn, Frame!Resolutions
<1>3. ASSUME NEW name PROVE OffsetIn(Cur, name) = OffsetOf(name)
  <2>1. ResolutionsIn(Cur, name) = Frame!Resolutions(name)
    BY <1>2
  <2>2. (CHOOSE x \in ResolutionsIn(Cur, name) : TRUE)
          = (CHOOSE x \in Frame!Resolutions(name) : TRUE)
    BY <2>1, Zenon
  <2> QED
    BY <2>2 DEF OffsetIn, OffsetOf
<1>4. ASSUME NEW name PROVE RedefinedIn(Cur, name) <=> Frame!Redefinition(name)
  BY <1>1 DEF RedefinedIn, Frame!Redefinition
<1> QED
  BY <1>1, <1>2, <1>3, <1>4

LEMMA NextIsEnv == Frame!TypeOK' => Cur' \in Env
BY TwoPassAssumption DEF Cur, Env, Frame!TypeOK, Frame!Entry

\* A resolved name has an offset.
LEMMA OffsetsAreNumbers ==
    ASSUME Frame!TypeOK, NEW name, Resolves(name)
    PROVE  OffsetOf(name) \in Nat
<1> DEFINE e == CHOOSE x \in Frame!Resolutions(name) : TRUE
<1>1. e \in Frame!Resolutions(name)
  BY DEF Resolves
<1> HIDE DEF e
<1>2. e \in Frame!Entry
  BY <1>1 DEF Frame!Resolutions, Frame!TypeOK
<1>3. e.offset \in Nat
  BY <1>2 DEF Frame!Entry
<1> QED
  BY <1>3 DEF OffsetOf, e

LEMMA DeclareIs ==
    ASSUME Frame!TypeOK, NEW name \in Name, NEW type \in Type, Frame!Declare(name, type)
    PROVE  /\ Cur' = WithDeclared(Cur, name, type)
           /\ ~RedefinedIn(Cur, name)
           /\ Frame!TypeOK' /\ ~failed'
<1> DEFINE offset == stackOffset + Frame!SlotSize(type)
           new == [depth |-> depth, name |-> name, offset |-> offset, type |-> type]
<1>1. offset \in Nat /\ Frame!Align8(offset) \in Nat /\ Frame!SlotSize(type) \in Nat
  <2>1. Frame!SlotSize(type) \in Nat
    BY SlotSizes
  <2>2. stackOffset \in Nat
    BY DEF Frame!TypeOK
  <2>3. offset \in Nat
    BY <2>1, <2>2
  <2> HIDE DEF offset
  <2> QED
    BY <2>1, <2>3, SlotSizes
<1>2. /\ live' = live \cup {new} /\ stackOffset' = Frame!Align8(offset) /\ depth' = depth
      /\ failed' = failed /\ ~failed /\ ~Frame!Redefinition(name)
      /\ slots' = Append(slots, Frame!Declared(offset, type))
  BY DEF Frame!Declare
<1>3. Cur' = WithDeclared(Cur, name, type)
  BY <1>2 DEF Cur, WithDeclared
<1>4. new \in Frame!Entry
  BY <1>1 DEF Frame!Entry, Frame!TypeOK
<1>5. type.array \in BOOLEAN
  BY TwoPassAssumption
<1>6. slots' \in Seq(Frame!DeclaredSet)
  <2>1. Frame!Declared(offset, type) \in Frame!DeclaredSet
    BY <1>1, <1>5, SlotSizes DEF Frame!Declared, Frame!DeclaredSet
  <2> HIDE DEF offset
  <2> QED
    BY <1>2, <2>1, AppendProperties DEF Frame!TypeOK
<1> HIDE DEF offset, new
<1>7. Frame!TypeOK'
  BY <1>1, <1>2, <1>4, <1>6 DEF Frame!TypeOK
<1> QED
  BY <1>2, <1>3, <1>7, CurIsEnv

LEMMA DeclareFailsIs ==
    ASSUME Frame!TypeOK, NEW name, Frame!DeclareFails(name)
    PROVE  RedefinedIn(Cur, name) /\ Frame!TypeOK' /\ failed' = TRUE
<1>1. Frame!TypeOK' /\ failed' = TRUE
  BY DEF Frame!TypeOK, Frame!DeclareFails
<1>2. Frame!Redefinition(name)
  BY DEF Frame!DeclareFails
<1> QED
  BY <1>1, <1>2, CurIsEnv

LEMMA PushIs ==
    ASSUME Frame!TypeOK, Frame!Push
    PROVE  Cur' = [Cur EXCEPT !.depth = @ + 1] /\ Frame!TypeOK' /\ ~failed'
BY TwoPassAssumption DEF Frame!TypeOK, Frame!Push, Cur

LEMMA PopIs ==
    ASSUME Frame!TypeOK, Frame!Pop
    PROVE  /\ Cur' = [depth |-> Cur.depth - 1, off |-> Cur.off,
                      live |-> {x \in Cur.live : x.depth < Cur.depth}]
           /\ Frame!TypeOK' /\ ~failed'
BY TwoPassAssumption DEF Frame!TypeOK, Frame!Pop, Cur

LEMMA NewIs ==
    ASSUME Frame!TypeOK, Frame!New
    PROVE  Cur' = EmptyEnv /\ Frame!TypeOK' /\ ~failed'
<1>1. /\ depth' = 1 /\ live' = {} /\ stackOffset' = 0 /\ slots' = <<>>
      /\ failed' = failed /\ ~failed
  BY DEF Frame!New
<1>2. Frame!TypeOK'
  BY <1>1, EmptySeq, TwoPassAssumption DEF Frame!TypeOK
<1> QED
  BY <1>1, <1>2 DEF Cur, EmptyEnv

------------------------------------------------------------------------------
(* The table of functions: an argument list, once there, stays.            *)

LEMMA ArgsOfEntry ==
    ASSUME TypeOK, NEW f \in functions
    PROVE  ArgsOf(f.symbol) = f.args /\ Declared(f.symbol) = {f}
<1>1. Declared(f.symbol) = {f}
  BY DEF TypeOK, Declared
<1>2. (CHOOSE g \in Declared(f.symbol) : TRUE) = f
  BY <1>1
<1> QED
  BY <1>1, <1>2 DEF ArgsOf

LEMMA ArgsOfType ==
    ASSUME TypeOK, NEW function, Declared(function) # {}
    PROVE  ArgsOf(function) \in Args /\ ArgsOf(function) \in Seq([name : Name, type : Type])
<1>1. PICK f \in functions : f.symbol = function
  BY DEF Declared
<1>2. f.args \in Args
  BY DEF TypeOK
<1>3. ArgsOf(function) = f.args
  BY <1>1, ArgsOfEntry
<1> QED
  BY <1>2, <1>3, TwoPassAssumption

\* function_declare keeps one entry for each name and the list of the first.
LEMMA TableKept ==
    ASSUME TypeOK, NEW function \in Function, NEW args \in Args, NEW defined \in BOOLEAN,
           DeclareFunction(function, args, defined)
    PROVE  /\ functions' \subseteq [symbol : Function, args : Args, defined : BOOLEAN]
           /\ \A f, g \in functions' : f.symbol = g.symbol => f = g
           /\ \A s : Declared(s) # {} => Declared(s)' # {} /\ ArgsOf(s)' = ArgsOf(s)
           /\ Declared(function)' # {}
           /\ ArgsOf(function)' = BodyArgs(function, args)
<1> DEFINE new == [symbol |-> function, args |-> args, defined |-> defined]
           with(f) == IF f.symbol = function
                      THEN [f EXCEPT !.defined = f.defined \/ defined] ELSE f
           Entry == [symbol : Function, args : Args, defined : BOOLEAN]
<1>0. /\ functions \subseteq Entry
      /\ \A f, g \in functions : f.symbol = g.symbol => f = g
  BY DEF TypeOK
<1>1. ASSUME functions' \subseteq Entry,
             \A f, g \in functions' : f.symbol = g.symbol => f = g,
             NEW g \in functions'
      PROVE  ArgsOf(g.symbol)' = g.args
  <2>1. {f \in functions' : f.symbol = g.symbol} = {g}
    BY <1>1
  <2>2. (CHOOSE f \in {f \in functions' : f.symbol = g.symbol} : TRUE) = g
    BY <2>1
  <2> QED
    BY <2>2 DEF ArgsOf, Declared
<1>2. CASE Declared(function) = {}
  <2>1. functions' = functions \cup {new}
    BY <1>2 DEF DeclareFunction
  <2>2. new \in Entry /\ new.symbol = function /\ new.args = args
    OBVIOUS
  <2>3. \A f \in functions : f.symbol # function
    BY <1>2 DEF Declared
  <2> HIDE DEF new
  <2>4. functions' \subseteq Entry /\ \A f, g \in functions' : f.symbol = g.symbol => f = g
    BY <1>0, <2>1, <2>2, <2>3
  <2>5. ASSUME NEW s, Declared(s) # {}
        PROVE  Declared(s)' # {} /\ ArgsOf(s)' = ArgsOf(s)
    <3>1. PICK f \in functions : f.symbol = s
      BY <2>5 DEF Declared
    <3>2. f \in functions' /\ f \in Declared(s)'
      BY <2>1, <3>1 DEF Declared
    <3>3. ArgsOf(s)' = f.args
      BY <1>1, <2>4, <3>1, <3>2
    <3>4. ArgsOf(s) = f.args
      BY <3>1, ArgsOfEntry
    <3> QED
      BY <3>2, <3>3, <3>4
  <2>6. new \in functions' /\ Declared(function)' # {}
    BY <2>1, <2>2 DEF Declared
  <2>7. ArgsOf(function)' = args
    BY <1>1, <2>2, <2>4, <2>6
  <2>8. BodyArgs(function, args) = args
    BY <1>2 DEF BodyArgs
  <2> QED
    BY <2>4, <2>5, <2>6, <2>7, <2>8
<1>3. CASE Declared(function) # {}
  <2>1. functions' = {with(f) : f \in functions}
    BY <1>3 DEF DeclareFunction, DefinedAfter
  <2>2. ASSUME NEW f \in functions
        PROVE  with(f) \in Entry /\ with(f).symbol = f.symbol /\ with(f).args = f.args
    BY <1>0
  <2> HIDE DEF with
  <2>3. functions' \subseteq Entry
    BY <2>1, <2>2
  <2>4. ASSUME NEW f \in functions', NEW g \in functions', f.symbol = g.symbol
        PROVE  f = g
    <3>1. PICK a \in functions, b \in functions : f = with(a) /\ g = with(b)
      BY <2>1
    <3>2. a.symbol = b.symbol
      BY <2>2, <2>4, <3>1
    <3> QED
      BY <1>0, <3>1, <3>2
  <2>5. ASSUME NEW s, Declared(s) # {}
        PROVE  Declared(s)' # {} /\ ArgsOf(s)' = ArgsOf(s)
    <3>1. PICK f \in functions : f.symbol = s
      BY <2>5 DEF Declared
    <3>2. with(f) \in functions' /\ with(f).symbol = s /\ with(f).args = f.args
      BY <2>1, <2>2, <3>1
    <3>3. with(f) \in Declared(s)'
      BY <3>2 DEF Declared
    <3>4. ArgsOf(s)' = f.args
      BY <1>1, <2>3, <2>4, <3>2
    <3>5. ArgsOf(s) = f.args
      BY <3>1, ArgsOfEntry
    <3> QED
      BY <3>3, <3>4, <3>5
  <2>6. BodyArgs(function, args) = ArgsOf(function)
    BY <1>3 DEF BodyArgs, ArgsOf
  <2> QED
    BY <1>3, <2>3, <2>4, <2>5, <2>6
<1> QED
  BY <1>2, <1>3

------------------------------------------------------------------------------
(* The history: how the parser extends it.                                 *)

LEMMA ListsAreLists ==
    ASSUME TypeOK, MentionedInv, NEW i \in 0..Len(program)
    PROVE  /\ ArgList(i) \in Seq([name : Name, type : Type])
           /\ Len(ArgList(i)) \in Nat
<1>1. Len(program) \in Nat
  BY LenProperties DEF TypeOK
<1>2. CASE i # 0 /\ program[i].op = "define"
  <2>1. i \in 1..Len(program)
    BY <1>1, <1>2
  <2>2. Declared(program[i].function) # {}
    BY <1>2, <2>1 DEF MentionedInv
  <2>3. ArgList(i) = ArgsOf(program[i].function)
    BY <1>2 DEF ArgList
  <2> QED
    BY <2>2, <2>3, ArgsOfType, LenProperties
<1>3. CASE ~(i # 0 /\ program[i].op = "define")
  BY <1>3, EmptySeq DEF ArgList
<1> QED
  BY <1>2, <1>3

\* What a step does to the table when it keeps every argument list.
ListsKept == \A s : Declared(s) # {} => Declared(s)' # {} /\ ArgsOf(s)' = ArgsOf(s)

LEMMA ListsStay ==
    ASSUME MentionedInv, ListsKept, NEW i \in 0..Len(program), Len(program) \in Nat,
           i # 0 => program'[i] = program[i]
    PROVE  ArgList(i)' = ArgList(i)
<1>1. CASE i # 0 /\ program[i].op = "define"
  <2>1. Declared(program[i].function) # {}
    BY <1>1 DEF MentionedInv
  <2>2. PICK s : s = program[i].function
    OBVIOUS
  <2>3. ArgsOf(s)' = ArgsOf(s)
    BY <2>1, <2>2 DEF ListsKept
  <2>4. ArgList(i) = ArgsOf(s)
    BY <1>1, <2>2 DEF ArgList
  <2>5. ArgList(i)' = ArgsOf(s)'
    BY <1>1, <2>2 DEF ArgList, ArgsOf, Declared
  <2> QED
    BY <2>3, <2>4, <2>5
<1>2. CASE ~(i # 0 /\ program[i].op = "define")
  BY <1>2 DEF ArgList
<1> QED
  BY <1>1, <1>2

\* Where the parser is when the arguments are declared.
LEMMA AtStatement ==
    ASSUME TypeOK, MentionedInv, NEW h, History(h), NEW m \in 0..Len(program),
           NEW j \in 1..Len(h[m]), Reached(h, m, j)
    PROVE  /\ toDeclare = <<>> => j = Len(h[m]) /\ Complete(h, m) /\ LastOf(h, m) = Cur
           /\ toDeclare # <<>> => j <= Len(ArgList(m)) /\ Head(toDeclare) = ArgList(m)[j]
<1>1. /\ Len(ArgList(m)) \in Nat /\ Len(toDeclare) = Len(ArgList(m)) + 1 - j
      /\ Cur = h[m][j]
      /\ \A k \in 1..Len(toDeclare) : toDeclare[k] = ArgList(m)[j - 1 + k]
  BY ListsAreLists DEF Reached
<1>2. Len(h[m]) \in 1..Len(ArgList(m)) + 1
  BY DEF History
<1>3. Len(h[m]) \in Nat /\ j \in Nat
  BY <1>1, <1>2
<1>4. ASSUME toDeclare = <<>>
      PROVE  j = Len(h[m]) /\ Complete(h, m) /\ LastOf(h, m) = Cur
  <2>1. Len(toDeclare) = 0
    BY <1>4
  <2>2. j = Len(h[m]) /\ Len(h[m]) = Len(ArgList(m)) + 1
    BY <1>1, <1>2, <1>3, <2>1
  <2> QED
    BY <1>1, <2>2 DEF Complete, LastOf
<1>5. ASSUME toDeclare # <<>>
      PROVE  j <= Len(ArgList(m)) /\ Head(toDeclare) = ArgList(m)[j]
  <2>1. Len(toDeclare) \in Nat /\ Len(toDeclare) > 0 /\ Head(toDeclare) = toDeclare[1]
    BY <1>5, EmptySeq, LenProperties, HeadTailProperties DEF TypeOK
  <2>2. 1 \in 1..Len(toDeclare) /\ j - 1 + 1 = j
    BY <1>3, <2>1
  <2>3. toDeclare[1] = ArgList(m)[j - 1 + 1]
    BY <1>1, <2>2
  <2> QED
    BY <1>1, <1>3, <2>1, <2>2, <2>3
<1> QED
  BY <1>4, <1>5

\* The parser accepts a statement.
LEMMA HistoryGrows ==
    ASSUME TypeOK, MentionedInv, ListsKept, NEW h, History(h),
           Reached(h, Len(program), Len(h[Len(program)])), toDeclare = <<>>,
           NEW item, Parsed(item), Legal(item, Cur), Cur' = After(item, Cur), Cur' \in Env,
           toDeclare' = IF item.op = "define" THEN ArgsOf(item.function)' ELSE <<>>,
           Len(toDeclare') \in Nat
    PROVE  ParserReached'
<1> PICK n : n = Len(program)
  OBVIOUS
<1> PICK e \in Env : e = Cur'
  OBVIOUS
<1> DEFINE g == [i \in 0..n + 1 |-> IF i = n + 1 THEN <<e>> ELSE h[i]]
<1>1. /\ n \in Nat /\ Len(program') = n + 1 /\ program'[n + 1] = item
      /\ \A i \in 1..n : program'[i] = program[i]
  BY ProgramGrows DEF TypeOK
<1>2. \A i \in 0..n : ArgList(i)' = ArgList(i)
  BY <1>1, ListsStay
<1>3. /\ n \in 0..n /\ h[n] \in Seq(Env) /\ Len(h[n]) \in 1..Len(h[n])
  <2>1. n \in 0..n
    BY <1>1
  <2>2. h[n] \in Seq(Env) /\ Len(h[n]) \in 1..Len(ArgList(n)) + 1
    BY <2>1 DEF History
  <2>3. Len(h[n]) \in Nat /\ Len(h[n]) >= 1
    BY <2>1, <2>2, ListsAreLists
  <2> QED
    BY <2>1, <2>2, <2>3
<1>4. Complete(h, n) /\ LastOf(h, n) = Cur
  BY <1>3, AtStatement
<1>5. <<e>> \in Seq(Env) /\ Len(<<e>>) = 1 /\ <<e>>[1] = e
  OBVIOUS
<1>6. /\ g \in [0..n + 1 -> Seq(Env)]
      /\ g[n + 1] = <<e>>
      /\ \A i \in 0..n : g[i] = h[i]
  <2>0. h \in [0..n -> Seq(Env)]
    BY DEF History
  <2>1. \A i \in 0..n : h[i] \in Seq(Env) /\ i # n + 1 /\ i \in 0..n + 1
    BY <1>1, <2>0
  <2>2. n + 1 \in 0..n + 1 /\ \A i \in 0..n + 1 : i = n + 1 \/ i \in 0..n
    BY <1>1
  <2> QED
    BY <1>5, <2>1, <2>2
<1> HIDE DEF g
<1>11. Len(g[n + 1]) = 1 /\ g[n + 1][1] = e
  BY <1>5, <1>6, Zenon
<1>7. ArgList(n + 1)' = toDeclare'
  <2>1. n + 1 # 0
    BY <1>1
  <2> QED
    BY <1>1, <2>1 DEF ArgList, ArgsOf, Declared
<1>8. History(g)'
  <2>1. g \in [0..Len(program') -> Seq(Env)]
    BY <1>1, <1>6
  <2>2. ASSUME NEW i \in 0..n + 1
        PROVE  Len(g[i]) \in 1..Len(ArgList(i)') + 1
    <3>1. CASE i = n + 1
      <4>1. Len(g[i]) = 1 /\ 1 \in 1..Len(toDeclare') + 1
        BY <1>11, <3>1
      <4>2. ArgList(n + 1)' = ArgList(i)'
        BY <3>1
      <4> QED
        BY <1>7, <4>1, <4>2
    <3>2. CASE i \in 0..n
      <4>1. g[i] = h[i] /\ ArgList(i)' = ArgList(i) /\ Len(h[i]) \in 1..Len(ArgList(i)) + 1
        BY <1>2, <1>6, <3>2 DEF History
      <4> QED
        BY <4>1
    <3> QED
      BY <1>1, <3>1, <3>2
  <2>3. g[0] = <<EmptyEnv>>
    <3>1. 0 \in 0..n
      BY <1>1
    <3> QED
      BY <1>6, <3>1 DEF History
  <2>4. ASSUME NEW i \in 1..n + 1
        PROVE  /\ Len(g[i - 1]) = Len(ArgList(i - 1)') + 1
               /\ Legal(program'[i], g[i - 1][Len(g[i - 1])])
               /\ g[i][1] = After(program'[i], g[i - 1][Len(g[i - 1])])
               /\ \A j \in 1..Len(g[i]) - 1 :
                     /\ ~RedefinedIn(g[i][j], ArgList(i)'[j].name)
                     /\ g[i][j + 1] = WithDeclared(g[i][j], ArgList(i)'[j].name,
                                                   ArgList(i)'[j].type)
    <3> DEFINE k == i - 1
    <3>1. k \in 0..n /\ g[k] = h[k] /\ ArgList(k)' = ArgList(k)
      BY <1>1, <1>2, <1>6
    <3>2. CASE i = n + 1
      <4>1. k = n
        BY <1>1, <3>2
      <4>2. Len(g[n]) = Len(ArgList(n)') + 1 /\ g[n][Len(g[n])] = Cur
        <5>1. g[n] = h[n] /\ ArgList(n)' = ArgList(n)
          BY <1>2, <1>3, <1>6
        <5> QED
          BY <1>4, <5>1 DEF Complete, LastOf
      <4>3. \A j \in 1..Len(g[i]) - 1 : FALSE
        <5>1. Len(g[i]) = 1
          BY <1>11, <3>2
        <5>2. 1..Len(g[i]) - 1 = 1..1 - 1
          BY <5>1
        <5>3. \A j \in 1..1 - 1 : FALSE
          OBVIOUS
        <5> QED
          BY <5>2, <5>3, Zenon
      <4>4. program'[i] = item /\ g[i][1] = e
        BY <1>1, <1>5, <1>6, <3>2
      <4> HIDE DEF k
      <4>5. Legal(program'[i], g[k][Len(g[k])]) /\ g[i][1] = After(program'[i], g[k][Len(g[k])])
        BY <4>1, <4>2, <4>4
      <4> QED
        BY <4>1, <4>2, <4>3, <4>5 DEF k
    <3>3. CASE i \in 1..n
      <4>1. i \in 0..n /\ g[i] = h[i] /\ ArgList(i)' = ArgList(i) /\ program'[i] = program[i]
        BY <1>1, <1>2, <1>6, <3>3
      <4>2. /\ Len(h[k]) = Len(ArgList(k)) + 1
            /\ Legal(program[i], h[k][Len(h[k])])
            /\ h[i][1] = After(program[i], h[k][Len(h[k])])
            /\ \A j \in 1..Len(h[i]) - 1 :
                  /\ ~RedefinedIn(h[i][j], ArgList(i)[j].name)
                  /\ h[i][j + 1] = WithDeclared(h[i][j], ArgList(i)[j].name,
                                                ArgList(i)[j].type)
        BY <3>3 DEF History, Complete, LastOf
      <4> HIDE DEF k
      <4>3. /\ Len(g[k]) = Len(ArgList(k)') + 1
            /\ Legal(program'[i], g[k][Len(g[k])])
            /\ g[i][1] = After(program'[i], g[k][Len(g[k])])
        BY <3>1, <4>1, <4>2
      <4>4. \A j \in 1..Len(g[i]) - 1 :
                  /\ ~RedefinedIn(g[i][j], ArgList(i)'[j].name)
                  /\ g[i][j + 1] = WithDeclared(g[i][j], ArgList(i)'[j].name,
                                                ArgList(i)'[j].type)
        BY <4>1, <4>2
      <4> QED
        BY <4>3, <4>4 DEF k
    <3>4. i = n + 1 \/ i \in 1..n
      BY <1>1
    <3> HIDE DEF k
    <3> QED
      BY <3>2, <3>3, <3>4
  <2> QED
    BY <1>1, <2>1, <2>2, <2>3, <2>4 DEF History, Complete, LastOf
<1>9. Reached(g, n + 1, 1)'
  <2>1. g[n + 1][1] = e /\ Len(g[n + 1]) = 1 /\ n + 1 \in 0..n + 1
    BY <1>1, <1>5, <1>6
  <2>2. /\ Len(toDeclare') = Len(ArgList(n + 1)') + 1 - 1
        /\ \A k \in 1..Len(toDeclare') : toDeclare'[k] = ArgList(n + 1)'[1 - 1 + k]
    <3>1. \A k \in 1..Len(toDeclare') : 1 - 1 + k = k
      OBVIOUS
    <3> QED
      BY <1>7, <3>1
  <2> QED
    BY <1>1, <2>1, <2>2 DEF Reached
<1>10. Len(g[Len(program')]) = 1 /\ Len(program') = n + 1
  BY <1>1, <1>5, <1>6
<1> QED
  BY <1>8, <1>9, <1>10 DEF ParserReached

\* What is left of a list behind its first j - 1 members, and behind one more.
LEMMA TailOfRest ==
    ASSUME NEW S, NEW q \in Seq(S), NEW list, Len(list) \in Nat, NEW j \in Nat, q # <<>>,
           Len(q) = Len(list) + 1 - j,
           \A k \in 1..Len(q) : q[k] = list[j - 1 + k]
    PROVE  /\ Len(Tail(q)) = Len(list) + 1 - (j + 1)
           /\ \A k \in 1..Len(Tail(q)) : Tail(q)[k] = list[j + 1 - 1 + k]
<1>1. /\ Len(Tail(q)) = Len(q) - 1 /\ Len(q) \in Nat
      /\ \A k \in 1..Len(Tail(q)) : Tail(q)[k] = q[k + 1]
  BY HeadTailProperties, LenProperties
<1>2. ASSUME NEW k \in 1..Len(Tail(q))
      PROVE  Tail(q)[k] = list[j + 1 - 1 + k]
  <2>1. k + 1 \in 1..Len(q) /\ j - 1 + (k + 1) = j + 1 - 1 + k
    BY <1>1
  <2>2. Tail(q)[k] = q[k + 1] /\ q[k + 1] = list[j - 1 + (k + 1)]
    BY <1>1, <2>1
  <2> QED
    BY <2>1, <2>2
<1> QED
  BY <1>1, <1>2

\* The parser, or the code generator, declares an argument.
LEMMA ArgReached ==
    ASSUME TypeOK, MentionedInv, UNCHANGED <<functions, program>>, NEW h, History(h),
           NEW m \in 0..Len(program), NEW j \in 1..Len(h[m]), Reached(h, m, j),
           toDeclare # <<>>, toDeclare' = Tail(toDeclare),
           j + 1 \in 1..Len(h[m]), Cur' = h[m][j + 1]
    PROVE  History(h)' /\ (\A i \in 0..Len(program) : Complete(h, i)' <=> Complete(h, i))
           /\ (m \in 0..Len(program) /\ j + 1 \in 1..Len(h[m]) /\ Reached(h, m, j + 1))'
<1>1. /\ toDeclare \in Seq([name : Name, type : Type])
      /\ Len(toDeclare) = Len(ArgList(m)) + 1 - j
      /\ \A k \in 1..Len(toDeclare) : toDeclare[k] = ArgList(m)[j - 1 + k]
  BY DEF TypeOK, Reached
<1>2. Len(ArgList(m)) \in Nat /\ j \in Nat /\ Len(toDeclare) \in Nat
  <2>1. Len(h[m]) \in Nat
    BY LenProperties DEF History
  <2> QED
    BY <1>1, <2>1, ListsAreLists, LenProperties
<1>4. \A i : ArgList(i)' = ArgList(i)
  BY DEF ArgList, ArgsOf, Declared
<1>5. History(h)' /\ \A i \in 0..Len(program) : Complete(h, i)' <=> Complete(h, i)
  BY <1>4 DEF History, Complete, LastOf
<1>6. /\ Len(toDeclare') = Len(ArgList(m)) + 1 - (j + 1)
      /\ \A k \in 1..Len(toDeclare') : toDeclare'[k] = ArgList(m)[j + 1 - 1 + k]
  <2>1. PICK q : q = toDeclare
    OBVIOUS
  <2>2. PICK list : list = ArgList(m)
    OBVIOUS
  <2>3. /\ q \in Seq([name : Name, type : Type]) /\ q # <<>>
        /\ Len(q) = Len(list) + 1 - j
        /\ \A k \in 1..Len(q) : q[k] = list[j - 1 + k]
    BY <1>1, <2>1, <2>2
  <2>4. Len(list) \in Nat /\ j \in Nat
    BY <1>2, <2>2
  <2>5. /\ Len(Tail(q)) = Len(list) + 1 - (j + 1)
        /\ \A k \in 1..Len(Tail(q)) : Tail(q)[k] = list[j + 1 - 1 + k]
    BY ONLY <2>3, <2>4, TailOfRest
  <2> QED
    BY <2>1, <2>2, <2>5
<1>7. /\ Len(toDeclare') = Len(ArgList(m)') + 1 - (j + 1)
      /\ \A k \in 1..Len(toDeclare') : toDeclare'[k] = ArgList(m)'[j + 1 - 1 + k]
  BY <1>4, <1>6
<1> QED
  BY <1>4, <1>5, <1>7 DEF Reached

\* The parser declares an argument: the history of the statement grows.
LEMMA HistoryDeclares ==
    ASSUME TypeOK, MentionedInv, UNCHANGED <<functions, program>>, NEW h, History(h),
           Reached(h, Len(program), Len(h[Len(program)])), toDeclare # <<>>,
           toDeclare' = Tail(toDeclare), NEW a, a = Head(toDeclare),
           Cur' = WithDeclared(Cur, a.name, a.type), ~RedefinedIn(Cur, a.name), Cur' \in Env
    PROVE  ParserReached'
<1> PICK n : n = Len(program)
  OBVIOUS
<1>1. /\ n \in Nat /\ n \in 0..n /\ program' = program
      /\ \A i : ArgList(i)' = ArgList(i)
  <2>1. n \in Nat
    BY LenProperties DEF TypeOK
  <2> QED
    BY <2>1 DEF ArgList, ArgsOf, Declared
<1> PICK e \in Env : e = Cur'
  OBVIOUS
<1>5. h[n] \in Seq(Env) /\ Len(h[n]) \in Nat /\ Len(h[n]) \in 1..Len(h[n])
  <2>1. h[n] \in Seq(Env) /\ Len(h[n]) \in 1..Len(ArgList(n)) + 1
    BY <1>1 DEF History
  <2>2. Len(h[n]) \in Nat /\ Len(h[n]) >= 1
    BY <1>1, <2>1, ListsAreLists
  <2> QED
    BY <2>1, <2>2
<1> PICK l \in Nat : l = Len(h[n])
  BY <1>5
<1>6. l <= Len(ArgList(n)) /\ a = ArgList(n)[l]
  BY <1>1, <1>5, AtStatement
<1>7. h[n][l] = Cur
  BY DEF Reached
<1> PICK s : s = Append(h[n], e)
  OBVIOUS
<1>8. /\ s \in Seq(Env) /\ Len(s) = l + 1 /\ s[l + 1] = e
      /\ \A j \in 1..l : s[j] = h[n][j]
  BY <1>5, AppendProperties
<1> DEFINE g == [h EXCEPT ![n] = s]
<1>9. h \in [0..n -> Seq(Env)] /\ \A i \in 0..n : Len(h[i]) \in 1..Len(ArgList(i)) + 1
  BY DEF History
<1>10. /\ g \in [0..n -> Seq(Env)] /\ g[n] = s
       /\ \A i \in 0..n : i # n => g[i] = h[i]
  BY <1>1, <1>8, <1>9
<1> HIDE DEF g
<1>11. l >= 1 /\ Len(ArgList(n)) \in Nat
  BY <1>1, <1>5, ListsAreLists
<1>12. History(g)'
  <2>1. g \in [0..Len(program') -> Seq(Env)]
    BY <1>1, <1>10
  <2>2. ASSUME NEW i \in 0..n
        PROVE  Len(g[i]) \in 1..Len(ArgList(i)') + 1
    <3>1. CASE i = n
      <4>1. l + 1 \in 1..Len(ArgList(n)) + 1
        BY <1>6, <1>11
      <4> QED
        BY <1>1, <1>8, <1>10, <3>1, <4>1
    <3>2. CASE i # n
      BY <1>1, <1>9, <1>10, <3>2
    <3> QED
      BY <3>1, <3>2
  <2>3. g[0] = <<EmptyEnv>>
    <3>1. h[0] = <<EmptyEnv>> /\ 0 \in 0..n
      BY <1>1 DEF History
    <3>2. CASE n = 0
      <4>1. ArgList(0) = <<>> /\ Len(<<>>) = 0
        BY DEF ArgList
      <4> QED
        BY <1>6, <1>11, <3>2, <4>1
    <3>3. CASE n # 0
      BY <1>10, <3>1, <3>3
    <3> QED
      BY <3>2, <3>3
  <2>4. ASSUME NEW i \in 1..n
        PROVE  /\ Len(g[i - 1]) = Len(ArgList(i - 1)') + 1
               /\ Legal(program'[i], g[i - 1][Len(g[i - 1])])
               /\ g[i][1] = After(program'[i], g[i - 1][Len(g[i - 1])])
               /\ \A j \in 1..Len(g[i]) - 1 :
                     /\ ~RedefinedIn(g[i][j], ArgList(i)'[j].name)
                     /\ g[i][j + 1] = WithDeclared(g[i][j], ArgList(i)'[j].name,
                                                   ArgList(i)'[j].type)
    <3> DEFINE k == i - 1
    <3>1. k \in 0..n /\ k # n /\ g[k] = h[k] /\ ArgList(k)' = ArgList(k) /\ i \in 0..n
      BY <1>1, <1>10
    <3>2. /\ Len(h[k]) = Len(ArgList(k)) + 1
          /\ Legal(program[i], h[k][Len(h[k])])
          /\ h[i][1] = After(program[i], h[k][Len(h[k])])
          /\ \A j \in 1..Len(h[i]) - 1 :
                /\ ~RedefinedIn(h[i][j], ArgList(i)[j].name)
                /\ h[i][j + 1] = WithDeclared(h[i][j], ArgList(i)[j].name,
                                              ArgList(i)[j].type)
      BY DEF History, Complete, LastOf
    <3> HIDE DEF k
    <3>3. g[i][1] = h[i][1]
      <4>1. 1 \in 1..l
        BY <1>11
      <4>2. CASE i = n
        BY <1>8, <1>10, <4>1, <4>2
      <4>3. CASE i # n
        BY <1>10, <3>1, <4>3
      <4> QED
        BY <4>2, <4>3
    <3>4. /\ Len(g[k]) = Len(ArgList(k)') + 1
          /\ Legal(program'[i], g[k][Len(g[k])])
          /\ g[i][1] = After(program'[i], g[k][Len(g[k])])
      BY <1>1, <3>1, <3>2, <3>3
    <3>5. ASSUME NEW j \in 1..Len(g[i]) - 1
          PROVE  /\ ~RedefinedIn(g[i][j], ArgList(i)[j].name)
                 /\ g[i][j + 1] = WithDeclared(g[i][j], ArgList(i)[j].name,
                                               ArgList(i)[j].type)
      <4>1. CASE i # n
        <5>1. g[i] = h[i]
          BY <1>10, <3>1, <4>1
        <5> QED
          BY <3>2, <5>1
      <4>2. CASE i = n /\ j = l
        <5>1. g[i][j] = Cur /\ g[i][j + 1] = e /\ ArgList(i)[j] = a
          <6>1. l \in 1..l
            BY <1>11
          <6> QED
            BY <1>6, <1>7, <1>8, <1>10, <4>2, <6>1
        <5> QED
          BY <5>1
      <4>3. CASE i = n /\ j # l
        <5>1. g[n] = s /\ j \in 1..l /\ j + 1 \in 1..l /\ j \in 1..Len(h[n]) - 1
          BY <1>8, <1>10, <1>11, <4>3
        <5>2. s[j] = h[n][j] /\ s[j + 1] = h[n][j + 1]
          BY <1>8, <5>1
        <5> QED
          BY <3>2, <4>3, <5>1, <5>2
      <4> QED
        BY <4>1, <4>2, <4>3
    <3>6. ArgList(i)' = ArgList(i)
      BY <1>1
    <3>7. \A j \in 1..Len(g[i]) - 1 :
             /\ ~RedefinedIn(g[i][j], ArgList(i)'[j].name)
             /\ g[i][j + 1] = WithDeclared(g[i][j], ArgList(i)'[j].name,
                                           ArgList(i)'[j].type)
      BY <3>5, <3>6
    <3> QED
      BY <3>4, <3>7 DEF k
  <2> QED
    BY <1>1, <2>1, <2>2, <2>3, <2>4 DEF History, Complete, LastOf
<1>13. Reached(g, n, l + 1)'
  <2>1. /\ toDeclare \in Seq([name : Name, type : Type])
        /\ Len(toDeclare) = Len(ArgList(n)) + 1 - l
        /\ \A k \in 1..Len(toDeclare) : toDeclare[k] = ArgList(n)[l - 1 + k]
    BY DEF TypeOK, Reached
  <2>2. /\ Len(toDeclare') = Len(ArgList(n)) + 1 - (l + 1)
        /\ \A k \in 1..Len(toDeclare') : toDeclare'[k] = ArgList(n)[l + 1 - 1 + k]
    <3>1. PICK q : q = toDeclare
      OBVIOUS
    <3>2. PICK list : list = ArgList(n)
      OBVIOUS
    <3>3. /\ q \in Seq([name : Name, type : Type]) /\ q # <<>>
          /\ Len(q) = Len(list) + 1 - l
          /\ \A k \in 1..Len(q) : q[k] = list[l - 1 + k]
      BY <2>1, <3>1, <3>2
    <3>4. Len(list) \in Nat /\ l \in Nat
      BY <1>11, <3>2
    <3>5. /\ Len(Tail(q)) = Len(list) + 1 - (l + 1)
          /\ \A k \in 1..Len(Tail(q)) : Tail(q)[k] = list[l + 1 - 1 + k]
      BY ONLY <3>3, <3>4, TailOfRest
    <3> QED
      BY <3>1, <3>2, <3>5
  <2>3. /\ Len(toDeclare') = Len(ArgList(n)') + 1 - (l + 1)
        /\ \A k \in 1..Len(toDeclare') : toDeclare'[k] = ArgList(n)'[l + 1 - 1 + k]
    BY <1>1, <2>2
  <2>6. g[n][l + 1] = Cur' /\ l + 1 \in 1..Len(g[n]) /\ n \in 0..Len(program')
    BY <1>1, <1>8, <1>10, <1>11
  <2> QED
    BY <2>3, <2>6 DEF Reached
<1>14. Len(program') = n /\ Len(g[n]) = l + 1
  BY <1>1, <1>8, <1>10
<1> QED
  BY <1>12, <1>13, <1>14 DEF ParserReached

------------------------------------------------------------------------------
(* The parser's steps.                                                     *)

\* While the parser runs nothing is compiled yet.
LEMMA NothingCompiled ==
    ASSUME CleanInv, phase = "parse", compiled' = compiled
    PROVE  BindsAlike'
<1>1. compiled' = <<>> /\ DOMAIN <<>> = {}
  BY DEF CleanInv
<1> QED
  BY <1>1 DEF BindsAlike

\* It accepts a statement or the header of a function.
LEMMA Accepts ==
    ASSUME PassInv, phase = "parse", ~failed, toDeclare = <<>>, ListsKept,
           NEW item \in Item, Parsed(item), Legal(item, Cur), Cur' = After(item, Cur),
           toDeclare' = IF item.op = "define" THEN ArgsOf(item.function)' ELSE <<>>,
           toDeclare' \in Seq([name : Name, type : Type]),
           item.op = "define" => Declared(item.function)' # {},
           functions' \subseteq [symbol : Function, args : Args, defined : BOOLEAN],
           \A f, g \in functions' : f.symbol = g.symbol => f = g,
           Frame!TypeOK', inFunction' \in BOOLEAN, UNCHANGED <<phase, compiled>>
    PROVE  BindInv'
<1>1. TypeOK /\ MentionedInv /\ ParserReached
  BY DEF PassInv, BindInv, HistoryInv
<1>2. /\ Len(program) \in Nat /\ Len(program') = Len(program) + 1
      /\ \A i \in 1..Len(program) : program'[i] = program[i]
      /\ program'[Len(program) + 1] = item
  BY <1>1, ProgramGrows DEF TypeOK
<1>3. TypeOK'
  <2>1. program' \in Seq(Item)
    BY <1>1, AppendProperties DEF TypeOK, Parsed
  <2>2. phase' \in {"parse", "compile", "done"} /\ compiled' \in Seq([bound : Int, frame : Int])
    BY <1>1 DEF TypeOK
  <2> QED
    BY <2>1, <2>2 DEF TypeOK
<1>4. MentionedInv'
  <2>1. ASSUME NEW i \in 1..Len(program) + 1, program'[i].op = "define"
        PROVE  Declared(program[i].function)' # {}
    <3>1. CASE i = Len(program) + 1
      BY <1>2, <2>1, <3>1 DEF Declared
    <3>2. CASE i # Len(program) + 1
      <4>1. i \in 1..Len(program) /\ program'[i] = program[i]
        BY <1>2, <3>2
      <4>2. Declared(program[i].function) # {}
        BY <1>1, <2>1, <4>1 DEF MentionedInv
      <4>3. PICK s : s = program[i].function
        OBVIOUS
      <4>4. Declared(s)' # {}
        BY <4>2, <4>3 DEF ListsKept
      <4> QED
        BY <4>1, <4>3, <4>4 DEF Declared
    <3> QED
      BY <3>1, <3>2
  <2> QED
    BY <1>2, <2>1 DEF MentionedInv
<1>5. ParserReached'
  <2>1. Cur' \in Env
    BY NextIsEnv
  <2>2. Len(toDeclare') \in Nat
    BY LenProperties
  <2>3. PICK h : History(h) /\ Reached(h, Len(program), Len(h[Len(program)]))
    BY <1>1 DEF ParserReached
  <2> QED
    BY <1>1, <2>1, <2>2, <2>3, HistoryGrows
<1> QED
  BY <1>3, <1>4, <1>5, NothingCompiled DEF PassInv, BindInv, HistoryInv, CompileNeverFails

\* It reports an error.
LEMMA Rejects ==
    ASSUME PassInv, phase = "parse", failed' = TRUE, Frame!TypeOK',
           UNCHANGED <<functions, program, inFunction, phase, compiled>>,
           toDeclare' \in Seq([name : Name, type : Type])
    PROVE  BindInv'
<1>1. TypeOK /\ MentionedInv
  BY DEF PassInv, BindInv
<1>2. TypeOK' /\ MentionedInv'
  BY <1>1 DEF TypeOK, MentionedInv, Declared
<1> QED
  BY <1>2, NothingCompiled DEF PassInv, BindInv, HistoryInv, CompileNeverFails

LEMMA SameTable ==
    ASSUME functions' = functions
    PROVE  ListsKept
BY DEF ListsKept, ArgsOf, Declared

LEMMA ParseDeclarationKeeps ==
    ASSUME PassInv, NEW function \in Function, NEW args \in Args,
           ParseDeclaration(function, args)
    PROVE  BindInv'
<1> PICK item : item = [Bare("declare") EXCEPT !.function = function]
  OBVIOUS
<1>1. /\ item \in Item /\ item.op = "declare" /\ item.bound = None /\ item.frame = None
      /\ item.function = function
  BY DEF Bare, Item, Ops, None
<1>2. /\ phase = "parse" /\ ~failed /\ ~inFunction /\ DeclareFunction(function, args, FALSE)
      /\ Parsed(item) /\ toDeclare' = toDeclare
      /\ UNCHANGED <<scopes, inFunction, phase, compiled>>
  BY DEF ParseDeclaration, Parsing
<1>3. toDeclare = <<>> /\ TypeOK /\ inFunction' \in BOOLEAN
  BY <1>2 DEF PassInv, CleanInv, BindInv
<1>4. Frame!TypeOK' /\ Cur' = Cur
  BY <1>2, <1>3 DEF TypeOK, scopes, Frame!TypeOK, Cur
<1>5. /\ functions' \subseteq [symbol : Function, args : Args, defined : BOOLEAN]
      /\ \A f, g \in functions' : f.symbol = g.symbol => f = g
      /\ ListsKept
  BY <1>2, <1>3, TableKept DEF ListsKept
<1>6. Legal(item, Cur) /\ Cur' = After(item, Cur)
  BY <1>1, <1>4 DEF Legal, After, Ops
<1>7. toDeclare' = <<>> /\ <<>> \in Seq([name : Name, type : Type])
  BY <1>2, <1>3, EmptySeq
<1> QED
  BY <1>1, <1>2, <1>3, <1>4, <1>5, <1>6, <1>7, Accepts

LEMMA ParseDefinitionKeeps ==
    ASSUME PassInv, NEW function \in Function, NEW args \in Args,
           ParseDefinition(function, args)
    PROVE  BindInv'
<1> PICK item : item = [Bare("define") EXCEPT !.function = function]
  OBVIOUS
<1>1. /\ item \in Item /\ item.op = "define" /\ item.bound = None /\ item.frame = None
      /\ item.function = function
  BY DEF Bare, Item, Ops, None
<1>2. /\ phase = "parse" /\ ~failed /\ ~inFunction /\ DeclareFunction(function, args, TRUE)
      /\ Parsed(item) /\ toDeclare' = BodyArgs(function, args) /\ inFunction' = TRUE
      /\ UNCHANGED <<scopes, phase, compiled>>
  BY DEF ParseDefinition, Parsing
<1>3. toDeclare = <<>> /\ TypeOK /\ inFunction' \in BOOLEAN
  BY <1>2 DEF PassInv, CleanInv, BindInv
<1>4. Frame!TypeOK' /\ Cur' = Cur
  BY <1>2, <1>3 DEF TypeOK, scopes, Frame!TypeOK, Cur
<1>5. /\ functions' \subseteq [symbol : Function, args : Args, defined : BOOLEAN]
      /\ \A f, g \in functions' : f.symbol = g.symbol => f = g
      /\ ListsKept /\ Declared(function)' # {}
      /\ ArgsOf(function)' = BodyArgs(function, args)
  BY <1>2, <1>3, TableKept DEF ListsKept
<1>6. Legal(item, Cur) /\ Cur' = After(item, Cur)
  BY <1>1, <1>4 DEF Legal, After, Ops
<1>7. toDeclare' = ArgsOf(function)' /\ Declared(item.function)' # {}
      /\ ArgsOf(function)' = ArgsOf(item.function)'
  BY <1>1, <1>2, <1>5
<1>8. toDeclare' \in Seq([name : Name, type : Type])
  <2>1. CASE Declared(function) = {}
    BY <1>2, <2>1, TwoPassAssumption DEF BodyArgs
  <2>2. CASE Declared(function) # {}
    <3>1. BodyArgs(function, args) = ArgsOf(function)
      BY <2>2 DEF BodyArgs, ArgsOf
    <3> QED
      BY <1>2, <1>3, <2>2, <3>1, ArgsOfType
  <2> QED
    BY <2>1, <2>2
<1> QED
  BY <1>1, <1>2, <1>3, <1>4, <1>5, <1>6, <1>7, <1>8, Accepts

LEMMA ParseArgKeeps ==
    ASSUME PassInv, ParseArg
    PROVE  BindInv'
<1>1. TypeOK /\ MentionedInv /\ phase = "parse" /\ ~failed /\ toDeclare # <<>>
  BY DEF PassInv, BindInv, ParseArg, Parsing
<1>2. /\ toDeclare' = Tail(toDeclare)
      /\ UNCHANGED <<functions, program, inFunction, phase, compiled>>
      /\ \/ Frame!Declare(Head(toDeclare).name, Head(toDeclare).type)
         \/ Frame!DeclareFails(Head(toDeclare).name)
  BY DEF ParseArg
<1>3. /\ toDeclare' \in Seq([name : Name, type : Type])
      /\ Head(toDeclare) \in [name : Name, type : Type]
  BY <1>1, <1>2, HeadTailProperties DEF TypeOK
<1>4. CASE Frame!Declare(Head(toDeclare).name, Head(toDeclare).type)
  <2> PICK a \in [name : Name, type : Type] : a = Head(toDeclare)
    BY <1>3
  <2>1. a.name \in Name /\ a.type \in Type /\ Frame!TypeOK /\ Frame!Declare(a.name, a.type)
    BY <1>1, <1>4 DEF TypeOK
  <2>2. /\ Cur' = WithDeclared(Cur, a.name, a.type) /\ ~RedefinedIn(Cur, a.name)
        /\ Frame!TypeOK' /\ Cur' \in Env
    BY <2>1, DeclareIs, NextIsEnv
  <2>3. PICK h : History(h) /\ Reached(h, Len(program), Len(h[Len(program)]))
    BY <1>1 DEF PassInv, BindInv, HistoryInv, ParserReached
  <2>4. ParserReached'
    BY <1>1, <1>2, <2>2, <2>3, HistoryDeclares
  <2>5. TypeOK' /\ MentionedInv'
    BY <1>1, <1>2, <1>3, <2>2 DEF TypeOK, MentionedInv, Declared
  <2> QED
    BY <1>1, <1>2, <2>4, <2>5, NothingCompiled
       DEF PassInv, BindInv, HistoryInv, CompileNeverFails
<1>5. CASE Frame!DeclareFails(Head(toDeclare).name)
  <2>1. Frame!TypeOK' /\ failed' = TRUE
    BY <1>1, <1>5, DeclareFailsIs DEF TypeOK
  <2> QED
    BY <1>1, <1>2, <1>3, <2>1, Rejects
<1> QED
  BY <1>2, <1>4, <1>5

LEMMA Items ==
    ASSUME NEW op \in Ops, NEW function \in Function \cup {NoInit},
           NEW name \in Name \cup {NoInit}, NEW type \in Type \cup {NoInit},
           NEW init \in Name \cup {NoInit}, NEW bound \in Int, NEW frame \in Int
    PROVE  [op |-> op, function |-> function, name |-> name, type |-> type,
            init |-> init, bound |-> bound, frame |-> frame] \in Item
BY DEF Item

LEMMA ParseUseKeeps ==
    ASSUME PassInv, NEW name \in Name, ParseUse(name)
    PROVE  BindInv'
<1>1. /\ phase = "parse" /\ ~failed /\ inFunction /\ toDeclare = <<>> /\ Resolves(name)
      /\ Parsed([Bare("use") EXCEPT !.name = name, !.bound = OffsetOf(name)])
      /\ UNCHANGED <<scopes, functions, inFunction, toDeclare, phase, compiled>>
  BY DEF ParseUse, InBody, Parsing
<1>2. TypeOK /\ inFunction' \in BOOLEAN /\ Frame!TypeOK
  BY <1>1 DEF PassInv, CleanInv, BindInv, TypeOK
<1>3. OffsetOf(name) \in Nat
  BY <1>1, <1>2, OffsetsAreNumbers
<1> PICK offset \in Nat : offset = OffsetOf(name)
  BY <1>3
<1>11. PICK item : item = [Bare("use") EXCEPT !.name = name, !.bound = offset]
  OBVIOUS
<1>4. /\ item \in Item /\ item.op = "use" /\ item.bound = offset /\ item.frame = None
      /\ item.name = name
  <2>1. item = [op |-> "use", function |-> NoInit, name |-> name, type |-> NoInit,
                init |-> NoInit, bound |-> offset, frame |-> None]
    BY <1>11 DEF Bare
  <2>2. /\ "use" \in Ops /\ None \in Int /\ offset \in Int /\ name \in Name \cup {NoInit}
        /\ NoInit \in Function \cup {NoInit} /\ NoInit \in Name \cup {NoInit}
        /\ NoInit \in Type \cup {NoInit}
    BY DEF Ops, None
  <2>3. item \in Item
    BY <2>1, <2>2, Items
  <2> QED
    BY <2>1, <2>3
<1>5. Parsed(item)
  BY <1>1, <1>11
<1>6. Frame!TypeOK' /\ Cur' = Cur
  BY <1>1, <1>2 DEF scopes, Frame!TypeOK, Cur
<1>7. ResolutionsIn(Cur, name) # {} /\ offset = OffsetIn(Cur, name)
  BY <1>1, <1>2, CurIsEnv DEF Resolves
<1>8. Legal(item, Cur) /\ Cur' = After(item, Cur)
  BY <1>4, <1>6, <1>7 DEF Legal, After, Ops
<1>9. /\ functions' \subseteq [symbol : Function, args : Args, defined : BOOLEAN]
      /\ \A f, g \in functions' : f.symbol = g.symbol => f = g
      /\ ListsKept
  BY <1>1, <1>2, SameTable DEF TypeOK
<1>10. toDeclare' = <<>> /\ <<>> \in Seq([name : Name, type : Type])
  BY <1>1, EmptySeq
<1> QED
  BY <1>1, <1>2, <1>4, <1>5, <1>6, <1>8, <1>9, <1>10, Accepts

LEMMA ParseVarKeeps ==
    ASSUME PassInv, NEW name \in Name, NEW type \in Type, NEW init \in Name \cup {NoInit},
           ParseVar(name, type, init)
    PROVE  BindInv'
<1>1. /\ phase = "parse" /\ ~failed /\ inFunction /\ toDeclare = <<>>
      /\ init # NoInit => Resolves(init)
      /\ UNCHANGED <<functions, inFunction, toDeclare, phase, compiled>>
  BY DEF ParseVar, InBody, Parsing
<1>2. TypeOK /\ inFunction' \in BOOLEAN /\ Frame!TypeOK
  BY <1>1 DEF PassInv, CleanInv, BindInv, TypeOK
<1>3. toDeclare' = <<>> /\ <<>> \in Seq([name : Name, type : Type])
  BY <1>1, EmptySeq
<1>4. ASSUME Frame!Declare(name, type),
             Parsed([Bare("var") EXCEPT
                        !.name = name, !.type = type, !.init = init,
                        !.bound = IF init = NoInit THEN None ELSE OffsetOf(init)])
      PROVE  BindInv'
  <2>1. (IF init = NoInit THEN None ELSE OffsetOf(init)) \in Int
    <3>1. init # NoInit => OffsetOf(init) \in Nat
      BY <1>1, <1>2, OffsetsAreNumbers
    <3> QED
      BY <3>1 DEF None
  <2> PICK bound \in Int : bound = IF init = NoInit THEN None ELSE OffsetOf(init)
    BY <2>1
  <2>10. PICK item : item = [Bare("var") EXCEPT !.name = name, !.type = type, !.init = init,
                                                !.bound = bound]
    OBVIOUS
  <2>2. /\ item \in Item /\ item.op = "var" /\ item.bound = bound /\ item.frame = None
        /\ item.name = name /\ item.type = type /\ item.init = init
    <3>1. item = [op |-> "var", function |-> NoInit, name |-> name, type |-> type,
                  init |-> init, bound |-> bound, frame |-> None]
      BY <2>10 DEF Bare
    <3>2. /\ "var" \in Ops /\ None \in Int /\ name \in Name \cup {NoInit}
          /\ type \in Type \cup {NoInit} /\ NoInit \in Function \cup {NoInit}
      BY DEF Ops, None
    <3>3. item \in Item
      BY <3>1, <3>2, Items
    <3> QED
      BY <3>1, <3>3
  <2>3. Parsed(item)
    BY <1>4, <2>10
  <2>4. /\ Cur' = WithDeclared(Cur, name, type) /\ ~RedefinedIn(Cur, name)
        /\ Frame!TypeOK'
    BY <1>2, <1>4, DeclareIs
  <2>5. init # NoInit => ResolutionsIn(Cur, init) # {} /\ bound = OffsetIn(Cur, init)
    BY <1>1, <1>2, CurIsEnv DEF Resolves
  <2>6. Cur' = After(item, Cur)
    BY <2>2, <2>4 DEF After
  <2>7. Legal(item, Cur)
    BY <2>2, <2>4, <2>5 DEF Legal, Ops
  <2>8. /\ functions' \subseteq [symbol : Function, args : Args, defined : BOOLEAN]
        /\ \A f, g \in functions' : f.symbol = g.symbol => f = g
        /\ ListsKept
    BY <1>1, <1>2, SameTable DEF TypeOK
  <2>9. /\ item.op # "define" /\ toDeclare' = <<>>
        /\ toDeclare' \in Seq([name : Name, type : Type])
    BY <1>3, <2>2
  <2> QED
    BY <1>1, <1>2, <2>2, <2>3, <2>4, <2>6, <2>7, <2>8, <2>9, Accepts
<1>5. ASSUME Frame!DeclareFails(name), UNCHANGED program
      PROVE  BindInv'
  <2>1. Frame!TypeOK' /\ failed' = TRUE
    BY <1>2, <1>5, DeclareFailsIs
  <2> QED
    BY <1>1, <1>3, <1>5, <2>1, Rejects
<1> QED
  BY <1>4, <1>5 DEF ParseVar

\* A statement that only has an operation.
LEMMA BareItems ==
    ASSUME NEW op \in Ops
    PROVE  /\ Bare(op) \in Item /\ Bare(op).op = op
           /\ Bare(op).bound = None /\ Bare(op).frame = None
BY DEF Bare, Item, Ops, None

LEMMA ParseOpenKeeps ==
    ASSUME PassInv, ParseOpen
    PROVE  BindInv'
<1>1. /\ phase = "parse" /\ ~failed /\ inFunction /\ toDeclare = <<>>
      /\ Frame!Push /\ Parsed(Bare("open"))
      /\ UNCHANGED <<functions, inFunction, toDeclare, phase, compiled>>
  BY DEF ParseOpen, InBody, Parsing
<1>2. TypeOK /\ inFunction' \in BOOLEAN /\ Frame!TypeOK
  BY <1>1 DEF PassInv, CleanInv, BindInv, TypeOK
<1>3. toDeclare' = <<>> /\ <<>> \in Seq([name : Name, type : Type])
  BY <1>1, EmptySeq
<1> PICK item : item = Bare("open")
  OBVIOUS
<1>4. /\ item \in Item /\ item.op = "open" /\ item.bound = None /\ item.frame = None
      /\ Parsed(item)
  BY <1>1, BareItems DEF Ops
<1>5. Cur' = [Cur EXCEPT !.depth = @ + 1] /\ Frame!TypeOK'
  BY <1>1, <1>2, PushIs
<1>6. Legal(item, Cur) /\ Cur' = After(item, Cur)
  BY <1>4, <1>5 DEF Legal, After, Ops
<1>7. /\ functions' \subseteq [symbol : Function, args : Args, defined : BOOLEAN]
      /\ \A f, g \in functions' : f.symbol = g.symbol => f = g
      /\ ListsKept
  BY <1>1, <1>2, SameTable DEF TypeOK
<1> QED
  BY <1>1, <1>2, <1>3, <1>4, <1>5, <1>6, <1>7, Accepts

LEMMA ParseCloseKeeps ==
    ASSUME PassInv, ParseClose
    PROVE  BindInv'
<1>1. /\ phase = "parse" /\ ~failed /\ inFunction /\ toDeclare = <<>>
      /\ Frame!Pop /\ Parsed(Bare("close"))
      /\ UNCHANGED <<functions, inFunction, toDeclare, phase, compiled>>
  BY DEF ParseClose, InBody, Parsing
<1>2. TypeOK /\ inFunction' \in BOOLEAN /\ Frame!TypeOK
  BY <1>1 DEF PassInv, CleanInv, BindInv, TypeOK
<1>3. toDeclare' = <<>> /\ <<>> \in Seq([name : Name, type : Type])
  BY <1>1, EmptySeq
<1> PICK item : item = Bare("close")
  OBVIOUS
<1>4. /\ item \in Item /\ item.op = "close" /\ item.bound = None /\ item.frame = None
      /\ Parsed(item)
  BY <1>1, BareItems DEF Ops
<1>5. /\ Cur' = [depth |-> Cur.depth - 1, off |-> Cur.off,
                 live |-> {x \in Cur.live : x.depth < Cur.depth}]
      /\ Frame!TypeOK'
  BY <1>1, <1>2, PopIs
<1>6. Legal(item, Cur) /\ Cur' = After(item, Cur)
  BY <1>4, <1>5 DEF Legal, After, Ops
<1>7. /\ functions' \subseteq [symbol : Function, args : Args, defined : BOOLEAN]
      /\ \A f, g \in functions' : f.symbol = g.symbol => f = g
      /\ ListsKept
  BY <1>1, <1>2, SameTable DEF TypeOK
<1> QED
  BY <1>1, <1>2, <1>3, <1>4, <1>5, <1>6, <1>7, Accepts

LEMMA ParseEndKeeps ==
    ASSUME PassInv, ParseEnd
    PROVE  BindInv'
<1>1. /\ phase = "parse" /\ ~failed /\ toDeclare = <<>>
      /\ Frame!New /\ Parsed([Bare("end") EXCEPT !.frame = stackOffset])
      /\ UNCHANGED <<functions, toDeclare, phase, compiled>> /\ inFunction' = FALSE
  BY DEF ParseEnd, InBody, Parsing, AfterBody
<1>2. TypeOK /\ inFunction' \in BOOLEAN /\ Frame!TypeOK
  BY <1>1 DEF PassInv, CleanInv, BindInv, TypeOK
<1>3. toDeclare' = <<>> /\ <<>> \in Seq([name : Name, type : Type])
  BY <1>1, EmptySeq
<1>8. stackOffset \in Nat
  BY <1>2 DEF Frame!TypeOK
<1> PICK frame \in Nat : frame = stackOffset
  BY <1>8
<1> PICK item : item = [Bare("end") EXCEPT !.frame = frame]
  OBVIOUS
<1>4. /\ item \in Item /\ item.op = "end" /\ item.bound = None /\ item.frame = Cur.off
  BY DEF Bare, Item, Ops, None, Cur
<1>9. Parsed(item)
  BY <1>1
<1>5. Cur' = EmptyEnv /\ Frame!TypeOK'
  BY <1>1, <1>2, NewIs
<1>6. Legal(item, Cur) /\ Cur' = After(item, Cur)
  BY <1>4, <1>5 DEF Legal, After, Ops
<1>7. /\ functions' \subseteq [symbol : Function, args : Args, defined : BOOLEAN]
      /\ \A f, g \in functions' : f.symbol = g.symbol => f = g
      /\ ListsKept
  BY <1>1, <1>2, SameTable DEF TypeOK
<1> QED
  BY <1>1, <1>2, <1>3, <1>4, <1>5, <1>6, <1>7, <1>9, Accepts

\* The code generator starts where the parser did: in the same empty scope.
LEMMA StartCompileKeeps ==
    ASSUME PassInv, StartCompile
    PROVE  BindInv'
<1>1. /\ phase = "parse" /\ ~failed /\ ~inFunction /\ phase' = "compile"
      /\ UNCHANGED <<scopes, functions, program, inFunction, toDeclare, compiled>>
  BY DEF StartCompile, Parsing
<1>2. TypeOK /\ MentionedInv /\ toDeclare = <<>> /\ compiled = <<>> /\ Cur = EmptyEnv
  BY <1>1 DEF PassInv, CleanInv, BindInv, FunctionsStartClean, Cur, EmptyEnv
<1>3. PICK h : History(h) /\ Reached(h, Len(program), Len(h[Len(program)]))
  BY <1>1 DEF PassInv, BindInv, HistoryInv, ParserReached
<1>4. Complete(h, Len(program))
  <2>1. Len(program) \in 0..Len(program)
    BY LenProperties, <1>2 DEF TypeOK
  <2>2. Len(h[Len(program)]) \in 1..Len(h[Len(program)])
    BY <1>3 DEF Reached
  <2> QED
    BY <1>2, <1>3, <2>1, <2>2, AtStatement
<1>5. History(h)' /\ Complete(h, Len(program))'
  <2>1. \A i : ArgList(i)' = ArgList(i)
    BY <1>1 DEF ArgList, ArgsOf, Declared
  <2> QED
    BY <1>1, <1>3, <1>4, <2>1 DEF History, Complete, LastOf
<1>6. 0 \in 0..Len(program) /\ h[0] = <<EmptyEnv>>
  <2>1. Len(program) \in Nat
    BY LenProperties, <1>2 DEF TypeOK
  <2> QED
    BY <1>3, <2>1 DEF History
<1>7. Len(<<EmptyEnv>>) = 1 /\ <<EmptyEnv>>[1] = EmptyEnv /\ Len(<<>>) = 0
  OBVIOUS
<1>8. ArgList(0)' = <<>>
  BY DEF ArgList
<1>9. Cur' = EmptyEnv
  BY <1>1, <1>2 DEF scopes, Cur
<1>10. Len(h[0]) = 1 /\ h[0][1] = EmptyEnv
  BY <1>6, <1>7, Zenon
<1>11. (Reached(h, 0, 1))'
  <2>1. /\ 0 \in 0..Len(program') /\ 1 \in 1..Len(h[0]) /\ Cur' = h[0][1]
    BY <1>1, <1>6, <1>9, <1>10
  <2>2. Len(toDeclare') = 0 /\ Len(ArgList(0)') = 0
    BY <1>1, <1>2, <1>7, <1>8
  <2>3. /\ Len(toDeclare') = Len(ArgList(0)') + 1 - 1
        /\ \A k \in 1..Len(toDeclare') : toDeclare'[k] = ArgList(0)'[1 - 1 + k]
    BY <2>2
  <2> QED
    BY <2>1, <2>3 DEF Reached
<1>12. Len(compiled') = 0
  BY <1>1, <1>2, <1>7
<1>13. CompilerReached'
  BY <1>5, <1>10, <1>11, <1>12 DEF CompilerReached
<1>14. TypeOK' /\ MentionedInv'
  <2>1. Frame!TypeOK'
    BY <1>1, <1>2 DEF scopes, TypeOK, Frame!TypeOK
  <2> QED
    BY <1>1, <1>2, <2>1 DEF TypeOK, MentionedInv, Declared
<1>15. CompileNeverFails'
  BY <1>1 DEF scopes, CompileNeverFails
<1> QED
  BY <1>1, <1>13, <1>14, <1>15, NothingCompiled DEF PassInv, BindInv, HistoryInv

------------------------------------------------------------------------------
(* The code generator's steps.                                             *)

LEMMA NextResolves ==
    ASSUME NEW name
    PROVE  /\ ResolutionsIn(Cur', name) = Frame!Resolutions(name)'
           /\ OffsetOf(name)' = OffsetIn(Cur', name)
<1>1. Cur'.live = live'
  BY DEF Cur
<1>2. ResolutionsIn(Cur', name) = Frame!Resolutions(name)'
  BY <1>1 DEF ResolutionsIn, Frame!Resolutions
<1>3. (CHOOSE x \in ResolutionsIn(Cur', name) : TRUE)
          = (CHOOSE x \in Frame!Resolutions(name)' : TRUE)
  BY <1>2, Zenon
<1> QED
  BY <1>2, <1>3 DEF OffsetIn, OffsetOf

\* A declaration leaves the resolution of other names as it is, and of its own
\* name leaves some.
LEMMA AfterDeclaring ==
    ASSUME NEW e \in Env, NEW name, NEW type, NEW init
    PROVE  /\ init # name =>
                 ResolutionsIn(WithDeclared(e, name, type), init) = ResolutionsIn(e, init)
           /\ ResolutionsIn(e, init) # {} =>
                 ResolutionsIn(WithDeclared(e, name, type), init) # {}
<1> DEFINE offset == e.off + Frame!SlotSize(type)
           new == [depth |-> e.depth, name |-> name, offset |-> offset, type |-> type]
           after == WithDeclared(e, name, type)
<1>1. /\ after.live = e.live \cup {new} /\ new.name = name /\ new.depth = e.depth
      /\ e.depth \in Nat /\ \A x \in e.live : x.depth \in Int
  BY TwoPassAssumption DEF WithDeclared, Env, Frame!Entry
<1> HIDE DEF new, after
<1>2. init # name => ResolutionsIn(after, init) = ResolutionsIn(e, init)
  BY <1>1 DEF ResolutionsIn
<1>3. ASSUME NEW x \in ResolutionsIn(e, init)
      PROVE  ResolutionsIn(after, init) # {}
  <2>1. x \in e.live /\ x.name = init /\ \A y \in e.live : y.name = init => y.depth <= x.depth
    BY DEF ResolutionsIn
  <2>2. CASE init # name
    BY <1>2, <1>3, <2>2
  <2>3. CASE init = name /\ x.depth <= e.depth
    <3>1. \A y \in after.live : y.name = init => y.depth <= new.depth
      BY <1>1, <2>1, <2>3
    <3> QED
      BY <1>1, <2>3, <3>1 DEF ResolutionsIn
  <2>4. CASE ~(x.depth <= e.depth)
    <3>1. \A y \in after.live : y.name = init => y.depth <= x.depth
      BY <1>1, <2>1, <2>4
    <3> QED
      BY <1>1, <2>1, <3>1 DEF ResolutionsIn
  <2> QED
    BY <2>2, <2>3, <2>4
<1> QED
  BY <1>2, <1>3 DEF after

LEMMA OffsetsInEnv ==
    ASSUME NEW e \in Env, NEW name, ResolutionsIn(e, name) # {}
    PROVE  OffsetIn(e, name) \in Nat
<1> DEFINE x == CHOOSE y \in ResolutionsIn(e, name) : TRUE
<1>1. x \in ResolutionsIn(e, name)
  OBVIOUS
<1> HIDE DEF x
<1>2. x \in Frame!Entry
  BY <1>1 DEF ResolutionsIn, Env
<1>3. x.offset \in Nat
  BY <1>2 DEF Frame!Entry
<1> QED
  BY <1>3 DEF OffsetIn, x

\* The statement the code generator comes to is one the parser accepted in the
\* environment that the code generator is in.
LEMMA CompilerAt ==
    ASSUME PassInv, NEW op, Compiling(op)
    PROVE  /\ Len(compiled) \in Nat /\ Len(compiled) + 1 \in 1..Len(program)
           /\ Current \in Item /\ Current.op = op /\ Legal(Current, Cur)
           /\ \E h : /\ History(h) /\ Complete(h, Len(program))
                     /\ h[Len(compiled) + 1][1] = After(Current, Cur)
<1>1. /\ phase = "compile" /\ toDeclare = <<>> /\ Len(compiled) < Len(program)
      /\ program[Len(compiled) + 1].op = op
  BY DEF Compiling
<1>2. TypeOK /\ MentionedInv /\ CompilerReached
  BY <1>1 DEF PassInv, BindInv, HistoryInv
<1>3. Len(compiled) \in Nat /\ Len(program) \in Nat
  BY <1>2, LenProperties DEF TypeOK
<1> PICK m \in Nat : m = Len(compiled)
  BY <1>3
<1>4. m + 1 \in 1..Len(program) /\ m \in 0..Len(program) /\ (m + 1) - 1 = m
  BY <1>1, <1>3
<1>5. Current \in Item /\ Current = program[m + 1]
  BY <1>2, <1>4, ElementOfSeq DEF TypeOK, Current
<1>6. PICK h : /\ History(h) /\ Complete(h, Len(program))
               /\ \E j \in 1..Len(h[m]) : Reached(h, m, j)
  BY <1>2 DEF CompilerReached
<1>7. LastOf(h, m) = Cur
  BY <1>1, <1>2, <1>4, <1>6, AtStatement
<1>8. Legal(program[m + 1], LastOf(h, m)) /\ h[m + 1][1] = After(program[m + 1], LastOf(h, m))
  <2> PICK i : i = m + 1
    OBVIOUS
  <2>1. i \in 1..Len(program) /\ i - 1 = m
    BY <1>4
  <2>2. Legal(program[i], LastOf(h, i - 1)) /\ h[i][1] = After(program[i], LastOf(h, i - 1))
    BY <1>6, <2>1 DEF History
  <2> QED
    BY <2>1, <2>2
<1> QED
  BY <1>1, <1>4, <1>5, <1>6, <1>7, <1>8

\* It compiles the statement.
LEMMA Compiles ==
    ASSUME PassInv, NEW op, Compiling(op), NEW r \in [bound : Int, frame : Int],
           compiled' = Append(compiled, r), Cur' = After(Current, Cur),
           r.frame = Current.frame, ~OwnInitialiser(Current) => r.bound = Current.bound,
           toDeclare' = ArgList(Len(compiled) + 1),
           UNCHANGED <<functions, program, phase>>, failed' = FALSE, Frame!TypeOK',
           inFunction' \in BOOLEAN
    PROVE  BindInv'
<1>1. TypeOK /\ MentionedInv /\ BindsAlike /\ phase = "compile"
  BY DEF PassInv, BindInv, Compiling
<1>2. Len(compiled) \in Nat /\ Len(compiled) + 1 \in 1..Len(program)
  BY CompilerAt
<1>3. PICK h : /\ History(h) /\ Complete(h, Len(program))
               /\ h[Len(compiled) + 1][1] = After(Current, Cur)
  BY CompilerAt
<1> PICK m \in Nat : m = Len(compiled)
  BY <1>2
<1> PICK i : i = m + 1
  OBVIOUS
<1>4. i \in 1..Len(program) /\ i \in 0..Len(program)
  BY <1>2
<1>5. /\ compiled' \in Seq([bound : Int, frame : Int]) /\ Len(compiled') = i
      /\ \A k \in 1..m : compiled'[k] = compiled[k]
      /\ compiled'[i] = r /\ DOMAIN compiled' = 1..i /\ DOMAIN compiled = 1..m
  BY <1>1, AppendProperties, LenProperties DEF TypeOK
<1>6. toDeclare' = ArgList(i) /\ toDeclare' \in Seq([name : Name, type : Type])
      /\ Len(ArgList(i)) \in Nat
  BY <1>1, <1>4, ListsAreLists
<1>7. TypeOK'
  BY <1>1, <1>5, <1>6 DEF TypeOK
<1>8. MentionedInv'
  BY <1>1 DEF MentionedInv, Declared
<1>9. \A k : ArgList(k)' = ArgList(k)
  BY DEF ArgList, ArgsOf, Declared
<1>10. History(h)' /\ Complete(h, Len(program))'
  BY <1>3, <1>9 DEF History, Complete, LastOf
<1>11. 1 \in 1..Len(h[i])
  <2>1. Len(h[i]) \in 1..Len(ArgList(i)) + 1
    BY <1>3, <1>4 DEF History
  <2> QED
    BY <1>6, <2>1
<1>12. Reached(h, i, 1)'
  <2>1. i \in 0..Len(program') /\ Cur' = h[i][1]
    BY <1>3, <1>4
  <2>2. /\ Len(toDeclare') = Len(ArgList(i)') + 1 - 1
        /\ \A k \in 1..Len(toDeclare') : toDeclare'[k] = ArgList(i)'[1 - 1 + k]
    <3>1. \A k \in 1..Len(toDeclare') : 1 - 1 + k = k
      OBVIOUS
    <3> QED
      BY <1>6, <1>9, <3>1
  <2> QED
    BY <1>11, <2>1, <2>2 DEF Reached
<1>13. CompilerReached'
  BY <1>5, <1>10, <1>11, <1>12 DEF CompilerReached
<1>14. BindsAlike'
  <2>1. ASSUME NEW k \in 1..i
        PROVE  /\ compiled'[k].frame = program[k].frame
               /\ ~OwnInitialiser(program[k]) => compiled'[k].bound = program[k].bound
    <3>1. CASE k = i
      BY <1>5, <3>1 DEF Current
    <3>2. CASE k # i
      <4>1. k \in 1..m
        BY <3>2
      <4> QED
        BY <1>1, <1>5, <4>1 DEF BindsAlike
    <3> QED
      BY <3>1, <3>2
  <2> QED
    BY <1>5, <2>1 DEF BindsAlike
<1> QED
  BY <1>1, <1>7, <1>8, <1>13, <1>14 DEF BindInv, HistoryInv, CompileNeverFails

LEMMA ListHere ==
    ASSUME PassInv, NEW op, Compiling(op)
    PROVE  /\ op # "define" => ArgList(Len(compiled) + 1) = <<>>
           /\ op = "define" => ArgList(Len(compiled) + 1) = ArgsOf(Current.function)
<1>1. Len(compiled) + 1 # 0 /\ Current.op = op
  BY CompilerAt
<1> QED
  BY <1>1 DEF ArgList, Current

\* What holds before any statement is compiled.
LEMMA Before ==
    ASSUME PassInv, NEW op, Compiling(op)
    PROVE  /\ phase = "compile" /\ failed = FALSE /\ toDeclare = <<>>
           /\ inFunction \in BOOLEAN /\ Frame!TypeOK /\ TypeOK /\ None \in Int
BY DEF Compiling, PassInv, CleanInv, BindInv, TypeOK, Frame!TypeOK, None

LEMMA CompileDeclarationKeeps ==
    ASSUME PassInv, CompileDeclaration
    PROVE  BindInv'
<1>1. /\ Compiling("declare")
      /\ compiled' = Append(compiled, [bound |-> None, frame |-> None])
      /\ UNCHANGED <<scopes, functions, program, inFunction, toDeclare, phase>>
  BY DEF CompileDeclaration, Compiled
<1>2. /\ failed = FALSE /\ toDeclare = <<>> /\ inFunction \in BOOLEAN /\ Frame!TypeOK
      /\ None \in Int
  BY <1>1, Before
<1>3. Current.op = "declare" /\ Legal(Current, Cur)
  BY <1>1, CompilerAt
<1> PICK r \in [bound : Int, frame : Int] : r = [bound |-> None, frame |-> None]
  BY <1>2
<1>4. r.frame = Current.frame /\ r.bound = Current.bound
  BY <1>3 DEF Legal
<1>5. Cur' = Cur /\ Frame!TypeOK' /\ failed' = FALSE /\ inFunction' \in BOOLEAN
  BY <1>1, <1>2 DEF scopes, Cur, Frame!TypeOK
<1>6. Cur' = After(Current, Cur)
  BY <1>3, <1>5 DEF After
<1>7. toDeclare' = ArgList(Len(compiled) + 1)
  BY <1>1, <1>2, ListHere
<1> QED
  BY <1>1, <1>4, <1>5, <1>6, <1>7, Compiles

LEMMA CompileDefinitionKeeps ==
    ASSUME PassInv, CompileDefinition
    PROVE  BindInv'
<1>1. /\ Compiling("define")
      /\ compiled' = Append(compiled, [bound |-> None, frame |-> None])
      /\ toDeclare' = ArgsOf(Current.function) /\ inFunction' = TRUE
      /\ UNCHANGED <<scopes, functions, program, phase>>
  BY DEF CompileDefinition, Compiled, ArgsOf
<1>2. /\ failed = FALSE /\ toDeclare = <<>> /\ inFunction \in BOOLEAN /\ Frame!TypeOK
      /\ None \in Int
  BY <1>1, Before
<1>3. Current.op = "define" /\ Legal(Current, Cur)
  BY <1>1, CompilerAt
<1> PICK r \in [bound : Int, frame : Int] : r = [bound |-> None, frame |-> None]
  BY <1>2
<1>4. r.frame = Current.frame /\ r.bound = Current.bound
  BY <1>3 DEF Legal
<1>5. Cur' = Cur /\ Frame!TypeOK' /\ failed' = FALSE /\ inFunction' \in BOOLEAN
  BY <1>1, <1>2 DEF scopes, Cur, Frame!TypeOK
<1>6. Cur' = After(Current, Cur)
  BY <1>3, <1>5 DEF After
<1>7. toDeclare' = ArgList(Len(compiled) + 1)
  BY <1>1, ListHere
<1> QED
  BY <1>1, <1>4, <1>5, <1>6, <1>7, Compiles

LEMMA CompileUseKeeps ==
    ASSUME PassInv, CompileUse
    PROVE  BindInv'
<1>1. /\ Compiling("use")
      /\ failed' = ~Resolves(Current.name)
      /\ compiled' = Append(compiled,
            [bound |-> IF Resolves(Current.name) THEN OffsetOf(Current.name) ELSE None,
             frame |-> None])
      /\ UNCHANGED <<depth, live, stackOffset, slots, functions, program,
                     inFunction, toDeclare, phase>>
  BY DEF CompileUse, Compiled
<1>2. /\ failed = FALSE /\ toDeclare = <<>> /\ inFunction \in BOOLEAN /\ Frame!TypeOK
      /\ None \in Int
  BY <1>1, Before
<1>3. Current.op = "use" /\ Legal(Current, Cur)
  BY <1>1, CompilerAt
<1> PICK name : name = Current.name
  OBVIOUS
<1>4. Resolves(name) /\ Current.bound = OffsetOf(name) /\ Current.frame = None
  BY <1>2, <1>3, CurIsEnv DEF Legal, Resolves
<1>5. OffsetOf(name) \in Nat
  BY <1>2, <1>4, OffsetsAreNumbers
<1> PICK offset \in Nat : offset = OffsetOf(name)
  BY <1>5
<1>11. offset \in Int /\ None \in Int
  BY <1>2
<1> PICK r \in [bound : Int, frame : Int] : r = [bound |-> offset, frame |-> None]
  BY <1>11
<1>6. r.frame = Current.frame /\ r.bound = Current.bound /\ compiled' = Append(compiled, r)
  BY <1>1, <1>4
<1>7. Cur' = Cur /\ failed' = FALSE /\ inFunction' \in BOOLEAN
  BY <1>1, <1>2, <1>4 DEF Cur
<1>8. Frame!TypeOK'
  BY <1>1, <1>2, <1>7 DEF Frame!TypeOK
<1>9. Cur' = After(Current, Cur)
  BY <1>3, <1>7 DEF After
<1>10. toDeclare' = ArgList(Len(compiled) + 1)
  BY <1>1, <1>2, ListHere
<1> QED
  BY <1>1, <1>6, <1>7, <1>8, <1>9, <1>10, Compiles

LEMMA CompileVarKeeps ==
    ASSUME PassInv, NEW init \in Name \cup {NoInit}, CompileVar(init)
    PROVE  BindInv'
<1>1. /\ Compiling("var") /\ Current.init = init
      /\ \/ Frame!Declare(Current.name, Current.type)
         \/ Frame!DeclareFails(Current.name)
      /\ compiled' = Append(compiled,
            [bound |-> IF init = NoInit \/ failed' THEN None ELSE OffsetOf(init)',
             frame |-> None])
      /\ UNCHANGED <<functions, program, inFunction, toDeclare, phase>>
  BY DEF CompileVar, Compiled
<1>2. /\ failed = FALSE /\ toDeclare = <<>> /\ inFunction \in BOOLEAN /\ Frame!TypeOK
      /\ None \in Int
  BY <1>1, Before
<1>3. Current.op = "var" /\ Legal(Current, Cur)
  BY <1>1, CompilerAt
<1> PICK name : name = Current.name
  OBVIOUS
<1> PICK type : type = Current.type
  OBVIOUS
<1>4. /\ name \in Name /\ type \in Type /\ ~RedefinedIn(Cur, name) /\ Current.frame = None
      /\ init = NoInit => Current.bound = None
      /\ init # NoInit => /\ ResolutionsIn(Cur, init) # {}
                          /\ Current.bound = OffsetIn(Cur, init)
  BY <1>1, <1>3 DEF Legal
<1>5. Frame!Declare(name, type)
  BY <1>1, <1>2, <1>4, DeclareFailsIs
<1>6. Cur' = WithDeclared(Cur, name, type) /\ Frame!TypeOK' /\ failed' = FALSE
      /\ Cur \in Env /\ Cur' \in Env
  <2>1. Cur' = WithDeclared(Cur, name, type) /\ Frame!TypeOK' /\ ~failed'
    BY <1>2, <1>4, <1>5, DeclareIs
  <2>2. failed' = FALSE
    BY <2>1 DEF Frame!TypeOK
  <2> QED
    BY <1>2, <2>1, <2>2, CurIsEnv, NextIsEnv
<1> PICK e \in Env : e = Cur
  BY <1>6
<1>7. init # NoInit => /\ OffsetOf(init)' = OffsetIn(Cur', init)
                       /\ ResolutionsIn(Cur', init) # {}
                       /\ OffsetIn(Cur', init) \in Nat
  <2>1. init # NoInit => ResolutionsIn(Cur', init) # {}
    BY <1>4, <1>6, AfterDeclaring
  <2> PICK after \in Env : after = Cur'
    BY <1>6
  <2>2. init # NoInit => OffsetIn(after, init) \in Nat
    BY <2>1, OffsetsInEnv
  <2> QED
    BY <2>1, <2>2, NextResolves
<1>8. init # name /\ init # NoInit => OffsetIn(Cur', init) = Current.bound
  <2>1. init # name => ResolutionsIn(Cur', init) = ResolutionsIn(Cur, init)
    BY <1>6, AfterDeclaring
  <2>2. ASSUME init # name
        PROVE  (CHOOSE x \in ResolutionsIn(Cur', init) : TRUE)
                  = (CHOOSE x \in ResolutionsIn(Cur, init) : TRUE)
    BY <2>1, <2>2, Zenon
  <2>3. init # name => OffsetIn(Cur', init) = OffsetIn(Cur, init)
    BY <2>2 DEF OffsetIn
  <2> QED
    BY <1>4, <2>3
<1> PICK bound : bound = IF init = NoInit THEN None ELSE OffsetOf(init)'
  OBVIOUS
<1>9. bound \in Int
  BY <1>2, <1>7
<1> PICK r \in [bound : Int, frame : Int] : r = [bound |-> bound, frame |-> None]
  BY <1>2, <1>9
<1>10. compiled' = Append(compiled, r) /\ r.frame = Current.frame
  BY <1>1, <1>4, <1>6
<1>11. ~OwnInitialiser(Current) => r.bound = Current.bound
  <2>1. ~OwnInitialiser(Current) => init # name
    BY <1>1, <1>3 DEF OwnInitialiser
  <2> QED
    BY <1>4, <1>7, <1>8, <2>1
<1>12. Cur' = After(Current, Cur)
  BY <1>3, <1>6 DEF After
<1>13. toDeclare' = ArgList(Len(compiled) + 1)
  BY <1>1, <1>2, ListHere
<1> QED
  BY <1>1, <1>2, <1>6, <1>10, <1>11, <1>12, <1>13, Compiles

LEMMA CompileOpenKeeps ==
    ASSUME PassInv, CompileOpen
    PROVE  BindInv'
<1>1. /\ Compiling("open") /\ Frame!Push
      /\ compiled' = Append(compiled, [bound |-> None, frame |-> None])
      /\ UNCHANGED <<functions, program, inFunction, toDeclare, phase>>
  BY DEF CompileOpen, BlockScope, Compiled
<1>2. /\ failed = FALSE /\ toDeclare = <<>> /\ inFunction \in BOOLEAN /\ Frame!TypeOK
      /\ None \in Int
  BY <1>1, Before
<1>3. Current.op = "open" /\ Legal(Current, Cur)
  BY <1>1, CompilerAt
<1> PICK r \in [bound : Int, frame : Int] : r = [bound |-> None, frame |-> None]
  BY <1>2
<1>4. r.frame = Current.frame /\ r.bound = Current.bound
  BY <1>3 DEF Legal
<1>5. Cur' = [Cur EXCEPT !.depth = @ + 1] /\ Frame!TypeOK' /\ failed' = FALSE
  <2>1. Cur' = [Cur EXCEPT !.depth = @ + 1] /\ Frame!TypeOK' /\ ~failed'
    BY <1>1, <1>2, PushIs
  <2> QED
    BY <2>1 DEF Frame!TypeOK
<1>6. Cur' = After(Current, Cur)
  BY <1>3, <1>5 DEF After
<1>7. toDeclare' = ArgList(Len(compiled) + 1)
  BY <1>1, <1>2, ListHere
<1> QED
  BY <1>1, <1>2, <1>4, <1>5, <1>6, <1>7, Compiles

LEMMA CompileCloseKeeps ==
    ASSUME PassInv, CompileClose
    PROVE  BindInv'
<1>1. /\ Compiling("close") /\ Frame!Pop
      /\ compiled' = Append(compiled, [bound |-> None, frame |-> None])
      /\ UNCHANGED <<functions, program, inFunction, toDeclare, phase>>
  BY DEF CompileClose, Compiled
<1>2. /\ failed = FALSE /\ toDeclare = <<>> /\ inFunction \in BOOLEAN /\ Frame!TypeOK
      /\ None \in Int
  BY <1>1, Before
<1>3. Current.op = "close" /\ Legal(Current, Cur)
  BY <1>1, CompilerAt
<1> PICK r \in [bound : Int, frame : Int] : r = [bound |-> None, frame |-> None]
  BY <1>2
<1>4. r.frame = Current.frame /\ r.bound = Current.bound
  BY <1>3 DEF Legal
<1>5. /\ Cur' = [depth |-> Cur.depth - 1, off |-> Cur.off,
                 live |-> {x \in Cur.live : x.depth < Cur.depth}]
      /\ Frame!TypeOK' /\ failed' = FALSE
  <2>1. /\ Cur' = [depth |-> Cur.depth - 1, off |-> Cur.off,
                   live |-> {x \in Cur.live : x.depth < Cur.depth}]
        /\ Frame!TypeOK' /\ ~failed'
    BY <1>1, <1>2, PopIs
  <2> QED
    BY <2>1 DEF Frame!TypeOK
<1>6. Cur' = After(Current, Cur)
  BY <1>3, <1>5 DEF After
<1>7. toDeclare' = ArgList(Len(compiled) + 1)
  BY <1>1, <1>2, ListHere
<1> QED
  BY <1>1, <1>2, <1>4, <1>5, <1>6, <1>7, Compiles

LEMMA CompileEndKeeps ==
    ASSUME PassInv, CompileEnd
    PROVE  BindInv'
<1>1. /\ Compiling("end") /\ Frame!New
      /\ compiled' = Append(compiled, [bound |-> None, frame |-> stackOffset])
      /\ inFunction' = FALSE
      /\ UNCHANGED <<functions, program, toDeclare, phase>>
  BY DEF CompileEnd, Compiled
<1>2. /\ failed = FALSE /\ toDeclare = <<>> /\ Frame!TypeOK /\ None \in Int
      /\ stackOffset \in Nat
  BY <1>1, Before DEF Frame!TypeOK
<1>3. Current.op = "end" /\ Legal(Current, Cur)
  BY <1>1, CompilerAt
<1> PICK frame \in Nat : frame = stackOffset
  BY <1>2
<1>8. frame \in Int /\ None \in Int
  BY <1>2
<1> PICK r \in [bound : Int, frame : Int] : r = [bound |-> None, frame |-> frame]
  BY <1>8
<1>4. r.frame = Current.frame /\ r.bound = Current.bound /\ compiled' = Append(compiled, r)
  BY <1>1, <1>3 DEF Legal, Cur
<1>5. Cur' = EmptyEnv /\ Frame!TypeOK' /\ failed' = FALSE
  <2>1. Cur' = EmptyEnv /\ Frame!TypeOK' /\ ~failed'
    BY <1>1, <1>2, NewIs
  <2> QED
    BY <2>1 DEF Frame!TypeOK
<1>6. Cur' = After(Current, Cur)
  BY <1>3, <1>5 DEF After
<1>7. toDeclare' = ArgList(Len(compiled) + 1)
  BY <1>1, <1>2, ListHere
<1> QED
  BY <1>1, <1>4, <1>5, <1>6, <1>7, Compiles

LEMMA CompileArgKeeps ==
    ASSUME PassInv, CompileArg
    PROVE  BindInv'
<1>1. /\ phase = "compile" /\ toDeclare # <<>> /\ toDeclare' = Tail(toDeclare)
      /\ \/ Frame!Declare(Head(toDeclare).name, Head(toDeclare).type)
         \/ Frame!DeclareFails(Head(toDeclare).name)
      /\ UNCHANGED <<functions, program, inFunction, phase, compiled>>
  BY DEF CompileArg
<1>2. TypeOK /\ MentionedInv /\ BindsAlike /\ CompilerReached /\ CleanInv
  BY <1>1 DEF PassInv, BindInv, HistoryInv
<1>3. /\ toDeclare' \in Seq([name : Name, type : Type])
      /\ Head(toDeclare) \in [name : Name, type : Type]
  BY <1>1, <1>2, HeadTailProperties DEF TypeOK
<1>4. PICK a \in [name : Name, type : Type] : a = Head(toDeclare)
  BY <1>3
<1>5. /\ a.name \in Name /\ a.type \in Type /\ Frame!TypeOK
      /\ Frame!Declare(a.name, a.type) \/ Frame!DeclareFails(a.name)
  BY <1>1, <1>2, <1>4 DEF TypeOK
<1>6. PICK h : /\ History(h) /\ Complete(h, Len(program))
               /\ \E j \in 1..Len(h[Len(compiled)]) : Reached(h, Len(compiled), j)
  BY <1>2 DEF CompilerReached
<1>7. PICK m : m = Len(compiled)
  OBVIOUS
<1>8. PICK j \in 1..Len(h[m]) : Reached(h, m, j)
  BY <1>6, <1>7
<1>9. m \in 0..Len(program) /\ Len(program) \in Nat
  BY <1>2, <1>8, LenProperties DEF Reached, TypeOK
<1>10. j <= Len(ArgList(m)) /\ a = ArgList(m)[j]
  BY <1>1, <1>2, <1>4, <1>6, <1>8, <1>9, AtStatement
<1>11. Complete(h, m)
  <2>1. CASE m = Len(program)
    BY <1>6, <2>1
  <2>2. CASE m # Len(program)
    <3> PICK i : i = m + 1
      OBVIOUS
    <3>1. i \in 1..Len(program) /\ i - 1 = m
      BY <1>9, <2>2
    <3>2. Complete(h, i - 1)
      BY <1>6, <3>1 DEF History
    <3> QED
      BY <3>1, <3>2
  <2> QED
    BY <2>1, <2>2
<1>12. Len(ArgList(m)) \in Nat /\ Len(h[m]) = Len(ArgList(m)) + 1
  BY <1>2, <1>9, <1>11, ListsAreLists DEF Complete
<1>13. j \in 1..Len(h[m]) - 1 /\ j + 1 \in 1..Len(h[m])
  BY <1>10, <1>12
<1>14. m # 0
  <2>1. ArgList(0) = <<>> /\ Len(<<>>) = 0
    BY DEF ArgList
  <2> QED
    BY <1>10, <1>12, <1>13, <2>1
<1>15. ~RedefinedIn(Cur, a.name) /\ h[m][j + 1] = WithDeclared(Cur, a.name, a.type)
  <2>1. m \in 1..Len(program) /\ Cur = h[m][j]
    BY <1>8, <1>9, <1>14 DEF Reached
  <2>2. /\ ~RedefinedIn(h[m][j], ArgList(m)[j].name)
        /\ h[m][j + 1] = WithDeclared(h[m][j], ArgList(m)[j].name, ArgList(m)[j].type)
    BY <1>6, <1>13, <2>1 DEF History
  <2> QED
    BY <1>10, <2>1, <2>2
<1>16. Frame!Declare(a.name, a.type)
  <2>1. PICK name : name = a.name
    OBVIOUS
  <2>2. Frame!TypeOK /\ ~RedefinedIn(Cur, name)
    BY <1>5, <1>15, <2>1
  <2>3. ~Frame!DeclareFails(name)
    BY <2>2, DeclareFailsIs
  <2> QED
    BY <1>5, <2>1, <2>3
<1>17. Cur' = h[m][j + 1] /\ Frame!TypeOK' /\ ~failed'
  <2>1. PICK name \in Name, type \in Type : name = a.name /\ type = a.type
    BY <1>5
  <2>2. Frame!Declare(name, type) /\ Frame!TypeOK
    BY <1>5, <1>16, <2>1
  <2>3. Cur' = WithDeclared(Cur, name, type) /\ Frame!TypeOK' /\ ~failed'
    BY <2>2, DeclareIs
  <2> QED
    BY <1>15, <2>1, <2>3
<1>18. /\ History(h)' /\ Complete(h, Len(program))'
       /\ (m \in 0..Len(program) /\ j + 1 \in 1..Len(h[m]) /\ Reached(h, m, j + 1))'
  <2>1. \A i : ArgList(i)' = ArgList(i)
    BY <1>1 DEF ArgList, ArgsOf, Declared
  <2>2. Complete(h, Len(program))'
    BY <1>1, <1>6, <2>1 DEF Complete
  <2>3. UNCHANGED <<functions, program>>
    BY <1>1
  <2>4. /\ History(h)'
        /\ (m \in 0..Len(program) /\ j + 1 \in 1..Len(h[m]) /\ Reached(h, m, j + 1))'
    BY <1>1, <1>2, <1>6, <1>8, <1>9, <1>13, <1>17, <2>3, ArgReached
  <2> QED
    BY <2>2, <2>4
<1>19. CompilerReached'
  BY <1>1, <1>7, <1>18 DEF CompilerReached
<1>20. TypeOK' /\ MentionedInv' /\ BindsAlike'
  BY <1>1, <1>2, <1>3, <1>17 DEF TypeOK, MentionedInv, Declared, BindsAlike
<1> QED
  BY <1>1, <1>17, <1>19, <1>20 DEF BindInv, HistoryInv, CompileNeverFails

------------------------------------------------------------------------------
(* The invariant of both passes.                                           *)

LEMMA PassInit == Init => PassInv
<1> SUFFICES ASSUME Init PROVE PassInv
  OBVIOUS
<1>1. /\ functions = {} /\ program = <<>> /\ inFunction = FALSE /\ toDeclare = <<>>
      /\ phase = "parse" /\ compiled = <<>> /\ Frame!Init
  BY DEF Init
<1>2. Frame!TypeOK /\ Cur = EmptyEnv
  <2>1. /\ depth = 1 /\ live = {} /\ stackOffset = 0 /\ slots = <<>>
        /\ failed = FALSE
    BY <1>1 DEF Frame!Init
  <2>2. <<>> \in Seq(Frame!DeclaredSet)
    BY EmptySeq
  <2>3. 1 \in 1..MaxDepth /\ {} \subseteq Frame!Entry /\ 0 \in Nat
    BY TwoPassAssumption
  <2>4. Frame!TypeOK
    BY <2>1, <2>2, <2>3 DEF Frame!TypeOK
  <2> QED
    BY <2>1, <2>4 DEF Cur, EmptyEnv
<1>3. TypeOK
  <2>1. <<>> \in Seq(Item) /\ <<>> \in Seq([name : Name, type : Type])
        /\ <<>> \in Seq([bound : Int, frame : Int])
    BY EmptySeq
  <2> QED
    BY <1>1, <1>2, <2>1 DEF TypeOK
<1>4. Len(program) = 0 /\ Len(toDeclare) = 0 /\ ArgList(0) = <<>> /\ DOMAIN <<>> = {}
  BY <1>1 DEF ArgList
<1>5. MentionedInv /\ BindsAlike /\ CompileNeverFails
  BY <1>1, <1>4 DEF MentionedInv, BindsAlike, CompileNeverFails
<1>6. ParserReached
  <2> PICK h : h = [i \in 0..0 |-> <<EmptyEnv>>]
    OBVIOUS
  <2>1. EmptyEnv \in Env
    BY DEF EmptyEnv, Env
  <2>2. <<EmptyEnv>> \in Seq(Env) /\ Len(<<EmptyEnv>>) = 1 /\ <<EmptyEnv>>[1] = EmptyEnv
    BY <2>1
  <2>3. h \in [0..0 -> Seq(Env)] /\ h[0] = <<EmptyEnv>> /\ 0 \in 0..0
    BY <2>2
  <2>4. Len(h[0]) = 1 /\ h[0][1] = EmptyEnv
    BY <2>2, <2>3, Zenon
  <2>5. \A i \in 0..0 : i = 0
    OBVIOUS
  <2>6. Len(ArgList(0)) = 0
    BY <1>4
  <2>7. History(h)
    BY <1>4, <2>3, <2>4, <2>5, <2>6 DEF History
  <2>8. Reached(h, 0, 1)
    BY <1>2, <1>4, <2>3, <2>4, <2>6 DEF Reached
  <2> QED
    BY <1>4, <2>4, <2>7, <2>8 DEF ParserReached
<1>7. HistoryInv
  BY <1>1, <1>6 DEF HistoryInv
<1> QED
  BY <1>3, <1>5, <1>7, CleanInit DEF PassInv, BindInv

\* Finish, and steps that change nothing.
LEMMA QuietStep ==
    ASSUME PassInv, Finish \/ UNCHANGED vars
    PROVE  BindInv'
<1>1. UNCHANGED <<depth, live, stackOffset, slots, failed, functions, program,
                  inFunction, toDeclare, compiled>>
  BY DEF Finish, vars, scopes
<1>2. /\ TypeOK /\ MentionedInv /\ BindsAlike /\ CompileNeverFails /\ HistoryInv
  BY DEF PassInv, BindInv
<1>3. MentionedInv' /\ BindsAlike'
  BY <1>1, <1>2 DEF MentionedInv, BindsAlike, Declared
<1>4. Frame!TypeOK'
  BY <1>1, <1>2 DEF TypeOK, Frame!TypeOK
<1>5. CASE Finish
  <2>1. phase = "compile" /\ phase' = "done"
    BY <1>5 DEF Finish
  <2>2. TypeOK' /\ CompileNeverFails' /\ HistoryInv'
    BY <1>1, <1>2, <1>4, <2>1 DEF TypeOK, CompileNeverFails, HistoryInv
  <2> QED
    BY <1>3, <2>2 DEF BindInv
<1>6. CASE UNCHANGED vars
  <2>1. phase' = phase
    BY <1>6 DEF vars
  <2>2. TypeOK' /\ CompileNeverFails'
    BY <1>1, <1>2, <1>4, <2>1 DEF TypeOK, CompileNeverFails
  <2>3. \A i : ArgList(i)' = ArgList(i)
    BY <1>1 DEF ArgList, ArgsOf, Declared
  <2>4. \A h : History(h)' <=> History(h)
    <3>1. program' = program
      BY <1>1
    <3>2. \A h, i : Complete(h, i)' <=> Complete(h, i)
      BY <2>3 DEF Complete
    <3> SUFFICES ASSUME NEW h PROVE History(h)' <=> History(h)
      OBVIOUS
    <3>3. \A i : LastOf(h, i)' = LastOf(h, i)
      BY DEF LastOf
    <3>4. ASSUME NEW i, NEW l
          PROVE  (/\ ~RedefinedIn(h[i][l], ArgList(i)[l].name)
                  /\ h[i][l + 1] = WithDeclared(h[i][l], ArgList(i)[l].name, ArgList(i)[l].type))'
                 <=> /\ ~RedefinedIn(h[i][l], ArgList(i)[l].name)
                     /\ h[i][l + 1] = WithDeclared(h[i][l], ArgList(i)[l].name, ArgList(i)[l].type)
      BY <2>3
    <3> QED
      BY <2>3, <3>1, <3>2, <3>3, <3>4 DEF History
  <2>5. \A h, m, j : Reached(h, m, j)' <=> Reached(h, m, j)
    BY <1>1, <2>3 DEF Reached, Cur
  <2>6. (ParserReached' <=> ParserReached) /\ (CompilerReached' <=> CompilerReached)
    BY <1>1, <2>3, <2>4, <2>5 DEF ParserReached, CompilerReached, Complete
  <2>7. HistoryInv'
    BY <1>1, <1>2, <2>1, <2>6 DEF HistoryInv
  <2> QED
    BY <1>3, <2>2, <2>7 DEF BindInv
<1> QED
  BY <1>5, <1>6

LEMMA PassStep == PassInv /\ [Next]_vars => PassInv'
<1> SUFFICES ASSUME PassInv, [Next]_vars PROVE PassInv'
  OBVIOUS
<1>1. CleanInv'
  BY CleanStep DEF PassInv
<1>2. BindInv'
  <2>1. ASSUME NEW function \in Function, NEW args \in Args,
               ParseDeclaration(function, args) \/ ParseDefinition(function, args)
        PROVE  BindInv'
    BY <2>1, ParseDeclarationKeeps, ParseDefinitionKeeps
  <2>2. ASSUME NEW function \in Function, ParseRedefinition(function)
        PROVE  BindInv'
    <3>1. /\ phase = "parse" /\ failed' = TRUE
          /\ UNCHANGED <<depth, live, stackOffset, slots, functions,
                         program, inFunction, toDeclare, phase, compiled>>
      BY <2>2 DEF ParseRedefinition, Parsing
    <3>2. Frame!TypeOK' /\ toDeclare' \in Seq([name : Name, type : Type])
      BY <3>1 DEF PassInv, BindInv, TypeOK, Frame!TypeOK
    <3> QED
      BY <3>1, <3>2, Rejects
  <2>3. ASSUME NEW name \in Name, ParseUseFails(name)
        PROVE  BindInv'
    <3>1. /\ phase = "parse" /\ failed' = TRUE
          /\ UNCHANGED <<depth, live, stackOffset, slots, functions,
                         program, inFunction, toDeclare, phase, compiled>>
      BY <2>3 DEF ParseUseFails, InBody, Parsing
    <3>2. Frame!TypeOK' /\ toDeclare' \in Seq([name : Name, type : Type])
      BY <3>1 DEF PassInv, BindInv, TypeOK, Frame!TypeOK
    <3> QED
      BY <3>1, <3>2, Rejects
  <2>4. ASSUME NEW name \in Name, ParseUse(name)
        PROVE  BindInv'
    BY <2>4, ParseUseKeeps
  <2>5. ASSUME NEW name \in Name, NEW type \in Type, NEW init \in Name \cup {NoInit},
               ParseVar(name, type, init)
        PROVE  BindInv'
    BY <2>5, ParseVarKeeps
  <2>6. CASE ParseArg \/ ParseOpen \/ ParseClose \/ ParseEnd \/ StartCompile
    BY <2>6, ParseArgKeeps, ParseOpenKeeps, ParseCloseKeeps, ParseEndKeeps, StartCompileKeeps
  <2>7. ASSUME NEW init \in Name \cup {NoInit}, CompileVar(init)
        PROVE  BindInv'
    BY <2>7, CompileVarKeeps
  <2>8. CASE \/ CompileDeclaration \/ CompileDefinition \/ CompileArg \/ CompileUse
             \/ CompileOpen \/ CompileClose \/ CompileEnd
    BY <2>8, CompileDeclarationKeeps, CompileDefinitionKeeps, CompileArgKeeps,
       CompileUseKeeps, CompileOpenKeeps, CompileCloseKeeps, CompileEndKeeps
  <2>9. CASE Finish \/ Stopped \/ UNCHANGED vars
    BY <2>9, QuietStep DEF Stopped
  <2> QED
    BY <2>1, <2>2, <2>3, <2>4, <2>5, <2>6, <2>7, <2>8, <2>9 DEF Next
<1> QED
  BY <1>1, <1>2 DEF PassInv

\* Both passes keep to their invariant: the code generator repeats the
\* environments of the parser, statement by statement.
THEOREM PassesAgree == Spec => []PassInv
BY PassInit, PassStep, PTL DEF Spec

\* The table, the statements, the scopes and what the passes note of them keep
\* their types for programs of any length, any names, types and argument lists.
THEOREM TypeCorrect == Spec => []TypeOK
<1>1. PassInv => TypeOK
  BY DEF PassInv, BindInv
<1> QED
  BY PassesAgree, <1>1, PTL

\* The code generator resolves every use to the slot whose type the parser
\* checked, but for a variable in its own initial value, and reserves for every
\* function the frame that the parser counted.
THEOREM PassesBindAlike == Spec => []BindsAlike
<1>1. PassInv => BindsAlike
  BY DEF PassInv, BindInv
<1> QED
  BY PassesAgree, <1>1, PTL

\* A program that the parser accepts makes the code generator report no error.
THEOREM NoLateError == Spec => []CompileNeverFails
<1>1. PassInv => CompileNeverFails
  BY DEF PassInv, BindInv
<1> QED
  BY PassesAgree, <1>1, PTL
================================================================================
