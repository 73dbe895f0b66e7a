-------------------------------- MODULE TwoPass --------------------------------
(***************************************************************************)
(* The two passes of dracon over a program.  The parser declares and       *)
(* resolves every variable while it builds the statements, keeping of a    *)
(* use only the type it resolved to; the code generator then walks the     *)
(* statements and declares and resolves everything again, in the same      *)
(* scopes (compiler/scope.c, through module FrameLayout) but in an order   *)
(* of its own.  Functions are declared and defined in the table of         *)
(* compiler/function.c.                                                    *)
(*                                                                         *)
(* The program is the sequence of what its statements do to the scopes, in *)
(* source order; each item also carries, as history, the offset the parser *)
(* resolved a use to and the frame the parser ended a function with.       *)
(***************************************************************************)
EXTENDS Integers, Sequences

CONSTANTS
    Name,           \* names of variables
    Type,           \* their types, as in FrameLayout
    Function,       \* names of functions
    Args,           \* argument lists: sequences of [name, type] records
    MaxItems,       \* bound: statements and function headers of a program
    MaxDepth,       \* bound: nested scopes
    MaxFrame,       \* bound: bytes of one frame
    NoInit          \* a declaration without initial value

ASSUME TwoPassAssumption ==
    /\ Type \subseteq [array : BOOLEAN, size : Nat]
    /\ Args \subseteq Seq([name : Name, type : Type])
    /\ NoInit \notin Name
    /\ MaxItems \in Nat /\ MaxDepth \in Nat \ {0} /\ MaxFrame \in Nat

VARIABLES
    depth, live, stackOffset, slots, failed,  \* see FrameLayout
    functions,      \* functions: name, arguments and whether it is defined
    program,        \* the statements the parser has built
    inFunction,     \* a function body is being parsed or compiled
    toDeclare,      \* arguments not yet declared in the body's scope
    phase,          \* which pass is running
    compiled        \* history: what the code generator did for each item

scopes == <<depth, live, stackOffset, slots, failed>>

vars == <<scopes, functions, program, inFunction, toDeclare, phase, compiled>>

Frame == INSTANCE FrameLayout

None == -1          \* no offset, no frame

Ops == {"declare", "define", "open", "close", "var", "use", "end"}

Item == [op : Ops, function : Function \cup {NoInit}, name : Name \cup {NoInit},
         type : Type \cup {NoInit}, init : Name \cup {NoInit},
         bound : Int, frame : Int]

\* An item that only has an operation, to be completed with EXCEPT.
Bare(op) == [op |-> op, function |-> NoInit, name |-> NoInit, type |-> NoInit,
             init |-> NoInit, bound |-> None, frame |-> None]

Init ==
    /\ Frame!Init
    /\ functions = {}
    /\ program = <<>>
    /\ inFunction = FALSE
    /\ toDeclare = <<>>
    /\ phase = "parse"
    /\ compiled = <<>>

------------------------------------------------------------------------------
(***************************************************************************)
(* compiler/function.c                                                     *)
(***************************************************************************)

\* function_resolve
Declared(function) == {f \in functions : f.symbol = function}

\* Mutant: a later declaration makes the function undefined again.
DefinedAfter_Last(f, defined) == defined

\* duplicate_function->defined |= defined
DefinedAfter(f, defined) == f.defined \/ defined

\* Mutant: function_declare adds an entry without looking for one.
DeclareFunction_Again(function, args, defined) ==
    functions' = functions \cup {[symbol |-> function, args |-> args,
                                  defined |-> defined]}

\* function_declare, for a name that may already be there: the first argument
\* list stays.
DeclareFunction(function, args, defined) ==
    functions' =
        IF Declared(function) = {}
        THEN functions \cup {[symbol |-> function, args |-> args,
                              defined |-> defined]}
        ELSE {IF f.symbol = function
              THEN [f EXCEPT !.defined = DefinedAfter(f, defined)]
              ELSE f : f \in functions}

\* "Redefinition of function"
RedefinitionOf(function) == \E f \in Declared(function) : f.defined

------------------------------------------------------------------------------
(***************************************************************************)
(* The parser.                                                             *)
(***************************************************************************)

Parsing == phase = "parse" /\ ~failed

\* There is room for the item, and for the end of an open function and blocks.
Room == Len(program) + depth < MaxItems

Parsed(item) == program' = Append(program, item)

\* parse_func_decl up to ';': a declaration.
ParseDeclaration(function, args) ==
    /\ Parsing /\ Room /\ ~inFunction
    /\ DeclareFunction(function, args, FALSE)
    /\ Parsed([Bare("declare") EXCEPT !.function = function])
    /\ UNCHANGED <<scopes, inFunction, toDeclare, phase, compiled>>

\* Mutant: the arguments of the definition are declared, as without the
\* comment "the original arg list should be used".
BodyArgs_OfDefinition(function, args) == args

\* The argument list the body is parsed with: that of the first declaration.
BodyArgs(function, args) ==
    IF Declared(function) = {} THEN args
    ELSE (CHOOSE f \in Declared(function) : TRUE).args

\* parse_func_decl up to the body: a definition.
ParseDefinition(function, args) ==
    /\ Parsing /\ Room /\ ~inFunction
    /\ ~RedefinitionOf(function)
    /\ DeclareFunction(function, args, TRUE)
    /\ toDeclare' = BodyArgs(function, args)
    /\ inFunction' = TRUE
    /\ Parsed([Bare("define") EXCEPT !.function = function])
    /\ UNCHANGED <<scopes, phase, compiled>>

ParseRedefinition(function) ==
    /\ Parsing /\ Room /\ ~inFunction
    /\ RedefinitionOf(function)
    /\ failed' = TRUE
    /\ UNCHANGED <<depth, live, stackOffset, slots, functions,
                   program, inFunction, toDeclare, phase, compiled>>

\* declare_args, one argument.
ParseArg ==
    /\ Parsing /\ toDeclare # <<>>
    /\ \/ Frame!Declare(Head(toDeclare).name, Head(toDeclare).type)
       \/ Frame!DeclareFails(Head(toDeclare).name)
    /\ toDeclare' = Tail(toDeclare)
    /\ UNCHANGED <<functions, program, inFunction, phase, compiled>>

\* A statement of a body may come next.
InBody == Parsing /\ inFunction /\ toDeclare = <<>>

\* Where an identifier of the current scopes lies.
OffsetOf(name) == (CHOOSE e \in Frame!Resolutions(name) : TRUE).offset

Resolves(name) == Frame!Resolutions(name) # {}

\* post_parse of a variable identifier.
ParseUse(name) ==
    /\ InBody /\ Room
    /\ Resolves(name)
    /\ Parsed([Bare("use") EXCEPT !.name = name, !.bound = OffsetOf(name)])
    /\ UNCHANGED <<scopes, functions, inFunction, toDeclare, phase, compiled>>

\* "Trying to access undefined variable", in a statement or an initial value.
ParseUseFails(name) ==
    /\ InBody /\ Room
    /\ ~Resolves(name)
    /\ failed' = TRUE
    /\ UNCHANGED <<depth, live, stackOffset, slots, functions,
                   program, inFunction, toDeclare, phase, compiled>>

\* parse_var_decl: the initial value is parsed before the name is declared.
ParseVar(name, type, init) ==
    /\ InBody /\ Room
    /\ init # NoInit => Resolves(init)
    /\ \/ /\ Frame!Declare(name, type)
          /\ Parsed([Bare("var") EXCEPT
                        !.name = name, !.type = type, !.init = init,
                        !.bound = IF init = NoInit THEN None
                                  ELSE OffsetOf(init)])
       \/ Frame!DeclareFails(name) /\ UNCHANGED program
    /\ UNCHANGED <<functions, inFunction, toDeclare, phase, compiled>>

\* parse_block, its first and last token.
ParseOpen ==
    /\ InBody /\ Room
    /\ Len(program) + depth + 1 < MaxItems
    /\ Frame!Push
    /\ Parsed(Bare("open"))
    /\ UNCHANGED <<functions, inFunction, toDeclare, phase, compiled>>

ParseClose ==
    /\ InBody
    /\ Frame!Pop
    /\ Parsed(Bare("close"))
    /\ UNCHANGED <<functions, inFunction, toDeclare, phase, compiled>>

\* Mutant: parse_func_decl leaves the scope of the body behind.
AfterBody_Kept == UNCHANGED scopes

\* scope_new, in parse_func_decl and in compiler_finish_function.
AfterBody == Frame!New

\* The closing brace of parse_func_decl.
ParseEnd ==
    /\ InBody
    /\ depth = 1
    /\ AfterBody
    /\ Parsed([Bare("end") EXCEPT !.frame = stackOffset])
    /\ inFunction' = FALSE
    /\ UNCHANGED <<functions, toDeclare, phase, compiled>>

------------------------------------------------------------------------------
(***************************************************************************)
(* The code generator.                                                     *)
(***************************************************************************)

\* main.c: compile_program after parse_program.
StartCompile ==
    /\ Parsing /\ ~inFunction
    /\ phase' = "compile"
    /\ UNCHANGED <<scopes, functions, program, inFunction, toDeclare, compiled>>

\* The item being compiled, once the arguments of a function are declared.
Compiling(op) ==
    /\ phase = "compile" /\ ~failed
    /\ toDeclare = <<>>
    /\ Len(compiled) < Len(program)
    /\ program[Len(compiled) + 1].op = op

Current == program[Len(compiled) + 1]

Compiled(bound, frame) ==
    compiled' = Append(compiled, [bound |-> bound, frame |-> frame])

\* compile of func_declaration.c: nothing for a declaration.
CompileDeclaration ==
    /\ Compiling("declare")
    /\ Compiled(None, None)
    /\ UNCHANGED <<scopes, functions, program, inFunction, toDeclare, phase>>

CompileDefinition ==
    /\ Compiling("define")
    /\ toDeclare' = (CHOOSE f \in Declared(Current.function) : TRUE).args
    /\ inFunction' = TRUE
    /\ Compiled(None, None)
    /\ UNCHANGED <<scopes, functions, program, phase>>

\* generate_arg_offsets, one argument.
CompileArg ==
    /\ phase = "compile" /\ ~failed
    /\ toDeclare # <<>>
    /\ \/ Frame!Declare(Head(toDeclare).name, Head(toDeclare).type)
       \/ Frame!DeclareFails(Head(toDeclare).name)
    /\ toDeclare' = Tail(toDeclare)
    /\ UNCHANGED <<functions, program, inFunction, phase, compiled>>

\* compile_value and get_lvalue_rm of a variable identifier.
CompileUse ==
    /\ Compiling("use")
    /\ failed' = ~Resolves(Current.name)
    /\ Compiled(IF Resolves(Current.name) THEN OffsetOf(Current.name) ELSE None,
                None)
    /\ UNCHANGED <<depth, live, stackOffset, slots, functions,
                   program, inFunction, toDeclare, phase>>

\* compile of var_declaration.c: the name is declared before the initial value
\* is compiled, so that resolving it sees the new declaration.
CompileVar(init) ==
    /\ Compiling("var")
    /\ Current.init = init
    /\ \/ Frame!Declare(Current.name, Current.type)
       \/ Frame!DeclareFails(Current.name)
    /\ Compiled(IF init = NoInit \/ failed' THEN None ELSE OffsetOf(init)', None)
    /\ UNCHANGED <<functions, program, inFunction, toDeclare, phase>>

\* Mutant: block.c compiles its statements in the scope around it.
BlockScope_None == UNCHANGED scopes

BlockScope == Frame!Push

CompileOpen ==
    /\ Compiling("open")
    /\ BlockScope
    /\ Compiled(None, None)
    /\ UNCHANGED <<functions, program, inFunction, toDeclare, phase>>

CompileClose ==
    /\ Compiling("close")
    /\ Frame!Pop
    /\ Compiled(None, None)
    /\ UNCHANGED <<functions, program, inFunction, toDeclare, phase>>

\* compiler_finish_function: the prologue takes scope_get_sp_offset, then
\* scope_new.
CompileEnd ==
    /\ Compiling("end")
    /\ Frame!New
    /\ Compiled(None, stackOffset)
    /\ inFunction' = FALSE
    /\ UNCHANGED <<functions, program, toDeclare, phase>>

Finish ==
    /\ phase = "compile" /\ ~failed
    /\ toDeclare = <<>>
    /\ Len(compiled) = Len(program)
    /\ phase' = "done"
    /\ UNCHANGED <<scopes, functions, program, inFunction, toDeclare, compiled>>

Stopped == (failed \/ phase = "done") /\ UNCHANGED vars

Next ==
    \/ \E function \in Function, args \in Args :
          \/ ParseDeclaration(function, args)
          \/ ParseDefinition(function, args)
    \/ \E function \in Function : ParseRedefinition(function)
    \/ ParseArg
    \/ \E name \in Name : ParseUse(name) \/ ParseUseFails(name)
    \/ \E name \in Name, type \in Type, init \in Name \cup {NoInit} :
          ParseVar(name, type, init)
    \/ ParseOpen
    \/ ParseClose
    \/ ParseEnd
    \/ StartCompile
    \/ CompileDeclaration
    \/ CompileDefinition
    \/ CompileArg
    \/ CompileUse
    \/ \E init \in Name \cup {NoInit} : CompileVar(init)
    \/ CompileOpen
    \/ CompileClose
    \/ CompileEnd
    \/ Finish
    \/ Stopped

Spec == Init /\ [][Next]_vars

------------------------------------------------------------------------------

\* The shape of the table, with one entry for each function, of the statements
\* and of the scopes they share.
TypeOK ==
    /\ Frame!TypeOK
    /\ functions \subseteq [symbol : Function, args : Args, defined : BOOLEAN]
    /\ \A f, g \in functions : f.symbol = g.symbol => f = g
    /\ program \in Seq(Item)
    /\ inFunction \in BOOLEAN
    /\ toDeclare \in Seq([name : Name, type : Type])
    /\ phase \in {"parse", "compile", "done"}
    /\ compiled \in Seq([bound : Int, frame : Int])

\* Its initial value mentions the variable being declared: the parser resolves
\* it around the declaration, the code generator to the declaration itself.
OwnInitialiser(item) == item.op = "var" /\ item.init = item.name

\* The code generator reads and writes the variable whose type the parser
\* checked, and reserves the frame the parser counted: both passes resolve
\* every use to the same slot, but for a variable in its own initial value.
BindsAlike ==
    \A i \in DOMAIN compiled :
        /\ compiled[i].frame = program[i].frame
        /\ ~OwnInitialiser(program[i]) => compiled[i].bound = program[i].bound

\* Between functions, in either pass and from the parser's last function to the
\* code generator's first, the one scope left is empty and the frame counts
\* from 0: nothing resets them between the passes.
FunctionsStartClean ==
    ~inFunction /\ ~failed => depth = 1 /\ live = {} /\ stackOffset = 0

\* A program the parser accepts meets no undefined variable and no
\* redefinition in the code generator, which has no source position to report.
CompileNeverFails == phase # "parse" => ~failed

\* A function is defined at most once, whatever declarations come between, so
\* that the object never gets two symbols of one name.
DefinedOnce ==
    \A i, j \in DOMAIN program :
        /\ program[i].op = "define" /\ program[j].op = "define"
        /\ program[i].function = program[j].function
        => i = j
==============================================================================
