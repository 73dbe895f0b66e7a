-------------------------------- MODULE Parser ---------------------------------
(***************************************************************************)
(* The recursive-descent parser: parser.c, expr_parser.c, type_parser.c,   *)
(* the parse functions of the statements and the post_parse handlers that  *)
(* give every expression its type.                                         *)
(*                                                                         *)
(* The calls that remain to be made are the sequence todo; a call that     *)
(* makes others replaces itself by them.  Results are kept on stacks: the  *)
(* nodes in exprs (statements too), types and names.  A token is what it   *)
(* is written with, an identifier its name; the source is revealed to the  *)
(* parser one token at a time, so that TLC follows only the sources that   *)
(* the parser reads on.  log_error ends the process: status is "failed".   *)
(***************************************************************************)
EXTENDS Integers, Sequences, FiniteSets, SequencesExt, TLC

CONSTANTS
    Name,           \* identifiers
    Token,          \* the tokens that sources are made of
    Start,          \* how the sources start: sequences of tokens
    MaxTokens       \* bound: tokens that follow the start

EndOfFile == "end of file"

ASSUME ParserAssumption ==
    /\ Name \subseteq Token
    /\ Start \subseteq Seq(Token)
    /\ EndOfFile \notin Token
    /\ MaxTokens \in Nat

VARIABLES
    tokens,         \* the source, as far as it is known
    limit,          \* history: the number of tokens this source may have
    at,             \* tokens of parser.c: the position of the next token
    todo,           \* calls still to be made
    exprs,          \* results: indices into nodes
    types, names,   \* results: types and identifiers
    nodes,          \* every node built, with the tokens from..to - 1 it stands for
    scope,          \* the variables of each open scope (scope.c)
    functions,      \* functions declared so far (function.c)
    header,         \* arguments of the function header being parsed
    status          \* "running", "done" or "failed"

input == <<tokens, limit>>
results == <<exprs, types, names>>
tables == <<scope, functions, header>>
vars == <<input, at, todo, results, nodes, tables, status>>

------------------------------------------------------------------------------
(* Calls: n counts results or names a node, op is a token or the kind of a *)
(* node, from is the position of the first token of what is parsed.        *)

Since(from, do, n) == [do |-> do, n |-> n, op |-> "", from |-> from]
Call(do) == Since(at, do, 0)
Expect(token) == [Call("expect") EXCEPT !.op = token]
Build(from, kind, n) == [Since(from, "build", n) EXCEPT !.op = kind]

\* The binary operators of the levels of expr_parser.c, tightest first.
Operators == <<{"*", "/"}, {"+", "-"}, {"==", "!="}>>

BinaryKinds == UNION ToSet(Operators)

\* parse_prefix_expr and the loops of the first n levels around it.
Level(n) == <<Call("prefix")>> \o [k \in 1..n |-> Since(at, "operators", k)]

Assignment == Level(3) \o <<Call("assignment")>>

Expression == Assignment \o <<Call("post parse")>>

Type == <<Call("basic type"), Call("derived type")>>

Parameter == Type \o <<Call("name"), Call("parameter")>>

------------------------------------------------------------------------------

Top == Head(todo)
Tok == tokens[at]
Known == at <= Len(tokens)

Runs(do) == status = "running" /\ todo # <<>> /\ Top.do = do

\* The call that runs looks at the next token.
Reads(do) == Runs(do) /\ Known

Eat == at' = at + 1 /\ UNCHANGED input
Stay == at' = at /\ UNCHANGED input

\* The call ends by making other calls.
Then(calls) == todo' = calls \o Tail(todo)

\* It does nothing else.
Goes(calls) == Then(calls) /\ UNCHANGED <<results, nodes, tables, status>>

Fail == status' = "failed" /\ UNCHANGED <<input, at, todo, results, nodes, tables>>

\* The last n elements of a stack, and what is under them.
Taken(stack, n) == SubSeq(stack, Len(stack) - n + 1, Len(stack))
Under(stack, n) == SubSeq(stack, 1, Len(stack) - n)

NoType == <<>>

NewNode(kind, kids, name, from) ==
    [kind |-> kind, kids |-> kids, name |-> name, type |-> NoType,
     from |-> from, to |-> at', parens |-> 0]

\* Builds a node that replaces the last n results.
Make(n, node) ==
    /\ nodes' = Append(nodes, node)
    /\ exprs' = Append(Under(exprs, n), Len(nodes) + 1)

------------------------------------------------------------------------------

Init ==
    /\ tokens \in Start
    /\ limit = Len(tokens) + MaxTokens
    /\ at = 1
    /\ todo = <<Since(1, "program", 0)>>
    /\ exprs = <<>> /\ types = <<>> /\ names = <<>>
    /\ nodes = <<>>
    /\ scope = <<<<>>>> /\ functions = <<>> /\ header = <<>>
    /\ status = "running"

\* The next token of the source, or its end.
Reveal ==
    /\ status = "running"
    /\ ~Known
    /\ EndOfFile \notin ToSet(tokens)
    /\ \E t \in Token \cup {EndOfFile} :
          /\ Len(tokens) = limit => t = EndOfFile
          /\ tokens' = Append(tokens, t)
    /\ UNCHANGED <<limit, at, todo, results, nodes, tables, status>>

\* Mutant: whatever is there ends a block.
Matches_AnyEnd(token) == token = "}" \/ Tok = token

Matches(token) == Tok = token

\* if (parser_eat()->type != ...) log_error(...)
ExpectToken ==
    /\ Reads("expect")
    /\ \/ Matches(Top.op) /\ Eat /\ Goes(<<>>)
       \/ ~Matches(Top.op) /\ Fail

\* The end of a parse function: the node is made of the last n results.
BuildNode ==
    /\ Runs("build")
    /\ Stay
    /\ Then(<<>>)
    /\ Make(Top.n, NewNode(Top.op, Taken(exprs, Top.n), "", Top.from))
    /\ UNCHANGED <<types, names, tables, status>>

------------------------------------------------------------------------------
(***************************************************************************)
(* Expressions: expr_parser.c.                                             *)
(***************************************************************************)

Prefix ==
    /\ Reads("prefix")
    /\ \/ /\ Tok = "*" /\ Eat
          /\ Goes(<<Call("prefix"), Build(at, "dereference", 1)>>)
       \/ /\ Tok = "&" /\ Eat
          /\ Goes(<<Call("prefix"), Build(at, "address of", 1)>>)
       \/ /\ Tok \notin {"*", "&"} /\ Stay
          /\ Goes(<<Call("primary"), Call("suffix")>>)

LeafKind == IF Tok \in Name THEN "identifier" ELSE Tok

Primary ==
    /\ Reads("primary")
    /\ \/ /\ Tok \in Name \cup {"integer", "string"} /\ Eat
          /\ Then(<<>>)
          /\ Make(0, NewNode(LeafKind, <<>>, Tok, at))
          /\ UNCHANGED <<types, names, tables, status>>
       \/ Tok = "(" /\ Eat /\ Goes(Expression \o <<Call("parenthesis")>>)
       \/ Tok \notin Name \cup {"integer", "string", "("} /\ Fail

\* The expression in parentheses is returned as it is; its span is history.
Parenthesis ==
    LET inner == nodes[Last(exprs)] IN
    /\ Reads("parenthesis")
    /\ \/ /\ Tok = ")" /\ Eat
          /\ Then(<<>>)
          /\ nodes' = [nodes EXCEPT ![Last(exprs)] =
                [inner EXCEPT !.from = Top.from, !.to = at', !.parens = inner.parens + 1]]
          /\ UNCHANGED <<results, tables, status>>
       \/ Tok # ")" /\ Fail

\* A call, or subscripts; a call is not followed by another suffix.
Suffix ==
    /\ Reads("suffix")
    /\ \/ Tok = "(" /\ Eat /\ Goes(<<Call("arguments")>>)
       \/ Tok # "(" /\ Stay /\ Goes(<<Call("subscripts")>>)

Subscripts ==
    /\ Reads("subscripts")
    /\ \/ /\ Tok = "[" /\ Eat
          /\ Goes(Expression \o <<Expect("]"),
                  Build(nodes[Last(exprs)].from, "subscript", 2), Top>>)
       \/ Tok # "[" /\ Stay /\ Goes(<<>>)

CloseArguments(n) == <<Expect(")"), Since(Top.from, "call", n)>>

Arguments ==
    /\ Reads("arguments")
    /\ Stay
    /\ \/ Tok \in {")", EndOfFile} /\ Goes(CloseArguments(Top.n))
       \/ /\ Tok \notin {")", EndOfFile}
          /\ Goes(Expression \o <<Since(Top.from, "argument", Top.n + 1)>>)

\* Behind an argument; after a comma the list may also end.
NextArgument ==
    /\ Reads("argument")
    /\ \/ Tok = ")" /\ Stay /\ Goes(CloseArguments(Top.n))
       \/ Tok = "," /\ Eat /\ Goes(<<Since(Top.from, "arguments", Top.n)>>)
       \/ Tok \notin {")", ","} /\ Fail

\* The callee is freed once its symbol is known; its index stays as history.
FunctionCall ==
    LET parts  == Taken(exprs, Top.n + 1)
        callee == nodes[parts[1]]
    IN /\ Runs("call")
       /\ \/ /\ callee.kind = "identifier" /\ Stay
             /\ Then(<<>>)
             /\ Make(Top.n + 1, NewNode("call", parts, callee.name, callee.from))
             /\ UNCHANGED <<types, names, tables, status>>
          \/ callee.kind # "identifier" /\ Fail

\* Mutant: the right operand is parsed like the left one.
OperandLevel_Same(n) == Level(n)

\* What is parsed behind an operator of a level.
OperandLevel(n) == Level(n - 1)

BinaryOperator ==
    /\ Reads("operators")
    /\ \/ /\ Tok \in Operators[Top.n] /\ Eat
          /\ Goes(OperandLevel(Top.n) \o
                  <<Build(nodes[Last(exprs)].from, Tok, 2), Top>>)
       \/ Tok \notin Operators[Top.n] /\ Stay /\ Goes(<<>>)

AssignmentOperator ==
    /\ Reads("assignment")
    /\ \/ /\ Tok = "=" /\ Eat
          /\ Goes(Assignment \o <<Build(nodes[Last(exprs)].from, "=", 2)>>)
       \/ Tok # "=" /\ Stay /\ Goes(<<>>)

------------------------------------------------------------------------------
(***************************************************************************)
(* post_parse: the types of the expressions.  A type is the sequence of    *)
(* its constructors, the outermost first.                                  *)
(***************************************************************************)

Kid(node, k) == nodes[node.kids[k]]

Outer(type) == SubSeq(type, 1, 1)

\* scope_resolve_variable: the innermost scope that has the name.
Resolved(name) ==
    LET holders == {d \in DOMAIN scope : name \in DOMAIN scope[d]}
    IN IF holders = {} THEN NoType ELSE scope[Max(holders)][name]

\* Mutant: only the left operand.
PostParsed_Left(node) ==
    IF node.kind \in {"call", "integer", "string", "identifier"} THEN <<>>
    ELSE <<node.kids[1]>>

\* The operands whose post_parse a handler calls.  An index and an argument
\* have been through parse_expr, which has called it.
PostParsed(node) ==
    CASE node.kind \in BinaryKinds \cup {"="} -> node.kids
      [] node.kind \in {"subscript", "dereference", "address of"} -> <<node.kids[1]>>
      [] OTHER -> <<>>

\* The type a handler gives its node, and NoType where it ends the compiler.
TypeOf(node) ==
    CASE node.kind = "integer" -> <<"int">>
      [] node.kind = "string" -> <<"*", "char">>
      [] node.kind = "identifier" -> Resolved(node.name)
      [] node.kind \in Operators[3] -> <<"char">>
      [] node.kind \in Operators[1] \cup Operators[2] -> <<"int">>
      [] node.kind = "call" ->
            IF node.name \in DOMAIN functions THEN functions[node.name].type ELSE NoType
      [] node.kind = "subscript" ->
            IF /\ Outer(Kid(node, 1).type) \in {<<"*">>, <<"[]">>}
               /\ Outer(Kid(node, 2).type) \in {<<"int">>, <<"char">>}
            THEN Tail(Kid(node, 1).type) ELSE NoType
      [] node.kind = "dereference" ->
            IF Outer(Kid(node, 1).type) = <<"*">> THEN Tail(Kid(node, 1).type) ELSE NoType
      [] node.kind = "address of" -> <<"*">> \o Kid(node, 1).type
      [] node.kind = "=" ->
            IF Outer(Kid(node, 1).type) # <<"[]">> THEN Kid(node, 1).type ELSE NoType

\* n is the node, or 0 for the expression just parsed.
PostParse ==
    LET i    == IF Top.n = 0 THEN Last(exprs) ELSE Top.n
        kids == PostParsed(nodes[i])
    IN /\ Runs("post parse")
       /\ Stay
       /\ Goes([k \in DOMAIN kids |-> Since(at, "post parse", kids[k])]
               \o <<Since(at, "type", i)>>)

SetType ==
    /\ Runs("type")
    /\ LET type == TypeOf(nodes[Top.n])
       IN \/ /\ type # NoType /\ Stay
             /\ Then(<<>>)
             /\ nodes' = [nodes EXCEPT ![Top.n].type = type]
             /\ UNCHANGED <<results, tables, status>>
          \/ type = NoType /\ Fail

------------------------------------------------------------------------------
(***************************************************************************)
(* Types and names: type_parser.c.  The size of an array is left out.      *)
(***************************************************************************)

BasicType ==
    /\ Reads("basic type")
    /\ \/ /\ Tok \in {"char", "int"} /\ Eat
          /\ Then(<<>>)
          /\ types' = Append(types, <<Tok>>)
          /\ UNCHANGED <<exprs, names, nodes, tables, status>>
       \/ Tok \notin {"char", "int"} /\ Fail

Wrap(constructor) ==
    /\ types' = Append(Front(types), <<constructor>> \o Last(types))
    /\ UNCHANGED <<exprs, names, nodes, tables, status>>

DerivedType ==
    /\ Reads("derived type")
    /\ \/ Tok = "*" /\ Eat /\ Then(<<Top>>) /\ Wrap("*")
       \/ /\ Tok = "[" /\ Eat
          /\ Goes(<<Expect("integer"), Expect("]"), Call("array type"), Top>>)
       \/ Tok \notin {"*", "["} /\ Stay /\ Goes(<<>>)

ArrayType == Runs("array type") /\ Stay /\ Then(<<>>) /\ Wrap("[]")

Identifier ==
    /\ Reads("name")
    /\ \/ /\ Tok \in Name /\ Eat
          /\ Then(<<>>)
          /\ names' = Append(names, Tok)
          /\ UNCHANGED <<exprs, types, nodes, tables, status>>
       \/ Tok \notin Name /\ Fail

------------------------------------------------------------------------------
(***************************************************************************)
(* Statements: parse_stmt and the parse functions of nodes/.               *)
(***************************************************************************)

\* Mutant: the semicolon of an empty statement is seen and not eaten.
Simple_Empty == IF Tok = ";" THEN <<Call("statement")>>
                ELSE Expression \o <<Expect(";"), Build(at, "expression", 1)>>

\* A statement that starts with no keyword.
Simple == Expression \o <<Expect(";"), Build(at, "expression", 1)>>

Statement ==
    /\ Reads("statement")
    /\ \/ /\ Tok = "var" /\ Eat
          /\ Goes(Type \o <<Call("name"), Call("initial value")>>)
       \/ /\ Tok \in {"if", "while"} /\ Eat
          /\ Goes(<<Expect("(")>> \o Expression \o
                  <<Expect(")"), Call("statement"), Build(at, Tok, 2)>>)
       \/ /\ Tok = "{" /\ Eat
          /\ Then(<<Call("block")>>)
          /\ scope' = Append(scope, <<>>)
          /\ UNCHANGED <<results, nodes, functions, header, status>>
       \/ /\ Tok = "return" /\ Eat
          /\ Goes(Expression \o <<Expect(";"), Build(at, "return", 1)>>)
       \/ Tok = EndOfFile /\ Fail
       \/ /\ Tok \notin {"var", "if", "while", "{", "return", EndOfFile} /\ Stay
          /\ Goes(Simple)

InitialValue ==
    /\ Reads("initial value")
    /\ \/ /\ Tok = "=" /\ Eat
          /\ Goes(Expression \o <<Expect(";"), Since(Top.from, "declare", 1)>>)
       \/ /\ Tok # "=" /\ Stay
          /\ Goes(<<Expect(";"), Since(Top.from, "declare", 0)>>)

\* A table with one more entry, or another one, for a name.
Entered(table, name, entry) ==
    [n \in DOMAIN table \cup {name} |-> IF n = name THEN entry ELSE table[n]]

\* scope_declare_variable, once the whole statement has been read.
Declare ==
    LET name == Last(names) IN
    /\ Runs("declare")
    /\ \/ /\ name \notin DOMAIN Last(scope) /\ Stay
          /\ Then(<<>>)
          /\ scope' = Append(Front(scope), Entered(Last(scope), name, Last(types)))
          /\ Make(Top.n, [NewNode("var", Taken(exprs, Top.n), name, Top.from)
                             EXCEPT !.type = Last(types)])
          /\ types' = Front(types) /\ names' = Front(names)
          /\ UNCHANGED <<functions, header, status>>
       \/ name \in DOMAIN Last(scope) /\ Fail

\* scope_pop comes before the closing brace is looked for.
Block ==
    /\ Reads("block")
    /\ Stay
    /\ \/ /\ Tok \in {"}", EndOfFile}
          /\ Then(<<Expect("}"), Build(Top.from, "block", Top.n)>>)
          /\ scope' = Front(scope)
          /\ UNCHANGED <<results, nodes, functions, header, status>>
       \/ /\ Tok \notin {"}", EndOfFile}
          /\ Goes(<<Call("statement"), Since(Top.from, "block", Top.n + 1)>>)

------------------------------------------------------------------------------
(***************************************************************************)
(* Functions and the program: func_declaration.c, function.c, parser.c.    *)
(***************************************************************************)

Program ==
    /\ Reads("program")
    /\ \/ /\ Tok = EndOfFile
          /\ status' = "done"
          /\ UNCHANGED <<input, at, todo, results, nodes, tables>>
       \/ /\ Tok = "func" /\ Eat
          /\ Goes(<<Call("name"), Expect("("), Call("parameters"), Expect("->")>>
                  \o Type \o <<Call("signature"), Top>>)
       \/ Tok \notin {"func", EndOfFile} /\ Fail

Parameters ==
    /\ Reads("parameters")
    /\ header' = <<>>
    /\ \/ Tok = ")" /\ Eat /\ Then(<<>>)
       \/ Tok # ")" /\ Stay /\ Then(Parameter)
    /\ UNCHANGED <<results, nodes, scope, functions, status>>

NextParameter ==
    /\ Reads("parameter")
    /\ \/ /\ Tok \in {")", ","} /\ Eat
          /\ Then(IF Tok = ")" THEN <<>> ELSE Parameter)
          /\ header' = Append(header, [name |-> Last(names), type |-> Last(types)])
          /\ types' = Front(types) /\ names' = Front(names)
          /\ UNCHANGED <<exprs, nodes, scope, functions, status>>
       \/ Tok \notin {")", ","} /\ Fail

\* function_declare: an earlier declaration keeps its type and its arguments.
Declared(name, defined) ==
    IF name \in DOMAIN functions
    THEN [functions[name] EXCEPT !.defined = @ \/ defined]
    ELSE [type |-> Last(types), args |-> header, defined |-> defined]

\* declare_args, which ends the compiler if a name is taken.
ArgsFit(args) ==
    \A i \in DOMAIN args :
        /\ args[i].name \notin DOMAIN Last(scope)
        /\ \A j \in 1..i - 1 : args[j].name # args[i].name

WithArgs(args) ==
    [name \in DOMAIN Last(scope) \cup {args[i].name : i \in DOMAIN args} |->
        IF name \in DOMAIN Last(scope) THEN Last(scope)[name]
        ELSE args[CHOOSE i \in DOMAIN args : args[i].name = name].type]

Signature ==
    LET name     == Last(names)
        function == Declared(name, Tok = "{")
        again    == name \in DOMAIN functions /\ functions[name].defined
    IN /\ Reads("signature")
       /\ \/ /\ Tok = "{" /\ ~again /\ ArgsFit(function.args) /\ Eat
             /\ functions' = Entered(functions, name, function)
             /\ scope' = Append(Front(scope), WithArgs(function.args))
             /\ Then(<<Since(Top.from, "body", 0)>>)
             /\ types' = Front(types)
             /\ UNCHANGED <<exprs, names, nodes, header, status>>
          \/ Tok = "{" /\ (again \/ ~ArgsFit(function.args)) /\ Fail
          \/ /\ Tok = ";" /\ Eat
             /\ functions' = Entered(functions, name, function)
             /\ Then(<<>>)
             /\ Make(0, NewNode("declaration", <<>>, name, Top.from))
             /\ types' = Front(types) /\ names' = Front(names)
             /\ UNCHANGED <<scope, header, status>>
          \/ Tok \notin {"{", ";"} /\ Fail

\* The body of a definition; scope_new at its end.
Body ==
    /\ Reads("body")
    /\ \/ /\ Tok = "}" /\ Eat
          /\ Then(<<>>)
          /\ scope' = <<<<>>>>
          /\ Make(Top.n, NewNode("function", Taken(exprs, Top.n), Last(names), Top.from))
          /\ names' = Front(names)
          /\ UNCHANGED <<types, functions, header, status>>
       \/ /\ Tok # "}" /\ Stay
          /\ Goes(<<Call("statement"), Since(Top.from, "body", Top.n + 1)>>)

Next ==
    \/ Reveal \/ ExpectToken \/ BuildNode
    \/ Prefix \/ Primary \/ Parenthesis \/ Suffix \/ Subscripts
    \/ Arguments \/ NextArgument \/ FunctionCall
    \/ BinaryOperator \/ AssignmentOperator \/ PostParse \/ SetType
    \/ BasicType \/ DerivedType \/ ArrayType \/ Identifier
    \/ Statement \/ InitialValue \/ Declare \/ Block
    \/ Program \/ Parameters \/ NextParameter \/ Signature \/ Body

Spec == Init /\ [][Next]_vars /\ WF_vars(Next)

------------------------------------------------------------------------------
(* Properties. *)

\* The parser never eats the token that ends the source and goes on: what lies
\* behind it in the token list is not initialised (parser.c:19-21).  Every
\* function has to look at what it eats, or to stop.
NeverPastEnd ==
    status # "failed" => EndOfFile \notin ToSet(SubSeq(tokens, 1, at - 1))

\* "Run post-parse code to make sure the expression is fully initialized"
\* (expr_parser.c:177): every expression of a statement has a type when the
\* statement is built, and so has everything below it but a callee.  Handlers
\* call post_parse of some operands and rely on parse_expr for the others.
Statements == {"expression", "return", "if", "while", "block", "var",
               "declaration", "function"}

Operand(node) ==
    {node.kids[k] : k \in IF node.kind = "call" THEN 2..Len(node.kids)
                          ELSE DOMAIN node.kids}

FullyInitialised ==
    \A i \in DOMAIN nodes :
        nodes[i].type # NoType \/ nodes[i].kind \in Statements =>
            \A k \in Operand(nodes[i]) :
                nodes[k].type # NoType \/ nodes[k].kind \in Statements

\* The grammar, as it is written down in textbooks: the tokens of a node are
\* those of its kids and, around them, what its kind asks for ...
KidSymbol == "kid"

Symbols(node) ==
    LET Starts(p)  == \E k \in DOMAIN node.kids : Kid(node, k).from = p
        Covers(p)  == \E k \in DOMAIN node.kids :
                         p \in Kid(node, k).from + 1..Kid(node, k).to - 1
        first      == node.from + node.parens
        positions  == [i \in 1..node.to - node.parens - first |-> first + i - 1]
        own        == SelectSeq(positions, LAMBDA p : ~Covers(p))
    IN [i \in DOMAIN own |-> IF Starts(own[i]) THEN KidSymbol ELSE tokens[own[i]]]

TypeTokens(type) ==
    FlattenSeq([i \in DOMAIN type |->
        LET c == type[Len(type) + 1 - i]
        IN IF c = "[]" THEN <<"[", "integer", "]">> ELSE <<c>>])

Kids(n) == [k \in 1..n |-> KidSymbol]

Listed(n) == [k \in 1..2 * n - 1 |-> IF k % 2 = 1 THEN KidSymbol ELSE ","]

\* The forms of a node of a kind, with n kids.
Forms(node, n) ==
    CASE node.kind \in {"integer", "string", "identifier"} -> {<<node.name>>}
      [] node.kind \in BinaryKinds \cup {"="} -> {<<KidSymbol, node.kind, KidSymbol>>}
      [] node.kind = "subscript" -> {<<KidSymbol, "[", KidSymbol, "]">>}
      [] node.kind = "dereference" -> {<<"*", KidSymbol>>}
      [] node.kind = "address of" -> {<<"&", KidSymbol>>}
      [] node.kind = "call" ->
            {<<KidSymbol, "(">> \o args \o <<")">> :
                args \in IF n = 1 THEN {<<>>} ELSE {Listed(n - 1), Listed(n - 1) \o <<",">>}}
      [] node.kind = "expression" -> {<<KidSymbol, ";">>}
      [] node.kind = "return" -> {<<"return", KidSymbol, ";">>}
      [] node.kind \in {"if", "while"} -> {<<node.kind, "(", KidSymbol, ")", KidSymbol>>}
      [] node.kind = "block" -> {<<"{">> \o Kids(n) \o <<"}">>}
      [] node.kind = "var" ->
            {<<"var">> \o TypeTokens(node.type) \o <<node.name>>
                \o (IF n = 0 THEN <<";">> ELSE <<"=", KidSymbol, ";">>)}

FormRight(node) ==
    LET s == Symbols(node)
        n == Len(node.kids)
    IN CASE node.kind = "function" ->
                /\ SubSeq(s, 1, 3) = <<"func", node.name, "(">>
                /\ IsSuffix(<<"{">> \o Kids(n) \o <<"}">>, s)
         [] node.kind = "declaration" ->
                SubSeq(s, 1, 3) = <<"func", node.name, "(">> /\ Last(s) = ";"
         [] OTHER -> s \in Forms(node, n)

\* ... and an operand binds tighter than the operator it belongs to: the left
\* one of a binary operator at least as tightly, for a - b - c is (a - b) - c.
Binding(node) ==
    CASE node.parens > 0 \/ node.kind \in {"integer", "string", "identifier", "subscript"} -> 0
      [] node.kind \in {"call", "dereference", "address of"} -> 1
      [] node.kind = "=" -> 5
      [] OTHER -> 1 + CHOOSE level \in 1..3 : node.kind \in Operators[level]

OperandsBind(node) ==
    LET own == Binding([node EXCEPT !.parens = 0])
    IN CASE node.kind \in BinaryKinds ->
                Binding(Kid(node, 1)) <= own /\ Binding(Kid(node, 2)) < own
         [] node.kind = "=" -> Binding(Kid(node, 1)) < own
         [] node.kind \in {"dereference", "address of"} -> Binding(Kid(node, 1)) <= own
         [] node.kind = "subscript" -> Binding(Kid(node, 1)) <= own
         [] node.kind = "call" -> Kid(node, 1).kind = "identifier"
         [] OTHER -> TRUE

\* The nodes are the parse tree of the source: every node has a form of the
\* grammar and operands that bind as the grammar asks, and an accepted program
\* is nothing but its functions.
TreeFollowsGrammar ==
    /\ \A i \in DOMAIN nodes : FormRight(nodes[i]) /\ OperandsBind(nodes[i])
    /\ status = "done" =>
          /\ at = Len(tokens)
          /\ \A k \in DOMAIN exprs :
                /\ nodes[exprs[k]].kind \in {"function", "declaration"}
                /\ nodes[exprs[k]].to = IF k = Len(exprs) THEN at
                                         ELSE nodes[exprs[k + 1]].from
          /\ exprs # <<>> => nodes[exprs[1]].from = 1

\* Every source is parsed or rejected.  Functions call each other and loops
\* turn without eating a token; none does so for ever.
ParserEnds == <>(status # "running")
================================================================================
