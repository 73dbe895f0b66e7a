---------------------------- MODULE MCExprCodegen ------------------------------
(* Expressions for ExprCodegen: what the parser builds, up to some depth.     *)
EXTENDS ExprCodegen

Node(kind, size, kids) ==
    [kind |-> kind, size |-> size, kids |-> kids, params |-> <<>>]

Literal      == Node("int", 8, <<>>)
Variable == Node("var", 8, <<>>)        \* an int, a pointer or an array
Char     == Node("var", 1, <<>>)
Text     == Node("string", 8, <<>>)

Binary(kind, size, ls, rs) == {Node(kind, size, <<l, r>>) : l \in ls, r \in rs}

Plus(ls, rs)   == Binary("plus", 8, ls, rs)
Equals(ls, rs) == Binary("equals", 1, ls, rs)
Over(ls, rs)   == Binary("over", 8, ls, rs)

\* Calls of a function with these arguments and parameters of these sizes.
Call(size, kids, params) ==
    [kind |-> "call", size |-> size, kids |-> kids, params |-> params]
Calls0       == {Call(8, <<>>, <<>>)}
Calls1(es)   == {Call(1, <<e>>, <<8>>) : e \in es}
Calls2(es)   == {Call(8, <<e, f>>, <<8, 1>>) : e, f \in es}
Calls4(es)   == {Call(8, <<e, f, g, h>>, <<8, 8, 8, 8>>) : e, f, g, h \in es}

Subscript(arrays, es) == {Node("subscript", 1, <<a, e>>) : a \in arrays, e \in es}
Dereference(es)  == {Node("dereference", 8, <<e>>) : e \in es}
AddressOf(es)    == {Node("address_of", 8, <<e>>) : e \in es}
Assign(ls, rs)   == {Node("assign", l.size, <<l, r>>) : l \in ls, r \in rs}

Leaf == {Literal, Char}

\* One operator over leaves.
Simple ==
    Plus(Leaf, Leaf) \cup Equals({Char}, Leaf) \cup Calls0 \cup Calls1(Leaf)
    \cup Subscript({Variable}, Leaf) \cup Dereference({Variable})
    \cup AddressOf({Variable}) \cup Assign({Char}, {Literal})

Small == Leaf \cup Simple

\* Places that can be assigned to or have an address.
Place == Subscript({Variable}, Small)
         \cup Dereference({Variable} \cup Calls0 \cup AddressOf({Variable}))

\* Two levels of operators, without division.
Compound == UNION
    {Plus(Small, Small), Equals(Small, Small), Calls1(Small), Calls2(Small),
     Place, Subscript(Calls0 \cup {Text}, Small), AddressOf(Place),
     Assign(Place \cup {Char}, Small)}

\* a + b + c + d + e: as many operands as there are registers with an id.
Sum(as, bs, cs, ds, es) == Plus(Plus(Plus(Plus(as, bs), cs), ds), es)
Operand == {Literal} \cup Calls0
Sums == Sum(Operand, Operand, Operand, Operand, Operand)
SumParts == Plus(Plus(Plus(Operand, Operand), Operand), Operand)
            \cup Plus(Plus(Operand, Operand), Operand) \cup Plus(Operand, Operand)

\* Calls with arguments in four registers.
LongCalls == Calls4(Operand)

\* Divisions as an operand, an argument, an index and a value to store.
Half == Over(Leaf, {Literal})

Divided == UNION
    {Half, Over(Small, Small),
     Plus(Half, Small), Plus(Small, Half), Equals(Half, Small), Equals(Small, Half),
     Over(Half, Small), Over(Small, Half), Calls1(Half), Calls2(Half \cup Leaf),
     Subscript({Variable}, Half), AddressOf(Subscript({Variable}, Half)),
     Assign({Char} \cup Dereference({Variable}), Half), Plus(Half, Half)}

Statements(es, kinds) == {[kind |-> k, e |-> e] : k \in kinds, e \in es}

\* `return *p = 5;' finds rax taken by the address: see the README.
ReturnsStore(s) == /\ s.kind = "return" /\ s.e.kind = "assign"
                   /\ s.e.kids[1] \in Place

AllExpr == UNION {Small, {Variable, Text}, Compound, Divided, Sums, SumParts,
                 LongCalls}

AllStatement == UNION
    {{s \in Statements(UNION {Small, Compound, Divided}, StatementKind) :
        ~ReturnsStore(s)},
     Statements(UNION {Sums, LongCalls}, {"exprstmt"})}

\* TLC evaluates a definition that stands for a constant at each use.
MCExpr == AllExpr
MCStatement == AllStatement
================================================================================
