------------------------------- MODULE MCValues --------------------------------
(* A small instance of Values: variables x of type int and c of type char; *)
(* expressions of one operator, and of two around a literal.                   *)
EXTENDS Values

MCVariable == {"x", "c"}

MCSize == [x |-> 4, c |-> 1]

Constant(n) == [op |-> "int", value |-> n]
Binary(op, l, r) == [op |-> op, kids |-> <<l, r>>]

Leaf == {[op |-> "var", name |-> v] : v \in MCVariable}
        \cup {Constant(n) : n \in {1, 3, 6}} \cup {[op |-> "call"]}

Operator == Arithmetic \cup Comparison \cup {"/"}

OneDeep == {Binary(op, l, r) : op \in Operator, l \in Leaf, r \in Leaf}

TwoDeep == {Binary(op, e, Constant(1)) : op \in Comparison \cup {"/"}, e \in OneDeep}

AllExpr == Leaf \cup OneDeep \cup TwoDeep

MCExpr == AllExpr
================================================================================
