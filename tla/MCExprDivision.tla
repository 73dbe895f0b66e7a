---------------------------- MODULE MCExprDivision -----------------------------
(* The two statements that refute the comments of func_call.c and binaryop.c  *)
(* for divisions.                                                             *)
EXTENDS MCExprCodegen

f == Call(8, <<>>, <<>>)
Sum2(l, r) == Node("plus", 8, <<l, r>>)
Over2(l, r) == Node("over", 8, <<l, r>>)

\* f() + 8 / 2 + f();
SumOfCalls == Sum2(Sum2(f, Over2(Literal, Literal)), f)
SumOfCallsExpr == {SumOfCalls, Sum2(f, Over2(Literal, Literal)),
                   Over2(Literal, Literal), f, Literal}
SumOfCallsStatement == {[kind |-> "exprstmt", e |-> SumOfCalls]}

\* h(f() / 2);
HalfOfCall == Call(8, <<Over2(f, Literal)>>, <<8>>)
HalfOfCallExpr == {HalfOfCall, Over2(f, Literal), f, Literal}
HalfOfCallStatement == {[kind |-> "exprstmt", e |-> HalfOfCall]}
================================================================================
