------------------------------- MODULE MCTwoPass -------------------------------
(* A small instance of TwoPass: scalar arguments in either order, none and a   *)
(* repeated one; variables that are scalars or an array.                       *)
EXTENDS TwoPass

CONSTANTS x, y

MCInt == [array |-> FALSE, size |-> 4]

MCType == {MCInt, [array |-> TRUE, size |-> 20]}

MCArg(name) == [name |-> name, type |-> MCInt]

MCArgs == {<<>>, <<MCArg(x), MCArg(y)>>, <<MCArg(y), MCArg(x)>>,
           <<MCArg(x), MCArg(x)>>}
================================================================================
