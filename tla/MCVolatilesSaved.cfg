SPECIFICATION Spec
CONSTANTS
    Expr <- SumOfCallsExpr
    Statement <- SumOfCallsStatement
INVARIANT
    VolatilesSaved
