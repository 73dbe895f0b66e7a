SPECIFICATION Spec
CONSTANTS
    Expr <- HalfOfCallExpr
    Statement <- HalfOfCallStatement
INVARIANT
    RhsAvoidsTarget
