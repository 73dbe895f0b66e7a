SPECIFICATION Spec
CONSTANTS
    Expr <- MCExpr
    Statement <- MCStatement
INVARIANTS
    ResultIsValue
    OperandsReserved
    CallsSaveOperands
    TargetLeftFree
    StatementLeavesNothing
    RegistersSuffice
    EncodingsFaithful
PROPERTY
    CalleeSavedKept
