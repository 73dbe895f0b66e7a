SPECIFICATION Spec
CONSTANTS
    Variable <- MCVariable
    Size <- MCSize
    Expr <- MCExpr
    Byte = 2
    Word = 8
    Quad = 16
INVARIANT
    UpperHalfClear
CHECK_DEADLOCK FALSE
