SPECIFICATION Spec
CONSTANTS
    x = x
    y = y
    z = z
    Name <- MCName
    Type <- MCType
    MaxDepth = 3
    MaxFrame = 32
    Bucket = {0, 1}
    HashOf <- MCHashOf
INVARIANT
    ResolvesLexically
PROPERTY
    ImplementsFrameLayout
