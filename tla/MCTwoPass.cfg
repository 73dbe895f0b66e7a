SPECIFICATION Spec
CONSTANTS
    x = x
    y = y
    Name = {x, y}
    Type <- MCType
    Function = {f, g}
    Args <- MCArgs
    MaxItems = 7
    MaxDepth = 3
    MaxFrame = 100
    NoInit = NoInit
INVARIANTS
    TypeOK
    BindsAlike
    FunctionsStartClean
    CompileNeverFails
    DefinedOnce
