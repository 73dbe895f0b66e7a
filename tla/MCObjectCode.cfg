SPECIFICATION Spec
CONSTANTS
    Name = {f, g}
    CodeSizes = {3}
    StringSizes = {3}
    FrameSizes = {0, 8}
    MaxLabels = 3
    MaxBytes = 14
SYMMETRY Symmetry
INVARIANTS
    TypeOK
    JumpsLand
    NoStrayPatch
    RelasAtFields
    StringsAddressed
    SymbolsTile
