SPECIFICATION Spec
CONSTANTS
    f = f
    gg = gg
    hhh = hhh
    Name = {f, gg, hhh}
    NameLength <- MCNameLength
    BlockSizes = {7}
    StringSizes = {5}
    MaxRelas = 3
INVARIANTS
    TypeOK
    NamesResolve
    RelocationsBind
    OneSymbolPerName
    HeadersDescribeContents
    FileTiled
