SPECIFICATION Spec
CONSTANTS
    Name = {x, y}
    Type <- MCType
    MaxDepth = 3
    MaxFrame = 40
INVARIANTS
    TypeOK
    SlotsDisjoint
    SlotsInFrame
    ResolvesUniquely
    StoresSound
PROPERTY
    FrameNeverShrinks
