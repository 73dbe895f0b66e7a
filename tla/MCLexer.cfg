SPECIFICATION Spec
CONSTANTS
    Text <- MCText
    Letter <- MCLetter
    Block = 2
    ValueLimit = 50
    MaxLength = 4
INVARIANTS
    StaysInBounds
    LongestMatch
CHECK_DEADLOCK FALSE
