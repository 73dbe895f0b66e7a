SPECIFICATION Spec
CONSTANTS
    Name = {"x", "f"}
    Token <- MCToken
    Start <- MCStart
    MaxTokens = 4
INVARIANTS
    NeverPastEnd
    FullyInitialised
    TreeFollowsGrammar
PROPERTIES
    ParserEnds
CHECK_DEADLOCK FALSE
