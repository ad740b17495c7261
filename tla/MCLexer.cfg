SPECIFICATION Spec
CONSTANTS
    Input <- MCInput
    IsSpace <- MCIsSpace
    IsLetter <- MCIsLetter
    IsDigit <- MCIsDigit
    LowerBytes <- MCLowerBytes
    ParsesFloat <- MCParsesFloat
CHECK_DEADLOCK FALSE
INVARIANTS NothingIsSkipped PositionsAreReal TokensAreWhole
PROPERTY ScanEnds
