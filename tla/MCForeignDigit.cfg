SPECIFICATION Spec
CONSTANTS
    Input <- MCInput
    IsSpace <- MCIsSpace
    IsLetter <- MCIsLetter
    IsDigit <- MCIsDigit
    LowerBytes <- MCLowerBytes
    ParsesFloat <- MCParsesFloat
CHECK_DEADLOCK FALSE
INVARIANT FailuresAreErrors
