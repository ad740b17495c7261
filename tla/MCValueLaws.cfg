SPECIFICATION Spec
CONSTANTS
    IntBits = 3
    Parses <- MCParsesAny
    Parse <- MCParseAny
    Format <- MCFormat
    Concat <- MCConcat
    StrLess <- MCTextLess
    Instant <- MCInstantOf
    FloatOp <- MCFloatOpNaN
    FloatNeg <- MCFloatNeg
    FloatIsZero <- MCFloatIsZero
    FloatLess <- MCFloatLessNaN
    FloatEq <- MCFloatEqNaN
    IntToFloat <- MCIntToFloat
    FloatToInt <- MCFloatToInt
    Value <- MCValue
CHECK_DEADLOCK FALSE
INVARIANTS ComparisonsAgree IntegersAddUp OperandsMaySwap
