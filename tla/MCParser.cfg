SPECIFICATION Spec
CONSTANTS
    IntBits = 2
    Parses <- MCParses
    Parse <- MCParse
    Format <- MCFormat
    Concat <- MCConcat
    StrLess <- MCStrLess
    Instant <- MCInstant
    FloatOp <- MCFloatOp
    FloatNeg <- MCFloatNeg
    FloatIsZero <- MCFloatIsZero
    FloatLess <- MCFloatLess
    FloatEq <- MCFloatEq
    IntToFloat <- MCIntToFloat
    FloatToInt <- MCFloatToInt
    Eval <- EvalExpr
    Input <- MCInput
CHECK_DEADLOCK FALSE
INVARIANTS ParsesTheGrammar TreesAreRead StmtsAreOK AllIsRead
PROPERTY ParseEnds
