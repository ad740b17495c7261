SPECIFICATION Spec
CONSTANTS
    IntBits = 2
    Parses <- MCParses
    Parse <- MCParse
    Format <- MCFormat
    Concat <- MCConcat
    StrLess <- MCStrLess
    Instant <- MCInstant
    FloatOp <- MCFloatOp
    FloatNeg <- MCFloatNeg
    FloatIsZero <- MCFloatIsZero
    FloatLess <- MCFloatLess
    FloatEq <- MCFloatEq
    IntToFloat <- MCIntToFloat
    FloatToInt <- MCFloatToInt
    Eval <- EvalExpr
    Columns <- MCColumns
    Data <- MCData
    Query <- MCQuery
    HasCall <- containsAggFunc
    Accepts <- validateAggExpr
    CallsIn <- AggCalls
    Replace <- rewrite
CHECK_DEADLOCK FALSE
INVARIANTS CountsMatches ExtremesOfIntegers SumIsExact SumFollowsRows ProjectionIsClosed
PROPERTY QueryEnds
