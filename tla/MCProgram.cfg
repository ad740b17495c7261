SPECIFICATION ProgramSpec
CONSTANTS
    IntBits = 2
    Parses <- MCParses
    Parse <- MCParse
    Format <- MCFormat
    Concat <- MCConcat
    StrLess <- MCStrLess
    Instant <- MCInstant
    FloatOp <- MCFloatOp
    FloatNeg <- MCFloatNeg
    FloatIsZero <- MCFloatIsZero
    FloatLess <- MCFloatLess
    FloatEq <- MCFloatEq
    IntToFloat <- MCIntToFloat
    FloatToInt <- MCFloatToInt
    Eval <- EvalExpr
    TableName <- MCTableName
    ColumnName <- MCColumnName
    Stmt = {}
    HostTable = {}
    MaxRows = 5
    Input <- MCInput
    Bytes <- MCBytes
    Runes <- MCRunes
CHECK_DEADLOCK FALSE
INVARIANTS AllOrNothing OneAnswerEach TablesAreAligned
PROPERTIES ScriptEnds ScriptIsAtomic
