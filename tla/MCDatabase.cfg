SPECIFICATION Spec
CONSTANTS
    IntBits = 2
    Parses <- MCParses
    Parse <- MCParse
    Format <- MCFormat
    Concat <- MCConcat
    StrLess <- MCStrLess
    Instant <- MCInstant
    FloatOp <- MCFloatOp
    FloatNeg <- MCFloatNeg
    FloatIsZero <- MCFloatIsZero
    FloatLess <- MCFloatLess
    FloatEq <- MCFloatEq
    IntToFloat <- MCIntToFloat
    FloatToInt <- MCFloatToInt
    Eval <- EvalExpr
    TableName <- MCTableName
    ColumnName <- MCColumnName
    Stmt <- MCStmt
    HostTable <- MCHostTable
    MaxRows = 2
INVARIANTS TypeOK ColumnConstraints FailureKeepsRows UpdateFrame
PROPERTIES SchemaIsStable StatementEnds StatementsAreAtomic
