CONSTANTS
    MaxCommands <- MCMaxCommands
    MaxRows <- MCMaxRows
    MaxCols <- MCMaxCols
    MaxParams <- MCMaxParams
    MaxLongData <- MCMaxLongData
    MaxInfileChunks <- MCMaxInfileChunks
    AffectedRows <- MCAffectedRows
    Greetings <- MCGreetings
    SysVarValues <- MCSysVarValues
    InfileMayFail = FALSE
    ErrMidBinary = TRUE
    MayDisconnect = TRUE

SPECIFICATION Spec

INVARIANT ClientNeverStuck
CHECK_DEADLOCK FALSE
