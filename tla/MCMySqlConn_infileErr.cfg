CONSTANTS
    MaxCommands <- MCMaxCommands
    MaxRows <- MCMaxRows
    MaxCols <- MCMaxCols
    MaxParams <- MCMaxParams
    MaxLongData <- MCMaxLongData
    MaxInfileChunks <- MCMaxInfileChunks
    AffectedRows <- MCAffectedRows
    Greetings <- MCGreetings
    SysVarValues <- MCSysVarValues
    InfileMayFail = FALSE
    ErrMidBinary = FALSE
    MayDisconnect = TRUE

SPECIFICATION Spec

INVARIANT OkMeansNotRefused
CHECK_DEADLOCK FALSE
