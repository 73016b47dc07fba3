CONSTANTS
    MaxCommands <- MCMaxCommands
    MaxRows <- MCMaxRows
    MaxCols <- MCMaxCols
    MaxParams <- MCMaxParams
    MaxLongData <- MCMaxLongData
    MaxInfileChunks <- MCMaxInfileChunks
    AffectedRows <- MCAffectedRows
    Greetings <- MCGreetings
    SysVarValues <- MCSysVarValues
    InfileMayFail = TRUE
    ErrMidBinary = TRUE
    MayDisconnect = TRUE

SPECIFICATION Spec


INVARIANT ReadyMeansDrainedOrFailed
CHECK_DEADLOCK FALSE
