CONSTANTS
    MaxCommands <- MCMaxCommands
    MaxRows <- MCMaxRows
    MaxCols <- MCMaxCols
    MaxParams <- MCMaxParams
    MaxLongData <- MCMaxLongData
    MaxInfileChunks <- MCMaxInfileChunks
    AffectedRows <- MCAffectedRows
    Greetings <- MCGreetings
    SysVarValues <- MCSysVarValues
    InfileMayFail = TRUE
    ErrMidBinary = FALSE
    MayDisconnect = TRUE

SPECIFICATION Spec

INVARIANT SequenceDiscipline
CHECK_DEADLOCK FALSE
