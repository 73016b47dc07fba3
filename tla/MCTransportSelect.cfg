CONSTANTS
    Paths <- MCPaths
    LocalSock <- MCLocalSock
    OptsSet <- MCOptsSet
    SocketVars <- MCSocketVars

SPECIFICATION Spec

INVARIANT TypeOK
INVARIANT SameServer
INVARIANT KeepsTcp
PROPERTY NewReturns
CHECK_DEADLOCK FALSE
