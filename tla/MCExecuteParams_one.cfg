CONSTANTS
    MaxAllowedPackets <- MCMaxAllowedPackets
    ParamCounts = {1}
    Values <- MCNearCap
    MaxCalls <- MCMaxCalls

SPECIFICATION Spec

INVARIANT FitsOrLongData
CHECK_DEADLOCK FALSE
