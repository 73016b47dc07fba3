CONSTANTS
    MaxAllowedPackets <- MCWideMax
    ParamCounts = {2}
    Values <- MCAfterStr
    MaxCalls <- MCMaxCalls

SPECIFICATION Spec

INVARIANT ParamsDelivered
CHECK_DEADLOCK FALSE
