CONSTANTS
    MaxAllowedPackets <- MCMaxAllowedPackets
    ParamCounts <- MCParamCounts
    Values <- MCBytesValues
    MaxCalls <- MCMaxCalls

SPECIFICATION Spec

INVARIANT TypeOK
INVARIANT ParamsDelivered
INVARIANT RowEchoesParams
INVARIANT LongDataNeverRefused
INVARIANT NoRefusalAfterLongData
CHECK_DEADLOCK FALSE
