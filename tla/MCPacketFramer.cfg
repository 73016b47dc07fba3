CONSTANTS
    MAX_PAYLOAD_LEN <- MCMaxPayloadLen
    Byte <- MCByte
    MaxLen <- MCMaxLen
    MaxPackets <- MCMaxPackets
    AllowedPacketSizes <- MCAllowedPacketSizes
    StartSeqIds <- MCStartSeqIds

SPECIFICATION Spec

INVARIANT TypeOK
INVARIANT InSync
PROPERTY ImplementsPacketChannel
CHECK_DEADLOCK FALSE
PROPERTY EveryPacketRead
