CONSTANTS
    BUFFER_SIZE <- MCBufferSize
    MaxBytes <- MCMaxBytes
    MaxWrite <- MCMaxWrite
    MaxAllowedPacket = 3
    WritePacketMayFail = TRUE

SPECIFICATION Spec

INVARIANT TypeOK
INVARIANT StreamIntact
INVARIANT EmptyOnlyAtEnd
CHECK_DEADLOCK FALSE
