CONSTANTS
    BUFFER_SIZE <- MCBufferSize
    MaxBytes <- MCMaxBytes
    MaxWrite <- MCMaxWrite
    MaxAllowedPacket = 2
    WritePacketMayFail = FALSE

SPECIFICATION Spec

INVARIANT NeverTooLarge
CHECK_DEADLOCK FALSE
