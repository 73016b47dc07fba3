--------------------------- MODULE MCPacketFramer ---------------------------
(* PacketFramer with MAX_PAYLOAD_LEN shrunk to 2 bytes, so that payloads of *)
(* length 0 .. 4 cover the empty payload, a partial last chunk, one full    *)
(* chunk and two full chunks (both need the trailing empty frame).  Up to  *)
(* six frames follow a start at seq_id 254, across the wrap to 0.          *)
EXTENDS PacketFramer

MCMaxPayloadLen == 2
MCByte == {0, 1}
MCMaxLen == 4
MCMaxPackets == 2
\* 1 is below MAX_PAYLOAD_LEN (size check active); 16 is not (no check).
MCAllowedPacketSizes == {1, 16}
\* a fresh command, and two packets before seq_id wraps from 255 to 0
MCStartSeqIds == {0, 254}
==============================================================================
