---------------------------- MODULE PacketFramer ----------------------------
(***************************************************************************)
(* The packet framer of conn.rs: MyStream::write_packet splits a logical   *)
(* payload into frames of at most MAX_PAYLOAD_LEN bytes, each stamped with *)
(* the connection's 8-bit seq_id; MyStream::read_packet reassembles frames *)
(* until one shorter than MAX_PAYLOAD_LEN, checking every seq_id.  A       *)
(* payload that is an exact multiple of MAX_PAYLOAD_LEN (the empty payload *)
(* included) is terminated by an extra zero-length frame.                  *)
(*                                                                         *)
(* The writer and the reader are two ends of one byte stream; each keeps   *)
(* its own seq_id, as the client and the server do.  A frame is a record   *)
(* of its sequence id and its payload bytes; the 3-byte length header is   *)
(* the length of that payload.                                             *)
(***************************************************************************)
EXTENDS Naturals, Sequences

CONSTANTS MAX_PAYLOAD_LEN,     \* consts::MAX_PAYLOAD_LEN (2^24 - 1)
          Byte,                \* the byte values a payload is made of
          MaxLen,              \* longest payload written
          MaxPackets,          \* number of payloads written
          AllowedPacketSizes,  \* values max_allowed_packet may have learned
          StartSeqIds          \* seq_id both ends share when the window opens

ASSUME MAX_PAYLOAD_LEN \in Nat \ {0}
ASSUME MaxLen \in Nat /\ MaxPackets \in Nat
ASSUME AllowedPacketSizes \subseteq Nat \ {0}
ASSUME StartSeqIds \subseteq 0 .. 255

SeqIdMod == 256                \* seq_id is a u8; += 1 wraps

VARIABLES maxAllowedPacket,    \* MyConn.max_allowed_packet
          wseq,                \* writer's MyConn.seq_id
          lastWrite,           \* result of the last write_packet call
          wire,                \* frames written and not yet read
          rseq,                \* reader's MyConn.seq_id
          rbuf,                \* read_packet's `output` while it loops
          outOfSync,           \* read_packet returned "Packet out of sync"
          sent,                \* history: payloads write_packet accepted
          received             \* history: payloads read_packet returned

vars == <<maxAllowedPacket, wseq, lastWrite, wire, rseq, rbuf, outOfSync,
          sent, received>>

Payload == UNION {[1 .. n -> Byte] : n \in 0 .. MaxLen}

(* A frame: the 3-byte length field holds at most MAX_PAYLOAD_LEN bytes.   *)
Frame == [seq : 0 .. SeqIdMod - 1,
          data : UNION {[1 .. n -> Byte] : n \in 0 .. MAX_PAYLOAD_LEN}]

(* write_packet's guard: a payload longer than max_allowed_packet is       *)
(* refused, unless max_allowed_packet is not below MAX_PAYLOAD_LEN.        *)
Fits(data) ==
    ~ (Len(data) > maxAllowedPacket /\ maxAllowedPacket < MAX_PAYLOAD_LEN)

(* Mutant: a chunk boundary one byte too far.                              *)
Chunk_offByOne(data, i) ==
    SubSeq(data, (i - 1) * MAX_PAYLOAD_LEN + 1,
           IF i * MAX_PAYLOAD_LEN + 1 < Len(data) THEN i * MAX_PAYLOAD_LEN + 1
                                                  ELSE Len(data))

(* data.chunks(MAX_PAYLOAD_LEN): chunk i of the payload.                   *)
Chunk(data, i) ==
    SubSeq(data, (i - 1) * MAX_PAYLOAD_LEN + 1,
           IF i * MAX_PAYLOAD_LEN < Len(data) THEN i * MAX_PAYLOAD_LEN
                                              ELSE Len(data))

(* Mutants: the same emission with the zero-length terminator forgotten,  *)
(* and with the terminator stamped with the previous frame's sequence id.  *)
Frames_trailerReusesSeq(data, s) ==
    LET n       == (Len(data) + MAX_PAYLOAD_LEN - 1) \div MAX_PAYLOAD_LEN
        count   == IF Len(data) % MAX_PAYLOAD_LEN = 0 THEN n + 1 ELSE n
    IN  [i \in 1 .. count |->
            [seq  |-> (s + (IF i <= n THEN i - 1 ELSE i - 2)) % SeqIdMod,
             data |-> IF i <= n THEN Chunk(data, i) ELSE <<>>]]

(* The frames write_packet emits for `data`, starting at sequence id s:    *)
(* one per chunk, and a zero-length frame when the payload is empty or     *)
(* its last chunk is full (last_was_max).                                  *)
Frames(data, s) ==
    LET n       == (Len(data) + MAX_PAYLOAD_LEN - 1) \div MAX_PAYLOAD_LEN
        trailer == Len(data) % MAX_PAYLOAD_LEN = 0
        count   == IF trailer THEN n + 1 ELSE n
    IN  [i \in 1 .. count |->
            [seq  |-> (s + i - 1) % SeqIdMod,
             data |-> IF i <= n THEN Chunk(data, i) ELSE <<>>]]

(* The window opens between two packets of one exchange: both ends hold  *)
(* the same seq_id, 0 right after write_command, or further on after the  *)
(* packets of a long answer.                                               *)
Init ==
    /\ maxAllowedPacket \in AllowedPacketSizes
    /\ wseq \in StartSeqIds
    /\ lastWrite = "none"
    /\ wire = <<>>
    /\ rseq = wseq
    /\ rbuf = <<>>
    /\ outOfSync = FALSE
    /\ sent = <<>>
    /\ received = <<>>

(* MyStream::write_packet(data): the size check, then every frame with     *)
(* consecutive sequence ids.                                               *)
write_packet(data) ==
    /\ Len(sent) < MaxPackets
    /\ IF Fits(data)
         THEN LET fs == Frames(data, wseq) IN
              /\ wire' = wire \o fs
              /\ wseq' = (wseq + Len(fs)) % SeqIdMod
              /\ sent' = Append(sent, data)
              /\ lastWrite' = "Ok"
         ELSE /\ lastWrite' = "PacketTooLarge"
              /\ UNCHANGED <<wire, wseq, sent>>
    /\ UNCHANGED <<maxAllowedPacket, rseq, rbuf, outOfSync, received>>

(* Mutant: a full frame is taken as the last one (> instead of >=).       *)
read_packet_frame_fullFrameEnds ==
    /\ wire # <<>>
    /\ ~ outOfSync
    /\ LET f == Head(wire) IN
       /\ wire' = Tail(wire)
       /\ IF f.seq # rseq
            THEN /\ outOfSync' = TRUE
                 /\ rbuf' = <<>>
                 /\ UNCHANGED <<rseq, received>>
            ELSE /\ rseq' = (rseq + 1) % SeqIdMod
                 /\ UNCHANGED outOfSync
                 /\ IF Len(f.data) > MAX_PAYLOAD_LEN
                      THEN /\ rbuf' = rbuf \o f.data
                           /\ UNCHANGED received
                      ELSE /\ received' = Append(received, rbuf \o f.data)
                           /\ rbuf' = <<>>
    /\ UNCHANGED <<maxAllowedPacket, wseq, lastWrite, sent>>

read_packet_frame_waitsOnEmpty ==
    /\ wire # <<>>
    /\ Head(wire).data # <<>>
    /\ ~ outOfSync
    /\ LET f == Head(wire) IN
       /\ wire' = Tail(wire)
       /\ IF f.seq # rseq
            THEN /\ outOfSync' = TRUE
                 /\ rbuf' = <<>>
                 /\ UNCHANGED <<rseq, received>>
            ELSE /\ rseq' = (rseq + 1) % SeqIdMod
                 /\ UNCHANGED outOfSync
                 /\ IF Len(f.data) >= MAX_PAYLOAD_LEN
                      THEN /\ rbuf' = rbuf \o f.data
                           /\ UNCHANGED received
                      ELSE /\ received' = Append(received, rbuf \o f.data)
                           /\ rbuf' = <<>>
    /\ UNCHANGED <<maxAllowedPacket, wseq, lastWrite, sent>>

(* One iteration of the loop in MyStream::read_packet: read a frame        *)
(* header, fail on a foreign sequence id, otherwise take the payload and   *)
(* stop unless the frame was full.                                         *)
read_packet_frame ==
    /\ wire # <<>>
    /\ ~ outOfSync
    /\ LET f == Head(wire) IN
       /\ wire' = Tail(wire)
       /\ IF f.seq # rseq
            THEN /\ outOfSync' = TRUE
                 /\ rbuf' = <<>>
                 /\ UNCHANGED <<rseq, received>>
            ELSE /\ rseq' = (rseq + 1) % SeqIdMod
                 /\ UNCHANGED outOfSync
                 /\ IF Len(f.data) >= MAX_PAYLOAD_LEN
                      THEN /\ rbuf' = rbuf \o f.data
                           /\ UNCHANGED received
                      ELSE /\ received' = Append(received, rbuf \o f.data)
                           /\ rbuf' = <<>>
    /\ UNCHANGED <<maxAllowedPacket, wseq, lastWrite, sent>>

Next ==
    \/ \E data \in Payload : write_packet(data)
    \/ read_packet_frame

(* The reader blocks in read() until bytes arrive; a frame on the wire is  *)
(* therefore eventually read.                                              *)
Spec == Init /\ [][Next]_vars /\ WF_vars(read_packet_frame)

------------------------------------------------------------------------------
TypeOK ==
    /\ maxAllowedPacket \in AllowedPacketSizes
    /\ wseq \in 0 .. SeqIdMod - 1
    /\ rseq \in 0 .. SeqIdMod - 1
    /\ lastWrite \in {"none", "Ok", "PacketTooLarge"}
    /\ wire \in Seq(Frame)
    /\ rbuf \in Seq(Byte)
    /\ outOfSync \in BOOLEAN
    /\ sent \in Seq(Payload)
    /\ received \in Seq(Payload)

(* Sequence discipline: read_packet never meets a frame whose sequence id  *)
(* differs from the one it expects, whatever payload lengths were written  *)
(* before it (write_packet's empty-payload and last_was_max branches must  *)
(* each advance seq_id exactly as read_packet does).                       *)
InSync == ~ outOfSync

(* The framer implements a reliable channel of whole packets: every       *)
(* payload read_packet returns is the next payload write_packet accepted;  *)
(* a payload is never split, merged with its successor, or reordered.      *)
Channel == INSTANCE PacketChannel WITH Packet <- Payload
ImplementsPacketChannel == Channel!Spec

(* Every payload written is eventually returned by read_packet: the reader *)
(* never waits for a continuation frame that the writer never sends.       *)
EveryPacketRead ==
    \A k \in 1 .. MaxPackets : (Len(sent) >= k) ~> (Len(received) >= k)
==============================================================================
