--------------------------- MODULE LocalInfileSink ---------------------------
(***************************************************************************)
(* The LOCAL INFILE sink of src/conn/local_infile.rs: the LocalInfile      *)
(* writer a handler writes the file's contents into.  It buffers bytes in  *)
(* a fixed array of BUFFER_SIZE bytes (an io::Cursor) and sends the        *)
(* buffered bytes as one packet with Conn::write_packet when the buffer is *)
(* full and another write arrives, or when flush is called.                *)
(*                                                                         *)
(* The handler and the code that drives it (calls the handler, flushes the *)
(* sink and sends the empty packet that ends the file) are not in this     *)
(* repository; they are modelled from the specification (4.5, 9).  The    *)
(* handler writes with write_all, which calls write until the whole       *)
(* buffer is taken.  Bytes are numbered in the order the handler writes    *)
(* them, so loss, duplication and reordering are all visible.              *)
(***************************************************************************)
EXTENDS Naturals, Sequences, SequencesExt

CONSTANTS BUFFER_SIZE,         \* LocalInfile::BUFFER_SIZE
          MaxAllowedPacket,    \* the connection's max_allowed_packet
          MaxBytes,            \* bytes the handler writes in all
          MaxWrite,            \* bytes of one write_all call
          WritePacketMayFail   \* Conn::write_packet may fail on I/O

ASSUME BUFFER_SIZE \in Nat \ {0} /\ MaxAllowedPacket \in Nat \ {0}
ASSUME MaxWrite \in Nat \ {0} /\ WritePacketMayFail \in BOOLEAN

VARIABLES
    buffer,     \* the cursor's bytes up to its position
    packets,    \* payloads write_packet sent, in order
    accepted,   \* bytes write reported as taken (bytes 1 .. accepted)
    pending,    \* bytes the current write_all has still to write
    hstate,     \* "Writing", "Done" (file ended) or "Failed"
    err         \* the error the handler's stream ended with

vars == <<buffer, packets, accepted, pending, hstate, err>>

Bytes(from, n) == [i \in 1 .. n |-> from + i]

MinOf(a, b) == IF a < b THEN a ELSE b

(* Conn::write_packet: refuses a payload over max_allowed_packet (the      *)
(* server's limit is below the packet size limit), and may fail on I/O.    *)
WritePacketOutcomes(p) ==
    IF Len(p) > MaxAllowedPacket THEN {"PacketTooLarge"}
    ELSE IF WritePacketMayFail THEN {"Ok", "IoErr"} ELSE {"Ok"}

(* flush: a packet is written only when the position is not zero, and the *)
(* position goes back to 0 only after the packet was written.              *)
flush_sends_emptyToo(buf) == TRUE
flush_sends(buf) == Len(buf) > 0

flush_rest_noReset(buf) == buf
flush_rest(buf) == <<>>

(* Cursor::write into the fixed array: takes as many bytes as are left.    *)
cursor_take_all(buf, n) == n
cursor_take(buf, n) == MinOf(n, BUFFER_SIZE - Len(buf))

Init ==
    /\ buffer = <<>>
    /\ packets = <<>>
    /\ accepted = 0
    /\ pending = 0
    /\ hstate = "Writing"
    /\ err = "None"

(* The handler starts write_all with n bytes.                              *)
handler_write_all ==
    /\ hstate = "Writing"
    /\ pending = 0
    /\ \E n \in 1 .. MaxWrite :
         /\ accepted + n <= MaxBytes
         /\ pending' = n
    /\ UNCHANGED <<buffer, packets, accepted, hstate, err>>

(* One call of LocalInfile::write from write_all: flush first if the      *)
(* buffer is full, then copy into the cursor.  An error from flush ends    *)
(* write_all with it.  After a flush the cursor has room, so write always  *)
(* takes at least one byte and write_all never meets WriteZero.           *)
write ==
    /\ hstate = "Writing"
    /\ pending > 0
    /\ \E outcome \in IF Len(buffer) = BUFFER_SIZE /\ flush_sends(buffer)
                        THEN WritePacketOutcomes(buffer) ELSE {"Ok"} :
         IF outcome # "Ok"
           THEN /\ hstate' = "Failed" /\ err' = outcome /\ pending' = 0
                /\ UNCHANGED <<buffer, packets, accepted>>
           ELSE LET full == Len(buffer) = BUFFER_SIZE
                    pkts == IF full /\ flush_sends(buffer)
                              THEN Append(packets, buffer) ELSE packets
                    base == IF full THEN flush_rest(buffer) ELSE buffer
                    k    == cursor_take(base, pending)
                IN /\ packets' = pkts
                   /\ buffer' = base \o Bytes(accepted, k)
                   /\ accepted' = accepted + k
                   /\ pending' = pending - k
                   /\ UNCHANGED <<hstate, err>>

(* The handler calls LocalInfile::flush itself between writes.            *)
flush ==
    /\ hstate = "Writing"
    /\ pending = 0
    /\ \E outcome \in IF flush_sends(buffer) THEN WritePacketOutcomes(buffer)
                                             ELSE {"Ok"} :
         IF outcome # "Ok"
           THEN /\ hstate' = "Failed" /\ err' = outcome
                /\ UNCHANGED <<buffer, packets>>
           ELSE /\ packets' = IF flush_sends(buffer) THEN Append(packets, buffer)
                                                     ELSE packets
                /\ buffer' = flush_rest(buffer)
                /\ UNCHANGED <<hstate, err>>
    /\ UNCHANGED <<accepted, pending>>

(* The handler returns an error of its own: the upload fails with it.     *)
handler_fail ==
    /\ hstate = "Writing"
    /\ pending = 0
    /\ hstate' = "Failed"
    /\ err' = "HandlerErr"
    /\ UNCHANGED <<buffer, packets, accepted, pending>>

(* The handler returns Ok: the sink is flushed and the empty packet that  *)
(* ends the file is written.  A failed flush fails the upload.             *)
handler_return ==
    /\ hstate = "Writing"
    /\ pending = 0
    /\ \E outcome \in IF flush_sends(buffer) THEN WritePacketOutcomes(buffer)
                                             ELSE {"Ok"} :
         IF outcome # "Ok"
           THEN /\ hstate' = "Failed" /\ err' = outcome
                /\ UNCHANGED <<buffer, packets>>
           ELSE /\ packets' = (IF flush_sends(buffer) THEN Append(packets, buffer)
                                                      ELSE packets) \o <<<<>>>>
                /\ buffer' = flush_rest(buffer)
                /\ hstate' = "Done"
                /\ UNCHANGED err
    /\ UNCHANGED <<accepted, pending>>

Next == handler_write_all \/ write \/ flush \/ handler_fail \/ handler_return

Spec == Init /\ [][Next]_vars

------------------------------------------------------------------------------
TypeOK ==
    /\ buffer \in SeqOf(1 .. MaxBytes, BUFFER_SIZE)
    /\ packets \in Seq(Seq(1 .. MaxBytes))
    /\ accepted \in 0 .. MaxBytes
    /\ pending \in 0 .. MaxWrite
    /\ hstate \in {"Writing", "Done", "Failed"}
    /\ err \in {"None", "IoErr", "PacketTooLarge", "HandlerErr"}

(* No byte the handler's write was told was taken is lost, duplicated or  *)
(* reordered: the packets sent, followed by what is still buffered, are    *)
(* exactly the accepted bytes in order; once the file has ended nothing is *)
(* left in the buffer.  This is about flush resetting the position only   *)
(* after a successful write_packet, and write flushing a full buffer       *)
(* before it copies.                                                       *)
StreamIntact ==
    /\ FlattenSeq(packets) \o buffer = Bytes(0, accepted)
    /\ hstate = "Done" => buffer = <<>>

(* The server takes an empty packet as the end of the file: the only      *)
(* empty packet the sink's connection sends is the last one, after the     *)
(* handler has returned; flush never sends an empty buffer.               *)
EmptyOnlyAtEnd ==
    \A i \in DOMAIN packets :
        packets[i] = <<>> => (i = Len(packets) /\ hstate = "Done")

(* A handler that only writes never sees its upload refused: every packet *)
(* the sink flushes is within max_allowed_packet (spec 4.5: "each at most  *)
(* max_allowed_packet payload bytes").                                     *)
NeverTooLarge == err # "PacketTooLarge"
==============================================================================
