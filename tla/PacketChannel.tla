---------------------------- MODULE PacketChannel ----------------------------
(***************************************************************************)
(* What the packet framer of conn.rs promises to the layers above it: a    *)
(* reliable, ordered channel of whole logical packets.  A writer appends a *)
(* packet; the reader receives exactly the packets written, in order, one  *)
(* at a time, never a fragment and never two packets merged.               *)
(***************************************************************************)
EXTENDS Naturals, Sequences

CONSTANT Packet         \* the logical payloads that may be written

VARIABLES sent,         \* packets handed to the channel, in order
          received      \* packets handed to the reader, in order

vars == <<sent, received>>

Init == sent = <<>> /\ received = <<>>

Write(p) == /\ sent' = Append(sent, p)
            /\ UNCHANGED received

Deliver == /\ Len(received) < Len(sent)
           /\ received' = Append(received, sent[Len(received) + 1])
           /\ UNCHANGED sent

Next == (\E p \in Packet : Write(p)) \/ Deliver

Spec == Init /\ [][Next]_vars
==============================================================================
