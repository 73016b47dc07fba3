------------------------------ MODULE Handshake ------------------------------
(***************************************************************************)
(* The greeting and the handshake response of conn.rs:                     *)
(* HandshakePacket::from_payload, handle_handshake and the flags and seed  *)
(* do_handshake_response puts in the response.  MySqlConn uses these in    *)
(* its do_handshake step.                                                  *)
(*                                                                         *)
(* A greeting keeps what from_payload branches on: the protocol version,   *)
(* the lower and (in the optional tail) upper capability flags as sets of  *)
(* flag names, the auth-plugin-data length byte, and the bytes after the   *)
(* 10 reserved ones as a sequence of tokens: "S" a seed byte (never 0),    *)
(* "NUL" a 0 byte, "N" a plugin-name byte.  seed2 is the part of the seed the     *)
(* server generated after the first 8 bytes; the parser never reads it.   *)
(* The fixed-width fields (connection id, status, character set) are      *)
(* stored, never branched on, and are left out.                            *)
(***************************************************************************)
EXTENDS Naturals, Sequences

Flags == {"PROTOCOL_41", "SECURE_CONNECTION", "PLUGIN_AUTH", "LONG_FLAG",
          "LONG_PASSWORD", "TRANSACTIONS", "LOCAL_FILES"}

\* The first 8 bytes of the seed, always in the fixed part of the greeting.
Seed1 == [i \in 1 .. 8 |-> "S"]

(* The seed the server will check the scramble against.                    *)
ServerSeed(g) == Seed1 \o g.seed2

PopNul_kept(v) == v

(* Drop a trailing NUL (the code's `if *v.get(v.len() - 1) == 0 { v.pop() }`). *)
PopNul(v) == IF v[Len(v)] = "NUL" THEN SubSeq(v, 1, Len(v) - 1) ELSE v

(* HandshakePacket::from_payload.  Without the tail the flags are the     *)
(* lower 16 bits and the seed its first 8 bytes.  With it: the upper       *)
(* flags; the length byte if CLIENT_PLUGIN_AUTH (else 0); with             *)
(* CLIENT_SECURE_CONNECTION max(length - 8, 13) more seed bytes            *)
(* (push_exact: an I/O error if the payload is shorter), a trailing NUL    *)
(* dropped; with CLIENT_PLUGIN_AUTH the rest is the plugin name, whose     *)
(* last byte is read even when it is empty (index len - 1 of an empty     *)
(* vector: the task fails).                                                *)
HandshakePacket_from_payload(g) ==
    LET caps == g.capsLow \cup (IF g.tail THEN g.capsHigh ELSE {})
        length == IF "PLUGIN_AUTH" \in caps THEN g.authLen ELSE 0
        len == IF length - 8 > 13 THEN length - 8 ELSE 13
        secure == g.tail /\ "SECURE_CONNECTION" \in caps
        plugin == g.tail /\ "PLUGIN_AUTH" \in caps
        taken == IF secure THEN len ELSE 0
        data == IF secure THEN PopNul(Seed1 \o SubSeq(g.rest, 1, len)) ELSE Seed1
        name == SubSeq(g.rest, taken + 1, Len(g.rest))
    IN CASE taken > Len(g.rest)  -> [st |-> "IoErr"]
         [] plugin /\ name = <<>> -> [st |-> "Panic"]
         [] OTHER -> [st |-> "Ok", version |-> g.version, caps |-> caps,
                      auth_plugin_data |-> data]

(* handle_handshake: MyConn.capability_flags (and the stored fields) from  *)
(* the greeting.                                                           *)
handle_handshake(hp) == hp.caps

(* do_handshake_response's capability flags: the fixed ones and the       *)
(* server's CLIENT_LONG_FLAG, read from MyConn.capability_flags.  The     *)
(* database name is not modelled, so CLIENT_CONNECT_WITH_DB is not set.   *)
ClientFlags(capability_flags) ==
    {"PROTOCOL_41", "SECURE_CONNECTION", "LONG_PASSWORD", "TRANSACTIONS",
     "LOCAL_FILES"} \cup (capability_flags \cap {"LONG_FLAG"})

(* The response: its flags and the seed scramble() is given.               *)
HandshakeResponse(capability_flags, hp) ==
    [kind |-> "HandshakeResponse", flags |-> ClientFlags(capability_flags),
     seed |-> hp.auth_plugin_data]
==============================================================================
