---------------------------- MODULE ExecuteParams ----------------------------
(***************************************************************************)
(* The parameter path of MyStream::execute in conn.rs: Value::to_bin,     *)
(* Value::to_bin_payload (which parameters go inline in COM_STMT_EXECUTE   *)
(* and which are sent first as COM_STMT_SEND_LONG_DATA), send_long_data,   *)
(* the execute packet, and write_packet's max_allowed_packet check on      *)
(* every packet.  The server side is what MySQL does with these packets:   *)
(* it accumulates long data per parameter until the next execute and then *)
(* takes each parameter from the null bitmap, its long data, or the       *)
(* inline values.  The statement is taken to be SELECT ?, ... : the       *)
(* server answers an accepted execute with one binary row of the values it *)
(* bound, which QueryResult::next decodes (Value::from_bin_payload).       *)
(*                                                                         *)
(* Values keep only what decides their encoded length: a string's length, *)
(* a Date's or Time's length byte.  Lengths are exact, and so are the      *)
(* code's header sizes, so the boundaries are the code's boundaries.       *)
(***************************************************************************)
EXTENDS Naturals, Integers, Sequences, FiniteSets, ValueCodec

CONSTANTS MaxAllowedPackets,  \* max_allowed_packet values connect may learn
          ParamCounts,        \* prepared statements, one per num_params
          Values,             \* parameter values the application may bind
          MaxCalls            \* execute calls per behaviour

(* usize arithmetic wraps.  TLC's integers are 31-bit, so the word is     *)
(* 2^30: a wrapped value is then larger than every packet of the model,   *)
(* which is all the code's comparisons can tell apart.                    *)
Word == 2^30

MaxParamCount == CHOOSE m \in ParamCounts : \A k \in ParamCounts : k <= m

ParamIds == 1 .. MaxParamCount

VARIABLES
    maxAllowed,   \* MyConn.max_allowed_packet
    pc,           \* "Ready", or "Sending" between to_bin_payload and the execute packet
    stmt,         \* the statement of the current call (its num_params)
    params,       \* the values of the current execute call
    plan,         \* what to_bin_payload returned for them
    queue,        \* long-data packets still to be written: [id, len]
    result,       \* what the current (or last) execute call returned
    calls,        \* execute calls made
    srvLong,      \* server: long-data bytes received per statement and parameter
    srvHas,       \* server: per statement, parameters with long data since its last execute
    srvParams,    \* server: the parameters it bound at the last execute
    row           \* what QueryResult::next decoded from the answer to it

vars == <<maxAllowed, pc, stmt, params, plan, queue, result, calls,
          srvLong, srvHas, srvParams, row>>

------------------------------------------------------------------------------
(* to_bin_payload: NULLs go to the bitmap; a value goes inline while its  *)
(* length is below what is left of cap, otherwise its index joins         *)
(* large_ids; the NULLs' bits are set in the bitmap (NullBitmap, from 0). *)
(* cap reserves the bitmap and 8 bytes per value, in unsigned *)
(* arithmetic.                                                             *)
Cap(vals, max) == (max - BitmapLen(Len(vals)) - Len(vals) * 8) % Word

to_bin_payload(vals, max) ==
    LET cap == Cap(vals, max)
        RECURSIVE Go(_, _)
        Go(i, st) ==
          IF i > Len(vals) THEN st
          ELSE IF vals[i].t = "NULL"
            THEN Go(i + 1, [st EXCEPT !.nulls = @ \cup {i}])
          ELSE IF to_bin_len(vals[i]) < cap - st.written
            THEN Go(i + 1, [st EXCEPT !.written = @ + to_bin_len(vals[i]),
                                      !.inline = @ \cup {i}])
          ELSE Go(i + 1, [st EXCEPT !.large = Append(@, i)])
        pl == Go(1, [nulls |-> {}, inline |-> {}, large |-> <<>>, written |-> 0])
    IN [bitmap |-> NullBitmap({i - 1 : i \in pl.nulls}, Len(vals)),
        inline |-> pl.inline, large |-> pl.large, written |-> pl.written]

(* send_long_data: a Bytes parameter is sent in chunks of                 *)
(* max_allowed_packet - 7 bytes (chunks of an empty string: none); any    *)
(* other value is skipped.  Each packet is the command byte, statement id *)
(* (4), parameter index (2) and the chunk.                                 *)
ChunkSize_noCmdByte(max) == max - 6
ChunkSize(max) == max - 7

(* x.chunks(cs) of a string of l bytes, as long-data packets of parameter *)
(* id; the mutants lose the last short chunk, or add an empty one after a *)
(* full last chunk.                                                        *)
RECURSIVE Chunks_dropsTail(_, _, _)
Chunks_dropsTail(id, l, cs) ==
    IF l < cs THEN <<>> ELSE <<[id |-> id, len |-> cs]>> \o Chunks_dropsTail(id, l - cs, cs)

RECURSIVE Chunks_emptyTail(_, _, _)
Chunks_emptyTail(id, l, cs) ==
    IF l = 0 THEN <<>>
    ELSE IF l = cs THEN <<[id |-> id, len |-> cs], [id |-> id, len |-> 0]>>
    ELSE <<[id |-> id, len |-> IF l < cs THEN l ELSE cs]>>
         \o Chunks_emptyTail(id, IF l < cs THEN 0 ELSE l - cs, cs)

RECURSIVE Chunks(_, _, _)
Chunks(id, l, cs) ==
    IF l = 0 THEN <<>>
    ELSE <<[id |-> id, len |-> IF l < cs THEN l ELSE cs]>>
         \o Chunks(id, IF l < cs THEN 0 ELSE l - cs, cs)

LongDataPkts(vals, large, max) ==
    LET RECURSIVE Go(_)
        Go(j) == IF j > Len(large) THEN <<>>
                 ELSE (IF vals[large[j]].t = "Bytes"
                         THEN Chunks(large[j], vals[large[j]].len, ChunkSize(max))
                         ELSE <<>>) \o Go(j + 1)
    IN Go(1)

RECURSIVE Sum_large(_, _)
Sum_large(vals, large) ==
    IF large = <<>> THEN 0
    ELSE to_bin_len(vals[Head(large)]) + Sum_large(vals, Tail(large))

LongDataPktLen(p) == 1 + 4 + 2 + p.len

(* The COM_STMT_EXECUTE payload: command byte, statement id, flags,       *)
(* iteration count, then the bitmap, new_params_bound, a two-byte type per *)
(* parameter and the inline values.                                        *)
ExecPktLen_withLarge(vals, pl) ==
    1 + 4 + 1 + 4
      + (IF Len(vals) > 0
           THEN BitmapLen(Len(vals)) + 1 + 2 * Len(vals) + pl.written
                + Sum_large(vals, pl.large)
           ELSE 0)

ExecPktLen(vals, pl) ==
    1 + 4 + 1 + 4
      + (IF Len(vals) > 0 THEN BitmapLen(Len(vals)) + 1 + 2 * Len(vals) + pl.written
                          ELSE 0)

(* write_packet refuses a payload over max_allowed_packet (the models'   *)
(* limits are all below MAX_PAYLOAD_LEN, where the check applies).         *)
TooLarge(len) == len > maxAllowed

(* The server (environment): a parameter with long data since the last    *)
(* execute is bound to it; otherwise a NULL-bitmap bit, otherwise the      *)
(* inline value; a parameter with neither has no value ("Missing").        *)
Bind(i) ==
    IF i \in srvHas[stmt] THEN [t |-> "Bytes", len |-> srvLong[stmt][i]]
    ELSE IF ParamIsNull(plan.bitmap, i - 1) \/ i \in plan.inline THEN params[i]
    ELSE [t |-> "Missing", len |-> 0]

NoLongData == [i \in ParamIds |-> 0]

NoneHeld == [n \in ParamCounts |-> NoLongData]

NoRow == [st |-> "None", vals |-> <<>>]

------------------------------------------------------------------------------
Init ==
    /\ maxAllowed \in MaxAllowedPackets
    /\ pc = "Ready"
    /\ stmt = MaxParamCount
    /\ params = <<>>
    /\ plan = [bitmap |-> <<>>, inline |-> {}, large |-> <<>>, written |-> 0]
    /\ queue = <<>>
    /\ result = "None"
    /\ calls = 0
    /\ srvLong = NoneHeld
    /\ srvHas = [n \in ParamCounts |-> {}]
    /\ srvParams = <<>>
    /\ row = NoRow

(* execute with stmt.num_params values (a wrong count returns before any   *)
(* write): to_bin_payload splits them, and send_long_data's packets for    *)
(* large_ids are next.  The application may call again after an error.    *)
execute_begin ==
    /\ pc = "Ready"
    /\ calls < MaxCalls
    /\ \E n \in ParamCounts : \E vals \in [1 .. n -> Values] :
         LET pl == to_bin_payload(vals, maxAllowed) IN
         /\ stmt' = n
         /\ params' = vals
         /\ plan' = pl
         /\ queue' = LongDataPkts(vals, pl.large, maxAllowed)
    /\ pc' = "Sending"
    /\ result' = "Pending"
    /\ calls' = calls + 1
    /\ row' = NoRow
    /\ UNCHANGED <<maxAllowed, srvLong, srvHas, srvParams>>

(* send_long_data writes one COM_STMT_SEND_LONG_DATA packet; a refused   *)
(* packet ends execute with PacketTooLarge.  The server answers nothing.  *)
send_long_data_packet ==
    /\ pc = "Sending"
    /\ queue # <<>>
    /\ LET p == Head(queue) IN
       IF TooLarge(LongDataPktLen(p))
         THEN /\ result' = "TooLargeLongData"
              /\ pc' = "Ready"
              /\ queue' = <<>>
              /\ UNCHANGED <<srvLong, srvHas>>
         ELSE /\ srvLong' = [srvLong EXCEPT ![stmt][p.id] = @ + p.len]
              /\ srvHas' = [srvHas EXCEPT ![stmt] = @ \cup {p.id}]
              /\ queue' = Tail(queue)
              /\ UNCHANGED <<pc, result>>
    /\ UNCHANGED <<maxAllowed, stmt, params, plan, calls, srvParams, row>>

(* execute writes COM_STMT_EXECUTE.  If write_packet refuses it the server *)
(* keeps the long data it has; otherwise it binds the parameters and       *)
(* forgets the long data; a statement with parameters then has a result  *)
(* set to read.                                                            *)
execute_send ==
    /\ pc = "Sending"
    /\ queue = <<>>
    /\ IF TooLarge(ExecPktLen(params, plan))
         THEN /\ result' = "TooLargeExecute"
              /\ pc' = "Ready"
              /\ UNCHANGED <<srvLong, srvHas, srvParams>>
         ELSE /\ result' = "Sent"
              /\ pc' = IF stmt > 0 THEN "Rows" ELSE "Ready"
              /\ srvParams' = [i \in 1 .. stmt |-> Bind(i)]
              /\ srvLong' = [srvLong EXCEPT ![stmt] = NoLongData]
              /\ srvHas' = [srvHas EXCEPT ![stmt] = {}]
    /\ UNCHANGED <<maxAllowed, stmt, params, plan, queue, calls, row>>

(* QueryResult::next on the binary result set (is_bin): the row packet is *)
(* not an EOF, so from_bin_payload decodes it with the statement's         *)
(* columns, one per parameter; a decoding error ends the set.  The EOF    *)
(* after the row is read by the next call or by drop.                      *)
next_bin_row ==
    /\ pc = "Rows"
    /\ row' = from_bin_payload(BinRow(srvParams), stmt)
    /\ pc' = "Ready"
    /\ UNCHANGED <<maxAllowed, stmt, params, plan, queue, result, calls,
                   srvLong, srvHas, srvParams>>

Next == execute_begin \/ send_long_data_packet \/ execute_send \/ next_bin_row

Spec == Init /\ [][Next]_vars

------------------------------------------------------------------------------
TypeOK ==
    /\ maxAllowed \in MaxAllowedPackets
    /\ pc \in {"Ready", "Sending", "Rows"}
    /\ row.st \in {"None", "Ok", "IoErr"}
    /\ plan.large \in Seq(ParamIds)
    /\ queue \in Seq([id : ParamIds, len : 1 .. ChunkSize(maxAllowed)])
    /\ result \in {"None", "Pending", "Sent", "TooLargeLongData", "TooLargeExecute"}
    /\ calls \in 0 .. MaxCalls
    /\ srvLong \in [ParamCounts -> [ParamIds -> Nat]]
    /\ srvHas \in [ParamCounts -> SUBSET ParamIds]

(* Every parameter of an execute the server accepts is bound to exactly   *)
(* the value the application passed: NULLs through the bitmap, small      *)
(* values inline, a large Bytes through its long-data chunks, reassembled  *)
(* to its full length (to_bin_payload's large_ids, send_long_data's        *)
(* chunking, and the server's long data from earlier calls).               *)
ParamsDelivered == result = "Sent" => srvParams = params

(* A value read back from SELECT ?, ... is the value the application      *)
(* bound, NULL for NULL: the row decoded by from_bin_payload equals the    *)
(* execute's parameters.  The two NULL bitmaps differ (bit i of the        *)
(* parameter bitmap, bit i + 2 of the row bitmap), and a misread bit also  *)
(* shifts every later value of the row.                                    *)
RowEchoesParams == row # NoRow => row = [st |-> "Ok", vals |-> params]

(* No COM_STMT_SEND_LONG_DATA packet is ever refused: a chunk of          *)
(* max_allowed_packet - 7 bytes plus its 7 bytes of header fills the      *)
(* packet exactly.                                                         *)
LongDataNeverRefused == result # "TooLargeLongData"

(* execute is never refused after long data went out: when write_packet  *)
(* refuses COM_STMT_EXECUTE, the server holds no long data that the next   *)
(* execute of the statement would bind in place of its own values.        *)
NoRefusalAfterLongData == result = "TooLargeExecute" => srvHas[stmt] = {}

(* Spec 4.4: a parameter that would make the execute packet exceed        *)
(* max_allowed_packet goes out as long data, so execute itself is never    *)
(* refused as too large (to_bin_payload's cap).                            *)
FitsOrLongData == result # "TooLargeExecute"
==============================================================================
