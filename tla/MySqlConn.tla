------------------------------ MODULE MySqlConn ------------------------------
(***************************************************************************)
(* The connection state machine of conn.rs (MyConn, its MyStream methods   *)
(* and QueryResult) talking to a MySQL server over one byte stream.        *)
(*                                                                         *)
(* Packets are whole logical packets (PacketFramer shows the framing is a  *)
(* reliable channel of them) stamped with the 8-bit sequence id.  The      *)
(* client side is the code: every action below is one call of the client   *)
(* between two points where it returns to the application or blocks on a  *)
(* read.  The server side is the environment: a MySQL server that answers  *)
(* each command with any response the protocol allows, enqueueing the whole *)
(* response at once, and that drops the connection on a packet out of     *)
(* order.  Row, column and parameter contents are abstracted to counts;    *)
(* the only row value kept is the one get_system_var parses.               *)
(***************************************************************************)
EXTENDS Naturals, Sequences, FiniteSets, TLC, Handshake

CONSTANTS MaxCommands,       \* application commands issued after connect
          MaxRows,           \* rows in one result set
          MaxCols,           \* columns of a result set / statement
          MaxParams,         \* parameters of a prepared statement
          MaxLongData,       \* COM_STMT_SEND_LONG_DATA packets per execute
          MaxInfileChunks,   \* chunks of a local file
          AffectedRows,      \* affected_rows values an OK packet carries
          Greetings,         \* handshake packets a server may send (Handshake)
          SysVarValues,      \* what SELECT @@max_allowed_packet may return
          InfileMayFail,     \* File::open / File::read may fail
          ErrMidBinary,      \* server may end a binary result set with ERR
          MayDisconnect      \* the server or the network may drop the link

ASSUME AffectedRows \subseteq Nat /\ SysVarValues \subseteq {"Num", "Null"}
ASSUME {InfileMayFail, ErrMidBinary, MayDisconnect} \subseteq BOOLEAN

SeqIdMod == 256

VARIABLES
    \* MyConn and its QueryResult
    cstate,          \* where the client code is (see ClientStates)
    caller,          \* "Connect" inside MyConn::new, else "App"
    seq_id,          \* MyConn.seq_id
    rs_bin,          \* QueryResult.is_bin
    rs_eof,          \* QueryResult.eof
    affected_rows,   \* MyConn.affected_rows
    connected,       \* MyConn.connected
    stmts,           \* Stmt values the application holds
    sysvar,          \* the value get_system_var returned
    result,          \* what the last call returned to its caller
    commands,        \* application commands issued
    capability_flags, \* MyConn.capability_flags
    \* the server and the stream
    sstate,          \* "Greeting", "Idle", "InfileRecv" or "Closed"
    sseq,            \* the server's sequence id
    sStmts,          \* statements prepared on the server: id -> columns
    lastOk,          \* affected rows of the last OK the server sent
    verdict,         \* the server's final answer to the last command
    greeting,        \* the handshake packet the server sent
    desync,          \* some side read a packet out of sequence
    c2s,             \* packets client -> server
    s2c              \* packets server -> client

clientVars == <<cstate, caller, seq_id, rs_bin, rs_eof, affected_rows,
                connected, stmts, sysvar, result, commands, capability_flags>>
serverVars == <<sstate, sseq, sStmts, lastOk, verdict, greeting>>
vars == <<clientVars, serverVars, desync, c2s, s2c>>

ClientStates == {"Handshake", "AuthResult", "QueryResp", "InfileResp",
                 "PrepareResp", "ExecuteResp", "Rows", "Draining",
                 "Ready", "Closed"}

(* Packets.  Every packet has a sequence id and a kind; the other fields  *)
(* are the parts of its payload the code branches on.                     *)
Pkt(k) == [seq |-> 0, kind |-> k]
OKPkt(ar) == [seq |-> 0, kind |-> "OK", ar |-> ar]
RowPkt(v) == [seq |-> 0, kind |-> "Row", val |-> v]
ColCountPkt(n) == [seq |-> 0, kind |-> "ColCount", n |-> n]
StmtOkPkt(id, p, c) ==
    [seq |-> 0, kind |-> "StmtOk", id |-> id, params |-> p, cols |-> c]
HandshakePkt(g) == [seq |-> 0, kind |-> "Handshake", g |-> g]
QueryPkt(sql) == [seq |-> 0, kind |-> "Query", sql |-> sql]
ExecutePkt(id) == [seq |-> 0, kind |-> "Execute", id |-> id]
LongDataPkt(id) == [seq |-> 0, kind |-> "LongData", id |-> id]

(* Stamp consecutive sequence ids on a run of packets, from s.            *)
Stamp(ps, s) == [i \in DOMAIN ps |-> [ps[i] EXCEPT !.seq = (s + i - 1) % SeqIdMod]]

Repeat(p, n) == [i \in 1 .. n |-> p]

(* The column definitions of a response: n Column packets and an EOF.     *)
ColumnBlock(n) == Repeat(Pkt("Column"), n) \o <<Pkt("EOF")>>

------------------------------------------------------------------------------
(* The stream.  A read blocks until a packet arrives or the peer has      *)
(* closed; a write to a closed stream is lost.                            *)

Readable == s2c # <<>> \/ sstate = "Closed"

(* read_packet fails: end of stream, or a packet whose sequence id is not *)
(* MyConn.seq_id ("Packet out of sync").                                   *)
ReadFails == s2c = <<>> \/ Head(s2c).seq # seq_id

(* The first k packets are there and carry seq_id, seq_id + 1, ...        *)
InOrder(k) == Len(s2c) >= k /\ \A i \in 1 .. k : s2c[i].seq = (seq_id + i - 1) % SeqIdMod

ClientSend(ps) == c2s' = IF sstate = "Closed" THEN c2s ELSE c2s \o ps

(* Consume k packets that were read in sequence.                          *)
Consume(k) == /\ s2c' = SubSeq(s2c, k + 1, Len(s2c))
              /\ seq_id' = (seq_id + k) % SeqIdMod

(* A result set header as query and execute read it: the column count     *)
(* packet, n column definitions and the EOF after them.                   *)
ResultHeaderLen(n) == n + 2

(* A failed read_packet: the error goes to the caller.                    *)
FailRead(next) ==
    /\ cstate' = next
    /\ result' = IF s2c = <<>> THEN "IoErr" ELSE "OutOfSync"
    /\ s2c' = IF s2c = <<>> THEN s2c ELSE Tail(s2c)
    /\ desync' = (desync \/ s2c # <<>>)
    /\ UNCHANGED <<seq_id, c2s>>

(* Where a failed call leaves the client: back with the application, or, *)
(* inside MyConn::new, the connection dropped.                             *)
AfterError == IF caller = "App" THEN "Ready" ELSE "Closed"

------------------------------------------------------------------------------
(* Client actions: the code of conn.rs.                                    *)

(* MyStream::do_handshake up to and including do_handshake_response:      *)
(* read the server's greeting and parse it (HandshakePacket::from_payload: *)
(* an I/O error is returned, an empty plugin name fails the task), reject  *)
(* protocol versions other than 10 and servers without CLIENT_PROTOCOL_41, *)
(* handle_handshake (MyConn.capability_flags), then send the response,     *)
(* built from MyConn.capability_flags and the parsed seed.                 *)
do_handshake ==
    /\ cstate = "Handshake"
    /\ Readable
    /\ IF ReadFails
         THEN /\ FailRead("Closed")
              /\ UNCHANGED <<caller, rs_bin, rs_eof, affected_rows, connected,
                             stmts, sysvar, commands, capability_flags>>
         ELSE LET hp == HandshakePacket_from_payload(Head(s2c).g) IN
              /\ s2c' = Tail(s2c)
              /\ IF hp.st # "Ok" \/ hp.version # 10 \/ "PROTOCOL_41" \notin hp.caps
                   THEN /\ cstate' = "Closed"
                        /\ result' = IF hp.st # "Ok" THEN hp.st ELSE "ProtocolErr"
                        /\ seq_id' = (seq_id + 1) % SeqIdMod
                        /\ UNCHANGED <<c2s, capability_flags>>
                   ELSE /\ capability_flags' = handle_handshake(hp)
                        /\ ClientSend(<<HandshakeResponse(capability_flags', hp)
                                          @@ [seq |-> seq_id + 1]>>)
                        /\ seq_id' = (seq_id + 2) % SeqIdMod
                        /\ cstate' = "AuthResult"
                        /\ UNCHANGED result
              /\ UNCHANGED <<desync, caller, rs_bin, rs_eof, affected_rows,
                             connected, stmts, sysvar, commands>>
    /\ UNCHANGED serverVars

(* The end of do_handshake (OK: handle_ok; ERR or anything else: error)   *)
(* and, on success, connect's get_system_var("max_allowed_packet"), which *)
(* starts with write_command_data(COM_QUERY, ...).                         *)
handshake_result ==
    /\ cstate = "AuthResult"
    /\ Readable
    /\ IF ReadFails
         THEN /\ FailRead("Closed")
              /\ UNCHANGED affected_rows
         ELSE LET p == Head(s2c) IN
              IF p.kind = "OK"
                THEN /\ affected_rows' = p.ar
                     /\ s2c' = Tail(s2c)
                     /\ ClientSend(<<QueryPkt("SysVar")>>)
                     /\ seq_id' = 1
                     /\ cstate' = "QueryResp"
                     /\ UNCHANGED <<result, desync>>
                ELSE /\ Consume(1)
                     /\ cstate' = "Closed"
                     /\ result' = IF p.kind = "ERR" THEN "ServerErr" ELSE "ProtocolErr"
                     /\ UNCHANGED <<affected_rows, c2s, desync>>
    /\ UNCHANGED <<caller, rs_bin, rs_eof, connected, stmts, sysvar, commands, serverVars, capability_flags>>

InfileUpload_errIsOk(k, fails) ==
    LET data == Stamp(Repeat(Pkt("InfileData"), k), seq_id + 1)
        end  == <<[Pkt("InfileEnd") EXCEPT !.seq = (seq_id + 1 + k) % SeqIdMod]>>
    IN IF fails
         THEN /\ ClientSend(data)
              /\ seq_id' = (seq_id + 1 + k) % SeqIdMod
              /\ cstate' = AfterError
              /\ result' = "Ok"
         ELSE /\ ClientSend(data \o end)
              /\ seq_id' = (seq_id + 2 + k) % SeqIdMod
              /\ cstate' = "InfileResp"
              /\ UNCHANGED result

(* send_local_infile up to its read of the answer: k packets of file data, *)
(* then the empty end packet.  If File::open or a read fails (after some   *)
(* chunks) the function returns the error at once, without the end packet. *)
InfileUpload(k, fails) ==
    LET data == Stamp(Repeat(Pkt("InfileData"), k), seq_id + 1)
        end  == <<[Pkt("InfileEnd") EXCEPT !.seq = (seq_id + 1 + k) % SeqIdMod]>>
    IN IF fails
         THEN /\ ClientSend(data)
              /\ seq_id' = (seq_id + 1 + k) % SeqIdMod
              /\ cstate' = AfterError
              /\ result' = "IoErr"
         ELSE /\ ClientSend(data \o end)
              /\ seq_id' = (seq_id + 2 + k) % SeqIdMod
              /\ cstate' = "InfileResp"
              /\ UNCHANGED result

(* MyStream::query after write_command_data: read the first packet and    *)
(* dispatch on it.  0x00: OK, handle_ok; 0xFB: send_local_infile of the    *)
(* named file (the file is opened and read here: it yields k chunks and   *)
(* then end of file, or, if it may fail, an error after k chunks, in which *)
(* case query returns that error); 0xFF: ERR; otherwise the column count, *)
(* that many column definitions and an EOF, and a text QueryResult.  In    *)
(* connect, an error or a missing result set makes get_system_var return  *)
(* None, so connect fails and MyConn::new drops the connection.           *)
query_response ==
    /\ cstate = "QueryResp"
    /\ Readable
    /\ IF ReadFails
         THEN /\ FailRead(AfterError)
              /\ UNCHANGED <<affected_rows, rs_bin, rs_eof>>
         ELSE LET p == Head(s2c) IN
              CASE p.kind = "OK" ->
                     /\ Consume(1)
                     /\ affected_rows' = p.ar
                     /\ cstate' = AfterError
                     /\ result' = IF caller = "App" THEN "Ok" ELSE "NoMaxAllowedPacket"
                     /\ UNCHANGED <<rs_bin, rs_eof, c2s, desync>>
                [] p.kind = "Infile" ->
                     \E k \in 0 .. MaxInfileChunks, fails \in {FALSE, InfileMayFail} :
                     /\ s2c' = Tail(s2c)
                     /\ InfileUpload(k, fails)
                     /\ UNCHANGED <<affected_rows, rs_bin, rs_eof, desync>>
                [] p.kind = "ERR" ->
                     /\ Consume(1)
                     /\ cstate' = AfterError
                     /\ result' = "ServerErr"
                     /\ UNCHANGED <<affected_rows, rs_bin, rs_eof, c2s, desync>>
                [] OTHER ->
                     /\ InOrder(ResultHeaderLen(p.n))
                     /\ Consume(ResultHeaderLen(p.n))
                     /\ cstate' = "Rows"
                     /\ rs_bin' = FALSE
                     /\ rs_eof' = FALSE
                     /\ result' = "ResultSet"
                     /\ UNCHANGED <<affected_rows, c2s, desync>>
    /\ UNCHANGED <<caller, connected, stmts, sysvar, commands, serverVars, capability_flags>>

local_infile_response_ignoresOk ==
    /\ cstate = "InfileResp"
    /\ Readable
    /\ IF ReadFails
         THEN /\ FailRead(AfterError)
              /\ UNCHANGED affected_rows
         ELSE /\ Consume(1)
              /\ cstate' = AfterError
              /\ result' = "Ok"
              /\ UNCHANGED <<c2s, desync, affected_rows>>
    /\ UNCHANGED <<caller, rs_bin, rs_eof, connected, stmts, sysvar, commands,
                   serverVars, capability_flags>>

(* The end of send_local_infile: read one packet; an OK is handled, any   *)
(* other packet is ignored, and query returns Ok(None) either way.        *)
local_infile_response ==
    /\ cstate = "InfileResp"
    /\ Readable
    /\ IF ReadFails
         THEN /\ FailRead(AfterError)
              /\ UNCHANGED affected_rows
         ELSE /\ Consume(1)
              /\ affected_rows' = IF Head(s2c).kind = "OK" THEN Head(s2c).ar
                                                           ELSE affected_rows
              /\ cstate' = AfterError
              /\ result' = "Ok"
              /\ UNCHANGED <<c2s, desync>>
    /\ UNCHANGED <<caller, rs_bin, rs_eof, connected, stmts, sysvar, commands,
                   serverVars, capability_flags>>

QueryResult_next_textErrIsRow ==
    /\ ~ rs_eof
    /\ Readable
    /\ IF ReadFails
         THEN /\ rs_eof' = TRUE
              /\ result' = IF s2c = <<>> THEN "IoErr" ELSE "OutOfSync"
              /\ s2c' = IF s2c = <<>> THEN s2c ELSE Tail(s2c)
              /\ desync' = (desync \/ s2c # <<>>)
              /\ UNCHANGED seq_id
         ELSE /\ Consume(1)
              /\ UNCHANGED desync
              /\ IF Head(s2c).kind = "EOF" THEN rs_eof' = TRUE /\ result' = "End"
                                            ELSE rs_eof' = FALSE /\ result' = "Row"
    /\ UNCHANGED c2s

(* QueryResult::next: read one packet.  Text rows end at an EOF (handled) *)
(* or an ERR (returned as the last item); binary rows end only at an EOF:  *)
(* any other packet, an ERR included, is decoded by from_bin_payload,      *)
(* which may yield a row or fail on the short payload.  A failed read      *)
(* ends the result set with the error.                                     *)
QueryResult_next ==
    /\ ~ rs_eof
    /\ Readable
    /\ IF ReadFails
         THEN /\ rs_eof' = TRUE
              /\ result' = IF s2c = <<>> THEN "IoErr" ELSE "OutOfSync"
              /\ s2c' = IF s2c = <<>> THEN s2c ELSE Tail(s2c)
              /\ desync' = (desync \/ s2c # <<>>)
              /\ UNCHANGED seq_id
         ELSE LET k == Head(s2c).kind IN
              /\ Consume(1)
              /\ UNCHANGED desync
              /\ CASE k = "EOF" -> rs_eof' = TRUE /\ result' = "End"
                   [] k = "ERR" /\ ~ rs_bin -> rs_eof' = TRUE /\ result' = "ServerErr"
                   [] k = "ERR" /\ rs_bin ->
                        \/ rs_eof' = FALSE /\ result' = "Row"
                        \/ rs_eof' = TRUE /\ result' = "IoErr"
                   [] OTHER -> rs_eof' = FALSE /\ result' = "Row"
    /\ UNCHANGED c2s

(* The application calls next on the QueryResult it holds.                *)
app_next ==
    /\ cstate = "Rows"
    /\ caller = "App"
    /\ QueryResult_next
    /\ UNCHANGED <<cstate, caller, affected_rows, connected, stmts, sysvar,
                   commands, serverVars, capability_flags, rs_bin>>

(* get_system_var: the first item of the result set is taken (a row gives *)
(* its first value, an error or the end gives None) and the QueryResult is *)
(* dropped.                                                                *)
get_system_var_row ==
    /\ cstate = "Rows"
    /\ caller = "Connect"
    /\ QueryResult_next
    /\ cstate' = "Draining"
    /\ sysvar' = IF result' = "Row" THEN Head(s2c).val ELSE "None"
    /\ UNCHANGED <<caller, affected_rows, connected, stmts, commands,
                   serverVars, capability_flags, rs_bin>>

(* The application drops the QueryResult it holds: Drop runs next until   *)
(* it returns None.                                                        *)
app_drop ==
    /\ cstate = "Rows"
    /\ caller = "App"
    /\ cstate' = "Draining"
    /\ UNCHANGED <<caller, seq_id, rs_bin, rs_eof, affected_rows, connected,
                   stmts, sysvar, result, commands, serverVars, capability_flags, desync, c2s, s2c>>

(* One iteration of the loop in QueryResult's Drop.                       *)
drain_next ==
    /\ cstate = "Draining"
    /\ QueryResult_next
    /\ UNCHANGED <<cstate, caller, affected_rows, connected, stmts, sysvar,
                   commands, serverVars, capability_flags, rs_bin>>

(* Drop has drained the result set.  For the application the call returns;*)
(* in connect, get_system_var returns and its value is parsed: a number   *)
(* becomes max_allowed_packet and the connection is connected, anything   *)
(* else fails connect ("Can't get max_allowed_packet value").              *)
drain_done ==
    /\ cstate = "Draining"
    /\ rs_eof
    /\ IF caller = "App"
         THEN /\ cstate' = "Ready"
              /\ UNCHANGED <<connected, result>>
         ELSE /\ connected' = (sysvar = "Num")
              /\ cstate' = IF sysvar = "Num" THEN "Ready" ELSE "Closed"
              /\ result' = IF sysvar = "Num" THEN "Ok" ELSE "NoMaxAllowedPacket"
    /\ caller' = "App"
    /\ UNCHANGED <<seq_id, rs_bin, rs_eof, affected_rows, stmts, sysvar,
                   commands, serverVars, capability_flags, desync, c2s, s2c>>

write_command_noReset(pkt, next, tooLarge) ==
    IF tooLarge
      THEN /\ UNCHANGED <<seq_id, cstate, c2s>>
           /\ result' = "PacketTooLarge"
      ELSE /\ ClientSend(<<[pkt EXCEPT !.seq = seq_id]>>)
           /\ seq_id' = (seq_id + 1) % SeqIdMod
           /\ cstate' = next
           /\ UNCHANGED result

(* MyStream::write_command_data(cmd, sql): seq_id := 0, then write_packet, *)
(* which refuses a payload over max_allowed_packet before sending it.     *)
(* query and prepare then block on the response.                           *)
write_command(pkt, next, tooLarge) ==
    IF tooLarge
      THEN /\ seq_id' = 0
           /\ result' = "PacketTooLarge"
           /\ UNCHANGED <<cstate, c2s>>
      ELSE /\ ClientSend(<<pkt>>)
           /\ seq_id' = 1
           /\ cstate' = next
           /\ UNCHANGED result

AppCommand == cstate = "Ready" /\ commands < MaxCommands

(* MyStream::query(sql) issued by the application.                         *)
query ==
    /\ AppCommand
    /\ \E tooLarge \in BOOLEAN : write_command(QueryPkt("App"), "QueryResp", tooLarge)
    /\ commands' = commands + 1
    /\ UNCHANGED <<caller, rs_bin, rs_eof, affected_rows, connected, stmts,
                   sysvar, serverVars, capability_flags, desync, s2c>>

(* MyStream::prepare(sql) issued by the application.                       *)
prepare ==
    /\ AppCommand
    /\ \E tooLarge \in BOOLEAN : write_command(Pkt("Prepare"), "PrepareResp", tooLarge)
    /\ commands' = commands + 1
    /\ UNCHANGED <<caller, rs_bin, rs_eof, affected_rows, connected, stmts,
                   sysvar, serverVars, capability_flags, desync, s2c>>

(* MyStream::execute(stmt, params): a parameter count other than           *)
(* stmt.num_params is refused; otherwise the parameters to_bin_payload did *)
(* not fit are sent first by send_long_data, one write_command_data per    *)
(* chunk, then the COM_STMT_EXECUTE packet, which write_packet may still   *)
(* refuse as too large.                                                    *)
execute ==
    /\ AppCommand
    /\ \E st \in stmts, supplied \in 0 .. MaxParams + 1 :
       IF supplied # st.params
         THEN /\ result' = "ParamCountMismatch"
              /\ UNCHANGED <<cstate, seq_id, c2s>>
         ELSE \E k \in (IF st.params > 0 THEN 0 .. MaxLongData ELSE {0}),
                 tooLarge \in BOOLEAN :
              LET longData == Repeat(LongDataPkt(st.id), k) IN
              IF tooLarge
                THEN /\ ClientSend(longData)
                     /\ seq_id' = 0
                     /\ result' = "PacketTooLarge"
                     /\ UNCHANGED cstate
                ELSE /\ ClientSend(longData \o <<ExecutePkt(st.id)>>)
                     /\ seq_id' = 1
                     /\ cstate' = "ExecuteResp"
                     /\ UNCHANGED result
    /\ commands' = commands + 1
    /\ UNCHANGED <<caller, rs_bin, rs_eof, affected_rows, connected, stmts,
                   sysvar, serverVars, capability_flags, desync, s2c>>

(* The packets of a COM_STMT_PREPARE answer: the header, then a block of  *)
(* definitions and an EOF for the parameters and for the columns, each    *)
(* present only when its count is not zero.                                *)
PreparePackets_alwaysBlocks(p) == 1 + (p.params + 1) + (p.cols + 1)
PreparePackets_noParamsEof(p) ==
    1 + p.params + (IF p.cols > 0 THEN p.cols + 1 ELSE 0)
PreparePackets(p) ==
    1 + (IF p.params > 0 THEN p.params + 1 ELSE 0)
      + (IF p.cols > 0 THEN p.cols + 1 ELSE 0)

(* Stmt::from_payload: statement id, num_columns, num_params.              *)
from_payload_swapped(p) == [id |-> p.id, params |-> p.cols, cols |-> p.params]
from_payload(p) == [id |-> p.id, params |-> p.params, cols |-> p.cols]

(* The rest of MyStream::prepare: ERR is returned; otherwise the statement *)
(* header, then, when num_params > 0, that many column packets and an EOF, *)
(* and the same for num_columns; the Stmt is returned.                     *)
prepare_response ==
    /\ cstate = "PrepareResp"
    /\ Readable
    /\ IF ReadFails
         THEN /\ FailRead("Ready")
              /\ UNCHANGED stmts
         ELSE LET p == Head(s2c) IN
              IF p.kind = "ERR"
                THEN /\ Consume(1)
                     /\ cstate' = "Ready"
                     /\ result' = "ServerErr"
                     /\ UNCHANGED <<stmts, c2s, desync>>
                ELSE /\ InOrder(PreparePackets(p))
                     /\ Consume(PreparePackets(p))
                     /\ stmts' = stmts \cup {from_payload(p)}
                     /\ cstate' = "Ready"
                     /\ result' = "Ok"
                     /\ UNCHANGED <<c2s, desync>>
    /\ UNCHANGED <<caller, rs_bin, rs_eof, affected_rows, connected, sysvar,
                   commands, serverVars, capability_flags>>

(* The rest of MyStream::execute: OK is handled, ERR returned; otherwise   *)
(* the column count, the column definitions, one more packet (the EOF),    *)
(* and a binary QueryResult.                                               *)
execute_response ==
    /\ cstate = "ExecuteResp"
    /\ Readable
    /\ IF ReadFails
         THEN /\ FailRead("Ready")
              /\ UNCHANGED <<affected_rows, rs_bin, rs_eof>>
         ELSE LET p == Head(s2c) IN
              CASE p.kind = "OK" ->
                     /\ Consume(1)
                     /\ affected_rows' = p.ar
                     /\ cstate' = "Ready"
                     /\ result' = "Ok"
                     /\ UNCHANGED <<rs_bin, rs_eof, c2s, desync>>
                [] p.kind = "ERR" ->
                     /\ Consume(1)
                     /\ cstate' = "Ready"
                     /\ result' = "ServerErr"
                     /\ UNCHANGED <<affected_rows, rs_bin, rs_eof, c2s, desync>>
                [] OTHER ->
                     /\ InOrder(ResultHeaderLen(p.n))
                     /\ Consume(ResultHeaderLen(p.n))
                     /\ cstate' = "Rows"
                     /\ rs_bin' = TRUE
                     /\ rs_eof' = FALSE
                     /\ result' = "ResultSet"
                     /\ UNCHANGED <<affected_rows, c2s, desync>>
    /\ UNCHANGED <<caller, connected, stmts, sysvar, commands, serverVars, capability_flags>>

------------------------------------------------------------------------------
(* The server (environment).  A command must carry sequence id 0; a       *)
(* packet inside an exchange must carry the next id.  Anything else makes  *)
(* the server drop the connection (packets out of order).                  *)

Expects ==
    CASE sstate = "Greeting"   -> {"HandshakeResponse"}
      [] sstate = "Idle"       -> {"Query", "Prepare", "Execute", "LongData"}
      [] sstate = "InfileRecv" -> {"InfileData", "InfileEnd"}
      [] OTHER                 -> {}

ExpectedSeq == IF sstate = "Idle" THEN 0 ELSE sseq

SrvIn == c2s # <<>> /\ sstate # "Closed"

SrvAccepts(kinds) ==
    /\ SrvIn
    /\ Head(c2s).kind \in kinds \cap Expects
    /\ Head(c2s).seq = ExpectedSeq

(* Answer the head packet of c2s with the packets ps.                      *)
Reply(ps) ==
    /\ c2s' = Tail(c2s)
    /\ s2c' = s2c \o Stamp(ps, Head(c2s).seq + 1)
    /\ sseq' = (Head(c2s).seq + 1 + Len(ps)) % SeqIdMod

(* A result set: column count, definitions, rows, and its last packet.    *)
ResultSet(n, r, last) ==
    <<ColCountPkt(n)>> \o ColumnBlock(n) \o Repeat(RowPkt("Num"), r) \o <<last>>

srv_out_of_order ==
    /\ SrvIn
    /\ ~ (Head(c2s).kind \in Expects /\ Head(c2s).seq = ExpectedSeq)
    /\ sstate' = "Closed"
    /\ desync' = TRUE
    /\ c2s' = <<>>
    /\ UNCHANGED <<clientVars, greeting, sseq, sStmts, lastOk, verdict, s2c>>

(* The server answers the handshake response with OK only when the        *)
(* scramble was computed over the seed it sent; otherwise, or if it       *)
(* refuses the user, with ERR.                                             *)
srv_auth ==
    /\ SrvAccepts({"HandshakeResponse"})
    /\ \/ \E ar \in AffectedRows :
            /\ Head(c2s).seed = ServerSeed(greeting)
            /\ Reply(<<OKPkt(ar)>>) /\ sstate' = "Idle"
            /\ lastOk' = ar /\ verdict' = "OK"
       \/ /\ Reply(<<Pkt("ERR")>>) /\ sstate' = "Closed"
          /\ verdict' = "ERR" /\ UNCHANGED lastOk
    /\ UNCHANGED <<clientVars, greeting, sStmts, desync>>

srv_query ==
    /\ SrvAccepts({"Query"})
    /\ IF Head(c2s).sql = "SysVar"
         THEN \E v \in SysVarValues :
              /\ Reply(<<ColCountPkt(1)>> \o ColumnBlock(1) \o <<RowPkt(v), Pkt("EOF")>>)
              /\ verdict' = "Rows" /\ UNCHANGED <<sstate, lastOk>>
         ELSE \/ \E ar \in AffectedRows :
                  /\ Reply(<<OKPkt(ar)>>) /\ lastOk' = ar /\ verdict' = "OK"
                  /\ UNCHANGED sstate
              \/ /\ Reply(<<Pkt("ERR")>>) /\ verdict' = "ERR"
                 /\ UNCHANGED <<sstate, lastOk>>
              \/ /\ Reply(<<Pkt("Infile")>>) /\ sstate' = "InfileRecv"
                 /\ verdict' = "Pending" /\ UNCHANGED lastOk
              \/ \E n \in 1 .. MaxCols, r \in 0 .. MaxRows, last \in {"EOF", "ERR"} :
                  /\ Reply(ResultSet(n, r, Pkt(last)))
                  /\ verdict' = IF last = "EOF" THEN "Rows" ELSE "ERR"
                  /\ UNCHANGED <<sstate, lastOk>>
    /\ UNCHANGED <<clientVars, greeting, sStmts, desync>>

srv_prepare ==
    /\ SrvAccepts({"Prepare"})
    /\ \/ /\ Reply(<<Pkt("ERR")>>) /\ verdict' = "ERR"
          /\ UNCHANGED sStmts
       \/ \E np \in 0 .. MaxParams, nc \in 0 .. MaxCols :
            LET id == Cardinality(DOMAIN sStmts) + 1
                block(n) == IF n > 0 THEN ColumnBlock(n) ELSE <<>>
            IN /\ Reply(<<StmtOkPkt(id, np, nc)>> \o block(np) \o block(nc))
               /\ sStmts' = sStmts @@ (id :> nc)
               /\ verdict' = "OK"
    /\ UNCHANGED <<clientVars, greeting, sstate, lastOk, desync>>

(* COM_STMT_EXECUTE: OK, ERR, or, for a statement with columns, a binary  *)
(* result set, which ends with an EOF or (if ErrMidBinary) an ERR.         *)
srv_execute ==
    /\ SrvAccepts({"Execute"})
    /\ Head(c2s).id \in DOMAIN sStmts
    /\ \/ \E ar \in AffectedRows :
            /\ Reply(<<OKPkt(ar)>>) /\ lastOk' = ar /\ verdict' = "OK"
       \/ /\ Reply(<<Pkt("ERR")>>) /\ verdict' = "ERR" /\ UNCHANGED lastOk
       \/ \E r \in 0 .. MaxRows, last \in IF ErrMidBinary THEN {"EOF", "ERR"} ELSE {"EOF"} :
            /\ sStmts[Head(c2s).id] > 0
            /\ Reply(ResultSet(sStmts[Head(c2s).id], r, Pkt(last)))
            /\ verdict' = IF last = "EOF" THEN "Rows" ELSE "ERR"
            /\ UNCHANGED lastOk
    /\ UNCHANGED <<clientVars, greeting, sstate, sStmts, desync>>

(* COM_STMT_SEND_LONG_DATA gets no answer.                                 *)
srv_long_data ==
    /\ SrvAccepts({"LongData"})
    /\ c2s' = Tail(c2s)
    /\ sseq' = 1
    /\ UNCHANGED <<clientVars, greeting, sstate, sStmts, lastOk, verdict, desync, s2c>>

srv_infile_data ==
    /\ SrvAccepts({"InfileData"})
    /\ c2s' = Tail(c2s)
    /\ sseq' = (sseq + 1) % SeqIdMod
    /\ UNCHANGED <<clientVars, greeting, sstate, sStmts, lastOk, verdict, desync, s2c>>

(* The empty packet ends the file; the server answers OK or ERR.          *)
srv_infile_end ==
    /\ SrvAccepts({"InfileEnd"})
    /\ sstate' = "Idle"
    /\ \/ \E ar \in AffectedRows :
            /\ Reply(<<OKPkt(ar)>>) /\ lastOk' = ar /\ verdict' = "OK"
       \/ /\ Reply(<<Pkt("ERR")>>) /\ verdict' = "ERR" /\ UNCHANGED lastOk
    /\ UNCHANGED <<clientVars, greeting, sStmts, desync>>

(* The server goes away or the network fails; what was sent stays readable.*)
srv_disconnect ==
    /\ MayDisconnect
    /\ sstate # "Closed"
    /\ sstate' = "Closed"
    /\ c2s' = <<>>
    /\ UNCHANGED <<clientVars, greeting, sseq, sStmts, lastOk, verdict, desync, s2c>>

------------------------------------------------------------------------------
Init ==
    /\ cstate = "Handshake"
    /\ caller = "Connect"
    /\ seq_id = 0
    /\ rs_bin = FALSE
    /\ rs_eof = TRUE
    /\ affected_rows = 0
    /\ connected = FALSE
    /\ stmts = {}
    /\ sysvar = "None"
    /\ result = "None"
    /\ commands = 0
    /\ sstate = "Greeting"
    /\ sseq = 1
    /\ sStmts = <<>>
    /\ lastOk = 0
    /\ verdict = "None"
    /\ desync = FALSE
    /\ c2s = <<>>
    /\ capability_flags = {}
    /\ greeting \in Greetings
    /\ s2c = <<HandshakePkt(greeting)>>

ClientStep ==
    \/ do_handshake \/ handshake_result \/ query_response
    \/ local_infile_response \/ prepare_response \/ execute_response
    \/ get_system_var_row \/ drain_next \/ drain_done

AppStep == query \/ prepare \/ execute \/ app_next \/ app_drop

ServerStep ==
    \/ srv_out_of_order \/ srv_auth \/ srv_query \/ srv_prepare
    \/ srv_execute \/ srv_long_data \/ srv_infile_data \/ srv_infile_end

Next == ClientStep \/ AppStep \/ ServerStep \/ srv_disconnect

(* The client's reads block until a packet or the end of the stream       *)
(* arrives, and its own loops run to completion: every client step is     *)
(* weakly fair.  The server answers every packet it receives.  The        *)
(* application and the network failure are not assumed to act.            *)
Fairness ==
    /\ WF_vars(do_handshake) /\ WF_vars(handshake_result)
    /\ WF_vars(query_response) /\ WF_vars(local_infile_response)
    /\ WF_vars(prepare_response) /\ WF_vars(execute_response)
    /\ WF_vars(get_system_var_row) /\ WF_vars(drain_next) /\ WF_vars(drain_done)
    /\ WF_vars(ServerStep)

Spec == Init /\ [][Next]_vars /\ Fairness

------------------------------------------------------------------------------
ClientPkt == [seq : 0 .. SeqIdMod - 1, kind : {"Prepare", "InfileData", "InfileEnd"}]
             \cup [seq : 0 .. SeqIdMod - 1, kind : {"HandshakeResponse"},
                    flags : SUBSET Flags, seed : Seq({"S", "N", "NUL"})]
             \cup [seq : 0 .. SeqIdMod - 1, kind : {"Query"}, sql : {"SysVar", "App"}]
             \cup [seq : 0 .. SeqIdMod - 1, kind : {"Execute", "LongData"}, id : Nat]

TypeOK ==
    /\ cstate \in ClientStates
    /\ caller \in {"Connect", "App"}
    /\ seq_id \in 0 .. SeqIdMod - 1
    /\ rs_bin \in BOOLEAN /\ rs_eof \in BOOLEAN
    /\ affected_rows \in AffectedRows \cup {0}
    /\ connected \in BOOLEAN
    /\ capability_flags \subseteq Flags
    /\ stmts \subseteq [id : Nat, params : 0 .. MaxParams, cols : 0 .. MaxCols]
    /\ sysvar \in SysVarValues \cup {"None"}
    /\ commands \in 0 .. MaxCommands
    /\ sstate \in {"Greeting", "Idle", "InfileRecv", "Closed"}
    /\ sseq \in 0 .. SeqIdMod - 1
    /\ desync \in BOOLEAN
    /\ c2s \in Seq(ClientPkt)
    /\ \A i \in DOMAIN s2c : s2c[i].seq \in 0 .. SeqIdMod - 1

(* The handshake response do_handshake_response sends is the one the      *)
(* greeting calls for: the password is scrambled with exactly the seed    *)
(* the server generated (both parts, whatever the greeting's layout: with *)
(* or without CLIENT_PLUGIN_AUTH and its length byte, with or without the *)
(* plugin name's NUL), and CLIENT_LONG_FLAG is advertised exactly when the *)
(* server offered it (read from MyConn.capability_flags, which             *)
(* handle_handshake must have set first).                                  *)
HandshakeResponseMatchesGreeting ==
    \A i \in DOMAIN c2s : c2s[i].kind = "HandshakeResponse" =>
        /\ c2s[i].seed = ServerSeed(greeting)
        /\ ("LONG_FLAG" \in c2s[i].flags <=> "LONG_FLAG" \in greeting.capsLow)

(* The client is inside a library call that has not yet returned.          *)
InCall ==
    \/ cstate \in {"Handshake", "AuthResult", "QueryResp", "InfileResp",
                   "PrepareResp", "ExecuteResp", "Draining"}
    \/ cstate = "Rows" /\ caller = "Connect"

(* Sequence discipline across the whole conversation: neither side ever   *)
(* reads a packet whose sequence id it does not expect.  This covers the  *)
(* handshake response continuing the greeting's sequence, write_command's *)
(* reset to 0 for every command and every long-data chunk, the local-file *)
(* packets continuing the 0xFB request's sequence, and that no command is *)
(* sent while the server is still inside an exchange.                      *)
SequenceDiscipline == ~ desync

(* Whenever a call has returned the connection to the application         *)
(* (Ready), the previous response has been read to its last packet and    *)
(* the server is waiting for a command: nothing left over can be taken as *)
(* the answer to the next command.                                         *)
ReadyMeansDrained ==
    cstate = "Ready" => (s2c = <<>> /\ sstate \in {"Idle", "Closed"})

(* The client never blocks in read_packet when the server owes it nothing: *)
(* while a call waits for a packet, or while the application holds a      *)
(* result set that is not at its end (its next() would read), a packet is  *)
(* queued, a packet to the server is pending, or the stream is closed.    *)
ClientNeverStuck ==
    ((InCall /\ ~ (cstate = "Draining" /\ rs_eof))
       \/ (cstate = "Rows" /\ ~ rs_eof))
      => (s2c # <<>> \/ c2s # <<>> \/ sstate = "Closed")

(* MyConn.affected_rows is the affected_rows of the most recent OK packet *)
(* the server sent, whenever the connection is back with the application. *)
AffectedRowsOfLastOk ==
    cstate = "Ready" => affected_rows = lastOk

(* A call that returns Ok to the application with no result set was not  *)
(* refused by the server: its final answer was not an ERR packet.         *)
OkMeansNotRefused ==
    (cstate = "Ready" /\ result = "Ok") => verdict # "ERR"

(* When a call hands the connection back to the application while the    *)
(* server is still inside an exchange, or with packets of an answer left  *)
(* unread, the call returned an error, not a success: under failing      *)
(* local files, ERR ending binary result sets and disconnects, the        *)
(* application is told whenever the stream is no longer fit for the next *)
(* command (an upload abandoned by send_local_infile, conn.rs:1130 and    *)
(* 1142, and every call after it that does not reach the server).          *)
Succeeded == {"Ok", "ResultSet", "Row", "End"}

ReadyMeansDrainedOrFailed ==
    cstate = "Ready" =>
        \/ s2c = <<>> /\ sstate \in {"Idle", "Closed"}
        \/ result \notin Succeeded

(* Every call into the library eventually returns to the application.    *)
EveryCallReturns == InCall ~> ~ InCall
==============================================================================
