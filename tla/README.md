# TLA+ models of rust-mysql-simple's connection core

These modules model the client side of the MySQL protocol as `src/conn.rs`
implements it, and the LOCAL INFILE sink of `src/src/conn/local_infile.rs`.
TLC checks them. The MySQL server is modelled as the environment: it gives
any answer the protocol allows.

## 1. Inventory of the system

| Part (spec §2) | Code | State | Operations |
|---|---|---|---|
| C2 packet framer | `MyStream::read_packet`, `write_packet` | `seq_id: u8`, `max_allowed_packet`, the byte stream | write a payload as frames; read frames up to a short one |
| C3 packet parsers | `OkPacket`/`ErrPacket`/`EOFPacket`/`HandshakePacket`/`Stmt`/`Column::from_payload` | none (pure) | decode a payload |
| C4 value codec | `Value::to_bin`, `to_bin_payload`, `from_payload`, `from_bin_payload`, `into_str` | none (pure) | encode parameters, decode rows |
| C5 handshake | `do_handshake`, `do_handshake_response` | capability and status flags | greeting, response, auth result |
| C6 connection | `connect`, `get_system_var`, `write_command(_data)`, `query`, `prepare`, `execute`, `send_long_data`, `send_local_infile` | `affected_rows`, `connected`, `max_allowed_packet`, `seq_id` | one request/response exchange per call |
| C7 result sets | `QueryResult::next`, `Drop`, the `Iterator` impl | `eof`, `is_bin` | read one row; drain on drop |
| C8 transport | `MyConn::new` | socket, `prefer_socket` | choose UNIX or TCP; reconnect over the local socket |
| LOCAL INFILE sink | `LocalInfile::write`, `flush` | cursor position, buffer | buffer bytes; send a full buffer as a packet |

How the parts interact: the application calls C6. C6 writes one command
through C2, with the sequence id reset to 0. It then reads the answer
packet by packet and dispatches on its first byte (C3). A result set (C7)
holds the connection until it is dropped, and dropping it reads the rest.
`connect` runs the handshake (C5) and then a query of its own
(`SELECT @@max_allowed_packet`). That query's result set is drained before
`connect` returns.

Hard behaviours: the client and the server run at the same time over two
FIFO streams. The server may drop the link at any point. Sequence ids must
stay in step across multi-packet answers, the local-file upload, and
long-data packets. A trailing empty frame follows any payload whose length
is a multiple of `MAX_PAYLOAD_LEN`. The local file can fail to read in the
middle of an upload. A server can send ERR inside a result set. The sink
refuses to flush an empty buffer, and a failed `write_packet` must not lose
its bytes.

## 2. Modules

* **PacketChannel**: the abstract specification of the framer. It is a
  reliable FIFO of whole packets: `Write(p)`, then `Deliver` in order.
* **PacketFramer**: `write_packet` (the size check, chunking, the trailing
  empty frame, the sequence id of each frame) and one iteration of
  `read_packet`'s loop (`read_packet_frame`). Both work over a wire of
  frames. `sent` and `received` record the payloads.
  `Channel == INSTANCE PacketChannel WITH Packet <- Payload` maps the framer
  onto the abstract channel. `ImplementsPacketChannel` is the refinement.
* **Handshake**: the greeting and the handshake response (C3/C5).
  * A greeting keeps the protocol version, the lower and upper capability
    flags as sets of names, whether the optional tail is there, the
    auth-plugin-data length byte, and the bytes after the reserved ones as
    tokens: `"S"` a seed byte, `"NUL"`, `"N"` a plugin-name byte.
  * `HandshakePacket_from_payload` is the parser: the upper flags, the
    length byte only with CLIENT_PLUGIN_AUTH, `max(length - 8, 13)` more
    seed bytes with CLIENT_SECURE_CONNECTION, the trailing NUL dropped
    (`PopNul`), the plugin name. A short payload is an I/O error; an empty
    plugin name fails the task (`"Panic"`).
  * `handle_handshake` stores the flags. `HandshakeResponse` is what
    `do_handshake_response` sends: its flags (`ClientFlags`, with
    CLIENT_LONG_FLAG taken from `MyConn.capability_flags`) and the seed
    handed to `scramble`.
* **MySqlConn**: the connection. It extends Handshake: `do_handshake`
  parses the greeting with it, and the server (`srv_auth`) answers OK only
  to a response scrambled with the seed it sent.
  * Its client variables are `MyConn`'s fields plus the state of the open
    `QueryResult`: `seq_id`, `affected_rows`, `connected`, `rs_bin`,
    `rs_eof`.
  * `cstate` says where the code is: which read it is blocked on, or
    `Ready` when it is back with the application.
  * `caller` records whether the code runs inside `MyConn::new`/`connect`
    or for the application.
  * Each client action is the code between two blocking reads, whole. For
    example, `query_response` is `query`'s dispatch, including the
    streaming in `send_local_infile` (the operator `InfileUpload`: the
    file's packets, then the end packet, or an early return without it). `drain_done` is the end of `Drop`
    plus the rest of `connect`.
  * Packets are whole logical packets. PacketFramer shows that the framing
    delivers them as a reliable channel.
  * Payloads are abstracted to the fields the code branches on.
  * The server actions (`srv_*`) answer whatever the protocol allows. They
    enqueue a whole answer at once, and they close the connection on a
    packet that is out of sequence.
  * `srv_disconnect` is a dropped link.
* **LocalInfileSink**: `LocalInfile::write` and `flush`.
  * Bytes are numbered in write order, so loss, duplication and reordering
    are all visible.
  * `Conn::write_packet`, the handler and the driver are not in the
    sources. The driver runs the handler, flushes, and sends the empty
    end-of-file packet. These parts are modelled from spec §4.5 and §9 and
    marked `spec_modelled` in PROJECT.json.
* **ValueCodec**: the binary side of the value codec (C4).
  * `to_bin_len` is `Value::to_bin`, kept to the length of each encoding.
  * `NullBitmap` is `to_bin_payload`'s bitmap: bit `i % 8` of byte `i / 8`
    for each NULL parameter `i`, with Bitwise `|`.
  * `ParamIsNull` is the server's reading of that bitmap (spec §4.2).
  * `BinRow` is the server's binary result row (spec §4.2, §4.6): a NULL
    bitmap in which column `i` is bit `i + 2`, then the non-NULL values in
    order. `from_bin_payload` is `Value::from_bin_payload` with its
    `bit_offset`; `read_bin_value`, which is not in the sources, is
    abstracted to taking the next value, and fails past the end.
* **ExecuteParams**: the parameter path of `execute`. It extends ValueCodec.
  * `to_bin_payload` is the null bitmap, the unsigned `cap` (wrapped
    modulo `Word`) and the inline/long-data split. It is a RECURSIVE
    operator over the values.
  * `LongDataPkts` is `send_long_data`'s chunking by
    `max_allowed_packet - 7`. It skips any value that is not `Bytes`.
  * `ExecPktLen` is the size of the `COM_STMT_EXECUTE` payload, and
    `TooLarge` is `write_packet`'s check.
  * The actions are `execute_begin` (the call up to `send_long_data`),
    `send_long_data_packet` (one packet), `execute_send`, and
    `next_bin_row`, the binary branch of `QueryResult::next`.
  * The statement is taken to be `SELECT ?, ...`. The server answers an
    accepted execute with one binary row of the values it bound, and
    `next_bin_row` decodes it. So a value goes from the application through
    the parameter bitmap, inline data or long data, and back through the
    row bitmap.
  * The server is the environment. It keeps long data per statement and
    parameter until that statement's next execute, then binds each
    parameter from its long data, the bitmap (through `ParamIsNull`) or
    the inline values. ParamsDelivered therefore also checks the bitmap's
    encoding.
  * Each call chooses a statement, identified by its parameter count. The
    application may call again after an error.
* **TransportSelect**: `MyConn::new` (C8).
  * `new_unix` and `new_tcp` are the two branches.
  * `connect` is `conn.connect()` as one step that succeeds or fails.
    MySqlConn models its steps.
  * `socket_var` is the `@@socket` query and the nested call with
    `unix_addr` set. `Return` is its fallback, `.or(Ok(conn))`.
  * The environment is a server on this host (at its loopback addresses
    and `LocalSock`) and a server on another host. Each reports any path
    as `@@socket`.
  * `tcpUp` is a history variable: a TCP connection completed `connect`.
* **MC\*** modules give the constants small values.

Mutant operators (`*_noReset`, `*_swapped`, …) sit just before the
definition they replace. Each one is a plausible bug in that code. A mutant
is used only when it replaces its original, and then TLC must report the
property it targets as violated.

## 3. Runs

| Run | Checks | Result |
|---|---|---|
| framer | TypeOK, InSync, ImplementsPacketChannel, EveryPacketRead | pass, 11,518 states |
| conn | TypeOK, SequenceDiscipline, ReadyMeansDrained, ClientNeverStuck, AffectedRowsOfLastOk, HandshakeResponseMatchesGreeting, EveryCallReturns | pass, 87,551 states |
| conn_faults | ReadyMeansDrainedOrFailed (local files may fail; ERR may end binary sets) | pass, 103,181 states |
| conn_infile_err | OkMeansNotRefused | violation (finding) |
| conn_infile_fail | SequenceDiscipline (local files may fail) | violation (finding) |
| conn_err_mid_binary | ClientNeverStuck (ERR may end binary sets) | violation (finding) |
| sink | TypeOK, StreamIntact, EmptyOnlyAtEnd | pass, 1,437 states |
| sink_small_max | NeverTooLarge (max_allowed_packet < buffer) | violation (finding) |
| exec_params | TypeOK, ParamsDelivered, RowEchoesParams, LongDataNeverRefused, NoRefusalAfterLongData | pass, 16,144 states |
| exec_params_int | ParamsDelivered (values that are not Bytes, empty strings) | violation (finding) |
| exec_params_one | FitsOrLongData (one parameter) | violation (finding) |
| transport | TypeOK, SameServer, KeepsTcp, NewReturns | pass, 142 states |

conn_faults asks what still holds when every fault the code meets is
switched on. ReadyMeansDrained cannot: an abandoned upload (finding 2)
hands the connection back while the server still waits for file data.
ReadyMeansDrainedOrFailed is the weaker promise that the code does keep:
whenever a call returns with the server inside an exchange or an answer
unread, that call returned an error. This covers the failed upload and
every later call that is refused before it reaches the server. The
mutant that turns the upload's early error into `Ok` breaks it.

Findings:

1. `send_local_infile` returns `Ok` when the server answers the upload
   with ERR (conn.rs:1150).
2. When reading the local file fails, the upload is abandoned without its
   end packet. The server is left inside the exchange, and the next
   command desynchronises the connection (conn.rs:1142).
3. In the binary dialect an ERR packet is decoded as a row. The result set
   then waits forever (conn.rs:1295).
4. The sink's packets are `BUFFER_SIZE` bytes whatever
   `max_allowed_packet` is (local_infile.rs:127).
5. A value that `to_bin_payload` moves to `large_ids` but that
   `send_long_data` sends nothing for reaches the server neither inline nor
   as long data (conn.rs:1059). That is any value that is not `Bytes`, or an
   empty string (no chunks).
6. `cap` reserves the bitmap and 8 bytes per value, but not the execute
   header. The packet's size is 11 + bitmap + 2n + written with
   written < cap, which is at most `max_allowed_packet` + 10 − 6n. So with
   one parameter, a string just below `cap` goes inline and execute fails
   with `PacketTooLarge` (conn.rs:642). With two or more parameters the
   packet always fits, as long as `cap` does not wrap.

Hazards that a property catches but no run shows, because the environment
that triggers them is left out:

* `cap` is unsigned (conn.rs:642). When 8 bytes per parameter exceed
  `max_allowed_packet`, it wraps: every value goes inline and execute is
  refused. FitsOrLongData fails with `ParamCounts = {3}` and a 24-byte
  limit. A real server needs `max_allowed_packet` below 512 KiB and a
  matching number of parameters.
* A server whose `@@socket` is NULL makes `unwrap_bytes` fail the task
  after a loopback TCP connect with `prefer_socket` (conn.rs:803), and the
  TCP connection is lost. KeepsTcp fails when `SocketVars` includes
  `"NULL"`. The checked environment leaves NULL out: spec §4.3 expects a
  path or nothing.

Limits of what the properties catch:

* An ERR that ends a binary result set (conn.rs:1295) is caught only by
  the conn_err_mid_binary run; the passing runs leave it out.
* A disconnect happens only between whole answers, so a failure in the
  middle of an answer (conn.rs:907) is not explored.
* When a flush's `write_packet` fails, the sink keeps its bytes and a
  later flush would send them again (local_infile.rs:128). In the model
  the first failed write ends the upload, so no property reaches the
  resend.
* AffectedRowsOfLastOk cannot see the ignored ERR after an upload
  (conn.rs:1150): an ERR changes no affected_rows. OkMeansNotRefused
  shows that finding.

Two hazards have no property. The first: a greeting with CLIENT_PLUGIN_AUTH and an
empty plugin name makes `from_payload` index an empty vector and fail the
task (conn.rs:189). The parser models it (`"Panic"`), but no MySQL version
sends such a greeting, so the greetings checked leave it out. The second:
`do_handshake_response` unwraps `scramble(...)` and always writes a
length byte of 20 (conn.rs:1012). Spec §4.3 says an empty password gives
an empty response. The scramble is outside the sources, and showing the
disagreement needs a violation run of its own, which the project's run
budget no longer allows.

Bounds, and why they are enough:

* **Framer:** `MAX_PAYLOAD_LEN = 2` and payloads of up to 4 bytes, over
  bytes {0,1}. Lengths 0, 1, MAX−1, MAX, MAX+1 and 2·MAX all occur, which
  are the lengths spec §8 lists. The trailing-frame case arises both alone
  and followed by another packet. Both ends start at seq_id 0, as after
  `write_command`, or at 254, as they do partway through a long answer. Up
  to six frames then cross the u8 wrap from 255 to 0.
* **Connection:** 3 application commands after connect, 1 row, up to 2
  columns, 1 parameter, 1 long-data packet, 1 file chunk, affected_rows in
  {0,1}, and `@@max_allowed_packet` returning a number or NULL. The
  greetings are those real servers send: MySQL 5.5.10 and later
  (CLIENT_PLUGIN_AUTH, length byte 21, NUL-ended plugin name), 5.5.7 to
  5.5.9 (the name without its NUL), 4.1 to 5.5.6 (no plugin, length byte
  0), 4.0 (no tail, no CLIENT_PROTOCOL_41) and a protocol 9 server. The
  seed is 8 + 12 bytes, as MySQL sends it, and the plugin name 2 bytes. These bounds cover each kind of command following each
  other kind, every response shape, and a statement whose column and
  parameter counts differ.
* **Execute parameters:** `max_allowed_packet` of 24 or 32 bytes stands
  for the server's limit. With two parameters, `cap` is then 7 or 15
  bytes and a chunk is 17 or 25 bytes. The strings of 1, 5, 10, 17 and 30
  bytes therefore:
  * go inline;
  * go to long data in one chunk, in exactly one full chunk, or in two;
  * are refused inline with one parameter.

  Statements have 0, 1 or 2 parameters, so the row read back holds a NULL
  before a value, a value before a NULL, and two NULLs. A misread row bit
  shows only in such rows. Three calls let a call follow a
  refused one and reuse a statement whose long data the server still
  holds. Integers are 31-bit in TLC, so the usize word is 2^30; every
  wrapped value is larger than any packet of the model.
* **Transport:** every `MyOpts` over three paths: the local socket, a
  path with nothing behind it, and the empty path. The TCP addresses are
  127.0.0.1, ::1, 127.0.0.2 and another host. The new call is made once,
  as the code makes it, and every outcome of each step is explored.
* **Sink:** a 3-byte buffer (standing for 4096 bytes), single writes of up
  to 4 bytes, and 8 bytes in all. Writes shorter than, equal to and longer
  than the buffer all occur. The file can end with a full, a partial or an
  empty buffer.

Fairness:

* The client's reads block until a packet arrives or the stream closes, and
  its loops run to completion. So every client action is weakly fair.
* The server answers what it receives (`WF_vars(ServerStep)`).
* The application is not assumed to issue commands, to call `next`, or to
  drop a result set. The network is not assumed to fail.
* In the framer, the reader is weakly fair.
* In TransportSelect, `new` runs on one thread, so every step it can take
  is eventually taken (`WF_vars(Next)`). This assumes that opening a
  socket and each query return, with an answer or an error.

`CHECK_DEADLOCK FALSE` is used because every model stops by design: the
application issues a bounded number of commands, and the upload ends. A
call that truly hangs is caught by ClientNeverStuck and EveryCallReturns,
not by deadlock detection.

## 4. Not modelled, and the plan for later sittings

1. **Text-row decoding (C4).** `from_payload` decodes text rows. Its byte
   reader (`read_lenenc_bytes`) is not in the sources, and MySqlConn
   abstracts row contents to counts, so no property of the connection
   would see what it returns. The binary decoder, `from_bin_payload`, is
   modelled in ExecuteParams, where the values it returns are compared
   with the values the application bound.
2. **Handshake (C5).** The scramble (SHA1) is outside the sources; the
   model checks the seed it is given. The database name and
   CLIENT_CONNECT_WITH_DB are left out: no property tells them apart.
3. **Fixed-width packet fields (C3).** OK, ERR, EOF and statement-prepare
   packets are records with the fields the connection branches on; the
   fields that are only stored (`last_insert_id`, `status_flags`,
   warnings, the ERR message) are left out.

Not modelled at all:

* The byte primitives (C1), which are not in the sources.
* The password scramble.
* Text rendering (`into_str`), which is formatting only.
