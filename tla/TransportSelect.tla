--------------------------- MODULE TransportSelect ---------------------------
(***************************************************************************)
(* MyConn::new in conn.rs: choosing the UNIX socket or TCP, connecting,   *)
(* and the prefer_socket switch.  After a TCP connection to the loopback   *)
(* address is up, new asks the server for @@socket and calls itself with   *)
(* that path as unix_addr; if the nested call fails it keeps the TCP       *)
(* connection.                                                             *)
(*                                                                         *)
(* MyStream::connect (handshake and max_allowed_packet, modelled step by   *)
(* step in MySqlConn) is one step here that succeeds or fails.  The        *)
(* environment is two servers: "local", on this host, listening on its    *)
(* loopback addresses and at LocalSock, and "remote" on another host.  A  *)
(* path on this host reaches "local" when it is LocalSock and nothing      *)
(* otherwise.  Each server reports @@socket as one of its SocketVars.      *)
(***************************************************************************)
EXTENDS Naturals

CONSTANTS Paths,        \* socket paths, LocalSock among them
          LocalSock,    \* the local server's socket
          OptsSet,      \* MyOpts the application may pass
          SocketVars    \* [server -> what SELECT @@socket may return]

None == "None"
Servers == {"local", "remote"}
\* the two addresses new compares with, another loopback address of this
\* host, and another host
TcpAddrs == {"127.0.0.1", "::1", "127.0.0.2", "remote"}

ASSUME LocalSock \in Paths
ASSUME OptsSet \subseteq [unix : Paths \cup {None}, tcp : TcpAddrs \cup {None},
                          prefer : BOOLEAN]

VARIABLES
    opts0,    \* the options the application passed
    opts,     \* the options of the running call of new (nested or not)
    pc,       \* "Start", "Connect", "SocketVar" or "Done"
    conn,     \* the connection being set up: [server, via], or NoConn
    outer,    \* the TCP connection the nested call falls back to, or NoConn
    tcpUp,    \* (history) a TCP connection completed connect()
    result    \* what the outermost new returned: [st, conn], st "Ok", "Err" or "Panic"

vars == <<opts0, opts, pc, conn, outer, tcpUp, result>>

NoConn == [server |-> None, via |-> None]

Ok(c) == [st |-> "Ok", conn |-> c]
Failed(st) == [st |-> st, conn |-> NoConn]

(* What a socket at path p on this host reaches.                           *)
UnixPeer(p) == IF p = LocalSock THEN "local" ELSE None

TcpPeer(a) == IF a = "remote" THEN "remote" ELSE "local"

(* The running call of new returns r.  In the nested call an error gives  *)
(* back the outer TCP connection (MyConn::new(opts).or(Ok(conn))).        *)
Return_noFallback(r) ==
    /\ pc' = "Done"
    /\ result' = r
    /\ UNCHANGED <<opts0, opts, outer, tcpUp>>

Return(r) ==
    /\ pc' = "Done"
    /\ result' = IF outer # NoConn /\ r.st = "Err" THEN Ok(outer) ELSE r
    /\ UNCHANGED <<opts0, opts, outer, tcpUp>>

Init ==
    /\ opts0 \in OptsSet
    /\ opts = opts0
    /\ pc = "Start"
    /\ conn = NoConn
    /\ outer = NoConn
    /\ tcpUp = FALSE
    /\ result = Failed("Pending")

new_unix_noOkCheck ==
    /\ pc = "Start"
    /\ opts.unix # None
    /\ conn' = [server |-> UnixPeer(opts.unix), via |-> "unix"]
    /\ pc' = "Connect"
    /\ UNCHANGED <<opts0, opts, outer, tcpUp, result>>

(* unix_addr set: only the UNIX socket is tried; failing to open it is an *)
(* error, whatever tcp_addr says.                                          *)
new_unix ==
    /\ pc = "Start"
    /\ opts.unix # None
    /\ IF UnixPeer(opts.unix) = None
         THEN Return(Failed("Err")) /\ UNCHANGED conn
         ELSE /\ conn' = [server |-> UnixPeer(opts.unix), via |-> "unix"]
              /\ pc' = "Connect"
              /\ UNCHANGED <<opts0, opts, outer, tcpUp, result>>

(* no unix_addr: TCP to tcp_addr, which may fail to open; no address at   *)
(* all is an error.                                                        *)
new_tcp ==
    /\ pc = "Start"
    /\ opts.unix = None
    /\ IF opts.tcp = None
         THEN Return(Failed("Err")) /\ UNCHANGED conn
         ELSE \/ Return(Failed("Err")) /\ UNCHANGED conn
              \/ /\ conn' = [server |-> TcpPeer(opts.tcp), via |-> "tcp"]
                 /\ pc' = "Connect"
                 /\ UNCHANGED <<opts0, opts, outer, tcpUp, result>>

(* conn.connect(): an error is returned as is.  On success a UNIX          *)
(* connection is returned; a TCP one goes on to the prefer_socket check,   *)
(* which needs prefer_socket and the loopback address.                     *)
PreferLocal_noLoopbackCheck(o) == o.prefer
PreferLocal(o) == o.prefer /\ o.tcp \in {"127.0.0.1", "::1"}

SwitchOpts_keepsTcp(o, v) == o
SwitchOpts(o, v) == [o EXCEPT !.unix = v]

connect ==
    /\ pc = "Connect"
    /\ \/ Return(Failed("Err")) /\ UNCHANGED conn
       \/ /\ conn.via = "unix" \/ ~ PreferLocal(opts)
          /\ Return(Ok(conn)) /\ UNCHANGED conn
       \/ /\ conn.via = "tcp" /\ PreferLocal(opts)
          /\ pc' = "SocketVar"
          /\ tcpUp' = TRUE
          /\ UNCHANGED <<opts0, opts, conn, outer, result>>

(* get_system_var("socket"): None keeps the TCP connection; otherwise     *)
(* unwrap_bytes takes the value (and fails the task on NULL) and new runs  *)
(* again with unix_addr set to it, falling back to this connection.       *)
socket_var ==
    /\ pc = "SocketVar"
    /\ \E v \in SocketVars[conn.server] :
         CASE v = None -> Return(Ok(conn)) /\ UNCHANGED conn
           [] v = "NULL" -> /\ pc' = "Done" /\ result' = Failed("Panic")
                            /\ UNCHANGED <<opts0, opts, conn, outer, tcpUp>>
           [] OTHER -> /\ opts' = SwitchOpts(opts, v)
                       /\ outer' = conn
                       /\ conn' = NoConn
                       /\ pc' = "Start"
                       /\ UNCHANGED <<opts0, tcpUp, result>>

Next == new_unix \/ new_tcp \/ connect \/ socket_var

Spec == Init /\ [][Next]_vars /\ WF_vars(Next)

------------------------------------------------------------------------------
Conn == [server : Servers, via : {"unix", "tcp"}]


TypeOK ==
    /\ opts0 \in OptsSet
    /\ pc \in {"Start", "Connect", "SocketVar", "Done"}
    /\ conn \in Conn \cup {NoConn}
    /\ outer \in Conn \cup {NoConn}
    /\ tcpUp \in BOOLEAN
    /\ result \in {Ok(c) : c \in Conn}
                   \cup {Failed(st) : st \in {"Pending", "Err", "Panic"}}

(* The server the options address: the owner of unix_addr if set, else   *)
(* the server at tcp_addr.                                                 *)
Addressed == IF opts0.unix # None THEN UnixPeer(opts0.unix) ELSE TcpPeer(opts0.tcp)

(* new returns a connection only to the server the application addressed: *)
(* the prefer_socket switch never moves a connection to a different server *)
(* (a remote server's @@socket names a path that, on this host, may belong *)
(* to the local server).                                                   *)
SameServer == result.st = "Ok" => result.conn.server = Addressed

(* Spec 4.3 and 9: once TCP is connected, a failing switch to the local   *)
(* socket keeps the TCP connection: new then never fails.                 *)
KeepsTcp == (pc = "Done" /\ tcpUp) => result.st = "Ok"

(* Every call of new returns: the nested call cannot switch again, because *)
(* unix_addr, once set, is tried before tcp_addr.                          *)
NewReturns == <>(pc = "Done")
==============================================================================
