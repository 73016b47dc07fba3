------------------------- MODULE MCTransportSelect -------------------------
(* TransportSelect for TLC: every combination of unix_addr, tcp_addr and  *)
(* prefer_socket.  Paths are the local server's socket, a path with no     *)
(* server behind it (a removed socket file) and the empty path.            *)
EXTENDS TransportSelect

MCPaths == {"sock", "other", ""}
MCLocalSock == "sock"
MCOptsSet == [unix : MCPaths \cup {None}, tcp : TcpAddrs \cup {None},
              prefer : BOOLEAN]

\* @@socket: absent, or a path; the remote host's server may report the
\* same default path the local server uses
MCSocketVars == [s \in Servers |-> {None} \cup MCPaths]
==============================================================================
