---------------------------- MODULE MCMySqlConn ----------------------------
(* MySqlConn for TLC: three application commands after connect (enough   *)
(* for prepare followed by execute of the prepared statement and one more *)
(* command after it), one row, up to two columns, one parameter, one long-data   *)
(* chunk and one file chunk.                                               *)
EXTENDS MySqlConn

MCMaxCommands == 3
MCMaxRows == 1
MCMaxCols == 2
MCMaxParams == 1
MCMaxLongData == 1
MCMaxInfileChunks == 1
MCAffectedRows == {0, 1}
\* Greetings: the 12 seed bytes after the first 8, a plugin name (two bytes
\* stand for "mysql_native_password")
S12 == [i \in 1 .. 12 |-> "S"]
PluginName == <<"N", "N">>
\* MySQL 5.5.10 and later: CLIENT_PLUGIN_AUTH, length byte 21, NUL-ended name
MCModern == [version |-> 10, capsLow |-> {"PROTOCOL_41", "SECURE_CONNECTION", "LONG_FLAG"},
             tail |-> TRUE, capsHigh |-> {"PLUGIN_AUTH"}, authLen |-> 21, seed2 |-> S12,
             rest |-> S12 \o <<"NUL">> \o PluginName \o <<"NUL">>]
\* MySQL 5.5.7 to 5.5.9: the plugin name without its NUL
MCNoNameNul == [MCModern EXCEPT !.rest = S12 \o <<"NUL">> \o PluginName]
\* MySQL 4.1 to 5.5.6: no CLIENT_PLUGIN_AUTH, length byte 0, no name
MCPrePlugin == [version |-> 10, capsLow |-> {"PROTOCOL_41", "SECURE_CONNECTION"},
                tail |-> TRUE, capsHigh |-> {}, authLen |-> 0, seed2 |-> S12,
                rest |-> S12 \o <<"NUL">>]
\* MySQL 4.0 (spec 8, scenario 4): no tail and no CLIENT_PROTOCOL_41
MCNoP41 == [version |-> 10, capsLow |-> {"LONG_PASSWORD", "SECURE_CONNECTION"},
            tail |-> FALSE, capsHigh |-> {}, authLen |-> 0, seed2 |-> <<>>, rest |-> <<>>]
\* a protocol 9 server
MCV9 == [MCNoP41 EXCEPT !.version = 9]
MCGreetings == {MCModern, MCNoNameNul, MCPrePlugin, MCNoP41, MCV9}
MCSysVarValues == {"Num", "Null"}
==============================================================================
