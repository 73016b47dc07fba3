-------------------------- MODULE MCExecuteParams --------------------------
(* ExecuteParams for TLC.  max_allowed_packet of 24 or 32 bytes stands for *)
(* the server's limit: with 2 parameters cap is then 7 or 15 bytes and a   *)
(* long-data chunk 17 or 25 bytes, so values go inline, go to long data    *)
(* in one chunk, in two chunks, and exactly fill a chunk; with 1          *)
(* parameter cap is 15 or 23 and an execute can be refused.  Three calls  *)
(* let a call follow a refused one.                                        *)
EXTENDS ExecuteParams

Str(n) == [t |-> "Bytes", len |-> n]
Null == [t |-> "NULL", len |-> 0]

MCMaxAllowedPackets == {24, 32}
MCMaxCalls == 3

\* statements of no, one and two parameters
MCParamCounts == {0, 1, 2}

\* NULL and non-empty strings, including one just below a single
\* parameter's cap
MCBytesValues == {Null, Str(1), Str(5), Str(10), Str(17), Str(30)}

\* two parameters under a 32-byte limit (cap 15): a string that takes 11
\* bytes of cap, then a value that may no longer fit: an integer, a Date
\* with microseconds, a zero Time, an empty string
MCWideMax == {32}
MCAfterStr == {Str(10), [t |-> "Int", len |-> 0], [t |-> "Date", len |-> 11],
               [t |-> "Time", len |-> 0], Str(0)}

\* one parameter, a string just below cap
MCNearCap == {Str(10)}
==============================================================================
