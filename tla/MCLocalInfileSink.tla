-------------------------- MODULE MCLocalInfileSink --------------------------
(* A buffer of 3 bytes stands for the 4096-byte array: writes shorter than, *)
(* equal to and longer than the buffer all occur, as do totals that end    *)
(* with a full, a partial and an empty buffer.                             *)
EXTENDS LocalInfileSink

MCBufferSize == 3
MCMaxBytes == 8
MCMaxWrite == 4
==============================================================================
