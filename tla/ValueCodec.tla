----------------------------- MODULE ValueCodec -----------------------------
(***************************************************************************)
(* The parameter side of the value codec of conn.rs (Value): the encoded  *)
(* length of a value (to_bin) and the NULL bitmap of COM_STMT_EXECUTE     *)
(* (to_bin_payload), with the server's reading of that bitmap (spec 4.2), *)
(* which ExecuteParams uses to bind parameters; and the row side: the     *)
(* server's binary result row and Value::from_bin_payload, which decodes  *)
(* it.  Bytes are naturals below 256.                                      *)
(***************************************************************************)
EXTENDS Naturals, Sequences, Bitwise

LOCAL INSTANCE FiniteSetsExt

(* write_lenenc_int: the length of the length prefix of a string.          *)
LenencLen(l) ==
    IF l < 251 THEN 1 ELSE IF l < 2^16 THEN 3 ELSE IF l < 2^24 THEN 4 ELSE 9

(* Value::to_bin: the length of a value's binary encoding.                 *)
to_bin_len(v) ==
    CASE v.t = "NULL"                    -> 0
      [] v.t \in {"Int", "UInt", "Float"} -> 8
      [] v.t = "Bytes"                   -> LenencLen(v.len) + v.len
      [] v.t \in {"Date", "Time"}        -> 1 + v.len

BitmapLen(n) == (n + 7) \div 8

(* to_bin_payload's bitmap: bitmap_len zero bytes, then                   *)
(* bitmap[i / 8] |= 1 << (i % 8) for each NULL value i (from 0).          *)
NullBitmap(nulls, n) ==
    LET RECURSIVE Go(_, _)
        Go(i, bm) == IF i = n THEN bm
                     ELSE Go(i + 1, IF i \in nulls
                                      THEN [bm EXCEPT ![(i \div 8) + 1] = @ | 2^(i % 8)]
                                      ELSE bm)
    IN Go(0, [k \in 1 .. BitmapLen(n) |-> 0])

(* The server's reading of a COM_STMT_EXECUTE bitmap: bit i of the        *)
(* (n + 7) / 8 bytes is set iff parameter i is NULL.                       *)
ParamIsNull(bm, i) == (bm[(i \div 8) + 1] \div 2^(i % 8)) % 2 = 1

NullValue == [t |-> "NULL", len |-> 0]

(* The server's binary result row (spec 4.2, 4.6): after a 0x00 byte a    *)
(* NULL bitmap of (n + 7 + 2) / 8 bytes in which column i is bit i + 2,   *)
(* then the values of the non-NULL columns in order.  A row payload is    *)
(* kept as its bitmap bytes and its values.                                *)
RowBitmap(nulls, n) ==
    [k \in 1 .. (n + 9) \div 8 |->
        MapThenSumSet(LAMBDA i : 2^((i + 2) % 8),
                      {i \in nulls : (i + 2) \div 8 = k - 1})]

BinRow(vals) ==
    [bitmap |-> RowBitmap({j - 1 : j \in {i \in DOMAIN vals : vals[i].t = "NULL"}},
                          Len(vals)),
     values |-> SelectSeq(vals, LAMBDA v : v.t # "NULL")]

bit_offset_zero == 0

\* from_bin_payload's `let bit_offset = 2;`
bit_offset == 2

(* Value::from_bin_payload for n columns: bitmap_len bytes after the      *)
(* first; column i is NULL iff bit (i + bit_offset) % 8 of byte            *)
(* (i + bit_offset) / 8 is set, otherwise read_bin_value takes the next    *)
(* value of the row (an I/O error once the payload is used up, which ends  *)
(* the result set).                                                        *)
from_bin_payload(pld, n) ==
    LET bitmap == SubSeq(pld.bitmap, 1, (n + 7 + bit_offset) \div 8)
        RECURSIVE Go(_, _, _)
        Go(i, pos, out) ==
            IF i = n THEN [st |-> "Ok", vals |-> out]
            ELSE IF (bitmap[((i + bit_offset) \div 8) + 1]
                       & 2^((i + bit_offset) % 8)) # 0
              THEN Go(i + 1, pos, Append(out, NullValue))
            ELSE IF pos > Len(pld.values) THEN [st |-> "IoErr", vals |-> out]
            ELSE Go(i + 1, pos + 1, Append(out, pld.values[pos]))
    IN Go(0, 1, <<>>)

==============================================================================
