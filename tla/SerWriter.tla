------------------------------- MODULE SerWriter -------------------------------
(***************************************************************************)
(* The writer of src/serialize.h, lines 208-289: the bytes each ser_*      *)
(* call hands to ser_write.  ser_primitive copies size bytes of the value  *)
(* into a 16-byte temporary and writes its type byte and the first         *)
(* 1 + sizeof size - 1 = 8 bytes of it, whatever size was; the bytes the   *)
(* memcpy did not fill are uninitialised stack, g.                         *)
(***************************************************************************)
EXTENDS SerFormat

\* ser_primitive, lines 209-219.
SerPrimitive(type, bytes, g) ==
  <<type>> \o [k \in 1 .. 8 |-> IF k <= Len(bytes) THEN bytes[k] ELSE g]

\* An isize as eight little-endian bytes.
Isize8(n) == [k \in 1 .. 8 |-> (n \div (256 ^ (k - 1))) % 256]

\* _ser_binary_or_string, lines 221-239.
SerBinaryOrString(arg, isString, g) ==
  IF Len(arg) <= 0
  THEN SerPrimitive(IF isString THEN SER_STRING_0 ELSE SER_BINARY_0, <<>>, g)
  ELSE (IF Len(arg) >= 256
        THEN SerPrimitive(IF isString THEN SER_STRING_64 ELSE SER_BINARY_64, Isize8(Len(arg)), g)
        ELSE SerPrimitive(IF isString THEN SER_STRING_8 ELSE SER_BINARY_8, <<Len(arg)>>, g))
       \o arg \o (IF isString THEN <<0>> ELSE <<>>)

\* _ser_recovery, lines 241-251: ser_primitive is handed &usize with the
\* tag's size, so one byte of size and then whatever follows usize.
SerRecovery(type, tag, g) ==
  SerPrimitive(type, IF Len(tag) = 0 THEN <<>> ELSE <<Len(tag) % 256>>, g)
  \o tag \o <<0>>

\* The wrappers, lines 253-289: ser_null and ser_bool write SER_I8, and
\* ser_binary passes is_string = true.
SerWrite(c, g) ==
  CASE c.op = "null" -> SerPrimitive(SER_I8, <<>>, g)
    [] c.op = "bool" -> SerPrimitive(SER_I8, c.arg, g)
    [] c.op \in {"string", "binary"} -> SerBinaryOrString(c.arg, TRUE, g)
    [] IsRecoveryOp(c.op) -> SerRecovery(OpType[c.op], c.arg, g)
    [] OTHER -> SerPrimitive(OpType[c.op], c.arg, g)

SerWriteAll(doc, g) == FlattenSeq([i \in DOMAIN doc |-> SerWrite(doc[i], g)])

=============================================================================
