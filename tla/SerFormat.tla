------------------------------- MODULE SerFormat -------------------------------
(***************************************************************************)
(* The wire format of src/serialize.h: the Ser_Type tags (lines 6-67), the *)
(* byte layout their comments give, and the type ser_type_category says a *)
(* written value is read back as.                                          *)
(*                                                                         *)
(* A byte is an integer in 0 .. 255.  A writer call is a record            *)
(* [op, arg]: op names the ser_* function, arg is the bytes it is given    *)
(* (the value's little-endian bytes, a string's characters, a tag).        *)
(***************************************************************************)
EXTENDS Integers, SequencesExt

\* Ser_Type, lines 6-67, in declaration order.
SER_NULL == 0
SER_LIST_BEGIN == 1
SER_OBJECT_BEGIN == 2
SER_RECOVERY_OBJECT_BEGIN == 3
SER_RECOVERY_LIST_BEGIN == 4
SER_LIST_END == 5
SER_OBJECT_END == 6
SER_RECOVERY_LIST_END == 7
SER_RECOVERY_OBJECT_END == 8
SER_ERROR == 9
SER_STRING_0 == 10
SER_STRING_8 == 11
SER_STRING_64 == 12
SER_BINARY_0 == 13
SER_BINARY_8 == 14
SER_BINARY_64 == 15
SER_BOOL == 16
SER_U8 == 17
SER_U64 == 20
SER_I8 == 21
SER_I64 == 24
SER_F8 == 25
SER_F64 == 28
SER_I32V4 == 34
SER_DYN_COUNT == 4

\* The aliases of lines 60-65.
SER_LIST == SER_LIST_BEGIN
SER_OBJECT == SER_OBJECT_BEGIN
SER_RECOVERY_LIST == SER_RECOVERY_LIST_BEGIN
SER_RECOVERY_OBJECT == SER_RECOVERY_OBJECT_BEGIN
SER_STRING == SER_STRING_64
SER_BINARY == SER_BINARY_64

\* The types that open a list or an object.
Openers == {SER_LIST, SER_OBJECT, SER_RECOVERY_LIST, SER_RECOVERY_OBJECT}

\* ser_type_category, lines 180-200, with the string and binary aliases.
Category(t) ==
  CASE t \in SER_U8 .. SER_U64 -> SER_U64
    [] t \in SER_I8 .. SER_I64 -> SER_I64
    [] t \in SER_F8 .. SER_F64 -> SER_F64
    [] t \in SER_STRING_0 .. SER_STRING_64 -> SER_STRING
    [] t \in SER_BINARY_0 .. SER_BINARY_64 -> SER_BINARY
    [] OTHER -> t

\* The tag of each writer call.
OpType == [null |-> SER_NULL, bool |-> SER_BOOL, u8 |-> SER_U8, i8 |-> SER_I8,
           i64 |-> SER_I64, string |-> SER_STRING, binary |-> SER_BINARY,
           list_begin |-> SER_LIST_BEGIN, list_end |-> SER_LIST_END,
           object_begin |-> SER_OBJECT_BEGIN, object_end |-> SER_OBJECT_END,
           rlist_begin |-> SER_RECOVERY_LIST_BEGIN,
           rlist_end |-> SER_RECOVERY_LIST_END,
           robject_begin |-> SER_RECOVERY_OBJECT_BEGIN,
           robject_end |-> SER_RECOVERY_OBJECT_END]

Call(op, arg) == [op |-> op, arg |-> arg]

IsRecoveryOp(op) == op \in {"rlist_begin", "rlist_end", "robject_begin", "robject_end"}

\* The bytes of one value as the comments of lines 15-31 lay them out:
\* {u8 type}[payload], a u8 size before a string, binary or tag, and a NUL
\* after a string or tag.
Encode(c) ==
  LET t == OpType[c.op] IN
  CASE c.op = "string" ->
         IF c.arg = <<>> THEN <<SER_STRING_0>>
         ELSE <<SER_STRING_8, Len(c.arg)>> \o c.arg \o <<0>>
    [] c.op = "binary" ->
         IF c.arg = <<>> THEN <<SER_BINARY_0>>
         ELSE <<SER_BINARY_8, Len(c.arg)>> \o c.arg
    [] IsRecoveryOp(c.op) -> <<t, Len(c.arg)>> \o c.arg \o <<0>>
    [] OTHER -> <<t>> \o c.arg

EncodeAll(doc) == FlattenSeq([i \in DOMAIN doc |-> Encode(doc[i])])

\* What a reader of the call's bytes should report: the category of the
\* type and the bytes given.  The end of a list or object is not a value.
Expected(c) == [type |-> Category(OpType[c.op]), pay |-> c.arg]

IsEnderOp(op) == op \in {"list_end", "object_end", "rlist_end", "robject_end"}

ExpectedAll(doc) ==
  LET items == SelectSeq(doc, LAMBDA c : ~IsEnderOp(c.op))
  IN [i \in DOMAIN items |-> Expected(items[i])]

=============================================================================
