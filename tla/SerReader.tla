------------------------------- MODULE SerReader -------------------------------
(***************************************************************************)
(* The reader of src/serialize.h: deser_read, deser_skip and deser_value   *)
(* (lines 292-440) as operators on a byte stream and a reader position,   *)
(* and a user of the reader that walks a whole stream the way the deser_*  *)
(* functions do: a value at the top level, then deser_iterate_list or      *)
(* deser_iterate_object over every list or object it meets, nested ones    *)
(* included.  Each pass of the deser_skip_to_depth loop is a step, so a    *)
(* loop that never ends is a behaviour that never ends.                    *)
(*                                                                         *)
(* The reader position is [offset, depth] (Ser_Reader.offset, .depth); a   *)
(* value is [type, pay, depth]: Ser_Value.type, the bytes it carries (a    *)
(* number's bytes, a string, binary or tag) and the depth it was read at.  *)
(***************************************************************************)
EXTENDS SerFormat

CONSTANTS
  Inputs,   \* the streams read: [data, expect, check]; expect is what a
            \* correct reader reports when check is TRUE
  GARBAGE   \* what the bytes of recovery_text nothing wrote may hold

VARIABLES
  in,      \* the stream being read
  rd,      \* the Ser_Reader: [offset, depth]
  stack,   \* the lists and objects being iterated, innermost last
  out,     \* the values the iteration has handed to its user
  pc,      \* "top", "skip" (inside deser_skip_to_depth) or "done"
  call,    \* what the iterate call in progress reads: "list", "key", "val"
  key,     \* the key deser_iterate_object has read
  last,    \* val.type in the loop of deser_skip_to_depth
  oob      \* a read went outside the buffer

vars == <<in, rd, stack, out, pc, call, key, last, oob>>

Byte(d, i) == IF 0 <= i /\ i < Len(d) THEN d[i + 1] ELSE 0

Bytes(d, i, n) == [k \in 1 .. n |-> Byte(d, i + k - 1)]

\* The check of deser_read and deser_skip, lines 292-309: only the upper end.
Fits(d, o, n) == o + n <= Len(d)

\* Bytes deser_value reads for SER_U8 .. SER_I32V4, lines 330-351.
FixedSize(t) == <<1, 2, 4, 8, 1, 2, 4, 8, 1, 2, 4, 8, 8, 12, 16, 8, 12, 16>>[t - SER_BOOL]

\* The type deser_value reports for them: every integer as SER_I64.
ReadType(t) ==
  CASE t \in SER_U8 .. SER_I64 -> SER_I64
    [] t \in SER_F8 .. SER_F64 -> SER_F64
    [] OTHER -> t

\* An isize read from eight little-endian bytes.  A count whose magnitude
\* does not fit 31 bits is BigCount: past the end of any stream read here.
BigCount == 2 ^ 30

Low32(bs) == bs[1] + 256 * (bs[2] + 256 * (bs[3] + 256 * bs[4]))

Count64(bs) ==
  CASE \A k \in 5 .. 8 : bs[k] = 0 /\ bs[4] < 128 -> Low32(bs)
    [] \A k \in 5 .. 8 : bs[k] = 255 /\ bs[4] >= 128 ->
         -1 - Low32([k \in 1 .. 4 |-> 255 - bs[k]])
    [] bs[8] >= 128 -> -BigCount
    [] OTHER -> BigCount

\* ser_type_is_ender and ser_type_is_ender_or_error, lines 452-460.
IsEnder(t) == t - SER_LIST_END \in 0 .. SER_DYN_COUNT - 1

IsEnderOrError(t) == IsEnder(t) \/ t = SER_ERROR

\* A value of type t read from position r, leaving the reader at [o, dep].
Got(t, p, r, o, dep) ==
  [type |-> t, pay |-> p, depth |-> r.depth,
   rd |-> [offset |-> o, depth |-> dep], oob |-> FALSE]

\* ok == false, lines 434-437: SER_ERROR, the offset restored, depth kept.
Failed(r) == Got(SER_ERROR, <<>>, r, r.offset, r.depth)

OutOfBounds(r) == [Failed(r) EXCEPT !.oob = TRUE]

-----------------------------------------------------------------------------
(* deser_value, lines 311-440.                                             *)

\* A string body whose NUL is checked but not consumed.
BodyNoNul(d, r, t, o, n) ==
  LET e == o + n
      p == IF n >= 0 THEN Bytes(d, o, n) ELSE <<>>
  IN IF ~Fits(d, o, n) THEN Failed(r)
     ELSE IF t = SER_BINARY THEN Got(t, p, r, e, r.depth)
     ELSE IF e < 0 THEN OutOfBounds(r)
     ELSE IF Fits(d, e, 1) /\ Byte(d, e) = 0 THEN Got(t, p, r, e, r.depth)
     ELSE Failed(r)

\* Lines 398-404 and 421-424 after the count: skip n bytes, then a string needs a NUL.
\* deser_skip checks only the upper end: a negative count moves back.
Body(d, r, t, o, n) ==
  LET e == o + n
      p == IF n >= 0 THEN Bytes(d, o, n) ELSE <<>>
  IN IF ~Fits(d, o, n) THEN Failed(r)
     ELSE IF t = SER_BINARY THEN Got(t, p, r, e, r.depth)
     ELSE IF e < 0 THEN OutOfBounds(r)
     ELSE IF Fits(d, e, 1) /\ Byte(d, e) = 0 THEN Got(t, p, r, e + 1, r.depth)
     ELSE Failed(r)

\* A string or binary with a u8 (width 1) or isize (width 8) count.
Sized(d, r, t, width) ==
  LET o == r.offset + 1 IN
  IF ~Fits(d, o, width) THEN Failed(r)
  ELSE Body(d, r, t, o + width,
            IF width = 1 THEN Byte(d, o) ELSE Count64(Bytes(d, o, 8)))

\* Lines 359-378: u8 size, the tag, a NUL; the depth moves only when ok.
Recovery(d, r, t) ==
  LET o == r.offset + 1
      n == Byte(d, o)
      e == o + 1 + n
  IN IF Fits(d, o, 1) /\ Fits(d, o + 1, n) /\ Fits(d, e, 1) /\ Byte(d, e) = 0
     THEN Got(t, Bytes(d, o + 1, n), r, e + 1,
              IF IsEnder(t) THEN r.depth - 1 ELSE r.depth + 1)
     ELSE Failed(r)

DeserValue(d, r) ==
  LET t == Byte(d, r.offset)
      o == r.offset + 1
  IN IF r.offset < 0 THEN OutOfBounds(r)
     ELSE IF ~Fits(d, r.offset, 1) THEN Failed(r)
     ELSE CASE t = SER_NULL -> Got(SER_NULL, <<>>, r, o, r.depth)
            [] t = SER_BOOL ->
                 IF Fits(d, o, 1) THEN Got(SER_ERROR, <<>>, r, o + 1, r.depth)
                 ELSE Got(SER_BOOL, <<0>>, r, o, r.depth)
            [] t \in SER_U8 .. SER_I32V4 ->
                 IF Fits(d, o, FixedSize(t))
                 THEN Got(ReadType(t), Bytes(d, o, FixedSize(t)), r,
                          o + FixedSize(t), r.depth)
                 ELSE Failed(r)
            [] t \in {SER_LIST_END, SER_OBJECT_END} -> Got(t, <<>>, r, o, r.depth - 1)
            [] t \in {SER_LIST_BEGIN, SER_OBJECT_BEGIN} -> Got(t, <<>>, r, o, r.depth + 1)
            [] t \in SER_RECOVERY_OBJECT_BEGIN .. SER_RECOVERY_OBJECT_END -> Recovery(d, r, t)
            [] t = SER_STRING_0 -> Got(SER_STRING, <<>>, r, o, r.depth)
            [] t = SER_BINARY_0 -> Got(SER_BINARY, <<>>, r, o, r.depth)
            [] t \in {SER_STRING_8, SER_BINARY_8} -> Sized(d, r, Category(t), 1)
            [] t \in {SER_STRING_64, SER_BINARY_64} -> Sized(d, r, Category(t), 8)
            [] OTHER -> Failed(r)

-----------------------------------------------------------------------------
(* _deser_recover and _ser_find_first_or, lines 506-573.                   *)

\* recovery_text: the end marker, and for a recovery container its size and
\* tag; the index then moves count + 2 past the tag, so two bytes nothing
\* wrote (g) come before the NUL.
RecoveryText(obj, g) ==
  CASE obj.type = SER_LIST -> <<SER_LIST_END>>
    [] obj.type = SER_OBJECT -> <<SER_OBJECT_END>>
    [] OTHER -> <<IF obj.type = SER_RECOVERY_LIST THEN SER_RECOVERY_LIST_END
                  ELSE SER_RECOVERY_OBJECT_END, Len(obj.pay) % 256>>
                \o obj.pay \o <<g[1], g[2], 0>>

\* The first position at or after from where text occurs, or -1.
FindFirst(d, text, from) ==
  LET at == {p \in from .. Len(d) - Len(text) : SubSeq(d, p + 1, p + Len(text)) = text}
  IN IF at = {} THEN -1 ELSE Min(at)

DeserRecover(r, obj, g) ==
  LET f == FindFirst(in.data, RecoveryText(obj, g), r.offset)
  IN IF f = -1 THEN r ELSE [r EXCEPT !.offset = f]

-----------------------------------------------------------------------------
(* The user of the reader.                                                 *)

Item(v) == [type |-> v.type, pay |-> v.pay]

\* Every value handed to the user pushed as if it were a container.
EnterAny(s, v) == Append(s, [type |-> v.type, pay |-> v.pay, depth |-> v.depth])

\* A list or object the user is handed is iterated next.
Enter(s, v) ==
  IF v.type \in Openers THEN Append(s, [type |-> v.type, pay |-> v.pay, depth |-> v.depth])
  ELSE s

Init ==
  /\ in \in Inputs
  /\ rd = [offset |-> 0, depth |-> 0]
  /\ stack = <<>>
  /\ out = <<>>
  /\ pc = "top"
  /\ call = "list"
  /\ key = [type |-> SER_NULL, pay |-> <<>>, depth |-> 0]
  /\ last = SER_NULL
  /\ oob = FALSE

\* A read outside the buffer is undefined behaviour: the walk stops there.
Halt(res) == res.oob /\ pc' = "done" /\ oob' = TRUE /\ UNCHANGED <<rd, stack, out>>

\* deser_value at the top level; reading stops at the first SER_ERROR.
ReadTop ==
  /\ pc = "top" /\ stack = <<>>
  /\ LET res == DeserValue(in.data, rd) IN
     \/ Halt(res)
     \/ /\ ~res.oob /\ res.type = SER_ERROR
        /\ pc' = "done" /\ rd' = res.rd /\ UNCHANGED <<stack, out, oob>>
     \/ /\ ~res.oob /\ res.type # SER_ERROR
        /\ rd' = res.rd /\ out' = Append(out, Item(res)) /\ stack' = Enter(stack, res)
        /\ UNCHANGED <<pc, oob>>
  /\ UNCHANGED <<in, call, key, last>>

\* deser_iterate_list and deser_iterate_object start with
\* deser_skip_to_depth(context, <container>.depth), lines 465 and 482.
BeginIterate ==
  /\ pc = "top" /\ stack # <<>>
  /\ pc' = "skip" /\ last' = SER_NULL
  /\ call' = IF Last(stack).type \in {SER_LIST, SER_RECOVERY_LIST} THEN "list" ELSE "key"
  /\ UNCHANGED <<in, rd, stack, out, key, oob>>

\* The loop condition without its val.type != SER_ERROR test.
SkipDoneNoError == rd.depth = Last(stack).depth

\* The condition of the loop of deser_skip_to_depth, lines 443-448.
SkipDone == last = SER_ERROR \/ rd.depth = Last(stack).depth

SkipStep ==
  /\ pc = "skip" /\ ~SkipDone
  /\ LET res == DeserValue(in.data, rd) IN
     /\ last' = res.type
     /\ \/ Halt(res)
        \/ ~res.oob /\ rd' = res.rd /\ UNCHANGED <<pc, stack, out, oob>>
  /\ UNCHANGED <<in, call, key>>

\* An ender or error ends the iteration; one that does not close this
\* container (type - SER_DYN_COUNT) sends the reader to _deser_recover.
EndIterate(res, mismatch) ==
  /\ \E g \in GARBAGE \X GARBAGE :
       rd' = IF mismatch THEN DeserRecover(res.rd, Last(stack), g) ELSE res.rd
  /\ stack' = Front(stack) /\ pc' = "top"
  /\ UNCHANGED <<out, call, key, oob>>

\* deser_iterate_list, lines 462-475, after the skip.
IterateList ==
  /\ pc = "skip" /\ SkipDone /\ call = "list"
  /\ LET res == DeserValue(in.data, rd) IN
     \/ Halt(res) /\ UNCHANGED <<call, key>>
     \/ /\ ~res.oob /\ IsEnderOrError(res.type)
        /\ EndIterate(res, Last(stack).type # res.type - SER_DYN_COUNT)
     \/ /\ ~res.oob /\ ~IsEnderOrError(res.type)
        /\ rd' = res.rd /\ out' = Append(out, Item(res)) /\ stack' = Enter(stack, res)
        /\ pc' = "top" /\ UNCHANGED <<call, key, oob>>
  /\ UNCHANGED <<in, last>>

\* deser_iterate_object, lines 478-492: the key, then a second skip.
IterateKey ==
  /\ pc = "skip" /\ SkipDone /\ call = "key"
  /\ LET res == DeserValue(in.data, rd) IN
     \/ Halt(res) /\ UNCHANGED <<call, key, last>>
     \/ /\ ~res.oob /\ IsEnderOrError(res.type)
        /\ EndIterate(res, Last(stack).type # res.type - SER_DYN_COUNT)
        /\ UNCHANGED last
     \/ /\ ~res.oob /\ ~IsEnderOrError(res.type)
        /\ rd' = res.rd /\ key' = [type |-> res.type, pay |-> res.pay, depth |-> res.depth]
        /\ call' = "val" /\ last' = SER_NULL
        /\ UNCHANGED <<pc, stack, out, oob>>
  /\ UNCHANGED in

\* Lines 494-504: the value.  The check after it tests out_key again, which
\* was just found not to be an ender or error, so the value is handed to
\* the user whatever it is, and iterate returns true.
IterateVal ==
  /\ pc = "skip" /\ SkipDone /\ call = "val"
  /\ LET res == DeserValue(in.data, rd) IN
     \/ Halt(res)
     \/ /\ ~res.oob
        /\ rd' = res.rd /\ out' = out \o <<Item(key), Item(res)>>
        /\ stack' = Enter(stack, res) /\ pc' = "top" /\ UNCHANGED oob
  /\ UNCHANGED <<in, call, key, last>>

Terminating == pc = "done" /\ UNCHANGED vars

Next ==
  \/ ReadTop \/ BeginIterate \/ SkipStep
  \/ IterateList \/ IterateKey \/ IterateVal
  \/ Terminating

\* The reader runs on one thread and nothing else stops it.
Spec == Init /\ [][Next]_vars /\ WF_vars(Next)

-----------------------------------------------------------------------------
(* Properties.                                                             *)

ValueRecords == [type : 0 .. 255, pay : Seq(0 .. 255)]

TypeOK ==
  /\ in \in Inputs
  /\ rd \in [offset : Int, depth : Int]
  /\ stack \in Seq([type : Openers, pay : Seq(0 .. 255), depth : Int])
  /\ out \in Seq(ValueRecords)
  /\ pc \in {"top", "skip", "done"}
  /\ call \in {"list", "key", "val"}
  /\ key \in [type : 0 .. 255, pay : Seq(0 .. 255), depth : Int]
  /\ oob \in BOOLEAN

\* Reading any stream, whole, cut short or with a byte changed, ends: every
\* pass of the deser_skip_to_depth loop and every iterate call moves the
\* offset forward or stops on SER_ERROR, and recovery only searches ahead.
WalkTerminates == <>(pc = "done")

\* A stream laid out as the format says is read back as the values written,
\* in order: every deser_value case consumes exactly its bytes.
RoundTrip == (pc = "done" /\ in.check) => out = in.expect

=============================================================================
