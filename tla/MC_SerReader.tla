------------------------------ MODULE MC_SerReader ------------------------------
(***************************************************************************)
(* Streams for the reader: documents laid out as the format says, every    *)
(* stream one changed byte or one truncation away from the nested ones,   *)
(* the bytes the code's own writer produces, and crafted streams.         *)
(***************************************************************************)
EXTENDS SerReader, SerWriter

Tag == <<84>>                        \* the tag "T"
Key == Call("string", <<65>>)        \* the key "A"
I8(b) == Call("i8", <<b>>)
LB == Call("list_begin", <<>>)
LE == Call("list_end", <<>>)
OB == Call("object_begin", <<>>)
OE == Call("object_end", <<>>)
RLB == Call("rlist_begin", Tag)
RLE == Call("rlist_end", Tag)
ROB == Call("robject_begin", Tag)
ROE == Call("robject_end", Tag)

FlatItems ==
  {Call("null", <<>>), I8(3), Call("i64", <<2, 0, 0, 0, 0, 0, 0, 0>>),
   Call("string", <<>>), Key, Call("binary", <<>>), Call("binary", <<65, 66>>)}

\* Up to two values at the top level.
FlatDocs == BoundedSeq(FlatItems, 2)

Leaves == {I8(3), Key}

NestedDocs ==
  UNION {{<<LB, x, LE>>, <<OB, Key, x, OE>>, <<RLB, x, RLE>>, <<ROB, Key, x, ROE>>,
          <<LB, LB, x, LE, LE>>, <<ROB, Key, LB, x, LE, ROE>>, <<RLB, x, RLE, x>>}
         : x \in Leaves}

\* The bytes a changed byte may become: markers, an error and a long count.
FLIP == {SER_NULL, SER_LIST_END, SER_OBJECT_BEGIN, SER_RECOVERY_LIST_END,
         SER_ERROR, SER_STRING_64}

Corruptions(d) ==
  {[d EXCEPT ![p] = b] : p \in DOMAIN d, b \in FLIP} \cup {SubSeq(d, 1, k) : k \in 0 .. Len(d) - 1}

Intact(doc, check) == [data |-> EncodeAll(doc), expect |-> ExpectedAll(doc), check |-> check]

Unchecked(d) == [data |-> d, expect |-> <<>>, check |-> FALSE]

\* An isize count of -2^63, and streams where it sends the offset before
\* the buffer at each kind of read: top level, skip, list, key, value.
NegBig == <<0, 0, 0, 0, 0, 0, 0, 128>>

HostileStreams ==
  {<<SER_BINARY_64>> \o NegBig, <<SER_LIST_BEGIN, SER_BINARY_64>> \o NegBig,
   <<SER_LIST_BEGIN, SER_LIST_END, SER_BINARY_64>> \o NegBig,
   <<SER_OBJECT_BEGIN, SER_OBJECT_END, SER_BINARY_64>> \o NegBig,
   <<SER_OBJECT_BEGIN, SER_OBJECT_END>> \o EncodeAll(<<Key>>) \o <<SER_BINARY_64>> \o NegBig}

\* The bytes ser_null, ser_i8 and ser_string write (with zeroed stack).
WrittenStreams == {SerWriteAll(doc, 0) : doc \in BoundedSeq({Call("null", <<>>), I8(3), Key}, 1)}

ReadInputs ==
  {Intact(doc, TRUE) : doc \in FlatDocs}
  \cup {Intact(doc, FALSE) : doc \in NestedDocs}
  \cup {Unchecked(c) : c \in UNION {Corruptions(EncodeAll(doc)) : doc \in NestedDocs}}
  \cup {Unchecked(c) : c \in HostileStreams}
  \cup {Unchecked(c) : c \in WrittenStreams}

\* A list holding one i8.
NestedListInputs == {Intact(<<LB, I8(3), LE>>, TRUE)}

\* A list holding SER_BINARY_64 with the count -9: the count's own eight
\* bytes and the type byte.
NegativeCountInputs ==
  {Unchecked(<<SER_LIST_BEGIN, SER_BINARY_64, 247, 255, 255, 255, 255, 255, 255, 255>>)}


=============================================================================
