------------------------------- MODULE ArraySeq -------------------------------
(***************************************************************************)
(* What the typed dynamic array promises its user (the comments on the     *)
(* array_* macros, src/unnamed/part_000 lines 109-177): it is a sequence   *)
(* of items.  Reserving and setting capacity are invisible except that a   *)
(* capacity below the count discards the items past it; resize keeps a    *)
(* prefix and adds zeroes (array_resize) or unspecified items              *)
(* (array_resize_for_overwrite).                                           *)
(***************************************************************************)
EXTENDS Naturals, SequencesExt

CONSTANTS
  Values,   \* the items users push, append and assign
  Elems,    \* every value a slot of the array may hold
  Zero,     \* the all-zero item memset writes
  SIZES,    \* the counts the user may pass to resize and set_capacity
  MAX_LEN   \* bound: the longest sequence append and assign are given

VARIABLE elems

Init == elems = <<>>

Clear == elems' = <<>>

Push(v) == elems' = Append(elems, v)

Pop == elems # <<>> /\ elems' = Front(elems)

AppendItems(s) == elems' = elems \o s

Assign(s) == elems' = s

\* The first n items, n no greater than the length.
Prefix(n) == SubSeq(elems, 1, n)

Truncate(n) == elems' = Prefix(IF n < Len(elems) THEN n ELSE Len(elems))

ResizeZero(n) ==
  elems' = IF n <= Len(elems) THEN Prefix(n)
           ELSE elems \o [i \in 1 .. n - Len(elems) |-> Zero]

ResizeAny(n) ==
  \/ n <= Len(elems) /\ elems' = Prefix(n)
  \/ n > Len(elems) /\ \E fill \in SeqOf(Elems, n - Len(elems)) :
                          /\ Len(fill) = n - Len(elems)
                          /\ elems' = elems \o fill

\* The item at position i is replaced by the last one, which is dropped.
RemoveUnordered(i) ==
  /\ i \in 1 .. Len(elems)
  /\ elems' = Front(ReplaceAt(elems, i, Last(elems)))

Next ==
  \/ Clear \/ Pop
  \/ \E v \in Values : Push(v)
  \/ \E s \in BoundedSeq(Values, MAX_LEN) : AppendItems(s) \/ Assign(s)
  \/ \E n \in SIZES : Truncate(n) \/ ResizeZero(n) \/ ResizeAny(n)
  \/ \E i \in 1 .. Len(elems) : RemoveUnordered(i)

Spec == Init /\ [][Next]_elems

=============================================================================
