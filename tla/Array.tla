-------------------------------- MODULE Array --------------------------------
(***************************************************************************)
(* The typed dynamic array of src/unnamed/part_000 (lines 1-270): the      *)
(* Untyped_Array struct, the generic_array_* functions and the array_*     *)
(* macros built on them.  One action per macro a user calls; the calls a  *)
(* macro makes (reserve, set_capacity, memset, memcpy) are inside it.      *)
(*                                                                         *)
(* Items are model values.  data is a function from slot index to the     *)
(* item in it, over 0 .. capacity - 1; memory nothing wrote (fresh realloc *)
(* space) holds Garbage, and so does a read outside the allocation.  The   *)
(* allocator is abstracted to realloc semantics: it keeps the first        *)
(* min(old, new) slots.  The item size and alignment are fixed per array   *)
(* type and play no part.                                                  *)
(***************************************************************************)
EXTENDS Integers, SequencesExt

CONSTANTS
  Values,              \* the items users push and append
  Zero,                \* the all-zero item memset writes
  Garbage,             \* contents of memory nothing wrote
  Alloc,               \* the allocator array_init is given
  NULL,                \* the allocator of a zeroed array
  SIZES,               \* arguments to reserve, resize and set_capacity
  MAX_COUNT,           \* bound: no call may make count exceed it
  CALLER_CHECKS_EMPTY  \* TRUE: callers pop and remove only from a non-empty array

ASSUME
  /\ SIZES \subseteq 0 .. MAX_COUNT
  /\ CALLER_CHECKS_EMPTY \in BOOLEAN

Elems == Values \cup {Zero, Garbage}

VARIABLE arr   \* the Untyped_Array: [allocator, data, count, capacity]

\* An all-zero Untyped_Array: what memset(gen.array, 0, ...) leaves.
ZeroArray == [allocator |-> NULL, data |-> [j \in {} |-> Garbage],
              count |-> 0, capacity |-> 0]

Init == arr = ZeroArray

\* The item at slot j, or Garbage for a read outside the allocation.
At(a, j) == IF 0 <= j /\ j < a.capacity THEN a.data[j] ELSE Garbage

\* generic_array_is_consistent, lines 187-200.
ArrayIsConsistent(a) ==
  /\ 0 <= a.capacity
  /\ 0 <= a.count /\ a.count <= a.capacity
  /\ a.capacity > 0 => a.allocator # NULL

-----------------------------------------------------------------------------
(* generic_array_set_capacity and generic_array_reserve.                   *)

\* A set_capacity whose realloc result is never stored in data.
SetCapacityStale(a, c) ==
  [a EXCEPT !.capacity = c, !.count = IF a.count > c THEN c ELSE a.count]

\* Lines 218-236: realloc to c slots, then trim count to the capacity.
SetCapacity(a, c) ==
  [a EXCEPT !.data = [j \in 0 .. c - 1 |-> At(a, j)],
            !.capacity = c,
            !.count = IF a.count > c THEN c ELSE a.count]

GrowthStep(a) == (a.capacity * 3) \div 2 + 8

\* Lines 248-260: nothing if capacity > to_fit, else grow to at least one
\* geometric step, plus one.
Reserve(a, toFit) ==
  IF a.capacity > toFit THEN a
  ELSE SetCapacity(a, (IF toFit < GrowthStep(a) THEN GrowthStep(a) ELSE toFit) + 1)

\* The REQUIRE of set_capacity (line 223): growing needs an allocator.
MayReserve(a, toFit) == a.capacity > toFit \/ a.allocator # NULL

\* The items s written into slots from, from + 1, ...
WriteAt(a, from, s) ==
  [a EXCEPT !.data = [j \in DOMAIN a.data |->
                        IF from <= j /\ j < from + Len(s) THEN s[j - from + 1]
                        ELSE a.data[j]]]

-----------------------------------------------------------------------------
(* The operations.                                                         *)

\* array_init, lines 202-207: deinit, then remember the allocator.
ArrayInit == arr' = [ZeroArray EXCEPT !.allocator = Alloc]

\* array_deinit, lines 209-216: free the data and zero the struct.
ArrayDeinit == arr' = ZeroArray

ArrayReserve(n) ==
  /\ MayReserve(arr, n)
  /\ arr' = Reserve(arr, n)

ArraySetCapacity(n) ==
  /\ arr.allocator # NULL
  /\ arr' = SetCapacity(arr, n)

\* array_resize (zeroNew) and array_resize_for_overwrite, lines 238-246.
ArrayResize(n, zeroNew) ==
  /\ MayReserve(arr, n)
  /\ LET r == Reserve(arr, n)
         z == IF zeroNew /\ n > r.count
              THEN WriteAt(r, r.count, [i \in 1 .. n - r.count |-> Zero])
              ELSE r
     IN arr' = [z EXCEPT !.count = n]

\* array_clear, line 136.
ArrayClear == arr' = [arr EXCEPT !.count = 0]

\* A generic_array_append reserving room for the old count only.
AppendReserveCount(a, s) ==
  LET r == Reserve(a, a.count)
  IN [WriteAt(r, r.count, s) EXCEPT !.count = r.count + Len(s)]

\* generic_array_append, lines 262-269: reserve, memcpy, count += n.
AppendTo(a, s) ==
  LET r == Reserve(a, a.count + Len(s))
  IN [WriteAt(r, r.count, s) EXCEPT !.count = r.count + Len(s)]

ArrayAppend(s) ==
  /\ arr.count + Len(s) <= MAX_COUNT
  /\ MayReserve(arr, arr.count + Len(s))
  /\ arr' = AppendTo(arr, s)

\* array_assign, lines 146-150: clear, then append.
ArrayAssign(s) ==
  /\ MayReserve(arr, Len(s))
  /\ arr' = AppendTo([arr EXCEPT !.count = 0], s)

\* array_push, lines 152-156: reserve count + 1, store, count++.
ArrayPush(v) ==
  /\ arr.count < MAX_COUNT
  /\ MayReserve(arr, arr.count + 1)
  /\ LET r == Reserve(arr, arr.count + 1)
     IN arr' = [r EXCEPT !.data[r.count] = v, !.count = r.count + 1]

\* The check CHECK_BOUNDS(0, count) of array_pop and array_remove_unordered
\* (lines 160, 166) asserts 0 <= 0 && 0 <= count: it holds on an empty
\* array.  Whether the caller checks emptiness itself is CALLER_CHECKS_EMPTY.
CheckBounds(a) == 0 <= 0 /\ 0 <= a.count

CallerAllowsRemove(a) == CALLER_CHECKS_EMPTY => a.count > 0

\* array_pop, lines 158-162: data[--count].
ArrayPop ==
  /\ CheckBounds(arr) /\ CallerAllowsRemove(arr)
  /\ arr' = [arr EXCEPT !.count = @ - 1]

\* array_remove_unordered copying from data[count] before the decrement.
RemoveUnorderedPostDec(i) ==
  /\ CheckBounds(arr) /\ CallerAllowsRemove(arr)
  /\ arr' = [arr EXCEPT !.data[i] = At(arr, arr.count), !.count = @ - 1]

\* array_remove_unordered, lines 164-168: data[index] = data[--count].  The
\* index is one the caller may pass: below count, or for a careless caller
\* any slot of the allocation.
ArrayRemoveUnordered(i) ==
  /\ CheckBounds(arr) /\ CallerAllowsRemove(arr)
  /\ arr' = [arr EXCEPT !.data[i] = At(arr, arr.count - 1), !.count = @ - 1]

RemoveIndices ==
  IF CALLER_CHECKS_EMPTY THEN 0 .. arr.count - 1 ELSE 0 .. arr.capacity - 1

Next ==
  \/ ArrayInit \/ ArrayDeinit \/ ArrayClear \/ ArrayPop
  \/ \E n \in SIZES : \/ ArrayReserve(n) \/ ArraySetCapacity(n)
                      \/ \E z \in BOOLEAN : ArrayResize(n, z)
  \/ \E s \in BoundedSeq(Values, MAX_COUNT) : ArrayAppend(s) \/ ArrayAssign(s)
  \/ \E v \in Values : ArrayPush(v)
  \/ \E i \in RemoveIndices : ArrayRemoveUnordered(i)

Spec == Init /\ [][Next]_arr

-----------------------------------------------------------------------------
(* Properties.                                                             *)

TypeOK ==
  /\ arr.allocator \in {NULL, Alloc}
  /\ arr.count \in Int
  /\ arr.capacity \in Nat
  /\ arr.data \in [0 .. arr.capacity - 1 -> Elems]

\* The array's own consistency check, generic_array_is_consistent, holds
\* between any two calls: the count never leaves [0, capacity] and memory
\* is never held without an allocator.  Reserve's growth rule and every
\* count update of push, append, resize, pop and set_capacity are involved.
Consistent == ArrayIsConsistent(arr)

\* The items the array holds: the first count slots.
Contents == [i \in 1 .. arr.count |-> At(arr, i - 1)]

Sequence == INSTANCE ArraySeq WITH elems <- Contents, MAX_LEN <- MAX_COUNT

\* Through every reallocation, trim, resize and removal the array behaves
\* as the sequence its macros' comments describe (ArraySeq): no item is
\* lost, duplicated or replaced by memory nothing wrote, except where
\* resize_for_overwrite leaves it unspecified.
ArrayRefinement == Sequence!Spec

=============================================================================
