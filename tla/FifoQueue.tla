------------------------------ MODULE FifoQueue ------------------------------
(***************************************************************************)
(* What the SPMC queue promises (spec.md sections 4 and 8): one producer   *)
(* appends values, any number of consumers remove them, and every removal  *)
(* takes the oldest value still present.  Each value pushed is handed to   *)
(* exactly one consumer, in push order.  `got' records, per consumer, the  *)
(* values it received, in the order it received them.                      *)
(***************************************************************************)
EXTENDS Naturals, Sequences

CONSTANTS
  Consumers,  \* the consumer threads
  Values      \* the values the producer may push

VARIABLES
  items,      \* the values pushed and not yet removed, oldest first
  got,        \* got[c]: the values consumer c removed, in order
  inits       \* how often the queue was initialised again

vars == <<items, got, inits>>

Init ==
  /\ items = <<>>
  /\ got = [c \in Consumers |-> <<>>]
  /\ inits = 0

\* push_st succeeding: the value joins the back of the queue.
Enqueue(v) ==
  /\ items' = Append(items, v)
  /\ UNCHANGED <<got, inits>>

\* pop / pop_st succeeding: consumer c takes the front value.
Dequeue(c) ==
  /\ items # <<>>
  /\ got' = [got EXCEPT ![c] = Append(@, Head(items))]
  /\ items' = Tail(items)
  /\ UNCHANGED inits

\* spmc_queue_init on a queue in use: the values not yet removed are
\* dropped.
Reset ==
  /\ items' = <<>>
  /\ inits' = inits + 1
  /\ UNCHANGED got

Next ==
  \/ \E v \in Values : Enqueue(v)
  \/ \E c \in Consumers : Dequeue(c)
  \/ Reset

Spec == Init /\ [][Next]_vars

=============================================================================
