---------------------------- MODULE MC_SPMCCount ----------------------------
(* Instantiation of SPMCCount for TLC: the queue of SPMCQueue with an      *)
(* observer thread calling the count queries.                              *)
EXTENDS SPMCCount

\* The capacity spmc_queue_init(..., -1) leaves unbounded.
Unbounded == -1

=============================================================================
