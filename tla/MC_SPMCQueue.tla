---------------------------- MODULE MC_SPMCQueue ----------------------------
(* Instantiation of SPMCQueue for TLC.  Consumer threads and the           *)
(* uninitialised-slot marker are model values given in the .cfg files.    *)
EXTENDS SPMCQueue

\* The capacity spmc_queue_init(..., -1) leaves unbounded.
Unbounded == -1

\* The values C11 lets the seq_cst load of pop.block (line 327) read: the
\* loads of pop.tail, pop.estimate_head and push.head before it (lines
\* 310-314) are relaxed and synchronise with nothing, so a consumer that
\* has seen the new head may still read pop.block as it was before the
\* producer's last publish (line 256).
RelaxedBlockLoads == {b \in {popBlock - 1, popBlock} : b # NULL}

=============================================================================
