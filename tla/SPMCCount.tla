------------------------------ MODULE SPMCCount ------------------------------
(***************************************************************************)
(* The count queries of the SPMC queue (src/_test_log.h lines 405-446)     *)
(* made by an observer thread while the producer and the consumers of      *)
(* SPMCQueue run: spmc_queue_count, which retries until it reads the same  *)
(* tail on both sides of its head load, and the one-sided estimates        *)
(* spmc_queue_count_upper (tail, then head) and spmc_queue_count_lower     *)
(* (head, then tail).  Each atomic load is a step.                         *)
(*                                                                         *)
(* In all three, diff is a uint64_t holding (isize)(head - tail), so the   *)
(* test diff >= 0 always holds and the value returned, cast back to isize, *)
(* is head - tail, negative when tail passed the head that was read.       *)
(***************************************************************************)
EXTENDS SPMCQueue

VARIABLES
  opc,      \* the observer's position in its current call
  ol,       \* its locals: op, t0, head, tail
  seen,     \* history: head - tail in every state of the current call
  atLoad,   \* history: head - tail when the call made its last load
  answer    \* history: the value the last call returned

obsVars == <<opc, ol, seen, atLoad, answer>>
allVars == <<vars, obsVars>>

NoObserverLocals == [op |-> "none", t0 |-> 0, head |-> 0, tail |-> 0]

\* What count, count_upper and count_lower return for the loads h and t.
CountResult(h, t) == h - t

InitAll ==
  /\ Init
  /\ opc = "idle"
  /\ ol = NoObserverLocals
  /\ seen = {}
  /\ atLoad = 0
  /\ answer = 0

\* Load order of count_upper (tail first) and count_lower (head first).
CountUpperFirstSwapped == "head"
CountUpperFirst == "tail"
CountLowerFirst == "head"

\* Every state change of the queue inside a call is remembered in seen.
Track == seen' = IF opc = "idle" THEN seen ELSE seen \cup {head' - tail'}

-----------------------------------------------------------------------------
(* spmc_queue_count, lines 405-426.                                        *)

\* A count whose loop breaks without comparing the tails.
CountCheckTailAny ==
  /\ opc = "c_tail"
  /\ answer' = CountResult(ol.head, tail)
  /\ opc' = "idle"
  /\ ol' = [NoObserverLocals EXCEPT !.op = "count"]
  /\ UNCHANGED <<seen, atLoad, vars>>

\* A count whose loop never updates t0.
CountRetryNoUpdate ==
  /\ opc = "c_tail"
  /\ tail # ol.t0
  /\ opc' = "c_head"
  /\ seen' = seen
  /\ UNCHANGED <<ol, atLoad, answer, vars>>

\* uint64_t t0 = relaxed load of pop.tail.
CountStart ==
  /\ opc = "idle"
  /\ opc' = "c_head"
  /\ ol' = [NoObserverLocals EXCEPT !.op = "count", !.t0 = tail]
  /\ seen' = {head - tail}
  /\ UNCHANGED <<atLoad, answer, vars>>

\* head = acquire load of push.head.
CountLoadHead ==
  /\ opc = "c_head"
  /\ ol' = [ol EXCEPT !.head = head]
  /\ opc' = "c_tail"
  /\ seen' = seen
  /\ UNCHANGED <<atLoad, answer, vars>>

\* tail = acquire load of pop.tail; tail == t0: break and return.
CountCheckTail ==
  /\ opc = "c_tail"
  /\ tail = ol.t0
  /\ answer' = CountResult(ol.head, tail)
  /\ opc' = "idle"
  /\ ol' = [NoObserverLocals EXCEPT !.op = "count"]
  /\ UNCHANGED <<seen, atLoad, vars>>

\* tail moved: t0 = tail and go round again.
CountRetry ==
  /\ opc = "c_tail"
  /\ tail # ol.t0
  /\ ol' = [ol EXCEPT !.t0 = tail]
  /\ opc' = "c_head"
  /\ seen' = seen
  /\ UNCHANGED <<atLoad, answer, vars>>

-----------------------------------------------------------------------------
(* spmc_queue_count_upper (lines 428-436) and spmc_queue_count_lower       *)
(* (lines 438-446): one load, an acquire fence, the other load.            *)

EstimateStart(op, first) ==
  /\ opc = "idle"
  /\ opc' = "e_second"
  /\ ol' = [NoObserverLocals EXCEPT !.op = op,
                                    !.tail = IF first = "tail" THEN tail ELSE 0,
                                    !.head = IF first = "head" THEN head ELSE 0]
  /\ seen' = {head - tail}
  /\ UNCHANGED <<atLoad, answer, vars>>

CountUpperStart == EstimateStart("upper", CountUpperFirst)
CountLowerStart == EstimateStart("lower", CountLowerFirst)

\* The second load, of whichever counter the first did not read.
EstimateFinish ==
  /\ opc = "e_second"
  /\ LET first == IF ol.op = "upper" THEN CountUpperFirst ELSE CountLowerFirst
         h == IF first = "head" THEN ol.head ELSE head
         t == IF first = "tail" THEN ol.tail ELSE tail
     IN answer' = CountResult(h, t)
  /\ atLoad' = head - tail
  /\ opc' = "idle"
  /\ ol' = [NoObserverLocals EXCEPT !.op = ol.op]
  /\ UNCHANGED <<seen, vars>>

ObserverNext ==
  \/ CountStart \/ CountLoadHead \/ CountCheckTail \/ CountRetry
  \/ CountUpperStart \/ CountLowerStart \/ EstimateFinish

NextAll ==
  \/ Next /\ Track /\ UNCHANGED <<opc, ol, atLoad, answer>>
  \/ ObserverNext

FairnessAll ==
  /\ Fairness
  /\ WF_allVars(opc # "idle" /\ ObserverNext)

SpecAll == InitAll /\ [][NextAll]_allVars /\ FairnessAll

-----------------------------------------------------------------------------
(* Properties.                                                             *)

\* spmc_queue_count returns "the count of items in the queue sometime in
\* the execution history" (line 142): head - tail of some state inside the
\* call.  The retry on tail != t0 is what makes the pair a snapshot.
CountIsSnapshot ==
  (opc = "idle" /\ ol.op = "count") => answer \in seen

\* The estimates are one-sided (lines 144-145, spec.md 4.5): count_upper
\* never returns less than the count at the instant of its last load, and
\* count_lower never more.
CountEstimatesOneSided ==
  opc = "idle" =>
    /\ ol.op = "upper" => answer >= atLoad
    /\ ol.op = "lower" => answer <= atLoad

\* spmc_queue_count returns once the consumers stop moving the tail.
CountReturns == opc \in {"c_head", "c_tail"} ~> opc = "idle"

\* A count is never negative: the `diff >= 0 ? diff : 0' of count_lower
\* (line 445) means to clamp at zero.
CountLowerNonNegative == (opc = "idle" /\ ol.op = "lower") => answer >= 0

=============================================================================
