------------------------------ MODULE SPMCQueue ------------------------------
(***************************************************************************)
(* The growing single-producer / multi-consumer queue (MODULE_SPMC_QUEUE,  *)
(* src/_test_log.h lines 60-448).                                          *)
(*                                                                         *)
(* One producer thread calls spmc_queue_result_push_st and                 *)
(* spmc_queue_reserve; every consumer thread calls spmc_queue_result_pop   *)
(* (the retry loop around pop_weak) or, when it is the only consumer,      *)
(* spmc_queue_result_pop_st.  Every access to a location another thread    *)
(* writes (pop.tail, push.head, pop.estimate_head, pop.block and the slot  *)
(* memory) is a step of its own; reads and writes of locations only the    *)
(* acting thread touches are folded into the adjacent shared step.  The    *)
(* memory model is sequential consistency (see README).                    *)
(*                                                                         *)
(* Blocks are never freed while the queue lives, so they are an arena:     *)
(* `blocks' is the sequence of every block ever allocated and a block      *)
(* pointer is its index, 0 standing for NULL.  The producer pushes the     *)
(* position number head as the item, like the tests of                     *)
(* src/tests/test_hash.h, so a popped value names the push it came from.   *)
(***************************************************************************)
EXTENDS Integers, Sequences, FiniteSets

CONSTANTS
  Consumers,       \* consumer threads
  MAX_PUSH,        \* bound: the producer stops after MAX_PUSH successful pushes
  MIN_CAP,         \* the first block capacity, the literal 64 of _spmc_queue_reserve
  MAX_CAPACITY,    \* push.max_capacity as given to spmc_queue_init
  RESERVE_SIZES,   \* arguments the producer may pass to spmc_queue_reserve
  ALLOC_MAY_FAIL,  \* whether malloc in _spmc_queue_reserve may return NULL
  POP_ST,          \* TRUE: the single consumer calls pop_st; FALSE: pop
  MAX_INITS,       \* bound: how often spmc_queue_init is called again on the queue
  Uninit           \* model value: a slot of a fresh block that was never written

ASSUME
  /\ Consumers # {}
  /\ MAX_PUSH \in Nat \ {0}
  /\ MIN_CAP \in {2^k : k \in 0..6}
  /\ MAX_CAPACITY \in Int
  /\ RESERVE_SIZES \subseteq Nat
  /\ ALLOC_MAY_FAIL \in BOOLEAN
  /\ POP_ST \in BOOLEAN
  /\ MAX_INITS \in Nat
  /\ POP_ST => Cardinality(Consumers) = 1

VARIABLES
  blocks,        \* every SPMC_Queue_Block allocated: [mask, slots, next, frees]
  pushBlock,     \* push.block   (producer only)
  popBlock,      \* pop.block    (atomic, read by consumers)
  head,          \* push.head    (atomic, written by the producer)
  tail,          \* pop.tail     (atomic, written by consumers)
  estimateTail,  \* push.estimate_tail (producer only)
  estimateHead,  \* pop.estimate_head  (atomic, written by consumers)
  ppc,           \* the producer's position in its current call
  pl,            \* the producer's locals: head, block, to_size, caller
  cpc,           \* each consumer's position in its current call
  cl,            \* each consumer's locals: tail, head, block, item
  got,           \* history: the items each consumer's OK pops returned
  lastPush,      \* history: the state returned by the last push_st
  inits          \* how often spmc_queue_init was called again

vars == <<blocks, pushBlock, popBlock, head, tail, estimateTail, estimateHead,
          ppc, pl, cpc, cl, got, lastPush, inits>>

Items == 0 .. MAX_PUSH - 1
NULL == 0
Cap(b) == blocks[b].mask + 1

\* _spmc_queue_slot: the slot of position i in block b (i & mask).
Slot(b, i) == blocks[b].slots[i % Cap(b)]

CapAllows(toSize) == MAX_CAPACITY < 0 \/ toSize <= MAX_CAPACITY

GrowCapExact(cap, toSize) == IF cap < toSize THEN toSize ELSE cap

\* The doubling loop of _spmc_queue_reserve, started at 64 (MIN_CAP).
RECURSIVE GrowCap(_, _)
GrowCap(cap, toSize) == IF cap < toSize THEN GrowCap(2 * cap, toSize) ELSE cap

\* The condition of _spmc_queue_reserve under which it allocates.
OldCap == IF pushBlock = NULL THEN 0 ELSE Cap(pushBlock)
ReserveGrows(toSize) == OldCap < toSize /\ CapAllows(toSize)

NoRoomOffByOne(b, h, t) == IF b = NULL THEN TRUE ELSE h - t > blocks[b].mask + 1

\* The test of push_st: no block yet, or (head - tail) > mask.
NoRoom(b, h, t) == IF b = NULL THEN TRUE ELSE h - t > blocks[b].mask

\* The emptiness tests of pop_st, (head - tail) <= 0, and of pop_weak,
\* (tail - head) >= 0.
IsEmptySt(h, t) == h - t <= 0
IsEmptyWeak(h, t) == t - h >= 0
IsEmpty(h, t) == IF POP_ST THEN IsEmptySt(h, t) ELSE IsEmptyWeak(h, t)

NoProducerLocals == [head |-> 0, block |-> NULL, toSize |-> 0, caller |-> "none"]
NoConsumerLocals == [tail |-> 0, head |-> 0, block |-> NULL, item |-> Uninit]

Init ==
  /\ blocks = <<>>
  /\ pushBlock = NULL
  /\ popBlock = NULL
  /\ head = 0
  /\ tail = 0
  /\ estimateTail = 0
  /\ estimateHead = 0
  /\ ppc = "idle"
  /\ pl = NoProducerLocals
  /\ cpc = [c \in Consumers |-> "idle"]
  /\ cl = [c \in Consumers |-> NoConsumerLocals]
  /\ got = [c \in Consumers |-> <<>>]
  /\ lastPush = "none"
  /\ inits = 0

ConsumerVars == <<tail, estimateHead, cpc, cl, got>>

-----------------------------------------------------------------------------
(* Producer: spmc_queue_result_push_st (lines 271-301) and                 *)
(* _spmc_queue_reserve (lines 226-264).                                    *)

\* memcpy(slot, item, item_size): the item of position i is i.
WriteSlot(b, i) == blocks' = [blocks EXCEPT ![b].slots[i % Cap(b)] = i]

\* push_st whose estimate of the tail shows room: straight to the slot write.
PushFast ==
  /\ ppc = "idle" /\ head < MAX_PUSH
  /\ ~NoRoom(pushBlock, head, estimateTail)
  /\ WriteSlot(pushBlock, head)
  /\ ppc' = "publish"
  /\ pl' = [NoProducerLocals EXCEPT !.head = head, !.block = pushBlock]
  /\ UNCHANGED <<pushBlock, popBlock, head, estimateTail, lastPush, ConsumerVars, inits>>

\* push_st reloads the tail (acquire) into estimate_tail and finds room.
PushRefresh ==
  /\ ppc = "idle" /\ head < MAX_PUSH
  /\ NoRoom(pushBlock, head, estimateTail)
  /\ ~NoRoom(pushBlock, head, tail)
  /\ estimateTail' = tail
  /\ ppc' = "write"
  /\ pl' = [NoProducerLocals EXCEPT !.head = head, !.block = pushBlock]
  /\ UNCHANGED <<blocks, pushBlock, popBlock, head, lastPush, ConsumerVars, inits>>

\* Still no room: _spmc_queue_reserve(q, head - tail + 1) allocates.
PushGrow ==
  /\ ppc = "idle" /\ head < MAX_PUSH
  /\ NoRoom(pushBlock, head, estimateTail)
  /\ NoRoom(pushBlock, head, tail)
  /\ ReserveGrows(head - tail + 1)
  /\ estimateTail' = tail
  /\ ppc' = "rsv_copy"
  /\ pl' = [NoProducerLocals EXCEPT !.head = head, !.toSize = head - tail + 1,
                                    !.caller = "push"]
  /\ UNCHANGED <<blocks, pushBlock, popBlock, head, lastPush, ConsumerVars, inits>>

\* Still no room and _spmc_queue_reserve refuses to grow, returning the old
\* block: push_st returns SPMC_QUEUE_FULL having changed only estimate_tail.
PushFull ==
  /\ ppc = "idle" /\ head < MAX_PUSH
  /\ NoRoom(pushBlock, head, estimateTail)
  /\ NoRoom(pushBlock, head, tail)
  /\ ~ReserveGrows(head - tail + 1)
  /\ estimateTail' = tail
  /\ lastPush' = "FULL"
  /\ UNCHANGED <<blocks, pushBlock, popBlock, head, ppc, pl, ConsumerVars, inits>>

\* spmc_queue_reserve called by the producer with an argument that makes
\* _spmc_queue_reserve allocate (otherwise it changes nothing).
ReserveStart ==
  /\ ppc = "idle"
  /\ \E n \in RESERVE_SIZES :
       /\ ReserveGrows(n)
       /\ ppc' = "rsv_copy"
       /\ pl' = [NoProducerLocals EXCEPT !.toSize = n, !.caller = "reserve"]
  /\ UNCHANGED <<blocks, pushBlock, popBlock, head, estimateTail, lastPush,
                 ConsumerVars, inits>>

ReserveLiveRangeShort == IF pushBlock = NULL THEN {} ELSE tail .. head - 2

\* The positions the copy loop of _spmc_queue_reserve visits: none for the
\* first block, else tail (loaded seq_cst) up to head.
ReserveLiveRange == IF pushBlock = NULL THEN {} ELSE tail .. head - 1

\* Allocation of the new block and the copy of [tail, head) into it, the
\* tail loaded seq_cst.  The new block is private until published.
ReserveCopy ==
  /\ ppc = "rsv_copy"
  /\ LET cap == GrowCap(MIN_CAP, pl.toSize)
         live == ReserveLiveRange
         new == [mask |-> cap - 1, next |-> pushBlock, frees |-> 0,
                 slots |-> [j \in 0 .. cap - 1 |->
                             IF \E i \in live : i % cap = j
                             THEN Slot(pushBlock, CHOOSE i \in live : i % cap = j)
                             ELSE Uninit]]
     IN /\ blocks' = Append(blocks, new)
        /\ pl' = [pl EXCEPT !.block = Len(blocks) + 1]
  /\ ppc' = "rsv_publish"
  /\ UNCHANGED <<pushBlock, popBlock, head, estimateTail, lastPush, ConsumerVars, inits>>

\* malloc returned NULL for a growth requested by push_st: FULL.
ReserveAllocFail ==
  /\ ppc = "rsv_copy" /\ ALLOC_MAY_FAIL /\ pl.caller = "push"
  /\ lastPush' = "FULL"
  /\ ppc' = "idle"
  /\ pl' = NoProducerLocals
  /\ UNCHANGED <<blocks, pushBlock, popBlock, head, estimateTail, ConsumerVars, inits>>

\* push.block = new_block; seq_cst store of pop.block.  Back in push_st the
\* slot write follows.
ReservePublish ==
  /\ ppc = "rsv_publish"
  /\ pushBlock' = pl.block
  /\ popBlock' = pl.block
  /\ ppc' = IF pl.caller = "push" THEN "write" ELSE "idle"
  /\ pl' = IF pl.caller = "push" THEN pl ELSE NoProducerLocals
  /\ UNCHANGED <<blocks, head, estimateTail, lastPush, ConsumerVars, inits>>

PushWrite ==
  /\ ppc = "write"
  /\ WriteSlot(pushBlock, pl.head)
  /\ ppc' = "publish"
  /\ UNCHANGED <<pushBlock, popBlock, head, estimateTail, pl, lastPush,
                 ConsumerVars, inits>>

\* Release store of head + 1; push_st returns SPMC_QUEUE_OK.
PushPublish ==
  /\ ppc = "publish"
  /\ head' = pl.head + 1
  /\ lastPush' = "OK"
  /\ ppc' = "idle"
  /\ pl' = NoProducerLocals
  /\ UNCHANGED <<blocks, pushBlock, popBlock, estimateTail, ConsumerVars, inits>>

ProducerNext ==
  \/ PushFast \/ PushRefresh \/ PushGrow \/ PushFull
  \/ ReserveStart \/ ReserveCopy \/ ReserveAllocFail \/ ReservePublish
  \/ PushWrite \/ PushPublish

-----------------------------------------------------------------------------
(* Consumers: spmc_queue_result_pop (lines 374-381) looping over           *)
(* spmc_queue_result_pop_weak (lines 341-372), or spmc_queue_result_pop_st *)
(* (lines 303-339).                                                        *)

ProducerVars == <<blocks, pushBlock, popBlock, head, estimateTail, ppc, pl,
                  lastPush>>

SetPc(c, p) == cpc' = [cpc EXCEPT ![c] = p]

\* Relaxed load of pop.tail.  From "idle" this starts a call; from "retry"
\* it is the next round of pop's loop after FAILED_RACE.
PopLoadTail(c) ==
  /\ cpc[c] \in {"idle", "retry"}
  /\ cl' = [cl EXCEPT ![c] = [NoConsumerLocals EXCEPT !.tail = tail]]
  /\ SetPc(c, "ld_est")
  /\ UNCHANGED <<tail, estimateHead, got, ProducerVars, inits>>

\* Relaxed load of pop.estimate_head, then the emptiness test.
PopLoadEstimate(c) ==
  /\ cpc[c] = "ld_est"
  /\ cl' = [cl EXCEPT ![c].head = estimateHead]
  /\ SetPc(c, IF IsEmpty(estimateHead, cl[c].tail) THEN "ld_head" ELSE "ld_block")
  /\ UNCHANGED <<tail, estimateHead, got, ProducerVars, inits>>

\* Looks empty: relaxed load of push.head ...
PopLoadHead(c) ==
  /\ cpc[c] = "ld_head"
  /\ cl' = [cl EXCEPT ![c].head = head]
  /\ SetPc(c, "st_est")
  /\ UNCHANGED <<tail, estimateHead, got, ProducerVars, inits>>

\* ... stored into pop.estimate_head; now an item shows.
PopStoreEstimate(c) ==
  /\ cpc[c] = "st_est"
  /\ ~IsEmpty(cl[c].head, cl[c].tail)
  /\ estimateHead' = cl[c].head
  /\ SetPc(c, "ld_block")
  /\ UNCHANGED <<tail, cl, got, ProducerVars, inits>>

\* A pop whose loop also retried on SPMC_QUEUE_EMPTY.
PopEmptyRetry(c) ==
  /\ cpc[c] = "st_est"
  /\ IsEmpty(cl[c].head, cl[c].tail)
  /\ estimateHead' = cl[c].head
  /\ SetPc(c, "retry")
  /\ cl' = [cl EXCEPT ![c] = NoConsumerLocals]
  /\ UNCHANGED <<tail, got, ProducerVars, inits>>

\* ... stored into pop.estimate_head; still empty: SPMC_QUEUE_EMPTY.
PopEmpty(c) ==
  /\ cpc[c] = "st_est"
  /\ IsEmpty(cl[c].head, cl[c].tail)
  /\ estimateHead' = cl[c].head
  /\ SetPc(c, "idle")
  /\ cl' = [cl EXCEPT ![c] = NoConsumerLocals]
  /\ UNCHANGED <<tail, got, ProducerVars, inits>>

\* The values the seq_cst load of pop.block may read: under sequential
\* consistency, the last one stored.
BlockLoads == {popBlock}

\* seq_cst load of pop.block.
PopLoadBlock(c) ==
  /\ cpc[c] = "ld_block"
  /\ \E b \in BlockLoads : cl' = [cl EXCEPT ![c].block = b]
  /\ SetPc(c, "copy")
  /\ UNCHANGED <<tail, estimateHead, got, ProducerVars, inits>>

\* memcpy(item, slot, item_size) from the block just loaded.
PopCopy(c) ==
  /\ cpc[c] = "copy"
  /\ cl' = [cl EXCEPT ![c].item = Slot(cl[c].block, cl[c].tail)]
  /\ SetPc(c, IF POP_ST THEN "st_tail" ELSE "cas")
  /\ UNCHANGED <<tail, estimateHead, got, ProducerVars, inits>>

\* A pop_weak storing tail + 1 without the compare-exchange.
PopCasStore(c) ==
  /\ cpc[c] = "cas"
  /\ tail' = cl[c].tail + 1
  /\ got' = [got EXCEPT ![c] = Append(@, cl[c].item)]
  /\ SetPc(c, "idle")
  /\ cl' = [cl EXCEPT ![c] = NoConsumerLocals]
  /\ UNCHANGED <<estimateHead, ProducerVars, inits>>

\* pop_weak: compare_exchange(pop.tail, tail, tail + 1) succeeds: OK.
PopCas(c) ==
  /\ cpc[c] = "cas"
  /\ tail = cl[c].tail
  /\ tail' = cl[c].tail + 1
  /\ got' = [got EXCEPT ![c] = Append(@, cl[c].item)]
  /\ SetPc(c, "idle")
  /\ cl' = [cl EXCEPT ![c] = NoConsumerLocals]
  /\ UNCHANGED <<estimateHead, ProducerVars, inits>>

\* The exchange fails: pop_weak returns FAILED_RACE, the copied item is
\* dropped and pop loops.
PopCasFail(c) ==
  /\ cpc[c] = "cas"
  /\ tail # cl[c].tail
  /\ SetPc(c, "retry")
  /\ cl' = [cl EXCEPT ![c] = NoConsumerLocals]
  /\ UNCHANGED <<tail, estimateHead, got, ProducerVars, inits>>

\* pop_st: relaxed store of tail + 1, unconditionally: OK.
PopStoreTail(c) ==
  /\ cpc[c] = "st_tail"
  /\ tail' = cl[c].tail + 1
  /\ got' = [got EXCEPT ![c] = Append(@, cl[c].item)]
  /\ SetPc(c, "idle")
  /\ cl' = [cl EXCEPT ![c] = NoConsumerLocals]
  /\ UNCHANGED <<estimateHead, ProducerVars, inits>>

ConsumerNext(c) ==
  \/ PopLoadTail(c) \/ PopLoadEstimate(c) \/ PopLoadHead(c)
  \/ PopStoreEstimate(c) \/ PopEmpty(c) \/ PopLoadBlock(c) \/ PopCopy(c)
  \/ PopCas(c) \/ PopCasFail(c) \/ PopStoreTail(c)

-----------------------------------------------------------------------------
(* spmc_queue_init called again on a queue no thread is using (lines       *)
(* 209-217): it starts with spmc_queue_deinit (lines 197-208).             *)

\* The blocks reachable from block b through next.
RECURSIVE Chain(_)
Chain(b) == IF b = NULL THEN {} ELSE {b} \cup Chain(blocks[b].next)

\* A deinit that frees push.block alone.
DeinitFreesHead == IF pushBlock = NULL THEN {} ELSE {pushBlock}

\* The blocks the loop of spmc_queue_deinit frees: the chain from push.block.
DeinitFrees == Chain(pushBlock)

\* Every block of the chain is freed, the queue is zeroed (memset, then a
\* NULL store to pop.block), and init sets max_capacity and item_size
\* again, which are constants here.
Reinit ==
  /\ ppc = "idle" /\ \A c \in Consumers : cpc[c] = "idle"
  /\ inits < MAX_INITS
  /\ blocks' = [b \in DOMAIN blocks |->
                  IF b \in DeinitFrees THEN [blocks[b] EXCEPT !.frees = @ + 1] ELSE blocks[b]]
  /\ pushBlock' = NULL /\ popBlock' = NULL
  /\ head' = 0 /\ tail' = 0 /\ estimateTail' = 0 /\ estimateHead' = 0
  /\ inits' = inits + 1
  /\ UNCHANGED <<ppc, pl, cpc, cl, got, lastPush>>

-----------------------------------------------------------------------------
Next ==
  \/ ProducerNext
  \/ \E c \in Consumers : ConsumerNext(c)
  \/ Reinit

(* Threads are scheduled preemptively and nothing in the queue blocks, so  *)
(* a thread inside a call keeps taking steps.  Whether a thread starts a   *)
(* new call is up to its caller: no fairness for starting one.             *)
Fairness ==
  /\ WF_vars(ppc # "idle" /\ ProducerNext)
  /\ \A c \in Consumers : WF_vars(cpc[c] # "idle" /\ ConsumerNext(c))

Spec == Init /\ [][Next]_vars /\ Fairness

-----------------------------------------------------------------------------
(* Properties.                                                             *)

PowersOfTwoCaps == {MIN_CAP * 2^k : k \in 0 .. MAX_PUSH + 1}

\* Types.  Every block's capacity is MIN_CAP times a power of two, as the
\* mask arithmetic of _spmc_queue_slot requires.
TypeOK ==
  /\ \A b \in DOMAIN blocks :
       /\ Cap(b) \in PowersOfTwoCaps
       /\ blocks[b].slots \in [0 .. blocks[b].mask -> Items \cup {Uninit}]
       /\ blocks[b].next \in 0 .. b - 1
       /\ blocks[b].frees \in Nat
  /\ pushBlock \in 0 .. Len(blocks)
  /\ popBlock \in 0 .. Len(blocks)
  /\ head \in 0 .. MAX_PUSH
  /\ tail \in 0 .. MAX_PUSH
  /\ estimateTail \in 0 .. MAX_PUSH
  /\ estimateHead \in 0 .. MAX_PUSH
  /\ ppc \in {"idle", "rsv_copy", "rsv_publish", "write", "publish"}
  /\ cpc \in [Consumers -> {"idle", "retry", "ld_est", "ld_head", "st_est",
                            "ld_block", "copy", "cas", "st_tail"}]
  /\ got \in [Consumers -> Seq(Items \cup {Uninit})]
  /\ lastPush \in {"none", "OK", "FULL"}
  /\ inits \in 0 .. MAX_INITS

\* Growth and wrap-around never lose or overwrite a live item: every
\* position in [tail, head) holds its own item in the block that consumers
\* load (pop.block).  Breaks if push_st writes a slot still live (full test
\* of lines 280/283) or _spmc_queue_reserve publishes a block the copy of
\* lines 248-257 left short.
LiveRangeIntact ==
  \A i \in tail .. head - 1 : Slot(popBlock, i) = i

\* The queue implements FifoQueue: a push takes effect at the store of
\* head + 1, a pop at its successful compare-exchange (pop_st: its store)
\* of the tail, and every OK pop returns the oldest item not yet taken.
\* So no item is lost, duplicated or reordered, even when a consumer copied
\* its item from a retired block or lost a race (spec.md section 8).
Fifo == INSTANCE FifoQueue
          WITH items <- [i \in 1 .. head - tail |-> tail + i - 1],
               Values <- Items
QueueRefinement == Fifo!Spec

\* Retired blocks are reclaimed exactly once.  Growth keeps every old
\* block allocated, linked from the new one (line 245), because a consumer
\* may still copy from it; only spmc_queue_deinit frees them, walking next
\* from push.block (lines 199-203).  So a block is either on that chain (or
\* is the new block reserve has not yet published) and never freed, or off
\* it and freed exactly once: a block left off the chain leaks, and one
\* freed by a deinit and then reached again is freed twice.
BlocksReclaimed ==
  \A b \in DOMAIN blocks :
    IF b \in Chain(pushBlock) \/ (ppc = "rsv_publish" /\ b = pl.block)
    THEN blocks[b].frees = 0 ELSE blocks[b].frees = 1

PopReturns == \A c \in Consumers : cpc[c] # "idle" ~> cpc[c] = "idle"



=============================================================================
