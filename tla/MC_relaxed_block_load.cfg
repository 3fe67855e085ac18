\* One consumer calling spmc_queue_result_pop_st (the SPSC fast path, plain
\* store of the tail) against the producer's push_st and reserve; first
\* block of 1 slot so that growth 1 -> 2 -> 4 happens within 5 pushes, and
\* max_capacity 4 so that the fifth live item is refused with FULL.
CONSTANTS
  Consumers = {c1}
  Uninit = Uninit
  MAX_PUSH = 5
  MIN_CAP = 1
  MAX_CAPACITY = 4
  RESERVE_SIZES = {3}
  ALLOC_MAY_FAIL = TRUE
  POP_ST = TRUE
  MAX_INITS = 0
  BlockLoads <- RelaxedBlockLoads

SPECIFICATION Spec

PROPERTY QueueRefinement
