\* Two consumers calling spmc_queue_result_pop against the producer's
\* push_st and reserve; a first block of 1 slot (MIN_CAP) so that growth
\* 1 -> 2 -> 4 and wrap-around all happen within 4 pushes; malloc may fail.
CONSTANTS
  Consumers = {c1, c2}
  Uninit = Uninit
  MAX_PUSH = 4
  MIN_CAP = 1
  MAX_CAPACITY <- Unbounded
  RESERVE_SIZES = {3}
  ALLOC_MAY_FAIL = TRUE
  POP_ST = FALSE
  MAX_INITS = 0

SPECIFICATION Spec
INVARIANT TypeOK
INVARIANT LiveRangeIntact
PROPERTY QueueRefinement
PROPERTY PopReturns
