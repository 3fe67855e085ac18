\* An observer calling count, count_upper and count_lower while the producer
\* pushes up to 3 items and a pop_st consumer drains them, so the tail moves
\* between the observer's loads.
CONSTANTS
  Consumers = {c1}
  Uninit = Uninit
  MAX_PUSH = 3
  MIN_CAP = 2
  MAX_CAPACITY <- Unbounded
  RESERVE_SIZES = {}
  ALLOC_MAY_FAIL = FALSE
  POP_ST = TRUE
  MAX_INITS = 0

SPECIFICATION SpecAll
INVARIANT CountIsSnapshot
INVARIANT CountEstimatesOneSided
PROPERTY CountReturns
