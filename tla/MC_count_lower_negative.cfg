\* count_lower against a producer and a pop_st consumer: the consumer can
\* move the tail past the head count_lower already read.
CONSTANTS
  Consumers = {c1}
  Uninit = Uninit
  MAX_PUSH = 2
  MIN_CAP = 2
  MAX_CAPACITY <- Unbounded
  RESERVE_SIZES = {}
  ALLOC_MAY_FAIL = FALSE
  POP_ST = TRUE
  MAX_INITS = 0

SPECIFICATION SpecAll
INVARIANT CountLowerNonNegative
