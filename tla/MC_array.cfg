\* A user of the array who pops and removes only from a non-empty array:
\* two item values, counts up to 3, and every capacity from 0 to 3 set by
\* hand so that reserve grows from 0, 1, 2 and 3 slots (to 9, 10, 12, 13).
CONSTANTS
  Values = {v1, v2}
  Zero = Zero
  Garbage = Garbage
  Alloc = Alloc
  NULL = NULL
  SIZES = {0, 1, 2, 3}
  MAX_COUNT = 3
  CALLER_CHECKS_EMPTY = TRUE

SPECIFICATION Spec
INVARIANT TypeOK
INVARIANT Consistent
PROPERTY ArrayRefinement
