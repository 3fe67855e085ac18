CONSTANTS
  Inputs <- NestedListInputs
  GARBAGE = {0}
SPECIFICATION Spec
INVARIANT RoundTrip
