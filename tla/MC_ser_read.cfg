CONSTANTS
  Inputs <- ReadInputs
  GARBAGE = {0, 84}
SPECIFICATION Spec
INVARIANT TypeOK
INVARIANT RoundTrip
PROPERTY WalkTerminates
