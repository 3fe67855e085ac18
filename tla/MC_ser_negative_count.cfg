CONSTANTS
  Inputs <- NegativeCountInputs
  GARBAGE = {0}
SPECIFICATION Spec
PROPERTY WalkTerminates
