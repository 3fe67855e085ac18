\* Flips of views of two images, by a caller that writes into whole
\* images, up to 2 x 2 pixels of 1 or 2 bytes.
CONSTANTS
  A = A
  B = B
  Images = {A, B}
  Dims = {0, 1, 2}
  PixelSizes = {1, 2}
  ReserveSizes = {8}
  PadValues <- Pads
  NBuf = 3
  MaxCalls = 3
  Ops <- FlipOps
  Targets <- WholeTargets

SPECIFICATION Spec
INVARIANT InBounds
PROPERTY ImageRefinement
