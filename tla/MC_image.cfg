\* Two Images, every call of image.h, three calls, up to 2 x 2 pixels of
\* 1 or 2 bytes and three allocations.
CONSTANTS
  A = A
  B = B
  Images = {A, B}
  Dims = {0, 1, 2}
  PixelSizes = {1, 2}
  ReserveSizes = {8}
  PadValues <- Pads
  NBuf = 3
  MaxCalls = 3
  Ops <- AllOps

SPECIFICATION Spec
VIEW CallerState
INVARIANT TypeOK
INVARIANT BuffersOwned
INVARIANT NoDanglingAccess
