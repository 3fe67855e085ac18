-------------------------------- MODULE Image --------------------------------
(***************************************************************************)
(* The image and subimage functions of src/image.h, over a byte-level     *)
(* heap.                                                                   *)
(*                                                                         *)
(* A C function is an operator from a machine state s to the state after   *)
(* the call: s.img holds the Image structs the caller owns, s.mem the      *)
(* bytes of every allocation, s.live the allocations not yet freed,        *)
(* s.fault what the call did that C leaves undefined, and s.abort that a   *)
(* REQUIRE, ASSERT or CHECK_BOUNDS failed.  A function calls the others as *)
(* the code does, so an action, one call by the caller, runs the whole     *)
(* call tree: every memmove, memset, allocation and free in code order.    *)
(*                                                                         *)
(* A pointer is a buffer and a 0-based byte offset into it.  Bytes are     *)
(* integers: the caller's data are 1 .. MaxBytes, a fresh allocation holds *)
(* UNINIT.  An access outside a live buffer is recorded in s.fault; its    *)
(* write is lost and its read gives UNINIT, one outcome of the undefined   *)
(* behaviour.                                                              *)
(***************************************************************************)
EXTENDS Integers, SequencesExt, FiniteSets

CONSTANTS
  Images,        \* the Image variables of the caller
  Dims,          \* widths and heights the caller asks for
  PixelSizes,    \* pixel sizes the caller asks for
  ReserveSizes,  \* capacities the caller reserves
  PadValues,     \* pad_with_or_minus_one arguments of subimage_convert
  NBuf,          \* allocations that can be live at once
  Ops,           \* the calls the caller makes
  MaxCalls       \* how many calls the caller makes

VARIABLES
  img, mem, live, fault,
  calls,   \* how many calls the caller has made
  last     \* the name of the last one, a history variable for ImageRefinement

vars == <<img, mem, live, fault, calls, last>>

Bufs == 1 .. NBuf
NULL == 0                 \* a null pixels pointer
DATA == NBuf + 1          \* the caller's data_or_null array
TEMP == NBuf + 2          \* the caller's temp_row / temp_pixel array
UNINIT == -1              \* a byte nobody wrote

MaxBytes == Max(Dims) * Max(Dims) * Max(PixelSizes)
Pattern == [k \in 1 .. MaxBytes |-> k]
TempInit == [k \in 1 .. Max(Dims) * Max(PixelSizes) |-> UNINIT]

\* Pixel_Type, lines 24-49: the values the model uses.
PIXEL_TYPE_NONE == 0
PIXEL_TYPE_U8 == -1

\* pixel_type_size_or_zero, lines 200-230.
TypeSizes ==
  (0 :> 0) @@ (-1 :> 1) @@ (-2 :> 2) @@ (-3 :> 3) @@ (-4 :> 4) @@ (-8 :> 8)
  @@ (-11 :> 1) @@ (-12 :> 2) @@ (-13 :> 3) @@ (-14 :> 4) @@ (-18 :> 8)
  @@ (-21 :> 1) @@ (-22 :> 2) @@ (-24 :> 4) @@ (-28 :> 8)

PixelTypeSizeOrZero(t) ==
  IF t \in DOMAIN TypeSizes THEN TypeSizes[t] ELSE IF t > 0 THEN t ELSE 0

\* pixel_type_size, lines 232-236.
PixelTypeSize(t) == IF PixelTypeSizeOrZero(t) > 1 THEN PixelTypeSizeOrZero(t) ELSE 1

ZeroImage == [pixels |-> NULL, pixel_size |-> 0, type |-> PIXEL_TYPE_NONE,
              width |-> 0, height |-> 0, capacity |-> 0]

\* image_byte_size, lines 251-266.
ImageByteSize(im) == im.pixel_size * (im.width * im.height)

\* image_at, lines 298-307: the byte offset of pixel (x, y).
ImageAt(im, x, y) == x * im.pixel_size + y * (im.pixel_size * im.width)

-----------------------------------------------------------------------------
(* The heap.                                                               *)

\* What touching n bytes at offset o of buffer b is, when it is undefined.
Access(s, b, o, n) ==
  IF n <= 0 THEN {}
  ELSE IF b \notin s.live THEN {"dangling"}
  ELSE IF o < 0 \/ o + n > Len(s.mem[b]) THEN {"out_of_bounds"}
  ELSE {}

Byte(s, b, k) ==
  IF b \in s.live /\ k \in 0 .. Len(s.mem[b]) - 1 THEN s.mem[b][k + 1] ELSE UNINIT

\* Writes f(k) to each byte k of b in [o, o + n) that lies in a live buffer.
Store(s, b, o, n, f(_)) ==
  [s EXCEPT
     !.mem = IF b \in s.live
             THEN [s.mem EXCEPT ![b] = [k \in DOMAIN @ |->
                     IF o < k /\ k <= o + n THEN f(k - 1) ELSE @[k]]]
             ELSE s.mem,
     !.fault = @ \cup Access(s, b, o, n)]

\* memmove (and memcpy, whose operands never overlap where it is used).
Memmove(s, db, do, sb, so, n) ==
  [Store(s, db, do, n, LAMBDA k : Byte(s, sb, so + k - do))
     EXCEPT !.fault = @ \cup Access(s, sb, so, n)]

Memset(s, db, do, v, n) == Store(s, db, do, n, LAMBDA k : v)

\* The allocator hands out the lowest free buffer, uninitialised.
NewBuf(s) == Min(Bufs \ s.live)

Alloc(s, b, n) ==
  [s EXCEPT !.live = @ \cup {b}, !.mem[b] = [k \in 1 .. n |-> UNINIT]]

Free(s, b) ==
  IF b = NULL THEN s ELSE [s EXCEPT !.live = @ \ {b}, !.mem[b] = <<>>]

Require(s, cond) == IF cond THEN s ELSE [s EXCEPT !.abort = TRUE]

\* A loop: body(s, k) for k = 0 .. n - 1 in order.
Loop(s, n, body(_, _)) == FoldLeft(body, s, [k \in 1 .. n |-> k - 1])

-----------------------------------------------------------------------------
(* Subimages: values, as in the code.                                      *)

\* subimage_make and subimage_of, lines 330-350.
SubimageOf(im) ==
  [pixels |-> im.pixels, pixel_size |-> im.pixel_size, type |-> im.type,
   containing_width |-> im.width, containing_height |-> im.height,
   from_x |-> 0, from_y |-> 0, width |-> im.width, height |-> im.height]

\* subimage_byte_stride, lines 314-317.
ByteStride(v) == v.containing_width * v.pixel_size

\* subimage_is_contiguous, lines 352-355.
IsContiguous(v) == (v.from_x = 0 /\ v.width = v.containing_width) \/ v.height <= 1

\* subimage_is_overlapping, lines 357-374.
IsOverlapping(a, b) ==
  LET dx == b.from_x - a.from_x
      dy == b.from_y - a.from_y
  IN /\ a.pixels = b.pixels
     /\ ~(-b.height >= dy \/ dy >= a.height)
     /\ -(b.width * b.pixel_size) < dx /\ dx < a.width * a.pixel_size

\* CHECK_BOUNDS of line 163.
CheckBounds(i, count) == 0 <= i /\ i <= count

\* The CHECK_BOUNDS of subimage_range, lines 379-385.
RangeChecks(v, fx, fy, tx, ty) ==
  /\ CheckBounds(fx, v.width + 1) /\ CheckBounds(fy, v.height + 1)
  /\ CheckBounds(tx, v.width + 1) /\ CheckBounds(ty, v.height + 1)
  /\ CheckBounds(fx, tx) /\ CheckBounds(fy, ty)

\* subimage_range, lines 376-393: the new origin is from_x, from_y, not
\* offset by the view's own origin.
SubimageRange(v, fx, fy, tx, ty) ==
  [v EXCEPT !.from_x = fx, !.from_y = fy, !.width = tx - fx, !.height = ty - fy]

\* subimage_portion, lines 395-398 (and image_portion, 400-403).
SubimagePortion(v, fx, fy, w, h) == SubimageRange(v, fx, fy, fx + w, fy + h)
PortionChecks(v, fx, fy, w, h) == RangeChecks(v, fx, fy, fx + w, fy + h)

\* subimage_at, lines 409-424: the byte offset of pixel (x, y).
SubimageAt(v, x, y) ==
  (x + v.from_x) * v.pixel_size + (y + v.from_y) * ByteStride(v)

-----------------------------------------------------------------------------
(* The functions that change memory.                                       *)

\* subimage_copy, lines 426-466.
SubimageCopy(s, to, from, ox, oy) ==
  LET rowBytes == from.width * from.pixel_size
      tp == SubimagePortion(to, ox, oy, from.width, from.height)
      tptr == SubimageAt(tp, 0, 0)
      fptr == SubimageAt(from, 0, 0)
      s0 == Require(s, /\ from.type = to.type /\ from.pixel_size = to.pixel_size
                       /\ PortionChecks(to, ox, oy, from.width, from.height))
      \* Pointers into different allocations do not overlap, so either
      \* order of the rows gives the same bytes.
      forward == from.pixels # to.pixels \/ fptr >= tptr
      Row(u, y) ==
        LET r == IF forward THEN y ELSE from.height - 1 - y
        IN Memmove(u, to.pixels, tptr + r * ByteStride(to),
                      from.pixels, fptr + r * ByteStride(from), rowBytes)
  IN IF from.width = 0 \/ from.height = 0 THEN s
     ELSE IF IsContiguous(tp) /\ IsContiguous(from)
     THEN Memmove(s0, to.pixels, tptr, from.pixels, fptr, rowBytes * tp.width)
     ELSE Loop(s0, from.height, Row)

\* image_deinit, lines 268-273 (and image_init_unshaped, 283-287).
ImageDeinit(s, i) ==
  LET s1 == IF s.img[i].capacity # 0 THEN Free(s, s.img[i].pixels) ELSE s
  IN [s1 EXCEPT !.img[i] = ZeroImage]

\* image_init, lines 275-281: no pixels, of the given pixel size and type.
ImageInit(s, i, ps, type) ==
  [ImageDeinit(s, i) EXCEPT !.img[i].pixel_size = ps, !.img[i].type = type]

\* Mutant: image_reshape that never frees the old pixels.
ImageReshapeLeaky(s, i, w, h, ps, type, data) ==
  LET needed == w * h * ps
      nb == NewBuf(s)
      s1 == IF needed > s.img[i].capacity
            THEN [Alloc(s, nb, needed) EXCEPT !.img[i].pixels = nb, !.img[i].capacity = needed]
            ELSE s
      s2 == IF data.b # NULL
            THEN Memmove(Require(s1, s1.img[i].capacity >= needed),
                         s1.img[i].pixels, 0, data.b, data.o, needed)
            ELSE s1
  IN [s2 EXCEPT !.img[i].width = w, !.img[i].height = h,
                !.img[i].pixel_size = ps, !.img[i].type = type]

\* Mutant: image_reshape that makes room for one pixel more.
ImageReshapeExtraPixel(s, i, w, h, ps, type, data) ==
  LET needed == (w * h + 1) * ps
      im == s.img[i]
      nb == NewBuf(s)
      s1 == IF needed > im.capacity
            THEN LET a == Free(Alloc(s, nb, needed), IF im.capacity # 0 THEN im.pixels ELSE NULL)
                 IN [a EXCEPT !.img[i].pixels = nb, !.img[i].capacity = needed]
            ELSE s
      s2 == IF data.b # NULL
            THEN Memmove(Require(s1, s1.img[i].capacity >= needed),
                         s1.img[i].pixels, 0, data.b, data.o, needed)
            ELSE s1
  IN [s2 EXCEPT !.img[i].width = w, !.img[i].height = h,
                !.img[i].pixel_size = ps, !.img[i].type = type]

\* image_reshape, lines 507-533; data is a pointer or NULL.
ImageReshape(s, i, w, h, ps, type, data) ==
  LET needed == w * h * ps
      im == s.img[i]
      nb == NewBuf(s)
      s1 == IF needed > im.capacity
            THEN LET a == Free(Alloc(s, nb, needed), IF im.capacity # 0 THEN im.pixels ELSE NULL)
                 IN [a EXCEPT !.img[i].pixels = nb, !.img[i].capacity = needed]
            ELSE s
      s2 == IF data.b # NULL
            THEN Memmove(Require(s1, s1.img[i].capacity >= needed),
                         s1.img[i].pixels, 0, data.b, data.o, needed)
            ELSE s1
  IN [s2 EXCEPT !.img[i].width = w, !.img[i].height = h,
                !.img[i].pixel_size = ps, !.img[i].type = type]

NoData == [b |-> NULL, o |-> 0]

\* image_init_sized, lines 289-296.
ImageInitSized(s, i, w, h, ps, type, data) ==
  LET s1 == ImageReshape(ImageDeinit(s, i), i, w, h, ps, type, data)
  IN IF data.b = NULL
     THEN Memset(s1, s1.img[i].pixels, 0, 0, s1.img[i].capacity)
     ELSE s1

\* image_copy, lines 580-583.
ImageCopy(s, i, from, ox, oy) == SubimageCopy(s, SubimageOf(s.img[i]), from, ox, oy)

\* image_assign, lines 535-539: the reshape copies from.pixels, the start
\* of the containing image, and then image_copy copies the view.
ImageAssign(s, i, from) ==
  ImageCopy(ImageReshape(s, i, from.width, from.height, from.pixel_size, from.type,
                         [b |-> from.pixels, o |-> 0]),
            i, from, 0, 0)

\* image_from_subimage, lines 469-477, returning into the caller's i.
ImageFromSubimage(s, i, view) ==
  LET s1 == ImageReshape([s EXCEPT !.img[i] = ZeroImage], i, view.width, view.height,
                         view.pixel_size, view.type, NoData)
  IN ImageCopy(s1, i, view, 0, 0)

\* image_from_image, lines 479-485, returning into the caller's i.
ImageFromImage(s, i, j) ==
  ImageAssign([s EXCEPT !.img[i] = ZeroImage], i, SubimageOf(s.img[j]))

\* Mutant: image_reserve that frees the old pixels before it copies them.
ImageReserveFreeFirst(s, i, capacity) ==
  LET im == s.img[i]
      nb == NewBuf(s)
      s1 == IF im.capacity # 0 THEN Free(Alloc(s, nb, capacity), im.pixels) ELSE Alloc(s, nb, capacity)
      s2 == Memmove(s1, nb, 0, im.pixels, 0, ImageByteSize(im))
  IN IF capacity > im.capacity
     THEN [s2 EXCEPT !.img[i].pixels = nb, !.img[i].capacity = capacity]
     ELSE s

\* image_reserve, lines 487-505: allocate, copy, then free the old pixels.
ImageReserve(s, i, capacity) ==
  LET im == s.img[i]
      nb == NewBuf(s)
      s1 == Memmove(Alloc(s, nb, capacity), nb, 0, im.pixels, 0, ImageByteSize(im))
      s2 == IF im.capacity # 0 THEN Free(s1, im.pixels) ELSE s1
  IN IF capacity > im.capacity
     THEN [s2 EXCEPT !.img[i].pixels = nb, !.img[i].capacity = capacity]
     ELSE s

\* image_resize, lines 541-578.
ImageResize(s, i, w, h) ==
  LET s0 == IF s.img[i].pixel_size = 0
            THEN [Require(s, s.img[i].width = 0 /\ s.img[i].height = 0)
                    EXCEPT !.img[i].pixel_size = PixelTypeSize(s.img[i].type)]
            ELSE s
      im == s0.img[i]
      newSize == w * h * im.pixel_size
      grow == newSize > im.capacity
      nb == NewBuf(s0)
      s1 == IF grow THEN Memset(Alloc(s0, nb, newSize), nb, 0, 0, newSize) ELSE s0
      new == [im EXCEPT !.width = w, !.height = h,
                        !.pixels = IF grow THEN nb ELSE @,
                        !.capacity = IF grow THEN newSize ELSE @]
      to == SubimageOf(new)
      from == [SubimageOf(im) EXCEPT !.width = Min({@, to.width}),
                                     !.height = Min({@, to.height})]
      s2 == SubimageCopy(s1, to, from, 0, 0)
      s3 == IF grow THEN Free(s2, im.pixels) ELSE s2
  IN IF s.img[i].width = w /\ s.img[i].height = h THEN s
     ELSE [s3 EXCEPT !.img[i] = new]

\* subimage_convert, lines 585-628.
SubimageConvert(s, to, from, ox, oy, pad) ==
  LET tp == SubimagePortion(to, ox, oy, from.width, from.height)
      size == Min({from.pixel_size, to.pixel_size})
      s0 == Require(s, /\ ~IsOverlapping(to, from) /\ from.type = to.type
                       /\ PortionChecks(to, ox, oy, from.width, from.height))
      Row(u, y) ==
        LET toRow == SubimageAt(tp, 0, y)
            fromRow == SubimageAt(from, 0, y)
            padded == IF pad # -1 /\ from.pixel_size < to.pixel_size
                      THEN Memset(u, to.pixels, toRow, pad, tp.width * tp.pixel_size)
                      ELSE u
            Pixel(t, x) == Memmove(t, to.pixels, toRow + x * tp.pixel_size,
                                      from.pixels, fromRow + x * from.pixel_size, size)
        IN Loop(padded, from.width, Pixel)
  IN IF from.width = 0 \/ from.height = 0 THEN s
     ELSE IF from.type = to.type /\ from.pixel_size = to.pixel_size
     THEN SubimageCopy(s, to, from, ox, oy)
     ELSE Loop(s0, from.height, Row)

\* Swaps n bytes at a and at b of buffer buf through the caller's temp.
Swap(s, buf, a, b, n) ==
  Memmove(Memmove(Memmove(s, TEMP, 0, buf, a, n), buf, a, buf, b, n), buf, b, TEMP, 0, n)

\* subimage_flip_y_inplace, lines 630-642: rows of ByteStride bytes, the
\* containing image's row, swapped from the view's left edge.  The caller
\* passes a temp of Len(TempInit) bytes.
SubimageFlipYInplace(s, v) ==
  LET rowSize == ByteStride(v)
      Row(u, y) == Swap(u, v.pixels, SubimageAt(v, 0, y), SubimageAt(v, 0, v.height - y - 1), rowSize)
  IN Loop(Require(s, Len(TempInit) >= rowSize), v.height \div 2, Row)

\* subimage_flip_x_inplace, lines 644-676 (every case of the switch is the
\* same loop with size = pixel_size).
SubimageFlipXInplace(s, v) ==
  LET size == v.pixel_size
      base == SubimageAt(v, 0, 0)
      Row(u, y) ==
        LET row == base + ByteStride(v) * y
            Pixel(t, x) == Swap(t, v.pixels, row + size * x, row + size * (v.width - x - 1), size)
        IN Loop(u, v.width \div 2, Pixel)
  IN Loop(Require(s, size <= Len(TempInit)), v.height, Row)

\* Mutant: subimage_flip_y that writes row y to row height - y.
SubimageFlipYRowOffByOne(s, to, from, ox, oy) ==
  LET tp == SubimagePortion(to, ox, oy, from.width, from.height)
      s0 == Require(s, /\ ~IsOverlapping(to, from) /\ to.pixel_size = from.pixel_size
                       /\ PortionChecks(to, ox, oy, from.width, from.height))
      Row(u, y) == Memmove(u, to.pixels, SubimageAt(tp, 0, tp.height - y),
                              from.pixels, SubimageAt(from, 0, y), tp.width * tp.pixel_size)
  IN Loop(s0, tp.height, Row)

\* subimage_flip_y, lines 678-687.
SubimageFlipY(s, to, from, ox, oy) ==
  LET tp == SubimagePortion(to, ox, oy, from.width, from.height)
      s0 == Require(s, /\ ~IsOverlapping(to, from) /\ to.pixel_size = from.pixel_size
                       /\ PortionChecks(to, ox, oy, from.width, from.height))
      Row(u, y) == Memmove(u, to.pixels, SubimageAt(tp, 0, tp.height - y - 1),
                              from.pixels, SubimageAt(from, 0, y), tp.width * tp.pixel_size)
  IN Loop(s0, tp.height, Row)

\* Mutant: subimage_flip_x that copies each pixel to x, not width - x - 1.
SubimageFlipXUnmirrored(s, to, from, ox, oy) ==
  LET tp == SubimagePortion(to, ox, oy, from.width, from.height)
      s0 == Require(s, /\ ~IsOverlapping(to, from) /\ to.pixel_size = from.pixel_size
                       /\ PortionChecks(to, ox, oy, from.width, from.height))
      Row(u, y) ==
        LET Pixel(t, x) == Memmove(t, to.pixels, SubimageAt(tp, 0, y) + tp.pixel_size * x,
                                      from.pixels, SubimageAt(from, 0, y) + tp.pixel_size * x,
                                      tp.pixel_size)
        IN Loop(u, tp.width, Pixel)
  IN Loop(s0, tp.height, Row)

\* subimage_flip_x, lines 689-718.
SubimageFlipX(s, to, from, ox, oy) ==
  LET tp == SubimagePortion(to, ox, oy, from.width, from.height)
      size == tp.pixel_size
      s0 == Require(s, /\ ~IsOverlapping(to, from) /\ to.pixel_size = from.pixel_size
                       /\ PortionChecks(to, ox, oy, from.width, from.height))
      Row(u, y) ==
        LET fromRow == SubimageAt(from, 0, y)
            toRow == SubimageAt(tp, 0, y)
            Pixel(t, x) == Memmove(t, to.pixels, toRow + size * (tp.width - x - 1),
                                      from.pixels, fromRow + size * x, size)
        IN Loop(u, tp.width, Pixel)
  IN Loop(s0, tp.height, Row)

-----------------------------------------------------------------------------
(* The caller: one call per step, on its Images and on views it takes of  *)
(* them with image_range (lines 404-407), with arguments inside the       *)
(* images as the functions' comments ask.                                 *)

State == [img |-> img, mem |-> mem, live |-> live, fault |-> fault, abort |-> FALSE]

\* The caller makes call op, one of its calls.
Calling(op) == op \in Ops /\ calls < MaxCalls

\* The call returns; the caller's temp array goes out of scope.  last
\* records the call and its arguments, in terms of pictures.
Call(op, args, s) ==
  /\ ~s.abort
  /\ last' = [op |-> op, args |-> args]
  /\ calls' = calls + 1
  /\ img' = s.img
  /\ mem' = [s.mem EXCEPT ![TEMP] = TempInit]
  /\ live' = s.live
  /\ fault' = s.fault

\* View v of image j as a rectangle of its picture.
ViewRect(j, v) == [img |-> j, fx |-> v.from_x, fy |-> v.from_y, w |-> v.width, h |-> v.height]

\* image_range(img[i], fx, fy, tx, ty) with 0 <= fx <= tx <= width and
\* 0 <= fy <= ty <= height.
Views(i) ==
  LET im == img[i]
      R == {r \in (0 .. im.width) \X (0 .. im.height) \X (0 .. im.width) \X (0 .. im.height) :
              r[1] <= r[3] /\ r[2] <= r[4]}
  IN {SubimageRange(SubimageOf(im), r[1], r[2], r[3], r[4]) : r \in R}

\* The views a call writes into.
Targets(i) == Views(i)

Data == {NoData, [b |-> DATA, o |-> 0]}

\* The offsets at which from fits inside to.
Offsets(to, from) == (0 .. to.width - from.width) \X (0 .. to.height - from.height)

Init ==
  /\ img = [i \in Images |-> ZeroImage]
  /\ mem = [b \in Bufs \cup {DATA, TEMP} |->
              IF b = DATA THEN Pattern ELSE IF b = TEMP THEN TempInit ELSE <<>>]
  /\ live = {DATA, TEMP}
  /\ fault = {}
  /\ calls = 0
  /\ last = [op |-> "none", args |-> <<>>]

InitSized ==
  /\ Calling("init_sized")
  /\ \E i \in Images, w, h \in Dims, ps \in PixelSizes, d \in Data :
       Call("init_sized", <<i, w, h, ps, d # NoData>>, ImageInitSized(State, i, w, h, ps, PIXEL_TYPE_U8, d))

InitTyped ==
  /\ Calling("init")
  /\ \E i \in Images, ps \in PixelSizes :
       Call("init", <<i, ps>>, ImageInit(State, i, ps, PIXEL_TYPE_U8))

Reshape ==
  /\ Calling("reshape")
  /\ \E i \in Images, w, h \in Dims, ps \in PixelSizes :
       Call("reshape", <<i, w, h, ps>>, ImageReshape(State, i, w, h, ps, PIXEL_TYPE_U8, NoData))

Reserve ==
  /\ Calling("reserve")
  /\ \E i \in Images, c \in ReserveSizes : Call("reserve", <<i, c>>, ImageReserve(State, i, c))

Resize ==
  /\ Calling("resize")
  /\ \E i \in Images, w, h \in Dims : Call("resize", <<i, w, h>>, ImageResize(State, i, w, h))

Deinit == Calling("deinit") /\ \E i \in Images : Call("deinit", <<i>>, ImageDeinit(State, i))

Copy ==
  /\ Calling("copy")
  /\ \E i, j \in Images : \E v \in Views(j) : \E o \in Offsets(SubimageOf(img[i]), v) :
       Call("copy", <<ViewRect(i, SubimageOf(img[i])), ViewRect(j, v), o[1], o[2]>>,
            ImageCopy(State, i, v, o[1], o[2]))

Assign ==
  /\ Calling("assign")
  /\ \E i, j \in Images : \E v \in Views(j) :
       Call("assign", <<i, ViewRect(j, v)>>, ImageAssign(State, i, v))

\* image_from_subimage and image_from_image return a new Image; the caller
\* stores it in an Image that owns no pixels.
FromSubimage ==
  /\ Calling("from_subimage")
  /\ \E i, j \in Images : \E v \in Views(j) :
       img[i].capacity = 0 /\ Call("from_subimage", <<i, ViewRect(j, v)>>, ImageFromSubimage(State, i, v))

FromImage ==
  /\ Calling("from_image")
  /\ \E i, j \in Images :
       /\ img[i].capacity = 0
       /\ Call("from_image", <<i, ViewRect(j, SubimageOf(img[j]))>>, ImageFromImage(State, i, j))

\* A call from view v of image j into view t of image i at offset o.
Between(op, i, t, j, v, o, s) == Call(op, <<ViewRect(i, t), ViewRect(j, v), o[1], o[2]>>, s)

SubCopy ==
  /\ Calling("subimage_copy")
  /\ \E i, j \in Images : \E v \in Views(j) : \E t \in Targets(i) : \E o \in Offsets(t, v) :
       Between("subimage_copy", i, t, j, v, o, SubimageCopy(State, t, v, o[1], o[2]))

Convert ==
  /\ Calling("convert")
  /\ \E i, j \in Images, p \in PadValues : \E v \in Views(j) : \E t \in Targets(i) : \E o \in Offsets(t, v) :
       Call("convert", <<ViewRect(i, t), ViewRect(j, v), o[1], o[2], p>>,
            SubimageConvert(State, t, v, o[1], o[2], p))

FlipY ==
  /\ Calling("flip_y")
  /\ \E i, j \in Images : \E v \in Views(j) : \E t \in Targets(i) : \E o \in Offsets(t, v) :
       Between("flip_y", i, t, j, v, o, SubimageFlipY(State, t, v, o[1], o[2]))

FlipX ==
  /\ Calling("flip_x")
  /\ \E i, j \in Images : \E v \in Views(j) : \E t \in Targets(i) : \E o \in Offsets(t, v) :
       Between("flip_x", i, t, j, v, o, SubimageFlipX(State, t, v, o[1], o[2]))

FlipYInplace ==
  /\ Calling("flip_y_inplace")
  /\ \E i \in Images : \E t \in Targets(i) :
       Call("flip_y_inplace", <<ViewRect(i, t)>>, SubimageFlipYInplace(State, t))

FlipXInplace ==
  /\ Calling("flip_x_inplace")
  /\ \E i \in Images : \E t \in Targets(i) :
       Call("flip_x_inplace", <<ViewRect(i, t)>>, SubimageFlipXInplace(State, t))

\* The caller has made its calls.
Done == calls = MaxCalls /\ UNCHANGED vars

Next ==
  \/ InitTyped \/ InitSized \/ Reshape \/ Reserve \/ Resize \/ Deinit
  \/ Copy \/ Assign \/ FromSubimage \/ FromImage \/ SubCopy \/ Convert
  \/ FlipY \/ FlipX \/ FlipYInplace \/ FlipXInplace
  \/ Done

Spec == Init /\ [][Next]_vars

-----------------------------------------------------------------------------
(* Properties.                                                             *)

ImageRecord ==
  [pixels : Bufs \cup {NULL}, pixel_size : 0 .. Max(PixelSizes), type : {PIXEL_TYPE_NONE, PIXEL_TYPE_U8},
   width : Dims, height : Dims, capacity : 0 .. MaxBytes]

TypeOK ==
  /\ img \in [Images -> ImageRecord]
  /\ live \subseteq Bufs \cup {DATA, TEMP}
  /\ fault \subseteq {"dangling", "out_of_bounds"}
  /\ DOMAIN mem = Bufs \cup {DATA, TEMP}
  /\ calls \in 0 .. MaxCalls
  /\ last.op \in Ops \cup {"none"}

\* Every allocation the heap holds belongs to exactly one Image, which
\* records its size as capacity and fits its pixels in it: no call leaks
\* an allocation, frees one an Image still points to, or gives two Images
\* the same pixels (image_reshape, image_reserve and image_resize swap the
\* pixels, image_deinit frees them).
BuffersOwned ==
  /\ \A i \in Images : img[i].capacity # 0 =>
       /\ img[i].pixels \in live
       /\ Len(mem[img[i].pixels]) = img[i].capacity
       /\ ImageByteSize(img[i]) <= img[i].capacity
  /\ \A i \in Images : img[i].capacity = 0 => ImageByteSize(img[i]) = 0
  /\ \A b \in live \ {DATA, TEMP} :
       \E i \in Images : img[i].capacity # 0 /\ img[i].pixels = b
  /\ \A i, j \in Images :
       i # j /\ img[i].capacity # 0 /\ img[j].capacity # 0 => img[i].pixels # img[j].pixels

\* No call reads or writes an allocation after it was freed: image_reserve
\* ("this weird realloc is on purpose to allow copying from self to self"),
\* image_resize and image_reshape copy out of the old pixels before they
\* free them, and image_assign from a view of the same image never frees.
NoDanglingAccess == "dangling" \notin fault

\* Every byte a call touches lies inside a live allocation.
InBounds == "out_of_bounds" \notin fault

\* The picture each Image shows, read with image_at.
Picture(im) ==
  [w |-> im.width, h |-> im.height, ps |-> im.pixel_size,
   px |-> [c \in (0 .. im.width - 1) \X (0 .. im.height - 1) |->
             [k \in 1 .. im.pixel_size |-> Byte(State, im.pixels, ImageAt(im, c[1], c[2]) + k - 1)]]]

Abs == INSTANCE ImageGrid WITH grid <- [i \in Images |-> Picture(img[i])], call <- last

\* Every call does to the pictures what its comment in the header says.
ImageRefinement == Abs!ASpec

=============================================================================
