------------------------------ MODULE ImageGrid ------------------------------
(***************************************************************************)
(* What the image functions of src/image.h promise, stated over pictures, *)
(* from the comments of their declarations (lines 51-148).                 *)
(*                                                                         *)
(* A picture is a width w, a height h, a pixel size ps and px, a function  *)
(* from the cells <<x, y>> to the ps bytes of each pixel.  A view is a     *)
(* rectangle of one of the pictures.  A call reads every pixel it needs    *)
(* before it writes any: copies "can overlap".                             *)
(*                                                                         *)
(* call is the call being made, with its arguments: a step that changes a  *)
(* picture is the action of that call on those arguments.                  *)
(***************************************************************************)
EXTENDS Integers, Sequences

CONSTANTS Images, Pattern

VARIABLES
  grid,   \* the pictures
  call    \* [op, args]: the last call and its arguments

Cells(w, h) == (0 .. w - 1) \X (0 .. h - 1)

Blank == [w |-> 0, h |-> 0, ps |-> 0, px |-> [c \in Cells(0, 0) |-> <<>>]]

\* v = [img, fx, fy, w, h] is a rectangle inside picture v.img.
Rect(v) ==
  /\ v.img \in Images
  /\ 0 <= v.fx /\ v.fx + v.w <= grid[v.img].w
  /\ 0 <= v.fy /\ v.fy + v.h <= grid[v.img].h

\* Rectangle v fits inside rectangle t at (ox, oy).
Fits(t, v, ox, oy) ==
  Rect(t) /\ Rect(v) /\ 0 <= ox /\ ox + v.w <= t.w /\ 0 <= oy /\ oy + v.h <= t.h

PixelSize(v) == grid[v.img].ps

Pix(v, x, y) == grid[v.img].px[<<v.fx + x, v.fy + y>>]

\* Each cell of the rectangle of size v.w x v.h at (ox, oy) in view t
\* becomes f[<<x, y>>] of its coordinates x, y in the rectangle; the rest
\* of t's picture is left alone.
Paste(t, v, ox, oy, f) ==
  LET at == {<<t.fx + ox + c[1], t.fy + oy + c[2]>> : c \in Cells(v.w, v.h)}
  IN grid' = [grid EXCEPT ![t.img].px =
                [c \in DOMAIN @ |-> IF c \in at THEN f[<<c[1] - t.fx - ox, c[2] - t.fy - oy>>]
                                                ELSE @[c]]]

Others(i) == \A j \in Images \ {i} : grid'[j] = grid[j]

\* image_init_sized: filled with the data, row after row, or with zeros.
AInitSized(i, w, h, ps, data) ==
  grid' = [grid EXCEPT ![i] =
             [w |-> w, h |-> h, ps |-> ps,
              px |-> [c \in Cells(w, h) |->
                        [k \in 1 .. ps |-> IF data THEN Pattern[(c[1] + c[2] * w) * ps + k] ELSE 0]]]]

\* image_init: no pixels, of pixel size ps.
AInit(i, ps) == grid' = [grid EXCEPT ![i] = [Blank EXCEPT !.ps = ps]]

\* image_reshape: the new shape; "does not change the content", so the
\* picture is unchanged when the shape is, and otherwise every pixel is
\* whatever bytes were there.
AReshape(i, w, h, ps) ==
  IF <<grid[i].w, grid[i].h, grid[i].ps>> = <<w, h, ps>> THEN UNCHANGED grid
  ELSE /\ grid'[i].w = w /\ grid'[i].h = h /\ grid'[i].ps = ps
       /\ DOMAIN grid'[i].px = Cells(w, h)
       /\ Others(i)

ADeinit(i) == grid' = [grid EXCEPT ![i] = Blank]

\* image_resize: the pixels both shapes have keep their place; an image
\* without a pixel size gets the size of its type, 1 for PIXEL_TYPE_NONE.
AResize(i, w, h) ==
  LET p == grid[i] IN
  IF p.w = w /\ p.h = h THEN UNCHANGED grid
  ELSE /\ grid'[i].w = w /\ grid'[i].h = h
       /\ grid'[i].ps = IF p.ps = 0 THEN 1 ELSE p.ps
       /\ DOMAIN grid'[i].px = Cells(w, h)
       /\ \A c \in Cells(w, h) \cap Cells(p.w, p.h) : grid'[i].px[c] = p.px[c]
       /\ Others(i)

\* image_assign, image_from_image and image_from_subimage: picture i
\* becomes a copy of view v.
AAssign(i, v) ==
  grid' = [grid EXCEPT ![i] = [w |-> v.w, h |-> v.h, ps |-> PixelSize(v),
                               px |-> [c \in Cells(v.w, v.h) |-> Pix(v, c[1], c[2])]]]

\* image_copy and subimage_copy: v is copied into t at (ox, oy).
ACopy(t, v, ox, oy) == Paste(t, v, ox, oy, [c \in Cells(v.w, v.h) |-> Pix(v, c[1], c[2])])

\* subimage_convert: each pixel keeps the first bytes both sizes have,
\* and the bytes a wider pixel has over them are the pad byte, or left
\* alone when pad is -1.
AConvert(t, v, ox, oy, pad) ==
  LET m == IF PixelSize(v) < PixelSize(t) THEN PixelSize(v) ELSE PixelSize(t)
      Old(x, y) == Pix(t, ox + x, oy + y)
  IN Paste(t, v, ox, oy, [c \in Cells(v.w, v.h) |->
       [k \in 1 .. PixelSize(t) |->
          IF k <= m THEN Pix(v, c[1], c[2])[k]
          ELSE IF pad # -1 /\ PixelSize(v) < PixelSize(t) THEN pad ELSE Old(c[1], c[2])[k]]])

\* subimage_flip_x and subimage_flip_y: v mirrored into t at (ox, oy).
AFlipX(t, v, ox, oy) == Paste(t, v, ox, oy, [c \in Cells(v.w, v.h) |-> Pix(v, v.w - 1 - c[1], c[2])])
AFlipY(t, v, ox, oy) == Paste(t, v, ox, oy, [c \in Cells(v.w, v.h) |-> Pix(v, c[1], v.h - 1 - c[2])])

\* subimage_flip_x_inplace and subimage_flip_y_inplace: v mirrored onto
\* itself.
AFlipXInplace(v) == AFlipX(v, v, 0, 0)
AFlipYInplace(v) == AFlipY(v, v, 0, 0)

\* A step that changes a picture is the action of the call made, on its
\* arguments; image_reserve changes no picture.
ANext ==
  LET op == call'.op
      a == call'.args
  IN CASE op = "init_sized" -> AInitSized(a[1], a[2], a[3], a[4], a[5])
       [] op = "init" -> AInit(a[1], a[2])
       [] op = "reshape" -> AReshape(a[1], a[2], a[3], a[4])
       [] op = "deinit" -> ADeinit(a[1])
       [] op = "resize" -> AResize(a[1], a[2], a[3])
       [] op \in {"assign", "from_subimage", "from_image"} -> Rect(a[2]) /\ AAssign(a[1], a[2])
       [] op \in {"copy", "subimage_copy"} -> Fits(a[1], a[2], a[3], a[4]) /\ ACopy(a[1], a[2], a[3], a[4])
       [] op = "convert" -> Fits(a[1], a[2], a[3], a[4]) /\ AConvert(a[1], a[2], a[3], a[4], a[5])
       [] op = "flip_x" -> Fits(a[1], a[2], a[3], a[4]) /\ AFlipX(a[1], a[2], a[3], a[4])
       [] op = "flip_y" -> Fits(a[1], a[2], a[3], a[4]) /\ AFlipY(a[1], a[2], a[3], a[4])
       [] op = "flip_x_inplace" -> Rect(a[1]) /\ AFlipXInplace(a[1])
       [] op = "flip_y_inplace" -> Rect(a[1]) /\ AFlipYInplace(a[1])
       [] OTHER -> FALSE

ASpec == grid = [i \in Images |-> Blank] /\ [][ANext]_grid

=============================================================================
