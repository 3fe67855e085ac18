------------------------------- MODULE MC_Image -------------------------------
(***************************************************************************)
(* Callers of the image functions for TLC.                                 *)
(***************************************************************************)
EXTENDS Image

CONSTANTS A, B

\* Every call of src/image.h that changes memory.
AllOps ==
  {"init", "init_sized", "reshape", "reserve", "resize", "deinit", "copy", "assign",
   "from_subimage", "from_image", "subimage_copy", "convert",
   "flip_y", "flip_x", "flip_y_inplace", "flip_x_inplace"}

\* The calls that never reach subimage_copy.
FlipOps ==
  {"init", "init_sized", "reshape", "reserve", "deinit",
   "flip_y", "flip_x", "flip_y_inplace", "flip_x_inplace"}

\* A caller of image_copy.
CopyOps == {"init_sized", "copy"}

\* A caller that writes only into whole images, views from subimage_of.
\* pad_with_or_minus_one: no padding, or the byte 9.
Pads == {-1, 9}

WholeTargets(i) == {SubimageOf(img[i])}

\* The state without the history variable last, for runs whose invariants
\* do not read it: two states that differ only in the last call's
\* arguments have the same successors.
CallerState == <<img, mem, live, fault, calls, last.op>>

=============================================================================
