----------------------------- MODULE MCRegions -----------------------------
(* Nine regions of 48 bytes: the sizes of cells are 2, 4, 6, (8), 12, 18,   *)
(* (24), 36 and 54, where no size leads to those in parentheses.  A region  *)
(* is as large as the range of an offset.  The rounding of the inverse      *)
(* loses bytes of the cells of 12, 36 and 54 bytes, the regions of the last *)
(* two start behind their base, and the last cells of 18, 36 and 54 bytes   *)
(* end behind their region.                                                 *)
EXTENDS PageReturn

LargeSizes == {6, 7, 12, 18, 19, 54, 55}
=============================================================================
