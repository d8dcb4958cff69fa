--------------------------- MODULE MCChangeEvidence ---------------------------
(* ChangeEvidence on two rows of four pixels: the whole grid, its left half   *)
(* and a single pixel as areas.                                               *)
EXTENDS ChangeEvidence

MCAreas  == {Pixel, (1 .. 2) \X (1 .. 2), {<<1, 2>>}}
MCMinima == {0, 3, 5}
MCDeltas == {-40, -20, -11, -10, -3, 0, 3, 10, 11, 13, 20, 40}
===============================================================================
