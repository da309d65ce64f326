----------------------------- MODULE MCDmaPool -----------------------------
(* Three pages, of which the first two are contiguous in both address spaces,
   the last two in one, and so are the third and the first. *)
EXTENDS DmaPool

ThreePages == <<6, 7, 5>>
=============================================================================
