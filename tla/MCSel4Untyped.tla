--------------------------- MODULE MCSel4Untyped ---------------------------
(* Four slots and one untyped region of two units, cleared unit by unit. *)
EXTENDS Sel4Untyped, TLC

AnySlot == Permutations(Slots)
=============================================================================
