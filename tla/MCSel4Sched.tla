---------------------------- MODULE MCSel4Sched ----------------------------
(* Three threads, and three priorities in two words of the bitmap. *)
EXTENDS Sel4Sched
=============================================================================
