----------------------------- MODULE MCSel4Ipc -----------------------------
(* Every system call of three threads over two endpoints. *)
EXTENDS Sel4Ipc, TLC

Symmetry == Permutations(Threads)
=============================================================================
