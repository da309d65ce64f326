---------------------------- MODULE MCSel4Kernel ----------------------------
EXTENDS Sel4Kernel, TLC
Sym == Permutations(Threads)
=============================================================================
