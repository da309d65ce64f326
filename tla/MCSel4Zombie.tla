---------------------------- MODULE MCSel4Zombie ----------------------------
EXTENDS Sel4Zombie, TLC
AnyRootSlot == Permutations(RootSlots) \cup Permutations(CNodes)
=============================================================================
