------------------------------ MODULE Sel4Cte ------------------------------
(***************************************************************************)
(* Capability table entries of the seL4 kernel and the mapping database    *)
(* that links them (kernel/src/object/cnode.c, objecttype.c).              *)
(*                                                                         *)
(* The database is one doubly linked list that holds the derivation tree   *)
(* in prefix order: nothing records who was derived from whom except the   *)
(* order and two flags per entry.  The operators below are the kernel's    *)
(* functions, under their names, on an array c of entries.  A capability   *)
(* is the region of memory of its object, the badge of an endpoint and the *)
(* watermark of an untyped region; rights, guards and the architecture's   *)
(* own capabilities are left out.                                          *)
(***************************************************************************)
EXTENDS Naturals, Sequences, FiniteSets

CONSTANTS
    Slots,   \* the capability table entries
    NoSlot   \* a null pointer in the list

ASSUME CteAssumption == NoSlot \notin Slots /\ IsFiniteSet(Slots)

CapTypes == {"null", "untyped", "endpoint"}

NullCap == [type |-> "null", base |-> 0, bits |-> 0, free |-> 0, badge |-> 0]
UntypedCap(base, bits) == [NullCap EXCEPT !.type = "untyped", !.base = base, !.bits = bits]
EndpointCap(base) == [NullCap EXCEPT !.type = "endpoint", !.base = base]

EmptyEntry == [cap |-> NullCap, prev |-> NoSlot, next |-> NoSlot,
               revocable |-> FALSE, firstBadged |-> FALSE]

IsEmpty(c, s) == c[s].cap.type = "null"

(* Sizes are powers of two. *)
BIT[n \in Nat] == IF n = 0 THEN 1 ELSE 2 * BIT[n - 1]

Region(cap) == cap.base .. cap.base + BIT[cap.bits] - 1
Covers(a, b) == a.base <= b.base /\ b.base + BIT[b.bits] <= a.base + BIT[a.bits]

----------------------------------------------------------------------------
sameRegionAs(a, b) ==
    IF a.type = "untyped"
    THEN b.type # "null" /\ Covers(a, b)
    ELSE a.type = "endpoint" /\ b.type = "endpoint" /\ a.base = b.base

sameObjectAs(a, b) == a.type # "untyped" /\ sameRegionAs(a, b)

isCapRevocable(newCap, srcCap) ==
    \/ newCap.type = "endpoint" /\ newCap.badge # srcCap.badge
    \/ newCap.type = "untyped"

(* isMDBParentOf: would b, met in the list after a, be a descendant of a? *)
isMDBParentOf(c, a, b) ==
    /\ c[a].revocable
    /\ sameRegionAs(c[a].cap, c[b].cap)
    /\ \/ c[a].cap.badge = 0
       \/ c[a].cap.badge = c[b].cap.badge /\ ~c[b].firstBadged

HasChildren(c, s) == c[s].next # NoSlot /\ isMDBParentOf(c, s, c[s].next)

(* Is this the only capability to its object?  Only the neighbours are asked. *)
isFinalCapability(c, s) ==
    /\ c[s].prev # NoSlot => ~sameObjectAs(c[c[s].prev].cap, c[s].cap)
    /\ c[s].next # NoSlot => ~sameObjectAs(c[s].cap, c[c[s].next].cap)

----------------------------------------------------------------------------
(* The pointer of a neighbour, where there is one. *)
SetNext(c, s, x) == IF s = NoSlot THEN c ELSE [c EXCEPT ![s].next = x]
SetPrev(c, s, x) == IF s = NoSlot THEN c ELSE [c EXCEPT ![s].prev = x]

(* Variant: an untyped capability that has a copy is still used. *)
InsertNotFull(c, cap, src, dest) ==
    LET revocable == isCapRevocable(cap, c[src].cap)
        entry == [cap |-> cap, prev |-> src, next |-> c[src].next,
                  revocable |-> revocable, firstBadged |-> revocable]
    IN  SetPrev([c EXCEPT ![dest] = entry, ![src].next = dest], c[src].next, dest)

(* cap, a copy of the one in src, is linked in behind it.  An untyped
   capability that has a copy is marked as used up. *)
cteInsert(c, cap, src, dest) ==
    LET revocable == isCapRevocable(cap, c[src].cap)
        full == IF c[src].cap.type = "untyped" /\ cap.type = "untyped"
                THEN [c EXCEPT ![src].cap.free = BIT[c[src].cap.bits]] ELSE c
        entry == [cap |-> cap, prev |-> src, next |-> c[src].next,
                  revocable |-> revocable, firstBadged |-> revocable]
    IN  SetPrev([full EXCEPT ![dest] = entry, ![src].next = dest], c[src].next, dest)

(* A capability made by retyping parent is linked in behind it. *)
insertNewCap(c, parent, dest, cap) ==
    LET entry == [cap |-> cap, prev |-> parent, next |-> c[parent].next,
                  revocable |-> TRUE, firstBadged |-> TRUE]
    IN  SetPrev([c EXCEPT ![dest] = entry, ![parent].next = dest], c[parent].next, dest)

cteMove(c, src, dest) ==
    LET moved == [c EXCEPT ![dest] = c[src], ![src] = EmptyEntry]
    IN  SetPrev(SetNext(moved, c[src].prev, dest), c[src].next, dest)

(* Variant: the second entry is read before the first one's neighbours are
   relinked. *)
SwapReadsEarly(c, s1, s2) ==
    LET c1 == SetPrev(SetNext(c, c[s1].prev, s2), c[s1].next, s2)
        c2 == [c1 EXCEPT ![s1] = c[s2], ![s2] = c[s1]]
    IN  SetPrev(SetNext(c2, c[s2].prev, s1), c[s2].next, s1)

(* cteSwap.  The neighbours of s1 are pointed at s2 first, and only then is
   the entry of s2 read: when the two are neighbours of each other the second
   step relies on what the first has written. *)
cteSwap(c, s1, s2) ==
    LET e1 == c[s1]
        c1 == SetPrev(SetNext(c, e1.prev, s2), e1.next, s2)
        e2 == c1[s2]
        c2 == [c1 EXCEPT ![s1] = e2, ![s2] = e1]
    IN  SetPrev(SetNext(c2, e2.prev, s1), e2.next, s1)

(* Variant: the successor does not inherit the mark of a first badged one. *)
EmptySlotDropsMark(c, s) ==
    IF IsEmpty(c, s) THEN c
    ELSE [SetPrev(SetNext(c, c[s].prev, c[s].next), c[s].next, c[s].prev) EXCEPT ![s] = EmptyEntry]

(* emptySlot: the entry is unlinked, and its successor inherits the mark that
   ends an earlier badge's run of copies. *)
emptySlot(c, s) ==
    IF IsEmpty(c, s) THEN c
    ELSE LET n == c[s].next
             c1 == SetPrev(SetNext(c, c[s].prev, n), n, c[s].prev)
             c2 == IF n = NoSlot THEN c1 ELSE [c1 EXCEPT ![n].firstBadged = @ \/ c[s].firstBadged]
         IN  [c2 EXCEPT ![s] = EmptyEntry]
=============================================================================
