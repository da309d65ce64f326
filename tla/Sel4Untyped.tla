---------------------------- MODULE Sel4Untyped ----------------------------
(***************************************************************************)
(* Untyped memory, and the derivation and revocation of the capabilities   *)
(* made from it (kernel/src/object/untyped.c, cnode.c).                    *)
(*                                                                         *)
(* Memory is counted in units of the smallest object.  Objects are         *)
(* endpoints and smaller untyped regions: neither is a container, so that  *)
(* deleting a capability is one step (CNodes are in Sel4Zombie).  Slots    *)
(* are names, so the consecutive ones of a retype are any in some order.   *)
(* A system call is one action; one that may be preempted may also end     *)
(* after any number of its preemptible units, and is then made again.      *)
(***************************************************************************)
EXTENDS Sel4Cte

CONSTANTS
    MemBits,     \* the initial untyped regions have BIT[MemBits] units each,
    NumRoots,    \* and there are as many of them
    Badges,      \* badges other than 0
    ChunkBits,   \* units of BIT[ChunkBits] are cleared between preemption points
    FanOut       \* CONFIG_RETYPE_FAN_OUT_LIMIT: objects made by one call

ASSUME UntypedAssumption ==
    /\ MemBits \in Nat /\ ChunkBits \in Nat /\ FanOut \in Nat
    /\ NumRoots \in Nat /\ 0 \notin Badges

VARIABLES
    cte,     \* the capability table entries
    dirty    \* units of memory that may hold something other than zero

vars == <<cte, dirty>>

(* create_untypeds: every initial untyped capability is an original one, in a
   list of its own, and marked as used up: its memory has not been cleared. *)
RootCap(i) == [UntypedCap(BIT[MemBits] * (i - 1), MemBits) EXCEPT !.free = BIT[MemBits]]

Init ==
    /\ \E root \in [1 .. NumRoots -> Slots] :
          /\ \A i, j \in 1 .. NumRoots : root[i] = root[j] => i = j
          /\ cte = [s \in Slots |->
                IF \E i \in 1 .. NumRoots : s = root[i]
                THEN [EmptyEntry EXCEPT !.cap = RootCap(CHOOSE i \in 1 .. NumRoots : s = root[i]),
                                        !.revocable = TRUE, !.firstBadged = TRUE]
                ELSE EmptyEntry]
    /\ dirty = 0 .. NumRoots * BIT[MemBits] - 1

----------------------------------------------------------------------------
alignUp(x, bits) == ((x + BIT[bits] - 1) \div BIT[bits]) * BIT[bits]

(* Where the free memory begins: the watermark, unless nothing that was made
   from the region is left. *)
FreeIndex(s) == IF HasChildren(cte, s) THEN cte[s].cap.free ELSE 0

(* The object made for slot number i of a window. *)
createObject(type, base, bits) ==
    IF type = "untyped" THEN UntypedCap(base, bits) ELSE EndpointCap(base)

(* createNewObjects: each new capability is linked in directly behind its
   parent. *)
createNewObjects(c, parent, window, type, base, bits) ==
    LET after[i \in 0 .. Len(window)] ==
            IF i = 0 THEN c
            ELSE insertNewCap(after[i - 1], parent, window[i],
                              createObject(type, base + (i - 1) * BIT[bits], bits))
    IN  after[Len(window)]

(* The units resetUntypedCap clears: all that the watermark says are used,
   rounded up to whole chunks, or the whole region if it is smaller than one. *)
ResetRegion(cap) ==
    LET unit == IF cap.bits < ChunkBits THEN cap.bits ELSE ChunkBits
    IN  cap.base .. alignUp(cap.base + cap.free, unit) - 1

HasRoom(s, bits, n) == (BIT[cte[s].cap.bits] - FreeIndex(s)) \div BIT[bits] >= n

(* seL4_Untyped_Retype.  There must be room for the objects before they are
   aligned; that there is then room for them aligned is left to arithmetic. *)
Retype(s, type, bits, window) ==
    LET cap == cte[s].cap
        cleared == IF HasChildren(cte, s) THEN {} ELSE ResetRegion(cap)
        base == alignUp(cap.base + FreeIndex(s), bits)
        end == base + Len(window) * BIT[bits]
        marked == [cte EXCEPT ![s].cap.free = end - cap.base]
    IN  /\ cap.type = "untyped"
        /\ HasRoom(s, bits, Len(window))
        /\ \A i \in DOMAIN window : IsEmpty(cte, window[i])
        /\ cte' = createNewObjects(marked, s, window, type, base, bits)
        /\ dirty' = IF type = "untyped" THEN dirty \ cleared ELSE (dirty \ cleared) \cup (base .. end - 1)

(* Variant: the watermark is lowered before the chunk is cleared. *)
ResetSkipsChunk(s) ==
    LET cap == cte[s].cap
        offset == ((cap.free - 1) \div BIT[ChunkBits]) * BIT[ChunkBits]
    IN  /\ cap.type = "untyped" /\ cap.free > 0 /\ cap.bits >= ChunkBits
        /\ ~HasChildren(cte, s)
        /\ \E d \in Slots : IsEmpty(cte, d)
        /\ cte' = [cte EXCEPT ![s].cap.free = offset]
        /\ UNCHANGED dirty

(* The same call, preempted while it clears the region: chunks are cleared
   from the watermark down, and the watermark follows. *)
RetypePreempted(s) ==
    LET cap == cte[s].cap
        last == (cap.free - 1) \div BIT[ChunkBits]
    IN  /\ cap.type = "untyped" /\ cap.free > 0 /\ cap.bits >= ChunkBits
        /\ ~HasChildren(cte, s)
        /\ \E d \in Slots : IsEmpty(cte, d)
        /\ \E k \in 0 .. last :
              LET offset == k * BIT[ChunkBits]
              IN  /\ cte' = [cte EXCEPT ![s].cap.free = offset]
                  /\ dirty' = dirty \ (cap.base + offset .. cap.base + (last + 1) * BIT[ChunkBits] - 1)

----------------------------------------------------------------------------
(* deriveCap: an untyped capability can be copied only while unused. *)
Derivable(s) == cte[s].cap.type = "untyped" => ~HasChildren(cte, s)

(* seL4_CNode_Copy *)
Copy(src, dest) ==
    /\ ~IsEmpty(cte, src) /\ IsEmpty(cte, dest)
    /\ Derivable(src)
    /\ cte' = cteInsert(cte, cte[src].cap, src, dest)
    /\ UNCHANGED dirty

(* seL4_CNode_Mint with a badge, which a badged capability refuses. *)
Mint(src, dest, badge) ==
    /\ cte[src].cap.type = "endpoint" /\ cte[src].cap.badge = 0
    /\ IsEmpty(cte, dest)
    /\ cte' = cteInsert(cte, [cte[src].cap EXCEPT !.badge = badge], src, dest)
    /\ UNCHANGED dirty

(* seL4_CNode_Move; Mutate is refused for endpoint capabilities. *)
Move(src, dest) ==
    /\ ~IsEmpty(cte, src) /\ IsEmpty(cte, dest)
    /\ cte' = cteMove(cte, src, dest)
    /\ UNCHANGED dirty

(* seL4_CNode_Rotate: src goes to pivot and pivot to dest, which may be src.
   updateCapData refuses to preserve the badge of an endpoint capability. *)
Rotate(src, pivot, dest) ==
    /\ cte[src].cap.type = "untyped" /\ cte[pivot].cap.type = "untyped"
    /\ pivot \notin {src, dest}
    /\ IF src = dest
       THEN cte' = cteSwap(cte, src, pivot)
       ELSE /\ IsEmpty(cte, dest)
            /\ cte' = cteMove(cteMove(cte, pivot, dest), src, pivot)
    /\ UNCHANGED dirty

(* seL4_CNode_Delete: no object here is a container. *)
Delete(s) ==
    /\ cte' = emptySlot(cte, s)
    /\ UNCHANGED dirty

(* seL4_CNode_Revoke, completed or preempted after n deletions. *)
Revoke(s) ==
    LET after[n \in 0 .. Cardinality(Slots)] ==
            IF n = 0 THEN cte
            ELSE IF HasChildren(after[n - 1], s) THEN emptySlot(after[n - 1], after[n - 1][s].next)
            ELSE after[n - 1]
    IN  /\ ~IsEmpty(cte, s)
        /\ \E n \in 1 .. Cardinality(Slots) : cte' = after[n]
        /\ UNCHANGED dirty

Windows == {w \in UNION {[1 .. n -> Slots] : n \in 1 .. FanOut} :
               \A i, j \in DOMAIN w : w[i] = w[j] => i = j}

Next ==
    \/ \E s \in Slots, w \in Windows :
          Retype(s, "endpoint", 0, w) \/ (\E bits \in 0 .. MemBits : Retype(s, "untyped", bits, w))
    \/ \E s \in Slots : RetypePreempted(s) \/ Delete(s) \/ Revoke(s)
    \/ \E s, d \in Slots : Copy(s, d) \/ Move(s, d) \/ (\E b \in Badges : Mint(s, d, b))
    \/ \E s, p, d \in Slots : Rotate(s, p, d)

Spec == Init /\ [][Next]_vars

----------------------------------------------------------------------------
Used == {s \in Slots : ~IsEmpty(cte, s)}

(* The slots met when the list is followed from s. *)
Following(s) ==
    LET step[n \in 0 .. Cardinality(Slots)] ==
            IF n = 0 THEN {cte[s].next} ELSE step[n - 1] \cup {cte[x].next : x \in step[n - 1] \ {NoSlot}}
    IN  step[Cardinality(Slots)] \ {NoSlot}

(* The database is a doubly linked list without cycles that links every
   capability and no empty slot, whatever cteInsert, cteMove, cteSwap and
   emptySlot have done to it (also when a swap is of two neighbours). *)
ListWellFormed ==
    /\ \A s \in Slots \ Used : cte[s] = EmptyEntry
    /\ \A s \in Used :
          /\ cte[s].next # NoSlot => cte[s].next \in Used /\ cte[cte[s].next].prev = s
          /\ cte[s].prev # NoSlot => cte[s].prev \in Used /\ cte[cte[s].prev].next = s
          /\ s \notin Following(s)

(* isFinalCapability asks the two neighbours only, and yet is true of just
   those capabilities that are the only one to their object: what decides
   whether an object is destroyed. *)
FinalExact ==
    \A s \in Used :
        isFinalCapability(cte, s) <=>
            \A x \in Used \ {s} : ~sameObjectAs(cte[s].cap, cte[x].cap)

(* Both: neither the list nor the place of copies in it is ever disturbed. *)
ListExact == ListWellFormed /\ FinalExact

(* What cteRevoke of a would delete: the run of entries behind a that would
   be taken for its descendants. *)
Descendants(a) ==
    LET run[x \in Slots \cup {NoSlot}] ==
            IF x = NoSlot \/ ~isMDBParentOf(cte, a, x) THEN {} ELSE {x} \cup run[cte[x].next]
    IN  run[cte[a].next]

(* Two capabilities to overlapping memory are to the same object, or one is
   to untyped memory and would be revoked the other: no memory is ever in use
   twice, and whoever holds an untyped capability can take back all of it.
   Several copies, watermarks reset and re-used, and partial revocations lie
   between a retype and the next of the same memory. *)
MemoryApart ==
    \A a, b \in Used : a # b /\ Region(cte[a].cap) \cap Region(cte[b].cap) # {} =>
        \/ sameObjectAs(cte[a].cap, cte[b].cap)
        \/ cte[a].cap.type = "untyped" /\ b \in Descendants(a)
        \/ cte[b].cap.type = "untyped" /\ a \in Descendants(b)

(* Memory above the watermark of an untyped capability has been cleared: a
   new object never shows what the memory held before, also when clearing was
   preempted (resetUntypedCap) and objects were made in between. *)
FreeMemoryCleared ==
    \A s \in Used : cte[s].cap.type = "untyped" =>
        \A u \in Region(cte[s].cap) : u >= cte[s].cap.base + cte[s].cap.free => u \notin dirty

(* The derivation tree read off the list: the parent is the nearest of those
   above. *)
Parents ==
    LET below == [a \in Slots |-> Descendants(a)]
        above(b) == {a \in Slots : b \in below[a]}
    IN  [b \in Slots |->
            IF above(b) = {} THEN NoSlot
            ELSE CHOOSE a \in above(b) : \A x \in above(b) \ {a} : a \in below[x]]

Tree == INSTANCE CapTree WITH
    Empty <- NullCap,
    held <- [s \in Slots |-> [cte[s].cap EXCEPT !.free = 0]],
    parent <- Parents,
    original <- [s \in Slots |-> cte[s].revocable]

(* The list with its two flags implements the tree of the manual: siblings of
   an original, badges made from the same endpoint and copies of copies keep
   apart although they lie side by side. *)
ImplementsTree == Tree!Spec
=============================================================================
