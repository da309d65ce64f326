----------------------------- MODULE Sel4Zombie -----------------------------
(***************************************************************************)
(* Deletion of CNodes (kernel/src/object/cnode.c: cteDelete, finaliseSlot, *)
(* reduceZombie).                                                          *)
(*                                                                         *)
(* The last capability to a CNode becomes a zombie, which counts the slots *)
(* still to be emptied; these may hold the last capability to another      *)
(* CNode, or to one that holds the zombie itself.  The work is done in     *)
(* steps between which it may be preempted, when other threads see and     *)
(* move what is left of it.  The kernel functions are operators on a       *)
(* record st of the slots, the steps left before the preemption, how they  *)
(* returned and whether an assertion has failed.                           *)
(***************************************************************************)
EXTENDS Naturals, FiniteSets, FiniteSetsExt

CONSTANTS
    RootSlots,   \* slots of a CNode that is never deleted
    CNodes,      \* CNode objects made from one untyped region, which has
    Size,        \* slots each
    MaxSteps     \* steps before a preemption; bounds the state space

ASSUME ZombieAssumption == Size \in Nat /\ Size > 1 /\ MaxSteps \in Nat

Slots == RootSlots \cup (CNodes \X (0 .. Size - 1))

Null == [type |-> "null"]
CNode(x) == [type |-> "cnode", obj |-> x]
Zombie(x, n) == [type |-> "zombie", obj |-> x, n |-> n]

Caps == {Null} \cup {CNode(x) : x \in CNodes} \cup {Zombie(x, n) : x \in CNodes, n \in 0 .. Size}

VARIABLES
    cap,        \* the capability in each slot
    revoking,   \* the untyped region the CNodes were made from is being revoked
    failed      \* an assertion of reduceZombie has failed

vars == <<cap, revoking, failed>>

(* The CNodes have just been made, each capability in a slot of the root. *)
Init ==
    /\ \E root \in [CNodes -> RootSlots] :
          /\ \A x, y \in CNodes : root[x] = root[y] => x = y
          /\ cap = [s \in Slots |-> IF \E x \in CNodes : root[x] = s
                                   THEN CNode(CHOOSE x \in CNodes : root[x] = s) ELSE Null]
    /\ revoking = FALSE
    /\ failed = FALSE

----------------------------------------------------------------------------
(* The slot a zombie counts from. *)
ZombiePtr(z) == <<z.obj, 0>>

(* Variant: copies that lie elsewhere are not seen. *)
FinalAlways(c, s) == TRUE

isFinal(c, s) == \A x \in Slots \ {s} : c[x] # c[s]

(* finaliseCap: what remains in the slot while the object is taken apart. *)
Remainder(c, s) ==
    CASE c[s].type = "zombie" -> c[s]
      [] c[s].type = "cnode" /\ isFinal(c, s) -> Zombie(c[s].obj, Size)
      [] OTHER -> Null

(* Variant: a zombie of one slot is always done with. *)
RemovableEarly(z, s) == z = Null \/ z.n <= 1

capRemovable(z, s) == z = Null \/ z.n = 0 \/ (z.n = 1 /\ s = ZombiePtr(z))

capCyclicZombie(z, s) == z.type = "zombie" /\ ZombiePtr(z) = s

capSwapForDelete(c, s1, s2) == [c EXCEPT ![s1] = c[s2], ![s2] = c[s1]]

(* Variant: the emptied slot is not counted off. *)
CountKept(z) == z

CountDown(z) == [z EXCEPT !.n = @ - 1]

Asserting(st, holds) == [st EXCEPT !.failed = @ \/ ~holds]

RECURSIVE finaliseSlot(_, _, _), reduceZombie(_, _, _)

cteDelete(st, s, exposed) ==
    LET fs == finaliseSlot(st, s, exposed)
    IN  IF fs.status = "none" /\ (exposed \/ fs.success)
        THEN [fs EXCEPT !.c[s] = Null] ELSE fs

finaliseSlot(st, s, immediate) ==
    IF st.c[s] = Null \/ capRemovable(Remainder(st.c, s), s)
    THEN [st EXCEPT !.success = TRUE]
    ELSE LET zombie == [st EXCEPT !.c[s] = Remainder(st.c, s)]
             reduced == reduceZombie(zombie, s, immediate)
         IN  IF ~immediate /\ capCyclicZombie(zombie.c[s], s) THEN [zombie EXCEPT !.success = FALSE]
             ELSE IF reduced.status # "none" THEN reduced
             ELSE IF reduced.steps = 0 THEN [reduced EXCEPT !.status = "preempted"]
             ELSE finaliseSlot([reduced EXCEPT !.steps = @ - 1], s, immediate)

(* The zombie in s is made smaller by the slot at its end; or, if it was only
   met on the way, put aside into the first slot of its own CNode. *)
reduceZombie(st, s, immediate) ==
    LET z == st.c[s]
        ptr == ZombiePtr(z)
        end == <<z.obj, z.n - 1>>
        deleted == cteDelete(st, end, FALSE)
        left == deleted.c[s]
    IN  IF immediate
        THEN IF deleted.status # "none" \/ left = Null THEN deleted
             ELSE IF left = z
                  THEN Asserting([deleted EXCEPT !.c[s] = CountDown(z)], deleted.c[end] = Null)
             ELSE Asserting(deleted, left.type = "zombie" /\ ZombiePtr(left) = s /\ ptr # s)
        ELSE Asserting([st EXCEPT !.c = capSwapForDelete(st.c, ptr, s)],
                       ptr # s /\ ~capCyclicZombie(st.c[ptr], ptr))

----------------------------------------------------------------------------
(* The slots a thread with a capability to the root can name: those of the
   CNodes it can reach through CNode capabilities. *)
Addressable(c) ==
    LET reach[n \in 0 .. Cardinality(CNodes)] ==
            IF n = 0 THEN RootSlots
            ELSE reach[n - 1] \cup {s \in Slots \ RootSlots : \E x \in reach[n - 1] : c[x] = CNode(s[1])}
    IN  reach[Cardinality(CNodes)]

(* More steps than any deletion takes. *)
Enough == Cardinality(CNodes) * (Size + 2)

(* A deletion is preempted early or not at all; one preempted late comes about
   as one that is preempted early and made again. *)
Preemptions == (0 .. MaxSteps) \cup {Enough}

(* What deleting the capability in s comes to when the kernel is preempted at
   the preemption point number n, if it gets there. *)
Deleted(s, n) ==
    cteDelete([c |-> cap, steps |-> n, status |-> "none", success |-> TRUE, failed |-> FALSE], s, TRUE)

DeleteWithin(s, n) ==
    /\ cap[s] # Null
    /\ LET st == Deleted(s, n) IN cap' = st.c /\ failed' = (failed \/ st.failed)
    /\ UNCHANGED revoking

(* seL4_CNode_Delete *)
Delete(s) == ~revoking /\ s \in Addressable(cap) /\ \E n \in Preemptions : DeleteWithin(s, n)

(* seL4_CNode_Copy: a zombie cannot be copied. *)
Copy(s, d) ==
    /\ ~revoking
    /\ {s, d} \subseteq Addressable(cap)
    /\ cap[s].type = "cnode" /\ cap[d] = Null
    /\ cap' = [cap EXCEPT ![d] = cap[s]]
    /\ UNCHANGED <<revoking, failed>>

(* seL4_CNode_Move, which moves zombies as well *)
Move(s, d) ==
    /\ ~revoking
    /\ {s, d} \subseteq Addressable(cap)
    /\ cap[s] # Null /\ cap[d] = Null
    /\ cap' = [cap EXCEPT ![d] = cap[s], ![s] = Null]
    /\ UNCHANGED <<revoking, failed>>

(* seL4_CNode_Rotate of two slots *)
Swap(s, p) ==
    /\ ~revoking
    /\ {s, p} \subseteq Addressable(cap) /\ s # p
    /\ Null \notin {cap[s], cap[p]}
    /\ cap' = capSwapForDelete(cap, s, p)
    /\ UNCHANGED <<revoking, failed>>

(* seL4_CNode_Revoke of the untyped capability *)
StartRevoke ==
    /\ ~revoking
    /\ revoking' = TRUE
    /\ UNCHANGED <<cap, failed>>

(* The untyped region is revoked: what cteRevoke meets is deleted wherever it
   lies, addressable or not; if preempted the call is made again.  Other
   threads, which could copy as fast as it deletes, leave the region alone
   meanwhile. *)
RevokeNext == revoking /\ \E s \in Slots, n \in Preemptions : DeleteWithin(s, n)

Revoked ==
    /\ revoking /\ \A s \in Slots : cap[s] = Null
    /\ UNCHANGED vars

Next ==
    \/ \E s \in Slots : Delete(s) \/ (\E d \in Slots : Copy(s, d) \/ Move(s, d) \/ Swap(s, d))
    \/ StartRevoke \/ RevokeNext \/ Revoked

Spec == Init /\ [][Next]_vars

----------------------------------------------------------------------------
(* The assertions in reduceZombie ("Cyclic zombie passed to unexposed
   reduceZombie", "Moving self-referential Zombie aside", "Expected new Zombie
   to be self-referential", ...), under every nesting of CNodes in each other
   and in themselves and every preemption. *)
AssertionsHold == ~failed

(* A zombie is the only capability to its CNode, of which the slots it no
   longer counts are empty; a CNode to which no capability is left is empty.
   So memory is never reused while capabilities lie in it, although zombies
   are preempted, moved by other threads and put into the CNodes they count. *)
NothingLeftBehind ==
    \A x \in CNodes :
        LET names == {s \in Slots : cap[s].type \in {"cnode", "zombie"} /\ cap[s].obj = x}
            zombies == {s \in names : cap[s].type = "zombie"}
        IN  /\ zombies # {} => names = zombies /\ Cardinality(names) = 1
            /\ \A s \in zombies : \A i \in cap[s].n .. Size - 1 : cap[<<x, i>>] = Null
            /\ names = {} => \A i \in 0 .. Size - 1 : cap[<<x, i>>] = Null

(* Deleting a capability changes no other slot that can still be named: only
   what was reachable through it alone is taken apart, whatever is swapped. *)
DeletionIsLocal ==
    ~revoking => \A s \in Addressable(cap), n \in Preemptions :
        LET after == Deleted(s, n).c
        IN  \A d \in Addressable(after) \ {s} : after[d] = cap[d]

(* The recursion of cteDelete, finaliseSlot and reduceZombie ends, also
   for CNodes that contain each other. *)
DeletionEnds == \A s \in Slots : Deleted(s, Enough).status = "none"

(* What is still to be done for the capabilities in c: a capability is counted
   down as a zombie, which may first be put aside into its own CNode. *)
Remaining(c) ==
    LET weight(s) == CASE c[s] = Null -> 0
                       [] c[s].type = "cnode" -> Size + 3
                       [] OTHER -> c[s].n + (IF capCyclicZombie(c[s], s) THEN 1 ELSE 2)
    IN  MapThenSumSet(weight, Slots)

(* Revoking the untyped region destroys every CNode made from it, those that
   deletions have made unreachable (cspace.tex on container deletion) too, even
   if every single deletion is preempted at once: each leaves less to do, and
   there is one to make as long as anything is left (or TLC reports a
   deadlock). *)
RevocationEnds ==
    revoking => \A s \in Slots, n \in Preemptions :
        cap[s] # Null => Remaining(Deleted(s, n).c) < Remaining(cap)
=============================================================================
