------------------------------ MODULE CapTree ------------------------------
(***************************************************************************)
(* What the kernel's manual promises of capability derivation              *)
(* (kernel/manual/parts/cspace.tex, "Capability derivation tree"): the     *)
(* capabilities form a forest.  Copying an original capability makes a     *)
(* child of it, copying any other a sibling; retyping makes children;      *)
(* moving keeps the place in the tree; deleting gives the children to the  *)
(* parent; revoking deletes descendants only.                              *)
(***************************************************************************)
EXTENDS Naturals

CONSTANTS Slots, NoSlot, Empty

VARIABLES
    held,      \* the capability in each slot, or Empty
    parent,    \* the slot of the capability it was derived from, or NoSlot
    original   \* may other capabilities be its children?

vars == <<held, parent, original>>

Full == {s \in Slots : held[s] # Empty}

Init ==
    /\ \A s \in Slots : parent[s] = NoSlot
    /\ \A s \in Slots : original[s] <=> s \in Full

(* The capabilities below s. *)
Below(s) ==
    LET above[x \in Slots \cup {NoSlot}] ==
            IF x = NoSlot THEN {} ELSE {parent[x]} \cup above[parent[x]]
    IN  {x \in Slots : s \in above[x]}

(* New capabilities below the one in s, and nothing else. *)
Retype(s) ==
    /\ s \in Full /\ s \in Full'
    /\ \A x \in Full : held'[x] = held[x]
    /\ parent' = [x \in Slots |-> IF x \in Full' \ Full THEN s ELSE parent[x]]
    /\ original' = [x \in Slots |-> x \in Full' \ Full \/ original[x]]

(* A copy, possibly with another badge, which makes it an original. *)
Derive(s, d) ==
    /\ s \in Full /\ d \notin Full
    /\ held'[d] # Empty
    /\ held' = [held EXCEPT ![d] = held'[d]]
    /\ parent' = [parent EXCEPT ![d] = IF original[s] THEN s ELSE parent[s]]
    /\ original' = [original EXCEPT ![d] = original'[d]]
    /\ held'[d] # held[s] => original'[d]

(* Capabilities change their slots, by a permutation p, and nothing else. *)
Rename(p) ==
    /\ held' = [s \in Slots |-> held[p[s]]]
    /\ original' = [s \in Slots |-> original[p[s]]]
    /\ \A s \in Slots : IF parent[p[s]] = NoSlot THEN parent'[s] = NoSlot
                       ELSE parent'[s] # NoSlot /\ p[parent'[s]] = parent[p[s]]

(* Some capabilities go; what was below them is inherited by the nearest
   above that stays. *)
Remove ==
    LET heir[s \in Slots \cup {NoSlot}] == IF s \in Full \ Full' THEN heir[parent[s]] ELSE s
    IN  /\ held' = [s \in Slots |-> IF s \in Full' THEN held[s] ELSE Empty]
        /\ parent' = [s \in Slots |-> IF s \in Full' THEN heir[parent[s]] ELSE NoSlot]
        /\ original' = [s \in Slots |-> s \in Full' /\ original[s]]

Delete(s) == Full \ Full' = {s} /\ Remove
Revoke(s) == Full \ Full' \subseteq Below(s) /\ Remove

Moves(s, d) == [x \in Slots |-> CASE x = s -> d [] x = d -> s [] OTHER -> x]
Rotates(s, p, d) == [x \in Slots |-> CASE x = d -> p [] x = p -> s [] x = s -> d [] OTHER -> x]

Next ==
    \/ \E s \in Slots : Retype(s) \/ Delete(s) \/ Revoke(s)
    \/ \E s, d \in Slots : Derive(s, d) \/ Rename(Moves(s, d))
    \/ \E s, p, d \in Slots : Rename(Rotates(s, p, d))

Spec == Init /\ [][Next]_vars
=============================================================================
