---------------------------- MODULE ThreadQueue ----------------------------
(* The doubly linked queues of TCBs (object/tcb.c): those of the endpoints
   and the scheduler's ready queues. *)
EXTENDS Naturals, Sequences

(* A TCB anywhere in the queue is unlinked: tcbEPDequeue, and in the same way
   tcbSchedDequeue. *)
Unlink(q, t) ==
    LET k == CHOOSE i \in DOMAIN q : q[i] = t
    IN  [i \in 1 .. Len(q) - 1 |-> IF i < k THEN q[i] ELSE q[i + 1]]
=============================================================================
