------------------------------ MODULE SemBare ------------------------------
(***************************************************************************)
(* The semaphores CAmkES-generated code uses (libsel4sync, sem-bare.h): a  *)
(* counter changed atomically, and an endpoint on which a thread that must *)
(* wait receives and a thread that must wake another sends.  seL4_Signal   *)
(* on an endpoint is a send that blocks until somebody receives, so that   *)
(* no wake-up is lost between counter and endpoint.                        *)
(***************************************************************************)
EXTENDS Integers, Sequences, FiniteSets

CONSTANTS
    Threads,
    Sems,      \* the semaphores
    Initial    \* their initial values

VARIABLES
    value,     \* the counter of each semaphore
    queue,     \* the threads queued at its endpoint
    stage      \* where in the semaphore's code each thread is

Running == [at |-> "running"]
At(place, s) == [at |-> place, sem |-> s]

(* Places: about to receive, receiving, about to signal, signalling. *)
Stages == {Running} \cup {At(p, s) : p \in {"wait", "recv", "post", "send"}, s \in Sems}

SemInit ==
    /\ value = Initial
    /\ queue = [s \in Sems |-> <<>>]
    /\ stage = [t \in Threads |-> Running]

(* Variant: the last unit of the semaphore is given away twice. *)
WaitOffByOne(t, s) ==
    /\ stage[t] = Running
    /\ value' = [value EXCEPT ![s] = @ - 1]
    /\ stage' = IF value[s] < 0 THEN [stage EXCEPT ![t] = At("wait", s)] ELSE stage
    /\ UNCHANGED queue

(* sync_sem_bare_wait: the atomic decrement, after which it may be over. *)
Wait(t, s) ==
    /\ stage[t] = Running
    /\ value' = [value EXCEPT ![s] = @ - 1]
    /\ stage' = IF value[s] <= 0 THEN [stage EXCEPT ![t] = At("wait", s)] ELSE stage
    /\ UNCHANGED queue

(* sync_sem_bare_trywait: a unit is taken if there is one. *)
TryWait(t, s) ==
    /\ stage[t] = Running /\ value[s] > 0
    /\ value' = [value EXCEPT ![s] = @ - 1]
    /\ UNCHANGED <<queue, stage>>

(* Variant: nobody is woken when the counter comes back to zero. *)
PostOffByOne(t, s) ==
    /\ stage[t] = Running
    /\ value' = [value EXCEPT ![s] = @ + 1]
    /\ stage' = IF value'[s] < 0 THEN [stage EXCEPT ![t] = At("post", s)] ELSE stage
    /\ UNCHANGED queue

(* sync_sem_bare_post: the atomic increment, after which it may be over. *)
Post(t, s) ==
    /\ stage[t] = Running
    /\ value' = [value EXCEPT ![s] = @ + 1]
    /\ stage' = IF value'[s] <= 0 THEN [stage EXCEPT ![t] = At("post", s)] ELSE stage
    /\ UNCHANGED queue

(* The system call on the endpoint: t meets the thread at the head of the
   queue, if that one is waiting for the opposite, or joins the queue. *)
Meet(t, s, mine, opposite) ==
    IF queue[s] # <<>> /\ stage[Head(queue[s])] = At(opposite, s)
    THEN /\ stage' = [stage EXCEPT ![t] = Running, ![Head(queue[s])] = Running]
         /\ queue' = [queue EXCEPT ![s] = Tail(@)]
    ELSE /\ stage' = [stage EXCEPT ![t] = At(mine, s)]
         /\ queue' = [queue EXCEPT ![s] = Append(@, t)]

Rendezvous(t) ==
    /\ \E s \in Sems :
          \/ stage[t] = At("wait", s) /\ Meet(t, s, "recv", "send")
          \/ stage[t] = At("post", s) /\ Meet(t, s, "send", "recv")
    /\ UNCHANGED value

----------------------------------------------------------------------------
Waiters(s) == {t \in Threads : stage[t] \in {At("wait", s), At("recv", s)}}
Wakers(s) == {t \in Threads : stage[t] \in {At("post", s), At("send", s)}}

(* A negative counter says how many threads must be waited for and are not
   being woken yet, in whatever order increments, decrements, receives and
   sends of different threads are interleaved.  No wake-up is lost or given
   twice, and the endpoint never holds a receiver and a sender at once. *)
CounterExact ==
    \A s \in Sems :
        /\ Cardinality(Waiters(s)) - Cardinality(Wakers(s)) = IF value[s] < 0 THEN - value[s] ELSE 0
        /\ \A i, j \in DOMAIN queue[s] : stage[queue[s][i]] = stage[queue[s][j]]
        /\ {t \in Threads : stage[t] \in {At("recv", s), At("send", s)}} = {queue[s][i] : i \in DOMAIN queue[s]}
=============================================================================
