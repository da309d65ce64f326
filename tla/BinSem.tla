------------------------------- MODULE BinSem -------------------------------
(***************************************************************************)
(* Notification objects of the kernel (object/notification.c) and the      *)
(* binary semaphores libsel4sync builds on them (bin_sem_bare.h): a        *)
(* counter changed atomically and a notification that a thread which must  *)
(* wait waits on.  A notification keeps one signal, not how many: signals  *)
(* nobody waits for are joined.  No notification here is bound to a thread.*)
(***************************************************************************)
EXTENDS Integers, Sequences

CONSTANTS
    Threads,
    Notifications,
    Locks       \* the notifications that belong to a binary semaphore

VARIABLES
    active,     \* the notifications with a signal nobody has taken
    waiting,    \* the threads queued at each notification
    count,      \* the counter of each binary semaphore
    entry       \* the semaphore whose wait or post a thread has still to finish

NoEntry == [op |-> "none", lock |-> "none"]

BinSemInit ==
    /\ active = {}
    /\ waiting = [n \in Notifications |-> <<>>]
    /\ count = [l \in Locks |-> 1]
    /\ entry = [t \in Threads |-> NoEntry]

Blocked(t) == \E n \in Notifications : \E i \in DOMAIN waiting[n] : waiting[n][i] = t
Free(t) == ~Blocked(t) /\ entry[t] = NoEntry

(* sendSignal *)
Signal(n) ==
    IF waiting[n] = <<>>
    THEN active' = active \cup {n} /\ UNCHANGED waiting
    ELSE waiting' = [waiting EXCEPT ![n] = Tail(@)] /\ UNCHANGED active

(* receiveSignal, blocking *)
WaitOn(t, n) ==
    IF n \in active
    THEN active' = active \ {n} /\ UNCHANGED waiting
    ELSE waiting' = [waiting EXCEPT ![n] = Append(@, t)] /\ UNCHANGED active

(* sync_bin_sem_bare_wait up to the system call: the atomic decrement. *)
Acquire(t, l) ==
    /\ Free(t)
    /\ count' = [count EXCEPT ![l] = @ - 1]
    /\ entry' = IF count[l] <= 0 THEN [entry EXCEPT ![t] = [op |-> "wait", lock |-> l]] ELSE entry
    /\ UNCHANGED <<active, waiting>>

(* sync_bin_sem_bare_post up to the system call: the atomic increment. *)
Release(t, l) ==
    /\ Free(t)
    /\ count' = [count EXCEPT ![l] = @ + 1]
    /\ entry' = IF count'[l] <= 0 THEN [entry EXCEPT ![t] = [op |-> "post", lock |-> l]] ELSE entry
    /\ UNCHANGED <<active, waiting>>

(* Their system calls. *)
Enter(t) ==
    /\ ~Blocked(t) /\ entry[t] # NoEntry
    /\ \/ entry[t].op = "wait" /\ WaitOn(t, entry[t].lock)
       \/ entry[t].op = "post" /\ Signal(entry[t].lock)
    /\ entry' = [entry EXCEPT ![t] = NoEntry]
    /\ UNCHANGED count
=============================================================================
