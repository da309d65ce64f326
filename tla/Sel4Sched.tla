----------------------------- MODULE Sel4Sched -----------------------------
(***************************************************************************)
(* The seL4 scheduler (kernel/thread.c, object/tcb.c): ready queues and    *)
(* their two-level bitmap, the scheduler action, time slices.  One core    *)
(* and one domain, as this kernel is configured.                           *)
(*                                                                         *)
(* A kernel entry is two steps: the handler, which may wake and block      *)
(* threads and leaves a scheduler action, and schedule() on the way out.   *)
(* Kernel functions are operators from scheduler state to scheduler state. *)
(***************************************************************************)
EXTENDS Naturals, Sequences, Functions, ThreadQueue

CONSTANTS
    Threads,
    Idle,      \* ksIdleThread
    Resume,    \* SchedulerAction_ResumeCurrentThread
    Choose,    \* SchedulerAction_ChooseNewThread
    NumPrios,  \* CONFIG_NUM_PRIORITIES
    WordBits,  \* bits of a word of the bitmaps
    TimeSlice  \* CONFIG_TIME_SLICE

ASSUME SchedAssumption ==
    /\ NumPrios \in Nat \ {0} /\ WordBits \in Nat \ {0} /\ TimeSlice \in Nat \ {0}
    /\ Idle \notin Threads /\ {Resume, Choose} \cap (Threads \cup {Idle}) = {} /\ Resume # Choose

Prios    == 0 .. NumPrios - 1
NumWords == (NumPrios + WordBits - 1) \div WordBits  \* L2_BITMAP_SIZE
Words    == 0 .. NumWords - 1
Bits     == 0 .. WordBits - 1

VARIABLES
    ks,     \* see SchedState
    phase   \* "user", or "kernel" between a handler and schedule()

vars == <<ks, phase>>

SchedState ==
    [runnable : SUBSET Threads,          \* isRunnable
     prio     : [Threads -> Prios],      \* tcbPriority
     slice    : [Threads -> 1 .. TimeSlice],  \* tcbTimeSlice
     queued   : SUBSET Threads,          \* tcbQueued
     ready    : [Prios -> Seq(Threads)], \* ksReadyQueues
     l1       : SUBSET Words,
     l2       : [Words -> SUBSET Bits],
     action   : {Resume, Choose} \cup Threads,  \* ksSchedulerAction
     cur      : Threads \cup {Idle}]     \* ksCurThread

SchedTypeOK == ks \in SchedState /\ phase \in {"user", "kernel"}

----------------------------------------------------------------------------
(* The bitmap: bit p of a priority is in word p / WordBits, and the words of
   the second level are stored in reverse. *)
l1index(p)          == p \div WordBits
invert_l1index(i)   == NumWords - 1 - i

AddToBitmap(k, p) ==
    [k EXCEPT !.l1 = @ \cup {l1index(p)},
              !.l2[invert_l1index(l1index(p))] = @ \cup {p % WordBits}]

RemoveFromBitmap(k, p) ==
    LET word == k.l2[invert_l1index(l1index(p))] \ {p % WordBits}
    IN  [k EXCEPT !.l2[invert_l1index(l1index(p))] = word,
                  !.l1 = IF word = {} THEN @ \ {l1index(p)} ELSE @]

(* wordBits - 1 - clzl *)
HighestBit(S) == CHOOSE i \in S : \A j \in S : j <= i

getHighestPrio(k) ==
    LET l1i == HighestBit(k.l1)
    IN  l1i * WordBits + HighestBit(k.l2[invert_l1index(l1i)])

isHighestPrio(k, p) == k.l1 # {} => p >= getHighestPrio(k)

----------------------------------------------------------------------------
(* The ready queues. *)
PutInQueue(k, t, q) ==
    LET p == k.prio[t]
        marked == IF k.ready[p] = <<>> THEN AddToBitmap(k, p) ELSE k
    IN  [marked EXCEPT !.ready[p] = q, !.queued = @ \cup {t}]

tcbSchedEnqueue(k, t) == IF t \in k.queued THEN k ELSE PutInQueue(k, t, <<t>> \o k.ready[k.prio[t]])
tcbSchedAppend(k, t)  == IF t \in k.queued THEN k ELSE PutInQueue(k, t, Append(k.ready[k.prio[t]], t))

tcbSchedDequeue(k, t) ==
    IF t \notin k.queued THEN k
    ELSE LET p == k.prio[t]
             q == Unlink(k.ready[p], t)
             marked == IF q = <<>> THEN RemoveFromBitmap(k, p) ELSE k
         IN  [marked EXCEPT !.ready[p] = q, !.queued = @ \ {t}]

----------------------------------------------------------------------------
(* The scheduler action. *)

(* Variant: the candidate is forgotten instead of queued. *)
RescheduleDropsCandidate(k) == [k EXCEPT !.action = Choose]

rescheduleRequired(k) ==
    [(IF k.action \in {Resume, Choose} THEN k ELSE tcbSchedEnqueue(k, k.action)) EXCEPT !.action = Choose]

possibleSwitchTo(k, t) ==
    IF k.action # Resume THEN tcbSchedEnqueue(rescheduleRequired(k), t) ELSE [k EXCEPT !.action = t]

(* setThreadState with scheduleTCB *)
Wake(k, t) == [k EXCEPT !.runnable = @ \cup {t}]

Block(k, t) ==
    LET b == [k EXCEPT !.runnable = @ \ {t}]
    IN  IF t = k.cur /\ k.action = Resume THEN rescheduleRequired(b) ELSE b

switchToThread(k, t) == [tcbSchedDequeue(k, t) EXCEPT !.cur = t]

chooseThread(k) ==
    IF k.l1 = {} THEN [k EXCEPT !.cur = Idle]
    ELSE switchToThread(k, Head(k.ready[getHighestPrio(k)]))

(* schedule, from the point where the current thread has been put back *)
KeepCurrent(k) == IF k.cur \in k.runnable THEN tcbSchedEnqueue(k, k.cur) ELSE k

(* Variant: the bitmap is consulted only when the idle thread is current. *)
MustCheckIdleOnly(k) == k.cur = Idle

(* fastfail: the candidate may not be the highest *)
MustCheck(k) == k.cur = Idle \/ k.prio[k.action] < k.prio[k.cur]

Decide(k) ==
    IF k.action = Choose THEN chooseThread(k)
    ELSE IF MustCheck(k) /\ ~isHighestPrio(k, k.prio[k.action])
    THEN chooseThread(tcbSchedEnqueue(k, k.action))
    ELSE IF k.cur \in k.runnable /\ k.prio[k.action] = k.prio[k.cur]
    THEN chooseThread(tcbSchedAppend(k, k.action))
    ELSE switchToThread(k, k.action)

schedule(k) == [(IF k.action = Resume THEN k ELSE Decide(KeepCurrent(k))) EXCEPT !.action = Resume]

----------------------------------------------------------------------------
(* The handlers of kernel entries, by what they do to the scheduler. *)

(* Variant: a thread whose slice is used up goes back to the head. *)
TickToHead(k) ==
    IF k.cur \notin k.runnable THEN k
    ELSE IF k.slice[k.cur] > 1 THEN [k EXCEPT !.slice[k.cur] = @ - 1]
    ELSE rescheduleRequired(tcbSchedEnqueue([k EXCEPT !.slice[k.cur] = TimeSlice], k.cur))

timerTick(k) ==
    IF k.cur \notin k.runnable THEN k
    ELSE IF k.slice[k.cur] > 1 THEN [k EXCEPT !.slice[k.cur] = @ - 1]
    ELSE rescheduleRequired(tcbSchedAppend([k EXCEPT !.slice[k.cur] = TimeSlice], k.cur))

handleYield(k) == rescheduleRequired(tcbSchedAppend(tcbSchedDequeue(k, k.cur), k.cur))

suspend(k, t) == tcbSchedDequeue(Block(k, t), t)

restart(k, t) == IF t \in k.runnable THEN k ELSE possibleSwitchTo(tcbSchedEnqueue(Wake(k, t), t), t)

IfCurrent(k, t) == IF t = k.cur THEN rescheduleRequired(k) ELSE k

(* Variant: the thread stays in the queue of its old priority. *)
SetPriorityInQueue(k, t, p) ==
    LET k2 == [k EXCEPT !.prio[t] = p]
    IN  IF t \in k.runnable THEN rescheduleRequired(tcbSchedEnqueue(k2, t)) ELSE k2

setPriority(k, t, p) ==
    LET k2 == [tcbSchedDequeue(k, t) EXCEPT !.prio[t] = p]
    IN  IF t \in k.runnable THEN rescheduleRequired(tcbSchedEnqueue(k2, t)) ELSE k2

setDomain(k, t) ==
    LET k2 == tcbSchedDequeue(k, t)
    IN  IfCurrent(IF t \in k.runnable THEN tcbSchedEnqueue(k2, t) ELSE k2, t)

WakeUp(k, t) == possibleSwitchTo(Wake(k, t), t)

----------------------------------------------------------------------------
(* The threads begin inactive but for the initial one, which the kernel
   switches to as it boots. *)
SchedInit ==
    /\ \E root \in Threads :
          ks = [runnable |-> {root},
                prio     |-> [t \in Threads |-> IF t = root THEN NumPrios - 1 ELSE 0],
                slice    |-> [t \in Threads |-> TimeSlice],
                queued   |-> {},
                ready    |-> [p \in Prios |-> <<>>],
                l1       |-> {},
                l2       |-> [w \in Words |-> {}],
                action   |-> root,
                cur      |-> Idle]
    /\ phase = "kernel"

Entry(k) == phase = "user" /\ ks' = k /\ phase' = "kernel"

Tick == Entry(timerTick(ks))

(* A signal, by an interrupt or a thread; a send, or a reply. *)
WakeOne(t) == t \notin ks.runnable /\ Entry(WakeUp(ks, t))

Yield == ks.cur # Idle /\ Entry(handleYield(ks))

(* A receive or send that must wait *)
Wait == ks.cur # Idle /\ Entry(Block(ks, ks.cur))

(* A call, or a reply followed by a receive that must wait *)
Handoff(t) == ks.cur # Idle /\ t \notin ks.runnable /\ Entry(Block(WakeUp(ks, t), ks.cur))

(* A reply followed by a receive from a waiting sender *)
WakeTwo(t, u) ==
    /\ ks.cur # Idle /\ t # u /\ {t, u} \cap ks.runnable = {}
    /\ Entry(WakeUp(WakeUp(ks, t), u))

Suspend(t) == ks.cur # Idle /\ Entry(suspend(ks, t))

Resumption(t) == ks.cur # Idle /\ Entry(restart(ks, t))

WriteRegisters(t) == ks.cur # Idle /\ Entry(IfCurrent(restart(ks, t), t))

CopyRegisters(dest, src) == ks.cur # Idle /\ Entry(IfCurrent(restart(suspend(ks, src), dest), dest))

SetPriority(t, p) == ks.cur # Idle /\ Entry(setPriority(ks, t, p))

SetDomain(t) == ks.cur # Idle /\ Entry(setDomain(ks, t))

Leave == phase = "kernel" /\ ks' = schedule(ks) /\ phase' = "user"

(* What threads do by IPC and the timer alone *)
IpcNext ==
    \/ Tick \/ Yield \/ Wait \/ Leave
    \/ \E t \in Threads : WakeOne(t) \/ Handoff(t)
    \/ \E t, u \in Threads : WakeTwo(t, u)

SchedNext ==
    \/ IpcNext
    \/ \E t \in Threads : Suspend(t) \/ Resumption(t) \/ WriteRegisters(t) \/ SetDomain(t) \/ \E p \in Prios : SetPriority(t, p)
    \/ \E t, u \in Threads : CopyRegisters(t, u)

SchedSpec == SchedInit /\ [][SchedNext]_vars

(* The kernel returns, and the timer interrupt keeps coming. *)
FairSched == SchedSpec /\ WF_vars(Leave) /\ SF_vars(Tick)

----------------------------------------------------------------------------
(* Properties *)

Candidates(k) == {k.action} \cap Threads

(* A thread is in the queue of its priority, once, exactly when it is flagged
   as queued. *)
QueuesMatch(k) ==
    \A p \in Prios :
        /\ Range(k.ready[p]) = {t \in k.queued : k.prio[t] = p}
        /\ IsInjective(k.ready[p])

(* The bitmap says which queues are non-empty. *)
BitmapExact(k) ==
    /\ \A p \in Prios : k.ready[p] # <<>> <=> p % WordBits \in k.l2[invert_l1index(l1index(p))]
    /\ \A w \in Words : w \in k.l1 <=> k.l2[invert_l1index(w)] # {}

(* The ready queues, the threads' queued flags and the bitmap agree, and no
   blocked thread is in a queue. *)
QueuesExact == QueuesMatch(ks) /\ BitmapExact(ks) /\ ks.queued \subseteq ks.runnable

(* What schedule() and activateThread() assert or take for granted: the
   candidate is runnable and not current, and whoever leaves the kernel runs. *)
ScheduleAsserts ==
    /\ \A t \in Candidates(ks) : t \in ks.runnable /\ t # ks.cur
    /\ ks.action = Resume => ks.cur \in ks.runnable \cup {Idle}

(* No runnable thread is lost: it is current, the candidate, or queued; and the
   scheduler's action is one schedule() can carry out. *)
NobodyLost ==
    /\ ks.runnable \subseteq ks.queued \cup Candidates(ks) \cup {ks.cur}
    /\ ScheduleAsserts

(* In user mode the highest priority runnable thread runs, although the
   bitmap is consulted only when the candidate may be beaten. *)
HighestRuns ==
    phase = "user" => IF ks.cur = Idle THEN ks.runnable = {}
                      ELSE \A t \in ks.runnable : ks.prio[t] <= ks.prio[ks.cur]

Outranked(t) == \E u \in Threads : ks.prio[u] > ks.prio[t]

(* Once threads only use IPC, a runnable thread that no other one outranks
   runs in the end, however they wake and hand over to each other. *)
RoundRobin ==
    <>[][IpcNext]_vars =>
        \A t \in Threads : t \in ks.runnable ~> (ks.cur = t \/ t \notin ks.runnable \/ Outranked(t))
=============================================================================
