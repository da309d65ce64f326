----------------------------- MODULE Sel4Kernel -----------------------------
(***************************************************************************)
(* IPC and scheduling together, and the IPC fastpath                       *)
(* (kernel/src/fastpath/fastpath.c) beside them.  Only the current thread  *)
(* makes system calls.  A Call or ReplyRecv that meets the conditions of   *)
(* the fastpath switches to its partner without the scheduler; otherwise   *)
(* (a long message, say) the same call takes the slow path: the actions of *)
(* Sel4Ipc, then schedule() of Sel4Sched.                                  *)
(***************************************************************************)
EXTENDS Sel4Ipc

CONSTANTS Idle, Resume, Choose, NumPrios, WordBits, TimeSlice

ASSUME KernelSchedAssumption ==
    /\ NumPrios \in Nat \ {0} /\ WordBits \in Nat \ {0} /\ TimeSlice \in Nat \ {0}
    /\ Idle \notin Threads /\ {Resume, Choose} \cap (Threads \cup {Idle}) = {} /\ Resume # Choose

VARIABLE sched  \* the scheduler's state in user mode; see Sel4Sched

Sched == INSTANCE Sel4Sched WITH ks <- sched, phase <- "user"

vars == <<kernelVars, sched>>

Cur     == sched.cur
prio(t) == sched.prio[t]

(* One thread, the initial one, is running; it starts the others, to which the
   loader has given any priorities. *)
Init ==
    /\ \E root \in Threads, p \in [Threads -> Sched!Prios] :
          /\ tcbState = [t \in Threads |-> IF t = root THEN "Running" ELSE "Inactive"]
          /\ sched = [runnable |-> {root}, prio |-> p, slice |-> [t \in Threads |-> TimeSlice],
                      queued |-> {}, ready |-> [q \in Sched!Prios |-> <<>>], l1 |-> {},
                      l2 |-> [w \in Sched!Words |-> {}], action |-> Resume, cur |-> root]
    /\ blocking = [t \in Threads |-> [ep |-> CHOOSE e \in Endpoints : TRUE, call |-> FALSE, grant |-> FALSE]]
    /\ epState = [e \in Endpoints |-> "Idle"] /\ epQueue = [e \in Endpoints |-> <<>>]
    /\ callerSlot = [t \in Threads |-> NoThread] /\ savedSlot = [t \in Threads |-> NoThread]
    /\ mrs = [t \in Threads |-> NoMsg]

----------------------------------------------------------------------------
(* The slow path. *)

(* The threads a system call has set running, the one replied to first. *)
Woken  == {t \in Threads : IsRunning(t)' /\ ~IsRunning(t)}
First  == IF callerSlot[Cur] \in Woken THEN callerSlot[Cur] ELSE CHOOSE t \in Woken : TRUE

(* Variant: a second thread woken by the same call is forgotten. *)
WakeFirst(k) == IF Woken = {} THEN k ELSE Sched!WakeUp(k, First)

WakeAll(k) ==
    IF Woken = {} THEN k
    ELSE LET k2 == Sched!WakeUp(k, First)
         IN  IF Woken = {First} THEN k2 ELSE Sched!WakeUp(k2, CHOOSE t \in Woken \ {First} : TRUE)

(* What the call meant to the scheduler (possibleSwitchTo, setThreadState),
   then schedule(). *)
Reschedule ==
    LET woken == WakeAll(sched)
    IN  sched' = Sched!schedule(IF tcbState'[Cur] = "Running" THEN woken ELSE Sched!Block(woken, Cur))

SlowCall(e, m, g)     == Call(Cur, e, m, g) /\ Reschedule
SlowReplyRecv(e, m)   == ReplyRecv(Cur, e, m) /\ Reschedule
SlowSend(e, m, b)     == Send(Cur, e, m, b) /\ Reschedule
SlowRecv(e)           == (Recv(Cur, e) \/ NBRecv(Cur, e)) /\ Reschedule
SlowReply(m)          == (Reply(Cur, m) \/ SendSaved(Cur, m)) /\ Reschedule
SlowSaveCaller        == SaveCaller(Cur) /\ UNCHANGED sched
SlowSuspend(t)        == Suspend(t) /\ sched' = Sched!schedule(Sched!suspend(sched, t))
SlowResume(t)         == Restart(t) /\ sched' = Sched!schedule(Sched!restart(sched, t))
Tick                  == UNCHANGED kernelVars /\ sched' = Sched!schedule(Sched!timerTick(sched))

SlowNext ==
    \/ /\ Cur # Idle
       /\ \/ \E e \in Endpoints, m \in Msgs :
                \/ \E b \in BOOLEAN : SlowCall(e, m, b) \/ SlowSend(e, m, b)
                \/ SlowReplyRecv(e, m)
          \/ \E e \in Endpoints : SlowRecv(e)
          \/ \E m \in Msgs : SlowReply(m)
          \/ SlowSaveCaller
          \/ \E t \in Threads : SlowSuspend(t) \/ SlowResume(t)
    \/ Tick

----------------------------------------------------------------------------
(* The fastpath: its conditions, then what it writes. *)

(* switchToThread_fp: dest runs, cur is blocked, the queues are not touched. *)
SwitchFp(dest) == sched' = [sched EXCEPT !.runnable = (@ \ {Cur}) \cup {dest}, !.cur = dest]

(* Variant: the ready queues are not looked at. *)
CallDirectAlways(dest) == TRUE

(* dest may be switched to directly. *)
CallDirect(dest) == ~(prio(dest) < prio(Cur) /\ ~Sched!isHighestPrio(sched, prio(dest)))

fastpath_call(e, m) ==
    /\ epState[e] = "Recv"
    /\ LET dest == Head(epQueue[e])
       IN  /\ CallDirect(dest)
           /\ epQueue' = [epQueue EXCEPT ![e] = Tail(@)]
           /\ epState' = [epState EXCEPT ![e] = IF Len(epQueue[e]) = 1 THEN "Idle" ELSE @]
           /\ tcbState' = [tcbState EXCEPT ![Cur] = "BlockedOnReply", ![dest] = "Running"]
           /\ callerSlot' = [callerSlot EXCEPT ![dest] = Cur]
           /\ mrs' = [mrs EXCEPT ![Cur] = m, ![dest] = m]
           /\ SwitchFp(dest)
    /\ UNCHANGED <<blocking, savedSlot>>

(* Variant: the reply capability stays in the caller slot. *)
ReplyRecvKeepsCap(e, m) ==
    /\ epState[e] # "Send"
    /\ LET caller == callerSlot[Cur]
       IN  /\ caller # NoThread
           /\ Sched!isHighestPrio(sched, prio(caller))
           /\ epQueue' = [epQueue EXCEPT ![e] = Append(@, Cur)]
           /\ epState' = [epState EXCEPT ![e] = "Recv"]
           /\ tcbState' = [tcbState EXCEPT ![Cur] = "BlockedOnReceive", ![caller] = "Running"]
           /\ blocking' = [blocking EXCEPT ![Cur].ep = e]
           /\ mrs' = [mrs EXCEPT ![caller] = m]
           /\ SwitchFp(caller)
    /\ UNCHANGED <<callerSlot, savedSlot>>

fastpath_reply_recv(e, m) ==
    /\ epState[e] # "Send"
    /\ LET caller == callerSlot[Cur]
       IN  /\ caller # NoThread
           /\ Sched!isHighestPrio(sched, prio(caller))
           /\ epQueue' = [epQueue EXCEPT ![e] = Append(@, Cur)]
           /\ epState' = [epState EXCEPT ![e] = "Recv"]
           /\ tcbState' = [tcbState EXCEPT ![Cur] = "BlockedOnReceive", ![caller] = "Running"]
           /\ blocking' = [blocking EXCEPT ![Cur].ep = e]
           /\ callerSlot' = [callerSlot EXCEPT ![Cur] = NoThread]
           /\ mrs' = [mrs EXCEPT ![caller] = m]
           /\ SwitchFp(caller)
    /\ UNCHANGED savedSlot

FastNext == Cur # Idle /\ \E e \in Endpoints, m \in Msgs : fastpath_call(e, m) \/ fastpath_reply_recv(e, m)

Next == SlowNext \/ FastNext

Spec == Init /\ [][Next]_vars

----------------------------------------------------------------------------
(* Whatever the fastpath does, the slow path would have done: the same
   queues, thread states, reply capabilities and messages, and the same thread
   picked to run next. *)
FastIsSlow == [][SlowNext]_vars

(* The ready queues hold exactly the runnable threads but the current one,
   though the fastpath blocks and resumes threads behind their back. *)
ReadyExact ==
    /\ Sched!QueuesExact
    /\ \A t \in Threads : t \in sched.queued <=> IsRunning(t) /\ t # Cur

(* The current thread is runnable and none outranks it, though the fastpath
   does not go through the scheduler and the bitmap is mostly not consulted. *)
CurrentHighest ==
    IF Cur = Idle THEN \A t \in Threads : ~IsRunning(t)
    ELSE IsRunning(Cur) /\ \A t \in Threads : IsRunning(t) => prio(t) <= prio(Cur)
=============================================================================
