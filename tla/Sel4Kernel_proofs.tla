-------------------------- MODULE Sel4Kernel_proofs -------------------------
(***************************************************************************)
(* Theorems about Sel4Kernel: the ready queues hold just the threads that  *)
(* IPC has left running, the highest of them runs, and every step of the   *)
(* fastpath is a step of the slow path.                                    *)
(*                                                                         *)
(* The invariant joins those of Sel4Ipc_proofs and Sel4Sched_proofs by the *)
(* fact that both halves have the same idea of who is runnable.  The       *)
(* fastpath's priority check is enough because the current thread outranks *)
(* all that are queued: schedule() would have chosen the same thread.      *)
(***************************************************************************)
EXTENDS Sel4Kernel, Sel4Ipc_proofs

SP == INSTANCE Sel4Sched_proofs WITH ks <- sched, phase <- "user"

(* The scheduler's functions are those of its lemmas. *)
LEMMA SameSched ==
    /\ \A k, t : Sched!WakeUp(k, t) = SP!WakeUp(k, t)
    /\ \A k, t : Sched!Block(k, t) = SP!Block(k, t)
    /\ \A k : Sched!schedule(k) = SP!schedule(k)
    /\ \A k : Sched!timerTick(k) = SP!timerTick(k)
    /\ \A k, t : Sched!suspend(k, t) = SP!suspend(k, t)
    /\ \A k, t : Sched!restart(k, t) = SP!restart(k, t)
    /\ \A k, p : Sched!isHighestPrio(k, p) = SP!isHighestPrio(k, p)
<1>1. \A p : Sched!l1index(p) = SP!l1index(p)
  BY DEF Sched!l1index, SP!l1index
<1>2. Sched!NumWords = SP!NumWords
  BY DEF Sched!NumWords, SP!NumWords
<1>3. \A i : Sched!invert_l1index(i) = SP!invert_l1index(i)
  BY <1>2 DEF Sched!invert_l1index, SP!invert_l1index
<1>4. \A k, p : Sched!AddToBitmap(k, p) = SP!AddToBitmap(k, p)
  BY <1>1, <1>3 DEF Sched!AddToBitmap, SP!AddToBitmap
<1>5. \A k, p : Sched!RemoveFromBitmap(k, p) = SP!RemoveFromBitmap(k, p)
  BY <1>1, <1>3 DEF Sched!RemoveFromBitmap, SP!RemoveFromBitmap
<1>6. \A S : Sched!HighestBit(S) = SP!HighestBit(S)
  BY DEF Sched!HighestBit, SP!HighestBit
<1>7. \A k : Sched!getHighestPrio(k) = SP!getHighestPrio(k)
  BY <1>6, <1>3 DEF Sched!getHighestPrio, SP!getHighestPrio
<1>8. \A k, p : Sched!isHighestPrio(k, p) = SP!isHighestPrio(k, p)
  BY <1>7 DEF Sched!isHighestPrio, SP!isHighestPrio
<1>9. \A k, t, q : Sched!PutInQueue(k, t, q) = SP!PutInQueue(k, t, q)
  BY ZenonT(60), <1>4 DEF Sched!PutInQueue, SP!PutInQueue
<1>10. \A k, t : Sched!tcbSchedEnqueue(k, t) = SP!tcbSchedEnqueue(k, t)
  BY <1>9 DEF Sched!tcbSchedEnqueue, SP!tcbSchedEnqueue
<1>11. \A k, t : Sched!tcbSchedAppend(k, t) = SP!tcbSchedAppend(k, t)
  BY <1>9 DEF Sched!tcbSchedAppend, SP!tcbSchedAppend
<1>12. \A q, t : Sched!Unlink(q, t) = SP!Unlink(q, t)
  BY DEF Sched!Unlink, SP!Unlink
<1>13. \A k, t : Sched!tcbSchedDequeue(k, t) = SP!tcbSchedDequeue(k, t)
  BY ZenonT(60), <1>12, <1>5 DEF Sched!tcbSchedDequeue, SP!tcbSchedDequeue
<1>14. \A k : Sched!rescheduleRequired(k) = SP!rescheduleRequired(k)
  BY <1>10 DEF Sched!rescheduleRequired, SP!rescheduleRequired
<1>15. \A k, t : Sched!possibleSwitchTo(k, t) = SP!possibleSwitchTo(k, t)
  BY <1>14, <1>10 DEF Sched!possibleSwitchTo, SP!possibleSwitchTo
<1>16. \A k, t : Sched!Wake(k, t) = SP!Wake(k, t)
  BY DEF Sched!Wake, SP!Wake
<1>17. \A k, t : Sched!WakeUp(k, t) = SP!WakeUp(k, t)
  BY <1>16, <1>15 DEF Sched!WakeUp, SP!WakeUp
<1>18. \A k, t : Sched!Block(k, t) = SP!Block(k, t)
  BY <1>14 DEF Sched!Block, SP!Block
<1>19. \A k, t : Sched!switchToThread(k, t) = SP!switchToThread(k, t)
  BY <1>13 DEF Sched!switchToThread, SP!switchToThread
<1>20. \A k : Sched!chooseThread(k) = SP!chooseThread(k)
  BY <1>19, <1>7 DEF Sched!chooseThread, SP!chooseThread
<1>21. \A k : Sched!KeepCurrent(k) = SP!KeepCurrent(k)
  BY <1>10 DEF Sched!KeepCurrent, SP!KeepCurrent
<1>22. \A k : Sched!MustCheck(k) = SP!MustCheck(k)
  BY DEF Sched!MustCheck, SP!MustCheck
<1>23. \A k : Sched!Decide(k) = SP!Decide(k)
  BY <1>20, <1>22, <1>8, <1>10, <1>11, <1>19 DEF Sched!Decide, SP!Decide
<1>24. \A k : Sched!schedule(k) = SP!schedule(k)
  BY <1>23, <1>21 DEF Sched!schedule, SP!schedule
<1>25. \A k : Sched!timerTick(k) = SP!timerTick(k)
  BY <1>14, <1>11 DEF Sched!timerTick, SP!timerTick
<1>26. \A k, t : Sched!suspend(k, t) = SP!suspend(k, t)
  BY <1>13, <1>18 DEF Sched!suspend, SP!suspend
<1>27. \A k, t : Sched!restart(k, t) = SP!restart(k, t)
  BY <1>16, <1>10, <1>15 DEF Sched!restart, SP!restart
<1> QED  BY <1>17, <1>18, <1>24, <1>25, <1>26, <1>27, <1>8
----------------------------------------------------------------------------
(* What a system call means to the scheduler *)

SystemInv ==
    /\ KernelInv /\ SP!UserInv(sched)
    /\ sched.runnable = {t \in Threads : IsRunning(t)}

(* Only the current thread stops running, and at most two start to. *)
Turns ==
    /\ \A u \in Threads : IsRunning(u) /\ ~IsRunning(u)' => u = Cur
    /\ \E a, b : Woken \subseteq {a, b}

(* A send stops at most the sender and may set its receiver running. *)
LEMMA SendTurns ==
    ASSUME KernelInv, Cur \in Threads, NEW e \in Endpoints, NEW m,
           NEW b, NEW call, NEW grant, SendIPC(b, call, grant, Cur, e, m)
    PROVE  Turns
<1>1. tcbState \in [Threads -> ThreadState]
  BY DEF KernelInv, KernelTypeOK
<1>2. CASE epState[e] # "Recv"
  BY <1>1, <1>2 DEF SendIPC, kernelVars, Turns, Woken, IsRunning
<1>3. CASE epState[e] = "Recv"
  <2>1. PICK after : tcbState' = [tcbState EXCEPT ![Head(epQueue[e])] = "Running", ![Cur] = after]
    BY <1>3 DEF SendIPC
  <2>2. Woken \subseteq {Head(epQueue[e]), Cur}
    BY <1>1, <2>1 DEF Woken, IsRunning
  <2> QED  BY <1>1, <2>1, <2>2 DEF Turns, IsRunning
<1> QED  BY <1>2, <1>3

(* A receive may set one sender running, besides the caller just replied to. *)
LEMMA RecvTurns ==
    ASSUME KernelInv, Cur \in Threads, NEW e \in Endpoints, NEW ms, NEW c,
           HandleRecv(Resumed(c), ms, Cur, e)
    PROVE  Turns
<1> DEFINE ts == Resumed(c)
<1>1. /\ tcbState \in [Threads -> ThreadState] /\ ts \in [Threads -> ThreadState]
      /\ \A u \in Threads : ts[u] = IF u = c THEN "Running" ELSE tcbState[u]
  <2>1. CASE c = NoThread
    BY <2>1, KernelAssumption DEF KernelInv, KernelTypeOK, Resumed
  <2>2. CASE c # NoThread
    BY <2>2 DEF KernelInv, KernelTypeOK, Resumed, ThreadState
  <2> QED  BY <2>1, <2>2
<1> HIDE DEF ts
<1>2. CASE epState[e] # "Send"
  <2>1. tcbState' = [ts EXCEPT ![Cur] = "BlockedOnReceive"]
    BY <1>2 DEF HandleRecv, ts
  <2>2. Woken \subseteq {c, Cur}
    BY <1>1, <2>1 DEF Woken, IsRunning
  <2> QED  BY <1>1, <2>1, <2>2 DEF Turns, IsRunning
<1>3. CASE epState[e] = "Send"
  <2> DEFINE h == Head(epQueue[e])
  <2>1. PICK after : tcbState' = [ts EXCEPT ![h] = after]
    BY <1>3 DEF HandleRecv, ts
  <2>2. h \in Threads /\ ~IsRunning(h)
    BY <1>3, HeadBlocked DEF InQueue, IsRunning
  <2> HIDE DEF h
  <2>3. Woken \subseteq {c, h}
    BY <1>1, <2>1 DEF Woken, IsRunning
  <2> QED  BY <1>1, <2>1, <2>2, <2>3 DEF Turns, IsRunning
<1> QED  BY <1>2, <1>3

(* A reply sets at most the waiting caller running. *)
LEMMA ReplyTurns ==
    ASSUME KernelInv, NEW c, tcbState' = Resumed(c)
    PROVE  Turns
<1>1. \A u \in Threads : tcbState'[u] = IF u = c THEN "Running" ELSE tcbState[u]
  BY KernelAssumption DEF KernelInv, KernelTypeOK, Resumed
<1>2. Woken \subseteq {c}
  BY <1>1 DEF Woken, IsRunning
<1> QED  BY <1>1, <1>2 DEF Turns, IsRunning

(* All threads that a call sets running are woken in the scheduler. *)
LEMMA WakeAllStep ==
    ASSUME SystemInv, Cur \in Threads, IsRunning(Cur), Turns
    PROVE  LET r == WakeAll(sched)
           IN  /\ SP!HandlerInv(r) /\ r.runnable = sched.runnable \cup Woken
               /\ r.cur = Cur /\ r.cur \notin r.queued
<1>1. /\ SP!HandlerInv(sched) /\ sched.cur \in sched.runnable /\ sched.cur \notin sched.queued
      /\ \A t \in Woken : t \in Threads /\ t \notin sched.runnable
  BY DEF SystemInv, SP!UserInv, SP!HandlerInv, Cur, Woken
<1>2. CASE Woken = {}
  BY <1>1, <1>2 DEF WakeAll, Cur
<1>3. CASE Woken # {}
  <2> DEFINE f == First
             m == SP!WakeUp(sched, f)
             u == CHOOSE t \in Woken \ {f} : TRUE
  <2>1. f \in Woken
    BY <1>3 DEF First
  <2>2. WakeAll(sched) = IF Woken = {f} THEN m ELSE SP!WakeUp(m, u)
    BY <1>3, SameSched DEF WakeAll
  <2> HIDE DEF f
  <2>3. /\ SP!HandlerInv(m) /\ m.runnable = sched.runnable \cup {f}
        /\ m.cur = sched.cur /\ m.cur \notin m.queued
    BY <1>1, <2>1, SP!WakeUpStep, KernelSchedAssumption
  <2> HIDE DEF m
  <2>4. CASE Woken = {f}
    BY <2>2, <2>3, <2>4 DEF Cur
  <2>5. CASE Woken # {f}
    <3>1. u \in Woken \ {f}
      BY <2>1, <2>5
    <3>2. Woken = {f, u}
      BY <2>1, <3>1 DEF Turns
    <3> HIDE DEF u
    <3>3. u \in Threads /\ u \notin m.runnable /\ m.cur \in m.runnable
      BY <1>1, <2>3, <3>1
    <3>4. /\ SP!HandlerInv(SP!WakeUp(m, u)) /\ SP!WakeUp(m, u).runnable = m.runnable \cup {u}
          /\ SP!WakeUp(m, u).cur = m.cur /\ SP!WakeUp(m, u).cur \notin SP!WakeUp(m, u).queued
      BY <2>3, <3>3, SP!WakeUpStep, KernelSchedAssumption
    <3> QED  BY <2>2, <2>3, <2>5, <3>2, <3>4 DEF Cur
  <2> QED  BY <2>4, <2>5
<1> QED  BY <1>2, <1>3

(* The slow path leaves the scheduler with exactly the running threads. *)
LEMMA RescheduleStep ==
    ASSUME SystemInv, Cur \in Threads, IsRunning(Cur), Turns, Reschedule
    PROVE  SP!UserInv(sched') /\ sched'.runnable = {t \in Threads : IsRunning(t)'}
<1> DEFINE w == WakeAll(sched)
           k == IF tcbState'[Cur] = "Running" THEN w ELSE SP!Block(w, w.cur)
<1>1. /\ SP!HandlerInv(w) /\ w.runnable = sched.runnable \cup Woken
      /\ w.cur = Cur /\ w.cur \notin w.queued
  BY WakeAllStep
<1>2. sched' = SP!schedule(k)
  BY <1>1, SameSched DEF Reschedule
<1> HIDE DEF w
<1>3. w.cur \in w.runnable /\ w.runnable = {t \in Threads : IsRunning(t) \/ IsRunning(t)'}
  BY <1>1 DEF SystemInv, Woken
<1>4. SP!HandlerInv(SP!Block(w, w.cur)) /\ SP!Block(w, w.cur).runnable = w.runnable \ {w.cur}
  BY <1>1, <1>3, SP!BlockStep, KernelSchedAssumption
<1>5. SP!HandlerInv(k) /\ k.runnable = {t \in Threads : IsRunning(t)'}
  <2>1. CASE tcbState'[Cur] = "Running"
    BY <1>1, <1>3, <2>1 DEF Turns, IsRunning
  <2>2. CASE tcbState'[Cur] # "Running"
    BY <1>1, <1>3, <1>4, <2>2 DEF Turns, IsRunning
  <2> QED  BY <2>1, <2>2
<1> HIDE DEF k
<1> QED  BY <1>2, <1>5, SP!ScheduleStep, KernelSchedAssumption
----------------------------------------------------------------------------
(* The fastpath *)

(* Where the fastpath may switch directly, schedule() would have switched to
   the same thread, without touching a queue. *)
LEMMA DirectSwitch ==
    ASSUME SystemInv, Cur \in Threads, IsRunning(Cur), NEW d \in Threads, ~IsRunning(d),
           CallDirect(d)
    PROVE  SP!schedule(SP!Block(SP!WakeUp(sched, d), Cur)) =
               [sched EXCEPT !.runnable = (@ \ {Cur}) \cup {d}, !.cur = d]
<1> DEFINE w == [sched EXCEPT !.runnable = @ \cup {d}]
           a == [w EXCEPT !.action = d]
           b == [a EXCEPT !.runnable = @ \ {Cur}]
<1>1. /\ sched \in SP!SchedState /\ sched.action = Resume /\ sched.cur = Cur
      /\ sched.queued \subseteq sched.runnable /\ d \notin sched.runnable
      /\ Cur # d /\ Cur # Idle /\ d # Resume /\ d # Choose
  BY KernelSchedAssumption DEF SystemInv, SP!UserInv, SP!HandlerInv, SP!ReadyOK, Cur
<1>2. /\ w.action = Resume /\ a.action = d /\ a.cur = Cur /\ b.action = d /\ b.cur = Cur
      /\ b.runnable = (sched.runnable \cup {d}) \ {Cur} /\ b.queued = sched.queued
      /\ b.l1 = sched.l1 /\ b.l2 = sched.l2 /\ b.prio = sched.prio
  BY <1>1 DEF SP!SchedState
<1>3. SP!WakeUp(sched, d) = a
  BY <1>2 DEF SP!WakeUp, SP!Wake, SP!possibleSwitchTo
<1>4. SP!Block(a, Cur) = b
  BY <1>1, <1>2 DEF SP!Block
<1> HIDE DEF a, b
<1>5. SP!KeepCurrent(b) = b
  BY <1>1, <1>2 DEF SP!KeepCurrent
<1>6. SP!isHighestPrio(b, b.prio[d]) <=> Sched!isHighestPrio(sched, prio(d))
  <2>1. SP!isHighestPrio(b, b.prio[d]) <=> SP!isHighestPrio(sched, sched.prio[d])
    BY <1>2 DEF SP!isHighestPrio, SP!getHighestPrio
  <2> QED  BY <2>1, SameSched DEF prio
<1>7. ~(SP!MustCheck(b) /\ ~SP!isHighestPrio(b, b.prio[d]))
  BY <1>1, <1>2, <1>6 DEF SP!MustCheck, CallDirect, prio
<1>8. SP!Decide(b) = SP!switchToThread(b, d)
  BY <1>1, <1>2, <1>7 DEF SP!Decide
<1>9. SP!switchToThread(b, d) = [b EXCEPT !.cur = d]
  BY <1>1, <1>2 DEF SP!switchToThread, SP!tcbSchedDequeue
<1>10. SP!schedule(b) = [[b EXCEPT !.cur = d] EXCEPT !.action = Resume]
  BY <1>1, <1>2, <1>5, <1>8, <1>9 DEF SP!schedule
<1>11. [[b EXCEPT !.cur = d] EXCEPT !.action = Resume] =
          [sched EXCEPT !.runnable = (@ \ {Cur}) \cup {d}, !.cur = d]
  <2>1. (sched.runnable \cup {d}) \ {Cur} = (sched.runnable \ {Cur}) \cup {d}
    BY <1>1
  <2> QED  BY <1>1, <2>1 DEF SP!SchedState, a, b
<1> QED  BY <1>3, <1>4, <1>10, <1>11

(* The scheduler's part of a call or reply that wakes d and blocks the caller. *)
LEMMA SwitchIsReschedule ==
    ASSUME SystemInv, Cur \in Threads, IsRunning(Cur), NEW d \in Threads, ~IsRunning(d),
           CallDirect(d), Woken = {d}, tcbState'[Cur] # "Running", SwitchFp(d)
    PROVE  Reschedule
<1>1. First = d
  BY DEF First
<1>2. WakeAll(sched) = SP!WakeUp(sched, d)
  BY <1>1, SameSched DEF WakeAll
<1>3. sched' = SP!schedule(SP!Block(WakeAll(sched), Cur))
  BY <1>2, DirectSwitch DEF SwitchFp
<1> QED  BY <1>3, SameSched DEF Reschedule

(* Who is current in user mode is running. *)
LEMMA CurRuns ==
    ASSUME SystemInv, Cur # Idle
    PROVE  Cur \in Threads /\ IsRunning(Cur)
BY KernelSchedAssumption DEF SystemInv, SP!UserInv, SP!HandlerInv, SP!ReadyOK, SP!SchedState, Cur

(* fastpath_call is the slow call of a caller that may grant. *)
LEMMA FastCallIsSlow ==
    ASSUME SystemInv, Cur # Idle, NEW e \in Endpoints, NEW m \in Msgs, fastpath_call(e, m)
    PROVE  SlowCall(e, m, TRUE)
<1> DEFINE d == Head(epQueue[e])
<1>1. Cur \in Threads /\ IsRunning(Cur) /\ KernelInv /\ epState[e] = "Recv"
  BY CurRuns DEF SystemInv, fastpath_call
<1>2. /\ d \in Threads /\ ~IsRunning(d) /\ Cur # d
      /\ epQueue[e] \in Seq(Threads) /\ epQueue[e] # <<>>
      /\ tcbState \in [Threads -> ThreadState] /\ mrs \in [Threads -> MaybeMsg]
  <2>1. d \in Threads /\ InQueue(d)
    BY <1>1, HeadBlocked
  <2> QED  BY <1>1, <2>1 DEF InQueue, IsRunning, KernelInv, KernelTypeOK, QueueInv, QueueMatchesState
<1>3. /\ CallDirect(d) /\ SwitchFp(d)
      /\ epQueue' = [epQueue EXCEPT ![e] = Tail(@)]
      /\ epState' = [epState EXCEPT ![e] = IF Len(epQueue[e]) = 1 THEN "Idle" ELSE @]
      /\ tcbState' = [tcbState EXCEPT ![Cur] = "BlockedOnReply", ![d] = "Running"]
      /\ callerSlot' = [callerSlot EXCEPT ![d] = Cur]
      /\ mrs' = [mrs EXCEPT ![Cur] = m, ![d] = m]
      /\ UNCHANGED <<blocking, savedSlot>>
  BY DEF fastpath_call
<1>4. Len(epQueue[e]) = 1 <=> Tail(epQueue[e]) = <<>>
  <2> DEFINE r == Tail(epQueue[e])
  <2>1. r \in Seq(Threads) /\ Len(r) = Len(epQueue[e]) - 1 /\ Len(epQueue[e]) \in Nat
    BY <1>2
  <2> HIDE DEF r
  <2>2. r = <<>> <=> Len(r) = 0
    BY <2>1, EmptyQueue
  <2>3. Len(epQueue[e]) = 1 <=> r = <<>>
    BY <2>1, <2>2
  <2> QED  BY <2>3 DEF r
<1>5. DequeueHead(e)
  BY <1>3, <1>4 DEF DequeueHead
<1> HIDE DEF d
<1>6. /\ tcbState' = [tcbState EXCEPT ![d] = "Running", ![Cur] = "BlockedOnReply"]
      /\ mrs' = [mrs EXCEPT ![d] = m, ![Cur] = m]
  BY <1>1, <1>2, <1>3
<1>7. Call(Cur, e, m, TRUE)
  BY <1>1, <1>3, <1>5, <1>6 DEF Call, SendIPC, d
<1>8. Woken = {d} /\ tcbState'[Cur] # "Running"
  BY <1>1, <1>2, <1>6 DEF Woken, IsRunning
<1>9. Reschedule
  BY <1>1, <1>2, <1>3, <1>8, SwitchIsReschedule
<1> QED  BY <1>7, <1>9 DEF SlowCall

(* fastpath_reply_recv is the slow one. *)
LEMMA FastReplyRecvIsSlow ==
    ASSUME SystemInv, Cur # Idle, NEW e \in Endpoints, NEW m \in Msgs, fastpath_reply_recv(e, m)
    PROVE  SlowReplyRecv(e, m)
<1> DEFINE c == callerSlot[Cur]
<1>1. Cur \in Threads /\ IsRunning(Cur) /\ KernelInv /\ epState[e] # "Send"
  BY CurRuns DEF SystemInv, fastpath_reply_recv
<1>2. c # NoThread /\ c \in Threads /\ ~IsRunning(c) /\ Cur # c
  <2>1. c # NoThread /\ c \in Threads
    BY <1>1 DEF fastpath_reply_recv, KernelInv, KernelTypeOK, MaybeThread
  <2>2. tcbState[c] = "BlockedOnReply"
    BY <1>1, <2>1 DEF KernelInv, ReplyInv, ReplyCapLive
  <2> QED  BY <1>1, <2>1, <2>2 DEF IsRunning
<1>3. /\ Sched!isHighestPrio(sched, prio(c)) /\ SwitchFp(c)
      /\ epQueue' = [epQueue EXCEPT ![e] = Append(@, Cur)]
      /\ epState' = [epState EXCEPT ![e] = "Recv"]
      /\ tcbState' = [tcbState EXCEPT ![Cur] = "BlockedOnReceive", ![c] = "Running"]
      /\ blocking' = [blocking EXCEPT ![Cur].ep = e]
      /\ callerSlot' = [callerSlot EXCEPT ![Cur] = NoThread]
      /\ mrs' = [mrs EXCEPT ![c] = m]
      /\ UNCHANGED savedSlot
  BY DEF fastpath_reply_recv
<1> HIDE DEF c
<1>4. tcbState' = [Resumed(c) EXCEPT ![Cur] = "BlockedOnReceive"] /\ mrs' = Answered(c, m)
  BY <1>1, <1>2, <1>3 DEF Resumed, Answered, KernelInv, KernelTypeOK
<1>5. ReplyRecv(Cur, e, m)
  BY <1>1, <1>3, <1>4 DEF ReplyRecv, HandleRecv, Enqueue, c
<1>6. Woken = {c} /\ tcbState'[Cur] # "Running"
  BY <1>1, <1>2, <1>3 DEF Woken, IsRunning, KernelInv, KernelTypeOK
<1>7. CallDirect(c)
  BY <1>3 DEF CallDirect
<1>8. Reschedule
  BY <1>1, <1>2, <1>3, <1>6, <1>7, SwitchIsReschedule
<1> QED  BY <1>5, <1>8 DEF SlowReplyRecv

(* So a step of the fastpath is one of the slow path. *)
LEMMA FastStepIsSlow == SystemInv /\ [Next]_vars => [SlowNext]_vars
<1> SUFFICES ASSUME SystemInv, FastNext PROVE SlowNext
  BY DEF Next
<1>1. PICK e \in Endpoints, m \in Msgs : fastpath_call(e, m) \/ fastpath_reply_recv(e, m)
  BY DEF FastNext
<1>2. SlowCall(e, m, TRUE) \/ SlowReplyRecv(e, m)
  BY <1>1, FastCallIsSlow, FastReplyRecvIsSlow DEF FastNext
<1> QED  BY <1>2 DEF SlowNext, FastNext
----------------------------------------------------------------------------
(* The invariant of the system *)

(* One thread runs, and it is current. *)
LEMMA InitInv == Init => SystemInv
<1> SUFFICES ASSUME Init PROVE SystemInv
  OBVIOUS
<1>1. PICK root \in Threads, p \in [Threads -> Sched!Prios] :
          /\ tcbState = [t \in Threads |-> IF t = root THEN "Running" ELSE "Inactive"]
          /\ sched = [runnable |-> {root}, prio |-> p, slice |-> [t \in Threads |-> TimeSlice],
                      queued |-> {}, ready |-> [q \in Sched!Prios |-> <<>>], l1 |-> {},
                      l2 |-> [w \in Sched!Words |-> {}], action |-> Resume, cur |-> root]
  BY DEF Init
<1>2. KernelInv
  <2>1. KernelTypeOK
    <3>1. (CHOOSE e \in Endpoints : TRUE) \in Endpoints
      BY KernelAssumption
    <3>2. blocking \in [Threads -> Blocking]
      BY <3>1 DEF Init, Blocking
    <3>3. tcbState \in [Threads -> ThreadState]
      BY <1>1 DEF ThreadState
    <3> QED  BY <3>2, <3>3 DEF Init, KernelTypeOK, EPState, MaybeThread, MaybeMsg
  <2>2. \A e \in Endpoints : epQueue[e] = <<>> /\ epState[e] = "Idle" /\ Range(epQueue[e]) = {}
    BY DEF Init, Range
  <2>3. \A t \in Threads : tcbState[t] \in {"Running", "Inactive"}
    BY <1>1
  <2>4. QueueInv
    BY SMTT(30), <2>2, <2>3 DEF QueueInv, QueueMatchesState, QueuedOnce, IsInjective, InQueue
  <2>5. ReplyInv
    BY KernelAssumption DEF Init, ReplyInv, ReplyCapLive, ReplyCapUnique, CallerSlotFree
  <2> QED  BY <2>1, <2>4, <2>5 DEF KernelInv
<1>3. Sched!Prios = SP!Prios /\ Sched!Words = SP!Words
  BY DEF Sched!Prios, SP!Prios, Sched!Words, SP!Words, Sched!NumWords, SP!NumWords
<1>4. sched \in SP!SchedState
  <2>1. TimeSlice \in 1 .. TimeSlice
    BY KernelSchedAssumption
  <2> QED  BY <1>1, <1>3, <2>1 DEF SP!SchedState
<1>5. SP!QueuesMatch(sched)
  BY <1>1, <1>3 DEF SP!QueuesMatch, SP!Range, SP!IsInjective
<1>6. \A w \in SP!Words : sched.l2[SP!invert_l1index(w)] = {}
  BY <1>1, <1>3, SP!InvertWord, KernelSchedAssumption
<1>7. SP!BitmapSound(sched) /\ \A q \in SP!Prios : ~SP!Marked(sched, q)
  BY <1>1, <1>6, SP!BitOfPriority, KernelSchedAssumption DEF SP!BitmapSound, SP!Marked
<1>8. SP!ReadyOK(sched)
  BY <1>1, <1>3, <1>4, <1>5, <1>7 DEF SP!ReadyOK
<1>9. SP!UserInv(sched)
  BY <1>1, <1>8, KernelSchedAssumption DEF SP!UserInv, SP!HandlerInv, SP!Candidates
<1>10. sched.runnable = {t \in Threads : IsRunning(t)}
  BY <1>1 DEF IsRunning
<1> QED  BY <1>2, <1>9, <1>10 DEF SystemInv

(* A system call of the current thread, then schedule(). *)
LEMMA SlowNextInv == SystemInv /\ SlowNext => SystemInv'
<1> SUFFICES ASSUME SystemInv, SlowNext PROVE SystemInv'
  OBVIOUS
<1>1. KernelInv /\ SP!UserInv(sched) /\ SP!HandlerInv(sched)
  BY DEF SystemInv, SP!UserInv
<1>2. ASSUME KernelNext, Cur # Idle, Turns, Reschedule PROVE SystemInv'
  BY <1>1, <1>2, CurRuns, KernelNextInv, RescheduleStep DEF SystemInv
<1>3. ASSUME Cur # Idle, NEW e \in Endpoints, NEW m \in Msgs, NEW b \in BOOLEAN,
             SlowCall(e, m, b) \/ SlowSend(e, m, b)
      PROVE  SystemInv'
  <2>1. Turns
    BY <1>1, <1>3, CurRuns, SendTurns DEF SlowCall, SlowSend, Call, Send
  <2> QED  BY <1>2, <1>3, <2>1, CurRuns DEF SlowCall, SlowSend, KernelNext
<1>4. ASSUME Cur # Idle, NEW e \in Endpoints, NEW m \in Msgs, SlowReplyRecv(e, m)
      PROVE  SystemInv'
  <2>1. Turns
    BY <1>1, <1>4, CurRuns, RecvTurns DEF SlowReplyRecv, ReplyRecv
  <2> QED  BY <1>2, <1>4, <2>1, CurRuns DEF SlowReplyRecv, KernelNext
<1>5. ASSUME Cur # Idle, NEW e \in Endpoints, SlowRecv(e)
      PROVE  SystemInv'
  <2>1. Resumed(NoThread) = tcbState
    BY DEF Resumed
  <2>2. ASSUME HandleRecv(tcbState, mrs, Cur, e) PROVE Turns
    BY <1>1, <1>5, <2>1, <2>2, CurRuns, RecvTurns
  <2>3. ASSUME UNCHANGED tcbState PROVE Turns
    BY <2>3, <1>1 DEF Turns, Woken, IsRunning
  <2>4. Turns
    BY <1>5, <2>2, <2>3 DEF SlowRecv, Recv, NBRecv
  <2> QED  BY <1>2, <1>5, <2>4, CurRuns DEF SlowRecv, KernelNext
<1>6. ASSUME Cur # Idle, NEW m \in Msgs, SlowReply(m)
      PROVE  SystemInv'
  <2>1. Turns
    BY <1>1, <1>6, ReplyTurns DEF SlowReply, Reply, SendSaved
  <2> QED  BY <1>2, <1>6, <2>1, CurRuns DEF SlowReply, KernelNext
<1>7. ASSUME Cur # Idle, SlowSaveCaller
      PROVE  SystemInv'
  <2>1. UNCHANGED tcbState
    BY <1>7 DEF SlowSaveCaller, SaveCaller, kernelVars
  <2>2. KernelInv'
    BY <1>1, <1>7, CurRuns, KernelNextInv DEF SlowSaveCaller, KernelNext
  <2> QED  BY <1>7, <2>1, <2>2 DEF SlowSaveCaller, SystemInv, IsRunning
<1>8. ASSUME NEW t \in Threads, SlowSuspend(t)
      PROVE  SystemInv'
  <2> DEFINE k == SP!suspend(sched, t)
  <2>1. SP!HandlerInv(k) /\ k.runnable = sched.runnable \ {t}
    BY <1>1, SP!SuspendStep, KernelSchedAssumption
  <2>2. sched' = SP!schedule(k)
    BY <1>8, SameSched DEF SlowSuspend
  <2> HIDE DEF k
  <2>3. SP!UserInv(sched') /\ sched'.runnable = sched.runnable \ {t}
    BY <2>1, <2>2, SP!ScheduleStep, KernelSchedAssumption
  <2>4. KernelInv' /\ tcbState' = [tcbState EXCEPT ![t] = "Inactive"]
    BY <1>1, <1>8, KernelNextInv DEF SlowSuspend, Suspend, KernelNext
  <2> QED  BY <1>1, <2>3, <2>4 DEF SystemInv, IsRunning, KernelInv, KernelTypeOK
<1>9. ASSUME NEW t \in Threads, SlowResume(t)
      PROVE  SystemInv'
  <2> DEFINE k == SP!restart(sched, t)
  <2>1. SP!HandlerInv(k) /\ k.runnable = sched.runnable \cup {t}
    BY <1>1, SP!RestartStep, KernelSchedAssumption DEF SP!UserInv
  <2>2. sched' = SP!schedule(k)
    BY <1>9, SameSched DEF SlowResume
  <2> HIDE DEF k
  <2>3. SP!UserInv(sched') /\ sched'.runnable = sched.runnable \cup {t}
    BY <2>1, <2>2, SP!ScheduleStep, KernelSchedAssumption
  <2>4. KernelInv' /\ tcbState' = [tcbState EXCEPT ![t] = "Running"]
    BY <1>1, <1>9, KernelNextInv DEF SlowResume, Restart, KernelNext
  <2> QED  BY <1>1, <2>3, <2>4 DEF SystemInv, IsRunning, KernelInv, KernelTypeOK
<1>10. ASSUME Tick PROVE SystemInv'
  <2> DEFINE k == SP!timerTick(sched)
  <2>1. SP!HandlerInv(k) /\ k.runnable = sched.runnable
    BY <1>1, SP!TickStep, KernelSchedAssumption
  <2>2. sched' = SP!schedule(k)
    BY <1>10, SameSched DEF Tick
  <2> HIDE DEF k
  <2>3. SP!UserInv(sched') /\ sched'.runnable = sched.runnable
    BY <2>1, <2>2, SP!ScheduleStep, KernelSchedAssumption
  <2>4. KernelInv' /\ UNCHANGED tcbState
    BY <1>1, <1>10, KernelNextInv DEF Tick, kernelVars
  <2> QED  BY <2>3, <2>4 DEF SystemInv, IsRunning
<1> QED  BY <1>3, <1>4, <1>5, <1>6, <1>7, <1>8, <1>9, <1>10 DEF SlowNext

(* The invariant survives every step: the fastpath's are slow-path steps. *)
LEMMA NextInv == SystemInv /\ [Next]_vars => SystemInv'
<1> SUFFICES ASSUME SystemInv, [Next]_vars PROVE SystemInv'
  OBVIOUS
<1>1. CASE SlowNext
  BY <1>1, SlowNextInv
<1>2. CASE UNCHANGED vars
  <2>1. KernelInv'
    BY <1>2, KernelNextInv DEF SystemInv, vars
  <2> QED  BY <1>2, <2>1 DEF SystemInv, vars, kernelVars, IsRunning
<1> QED  BY <1>1, <1>2, FastStepIsSlow

(* What the invariant says of the properties. *)
LEMMA SystemInvImplies == SystemInv => ReadyExact /\ CurrentHighest
<1> SUFFICES ASSUME SystemInv PROVE ReadyExact /\ CurrentHighest
  OBVIOUS
<1>1. /\ SP!ReadyOK(sched) /\ sched \in SP!SchedState
      /\ sched.queued \subseteq sched.runnable /\ sched.runnable \subseteq sched.queued \cup {Cur}
      /\ Cur \in sched.runnable \cup {Idle} /\ Cur \notin sched.queued
      /\ Cur = Idle => sched.queued = {}
      /\ Cur # Idle => \A u \in sched.queued : sched.prio[u] <= sched.prio[Cur]
      /\ sched.runnable = {t \in Threads : IsRunning(t)} /\ Idle \notin Threads
  BY KernelSchedAssumption
  DEF SystemInv, SP!UserInv, SP!HandlerInv, SP!Candidates, SP!ReadyOK, Cur
<1>2. ReadyExact
  <2>1. SP!QueuesExact
    BY <1>1 DEF SP!ReadyOK, SP!QueuesExact, SP!BitmapExact, SP!BitmapSound, SP!Marked
  <2>2. Sched!QueuesExact
    BY <2>1
    DEF SP!QueuesExact, SP!QueuesMatch, SP!BitmapExact, SP!Range, SP!IsInjective, SP!Prios, SP!Words,
        SP!NumWords, SP!invert_l1index, SP!l1index,
        Sched!QueuesExact, Sched!QueuesMatch, Sched!BitmapExact, Sched!Range, Sched!IsInjective,
        Sched!Prios, Sched!Words, Sched!NumWords, Sched!invert_l1index, Sched!l1index
  <2>3. \A t \in Threads : t \in sched.queued <=> IsRunning(t) /\ t # Cur
    BY <1>1
  <2> QED  BY <2>2, <2>3 DEF ReadyExact
<1>3. CurrentHighest
  <2>1. CASE Cur = Idle
    BY <1>1, <2>1 DEF CurrentHighest
  <2>2. CASE Cur # Idle
    <3>1. sched.prio[Cur] \in Nat /\ Cur \in Threads /\ IsRunning(Cur)
      BY <1>1, <2>2 DEF SP!SchedState, SP!Prios
    <3>2. ASSUME NEW t \in Threads, IsRunning(t) PROVE prio(t) <= prio(Cur)
      BY <1>1, <2>2, <3>1, <3>2 DEF prio
    <3> QED  BY <2>2, <3>1, <3>2 DEF CurrentHighest
  <2> QED  BY <2>1, <2>2
<1> QED  BY <1>2, <1>3

(* The ready queues hold exactly the runnable threads but the current one,
   though the fastpath never touches them. *)
THEOREM ReadyQueuesExact == Spec => []ReadyExact
BY InitInv, NextInv, SystemInvImplies, PTL DEF Spec

(* The current thread is runnable and none outranks it, whatever mix of
   fastpath and slow path brought it to run. *)
THEOREM CurrentIsHighest == Spec => []CurrentHighest
BY InitInv, NextInv, SystemInvImplies, PTL DEF Spec

(* Every step of the fastpath is a step of the slow path, for any threads,
   endpoints, priorities and word width. *)
THEOREM FastpathIsSlowpath == Spec => FastIsSlow
BY InitInv, NextInv, FastStepIsSlow, PTL DEF Spec, FastIsSlow
=============================================================================
