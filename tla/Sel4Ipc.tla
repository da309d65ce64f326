------------------------------ MODULE Sel4Ipc ------------------------------
(***************************************************************************)
(* Synchronous endpoint IPC and reply capabilities of the seL4 kernel the  *)
(* signing device runs on (kernel/src/object/endpoint.c, tcb.c, cnode.c,   *)
(* kernel/thread.c, api/syscall.c; the non-RT kernel).                     *)
(*                                                                         *)
(* Every system call runs to completion under the kernel's single lock, so *)
(* each of them is one atomic action.  A thread has two slots that can     *)
(* hold a reply capability: the caller slot of its TCB (tcbCaller), filled *)
(* by the kernel when a Call is received, and one slot of its CNode that   *)
(* SaveCaller moves the capability to.  Reply capabilities are identified  *)
(* with the thread they resume.                                            *)
(*                                                                         *)
(* Left out: badges, extra capabilities, notifications bound to TCBs (the  *)
(* device has none) and fault messages.  ThreadState_Restart is folded     *)
(* into "Running": a thread in either state is runnable.                   *)
(***************************************************************************)
EXTENDS Naturals, Sequences, Functions, ThreadQueue

CONSTANTS
    Threads,    \* the TCBs
    Endpoints,  \* the endpoint objects
    Msgs,       \* contents of the message registers
    NoThread,   \* an empty capability slot (cap_null_cap)
    NoMsg       \* message registers that hold nothing of interest

ASSUME KernelAssumption == NoThread \notin Threads /\ Endpoints # {}

VARIABLES
    tcbState,   \* [Threads -> ThreadState]
    blocking,   \* the blockingObject and blockingIPC* fields of tcbState
    epState,    \* EPState_Idle, EPState_Send or EPState_Recv
    epQueue,    \* the TCBs queued on an endpoint, head first
    callerSlot, \* tcbCaller: the thread the reply capability in it resumes
    savedSlot,  \* the CNode slot SaveCaller moves a reply capability to
    mrs         \* message registers and IPC buffer of each thread

kernelVars == <<tcbState, blocking, epState, epQueue, callerSlot, savedSlot, mrs>>

ThreadState == {"Inactive", "Running", "BlockedOnReceive", "BlockedOnSend", "BlockedOnReply"}
EPState     == {"Idle", "Send", "Recv"}
Blocking    == [ep : Endpoints, call : BOOLEAN, grant : BOOLEAN]
MaybeThread == Threads \cup {NoThread}
MaybeMsg    == Msgs \cup {NoMsg}

IsRunning(t) == tcbState[t] = "Running"

KernelInit ==
    /\ tcbState   = [t \in Threads |-> "Running"]
    /\ blocking   = [t \in Threads |-> [ep |-> CHOOSE e \in Endpoints : TRUE, call |-> FALSE, grant |-> FALSE]]
    /\ epState    = [e \in Endpoints |-> "Idle"]
    /\ epQueue    = [e \in Endpoints |-> <<>>]
    /\ callerSlot = [t \in Threads |-> NoThread]
    /\ savedSlot  = [t \in Threads |-> NoThread]
    /\ mrs        = [t \in Threads |-> NoMsg]

(* Variant: t joins the head of the queue. *)
EnqueueAtHead(t, e, d) ==
    /\ epQueue' = [epQueue EXCEPT ![e] = <<t>> \o @]
    /\ epState' = [epState EXCEPT ![e] = d]

----------------------------------------------------------------------------
(* tcbEPAppend: t joins the tail of e's queue, which waits in direction d. *)
Enqueue(t, e, d) ==
    /\ epQueue' = [epQueue EXCEPT ![e] = Append(@, t)]
    /\ epState' = [epState EXCEPT ![e] = d]

(* tcbEPDequeue of the head; an emptied endpoint becomes idle. *)
DequeueHead(e) ==
    /\ epQueue' = [epQueue EXCEPT ![e] = Tail(@)]
    /\ epState' = [epState EXCEPT ![e] = IF Tail(epQueue[e]) = <<>> THEN "Idle" ELSE @]

(***************************************************************************)
(* sendIPC.  With a receiver waiting the message is transferred at once    *)
(* and a caller that may grant leaves its reply capability with the        *)
(* receiver (setupCallerCap); a caller that may not is made inactive.      *)
(* Otherwise a blocking sender joins the queue and a non-blocking one      *)
(* drops the message.                                                      *)
(***************************************************************************)
SendIPC(isBlocking, doCall, canGrant, t, e, m) ==
    \/ /\ epState[e] # "Recv"
       /\ isBlocking
       /\ tcbState' = [tcbState EXCEPT ![t] = "BlockedOnSend"]
       /\ blocking' = [blocking EXCEPT ![t] = [ep |-> e, call |-> doCall, grant |-> canGrant]]
       /\ Enqueue(t, e, "Send")
       /\ mrs' = [mrs EXCEPT ![t] = m]
       /\ UNCHANGED <<callerSlot, savedSlot>>
    \/ /\ epState[e] # "Recv"
       /\ ~isBlocking
       /\ UNCHANGED kernelVars
    \/ /\ epState[e] = "Recv"
       /\ LET dest == Head(epQueue[e])
              after == IF ~doCall THEN "Running" ELSE IF canGrant THEN "BlockedOnReply" ELSE "Inactive"
          IN  /\ DequeueHead(e)
              /\ tcbState' = [tcbState EXCEPT ![dest] = "Running", ![t] = after]
              /\ callerSlot' = IF doCall /\ canGrant THEN [callerSlot EXCEPT ![dest] = t] ELSE callerSlot
              /\ mrs' = [mrs EXCEPT ![dest] = m, ![t] = m]
              /\ UNCHANGED <<blocking, savedSlot>>

(* Variant: a queued message is not transferred. *)
HandleRecvNoTransfer(ts, ms, t, e) ==
    \/ /\ epState[e] # "Send"
       /\ tcbState' = [ts EXCEPT ![t] = "BlockedOnReceive"]
       /\ blocking' = [blocking EXCEPT ![t].ep = e]
       /\ Enqueue(t, e, "Recv")
       /\ callerSlot' = [callerSlot EXCEPT ![t] = NoThread]
       /\ mrs' = ms
       /\ UNCHANGED savedSlot
    \/ /\ epState[e] = "Send"
       /\ DequeueHead(e)
       /\ tcbState' = [ts EXCEPT ![Head(epQueue[e])] = "BlockedOnReply"]
       /\ callerSlot' = [callerSlot EXCEPT ![t] = Head(epQueue[e])]
       /\ mrs' = ms
       /\ UNCHANGED <<blocking, savedSlot>>

(***************************************************************************)
(* handleRecv: the capability still in the caller slot is deleted, then    *)
(* receiveIPC takes the first queued sender or blocks.  ts and ms are the  *)
(* thread states and message registers the earlier half of the same system *)
(* call (the reply of ReplyRecv) has left.                                 *)
(***************************************************************************)
HandleRecv(ts, ms, t, e) ==
    \/ /\ epState[e] # "Send"
       /\ tcbState' = [ts EXCEPT ![t] = "BlockedOnReceive"]
       /\ blocking' = [blocking EXCEPT ![t].ep = e]
       /\ Enqueue(t, e, "Recv")
       /\ callerSlot' = [callerSlot EXCEPT ![t] = NoThread]
       /\ mrs' = ms
       /\ UNCHANGED savedSlot
    \/ /\ epState[e] = "Send"
       /\ LET sender == Head(epQueue[e])
              b == blocking[sender]
              after == IF ~b.call THEN "Running" ELSE IF b.grant THEN "BlockedOnReply" ELSE "Inactive"
          IN  /\ DequeueHead(e)
              /\ tcbState' = [ts EXCEPT ![sender] = after]
              /\ callerSlot' = [callerSlot EXCEPT ![t] = IF b.call /\ b.grant THEN sender ELSE NoThread]
              /\ mrs' = [ms EXCEPT ![t] = mrs[sender]]
              /\ UNCHANGED <<blocking, savedSlot>>

----------------------------------------------------------------------------
(* The system calls of a running thread t. *)

(* seL4_Send, seL4_NBSend *)
Send(t, e, m, isBlocking) ==
    /\ IsRunning(t)
    /\ SendIPC(isBlocking, FALSE, FALSE, t, e, m)

(* seL4_Call *)
Call(t, e, m, canGrant) ==
    /\ IsRunning(t)
    /\ SendIPC(TRUE, TRUE, canGrant, t, e, m)

(* seL4_Recv *)
Recv(t, e) ==
    /\ IsRunning(t)
    /\ HandleRecv(tcbState, mrs, t, e)

(* seL4_NBRecv: as Recv, but an idle endpoint delivers nothing. *)
NBRecv(t, e) ==
    /\ IsRunning(t)
    /\ \/ /\ epState[e] = "Send"
          /\ HandleRecv(tcbState, mrs, t, e)
       \/ /\ epState[e] # "Send"
          /\ callerSlot' = [callerSlot EXCEPT ![t] = NoThread]
          /\ UNCHANGED <<tcbState, blocking, epState, epQueue, savedSlot, mrs>>

(* The thread resumed and the registers filled by doReplyTransfer; a thread
   with no caller replies to nobody. *)
Resumed(c)    == IF c = NoThread THEN tcbState ELSE [tcbState EXCEPT ![c] = "Running"]
Answered(c, m) == IF c = NoThread THEN mrs ELSE [mrs EXCEPT ![c] = m]

(* Variant: the reply capability is not used up. *)
ReplyKeepsCap(t, m) ==
    /\ IsRunning(t)
    /\ tcbState' = Resumed(callerSlot[t])
    /\ mrs' = Answered(callerSlot[t], m)
    /\ UNCHANGED <<blocking, epState, epQueue, callerSlot, savedSlot>>

(* seL4_Reply *)
Reply(t, m) ==
    /\ IsRunning(t)
    /\ tcbState' = Resumed(callerSlot[t])
    /\ mrs' = Answered(callerSlot[t], m)
    /\ callerSlot' = [callerSlot EXCEPT ![t] = NoThread]
    /\ UNCHANGED <<blocking, epState, epQueue, savedSlot>>

(* seL4_ReplyRecv: handleReply then handleRecv, in one system call. *)
ReplyRecv(t, e, m) ==
    /\ IsRunning(t)
    /\ HandleRecv(Resumed(callerSlot[t]), Answered(callerSlot[t], m), t, e)

(* seL4_CNode_SaveCaller: refused when the slot is occupied; with no reply
   capability present it succeeds and moves nothing. *)
SaveCallerFails(t) == savedSlot[t] # NoThread

(* Variant: the capability is copied instead of moved. *)
SaveCallerCopies(t) ==
    /\ IsRunning(t)
    /\ ~SaveCallerFails(t)
    /\ savedSlot' = [savedSlot EXCEPT ![t] = callerSlot[t]]
    /\ UNCHANGED <<tcbState, blocking, epState, epQueue, callerSlot, mrs>>

SaveCaller(t) ==
    /\ IsRunning(t)
    /\ IF SaveCallerFails(t)
       THEN UNCHANGED kernelVars
       ELSE /\ savedSlot' = [savedSlot EXCEPT ![t] = callerSlot[t]]
            /\ callerSlot' = [callerSlot EXCEPT ![t] = NoThread]
            /\ UNCHANGED <<tcbState, blocking, epState, epQueue, mrs>>

(* seL4_Send on the CNode slot: invoking a reply capability resumes its
   thread and consumes it; invoking an empty slot does nothing. *)
SendSaved(t, m) ==
    /\ IsRunning(t)
    /\ tcbState' = Resumed(savedSlot[t])
    /\ mrs' = Answered(savedSlot[t], m)
    /\ savedSlot' = [savedSlot EXCEPT ![t] = NoThread]
    /\ UNCHANGED <<blocking, epState, epQueue, callerSlot>>

(***************************************************************************)
(* cancelIPC of a blocked thread: it leaves the queue it is in, or the     *)
(* reply capability that resumes it is deleted from the slot holding it.   *)
(***************************************************************************)
InQueue(t) == tcbState[t] \in {"BlockedOnSend", "BlockedOnReceive"}

Cleared(slot, t) == [u \in Threads |-> IF slot[u] = t THEN NoThread ELSE slot[u]]

CancelIPC(t) ==
    /\ IF InQueue(t)
       THEN LET e == blocking[t].ep
                q == Unlink(epQueue[e], t)
            IN  /\ epQueue' = [epQueue EXCEPT ![e] = q]
                /\ epState' = [epState EXCEPT ![e] = IF q = <<>> THEN "Idle" ELSE @]
       ELSE UNCHANGED <<epQueue, epState>>
    /\ IF tcbState[t] = "BlockedOnReply"
       THEN callerSlot' = Cleared(callerSlot, t) /\ savedSlot' = Cleared(savedSlot, t)
       ELSE UNCHANGED <<callerSlot, savedSlot>>
    /\ UNCHANGED <<blocking, mrs>>

(* suspend: TCB_Suspend on t. *)
Suspend(t) ==
    /\ CancelIPC(t)
    /\ tcbState' = [tcbState EXCEPT ![t] = "Inactive"]

(* Variant: the thread is resumed where it is blocked. *)
RestartInQueue(t) ==
    /\ ~IsRunning(t)
    /\ tcbState' = [tcbState EXCEPT ![t] = "Running"]
    /\ UNCHANGED <<blocking, epState, epQueue, callerSlot, savedSlot, mrs>>

(* restart: TCB_Resume on a blocked or inactive t. *)
Restart(t) ==
    /\ ~IsRunning(t)
    /\ CancelIPC(t)
    /\ tcbState' = [tcbState EXCEPT ![t] = "Running"]

KernelNext ==
    \E t \in Threads :
        \/ \E e \in Endpoints, m \in Msgs :
              \/ \E b \in BOOLEAN : Send(t, e, m, b)
              \/ \E g \in BOOLEAN : Call(t, e, m, g)
              \/ ReplyRecv(t, e, m)
        \/ \E e \in Endpoints : Recv(t, e) \/ NBRecv(t, e)
        \/ \E m \in Msgs : Reply(t, m) \/ SendSaved(t, m)
        \/ SaveCaller(t)
        \/ Suspend(t)
        \/ Restart(t)

KernelSpec == KernelInit /\ [][KernelNext]_kernelVars

----------------------------------------------------------------------------
(* Types of the kernel state. *)
KernelTypeOK ==
    /\ tcbState   \in [Threads -> ThreadState]
    /\ blocking   \in [Threads -> Blocking]
    /\ epState    \in [Endpoints -> EPState]
    /\ epQueue    \in [Endpoints -> Seq(Threads)]
    /\ callerSlot \in [Threads -> MaybeThread]
    /\ savedSlot  \in [Threads -> MaybeThread]
    /\ mrs        \in [Threads -> MaybeMsg]

Direction(t) == IF tcbState[t] = "BlockedOnSend" THEN "Send" ELSE "Recv"

(* An endpoint is idle exactly when nobody is queued on it; the threads queued
   are those blocked on it, all in the direction it waits: no wake-up can be
   lost, the head sendIPC takes really is a receiver and the head receiveIPC
   takes a sender (endpoint.c:80,163,239). *)
QueueMatchesState ==
    \A e \in Endpoints :
        /\ epState[e] = "Idle" <=> epQueue[e] = <<>>
        /\ \A t \in Threads : t \in Range(epQueue[e]) <=> InQueue(t) /\ blocking[t].ep = e
        /\ \A t \in Range(epQueue[e]) : Direction(t) = epState[e]

(* Nobody is queued twice: none can be woken twice, and unlinking a thread
   leaves no trace of it. *)
QueuedOnce == \A e \in Endpoints : IsInjective(epQueue[e])

(* Both: the queues of the endpoints are what the states of the threads say,
   after any sends, receives, cancellations and restarts. *)
QueueInv == QueueMatchesState /\ QueuedOnce

(* A reply capability, in whichever slot, resumes a thread that is waiting for
   a reply: the assertion of doReplyTransfer (thread.c:121). *)
ReplyCapLive ==
    \A t, u \in Threads :
        callerSlot[u] = t \/ savedSlot[u] = t => tcbState[t] = "BlockedOnReply"

(* Reply authority is one-shot: no two slots ever hold capabilities for the
   same caller, so a call is answered at most once. *)
ReplyCapUnique ==
    \A t, u, v \in Threads :
        /\ callerSlot[u] = t /\ callerSlot[v] = t => u = v
        /\ savedSlot[u] = t /\ savedSlot[v] = t => u = v
        /\ ~(callerSlot[u] = t /\ savedSlot[v] = t)

(* A thread blocked in a receive holds no reply capability in its caller slot:
   the assertion of setupCallerCap, "Caller cap must not already exist"
   (tcb.c:280). *)
CallerSlotFree ==
    \A t \in Threads : tcbState[t] = "BlockedOnReceive" => callerSlot[t] = NoThread

(* All three: setupCallerCap, doReplyTransfer and SaveCaller find what they
   assert, whichever thread was cancelled, restarted or answered before. *)
ReplyInv == ReplyCapLive /\ ReplyCapUnique /\ CallerSlotFree

(* A blocked or inactive thread starts to run only because it is restarted,
   because it was at the head of the queue it is in, or because the holder of
   its reply capability used that capability up. *)
Resumption(t) ==
    \/ Restart(t)
    \/ InQueue(t) /\ t = Head(epQueue[blocking[t].ep])
    \/ /\ \E u \in Threads : IsRunning(u) /\ t \in {callerSlot[u], savedSlot[u]}
       /\ \A u \in Threads : t \notin {callerSlot'[u], savedSlot'[u]}

ResumptionStep == \A t \in Threads : ~IsRunning(t) /\ IsRunning(t)' => Resumption(t)

ResumedRightly == [][ResumptionStep]_kernelVars

(* Queues are served first come first served: while a thread stays queued
   nobody ahead of it is joined by a later arrival. *)
InArrivalOrder(before, after) ==
    \A i, j \in DOMAIN after :
        (i < j /\ \E k \in DOMAIN before : before[k] = after[j]) =>
            \E h, k \in DOMAIN before : h < k /\ before[h] = after[i] /\ before[k] = after[j]

ArrivalStep == \A e \in Endpoints : InArrivalOrder(epQueue[e], epQueue'[e])

FirstComeFirstServed == [][ArrivalStep]_kernelVars
=============================================================================
