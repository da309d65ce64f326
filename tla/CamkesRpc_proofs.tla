--------------------------- MODULE CamkesRpc_proofs --------------------------
(***************************************************************************)
(* The seL4RPCCall connector keeps track of every reply capability and     *)
(* implements the service of RpcService, whatever threads, interfaces and  *)
(* calls there are, nested or circular ones included, as long as no server *)
(* discards a request it has received.                                     *)
(*                                                                         *)
(* The invariant relates three places: where a thread is in the generated  *)
(* code, how the kernel has it blocked, and which slot holds the           *)
(* capability that will resume it.  A thread blocks in one of two places   *)
(* only, its receive and its call; while it is blocked in a call neither   *)
(* its request nor its position in it can change, so what the callee holds *)
(* keeps its meaning until the callee itself uses it up.                   *)
(***************************************************************************)
EXTENDS CamkesRpc, Sel4Ipc_proofs

(* No server discards a request: its error handler does not, or nothing it is
   sent is malformed.  A stub may still discard a call it could not make. *)
RequestsKept == "CEA_DISCARD" \in HandlerReturns => Malformed = {}

----------------------------------------------------------------------------
(* The invariant *)

CallOf(t) == [ep |-> NextCall(t).to, call |-> TRUE, grant |-> TRUE]

(* Where the kernel blocks a thread says where in its code it is. *)
ThreadOK(t) ==
    /\ pc[t] \in {"marshal", "wait"} => CallsLeft(t)
    /\ tcbState[t] = "BlockedOnReceive" => t \in Servers /\ pc[t] = "declare" /\ blocking[t].ep = t
    /\ tcbState[t] = "BlockedOnSend" =>
          pc[t] = "wait" /\ blocking[t] = CallOf(t) /\ mrs[t] = NextCall(t).msg
    /\ tcbState[t] = "BlockedOnReply" =>
          pc[t] = "wait" /\ t \in {callerSlot[NextCall(t).to], savedSlot[NextCall(t).to]}
    /\ ~saveError[t]

(* A control thread is never given a reply capability. *)
ClientOK(c) ==
    /\ pc[c] \in {"body", "marshal", "wait", "done", "aborted"}
    /\ callerSlot[c] = NoThread /\ savedSlot[c] = NoThread /\ ~replyCapInTcb[c]

(* A server has at most one, and knows where. *)
ServerOK(s) ==
    /\ replyCapInTcb[s] => replyCapSlot[s]
    /\ pc[s] \notin {"start", "aborted"} => cnodeCap[s]
    /\ NoThread \in {callerSlot[s], savedSlot[s]}
    /\ IF pc[s] \in Serving
       THEN /\ replyCapInTcb[s] <=> callerSlot[s] # NoThread
            /\ ~replyCapInTcb[s] <=> savedSlot[s] # NoThread
       ELSE pc[s] # "aborted" => savedSlot[s] = NoThread /\ ~replyCapInTcb[s]
    /\ pc[s] \in {"start", "recv"} => callerSlot[s] = NoThread
    /\ pc[s] = "declare" /\ IsRunning(s) => callerSlot[s] # NoThread
    /\ pc[s] = "unmarshal" => replyCapInTcb[s]
    /\ pc[s] \in {"declare", "unmarshal"} /\ callerSlot[s] # NoThread =>
          mrs[s] = NextCall(callerSlot[s]).msg
    /\ pc[s] \in {"body", "marshal", "wait", "reply"} => req[s] = NextCall(Holder(s)).msg

AllOK(t) ==
    /\ ThreadOK(t)
    /\ t \in Clients => ClientOK(t)
    /\ t \in Servers => ServerOK(t)

RpcInv ==
    /\ RpcTypeOK /\ QueueInv /\ ReplyInv
    /\ \A t \in Threads : AllOK(t)

----------------------------------------------------------------------------
(* What a step leaves alone *)

Untouched(u) ==
    /\ tcbState'[u] = tcbState[u] /\ blocking'[u] = blocking[u] /\ mrs'[u] = mrs[u]
    /\ callerSlot'[u] = callerSlot[u] /\ savedSlot'[u] = savedSlot[u]
    /\ pc'[u] = pc[u] /\ step'[u] = step[u] /\ req'[u] = req[u]
    /\ cnodeCap'[u] = cnodeCap[u] /\ replyCapSlot'[u] = replyCapSlot[u]
    /\ replyCapInTcb'[u] = replyCapInTcb[u] /\ saveError'[u] = saveError[u]

(* Untouched, and whoever resumes it still does. *)
Kept(u) ==
    /\ Untouched(u)
    /\ tcbState[u] = "BlockedOnReply" =>
          u \in {callerSlot'[NextCall(u).to], savedSlot'[NextCall(u).to]}

(* A thread that does not run stays where it is in its calls. *)
CallsFixed == \A u \in Threads : ~IsRunning(u) => step'[u] = step[u] /\ req'[u] = req[u]

(* The next call of a thread that has one is to an interface. *)
LEMMA CallTyped ==
    ASSUME RpcTypeOK, NEW t \in Threads, CallsLeft(t)
    PROVE  NextCall(t) \in RpcCall
<1>1. Body[t][req[t]] \in Seq(RpcCall) /\ step[t] \in Nat \ {0}
  BY RpcAssumption DEF RpcTypeOK
<1> QED  BY <1>1 DEF CallsLeft, NextCall

(* The holder of a server's reply capability is waiting for its reply. *)
LEMMA HolderWaits ==
    ASSUME RpcInv, NEW s \in Servers, NEW t \in Threads, t \in {callerSlot[s], savedSlot[s]}
    PROVE  tcbState[t] = "BlockedOnReply" /\ NextCall(t).to = s /\ pc[t] = "wait" /\ t # NoThread
<1>1. s \in Threads /\ t # NoThread
  BY RpcAssumption, KernelAssumption
<1>2. tcbState[t] = "BlockedOnReply"
  BY <1>1 DEF RpcInv, ReplyInv, ReplyCapLive
<1>3. pc[t] = "wait" /\ t \in {callerSlot[NextCall(t).to], savedSlot[NextCall(t).to]}
  BY <1>2 DEF RpcInv, AllOK, ThreadOK
<1>4. NextCall(t) \in RpcCall
  BY <1>3, CallTyped DEF RpcInv, AllOK, ThreadOK
<1>5. NextCall(t).to \in Threads
  BY <1>4, RpcAssumption DEF RpcCall
<1> QED  BY <1>1, <1>2, <1>3, <1>5 DEF RpcInv, ReplyInv, ReplyCapUnique

(* It is enough to look at the threads a step touches. *)
LEMMA FrameStep ==
    ASSUME RpcInv, RpcTypeOK', QueueInv', ReplyInv', CallsFixed,
           NEW T \in SUBSET Threads, \A u \in Threads \ T : Kept(u), \A u \in T : AllOK(u)'
    PROVE  RpcInv'
<1> USE RpcAssumption DEF AllOK
<1>1. ASSUME NEW u \in Threads \ T PROVE ThreadOK(u)'
  <2>1. Kept(u) /\ ThreadOK(u)
    BY DEF RpcInv
  <2>2. NextCall(u)' = NextCall(u) /\ CallsLeft(u)' = CallsLeft(u)
    BY <2>1 DEF Kept, Untouched, NextCall, CallsLeft
  <2>3. CallOf(u)' = CallOf(u)
    BY <2>2 DEF CallOf
  <2> QED  BY <2>1, <2>2, <2>3 DEF ThreadOK, Kept, Untouched
<1>2. ASSUME NEW u \in Clients \ T PROVE ClientOK(u)'
  BY <1>2 DEF RpcInv, AllOK, ClientOK, Kept, Untouched
<1>3. ASSUME NEW s \in Servers \ T PROVE ServerOK(s)'
  <2>1. s \in Threads /\ ServerOK(s) /\ Untouched(s)
    BY <1>3 DEF RpcInv, Kept
  <2>2. callerSlot[s] \in MaybeThread /\ savedSlot[s] \in MaybeThread
    BY <2>1 DEF RpcInv, RpcTypeOK, KernelTypeOK
  <2>3. ASSUME NEW h \in {callerSlot[s], savedSlot[s]}, h # NoThread
        PROVE  NextCall(h)' = NextCall(h)
    <3>1. h \in Threads /\ ~IsRunning(h)
      BY <1>3, <2>2, <2>3, HolderWaits DEF MaybeThread, IsRunning
    <3> QED  BY <3>1 DEF CallsFixed, NextCall
  <2>4. Holder(s)' = Holder(s) /\ IsRunning(s)' = IsRunning(s)
    BY <2>1 DEF Untouched, Holder, IsRunning
  <2>5. pc[s] \in Serving => Holder(s) # NoThread
    BY <2>1 DEF ServerOK, Holder
  <2>6. Holder(s) \in {callerSlot[s], savedSlot[s]}
    BY DEF Holder
  <2>7. pc[s] \in Serving => NextCall(Holder(s))' = NextCall(Holder(s))
    <3> DEFINE h == Holder(s)
    <3>1. pc[s] \in Serving => Body[h][req'[h]][step'[h]] = Body[h][req[h]][step[h]]
      BY <2>3, <2>5, <2>6 DEF NextCall
    <3> QED  BY <2>4, <3>1 DEF NextCall
  <2>8. callerSlot[s] # NoThread => NextCall(callerSlot[s])' = NextCall(callerSlot[s])
    <3> DEFINE h == callerSlot[s]
    <3>1. h # NoThread => Body[h][req'[h]][step'[h]] = Body[h][req[h]][step[h]]
      BY <2>3 DEF NextCall
    <3> QED  BY <2>1, <3>1 DEF NextCall, Untouched
  <2> QED  BY <2>1, <2>4, <2>7, <2>8 DEF ServerOK, Untouched, Serving
<1> QED  BY <1>1, <1>2, <1>3 DEF RpcInv
----------------------------------------------------------------------------
(* Types, and the kernel's part of a step *)

(* A step of the connector is a system call or none. *)
LEMMA KernelStep == RpcInv /\ [Next]_vars => KernelInv'
<1> SUFFICES ASSUME RpcInv, [Next]_vars PROVE KernelInv'
  OBVIOUS
<1> USE RpcAssumption
<1>1. ASSUME [KernelNext]_kernelVars PROVE KernelInv'
  BY <1>1, KernelNextInv DEF RpcInv, RpcTypeOK, KernelInv
<1>2. ASSUME NEW t \in Threads, NEW l, Err(t, l) PROVE KernelInv'
  BY <1>1, <1>2 DEF Err, Abort, KernelNext
<1>3. ASSUME NEW t \in Threads, Stub(t) PROVE KernelInv'
  <2>1. CASE Protect(t)
    BY <1>1, <2>1 DEF Protect, KernelNext
  <2>2. CASE PerformCall(t)
    <3>1. CallsLeft(t)
      BY <2>2 DEF PerformCall, At, RpcInv, AllOK, ThreadOK
    <3>2. NextCall(t).to \in Endpoints /\ NextCall(t).msg \in Msgs
      BY <3>1, CallTyped DEF RpcInv, RpcCall
    <3> QED  BY <1>1, <2>2, <3>2 DEF PerformCall, KernelNext
  <2>3. CASE MarshalError(t)
    BY <1>2, <2>3 DEF MarshalError
  <2>4. CASE Return(t) \/ Finish(t)
    BY <1>1, <2>4 DEF Return, Finish
  <2> QED  BY <1>3, <2>1, <2>2, <2>3, <2>4 DEF Stub
<1>4. ASSUME NEW s \in Servers, Serve(s) PROVE KernelInv'
  <2>1. CASE RecvFirst(s) \/ RecvNext(s)
    BY <1>1, <2>1 DEF RecvFirst, RecvNext, KernelNext
  <2>2. CASE DeclareReplyCap(s)
    BY <1>1, <2>2 DEF DeclareReplyCap, Abort, KernelNext
  <2>3. CASE Unmarshal(s)
    BY <1>1, <2>3 DEF Unmarshal
  <2>4. CASE UnmarshalError(s)
    BY <1>2, <2>4 DEF UnmarshalError
  <2>5. CASE ReplyRecvNext(s)
    BY <1>1, <2>5 DEF ReplyRecvNext, KernelNext
  <2>6. CASE ReplySaved(s)
    BY <1>1, <2>6 DEF ReplySaved, KernelNext
  <2> QED  BY <1>4, <2>1, <2>2, <2>3, <2>4, <2>5, <2>6 DEF Serve
<1>5. CASE UNCHANGED vars
  BY <1>1, <1>5 DEF vars
<1> QED  BY <1>3, <1>4, <1>5 DEF Next

(* Every action keeps its variables typed. *)
LEMMA TypeStep == RpcInv /\ [Next]_vars => RpcTypeOK'
<1> SUFFICES ASSUME RpcInv, [Next]_vars PROVE RpcTypeOK'
  OBVIOUS
<1> USE RpcAssumption DEF RpcTypeOK, Goto, Label
<1>1. RpcTypeOK /\ KernelTypeOK'
  BY KernelStep DEF RpcInv, KernelInv
<1>2. mrs \in [Threads -> MaybeMsg]
  BY <1>1 DEF KernelTypeOK
<1>3. ASSUME NEW t \in Threads, NEW l \in Label, Err(t, l)
      PROVE  pc' \in [Threads -> Label] /\ halted' \in BOOLEAN
  BY <1>1, <1>3 DEF Err, Abort
<1>4. ASSUME NEW t \in Threads, Stub(t) PROVE RpcTypeOK'
  <2>1. CASE Protect(t)
    BY <1>1, <2>1 DEF Protect
  <2>2. CASE PerformCall(t)
    BY <1>1, <2>2 DEF PerformCall, tls
  <2>3. CASE MarshalError(t)
    BY <1>1, <1>3, <2>3 DEF MarshalError, tls
  <2>4. CASE Return(t)
    BY <1>1, <2>4 DEF Return, tls
  <2>5. CASE Finish(t)
    BY <1>1, <2>5 DEF Finish, tls
  <2> QED  BY <1>4, <2>1, <2>2, <2>3, <2>4, <2>5 DEF Stub
<1>5. ASSUME NEW s \in Servers, Serve(s) PROVE RpcTypeOK'
  <2>1. CASE RecvFirst(s)
    BY <1>1, <2>1 DEF RecvFirst
  <2>2. CASE RecvNext(s)
    BY <1>1, <2>2 DEF RecvNext, tls
  <2>3. CASE DeclareReplyCap(s)
    BY <1>1, <2>3 DEF DeclareReplyCap, Abort, tls
  <2>4. CASE Unmarshal(s)
    BY <1>1, <1>2, <2>4 DEF Unmarshal, tls
  <2>5. CASE UnmarshalError(s)
    BY <1>1, <1>3, <2>5 DEF UnmarshalError, tls
  <2>6. CASE ReplyRecvNext(s)
    BY <1>1, <2>6 DEF ReplyRecvNext
  <2>7. CASE ReplySaved(s)
    BY <1>1, <2>7 DEF ReplySaved
  <2> QED  BY <1>5, <2>1, <2>2, <2>3, <2>4, <2>5, <2>6, <2>7 DEF Serve
<1>6. CASE UNCHANGED vars
  BY <1>1, <1>6 DEF vars, tls
<1> QED  BY <1>4, <1>5, <1>6 DEF Next
----------------------------------------------------------------------------
(* Steps of one thread alone *)

(* A running thread that keeps the capabilities it has. *)
LEMMA SoloStep ==
    ASSUME RpcInv, RpcTypeOK', KernelInv', NEW t \in Threads, IsRunning(t),
           \A u \in Threads \ {t} : Untouched(u),
           \A u \in Threads : u \in {callerSlot[t], savedSlot[t]} => u \in {callerSlot'[t], savedSlot'[t]},
           AllOK(t)'
    PROVE  RpcInv'
<1>1. CallsFixed
  BY DEF CallsFixed, Untouched
<1>2. ASSUME NEW u \in Threads \ {t} PROVE Kept(u)
  <2>1. CASE tcbState[u] = "BlockedOnReply"
    <3>1. u \in {callerSlot[NextCall(u).to], savedSlot[NextCall(u).to]} /\ CallsLeft(u)
      BY <2>1 DEF RpcInv, AllOK, ThreadOK
    <3>2. NextCall(u).to \in Threads
      BY <3>1, CallTyped, RpcAssumption DEF RpcInv, RpcCall
    <3> QED  BY <3>1, <3>2 DEF Kept, Untouched
  <2> QED  BY <2>1 DEF Kept
<1> DEFINE T == {t}
<1>3. T \in SUBSET Threads /\ (\A u \in T : AllOK(u)') /\ QueueInv' /\ ReplyInv'
  BY DEF KernelInv
<1>4. \A u \in Threads \ T : Kept(u)
  BY <1>2
<1> HIDE DEF T
<1> QED  BY <1>1, <1>3, <1>4, FrameStep

(* A running thread is in no wait of its own. *)
LEMMA RunningOK ==
    ASSUME NEW t \in Threads, tcbState'[t] \in {"Running", "Inactive"}, ~saveError'[t],
           pc'[t] \in {"marshal", "wait"} => CallsLeft(t)'
    PROVE  ThreadOK(t)'
BY DEF ThreadOK

(* sel4_abort of a running thread: it leaves no queue, and nobody waits for a
   capability that resumes it. *)
LEMMA AbortStep ==
    ASSUME RpcInv, RpcTypeOK', KernelInv', NEW t \in Threads, IsRunning(t), Abort(t),
           UNCHANGED <<step, req, tls>>
    PROVE  RpcInv'
<1>1. /\ tcbState' = [tcbState EXCEPT ![t] = "Inactive"] /\ pc' = [pc EXCEPT ![t] = "aborted"]
      /\ UNCHANGED <<blocking, callerSlot, savedSlot, mrs>>
  BY DEF Abort, Suspend, CancelIPC, IsRunning, InQueue, Goto
<1>2. \A u \in Threads \ {t} : Untouched(u)
  BY <1>1 DEF Untouched, tls, RpcInv, RpcTypeOK, KernelTypeOK
<1>3. tcbState'[t] = "Inactive" /\ pc'[t] = "aborted"
  BY <1>1 DEF RpcInv, RpcTypeOK, KernelTypeOK
<1>4. ThreadOK(t)'
  BY <1>3, RunningOK DEF RpcInv, AllOK, ThreadOK, tls
<1>5. t \in Clients => ClientOK(t)'
  BY <1>1, <1>3 DEF RpcInv, AllOK, ClientOK, tls
<1>6. t \in Servers => ServerOK(t)'
  BY <1>1, <1>3 DEF RpcInv, AllOK, ServerOK, tls, Serving
<1>7. callerSlot'[t] = callerSlot[t] /\ savedSlot'[t] = savedSlot[t]
  BY <1>1
<1> QED  BY <1>2, <1>4, <1>5, <1>6, <1>7, SoloStep DEF AllOK

(* The error macro halts, aborts, or goes on where a discard may go on. *)
LEMMA ErrStep ==
    ASSUME RpcInv, RpcTypeOK', KernelInv', NEW t \in Threads, IsRunning(t), NEW l, Err(t, l),
           UNCHANGED <<step, req, tls>>,
           "CEA_DISCARD" \in HandlerReturns => pc[t] = "marshal" /\ l = "wait"
    PROVE  RpcInv'
<1>1. CASE Abort(t)
  BY <1>1, AbortStep
<1>2. CASE UNCHANGED <<kernelVars, pc>>
  <2>1. \A u \in Threads : Untouched(u)
    BY <1>2 DEF Untouched, kernelVars, tls
  <2>2. ThreadOK(t)' /\ (t \in Clients => ClientOK(t)') /\ (t \in Servers => ServerOK(t)')
    BY <1>2 DEF kernelVars, tls, RpcInv, AllOK, ThreadOK, ClientOK, ServerOK, NextCall, CallsLeft, CallOf, Holder,
                IsRunning
  <2> QED  BY <1>2, <2>1, <2>2, SoloStep DEF kernelVars, AllOK
<1>3. CASE "CEA_DISCARD" \in HandlerReturns /\ Goto(t, l) /\ UNCHANGED kernelVars
  <2>1. pc' = [pc EXCEPT ![t] = "wait"] /\ pc[t] = "marshal" /\ pc'[t] = "wait"
    BY <1>3 DEF Goto, RpcInv, RpcTypeOK
  <2>2. \A u \in Threads \ {t} : Untouched(u)
    BY <1>3, <2>1 DEF Untouched, kernelVars, tls, RpcInv, RpcTypeOK
  <2>3. ThreadOK(t)'
    BY <1>3, <2>1, RunningOK DEF RpcInv, AllOK, ThreadOK, IsRunning, kernelVars, tls, CallsLeft
  <2>4. t \in Clients => ClientOK(t)'
    BY <1>3, <2>1 DEF RpcInv, AllOK, ClientOK, kernelVars, tls
  <2>5. t \in Servers => ServerOK(t)'
    BY <1>3, <2>1 DEF RpcInv, AllOK, ServerOK, kernelVars, tls, Serving, Holder, NextCall
  <2> QED  BY <1>3, <2>2, <2>3, <2>4, <2>5, SoloStep DEF kernelVars, AllOK
<1> QED  BY <1>1, <1>2, <1>3 DEF Err

(* The steps of the generated code between two system calls. *)
LEMMA QuietRpcStep ==
    ASSUME RpcInv, RpcTypeOK', KernelInv', NEW t \in Threads,
           \/ Return(t) \/ Finish(t)
           \/ t \in Servers /\ Unmarshal(t)
    PROVE  RpcInv'
<1> USE RpcAssumption
<1>1. UNCHANGED kernelVars /\ UNCHANGED tls /\ At(t, pc[t])
  BY DEF Return, Finish, Unmarshal, At
<1>2. \A u \in Threads \ {t} : Untouched(u)
  BY <1>1 DEF Return, Finish, Unmarshal, Goto, Untouched, kernelVars, tls, RpcInv, RpcTypeOK
<1>3. \A u \in Threads : u \in {callerSlot[t], savedSlot[t]} => u \in {callerSlot'[t], savedSlot'[t]}
  BY <1>1 DEF kernelVars
<1>4. tcbState'[t] = "Running" /\ ~saveError'[t]
  BY <1>1 DEF kernelVars, tls, At, IsRunning, RpcInv, AllOK, ThreadOK
<1>5. ASSUME Return(t) PROVE AllOK(t)'
  <2>1. /\ pc[t] = "wait" /\ pc'[t] = "body" /\ req'[t] = req[t]
        /\ \A u \in Threads \ {t} : step'[u] = step[u] /\ req'[u] = req[u]
    BY <1>5 DEF Return, At, Goto, RpcInv, RpcTypeOK
  <2>2. ThreadOK(t)'
    BY <2>1, <1>4, RunningOK
  <2>3. t \in Clients => ClientOK(t)'
    BY <2>1, <1>1 DEF RpcInv, AllOK, ClientOK, kernelVars, tls
  <2>4. ASSUME t \in Servers PROVE ServerOK(t)'
    <3>1. ServerOK(t) /\ Holder(t)' = Holder(t)
      BY <1>1, <2>4 DEF RpcInv, AllOK, Holder, kernelVars, tls
    <3>2. Holder(t) \in Threads \ {t}
      BY SMTT(30), <2>1, <2>4, <3>1, <1>1, HolderWaits
      DEF ServerOK, Serving, Holder, RpcInv, RpcTypeOK, KernelTypeOK, MaybeThread, At, IsRunning
    <3>3. NextCall(Holder(t))' = NextCall(Holder(t))
      BY <2>1, <3>1, <3>2 DEF NextCall
    <3> QED  BY <1>1, <2>1, <3>1, <3>3 DEF ServerOK, Serving, kernelVars, tls
  <2> QED  BY <2>2, <2>3, <2>4 DEF AllOK
<1>6. ASSUME Finish(t) PROVE AllOK(t)'
  <2>1. /\ pc[t] = "body" /\ pc'[t] = (IF t \in Servers THEN "reply" ELSE "done")
        /\ UNCHANGED <<step, req>>
    BY <1>6 DEF Finish, At, Goto, RpcInv, RpcTypeOK
  <2>2. ThreadOK(t)'
    BY <2>1, <1>4, RunningOK
  <2>3. t \in Clients => ClientOK(t)'
    BY <2>1, <1>1 DEF RpcInv, AllOK, ClientOK, kernelVars, tls
  <2>4. ASSUME t \in Servers PROVE ServerOK(t)'
    <3>1. ServerOK(t) /\ Holder(t)' = Holder(t)
      BY <1>1, <2>4 DEF RpcInv, AllOK, Holder, kernelVars, tls
    <3>2. NextCall(Holder(t))' = NextCall(Holder(t))
      BY <2>1, <3>1 DEF NextCall
    <3> QED  BY <1>1, <2>1, <2>4, <3>1, <3>2 DEF ServerOK, Serving, kernelVars, tls
  <2> QED  BY <2>2, <2>3, <2>4 DEF AllOK
<1>7. ASSUME t \in Servers, Unmarshal(t) PROVE AllOK(t)'
  <2>1. /\ pc[t] = "unmarshal" /\ pc'[t] = "body" /\ req'[t] = mrs[t]
        /\ \A u \in Threads \ {t} : step'[u] = step[u] /\ req'[u] = req[u]
    BY <1>7 DEF Unmarshal, At, Goto, RpcInv, RpcTypeOK
  <2>2. ThreadOK(t)'
    BY <2>1, <1>4, RunningOK
  <2>3. ServerOK(t) /\ Holder(t)' = Holder(t) /\ Holder(t) = callerSlot[t] /\ t \notin Clients
    BY <1>1, <1>7, <2>1 DEF RpcInv, AllOK, ServerOK, Holder, kernelVars, tls
  <2>4. callerSlot[t] \in Threads \ {t}
    BY SMTT(30), <2>1, <2>3, <1>1, <1>7, HolderWaits
    DEF ServerOK, Serving, RpcInv, RpcTypeOK, KernelTypeOK, MaybeThread, At, IsRunning
  <2>5. NextCall(Holder(t))' = NextCall(callerSlot[t])
    BY <2>1, <2>3, <2>4 DEF NextCall
  <2>6. mrs[t] = NextCall(callerSlot[t]).msg
    BY <2>1, <2>3, <2>4, KernelAssumption DEF ServerOK
  <2>7. ServerOK(t)'
    BY <1>1, <2>1, <2>3, <2>5, <2>6 DEF ServerOK, Serving, kernelVars, tls
  <2> QED  BY <2>2, <2>3, <2>7 DEF AllOK
<1> QED  BY <1>1, <1>2, <1>3, <1>5, <1>6, <1>7, SoloStep DEF At

(* camkes_declare_reply_cap: what the receive left in the TCB is declared, and
   nothing was declared before, so the assertion holds. *)
LEMMA DeclareStep ==
    ASSUME RpcInv, RpcTypeOK', KernelInv', NEW s \in Servers, DeclareReplyCap(s)
    PROVE  RpcInv'
<1> USE RpcAssumption
<1>1. s \in Threads /\ pc[s] = "declare" /\ IsRunning(s) /\ ServerOK(s) /\ ThreadOK(s)
  BY DEF DeclareReplyCap, At, RpcInv, AllOK
<1>2. ~replyCapInTcb[s]
  BY <1>1 DEF ServerOK, Serving
<1>3. /\ replyCapSlot' = [replyCapSlot EXCEPT ![s] = TRUE]
      /\ replyCapInTcb' = [replyCapInTcb EXCEPT ![s] = TRUE]
      /\ pc' = [pc EXCEPT ![s] = "unmarshal"]
      /\ UNCHANGED <<kernelVars, step, req, cnodeCap, saveError>>
  BY <1>2 DEF DeclareReplyCap, Goto
<1>4. replyCapSlot'[s] /\ replyCapInTcb'[s] /\ pc'[s] = "unmarshal"
  BY <1>1, <1>3 DEF RpcInv, RpcTypeOK
<1>5. \A u \in Threads \ {s} : Untouched(u)
  BY <1>3 DEF Untouched, kernelVars, RpcInv, RpcTypeOK
<1>6. ThreadOK(s)'
  BY <1>1, <1>3, <1>4, RunningOK DEF kernelVars, IsRunning, ThreadOK
<1>7. \A h : NextCall(h)' = NextCall(h)
  BY <1>3 DEF NextCall
<1>8. ServerOK(s)'
  BY <1>1, <1>2, <1>3, <1>4, <1>7 DEF ServerOK, Serving, kernelVars, RpcInv, RpcTypeOK, KernelTypeOK
<1> QED  BY <1>1, <1>3, <1>5, <1>6, <1>8, SoloStep DEF kernelVars, AllOK

(* camkes_protect_reply_cap: the slot in the CNode is free whenever there is a
   capability to save, so SaveCaller succeeds. *)
LEMMA ProtectStep ==
    ASSUME RpcInv, RpcTypeOK', KernelInv', NEW t \in Threads, Protect(t)
    PROVE  RpcInv'
<1> USE RpcAssumption
<1>1. /\ pc[t] = "body" /\ IsRunning(t) /\ AllOK(t) /\ CallsLeft(t)
      /\ pc' = [pc EXCEPT ![t] = "marshal"]
      /\ UNCHANGED <<step, req, cnodeCap, replyCapSlot>>
  BY DEF Protect, At, RpcInv, Goto
<1>2. pc'[t] = "marshal" /\ CallsLeft(t)' /\ \A h : NextCall(h)' = NextCall(h)
  BY <1>1 DEF RpcInv, RpcTypeOK, CallsLeft, NextCall
<1>3. CASE ~replyCapInTcb[t]
  <2>1. UNCHANGED <<kernelVars, replyCapInTcb, saveError>>
    BY <1>3 DEF Protect
  <2>2. \A u \in Threads \ {t} : Untouched(u)
    BY <1>1, <2>1 DEF Untouched, kernelVars, RpcInv, RpcTypeOK
  <2>3. ThreadOK(t)'
    BY <1>1, <1>2, <2>1, RunningOK DEF kernelVars, IsRunning, AllOK, ThreadOK
  <2>4. t \in Clients => ClientOK(t)'
    BY <1>1, <1>2, <2>1 DEF AllOK, ClientOK, kernelVars
  <2>5. t \in Servers => ServerOK(t)'
    BY <1>1, <1>2, <2>1 DEF AllOK, ServerOK, Serving, Holder, kernelVars
  <2> QED  BY <1>1, <2>1, <2>2, <2>3, <2>4, <2>5, SoloStep DEF kernelVars, AllOK
<1>4. CASE replyCapInTcb[t]
  <2>1. t \in Servers /\ ServerOK(t) /\ t \notin Clients
    BY <1>1, <1>4 DEF AllOK, ClientOK
  <2>2. cnodeCap[t] /\ savedSlot[t] = NoThread /\ callerSlot[t] # NoThread
    BY <1>1, <1>4, <2>1 DEF ServerOK, Serving
  <2>3. /\ savedSlot' = [savedSlot EXCEPT ![t] = callerSlot[t]]
        /\ callerSlot' = [callerSlot EXCEPT ![t] = NoThread]
        /\ replyCapInTcb' = [replyCapInTcb EXCEPT ![t] = FALSE]
        /\ saveError' = [saveError EXCEPT ![t] = FALSE]
        /\ UNCHANGED <<tcbState, blocking, epState, epQueue, mrs>>
    BY <1>4, <2>2 DEF Protect, SaveCaller, SaveCallerFails
  <2>4. /\ savedSlot'[t] = callerSlot[t] /\ callerSlot'[t] = NoThread
        /\ ~replyCapInTcb'[t] /\ ~saveError'[t]
    BY <2>3 DEF RpcInv, RpcTypeOK, KernelTypeOK
  <2>5. \A u \in Threads \ {t} : Untouched(u)
    BY <1>1, <2>3 DEF Untouched, RpcInv, RpcTypeOK, KernelTypeOK
  <2>6. \A u \in Threads : u \in {callerSlot[t], savedSlot[t]} => u \in {callerSlot'[t], savedSlot'[t]}
    BY <2>2, <2>4, KernelAssumption
  <2>7. ThreadOK(t)'
    BY <1>1, <1>2, <2>3, <2>4, RunningOK DEF IsRunning
  <2>8. Holder(t)' = Holder(t)
    BY <1>4, <2>4 DEF Holder
  <2>9. ServerOK(t)'
    BY <1>1, <1>2, <2>1, <2>2, <2>4, <2>8 DEF ServerOK, Serving
  <2> QED  BY <1>1, <2>1, <2>5, <2>6, <2>7, <2>9, SoloStep DEF AllOK
<1> QED  BY <1>3, <1>4
----------------------------------------------------------------------------
(* Steps between a client and a server *)

(* Who waits to receive at an interface is its server, with both slots free. *)
LEMMA ReceiverIsServer ==
    ASSUME RpcInv, NEW s \in Servers, epState[s] = "Recv"
    PROVE  /\ Head(epQueue[s]) = s /\ tcbState[s] = "BlockedOnReceive" /\ pc[s] = "declare"
           /\ callerSlot[s] = NoThread /\ savedSlot[s] = NoThread
<1> USE RpcAssumption
<1>1. KernelInv /\ s \in Endpoints /\ s \in Threads
  BY DEF RpcInv, RpcTypeOK, KernelInv
<1> DEFINE h == Head(epQueue[s])
<1>2. h \in Threads /\ tcbState[h] = "BlockedOnReceive" /\ blocking[h].ep = s
  BY <1>1, HeadBlocked DEF InQueue, Direction
<1> HIDE DEF h
<1>3. h = s /\ pc[s] = "declare"
  BY <1>2 DEF RpcInv, AllOK, ThreadOK
<1>4. callerSlot[s] = NoThread
  BY <1>1, <1>2, <1>3 DEF KernelInv, ReplyInv, CallerSlotFree
<1>5. savedSlot[s] = NoThread
  BY <1>1, <1>3 DEF RpcInv, AllOK, ServerOK, Serving
<1> QED  BY <1>2, <1>3, <1>4, <1>5 DEF h

(* perform_call: the caller queues up at the interface, or its server, found
   in its receive, gets the request and the capability to answer it. *)
LEMMA CallStep ==
    ASSUME RpcInv, RpcTypeOK', KernelInv', NEW t \in Threads, PerformCall(t)
    PROVE  RpcInv'
<1> USE RpcAssumption
<1>1. /\ pc[t] = "marshal" /\ IsRunning(t) /\ AllOK(t) /\ CallsLeft(t)
      /\ pc' = [pc EXCEPT ![t] = "wait"]
      /\ UNCHANGED <<step, req, tls>>
      /\ SendIPC(TRUE, TRUE, TRUE, t, NextCall(t).to, NextCall(t).msg)
  BY DEF PerformCall, Call, At, RpcInv, AllOK, ThreadOK, Goto
<1>2. PICK d \in Servers, m \in Msgs : d = NextCall(t).to /\ m = NextCall(t).msg /\ d \in Threads
  BY <1>1, CallTyped DEF RpcInv, RpcCall
<1>3. \A h : NextCall(h)' = NextCall(h)
  BY <1>1 DEF NextCall
<1>4. pc'[t] = "wait" /\ CallsLeft(t)' /\ ~saveError'[t]
  BY <1>1 DEF RpcInv, RpcTypeOK, CallsLeft, AllOK, ThreadOK, tls
<1>5. CASE epState[d] # "Recv"
  <2>1. /\ tcbState' = [tcbState EXCEPT ![t] = "BlockedOnSend"]
        /\ blocking' = [blocking EXCEPT ![t] = [ep |-> d, call |-> TRUE, grant |-> TRUE]]
        /\ mrs' = [mrs EXCEPT ![t] = m]
        /\ UNCHANGED <<callerSlot, savedSlot>>
    BY <1>1, <1>2, <1>5 DEF SendIPC
  <2>2. \A u \in Threads \ {t} : Untouched(u)
    BY <1>1, <2>1 DEF Untouched, RpcInv, RpcTypeOK, KernelTypeOK, tls
  <2>3. tcbState'[t] = "BlockedOnSend" /\ blocking'[t] = CallOf(t) /\ mrs'[t] = m
    BY <1>2, <2>1 DEF RpcInv, RpcTypeOK, KernelTypeOK, CallOf
  <2>4. CallOf(t)' = CallOf(t)
    BY <1>3 DEF CallOf
  <2>5. ThreadOK(t)'
    BY <1>1, <1>2, <1>3, <1>4, <2>3, <2>4 DEF ThreadOK
  <2>6. t \in Clients => ClientOK(t)'
    BY <1>1, <1>4, <2>1 DEF AllOK, ClientOK, tls
  <2>7. t \in Servers => ServerOK(t)'
    BY <1>1, <1>3, <1>4, <2>1 DEF AllOK, ServerOK, Serving, Holder, tls
  <2>8. callerSlot'[t] = callerSlot[t] /\ savedSlot'[t] = savedSlot[t]
    BY <2>1
  <2> QED  BY <1>1, <2>2, <2>5, <2>6, <2>7, <2>8, SoloStep DEF AllOK
<1>6. CASE epState[d] = "Recv"
  <2>1. /\ Head(epQueue[d]) = d /\ tcbState[d] = "BlockedOnReceive" /\ pc[d] = "declare"
        /\ callerSlot[d] = NoThread /\ savedSlot[d] = NoThread /\ d # t /\ AllOK(d)
    BY <1>1, <1>2, <1>6, ReceiverIsServer DEF IsRunning, RpcInv
  <2>2. /\ tcbState' = [tcbState EXCEPT ![d] = "Running", ![t] = "BlockedOnReply"]
        /\ callerSlot' = [callerSlot EXCEPT ![d] = t]
        /\ mrs' = [mrs EXCEPT ![d] = m, ![t] = m]
        /\ UNCHANGED <<blocking, savedSlot>>
    BY <1>1, <1>2, <1>6, <2>1 DEF SendIPC
  <2>3. /\ tcbState'[d] = "Running" /\ tcbState'[t] = "BlockedOnReply"
        /\ callerSlot'[d] = t /\ callerSlot'[t] = callerSlot[t] /\ mrs'[d] = m
    BY <1>2, <2>1, <2>2 DEF RpcInv, RpcTypeOK, KernelTypeOK
  <2>4. \A u \in Threads \ {t, d} : Untouched(u)
    BY <1>1, <2>2 DEF Untouched, RpcInv, RpcTypeOK, KernelTypeOK, tls
  <2>5. ASSUME NEW u \in Threads \ {t, d} PROVE Kept(u)
    <3>1. CASE tcbState[u] = "BlockedOnReply"
      <4>1. u \in {callerSlot[NextCall(u).to], savedSlot[NextCall(u).to]} /\ CallsLeft(u)
        BY <3>1 DEF RpcInv, AllOK, ThreadOK
      <4>2. NextCall(u).to # d
        BY <4>1, <2>1, KernelAssumption
      <4>3. callerSlot'[NextCall(u).to] = callerSlot[NextCall(u).to]
        BY <4>1, <4>2, <2>2, CallTyped DEF RpcInv, RpcTypeOK, KernelTypeOK, RpcCall
      <4> QED  BY <2>2, <2>4, <4>1, <4>3 DEF Kept
    <3> QED  BY <3>1, <2>4 DEF Kept
  <2>6. ThreadOK(t)'
    BY <1>1, <1>2, <1>3, <1>4, <2>3 DEF ThreadOK
  <2>7. t \in Clients => ClientOK(t)'
    BY <1>1, <1>4, <2>2, <2>3 DEF AllOK, ClientOK, tls
  <2>8. t \in Servers => ServerOK(t)'
    BY <1>1, <1>3, <1>4, <2>2, <2>3 DEF AllOK, ServerOK, Serving, Holder, tls
  <2>9. pc'[d] = "declare" /\ savedSlot'[d] = NoThread /\ callerSlot'[d] # NoThread /\ d \notin Clients
    BY <1>1, <1>2, <2>1, <2>2, <2>3, KernelAssumption DEF RpcInv, RpcTypeOK
  <2>10. NextCall(callerSlot[d])'.msg = mrs'[d]
    BY <1>2, <1>3, <2>3 DEF NextCall
  <2>11. ThreadOK(d)'
    BY <1>1, <2>1, <2>3, <2>9, <1>2, RunningOK DEF AllOK, ThreadOK, tls
  <2>12. ServerOK(d)'
    BY <1>1, <1>2, <2>1, <2>9, <2>10 DEF AllOK, ServerOK, Serving, tls
  <2>13. CallsFixed
    BY <1>1 DEF CallsFixed
  <2> DEFINE T == {t, d}
  <2>14. T \in SUBSET Threads /\ (\A u \in T : AllOK(u)') /\ QueueInv' /\ ReplyInv'
    BY <1>2, <2>6, <2>7, <2>8, <2>9, <2>11, <2>12 DEF KernelInv, AllOK
  <2>15. \A u \in Threads \ T : Kept(u)
    BY <2>5
  <2> HIDE DEF T
  <2> QED  BY <2>13, <2>14, <2>15, FrameStep
<1> QED  BY <1>5, <1>6

(* The threads a reply changes: who is resumed was waiting in its call. *)
LEMMA ResumedWaits ==
    ASSUME RpcInv, NEW s \in Servers, NEW c \in {callerSlot[s], savedSlot[s]}
    PROVE  /\ Resumed(c) \in [Threads -> ThreadState]
           /\ \A u \in Threads : Resumed(c)[u] = IF u = c THEN "Running" ELSE tcbState[u]
           /\ \A u \in Threads \ {c} : Answered(c, Ack)[u] = mrs[u]
           /\ c # NoThread => c \in Threads /\ tcbState[c] = "BlockedOnReply" /\ pc[c] = "wait"
<1> USE RpcAssumption, KernelAssumption
<1>1. /\ s \in Threads /\ c \in MaybeThread /\ tcbState \in [Threads -> ThreadState]
      /\ mrs \in [Threads -> MaybeMsg]
  BY SMTT(30) DEF RpcInv, RpcTypeOK, KernelTypeOK
<1>2. c # NoThread => c \in Threads /\ tcbState[c] = "BlockedOnReply" /\ pc[c] = "wait"
  BY <1>1, HolderWaits DEF MaybeThread
<1>3. \A u \in Threads \ {c} : Answered(c, Ack)[u] = mrs[u]
  BY <1>1 DEF Answered
<1>4. CASE c = NoThread
  BY <1>1, <1>2, <1>3, <1>4 DEF Resumed
<1>5. CASE c # NoThread
  BY <1>1, <1>2, <1>3, <1>5 DEF Resumed, ThreadState
<1> QED  BY <1>4, <1>5

(* A thread that a reply resumes goes on in its stub. *)
LEMMA ResumedOK ==
    ASSUME RpcInv, NEW c \in Threads, tcbState[c] \in {"BlockedOnReply", "BlockedOnSend"},
           tcbState'[c] = "Running",
           callerSlot'[c] = callerSlot[c], savedSlot'[c] = savedSlot[c],
           pc'[c] = pc[c], step' = step, req' = req,
           cnodeCap'[c] = cnodeCap[c], replyCapSlot'[c] = replyCapSlot[c],
           replyCapInTcb'[c] = replyCapInTcb[c], saveError'[c] = saveError[c]
    PROVE  AllOK(c)'
<1>1. AllOK(c) /\ pc[c] = "wait"
  BY DEF RpcInv, AllOK, ThreadOK
<1>2. \A h : NextCall(h)' = NextCall(h)
  BY DEF NextCall
<1>3. ThreadOK(c)'
  BY <1>1, RunningOK DEF AllOK, ThreadOK, CallsLeft
<1>4. c \in Clients => ClientOK(c)'
  BY <1>1 DEF AllOK, ClientOK
<1>5. c \in Servers => ServerOK(c)'
  BY <1>1, <1>2 DEF AllOK, ServerOK, Serving, Holder
<1> QED  BY <1>3, <1>4, <1>5 DEF AllOK

(* The receive of a server, after the reply of the same system call if it has
   made one: it blocks with both slots free, or the caller at the head of its
   queue is now waiting for the capability in its TCB. *)
LEMMA ReceiveStep ==
    ASSUME RpcInv, RpcTypeOK', KernelInv', NEW s \in Servers, IsRunning(s),
           savedSlot[s] = NoThread,
           HandleRecv(Resumed(callerSlot[s]), Answered(callerSlot[s], Ack), s, s),
           Goto(s, "declare"), UNCHANGED <<step, req, replyCapSlot, saveError>>,
           \A u \in Threads \ {s} :
              cnodeCap'[u] = cnodeCap[u] /\ replyCapInTcb'[u] = replyCapInTcb[u],
           cnodeCap'[s], ~replyCapInTcb'[s]
    PROVE  RpcInv'
<1> USE RpcAssumption, KernelAssumption
<1>1. PICK c \in {callerSlot[s], savedSlot[s]} : c = callerSlot[s]
  OBVIOUS
<1>2. /\ s \in Threads /\ s \in Endpoints /\ s \notin Clients /\ c # s
      /\ AllOK(s) /\ KernelInv
  <2>1. c # NoThread => tcbState[c] = "BlockedOnReply"
    BY ResumedWaits
  <2> QED  BY <2>1 DEF RpcInv, RpcTypeOK, KernelInv, IsRunning
<1>3. /\ \A u \in Threads : Resumed(c)[u] = IF u = c THEN "Running" ELSE tcbState[u]
      /\ \A u \in Threads \ {c} : Answered(c, Ack)[u] = mrs[u]
      /\ c # NoThread => c \in Threads /\ tcbState[c] = "BlockedOnReply" /\ pc[c] = "wait"
      /\ Resumed(c) \in [Threads -> ThreadState]
  BY <1>1, ResumedWaits
<1>4. /\ pc'[s] = "declare" /\ savedSlot' = savedSlot /\ \A u \in Threads \ {s} : pc'[u] = pc[u]
  BY DEF Goto, HandleRecv, RpcInv, RpcTypeOK
<1>5. \A h : NextCall(h)' = NextCall(h)
  BY DEF NextCall
<1>6. CallsFixed /\ ~saveError'[s] /\ savedSlot'[s] = NoThread
  BY <1>2, <1>4 DEF CallsFixed, AllOK, ThreadOK
<1>7. PICK T : T \in SUBSET Threads /\ T = {u \in Threads : u = s \/ u = c \/ tcbState'[u] # tcbState[u]}
  OBVIOUS
<1>8. \A u \in Threads \ {s} : callerSlot'[u] = callerSlot[u]
  BY DEF HandleRecv, RpcInv, RpcTypeOK, KernelTypeOK
<1>9. ASSUME NEW u \in Threads \ T PROVE Kept(u)
  <2>1. u # s /\ u # c /\ tcbState'[u] = tcbState[u]
    BY <1>7
  <2>2. blocking'[u] = blocking[u] /\ mrs'[u] = mrs[u]
    <3>1. blocking \in [Threads -> Blocking] /\ Answered(c, Ack) \in [Threads -> MaybeMsg]
      BY <1>3 DEF RpcInv, RpcTypeOK, KernelTypeOK, Answered, MaybeMsg
    <3> QED  BY <1>1, <1>3, <2>1, <3>1 DEF HandleRecv
  <2>3. Untouched(u)
    BY <1>4, <1>8, <2>1, <2>2 DEF Untouched
  <2>4. CASE tcbState[u] = "BlockedOnReply"
    <3>1. u \in {callerSlot[NextCall(u).to], savedSlot[NextCall(u).to]} /\ CallsLeft(u)
      BY <2>4 DEF RpcInv, AllOK, ThreadOK
    <3>2. NextCall(u).to # s /\ NextCall(u).to \in Threads
      BY <1>1, <2>1, <3>1, CallTyped DEF RpcInv, RpcCall
    <3> QED  BY <1>4, <1>8, <2>3, <3>1, <3>2 DEF Kept
  <2> QED  BY <2>3, <2>4 DEF Kept
<1>10. ASSUME c \in Threads, tcbState'[c] = "Running" PROVE AllOK(c)'
  BY <1>2, <1>3, <1>4, <1>8, <1>10, ResumedOK
<1>11. CASE epState[s] # "Send"
  <2>1. /\ tcbState' = [Resumed(c) EXCEPT ![s] = "BlockedOnReceive"]
        /\ blocking'[s].ep = s /\ callerSlot'[s] = NoThread
    <3>1. /\ tcbState' = [Resumed(c) EXCEPT ![s] = "BlockedOnReceive"]
          /\ blocking' = [blocking EXCEPT ![s].ep = s]
          /\ callerSlot' = [callerSlot EXCEPT ![s] = NoThread]
      BY <1>1, <1>11 DEF HandleRecv
    <3>2. blocking[s] \in Blocking /\ s \in DOMAIN blocking /\ s \in DOMAIN callerSlot
      BY <1>2 DEF RpcInv, RpcTypeOK, KernelTypeOK
    <3> QED  BY <3>1, <3>2 DEF Blocking
  <2>2. tcbState'[s] = "BlockedOnReceive" /\ \A u \in Threads \ {s, c} : tcbState'[u] = tcbState[u]
    BY <1>3, <2>1
  <2>3. c \in Threads => tcbState'[c] = "Running"
    BY <1>2, <1>3, <2>1
  <2>4. AllOK(s)'
    BY <1>2, <1>4, <1>6, <2>1, <2>2 DEF AllOK, ThreadOK, ServerOK, Serving, IsRunning
  <2>5. \A u \in T : AllOK(u)'
    BY <1>7, <1>10, <2>2, <2>3, <2>4
  <2> QED  BY <1>6, <1>7, <1>9, <2>5, FrameStep DEF KernelInv
<1>12. CASE epState[s] = "Send"
  <2>1. PICK h : h = Head(epQueue[s])
    OBVIOUS
  <2>2. h \in Threads /\ tcbState[h] = "BlockedOnSend" /\ blocking[h].ep = s
    BY <1>2, <1>12, <2>1, HeadBlocked DEF InQueue, Direction
  <2>3. /\ pc[h] = "wait" /\ NextCall(h).to = s /\ blocking[h].call /\ blocking[h].grant
        /\ mrs[h] = NextCall(h).msg /\ CallsLeft(h) /\ h # s /\ h # c
    <3>1. /\ pc[h] = "wait" /\ blocking[h] = CallOf(h) /\ mrs[h] = NextCall(h).msg /\ CallsLeft(h)
      BY <2>2 DEF RpcInv, AllOK, ThreadOK
    <3> QED  BY <1>3, <2>2, <3>1 DEF CallOf, IsRunning
  <2>4. /\ tcbState' = [Resumed(c) EXCEPT ![h] = "BlockedOnReply"]
        /\ callerSlot' = [callerSlot EXCEPT ![s] = h]
        /\ mrs' = [Answered(c, Ack) EXCEPT ![s] = mrs[h]]
    BY <1>1, <1>12, <2>1, <2>3 DEF HandleRecv
  <2>5. callerSlot'[s] = h /\ mrs'[s] = NextCall(h).msg
    <3>1. s \in DOMAIN Answered(c, Ack) /\ s \in DOMAIN callerSlot
      BY <1>2, <1>3 DEF Answered, RpcInv, RpcTypeOK, KernelTypeOK
    <3> QED  BY <2>3, <2>4, <3>1
  <2>6. /\ tcbState'[h] = "BlockedOnReply" /\ tcbState'[s] = "Running"
        /\ \A u \in Threads \ {h, c} : tcbState'[u] = tcbState[u]
    BY <1>2, <1>3, <2>2, <2>3, <2>4 DEF IsRunning
  <2>7. c \in Threads => tcbState'[c] = "Running"
    BY <1>3, <2>3, <2>4
  <2>8. AllOK(h)'
    <3>1. AllOK(h) /\ pc'[h] = "wait" /\ h \in Threads
      BY <1>4, <2>2, <2>3 DEF RpcInv
    <3>2. ThreadOK(h)'
      BY <1>5, <2>3, <2>5, <2>6, <3>1 DEF AllOK, ThreadOK, CallsLeft
    <3>3. h \in Clients => ClientOK(h)'
      BY <1>4, <1>8, <2>3, <3>1 DEF AllOK, ClientOK
    <3>4. h \in Servers => ServerOK(h)'
      BY <1>4, <1>5, <1>8, <2>3, <3>1 DEF AllOK, ServerOK, Serving, Holder
    <3> QED  BY <3>2, <3>3, <3>4 DEF AllOK
  <2>9. AllOK(s)'
    <3>1. ThreadOK(s)'
      BY <1>2, <1>4, <1>6, <2>6, RunningOK
    <3>2. NextCall(callerSlot[s])'.msg = mrs'[s] /\ h # NoThread
      BY <1>5, <2>2, <2>5 DEF NextCall
    <3>3. ServerOK(s)'
      BY <1>2, <1>4, <1>6, <2>5, <3>2 DEF AllOK, ServerOK, Serving
    <3> QED  BY <1>2, <3>1, <3>3 DEF AllOK
  <2>10. \A u \in T : AllOK(u)'
    BY <1>7, <1>10, <2>6, <2>7, <2>8, <2>9
  <2> QED  BY <1>6, <1>7, <1>9, <2>10, FrameStep DEF KernelInv
<1> QED  BY <1>11, <1>12

(* The reply through the saved capability uses it up. *)
LEMMA SavedReplyStep ==
    ASSUME RpcInv, RpcTypeOK', KernelInv', NEW s \in Servers, ReplySaved(s)
    PROVE  RpcInv'
<1> USE RpcAssumption, KernelAssumption
<1>1. PICK c \in {callerSlot[s], savedSlot[s]} : c = savedSlot[s]
  OBVIOUS
<1>2. /\ s \in Threads /\ s \notin Clients /\ AllOK(s)
      /\ IsRunning(s) /\ pc[s] = "reply" /\ ~replyCapInTcb[s]
  BY DEF ReplySaved, At, RpcInv
<1>3. /\ \A u \in Threads : Resumed(c)[u] = IF u = c THEN "Running" ELSE tcbState[u]
      /\ \A u \in Threads \ {c} : Answered(c, Ack)[u] = mrs[u]
      /\ c # NoThread => c \in Threads /\ tcbState[c] = "BlockedOnReply" /\ pc[c] = "wait"
  BY ResumedWaits
<1>4. c # s /\ callerSlot[s] = NoThread
  BY <1>2, <1>3 DEF IsRunning, AllOK, ServerOK, Serving
<1>5. /\ tcbState' = Resumed(c) /\ mrs' = Answered(c, Ack)
      /\ savedSlot' = [savedSlot EXCEPT ![s] = NoThread]
      /\ pc' = [pc EXCEPT ![s] = "recv"]
      /\ \A u \in Threads \ {s} : replyCapSlot'[u] = replyCapSlot[u]
      /\ UNCHANGED <<blocking, callerSlot, step, req, cnodeCap, replyCapInTcb, saveError>>
  BY <1>1 DEF ReplySaved, SendSaved, Goto, RpcInv, RpcTypeOK
<1>6. pc'[s] = "recv" /\ savedSlot'[s] = NoThread /\ CallsFixed
  BY <1>2, <1>5 DEF CallsFixed, RpcInv, RpcTypeOK, KernelTypeOK
<1>7. \A u \in Threads \ {s} : pc'[u] = pc[u] /\ savedSlot'[u] = savedSlot[u]
  BY <1>5 DEF RpcInv, RpcTypeOK, KernelTypeOK
<1>8. PICK T : T \in SUBSET Threads /\ T = {u \in Threads : u = s \/ u = c}
  OBVIOUS
<1>9. ASSUME NEW u \in Threads \ T PROVE Kept(u)
  <2>1. u # s /\ u # c
    BY <1>8
  <2>2. Untouched(u)
    BY <1>3, <1>5, <1>7, <2>1 DEF Untouched
  <2>3. CASE tcbState[u] = "BlockedOnReply"
    <3>1. u \in {callerSlot[NextCall(u).to], savedSlot[NextCall(u).to]} /\ CallsLeft(u)
      BY <2>3 DEF RpcInv, AllOK, ThreadOK
    <3>2. NextCall(u).to # s /\ NextCall(u).to \in Threads
      BY <1>1, <1>4, <2>1, <3>1, CallTyped DEF RpcInv, RpcCall
    <3> QED  BY <1>5, <1>7, <2>2, <3>1, <3>2 DEF Kept
  <2> QED  BY <2>2, <2>3 DEF Kept
<1>10. ASSUME c \in Threads PROVE AllOK(c)'
  BY <1>3, <1>4, <1>5, <1>7, <1>10, ResumedOK
<1>11. AllOK(s)'
  <2>1. tcbState'[s] = "Running" /\ ~saveError'[s]
    BY <1>2, <1>3, <1>4, <1>5 DEF IsRunning, AllOK, ThreadOK
  <2>2. ThreadOK(s)'
    BY <1>2, <1>6, <2>1, RunningOK
  <2>3. ServerOK(s)'
    BY <1>2, <1>4, <1>5, <1>6 DEF AllOK, ServerOK, Serving
  <2> QED  BY <1>2, <2>2, <2>3 DEF AllOK
<1>12. \A u \in T : AllOK(u)'
  BY <1>8, <1>10, <1>11
<1> QED  BY <1>6, <1>8, <1>9, <1>12, FrameStep DEF KernelInv

----------------------------------------------------------------------------
(* The invariant *)

(* Nobody is blocked and no capability exists. *)
LEMMA RpcInit == Init => RpcInv
<1> SUFFICES ASSUME Init PROVE RpcInv
  OBVIOUS
<1> USE RpcAssumption, KernelAssumption
<1>1. KernelInv
  BY KernelInitInv DEF Init
<1>2. RpcTypeOK
  <2>1. pc \in [Threads -> Label]
    BY DEF Init, Label
  <2>2. served \in [Servers -> Seq(MaybeMsg)]
    BY DEF Init
  <2>3. step \in [Threads -> Nat \ {0}] /\ req \in [Threads -> MaybeMsg]
    BY DEF Init, MaybeMsg
  <2> QED  BY <1>1, <2>1, <2>2, <2>3 DEF Init, RpcTypeOK, KernelInv
<1>3. ASSUME NEW t \in Threads PROVE AllOK(t)
  <2>1. ThreadOK(t)
    BY DEF Init, KernelInit, ThreadOK
  <2>2. t \in Clients => ClientOK(t)
    BY DEF Init, KernelInit, ClientOK
  <2>3. t \in Servers => ServerOK(t)
    BY DEF Init, KernelInit, ServerOK, Serving, IsRunning
  <2> QED  BY <2>1, <2>2, <2>3 DEF AllOK
<1> QED  BY <1>1, <1>2, <1>3 DEF RpcInv, KernelInv

(* The invariant survives every step of servers that keep their requests. *)
LEMMA RpcStep == RequestsKept /\ RpcInv /\ [Next]_vars => RpcInv'
<1> SUFFICES ASSUME RequestsKept, RpcInv, [Next]_vars PROVE RpcInv'
  OBVIOUS
<1> USE RpcAssumption, KernelStep, TypeStep
<1>1. ASSUME NEW t \in Threads, Stub(t) PROVE RpcInv'
  <2>1. CASE MarshalError(t)
    BY <2>1, ErrStep DEF MarshalError, At
  <2> QED  BY <1>1, <2>1, ProtectStep, CallStep, QuietRpcStep DEF Stub
<1>2. ASSUME NEW s \in Servers, Serve(s) PROVE RpcInv'
  <2>1. s \in Threads /\ AllOK(s)
    BY DEF RpcInv
  <2>2. CASE RecvFirst(s) \/ RecvNext(s)
    <3>1. /\ IsRunning(s) /\ pc[s] \in {"start", "recv"} /\ HandleRecv(tcbState, mrs, s, s)
          /\ Goto(s, "declare") /\ UNCHANGED <<step, req, replyCapSlot, saveError, replyCapInTcb>>
          /\ cnodeCap'[s] /\ \A u \in Threads \ {s} : cnodeCap'[u] = cnodeCap[u]
      BY <2>1, <2>2 DEF RecvFirst, RecvNext, At, Recv, tls, RpcInv, RpcTypeOK, AllOK, ServerOK
    <3>2. callerSlot[s] = NoThread /\ savedSlot[s] = NoThread /\ ~replyCapInTcb[s]
      BY <1>2, <2>1, <3>1 DEF AllOK, ServerOK, Serving
    <3>3. Resumed(callerSlot[s]) = tcbState /\ Answered(callerSlot[s], Ack) = mrs
      BY <3>2 DEF Resumed, Answered
    <3> QED  BY <1>2, <3>1, <3>2, <3>3, ReceiveStep
  <2>3. CASE ReplyRecvNext(s)
    <3>1. /\ IsRunning(s) /\ pc[s] = "reply" /\ replyCapInTcb[s]
          /\ HandleRecv(Resumed(callerSlot[s]), Answered(callerSlot[s], Ack), s, s)
          /\ Goto(s, "declare") /\ UNCHANGED <<step, req, cnodeCap, replyCapSlot, saveError>>
          /\ replyCapInTcb' = [replyCapInTcb EXCEPT ![s] = FALSE]
      BY <2>3 DEF ReplyRecvNext, At, ReplyRecv
    <3>2. cnodeCap[s] /\ savedSlot[s] = NoThread
      BY <1>2, <2>1, <3>1 DEF AllOK, ServerOK, Serving
    <3>3. ~replyCapInTcb'[s] /\ \A u \in Threads \ {s} : replyCapInTcb'[u] = replyCapInTcb[u]
      BY <2>1, <3>1 DEF RpcInv, RpcTypeOK
    <3> QED  BY <1>2, <3>1, <3>2, <3>3, ReceiveStep
  <2>4. CASE UnmarshalError(s)
    <3>1. "CEA_DISCARD" \notin HandlerReturns
      BY <2>4 DEF UnmarshalError, RequestsKept
    <3> QED  BY <2>1, <2>4, <3>1, ErrStep DEF UnmarshalError, At
  <2>5. CASE DeclareReplyCap(s)
    BY <1>2, <2>5, DeclareStep
  <2>6. CASE Unmarshal(s)
    BY <1>2, <2>1, <2>6, QuietRpcStep
  <2>7. CASE ReplySaved(s)
    BY <1>2, <2>7, SavedReplyStep
  <2> QED  BY <1>2, <2>2, <2>3, <2>4, <2>5, <2>6, <2>7 DEF Serve
<1>3. CASE UNCHANGED vars
  <2>1. CallsFixed /\ \A u \in Threads : Kept(u)
    <3>1. ASSUME NEW u \in Threads PROVE Kept(u)
      BY <1>3 DEF vars, kernelVars, tls, Kept, Untouched, RpcInv, AllOK, ThreadOK
    <3> QED  BY <1>3, <3>1 DEF vars, CallsFixed
  <2>2. PICK T : T \in SUBSET Threads /\ T = {}
    OBVIOUS
  <2> QED  BY <2>1, <2>2, FrameStep DEF KernelInv
<1> QED  BY <1>1, <1>2, <1>3 DEF Next

(* It says what the properties say. *)
LEMMA RpcInvImplies == RpcInv => ReplyCapTracked /\ CalleeHoldsReplyCap /\ RequestIntact
<1> SUFFICES ASSUME RpcInv PROVE ReplyCapTracked /\ CalleeHoldsReplyCap /\ RequestIntact
  OBVIOUS
<1> USE RpcAssumption
<1>1. \A t \in Threads : AllOK(t)
  BY DEF RpcInv
<1>2. ReplyCapTracked
  BY <1>1 DEF AllOK, ThreadOK, ServerOK, ReplyCapTracked
<1>3. CalleeHoldsReplyCap
  BY <1>1 DEF AllOK, ThreadOK, CalleeHoldsReplyCap
<1>4. ASSUME NEW s \in Servers, pc[s] \in {"body", "marshal", "wait", "reply"}
      PROVE  Holder(s) \in Threads /\ req[s] = NextCall(Holder(s)).msg
  <2>1. ServerOK(s) /\ s \in Threads
    BY <1>1, <1>4 DEF AllOK
  <2>2. callerSlot[s] \in MaybeThread /\ savedSlot[s] \in MaybeThread
    BY <2>1 DEF RpcInv, RpcTypeOK, KernelTypeOK
  <2>3. Holder(s) \in Threads
    BY <1>4, <2>1, <2>2 DEF ServerOK, Serving, Holder, MaybeThread
  <2> QED  BY <1>4, <2>1, <2>3 DEF ServerOK
<1> QED  BY <1>2, <1>3, <1>4 DEF RequestIntact

(* For any threads, interfaces and bodies: the TLS fields say where the reply
   capability of the request being served is, no SaveCaller is refused and no
   assertion of tls.c fails. *)
THEOREM ReplyCapsTracked ==
    ASSUME RequestsKept
    PROVE  Spec => []ReplyCapTracked
<1>1. RpcInv /\ [Next]_vars => RpcInv'
  BY RpcStep
<1>2. RpcInv => ReplyCapTracked
  BY RpcInvImplies
<1> QED  BY <1>1, <1>2, RpcInit, PTL DEF Spec

(* For any threads, interfaces and bodies, also circular ones: whoever is
   blocked in a call can still be answered, by the interface it called and by
   no other. *)
THEOREM CalleesHoldReplyCaps ==
    ASSUME RequestsKept
    PROVE  Spec => []CalleeHoldsReplyCap
<1>1. RpcInv /\ [Next]_vars => RpcInv'
  BY RpcStep
<1>2. RpcInv => CalleeHoldsReplyCap
  BY RpcInvImplies
<1> QED  BY <1>1, <1>2, RpcInit, PTL DEF Spec

(* For any threads, interfaces and bodies: nested calls never replace the
   request that an implementation runs for. *)
THEOREM RequestsIntact ==
    ASSUME RequestsKept
    PROVE  Spec => []RequestIntact
<1>1. RpcInv /\ [Next]_vars => RpcInv'
  BY RpcStep
<1>2. RpcInv => RequestIntact
  BY RpcInvImplies
<1> QED  BY <1>1, <1>2, RpcInit, PTL DEF Spec
----------------------------------------------------------------------------
(* The connector implements the service *)

Pending == [s \in Servers |-> InService(s) \o Queued(s)]
Callers == {t \in Threads : Waiting(t)}

(* Queues, and whoever is in service, are sequences of threads. *)
LEMMA PendingTyped ==
    ASSUME RpcInv, NEW s \in Servers
    PROVE  /\ epQueue[s] \in Seq(Threads) /\ Queued(s) \in Seq(Threads) /\ InService(s) \in Seq(Threads)
           /\ (epState[s] = "Idle" <=> epQueue[s] = <<>>)
<1>1. /\ epQueue[s] \in Seq(Threads) /\ callerSlot[s] \in MaybeThread /\ savedSlot[s] \in MaybeThread
      /\ (epState[s] = "Idle" <=> epQueue[s] = <<>>)
  BY RpcAssumption DEF RpcInv, RpcTypeOK, KernelTypeOK, QueueInv, QueueMatchesState
<1> QED  BY <1>1 DEF Queued, InService, MaybeThread

(* A step that changes neither the queues nor who holds whose capability. *)
LEMMA StutterStep ==
    ASSUME UNCHANGED <<epQueue, epState>>,
           \A s \in Servers : InService(s)' = InService(s),
           \A t \in Threads : Waiting(t)' <=> Waiting(t)
    PROVE  UNCHANGED <<Pending, Callers>>
<1>1. \A s \in Servers : Queued(s)' = Queued(s)
  BY DEF Queued
<1> QED  BY <1>1 DEF Pending, Callers

(* A step that changes what is pending at one interface. *)
LEMMA PendingStep ==
    ASSUME NEW s \in Servers,
           \A r \in Servers \ {s} : InService(r)' = InService(r) /\ Queued(r)' = Queued(r)
    PROVE  Pending' = [Pending EXCEPT ![s] = (InService(s) \o Queued(s))']
BY DEF Pending

(* perform_call issues a request. *)
LEMMA CallIssues ==
    ASSUME RpcInv, NEW t \in Threads, PerformCall(t)
    PROVE  \E s \in Servers : Service!Issue(t, s)
<1> USE RpcAssumption, KernelAssumption
<1>1. /\ IsRunning(t) /\ CallsLeft(t)
      /\ SendIPC(TRUE, TRUE, TRUE, t, NextCall(t).to, NextCall(t).msg)
  BY DEF PerformCall, Call, At, RpcInv, AllOK, ThreadOK
<1>2. PICK d \in Servers, m \in Msgs : d = NextCall(t).to /\ m = NextCall(t).msg /\ d \in Threads
  BY <1>1, CallTyped DEF RpcInv, RpcCall
<1>3. /\ epQueue \in [Servers -> Seq(Threads)] /\ epState \in [Servers -> EPState]
      /\ tcbState \in [Threads -> ThreadState] /\ callerSlot \in [Threads -> MaybeThread]
  BY DEF RpcInv, RpcTypeOK, KernelTypeOK
<1>4. t \notin Callers
  BY <1>1 DEF Callers, Waiting, IsRunning
<1>5. CASE epState[d] # "Recv"
  <2>1. /\ tcbState' = [tcbState EXCEPT ![t] = "BlockedOnSend"]
        /\ epQueue' = [epQueue EXCEPT ![d] = Append(@, t)]
        /\ epState' = [epState EXCEPT ![d] = "Send"]
        /\ UNCHANGED <<callerSlot, savedSlot>>
    BY <1>1, <1>2, <1>5 DEF SendIPC, Enqueue
  <2>2. /\ \A s \in Servers : InService(s)' = InService(s)
        /\ \A s \in Servers \ {d} : Queued(s)' = Queued(s)
    BY <1>3, <2>1 DEF InService, Queued
  <2>3. Queued(d)' = Append(Queued(d), t)
    BY <1>3, <1>5, <2>1, PendingTyped DEF Queued, EPState
  <2>4. (InService(d) \o Queued(d))' = Append(InService(d) \o Queued(d), t)
    <3>1. InService(d) \in Seq(Threads) /\ Queued(d) \in Seq(Threads)
      BY PendingTyped
    <3>2. InService(d) \o Append(Queued(d), t) = Append(InService(d) \o Queued(d), t)
      BY ONLY <3>1, BehindFacts
    <3> QED  BY <2>2, <2>3, <3>2
  <2>5. Pending' = [Pending EXCEPT ![d] = Append(@, t)]
    BY <2>2, <2>4, PendingStep DEF Pending
  <2>6. Callers' = Callers \cup {t}
    BY <1>3, <2>1 DEF Callers, Waiting
  <2> QED  BY <1>4, <2>5, <2>6 DEF Service!Issue, Pending, Callers
<1>6. CASE epState[d] = "Recv"
  <2>1. /\ Head(epQueue[d]) = d /\ tcbState[d] = "BlockedOnReceive"
        /\ callerSlot[d] = NoThread /\ savedSlot[d] = NoThread /\ d # t
    BY <1>1, <1>2, <1>6, ReceiverIsServer DEF IsRunning
  <2>2. /\ tcbState' = [tcbState EXCEPT ![d] = "Running", ![t] = "BlockedOnReply"]
        /\ callerSlot' = [callerSlot EXCEPT ![d] = t]
        /\ epQueue' = [epQueue EXCEPT ![d] = Tail(@)]
        /\ epState' = [epState EXCEPT ![d] = IF Tail(epQueue[d]) = <<>> THEN "Idle" ELSE @]
        /\ UNCHANGED savedSlot
    BY <1>1, <1>2, <1>6, <2>1 DEF SendIPC, DequeueHead
  <2>3. \A s \in Servers \ {d} : InService(s)' = InService(s) /\ Queued(s)' = Queued(s)
    BY <1>3, <2>2 DEF InService, Queued
  <2>4. callerSlot'[d] = t /\ epState'[d] # "Send"
    BY <1>2, <1>3, <1>6, <2>2
  <2>5. (InService(d) \o Queued(d))' = Append(InService(d) \o Queued(d), t)
    BY <1>6, <2>1, <2>4 DEF InService, Queued
  <2>6. Pending' = [Pending EXCEPT ![d] = Append(@, t)]
    BY <2>3, <2>5, PendingStep DEF Pending
  <2>7. Callers' = Callers \cup {t}
    BY <1>3, <2>1, <2>2 DEF Callers, Waiting
  <2> QED  BY <1>4, <2>6, <2>7 DEF Service!Issue, Pending, Callers
<1> QED  BY <1>2, <1>5, <1>6

(* A receive takes the caller at the head of the queue into service; the reply
   of the same system call, if there is one, is the answer. *)
LEMMA ReceiveAnswers ==
    ASSUME RpcInv, NEW s \in Servers, IsRunning(s), savedSlot[s] = NoThread,
           HandleRecv(Resumed(callerSlot[s]), Answered(callerSlot[s], Ack), s, s)
    PROVE  IF callerSlot[s] = NoThread THEN UNCHANGED <<Pending, Callers>> ELSE Service!Answer(s)
<1> USE RpcAssumption, KernelAssumption
<1>1. PICK c \in {callerSlot[s], savedSlot[s]} : c = callerSlot[s]
  OBVIOUS
<1>2. /\ epQueue \in [Servers -> Seq(Threads)] /\ epState \in [Servers -> EPState]
      /\ callerSlot \in [Threads -> MaybeThread] /\ s \in Threads
  BY DEF RpcInv, RpcTypeOK, KernelTypeOK
<1>3. /\ \A u \in Threads : Resumed(c)[u] = IF u = c THEN "Running" ELSE tcbState[u]
      /\ Resumed(c) \in [Threads -> ThreadState]
      /\ c # NoThread => c \in Threads /\ tcbState[c] = "BlockedOnReply"
  BY <1>1, ResumedWaits
<1>4. s \notin Callers /\ s # c
  BY <1>2, <1>3 DEF Callers, Waiting, IsRunning
<1>5. PICK q \in Seq(Threads) : q = Queued(s)
  BY PendingTyped
<1>6. Pending[s] = IF c = NoThread THEN q ELSE <<c>> \o q
  <2>1. InService(s) = IF c = NoThread THEN <<>> ELSE <<c>>
    BY <1>1 DEF InService
  <2>2. <<>> \o q = q
    BY <1>2, FrontFacts
  <2> QED  BY <1>5, <2>1, <2>2 DEF Pending
<1>7. savedSlot' = savedSlot /\ \A r \in Servers \ {s} : InService(r)' = InService(r) /\ Queued(r)' = Queued(r)
  BY <1>2 DEF HandleRecv, Enqueue, DequeueHead, InService, Queued
<1>8. (InService(s) \o Queued(s))' = q /\ Callers' = Callers \ {c}
  <2>1. CASE epState[s] # "Send"
    <3>1. /\ tcbState' = [Resumed(c) EXCEPT ![s] = "BlockedOnReceive"]
          /\ callerSlot'[s] = NoThread /\ epState'[s] = "Recv"
      BY <1>1, <1>2, <2>1 DEF HandleRecv, Enqueue
    <3>2. (InService(s) \o Queued(s))' = <<>> /\ q = <<>>
      BY <1>5, <1>7, <2>1, <3>1 DEF InService, Queued
    <3>3. Callers' = Callers \ {c}
      BY <1>3, <1>4, <3>1 DEF Callers, Waiting
    <3> QED  BY <3>2, <3>3
  <2>2. CASE epState[s] = "Send"
    <3>1. PICK h : h = Head(epQueue[s])
      OBVIOUS
    <3>2. KernelInv /\ s \in Endpoints
      BY DEF RpcInv, RpcTypeOK, KernelInv
    <3>3. h \in Threads /\ tcbState[h] = "BlockedOnSend" /\ blocking[h].ep = s
      BY <2>2, <3>1, <3>2, HeadBlocked DEF InQueue, Direction
    <3>4. blocking[h].call /\ blocking[h].grant /\ h # s /\ h # c
      <4>1. blocking[h] = CallOf(h)
        BY <3>3 DEF RpcInv, AllOK, ThreadOK
      <4> QED  BY <1>3, <3>3, <4>1 DEF CallOf, IsRunning
    <3>5. /\ tcbState' = [Resumed(c) EXCEPT ![h] = "BlockedOnReply"]
          /\ callerSlot' = [callerSlot EXCEPT ![s] = h]
          /\ DequeueHead(s)
      BY <1>1, <2>2, <3>1, <3>4 DEF HandleRecv
    <3>6. q = epQueue[s] /\ q # <<>> /\ Head(q) = h
      BY <1>5, <2>2, <3>1, PendingTyped DEF Queued
    <3>7. epQueue'[s] = Tail(q) /\ epState'[s] = IF Tail(q) = <<>> THEN "Idle" ELSE "Send"
      BY <1>2, <2>2, <3>5, <3>6 DEF DequeueHead
    <3>8. Queued(s)' = Tail(q) /\ InService(s)' = <<h>>
      BY <1>2, <3>3, <3>5, <3>7 DEF Queued, InService
    <3>9. <<Head(q)>> \o Tail(q) = q
      BY <3>3, <3>6, FrontFacts
    <3>10. Callers' = Callers \ {c}
      BY <1>3, <1>4, <3>3, <3>4, <3>5 DEF Callers, Waiting
    <3> QED  BY <3>6, <3>8, <3>9, <3>10
  <2> QED  BY <2>1, <2>2
<1>9. Pending' = [Pending EXCEPT ![s] = q]
  BY <1>7, <1>8, PendingStep
<1>10. CASE c = NoThread
  <2>1. Pending' = Pending
    BY <1>6, <1>9, <1>10 DEF Pending
  <2>2. Callers' = Callers
    BY <1>8, <1>10 DEF Callers
  <2> QED  BY <1>1, <1>10, <2>1, <2>2
<1>11. CASE c # NoThread
  <2>1. /\ <<c>> \o q # <<>> /\ Tail(<<c>> \o q) = q /\ Head(<<c>> \o q) = c
    BY <1>3, <1>11, FrontFacts
  <2>2. /\ Pending[s] # <<>> /\ Head(Pending[s]) = c
        /\ Pending' = [Pending EXCEPT ![s] = Tail(@)] /\ Callers' = Callers \ {Head(Pending[s])}
    BY <1>6, <1>8, <1>9, <1>11, <2>1
  <2> QED  BY <1>1, <1>4, <1>11, <2>2 DEF Service!Answer, Pending, Callers
<1> QED  BY <1>10, <1>11

(* The reply through the saved capability is the answer. *)
LEMMA SavedReplyAnswers ==
    ASSUME RpcInv, NEW s \in Servers, ReplySaved(s)
    PROVE  Service!Answer(s)
<1> USE RpcAssumption, KernelAssumption
<1>1. PICK c \in {callerSlot[s], savedSlot[s]} : c = savedSlot[s]
  OBVIOUS
<1>2. /\ s \in Threads /\ AllOK(s) /\ IsRunning(s) /\ pc[s] = "reply" /\ ~replyCapInTcb[s]
      /\ tcbState' = Resumed(c) /\ savedSlot' = [savedSlot EXCEPT ![s] = NoThread]
      /\ UNCHANGED <<callerSlot, epQueue, epState>>
  BY <1>1 DEF ReplySaved, SendSaved, At, RpcInv
<1>3. /\ \A u \in Threads : Resumed(c)[u] = IF u = c THEN "Running" ELSE tcbState[u]
      /\ c # NoThread => c \in Threads /\ tcbState[c] = "BlockedOnReply"
  BY ResumedWaits
<1>4. c # NoThread /\ callerSlot[s] = NoThread
  BY <1>1, <1>2 DEF AllOK, ServerOK, Serving
<1>5. s \notin Callers /\ Callers' = Callers \ {c}
  BY <1>2, <1>3, <1>4 DEF Callers, Waiting, IsRunning
<1>6. PICK q \in Seq(Threads) : q = Queued(s)
  BY PendingTyped
<1>7. Queued(s)' = q /\ savedSlot'[s] = NoThread
  BY <1>2, <1>6 DEF Queued, RpcInv, RpcTypeOK, KernelTypeOK
<1>8. \A r \in Servers \ {s} : InService(r)' = InService(r) /\ Queued(r)' = Queued(r)
  BY <1>2 DEF InService, Queued, RpcInv, RpcTypeOK, KernelTypeOK
<1>9. (InService(s) \o Queued(s))' = q
  <2>1. InService(s)' = <<>>
    BY <1>2, <1>4, <1>7 DEF InService
  <2>2. <<>> \o q = q
    BY <1>3, <1>4, FrontFacts
  <2> QED  BY <1>7, <2>1, <2>2
<1>10. Pending[s] = <<c>> \o q
  BY <1>1, <1>4, <1>6 DEF Pending, InService
<1>11. <<c>> \o q # <<>> /\ Tail(<<c>> \o q) = q /\ Head(<<c>> \o q) = c
  BY <1>3, <1>4, FrontFacts
<1>12. Pending' = [Pending EXCEPT ![s] = q]
  BY <1>8, <1>9, PendingStep
<1>13. /\ Pending[s] # <<>> /\ Pending' = [Pending EXCEPT ![s] = Tail(@)]
       /\ Callers' = Callers \ {Head(Pending[s])}
  BY <1>5, <1>10, <1>11, <1>12
<1> QED  BY <1>5, <1>13 DEF Service!Answer, Pending, Callers

(* Nothing is pending at first. *)
LEMMA ServiceInit == Init => Service!Init
<1> SUFFICES ASSUME Init PROVE Service!Init
  OBVIOUS
<1>1. ASSUME NEW s \in Servers PROVE InService(s) \o Queued(s) = <<>>
  BY RpcAssumption DEF Init, KernelInit, InService, Queued
<1>2. \A t \in Threads : ~Waiting(t)
  BY DEF Init, KernelInit, Waiting
<1> QED  BY <1>1, <1>2 DEF Service!Init

(* Every step issues a request, answers one, or changes nothing a client can
   see. *)
LEMMA ServiceStep == RpcInv /\ [Next]_vars => [Service!Next]_<<Pending, Callers>>
<1> SUFFICES ASSUME RpcInv, [Next]_vars PROVE [Service!Next]_<<Pending, Callers>>
  OBVIOUS
<1> USE RpcAssumption
<1>1. ASSUME UNCHANGED kernelVars PROVE UNCHANGED <<Pending, Callers>>
  BY <1>1, StutterStep DEF kernelVars, InService, Waiting
<1>2. ASSUME NEW t \in Threads, IsRunning(t), Abort(t) PROVE UNCHANGED <<Pending, Callers>>
  <2>1. /\ tcbState' = [tcbState EXCEPT ![t] = "Inactive"]
        /\ UNCHANGED <<callerSlot, savedSlot, epQueue, epState>>
    BY <1>2 DEF Abort, Suspend, CancelIPC, IsRunning, InQueue
  <2>2. \A u \in Threads : Waiting(u)' <=> Waiting(u)
    BY <1>2, <2>1 DEF Waiting, IsRunning, RpcInv, RpcTypeOK, KernelTypeOK
  <2> QED  BY <2>1, <2>2, StutterStep DEF InService
<1>3. ASSUME NEW t \in Threads, NEW l, IsRunning(t), Err(t, l) PROVE UNCHANGED <<Pending, Callers>>
  BY <1>1, <1>2, <1>3 DEF Err
<1>4. ASSUME NEW t \in Threads, Stub(t) PROVE [Service!Next]_<<Pending, Callers>>
  <2>1. CASE PerformCall(t)
    BY <1>4, <2>1, CallIssues DEF Service!Next
  <2>2. CASE MarshalError(t)
    BY <1>3, <2>2 DEF MarshalError, At
  <2>3. CASE Return(t) \/ Finish(t)
    BY <1>1, <2>3 DEF Return, Finish
  <2>4. CASE Protect(t)
    <3>1. CASE ~replyCapInTcb[t]
      BY <1>1, <2>4, <3>1 DEF Protect
    <3>2. CASE replyCapInTcb[t]
      <4>1. AllOK(t) /\ pc[t] = "body" /\ t \in Servers
        BY <1>4, <2>4, <3>2 DEF Protect, At, RpcInv, AllOK, ClientOK
      <4>2. cnodeCap[t] /\ savedSlot[t] = NoThread /\ callerSlot[t] # NoThread
        BY <3>2, <4>1 DEF AllOK, ServerOK, Serving
      <4>3. /\ savedSlot' = [savedSlot EXCEPT ![t] = callerSlot[t]]
            /\ callerSlot' = [callerSlot EXCEPT ![t] = NoThread]
            /\ UNCHANGED <<tcbState, epState, epQueue>>
        BY <2>4, <3>2, <4>2 DEF Protect, SaveCaller, SaveCallerFails
      <4>4. \A s \in Servers : InService(s)' = InService(s)
        BY <4>2, <4>3 DEF InService, RpcInv, RpcTypeOK, KernelTypeOK
      <4> QED  BY <4>3, <4>4, StutterStep DEF Waiting
    <3> QED  BY <3>1, <3>2
  <2> QED  BY <1>4, <2>1, <2>2, <2>3, <2>4 DEF Stub
<1>5. ASSUME NEW s \in Servers, Serve(s) PROVE [Service!Next]_<<Pending, Callers>>
  <2>1. s \in Threads /\ AllOK(s)
    BY DEF RpcInv
  <2>2. CASE RecvFirst(s) \/ RecvNext(s)
    <3>1. IsRunning(s) /\ pc[s] \in {"start", "recv"} /\ HandleRecv(tcbState, mrs, s, s)
      BY <2>2 DEF RecvFirst, RecvNext, At, Recv
    <3>2. callerSlot[s] = NoThread /\ savedSlot[s] = NoThread
      BY <1>5, <2>1, <3>1 DEF AllOK, ServerOK, Serving
    <3>3. Resumed(callerSlot[s]) = tcbState /\ Answered(callerSlot[s], Ack) = mrs
      BY <3>2 DEF Resumed, Answered
    <3> QED  BY <1>5, <3>1, <3>2, <3>3, ReceiveAnswers
  <2>3. CASE ReplyRecvNext(s)
    <3>1. /\ IsRunning(s) /\ pc[s] = "reply" /\ replyCapInTcb[s]
          /\ HandleRecv(Resumed(callerSlot[s]), Answered(callerSlot[s], Ack), s, s)
      BY <2>3 DEF ReplyRecvNext, At, ReplyRecv
    <3>2. callerSlot[s] # NoThread /\ savedSlot[s] = NoThread
      BY <1>5, <2>1, <3>1 DEF AllOK, ServerOK, Serving
    <3> QED  BY <1>5, <3>1, <3>2, ReceiveAnswers DEF Service!Next
  <2>4. CASE UnmarshalError(s)
    BY <1>3, <2>1, <2>4 DEF UnmarshalError, At
  <2>5. CASE DeclareReplyCap(s)
    BY <1>1, <1>2, <2>1, <2>5 DEF DeclareReplyCap, At
  <2>6. CASE Unmarshal(s)
    BY <1>1, <2>6 DEF Unmarshal
  <2>7. CASE ReplySaved(s)
    BY <1>5, <2>7, SavedReplyAnswers DEF Service!Next
  <2> QED  BY <1>5, <2>2, <2>3, <2>4, <2>5, <2>6, <2>7 DEF Serve
<1>6. CASE UNCHANGED vars
  BY <1>1, <1>6 DEF vars
<1> QED  BY <1>4, <1>5, <1>6 DEF Next

(* For any threads, interfaces and bodies: calls are answered one at a time,
   each once and to its own caller, in the order they arrived. *)
THEOREM RpcImplementsService ==
    ASSUME RequestsKept
    PROVE  Spec => ImplementsService
<1>1. RpcInv /\ [Next]_vars => RpcInv'
  BY RpcStep
<1>2. RpcInv /\ [Next]_vars => [Service!Next]_<<Pending, Callers>>
  BY ServiceStep
<1>3. RpcInv /\ [Next]_vars => [Service!Next]_<<[s \in Servers |-> InService(s) \o Queued(s)],
                                                {t \in Threads : Waiting(t)}>>
  BY <1>2 DEF Pending, Callers
<1> QED  BY <1>1, <1>3, RpcInit, ServiceInit, PTL DEF Spec, ImplementsService, Service!Spec
=============================================================================
