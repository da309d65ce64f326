----------------------------- MODULE CamkesRpc -----------------------------
(***************************************************************************)
(* The seL4RPCCall connector CAmkES generates between components           *)
(* (tools/camkes/camkes/templates/rpc-connector.c and                      *)
(* rpc-connector-common-{from,to}.c, libsel4camkes/src/tls.c) over the     *)
(* kernel IPC of Sel4Ipc.                                                  *)
(*                                                                         *)
(* A client is a component's control thread and runs once.  A server is    *)
(* the interface thread of a provided interface: it loops over             *)
(* Recv / unmarshal / implementation / reply, and its implementation may   *)
(* itself call other interfaces.  An interface has one endpoint, which is  *)
(* identified with its interface thread.  What an implementation does is   *)
(* the parameter Body: the calls it makes, in order, for a given request.  *)
(* Every component modelled has more than one interface, so the generated  *)
(* code is that for might_block().                                         *)
(*                                                                         *)
(* The reply capability of the request being served lies in the TCB until  *)
(* the first nested call, which moves it to a CNode slot                   *)
(* (camkes_protect_reply_cap); the TLS fields below track where it is.     *)
(* One action is the code between two system calls, and the call.          *)
(***************************************************************************)
EXTENDS Sel4Ipc

CONSTANTS
    Clients,      \* control threads
    Servers,      \* interface threads, and their endpoints
    Body,         \* [Threads -> [MaybeMsg -> sequence of calls]]; a client's request is NoMsg
    Ack,          \* the empty response of a void method
    Oversized,      \* requests whose parameters a stub may find too long for the IPC buffer
    Malformed,      \* requests a server may reject: malformed, or no memory to copy them
    HandlerReturns, \* the actions the registered error handler may return
    Asserts         \* assert() is compiled in

ErrorActions == {"CEA_DISCARD", "CEA_ABORT", "CEA_HALT"}

RpcCall == [to : Servers, msg : Msgs]

ASSUME RpcAssumption ==
    /\ Threads = Clients \cup Servers
    /\ Clients \cap Servers = {}
    /\ Endpoints = Servers
    /\ Ack \in Msgs
    /\ Body \in [Threads -> [MaybeMsg -> Seq(RpcCall)]]
    /\ Oversized \subseteq Msgs /\ Malformed \subseteq Msgs
    /\ Asserts \in BOOLEAN
    /\ HandlerReturns \subseteq ErrorActions

VARIABLES
    pc,             \* where each thread is in the generated code
    step,           \* the next call of Body a thread makes
    req,            \* the request a server has unmarshalled
    cnodeCap,       \* TLS cnode_cap # 0
    replyCapSlot,   \* TLS reply_cap_slot # 0
    replyCapInTcb,  \* TLS reply_cap_in_tcb
    saveError,      \* TLS reply_cap_save_error # seL4_NoError
    halted,         \* seL4_DebugHalt was called
    served          \* history: the requests each implementation was run for

tls  == <<cnodeCap, replyCapSlot, replyCapInTcb, saveError>>
vars == <<kernelVars, pc, step, req, tls, halted, served>>

Label == {"start", "declare", "unmarshal", "body", "marshal", "wait", "reply", "recv", "done", "aborted"}

Init ==
    /\ KernelInit
    /\ pc            = [t \in Threads |-> IF t \in Clients THEN "body" ELSE "start"]
    /\ step          = [t \in Threads |-> 1]
    /\ req           = [t \in Threads |-> NoMsg]
    /\ cnodeCap      = [t \in Threads |-> FALSE]
    /\ replyCapSlot  = [t \in Threads |-> FALSE]
    /\ replyCapInTcb = [t \in Threads |-> FALSE]
    /\ saveError     = [t \in Threads |-> FALSE]
    /\ halted        = FALSE
    /\ served        = [s \in Servers |-> <<>>]

At(t, l) == pc[t] = l /\ IsRunning(t) /\ ~halted

Goto(t, l) == pc' = [pc EXCEPT ![t] = l]

CallsLeft(t) == step[t] <= Len(Body[t][req[t]])
NextCall(t)  == Body[t][req[t]][step[t]]

(* sel4_abort, also behind assert(): the thread suspends its own TCB. *)
Abort(t) ==
    /\ Suspend(t)
    /\ Goto(t, "aborted")
    /\ UNCHANGED halted

(* The ERR macro: a diagnostic, then the action the error handler chose.
   Discarding continues at l; the default halts the whole system. *)
Err(t, l) ==
    \/ /\ "CEA_DISCARD" \in HandlerReturns
       /\ Goto(t, l)
       /\ UNCHANGED <<kernelVars, halted>>
    \/ /\ "CEA_ABORT" \in HandlerReturns
       /\ Abort(t)
    \/ /\ "CEA_HALT" \in HandlerReturns
       /\ halted' = TRUE
       /\ UNCHANGED <<kernelVars, pc>>

----------------------------------------------------------------------------
(* The server loop: iface__run. *)

(* recv_first_rpc *)
RecvFirst(s) ==
    /\ At(s, "start")
    /\ cnodeCap' = [cnodeCap EXCEPT ![s] = TRUE]
    /\ Recv(s, s)
    /\ Goto(s, "declare")
    /\ UNCHANGED <<step, req, replyCapSlot, replyCapInTcb, saveError, halted, served>>

(* begin_recv: back to the event loop without a reply. *)
RecvNext(s) ==
    /\ At(s, "recv")
    /\ Recv(s, s)
    /\ Goto(s, "declare")
    /\ UNCHANGED <<step, req, tls, halted, served>>

(* camkes_declare_reply_cap, on return from every receive *)
DeclareReplyCap(s) ==
    /\ At(s, "declare")
    /\ IF Asserts /\ replyCapInTcb[s]
       THEN /\ Abort(s)
            /\ UNCHANGED <<step, req, tls, served>>
       ELSE /\ replyCapSlot' = [replyCapSlot EXCEPT ![s] = TRUE]
            /\ replyCapInTcb' = [replyCapInTcb EXCEPT ![s] = TRUE]
            /\ Goto(s, "unmarshal")
            /\ UNCHANGED <<kernelVars, step, req, cnodeCap, saveError, halted, served>>

(* Method index and parameters are unmarshalled and the implementation is
   entered. *)
Unmarshal(s) ==
    /\ At(s, "unmarshal")
    /\ req' = [req EXCEPT ![s] = mrs[s]]
    /\ step' = [step EXCEPT ![s] = 1]
    /\ served' = [served EXCEPT ![s] = Append(@, mrs[s])]
    /\ Goto(s, "body")
    /\ UNCHANGED <<kernelVars, tls, halted>>

(* Truncated or overlong payload, method index out of range, or strdup out of
   memory: discarding returns to the event loop. *)
UnmarshalError(s) ==
    /\ At(s, "unmarshal")
    /\ mrs[s] \in Malformed
    /\ Err(s, "recv")
    /\ UNCHANGED <<step, req, tls, served>>

(* Variant: replyCapInTcb stays set. *)
ReplyRecvKeepsFlag(s) ==
    /\ At(s, "reply")
    /\ replyCapInTcb[s]
    /\ ReplyRecv(s, s, Ack)
    /\ Goto(s, "declare")
    /\ UNCHANGED <<step, req, tls, halted, served>>

(* reply_recv: the implementation has returned.  A reply capability still in
   the TCB is used by ReplyRecv; a saved one is invoked
   (camkes_unprotect_reply_cap, whose error is ignored, then seL4_Send) and
   the receive is a system call of its own. *)
ReplyRecvNext(s) ==
    /\ At(s, "reply")
    /\ replyCapInTcb[s]
    /\ replyCapInTcb' = [replyCapInTcb EXCEPT ![s] = FALSE]
    /\ ReplyRecv(s, s, Ack)
    /\ Goto(s, "declare")
    /\ UNCHANGED <<step, req, cnodeCap, replyCapSlot, saveError, halted, served>>

(* Variant: the reply goes through the caller slot although the capability was
   saved. *)
ReplySavedThroughTcb(s) ==
    /\ At(s, "reply")
    /\ ~replyCapInTcb[s]
    /\ ReplyRecv(s, s, Ack)
    /\ Goto(s, "declare")
    /\ UNCHANGED <<step, req, tls, halted, served>>

ReplySaved(s) ==
    /\ At(s, "reply")
    /\ ~replyCapInTcb[s]
    /\ replyCapSlot' = [replyCapSlot EXCEPT ![s] = IF Asserts THEN FALSE ELSE @]
    /\ SendSaved(s, Ack)
    /\ Goto(s, "recv")
    /\ UNCHANGED <<step, req, cnodeCap, replyCapInTcb, saveError, halted, served>>

----------------------------------------------------------------------------
(* The client stub, run by control threads and by implementations. *)

(* Variant: the capability is taken as saved without SaveCaller. *)
ProtectFlagOnly(t) ==
    /\ At(t, "body")
    /\ CallsLeft(t)
    /\ Goto(t, "marshal")
    /\ replyCapInTcb' = [replyCapInTcb EXCEPT ![t] = FALSE]
    /\ UNCHANGED <<kernelVars, step, req, cnodeCap, replyCapSlot, saveError, halted, served>>

(* camkes_protect_reply_cap: SaveCaller if a reply capability is pending. *)
Protect(t) ==
    /\ At(t, "body")
    /\ CallsLeft(t)
    /\ Goto(t, "marshal")
    /\ IF ~replyCapInTcb[t]
       THEN UNCHANGED <<kernelVars, replyCapInTcb, saveError>>
       ELSE /\ replyCapInTcb' = [replyCapInTcb EXCEPT ![t] = FALSE]
            /\ saveError' = [saveError EXCEPT ![t] = ~cnodeCap[t] \/ SaveCallerFails(t)]
            /\ IF cnodeCap[t] THEN SaveCaller(t) ELSE UNCHANGED kernelVars
    /\ UNCHANGED <<step, req, cnodeCap, replyCapSlot, halted, served>>

(* Variant: the stub sends without waiting for a reply. *)
PerformSend(t) ==
    /\ At(t, "marshal")
    /\ Send(t, NextCall(t).to, NextCall(t).msg, TRUE)
    /\ Goto(t, "wait")
    /\ UNCHANGED <<step, req, tls, halted, served>>

(* perform_call; the endpoint capability of a client may grant. *)
PerformCall(t) ==
    /\ At(t, "marshal")
    /\ Call(t, NextCall(t).to, NextCall(t).msg, TRUE)
    /\ Goto(t, "wait")
    /\ UNCHANGED <<step, req, tls, halted, served>>

(* Parameters that do not fit the IPC buffer: discarding returns to the
   calling code without having called. *)
MarshalError(t) ==
    /\ At(t, "marshal")
    /\ NextCall(t).msg \in Oversized
    /\ Err(t, "wait")
    /\ UNCHANGED <<step, req, tls, served>>

(* The stub returns and its caller goes on. *)
Return(t) ==
    /\ At(t, "wait")
    /\ step' = [step EXCEPT ![t] = @ + 1]
    /\ Goto(t, "body")
    /\ UNCHANGED <<kernelVars, req, tls, halted, served>>

(* Variant: the implementation returns to the receive, not to the reply. *)
FinishNoReply(t) ==
    /\ At(t, "body")
    /\ ~CallsLeft(t)
    /\ Goto(t, IF t \in Servers THEN "recv" ELSE "done")
    /\ UNCHANGED <<kernelVars, step, req, tls, halted, served>>

(* An implementation returns to the server loop, run() to its control thread. *)
Finish(t) ==
    /\ At(t, "body")
    /\ ~CallsLeft(t)
    /\ Goto(t, IF t \in Servers THEN "reply" ELSE "done")
    /\ UNCHANGED <<kernelVars, step, req, tls, halted, served>>

----------------------------------------------------------------------------
Stub(t) == Protect(t) \/ PerformCall(t) \/ MarshalError(t) \/ Return(t) \/ Finish(t)

Serve(s) ==
    \/ RecvFirst(s)
    \/ RecvNext(s)
    \/ DeclareReplyCap(s)
    \/ Unmarshal(s)
    \/ UnmarshalError(s)
    \/ ReplyRecvNext(s)
    \/ ReplySaved(s)

(* Every client has returned from run() and every server is back in its
   receive, or the kernel has been halted. *)
Terminated ==
    \/ halted
    \/ /\ \A c \in Clients : pc[c] \in {"done", "aborted"}
       /\ \A s \in Servers : tcbState[s] = "BlockedOnReceive" \/ pc[s] = "aborted"

Thread(t) == Stub(t) \/ (t \in Servers /\ Serve(t))

Next ==
    \/ \E t \in Threads : Stub(t)
    \/ \E s \in Servers : Serve(s)
    \/ Terminated /\ UNCHANGED vars

(* All threads have the same priority and are preempted by the timer, so a
   runnable thread runs again. *)
Fairness == \A t \in Threads : WF_vars(Thread(t))

Spec == Init /\ [][Next]_vars
FairSpec == Spec /\ Fairness

----------------------------------------------------------------------------
(* Types. *)
RpcTypeOK ==
    /\ KernelTypeOK
    /\ pc \in [Threads -> Label]
    /\ step \in [Threads -> Nat \ {0}]
    /\ req \in [Threads -> MaybeMsg]
    /\ cnodeCap \in [Threads -> BOOLEAN]
    /\ replyCapSlot \in [Threads -> BOOLEAN]
    /\ replyCapInTcb \in [Threads -> BOOLEAN]
    /\ saveError \in [Threads -> BOOLEAN]
    /\ halted \in BOOLEAN
    /\ served \in [Servers -> Seq(MaybeMsg)]

Serving == {"unmarshal", "body", "marshal", "wait", "reply"}

(* While a server handles a request the TLS fields tell where the reply
   capability is: in the TCB when replyCapInTcb, in the CNode slot otherwise,
   and never in both (tls.h:85-108).  Between requests both slots are free and
   none is declared, so that the assertions of tls.c:28, 47 and 72 hold where
   they are evaluated; and SaveCaller always succeeds, which is why the server
   loop may ignore the error of camkes_unprotect_reply_cap
   (rpc-connector.c:330). *)
ReplyCapTracked ==
    /\ \A s \in Servers :
        /\ replyCapInTcb[s] => replyCapSlot[s]
        /\ IF pc[s] \in Serving
           THEN /\ replyCapInTcb[s] <=> callerSlot[s] # NoThread
                /\ ~replyCapInTcb[s] <=> savedSlot[s] # NoThread
           ELSE pc[s] # "aborted" => savedSlot[s] = NoThread /\ ~replyCapInTcb[s]
    /\ \A t \in Threads : ~saveError[t]

(* A thread blocked in a call is queued at, or holds its place with, the
   interface it called: a blocked caller is never stranded without a reply
   capability, and the capability is with the callee and no other server. *)
CalleeHoldsReplyCap ==
    \A t \in Threads :
        tcbState[t] = "BlockedOnReply" =>
            /\ CallsLeft(t)
            /\ \/ callerSlot[NextCall(t).to] = t
               \/ savedSlot[NextCall(t).to] = t

(* The request an implementation runs for is the one its blocked caller sent:
   nested calls and later arrivals do not overwrite it. *)
Holder(s) == IF replyCapInTcb[s] THEN callerSlot[s] ELSE savedSlot[s]
RequestIntact ==
    \A s \in Servers :
        pc[s] \in {"body", "marshal", "wait", "reply"} =>
            Holder(s) \in Threads /\ req[s] = NextCall(Holder(s)).msg

(* A server whose error handler only ever discards survives what it discards
   and keeps serving: "CEA_DISCARD -- Ignore whatever message or request was
   currently being handled and return to [...] an event loop as appropriate.
   This is typically the failure mode you want for servers that are intended
   to be robust" (tools/camkes/docs/index.md:1653-1657). *)
DiscardKeepsServing ==
    HandlerReturns = {"CEA_DISCARD"} => \A s \in Servers : pc[s] # "aborted"

(* The connector implements the service its interfaces promise. *)
InService(s) ==
    IF callerSlot[s] # NoThread THEN <<callerSlot[s]>>
    ELSE IF savedSlot[s] # NoThread THEN <<savedSlot[s]>>
    ELSE <<>>
Queued(s) == IF epState[s] = "Send" THEN epQueue[s] ELSE <<>>
Waiting(t) == tcbState[t] \in {"BlockedOnSend", "BlockedOnReply"}

Service == INSTANCE RpcService WITH
    pending <- [s \in Servers |-> InService(s) \o Queued(s)],
    waiting <- {t \in Threads : Waiting(t)}
ImplementsService == Service!Spec

(* Every control thread returns from run(), unless the kernel is halted. *)
ClientsFinish == \A c \in Clients : <>(pc[c] = "done" \/ halted)
=============================================================================
