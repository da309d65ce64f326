------------------------------ MODULE StubLock ------------------------------
(***************************************************************************)
(* The stub of an RPC connection whose messages go through a dataport (the *)
(* attribute "buffer" of seL4RPCCall): several threads of the calling      *)
(* component share one buffer, and take a lock from begin_send to          *)
(* release_recv (rpc-connector.c, rpc-connector-common-from.c).  The lock  *)
(* is a semaphore of libsel4sync with initial value 1.                     *)
(***************************************************************************)
EXTENDS Integers, Sequences, FiniteSets

CONSTANTS
    Callers,     \* the threads of the calling component
    MaxCalls     \* calls in all; bounds the state space

VARIABLES
    value, queue, stage,   \* the lock, see SemBare
    pc,        \* where in the stub each caller is
    calls,     \* how many calls there have been
    call,      \* the number of the call each caller is making, 0 if none
    buffer,    \* what the dataport holds: <<call, kind>>
    pending,   \* the callers whose seL4_Call the server has not received
    serving,   \* the caller the server works for, <<>> if none
    received,  \* what each caller has unmarshalled
    errors     \* whether marshalling may fail in this behaviour

vars == <<value, queue, stage, pc, calls, call, buffer, pending, serving, received, errors>>

INSTANCE SemBare WITH Threads <- Callers, Sems <- {"lock"}, Initial <- [s \in {"lock"} |-> 1]

Init ==
    /\ SemInit
    /\ pc = [t \in Callers |-> "user"]
    /\ calls = 0
    /\ call = [t \in Callers |-> 0]
    /\ buffer = <<>>
    /\ pending = <<>>
    /\ serving = <<>>
    /\ received = [t \in Callers |-> <<>>]
    /\ errors \in BOOLEAN

Goto(t, l) == pc' = [pc EXCEPT ![t] = l]
In(t, l) == pc[t] = l /\ stage[t] = Running
Message(t, kind) == <<call[t], kind>>

(* The stub's return to user code. *)
Leave(t) ==
    /\ Goto(t, "user")
    /\ call' = [call EXCEPT ![t] = 0]
    /\ received' = [received EXCEPT ![t] = <<>>]

(* A call is made. *)
Begins(t) ==
    /\ In(t, "user") /\ calls < MaxCalls
    /\ calls' = calls + 1
    /\ call' = [call EXCEPT ![t] = calls']

(* Variant: no lock, as for a component counted as single-threaded. *)
BeginSendUnlocked(t) ==
    /\ Begins(t)
    /\ Goto(t, "marshal")
    /\ UNCHANGED <<value, queue, stage, buffer, pending, serving, received, errors>>

(* begin_send: the lock is waited for, in SemBare's steps. *)
BeginSend(t) ==
    /\ Begins(t)
    /\ Wait(t, "lock")
    /\ Goto(t, "marshal")
    /\ UNCHANGED <<buffer, pending, serving, received, errors>>

Marshal(t) ==
    /\ In(t, "marshal")
    /\ buffer' = Message(t, "request")
    /\ Goto(t, "call")
    /\ UNCHANGED <<value, queue, stage, calls, call, pending, serving, received, errors>>

(* "Error in marshalling; bail out": the stub returns as it stands, with the
   lock taken, so that nobody gets at the buffer any more. *)
MarshalError(t) ==
    /\ In(t, "marshal") /\ errors
    /\ Leave(t)
    /\ UNCHANGED <<value, queue, stage, calls, buffer, pending, serving, errors>>

(* perform_call; the thread blocks until the server replies. *)
PerformCall(t) ==
    /\ In(t, "call")
    /\ pending' = Append(pending, t)
    /\ Goto(t, "blocked")
    /\ UNCHANGED <<value, queue, stage, calls, call, buffer, serving, received, errors>>

(* The server receives, and reads the request out of the dataport. *)
ServerReceives ==
    /\ serving = <<>> /\ pending # <<>>
    /\ serving' = <<Head(pending), buffer>>
    /\ pending' = Tail(pending)
    /\ UNCHANGED <<value, queue, stage, pc, calls, call, buffer, received, errors>>

(* It writes the response there, and replies. *)
ServerReplies ==
    /\ serving # <<>>
    /\ buffer' = <<serving[2][1], "response">>
    /\ serving' = <<>>
    /\ Goto(serving[1], "unmarshal")
    /\ UNCHANGED <<value, queue, stage, calls, call, pending, received, errors>>

(* The response is unmarshalled. *)
Unmarshal(t) ==
    /\ In(t, "unmarshal")
    /\ received' = [received EXCEPT ![t] = buffer]
    /\ Goto(t, "release")
    /\ UNCHANGED <<value, queue, stage, calls, call, buffer, pending, serving, errors>>

UnmarshalError(t) ==
    /\ In(t, "unmarshal") /\ errors
    /\ Leave(t)
    /\ UNCHANGED <<value, queue, stage, calls, buffer, pending, serving, errors>>

(* Variant: the lock is kept. *)
ReleaseRecvKeeps(t) ==
    /\ In(t, "release")
    /\ Leave(t)
    /\ UNCHANGED <<value, queue, stage, calls, buffer, pending, serving, errors>>

(* release_recv, and the return to user code. *)
ReleaseRecv(t) ==
    /\ In(t, "release")
    /\ Post(t, "lock")
    /\ Leave(t)
    /\ UNCHANGED <<calls, buffer, pending, serving, errors>>

Lock(t) == Rendezvous(t) /\ UNCHANGED <<pc, calls, call, buffer, pending, serving, received, errors>>

Caller(t) ==
    \/ BeginSend(t) \/ Lock(t)
    \/ Marshal(t) \/ MarshalError(t) \/ PerformCall(t)
    \/ Unmarshal(t) \/ UnmarshalError(t) \/ ReleaseRecv(t)

Server == ServerReceives \/ ServerReplies

Terminated == calls = MaxCalls /\ \A t \in Callers : In(t, "user")

Next == (\E t \in Callers : Caller(t)) \/ Server \/ (Terminated /\ UNCHANGED vars)

Spec == Init /\ [][Next]_vars /\ WF_vars(Server) /\ \A t \in Callers : WF_vars(Caller(t))

----------------------------------------------------------------------------
(* A thread is handed the response to the call it is making, not that to an
   earlier one or another's, and the server reads the request of the thread it
   will answer: no caller writes the buffer while another's exchange is under
   way. *)
OwnResponse ==
    /\ \A t \in Callers : pc[t] = "release" => received[t] = Message(t, "response")
    /\ serving # <<>> => serving[2] = Message(serving[1], "request")

(* If nothing goes wrong with its marshalling every call returns, however
   many wait for the lock: there is again nobody in the stub. *)
StubsReturn == (~errors /\ \E t \in Callers : pc[t] # "user") ~> (\A t \in Callers : pc[t] = "user")
=============================================================================
