----------------------------- MODULE Component -----------------------------
(***************************************************************************)
(* The threads of one component together: they start in step (Startup),    *)
(* then call an interface through a dataport they share (StubLock) and     *)
(* wait for events or register callbacks (EventConnector).  A thread is in *)
(* one of the three at a time.  Events come whenever they come, also while *)
(* the component still starts.                                             *)
(***************************************************************************)
EXTENDS Integers, Sequences, FiniteSets

CONSTANTS
    Control,     \* the control thread
    Runner,      \* the interface thread of the event connector
    Others,      \* the other interface threads
    MaxEvents,   \* events, and
    MaxCalls     \* calls, to stubs and for events: bounds of the state space

ASSUME ComponentAssumption ==
    /\ IsFiniteSet(Others) /\ Control # Runner /\ {Control, Runner} \cap Others = {}
    /\ MaxEvents \in Nat /\ MaxCalls \in Nat

VARIABLES
    initValue, initQueue, initStage, phase,             \* see Startup
    lockValue, lockQueue, lockStage, stubPc, call, buffer,
    pending, serving, received, errors,                 \* see StubLock
    active, waiting, count, entry, value, queue, stage,
    pc, events, callback, due, owed,      \* see EventConnector
    calls                                               \* to stubs and for events, in all

Users == {Control} \cup Others

startVars == <<initValue, initQueue, initStage, phase>>
stubVars  == <<lockValue, lockQueue, lockStage, stubPc, call, buffer, pending, serving, received, errors>>
eventVars == <<active, waiting, count, entry, value, queue, stage, pc, events, callback, due, owed>>
vars == <<startVars, stubVars, eventVars, calls>>

S == INSTANCE Startup WITH
    Interfaces <- {Runner} \cup Others,
    value <- initValue, queue <- initQueue, stage <- initStage, pc <- phase

R == INSTANCE StubLock WITH
    Callers <- {Runner} \cup Users,
    value <- lockValue, queue <- lockQueue, stage <- lockStage, pc <- stubPc

E == INSTANCE EventConnector

Init == S!Init /\ R!Init /\ E!Init

OutsideStub(t)  == R!In(t, "user")
OutsideEvent(t) == E!In(t, "idle")

Starting(t) == S!Thread(t) /\ UNCHANGED <<stubVars, eventVars, calls>>

InStub(t) ==
    /\ t \in Users /\ S!Finished(t) /\ OutsideEvent(t)
    /\ R!Caller(t)
    /\ UNCHANGED <<startVars, eventVars>>

AtEvents(t) ==
    /\ S!Finished(t)
    /\ IF t = Runner THEN E!Run ELSE OutsideStub(t) /\ E!User(t)
    /\ UNCHANGED <<startVars, stubVars>>

Thread(t) == Starting(t) \/ InStub(t) \/ AtEvents(t)

(* The rest of the system: the server, and whoever emits events. *)
Server == R!Server /\ UNCHANGED <<startVars, eventVars>>
Emit   == E!Emit /\ UNCHANGED <<startVars, stubVars>>

(* Nothing is left to do but to wait: for events, or, after an error, for the
   lock of the stub. *)
Quiescent ==
    /\ E!Quiescent
    /\ \A t \in Users : S!Finished(t) /\ (OutsideStub(t) \/ (errors /\ lockStage[t] = R!At("recv", "lock")))

Next ==
    \/ \E t \in S!Threads : Thread(t)
    \/ Server \/ Emit
    \/ Quiescent /\ UNCHANGED vars

(* Threads of one priority, preempted by the timer. *)
Spec == Init /\ [][Next]_vars /\ WF_vars(Server) /\ \A t \in S!Threads : WF_vars(Thread(t))

----------------------------------------------------------------------------
(* The semaphores' counters say who waits at their endpoints: those of the
   start, the lock of the stub, and the handoff of events. *)
CounterExact == S!CounterExact /\ R!CounterExact /\ E!H!CounterExact

(* See Startup: initialisers, post_init and serving keep their order. *)
PhasesKeptApart == S!PhasesKeptApart

(* See Startup: the component starts, whatever arrives meanwhile. *)
EverythingStarts == S!EverythingStarts

(* See StubLock: nobody reads another's request or response. *)
OwnResponse == R!OwnResponse

(* See StubLock: the shared stub always comes free. *)
StubsReturn == R!StubsReturn

(* See EventConnector: a callback is invoked once, for the first event. *)
CallbacksExact == E!CallbacksExact

(* See EventConnector: an event somebody waits for gets to somebody. *)
EventsArrive == E!EventsArrive
=============================================================================
