--------------------------- MODULE EventConnector ---------------------------
(***************************************************************************)
(* The receiving end of the seL4Notification connector                     *)
(* (seL4Notification-to.template.c): a thread of its own takes the events  *)
(* off a notification and either invokes the callback that is registered   *)
(* or passes the event on through a semaphore, the handoff, to the threads *)
(* that wait or poll.  A lock guards the callback; the handoff is          *)
(* incremented by the connector's thread only.                             *)
(***************************************************************************)
EXTENDS Integers, Sequences, FiniteSets

CONSTANTS
    Runner,       \* the connector's thread
    Users,        \* the component's threads
    MaxEvents,    \* events emitted in all, and
    MaxCalls      \* calls of the threads: bounds of the state space

VARIABLES
    active, waiting, count, entry,   \* notification and lock, see BinSem
    value, queue, stage,             \* the handoff, see SemBare
    pc, calls, events,
    callback,     \* whether a callback is registered
    due,          \* history: callbacks accepted by reg_callback, less those invoked
    owed          \* history: somebody was waiting for an event when one came

Threads == {Runner} \cup Users

L == INSTANCE BinSem WITH Notifications <- {"event", "lock"}, Locks <- {"lock"}
H == INSTANCE SemBare WITH Sems <- {"handoff"}, Initial <- [s \in {"handoff"} |-> 0]

lockVars == <<active, waiting, count, entry>>
handoffVars == <<value, queue, stage>>
userVars == <<calls, events, due, owed>>
vars == <<lockVars, handoffVars, pc, calls, events, callback, due, owed>>

Init ==
    /\ L!BinSemInit /\ H!SemInit
    /\ pc = [t \in Threads |-> "idle"]
    /\ calls = 0
    /\ events = 0
    /\ callback = FALSE
    /\ due = 0
    /\ owed = FALSE

In(t, l) == pc[t] = l /\ L!Free(t) /\ stage[t] = H!Running
Goto(t, l) == pc' = [pc EXCEPT ![t] = l]
Begins == calls < MaxCalls /\ calls' = calls + 1

(* emit_underlying, at the other end *)
Emit ==
    /\ events < MaxEvents
    /\ events' = events + 1
    /\ L!Signal("event")
    /\ owed' = (owed \/ callback \/ value["handoff"] < 0)
    /\ UNCHANGED <<count, entry, handoffVars, pc, calls, callback, due>>

----------------------------------------------------------------------------
(* The connector's thread: wait for an event and take the lock, *)
RunWait ==
    /\ In(Runner, "idle")
    /\ L!WaitOn(Runner, "event")
    /\ Goto(Runner, "lock")
    /\ UNCHANGED <<count, entry, handoffVars, callback, userVars>>

RunLock ==
    /\ In(Runner, "lock")
    /\ L!Acquire(Runner, "lock")
    /\ Goto(Runner, "decide")
    /\ UNCHANGED <<handoffVars, callback, userVars>>

(* Variant: the event is dropped if there is no callback and no waiter. *)
RunDecideDrops ==
    /\ In(Runner, "decide")
    /\ callback' = FALSE
    /\ UNCHANGED handoffVars
    /\ Goto(Runner, IF callback THEN "unlock_invoke" ELSE "unlock")
    /\ UNCHANGED <<lockVars, userVars>>

(* deregister the callback or, if there is none, post the handoff, *)
RunDecide ==
    /\ In(Runner, "decide")
    /\ callback' = FALSE
    /\ IF callback THEN UNCHANGED handoffVars ELSE H!Post(Runner, "handoff")
    /\ Goto(Runner, IF callback THEN "unlock_invoke" ELSE "unlock")
    /\ UNCHANGED <<lockVars, userVars>>

(* A callback is invoked, with the lock released (also from reg_callback).
   It may register again, which is all it does here. *)
Invoke(t) ==
    /\ In(t, "invoke")
    /\ due' = due - 1
    /\ owed' = FALSE
    /\ \E l \in {"register", "idle"} : Goto(t, l)
    /\ UNCHANGED <<lockVars, handoffVars, calls, events, callback>>

----------------------------------------------------------------------------
(* The component's threads: _poll, *)
Poll(t) ==
    /\ In(t, "idle") /\ Begins
    /\ H!TryWait(t, "handoff")
    /\ UNCHANGED <<lockVars, pc, events, callback, due, owed>>

(* _wait, up to the moment it has to wait, and when it returns, *)
WaitEvent(t) ==
    /\ In(t, "idle") /\ Begins
    /\ H!Wait(t, "handoff")
    /\ Goto(t, "waiting")
    /\ UNCHANGED <<lockVars, events, callback, due, owed>>

WaitReturns(t) ==
    /\ In(t, "waiting")
    /\ owed' = FALSE
    /\ Goto(t, "idle")
    /\ UNCHANGED <<lockVars, handoffVars, calls, events, callback, due>>

(* _reg_callback: a pending event invokes the callback at once; *)
Register(t) ==
    /\ \/ In(t, "idle") /\ Begins /\ t \in Users
       \/ In(t, "register") /\ UNCHANGED calls
    /\ \/ H!TryWait(t, "handoff") /\ due' = due + 1 /\ Goto(t, "invoke")
       \/ value["handoff"] <= 0 /\ Goto(t, "reg_lock") /\ UNCHANGED <<handoffVars, due>>
    /\ UNCHANGED <<lockVars, events, callback, owed>>

RegisterLock(t) ==
    /\ In(t, "reg_lock")
    /\ L!Acquire(t, "lock")
    /\ Goto(t, "reg_check")
    /\ UNCHANGED <<handoffVars, callback, userVars>>

(* Variant: the second poll is left out. *)
RegisterCheckOnce(t) ==
    /\ In(t, "reg_check")
    /\ due' = IF callback THEN due ELSE due + 1
    /\ callback' = TRUE
    /\ Goto(t, "unlock")
    /\ UNCHANGED <<lockVars, handoffVars, calls, events, owed>>

(* one that arrived before the lock was taken does so now; and otherwise the
   callback is registered, if none is. *)
RegisterCheck(t) ==
    /\ In(t, "reg_check")
    /\ \/ /\ H!TryWait(t, "handoff")
          /\ Goto(t, "unlock_invoke")
          /\ due' = due + 1
          /\ UNCHANGED callback
       \/ /\ value["handoff"] <= 0
          /\ Goto(t, "unlock")
          /\ due' = IF callback THEN due ELSE due + 1
          /\ callback' = TRUE
          /\ UNCHANGED handoffVars
    /\ UNCHANGED <<lockVars, calls, events, owed>>

(* unlock, by the connector's thread and by reg_callback *)
Unlock(t) ==
    /\ L!Release(t, "lock")
    /\ \/ In(t, "unlock") /\ Goto(t, "idle")
       \/ In(t, "unlock_invoke") /\ Goto(t, "invoke")
    /\ UNCHANGED <<handoffVars, callback, userVars>>

(* The system calls of the two semaphores. *)
SemStep(t) ==
    /\ \/ L!Enter(t) /\ UNCHANGED handoffVars
       \/ ~L!Blocked(t) /\ H!Rendezvous(t) /\ UNCHANGED lockVars
    /\ UNCHANGED <<pc, callback, userVars>>

----------------------------------------------------------------------------
Common(t) == Invoke(t) \/ Register(t) \/ RegisterLock(t) \/ RegisterCheck(t) \/ Unlock(t) \/ SemStep(t)
Run == RunWait \/ RunLock \/ RunDecide \/ Common(Runner)
User(t) == Poll(t) \/ WaitEvent(t) \/ WaitReturns(t) \/ Common(t)

(* Nothing is left to do but to wait for events. *)
Quiescent ==
    /\ events = MaxEvents
    /\ L!Blocked(Runner) /\ pc[Runner] = "lock"
    /\ \A t \in Users : pc[t] = "waiting" \/ (pc[t] = "idle" /\ In(t, "idle"))

Next ==
    \/ Emit \/ Run \/ \E t \in Users : User(t)
    \/ Quiescent /\ UNCHANGED vars

Spec == Init /\ [][Next]_vars /\ WF_vars(Run) /\ \A t \in Users : WF_vars(User(t))

----------------------------------------------------------------------------
(* "The intent is to also avoid reaching a state where there is both a
   registered callback and a pending notification on the handoff endpoint." *)
NeverBoth == callback => value["handoff"] <= 0 /\ stage[Runner] = H!Running

(* Every callback that reg_callback accepted is registered, on its way to be
   invoked, or has been invoked: none is forgotten, none invoked twice. *)
InvokedOnce ==
    due = Cardinality({t \in Threads : pc[t] \in {"unlock_invoke", "invoke"}}) + (IF callback THEN 1 ELSE 0)

(* Both: a callback is invoked for one event, and the next event finds it gone
   or registered anew. *)
CallbacksExact == NeverBoth /\ InvokedOnce

(* If somebody is waiting for an event, as a thread or as a callback, then one
   that is emitted gets to somebody, though events are joined or dropped when
   nobody waits, and the connector's thread holds its lock while it hands an
   event over. *)
EventsArrive == owed ~> ~owed
=============================================================================
