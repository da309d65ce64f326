----------------------------- MODULE RpcService -----------------------------
(***************************************************************************)
(* What a provided interface promises its clients: calls to an interface   *)
(* are answered one at a time, each exactly once and to its own caller, in *)
(* the order they arrived; a thread that is itself waiting for an answer   *)
(* answers nobody.                                                         *)
(***************************************************************************)
EXTENDS Sequences

CONSTANTS Threads, Servers

VARIABLES
    pending,  \* [Servers -> callers not yet answered, oldest first]
    waiting   \* the threads waiting for an answer

Init ==
    /\ pending = [s \in Servers |-> <<>>]
    /\ waiting = {}

Issue(t, s) ==
    /\ t \notin waiting
    /\ pending' = [pending EXCEPT ![s] = Append(@, t)]
    /\ waiting' = waiting \cup {t}

Answer(s) ==
    /\ s \notin waiting
    /\ pending[s] # <<>>
    /\ pending' = [pending EXCEPT ![s] = Tail(@)]
    /\ waiting' = waiting \ {Head(pending[s])}

Next ==
    \/ \E t \in Threads, s \in Servers : Issue(t, s)
    \/ \E s \in Servers : Answer(s)

Spec == Init /\ [][Next]_<<pending, waiting>>
=============================================================================
