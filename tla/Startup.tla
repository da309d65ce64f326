------------------------------ MODULE Startup ------------------------------
(***************************************************************************)
(* The start of a component (component.common.c, component.environment.c): *)
(* the control thread runs pre_init and lets the interface threads run     *)
(* their initialisers; when all have, it runs post_init and lets them      *)
(* serve.  Three semaphores keep them in step.                             *)
(***************************************************************************)
EXTENDS Integers, Sequences, FiniteSets

CONSTANTS
    Control,      \* the control thread
    Interfaces    \* the interface threads

VARIABLES
    value, queue, stage,   \* the semaphores, see SemBare
    pc                     \* the steps of its program each thread has begun

Threads == {Control} \cup Interfaces
Sems == {"pre_init", "interface_init", "post_init"}

INSTANCE SemBare WITH Initial <- [s \in Sems |-> 0]

vars == <<value, queue, stage, pc>>

Times(op, sem) == [i \in 1 .. Cardinality(Interfaces) |-> <<op, sem>>]

(* Variant: post_init does not wait for the initialisers. *)
ControlProgramNoWait ==
    <<<<"pre_init">>>> \o Times("post", "pre_init")
        \o <<<<"post_init">>>> \o Times("post", "post_init") \o <<<<"run">>>>

(* component_control_main with pre_init_interface_sync and
   post_init_interface_sync *)
ControlProgram ==
    <<<<"pre_init">>>> \o Times("post", "pre_init") \o Times("wait", "interface_init")
        \o <<<<"post_init">>>> \o Times("post", "post_init") \o <<<<"run">>>>

(* post_main of an interface thread *)
InterfaceProgram ==
    <<<<"wait", "pre_init">>, <<"init">>, <<"post", "interface_init">>, <<"wait", "post_init">>, <<"run">>>>

Program(t) == IF t = Control THEN ControlProgram ELSE InterfaceProgram

Init == SemInit /\ pc = [t \in Threads |-> 0]

Finished(t) == pc[t] = Len(Program(t)) /\ stage[t] = Running

(* The next step of a program: a call of a semaphore, or user code. *)
Step(t) ==
    /\ stage[t] = Running /\ ~Finished(t)
    /\ pc' = [pc EXCEPT ![t] = @ + 1]
    /\ LET step == Program(t)[pc[t] + 1]
       IN  CASE step[1] = "wait" -> Wait(t, step[2])
             [] step[1] = "post" -> Post(t, step[2])
             [] OTHER -> UNCHANGED <<value, queue, stage>>

Thread(t) == Step(t) \/ (Rendezvous(t) /\ UNCHANGED pc)

Started == (\A t \in Threads : Finished(t)) /\ UNCHANGED vars

Next == (\E t \in Threads : Thread(t)) \/ Started

Spec == Init /\ [][Next]_vars /\ \A t \in Threads : WF_vars(Thread(t))

----------------------------------------------------------------------------
(* t has begun the step of its program that is called op. *)
Begun(t, op) == \E i \in 1 .. pc[t] : Program(t)[i] = <<op>>

(* t is past it. *)
Over(t, op) == Begun(t, op) /\ Program(t)[pc[t]] # <<op>>

(* No initialiser runs before pre_init has ended, post_init not before all
   initialisers have ended, and no interface thread serves before post_init
   has: although the threads are equal to the semaphores, and a fast one may
   wait at the next before a slow one has come to the first. *)
PhasesKeptApart ==
    /\ \A i \in Interfaces : Begun(i, "init") => Over(Control, "pre_init")
    /\ Begun(Control, "post_init") => \A i \in Interfaces : Over(i, "init")
    /\ \A i \in Interfaces : Begun(i, "run") => Over(Control, "post_init")

(* The component starts: every thread gets to its run. *)
EverythingStarts == <>(\A t \in Threads : Finished(t))
=============================================================================
