-------------------------- MODULE Component_proofs --------------------------
(***************************************************************************)
(* What the component's threads may rely on, for any number of them: the   *)
(* semaphores' counters are exact, the phases of the start stay in order,  *)
(* the shared stub gives every thread its own response, and callbacks are  *)
(* exact.                                                                  *)
(*                                                                         *)
(* A thread is in one of the three parts at a time, so each part has an    *)
(* inductive invariant of its own, which steps of the others do not touch. *)
(* All three are about how many threads a semaphore has let through, and   *)
(* rest on SemBare_proofs.                                                 *)
(***************************************************************************)
EXTENDS Component, Functions, SequenceTheorems, FiniteSetTheorems, TLAPS

Interfaces == {Runner} \cup Others
Threads == {Runner} \cup Users

(* The semaphores of the start, of the stub, and the handoff. *)
SB == INSTANCE SemBare_proofs WITH
    Threads <- S!Threads, Sems <- S!Sems, Initial <- [s \in S!Sems |-> 0],
    value <- initValue, queue <- initQueue, stage <- initStage

RB == INSTANCE SemBare_proofs WITH
    Threads <- {Runner} \cup Users, Sems <- {"lock"}, Initial <- [s \in {"lock"} |-> 1],
    value <- lockValue, queue <- lockQueue, stage <- lockStage

HB == INSTANCE SemBare_proofs WITH
    Threads <- E!Threads, Sems <- {"handoff"}, Initial <- [s \in {"handoff"} |-> 0]

(* The threads are finitely many. *)
LEMMA FiniteThreads ==
    /\ IsFiniteSet(Threads) /\ IsFiniteSet(Interfaces) /\ IsFiniteSet(S!Threads) /\ IsFiniteSet(E!Threads)
    /\ Threads = S!Threads /\ Threads = E!Threads /\ Threads = {Control} \cup Interfaces
    /\ Cardinality(Interfaces) \in Nat
    /\ Control \notin Interfaces /\ Runner \notin Users
<1>1. Threads = {Control} \cup Interfaces /\ Threads = S!Threads /\ Threads = E!Threads
  BY DEF Threads, Interfaces, Users, S!Threads, E!Threads
<1>2. IsFiniteSet(Interfaces) /\ IsFiniteSet({Control} \cup Interfaces)
  BY ComponentAssumption, FS_AddElement DEF Interfaces
<1> QED  BY <1>1, <1>2, ComponentAssumption, FS_CardinalityType DEF Interfaces, Users

(* A thread that waits for a lock joins its queue. *)
LEMMA Enqueued ==
    ASSUME NEW T, NEW q \in Seq(T), NEW t \in T, t \notin Range(q), IsInjective(q)
    PROVE  /\ Append(q, t) \in Seq(T) /\ IsInjective(Append(q, t))
           /\ Range(Append(q, t)) = Range(q) \cup {t}
<1>1. \A f : HB!Range(f) = Range(f) /\ (HB!IsInjective(f) <=> IsInjective(f))
  BY DEF HB!Range, Range, HB!IsInjective, IsInjective
<1>2. t \notin HB!Range(q) /\ HB!IsInjective(q)
  BY <1>1
<1>3. /\ Append(q, t) \in Seq(T) /\ HB!IsInjective(Append(q, t))
      /\ HB!Range(Append(q, t)) = HB!Range(q) \cup {t}
  BY <1>2, HB!EnqueueFacts
<1> QED  BY <1>1, <1>3

(* A set with two different elements has at least two. *)
LEMMA TwoWithin ==
    ASSUME NEW X, IsFiniteSet(X), NEW t \in X, NEW u \in X, t # u
    PROVE  Cardinality(X) \in Nat /\ 2 <= Cardinality(X)
<1>1. Cardinality({t}) = 1 /\ IsFiniteSet({t})
  BY ONLY FS_Singleton
<1>2. u \notin {t} /\ {t} \cup {u} = {t, u} /\ {t, u} \subseteq X
  OBVIOUS
<1>3. Cardinality({t} \cup {u}) = Cardinality({t}) + 1
  BY ONLY <1>1, <1>2, FS_AddElement
<1>4. Cardinality({t, u}) = 2
  <2>1. 1 + 1 = 2
    OBVIOUS
  <2> QED  BY ONLY <1>1, <1>2, <1>3, <2>1
<1>5. Cardinality(X) \in Nat /\ Cardinality({t, u}) <= Cardinality(X)
  BY <1>2, FS_Subset, FS_CardinalityType
<1> QED  BY ONLY <1>4, <1>5

(* Whatever module counts, it counts the same. *)
LEMMA SameCounting ==
    \A X : /\ SB!IsFiniteSet(X) <=> IsFiniteSet(X)
           /\ RB!IsFiniteSet(X) <=> IsFiniteSet(X)
           /\ HB!IsFiniteSet(X) <=> IsFiniteSet(X)
           /\ S!Cardinality(X) = Cardinality(X) /\ SB!Cardinality(X) = Cardinality(X)
           /\ R!Cardinality(X) = Cardinality(X) /\ RB!Cardinality(X) = Cardinality(X)
           /\ E!Cardinality(X) = Cardinality(X)
           /\ E!H!Cardinality(X) = Cardinality(X) /\ HB!Cardinality(X) = Cardinality(X)
<1> TAKE X
<1>1. /\ SB!IsFiniteSet(X) <=> IsFiniteSet(X)
      /\ RB!IsFiniteSet(X) <=> IsFiniteSet(X)
      /\ HB!IsFiniteSet(X) <=> IsFiniteSet(X)
  BY DEF SB!IsFiniteSet, RB!IsFiniteSet, HB!IsFiniteSet, IsFiniteSet
<1>2. S!Cardinality(X) = Cardinality(X) /\ SB!Cardinality(X) = Cardinality(X)
  BY DEF S!Cardinality, SB!Cardinality, Cardinality
<1>3. R!Cardinality(X) = Cardinality(X) /\ RB!Cardinality(X) = Cardinality(X)
  BY DEF R!Cardinality, RB!Cardinality, Cardinality
<1>4. E!Cardinality(X) = Cardinality(X)
  BY DEF E!Cardinality, Cardinality
<1>5. E!H!Cardinality(X) = Cardinality(X) /\ HB!Cardinality(X) = Cardinality(X)
  BY DEF E!H!Cardinality, HB!Cardinality, Cardinality
<1> QED  BY <1>1, <1>2, <1>3, <1>4, <1>5

(* The semaphores' operations are those SemBare_proofs is about. *)
LEMMA SameStart ==
    /\ S!SemInit => SB!SemInit
    /\ \A t, s : (S!Wait(t, s) => SB!Wait(t, s)) /\ (S!Post(t, s) => SB!Post(t, s))
    /\ \A t : S!Rendezvous(t) => SB!Rendezvous(t)
    /\ S!CounterExact <=> SB!CounterExact
<1>1. S!SemInit => SB!SemInit
  BY DEF S!SemInit, SB!SemInit, S!Running, SB!Running
<1>2. \A t, s : (S!Wait(t, s) => SB!Wait(t, s)) /\ (S!Post(t, s) => SB!Post(t, s))
  BY DEF S!Wait, SB!Wait, S!Post, SB!Post, S!Running, SB!Running, S!At, SB!At
<1>3. \A t : S!Rendezvous(t) => SB!Rendezvous(t)
  BY DEF S!Rendezvous, SB!Rendezvous, S!Meet, SB!Meet, S!Running, SB!Running, S!At, SB!At
<1>4. S!CounterExact <=> SB!CounterExact
  BY SameCounting DEF S!CounterExact, SB!CounterExact, S!Waiters, SB!Waiters, S!Wakers, SB!Wakers, S!At, SB!At
<1> QED  BY <1>1, <1>2, <1>3, <1>4

(* The same for the lock of the stub. *)
LEMMA SameLock ==
    /\ R!SemInit => RB!SemInit
    /\ \A t, s : (R!Wait(t, s) => RB!Wait(t, s)) /\ (R!Post(t, s) => RB!Post(t, s))
    /\ \A t : R!Rendezvous(t) => RB!Rendezvous(t)
    /\ R!CounterExact <=> RB!CounterExact
<1>1. R!SemInit => RB!SemInit
  BY DEF R!SemInit, RB!SemInit, R!Running, RB!Running
<1>2. \A t, s : (R!Wait(t, s) => RB!Wait(t, s)) /\ (R!Post(t, s) => RB!Post(t, s))
  BY DEF R!Wait, RB!Wait, R!Post, RB!Post, R!Running, RB!Running, R!At, RB!At
<1>3. \A t : R!Rendezvous(t) => RB!Rendezvous(t)
  BY DEF R!Rendezvous, RB!Rendezvous, R!Meet, RB!Meet, R!Running, RB!Running, R!At, RB!At
<1>4. R!CounterExact <=> RB!CounterExact
  BY SameCounting DEF R!CounterExact, RB!CounterExact, R!Waiters, RB!Waiters, R!Wakers, RB!Wakers, R!At, RB!At
<1> QED  BY <1>1, <1>2, <1>3, <1>4

(* The same for the handoff. *)
LEMMA SameHandoff ==
    /\ E!H!SemInit => HB!SemInit
    /\ \A t, s : /\ E!H!Wait(t, s) => HB!Wait(t, s)
                 /\ E!H!TryWait(t, s) => HB!TryWait(t, s)
                 /\ E!H!Post(t, s) => HB!Post(t, s)
    /\ \A t : E!H!Rendezvous(t) => HB!Rendezvous(t)
    /\ E!H!CounterExact <=> HB!CounterExact
<1>1. E!H!SemInit => HB!SemInit
  BY DEF E!H!SemInit, HB!SemInit, E!H!Running, HB!Running
<1>2. \A t, s : /\ E!H!Wait(t, s) => HB!Wait(t, s)
                /\ E!H!TryWait(t, s) => HB!TryWait(t, s)
                /\ E!H!Post(t, s) => HB!Post(t, s)
  BY DEF E!H!Wait, HB!Wait, E!H!TryWait, HB!TryWait, E!H!Post, HB!Post, E!H!Running, HB!Running, E!H!At, HB!At
<1>3. \A t : E!H!Rendezvous(t) => HB!Rendezvous(t)
  BY DEF E!H!Rendezvous, HB!Rendezvous, E!H!Meet, HB!Meet, E!H!Running, HB!Running, E!H!At, HB!At
<1>4. E!H!CounterExact <=> HB!CounterExact
  BY SameCounting DEF E!H!CounterExact, HB!CounterExact, E!H!Waiters, HB!Waiters, E!H!Wakers, HB!Wakers, E!H!At, HB!At
<1> QED  BY <1>1, <1>2, <1>3, <1>4
----------------------------------------------------------------------------
(* The start.  Every step of the control program is known from its place. *)
n == Cardinality(Interfaces)

ControlStep(i) ==
    IF i = 1 THEN <<"pre_init">>
    ELSE IF i <= n + 1 THEN <<"post", "pre_init">>
    ELSE IF i <= 2 * n + 1 THEN <<"wait", "interface_init">>
    ELSE IF i = 2 * n + 2 THEN <<"post_init">>
    ELSE IF i <= 3 * n + 2 THEN <<"post", "post_init">>
    ELSE <<"run">>

(* The control program, step by step. *)
LEMMA ControlSteps ==
    /\ Len(S!ControlProgram) = 3 * n + 3
    /\ \A i \in 1 .. 3 * n + 3 : S!ControlProgram[i] = ControlStep(i)
<1> DEFINE W == {ControlStep(i) : i \in 1 .. 3 * n + 3} \cup {<<"post", "pre_init">>, <<"wait", "interface_init">>,
                    <<"post", "post_init">>, <<"pre_init">>, <<"post_init">>, <<"run">>}
           first == <<<<"pre_init">>>>
           pre == S!Times("post", "pre_init")
           init == S!Times("wait", "interface_init")
           fourth == <<<<"post_init">>>>
           post == S!Times("post", "post_init")
           last == <<<<"run">>>>
<1>1. n \in Nat
  BY FiniteThreads DEF n
<1>2. /\ pre  = [i \in 1 .. n |-> <<"post", "pre_init">>]
      /\ init = [i \in 1 .. n |-> <<"wait", "interface_init">>]
      /\ post = [i \in 1 .. n |-> <<"post", "post_init">>]
  BY SameCounting DEF S!Times, n, Interfaces
<1>3. /\ pre \in Seq(W) /\ Len(pre) = n /\ init \in Seq(W) /\ Len(init) = n /\ post \in Seq(W) /\ Len(post) = n
      /\ \A i \in 1 .. n : /\ pre[i] = <<"post", "pre_init">>
                           /\ init[i] = <<"wait", "interface_init">>
                           /\ post[i] = <<"post", "post_init">>
  <2>1. <<"post", "pre_init">> \in W /\ <<"wait", "interface_init">> \in W /\ <<"post", "post_init">> \in W
    OBVIOUS
  <2> HIDE DEF W, pre, init, post
  <2> QED  BY <1>1, <1>2, <2>1
<1>4. /\ first \in Seq(W) /\ Len(first) = 1 /\ first[1] = <<"pre_init">>
      /\ fourth \in Seq(W) /\ Len(fourth) = 1 /\ fourth[1] = <<"post_init">>
      /\ last \in Seq(W) /\ Len(last) = 1 /\ last[1] = <<"run">>
  <2>1. <<"pre_init">> \in W /\ <<"post_init">> \in W /\ <<"run">> \in W
    OBVIOUS
  <2> HIDE DEF W
  <2> QED  BY <2>1
<1>5. S!ControlProgram = first \o pre \o init \o fourth \o post \o last
  BY DEF S!ControlProgram
<1> HIDE DEF W, first, pre, init, fourth, post, last
<1>6. /\ first \o pre \in Seq(W) /\ Len(first \o pre) = 1 + n
      /\ \A i \in 1 .. 1 + n : (first \o pre)[i] = IF i <= 1 THEN first[i] ELSE pre[i - 1]
  <2>1. first \in Seq(W) /\ pre \in Seq(W) /\ Len(first) = 1 /\ Len(pre) = n
    BY <1>1, <1>3, <1>4
  <2>2. /\ first \o pre \in Seq(W) /\ Len(first \o pre) = Len(first) + Len(pre)
        /\ \A i \in 1 .. Len(first) + Len(pre) :
              (first \o pre)[i] = IF i <= Len(first) THEN first[i] ELSE pre[i - Len(first)]
    BY ONLY <2>1, ConcatProperties
  <2> QED  BY <2>1, <2>2
<1> DEFINE p2 == first \o pre
           p3 == p2 \o init
           p4 == p3 \o fourth
           p5 == p4 \o post
<1>14. p2 \in Seq(W) /\ Len(p2) = 1 + n /\ \A i \in 1 .. 1 + n : p2[i] = IF i <= 1 THEN first[i] ELSE pre[i - 1]
  BY <1>6
<1>15. S!ControlProgram = p5 \o last
  BY <1>5
<1> HIDE DEF p2
<1>7. /\ p3 \in Seq(W) /\ Len(p3) = (1 + n) + n
      /\ \A i \in 1 .. (1 + n) + n : p3[i] = IF i <= 1 + n THEN p2[i] ELSE init[i - (1 + n)]
  <2>1. p2 \in Seq(W) /\ init \in Seq(W) /\ Len(p2) = 1 + n /\ Len(init) = n
    BY <1>1, <1>3, <1>14
  <2>2. /\ p2 \o init \in Seq(W) /\ Len(p2 \o init) = Len(p2) + Len(init)
        /\ \A i \in 1 .. Len(p2) + Len(init) :
              (p2 \o init)[i] = IF i <= Len(p2) THEN p2[i] ELSE init[i - Len(p2)]
    BY ONLY <2>1, ConcatProperties
  <2> QED  BY <2>1, <2>2
<1> HIDE DEF p3
<1>8. /\ p4 \in Seq(W) /\ Len(p4) = ((1 + n) + n) + 1
      /\ \A i \in 1 .. ((1 + n) + n) + 1 :
            p4[i] = IF i <= (1 + n) + n THEN p3[i] ELSE fourth[i - ((1 + n) + n)]
  <2>1. p3 \in Seq(W) /\ fourth \in Seq(W) /\ Len(p3) = (1 + n) + n /\ Len(fourth) = 1
    BY <1>1, <1>4, <1>7
  <2>2. /\ p3 \o fourth \in Seq(W) /\ Len(p3 \o fourth) = Len(p3) + Len(fourth)
        /\ \A i \in 1 .. Len(p3) + Len(fourth) :
              (p3 \o fourth)[i] = IF i <= Len(p3) THEN p3[i] ELSE fourth[i - Len(p3)]
    BY ONLY <2>1, ConcatProperties
  <2> QED  BY <2>1, <2>2
<1> HIDE DEF p4
<1>9. /\ p5 \in Seq(W) /\ Len(p5) = (((1 + n) + n) + 1) + n
      /\ \A i \in 1 .. (((1 + n) + n) + 1) + n :
            p5[i] = IF i <= ((1 + n) + n) + 1 THEN p4[i] ELSE post[i - (((1 + n) + n) + 1)]
  <2>1. p4 \in Seq(W) /\ post \in Seq(W) /\ Len(p4) = ((1 + n) + n) + 1 /\ Len(post) = n
    BY <1>1, <1>3, <1>8
  <2>2. /\ p4 \o post \in Seq(W) /\ Len(p4 \o post) = Len(p4) + Len(post)
        /\ \A i \in 1 .. Len(p4) + Len(post) :
              (p4 \o post)[i] = IF i <= Len(p4) THEN p4[i] ELSE post[i - Len(p4)]
    BY ONLY <2>1, ConcatProperties
  <2> QED  BY <2>1, <2>2
<1> HIDE DEF p5
<1>10. /\ Len(p5 \o last) = ((((1 + n) + n) + 1) + n) + 1
       /\ \A i \in 1 .. ((((1 + n) + n) + 1) + n) + 1 :
             (p5 \o last)[i] =
                IF i <= (((1 + n) + n) + 1) + n THEN p5[i] ELSE last[i - ((((1 + n) + n) + 1) + n)]
  <2>1. p5 \in Seq(W) /\ last \in Seq(W) /\ Len(p5) = (((1 + n) + n) + 1) + n /\ Len(last) = 1
    BY <1>1, <1>4, <1>9
  <2>2. /\ p5 \o last \in Seq(W) /\ Len(p5 \o last) = Len(p5) + Len(last)
        /\ \A i \in 1 .. Len(p5) + Len(last) :
              (p5 \o last)[i] = IF i <= Len(p5) THEN p5[i] ELSE last[i - Len(p5)]
    BY ONLY <2>1, ConcatProperties
  <2> QED  BY <2>1, <2>2
<1>11. Len(S!ControlProgram) = 3 * n + 3
  BY <1>1, <1>4, <1>15, <1>10
<1>12. ASSUME NEW i \in 1 .. 3 * n + 3 PROVE S!ControlProgram[i] = ControlStep(i)
  <2>1. i \in Int /\ i >= 1 /\ i <= 3 * n + 3
    BY <1>1
  <2>2. CASE i = 3 * n + 3
    <3>1. S!ControlProgram[i] = last[1]
      BY <1>1, <1>15, <1>10, <2>1, <2>2
    <3>2. ControlStep(i) = <<"run">>
      BY <1>1, <2>2 DEF ControlStep
    <3> QED  BY <1>4, <3>1, <3>2
  <2>3. CASE i <= 3 * n + 2
    <3>1. S!ControlProgram[i] = p5[i]
      BY <1>1, <1>15, <1>10, <2>1, <2>3
    <3>2. CASE i > 2 * n + 2
      <4>1. p5[i] = post[i - (2 * n + 2)] /\ i - (2 * n + 2) \in 1 .. n
        BY <1>1, <1>9, <2>1, <2>3, <3>2
      <4>2. post[i - (2 * n + 2)] = <<"post", "post_init">>
        BY ONLY <1>3, <4>1
      <4>3. ControlStep(i) = <<"post", "post_init">>
        BY <1>1, <2>1, <2>3, <3>2 DEF ControlStep
      <4> QED  BY <3>1, <4>1, <4>2, <4>3
    <3>3. CASE i <= 2 * n + 2
      <4>1. p5[i] = p4[i]
        BY <1>1, <1>9, <2>1, <3>3
      <4>2. CASE i = 2 * n + 2
        <5>1. p4[i] = fourth[1]
          BY <1>1, <1>8, <2>1, <4>2
        <5>2. ControlStep(i) = <<"post_init">>
          BY <1>1, <4>2 DEF ControlStep
        <5> QED  BY <1>4, <3>1, <4>1, <5>1, <5>2
      <4>3. CASE i <= 2 * n + 1
        <5>1. p4[i] = p3[i]
          BY <1>1, <1>8, <2>1, <4>3
        <5>2. CASE i > n + 1
          <6>1. p3[i] = init[i - (n + 1)] /\ i - (n + 1) \in 1 .. n
            BY <1>1, <1>7, <2>1, <4>3, <5>2
          <6>2. init[i - (n + 1)] = <<"wait", "interface_init">>
            BY ONLY <1>3, <6>1
          <6>3. ControlStep(i) = <<"wait", "interface_init">>
            BY <1>1, <2>1, <4>3, <5>2 DEF ControlStep
          <6> QED  BY <3>1, <4>1, <5>1, <6>1, <6>2, <6>3
        <5>3. CASE i <= n + 1
          <6>1. p3[i] = p2[i]
            BY <1>1, <1>7, <2>1, <5>3
          <6>2. p2[i] = IF i <= 1 THEN first[i] ELSE pre[i - 1]
            BY <1>1, <1>14, <2>1, <5>3
          <6>3. i # 1 => i - 1 \in 1 .. n
            BY <1>1, <2>1, <5>3
          <6>4. ControlStep(i) = IF i <= 1 THEN <<"pre_init">> ELSE <<"post", "pre_init">>
            BY <1>1, <2>1, <5>3 DEF ControlStep
          <6>5. CASE i = 1
            BY <1>4, <3>1, <4>1, <5>1, <6>1, <6>2, <6>4, <6>5
          <6>6. CASE i # 1
            <7>1. pre[i - 1] = <<"post", "pre_init">>
              BY ONLY <1>3, <6>3, <6>6
            <7> QED  BY <2>1, <3>1, <4>1, <5>1, <6>1, <6>2, <6>4, <6>6, <7>1
          <6> QED  BY <6>5, <6>6
        <5> QED  BY <1>1, <2>1, <5>2, <5>3
      <4> QED  BY <1>1, <2>1, <3>3, <4>2, <4>3
    <3> QED  BY <1>1, <2>1, <3>2, <3>3
  <2> QED  BY <1>1, <2>1, <2>2, <2>3
<1> QED  BY <1>11, <1>12

(* The program of an interface thread, step by step *)
InterfaceStep(i) ==
    IF i = 1 THEN <<"wait", "pre_init">>
    ELSE IF i = 2 THEN <<"init">>
    ELSE IF i = 3 THEN <<"post", "interface_init">>
    ELSE IF i = 4 THEN <<"wait", "post_init">>
    ELSE <<"run">>

Length(t) == IF t = Control THEN 3 * n + 3 ELSE 5
StepOf(t, i) == IF t = Control THEN ControlStep(i) ELSE InterfaceStep(i)

(* What a step adds to a semaphore's counter *)
Effect(step, s) == IF step = <<"post", s>> THEN 1 ELSE IF step = <<"wait", s>> THEN -1 ELSE 0

(* Where a thread may be in the semaphores' code *)
StageFits(t) ==
    \/ initStage[t] = SB!Running
    \/ /\ phase[t] >= 1
       /\ \E s \in S!Sems :
             \/ initStage[t] \in {SB!At("wait", s), SB!At("recv", s)} /\ StepOf(t, phase[t]) = <<"wait", s>>
             \/ initStage[t] \in {SB!At("post", s), SB!At("send", s)} /\ StepOf(t, phase[t]) = <<"post", s>>

(* The iterations begun of the loop that follows the control program's step a *)
Loop(a) == IF phase[Control] <= a THEN 0 ELSE IF phase[Control] >= a + n THEN n ELSE phase[Control] - a

(* The interface threads that have begun their step k *)
Begun(k) == {i \in Interfaces : phase[i] >= k}

(* Every semaphore counts how far the two sides of it are apart. *)
StartInv ==
    /\ SB!SemInv
    /\ phase \in [Threads -> Nat] /\ \A t \in Threads : phase[t] <= Length(t)
    /\ \A t \in Threads : StageFits(t)
    /\ initValue["pre_init"] = Loop(1) - Cardinality(Begun(1))
    /\ initValue["interface_init"] = Cardinality(Begun(3)) - Loop(n + 1)
    /\ initValue["post_init"] = Loop(2 * n + 2) - Cardinality(Begun(4))

(* The programs are those of the invariant. *)
LEMMA ProgramSteps ==
    ASSUME NEW t \in Threads
    PROVE  Len(S!Program(t)) = Length(t) /\ \A i \in 1 .. Length(t) : S!Program(t)[i] = StepOf(t, i)
<1>1. CASE t = Control
  BY <1>1, ControlSteps DEF S!Program, Length, StepOf
<1>2. CASE t # Control
  <2>1. S!Program(t) = S!InterfaceProgram /\ Length(t) = 5
    BY <1>2 DEF S!Program, Length
  <2>2. Len(S!InterfaceProgram) = 5 /\ \A i \in 1 .. 5 : S!InterfaceProgram[i] = InterfaceStep(i)
    BY DEF S!InterfaceProgram, InterfaceStep
  <2> QED  BY <1>2, <2>1, <2>2 DEF StepOf
<1> QED  BY <1>1, <1>2

(* There are no other steps: calls of the semaphores, and user code. *)
LEMMA StepKinds ==
    ASSUME NEW t \in Threads, NEW i \in 1 .. Length(t)
    PROVE  \/ \E s \in S!Sems : StepOf(t, i) = <<"wait", s>> \/ StepOf(t, i) = <<"post", s>>
           \/ StepOf(t, i) \in {<<"pre_init">>, <<"init">>, <<"post_init">>, <<"run">>}
BY DEF StepOf, ControlStep, InterfaceStep, S!Sems

(* What a step of a program does to phase, counters and stages. *)
LEMMA StartStep ==
    ASSUME StartInv, NEW t \in Threads, S!Step(t)
    PROVE  /\ SB!SemInv' /\ initStage[t] = SB!Running
           /\ phase[t] + 1 \in 1 .. Length(t) /\ phase' = [phase EXCEPT ![t] = phase[t] + 1]
           /\ \A s \in S!Sems : initValue'[s] = initValue[s] + Effect(StepOf(t, phase[t] + 1), s)
           /\ \A u \in Threads \ {t} : initStage'[u] = initStage[u]
           /\ StageFits(t)'
<1> DEFINE k == phase[t] + 1
<1>1. /\ initStage[t] = SB!Running /\ phase' = [phase EXCEPT ![t] = k] /\ ~S!Finished(t)
  BY DEF S!Step, S!Running, SB!Running
<1>2. k \in 1 .. Length(t)
  <2>1. phase[t] # Length(t)
    BY <1>1, ProgramSteps DEF S!Finished, S!Running, SB!Running
  <2>2. Length(t) \in Nat
    BY FiniteThreads DEF Length, n
  <2> QED  BY <2>1, <2>2 DEF StartInv
<1>3. phase'[t] = k
  BY <1>1 DEF StartInv
<1> DEFINE step == StepOf(t, k)
<1>4. S!Program(t)[phase[t] + 1] = step
  BY <1>2, ProgramSteps
<1>5. /\ initValue \in [S!Sems -> Int] /\ initStage \in [Threads -> SB!Stages]
  BY FiniteThreads DEF StartInv, SB!SemInv, SB!SemTypeOK
<1>6. \/ \E s \in S!Sems : step = <<"wait", s>> /\ SB!Wait(t, s)
      \/ \E s \in S!Sems : step = <<"post", s>> /\ SB!Post(t, s)
      \/ step \in {<<"pre_init">>, <<"init">>, <<"post_init">>, <<"run">>} /\ UNCHANGED <<initValue, initQueue, initStage>>
  <2>1. CASE \E s \in S!Sems : step = <<"wait", s>>
    BY <1>4, <2>1, SameStart DEF S!Step
  <2>2. CASE \E s \in S!Sems : step = <<"post", s>>
    BY <1>4, <2>2, SameStart DEF S!Step
  <2>3. CASE step \in {<<"pre_init">>, <<"init">>, <<"post_init">>, <<"run">>}
    <3>1. step[1] # "wait" /\ step[1] # "post"
      BY <2>3
    <3> QED  BY <1>4, <2>3, <3>1 DEF S!Step
  <2> QED  BY <1>2, <2>1, <2>2, <2>3, StepKinds
<1> HIDE DEF step
<1>7. CASE \E s \in S!Sems : step = <<"wait", s>> /\ SB!Wait(t, s)
  <2>1. PICK s \in S!Sems : step = <<"wait", s>> /\ SB!Wait(t, s)
    BY <1>7
  <2>2. \A r \in S!Sems : initValue'[r] = initValue[r] + Effect(step, r)
    BY <1>5, <2>1 DEF SB!Wait, Effect
  <2>3. (\A u \in Threads \ {t} : initStage'[u] = initStage[u]) /\ initStage'[t] \in {SB!Running, SB!At("wait", s)}
    BY <1>1, <1>5, <2>1 DEF SB!Wait
  <2>4. SB!SemInv'
    BY <2>1, FiniteThreads, SameCounting, SB!SemStep DEF StartInv
  <2> QED  BY <1>1, <1>2, <1>3, <2>1, <2>2, <2>3, <2>4 DEF StageFits, step
<1>8. CASE \E s \in S!Sems : step = <<"post", s>> /\ SB!Post(t, s)
  <2>1. PICK s \in S!Sems : step = <<"post", s>> /\ SB!Post(t, s)
    BY <1>8
  <2>2. \A r \in S!Sems : initValue'[r] = initValue[r] + Effect(step, r)
    BY <1>5, <2>1 DEF SB!Post, Effect
  <2>3. (\A u \in Threads \ {t} : initStage'[u] = initStage[u]) /\ initStage'[t] \in {SB!Running, SB!At("post", s)}
    BY <1>1, <1>5, <2>1 DEF SB!Post
  <2>4. SB!SemInv'
    BY <2>1, FiniteThreads, SameCounting, SB!SemStep DEF StartInv
  <2> QED  BY <1>1, <1>2, <1>3, <2>1, <2>2, <2>3, <2>4 DEF StageFits, step
<1>9. CASE /\ step \in {<<"pre_init">>, <<"init">>, <<"post_init">>, <<"run">>}
           /\ UNCHANGED <<initValue, initQueue, initStage>>
  <2>1. \A r \in S!Sems : initValue'[r] = initValue[r] + Effect(step, r)
    <3>1. \A r \in S!Sems : Effect(step, r) = 0
      BY <1>9 DEF Effect
    <3> QED  BY <1>5, <1>9, <3>1
  <2>2. SB!SemInv'
    BY <1>9, FiniteThreads, SameCounting, SB!SemStep DEF StartInv
  <2> QED  BY <1>1, <1>2, <1>9, <2>1, <2>2 DEF StageFits, step
<1> QED  BY <1>6, <1>7, <1>8, <1>9

(* Nobody has begun anything at first. *)
LEMMA StartInitInv == S!Init => StartInv
<1> SUFFICES ASSUME S!Init PROVE StartInv
  OBVIOUS
<1>1. SB!SemInv
  BY FiniteThreads, SameCounting, SameStart, SB!SemInitInv DEF S!Init, S!Sems
<1>2. phase = [t \in Threads |-> 0] /\ n \in Nat
  BY FiniteThreads DEF S!Init, n
<1>3. \A t \in Threads : StageFits(t) /\ phase[t] <= Length(t)
  BY <1>2, SameStart, FiniteThreads DEF S!Init, StageFits, SB!SemInit, Length
<1>4. Loop(1) = 0 /\ Loop(n + 1) = 0 /\ Loop(2 * n + 2) = 0
  BY <1>2, FiniteThreads DEF Loop
<1>5. Cardinality(Begun(1)) = 0 /\ Cardinality(Begun(3)) = 0 /\ Cardinality(Begun(4)) = 0
  <2>1. Begun(1) = {} /\ Begun(3) = {} /\ Begun(4) = {}
    BY <1>2, FiniteThreads DEF Begun
  <2> QED  BY <2>1, FS_EmptySet
<1>6. \A s \in S!Sems : initValue[s] = 0
  BY SameStart DEF S!Init, SB!SemInit
<1> QED  BY <1>1, <1>2, <1>3, <1>4, <1>5, <1>6 DEF StartInv, S!Sems

(* A step of an interface thread's program: it counts among those that have
   begun this step. *)
LEMMA BegunNext ==
    ASSUME StartInv, NEW t \in Interfaces, phase' = [phase EXCEPT ![t] = phase[t] + 1], NEW k \in {1, 3, 4}
    PROVE  /\ Cardinality(Begun(k)) \in Nat
           /\ Cardinality(Begun(k))' = Cardinality(Begun(k)) + IF phase[t] + 1 = k THEN 1 ELSE 0
<1>1. IsFiniteSet(Begun(k))
  BY FiniteThreads, FS_Subset DEF Begun
<1>2. phase[t] \in Nat /\ phase'[t] = phase[t] + 1 /\ \A u \in Interfaces : u # t => phase'[u] = phase[u]
  BY FiniteThreads DEF StartInv
<1>3. Begun(k)' = IF phase[t] + 1 = k THEN Begun(k) \cup {t} ELSE Begun(k)
  BY <1>2 DEF Begun
<1>4. phase[t] + 1 = k => t \notin Begun(k)
  BY <1>2 DEF Begun
<1> QED  BY <1>1, <1>3, <1>4, FS_AddElement, FS_CardinalityType

(* A step of the control program: the loop it is in advances. *)
LEMMA LoopNext ==
    ASSUME StartInv, phase' = [phase EXCEPT ![Control] = phase[Control] + 1], NEW a \in Nat
    PROVE  /\ Loop(a) \in Nat
           /\ Loop(a)' = Loop(a) + IF phase[Control] + 1 \in a + 1 .. a + n THEN 1 ELSE 0
<1>1. phase[Control] \in Nat /\ phase'[Control] = phase[Control] + 1 /\ n \in Nat
  BY FiniteThreads DEF StartInv, n
<1> QED  BY <1>1 DEF Loop

(* StartInv is inductive. *)
LEMMA StartInvStep ==
    ASSUME StartInv, NEW t \in Threads, S!Thread(t)
    PROVE  StartInv'
<1> DEFINE k == phase[t] + 1
<1>n. n \in Nat
  BY FiniteThreads DEF n
<1>a. ASSUME S!Step(t) PROVE StartInv'
  <2>1. /\ SB!SemInv' /\ initStage[t] = SB!Running
        /\ k \in 1 .. Length(t) /\ phase' = [phase EXCEPT ![t] = k]
        /\ \A s \in S!Sems : initValue'[s] = initValue[s] + Effect(StepOf(t, k), s)
        /\ \A u \in Threads \ {t} : initStage'[u] = initStage[u]
        /\ StageFits(t)'
    BY <1>a, StartStep
  <2>2. /\ phase' \in [Threads -> Nat] /\ phase'[t] = k /\ \A u \in Threads \ {t} : phase'[u] = phase[u]
        /\ \A u \in Threads : phase'[u] <= Length(u)
    BY <2>1 DEF StartInv
  <2>3. \A u \in Threads : StageFits(u)'
    BY <2>1, <2>2 DEF StageFits, StartInv
  <2>4. /\ initValue'["pre_init"] = initValue["pre_init"] + Effect(StepOf(t, k), "pre_init")
        /\ initValue'["interface_init"] = initValue["interface_init"] + Effect(StepOf(t, k), "interface_init")
        /\ initValue'["post_init"] = initValue["post_init"] + Effect(StepOf(t, k), "post_init")
    BY <2>1 DEF S!Sems
  <2>5. CASE t = Control
    <3>1. /\ Begun(1)' = Begun(1) /\ Begun(3)' = Begun(3) /\ Begun(4)' = Begun(4)
      BY <2>2, <2>5, FiniteThreads DEF Begun
    <3>2. /\ Cardinality(Begun(1)) \in Nat /\ Cardinality(Begun(3)) \in Nat /\ Cardinality(Begun(4)) \in Nat
      BY FiniteThreads, FS_Subset, FS_CardinalityType DEF Begun
    <3>3. /\ Effect(StepOf(t, k), "pre_init") = IF k \in 2 .. n + 1 THEN 1 ELSE 0
          /\ Effect(StepOf(t, k), "interface_init") = IF k \in n + 2 .. 2 * n + 1 THEN -1 ELSE 0
          /\ Effect(StepOf(t, k), "post_init") = IF k \in 2 * n + 3 .. 3 * n + 2 THEN 1 ELSE 0
      BY <1>n, <2>1, <2>5 DEF StepOf, ControlStep, Effect, Length
    <3>4. /\ Loop(1) \in Nat /\ Loop(1)' = Loop(1) + IF k \in 2 .. n + 1 THEN 1 ELSE 0
          /\ Loop(n + 1) \in Nat /\ Loop(n + 1)' = Loop(n + 1) + IF k \in n + 2 .. 2 * n + 1 THEN 1 ELSE 0
          /\ Loop(2 * n + 2) \in Nat
          /\ Loop(2 * n + 2)' = Loop(2 * n + 2) + IF k \in 2 * n + 3 .. 3 * n + 2 THEN 1 ELSE 0
      <4>1. phase' = [phase EXCEPT ![Control] = phase[Control] + 1]
        BY <2>1, <2>5
      <4>2. 1 + n = n + 1 /\ (n + 1) + 1 = n + 2 /\ (n + 1) + n = 2 * n + 1
            /\ (2 * n + 2) + 1 = 2 * n + 3 /\ (2 * n + 2) + n = 3 * n + 2 /\ n + 1 \in Nat /\ 2 * n + 2 \in Nat
        BY <1>n
      <4>3. Loop(1) \in Nat /\ Loop(1)' = Loop(1) + IF k \in 2 .. n + 1 THEN 1 ELSE 0
        BY <1>n, <2>5, <4>1, <4>2, LoopNext
      <4>4. Loop(n + 1) \in Nat /\ Loop(n + 1)' = Loop(n + 1) + IF k \in n + 2 .. 2 * n + 1 THEN 1 ELSE 0
        BY <1>n, <2>5, <4>1, <4>2, LoopNext
      <4>5. /\ Loop(2 * n + 2) \in Nat
            /\ Loop(2 * n + 2)' = Loop(2 * n + 2) + IF k \in 2 * n + 3 .. 3 * n + 2 THEN 1 ELSE 0
        BY <1>n, <2>5, <4>1, <4>2, LoopNext
      <4> QED  BY <4>3, <4>4, <4>5
    <3> QED  BY <2>1, <2>2, <2>3, <2>4, <3>1, <3>2, <3>3, <3>4 DEF StartInv
  <2>6. CASE t # Control
    <3>1. t \in Interfaces /\ phase'[Control] = phase[Control]
      BY <2>2, <2>6, FiniteThreads
    <3>2. /\ Loop(1)' = Loop(1) /\ Loop(n + 1)' = Loop(n + 1) /\ Loop(2 * n + 2)' = Loop(2 * n + 2)
          /\ Loop(1) \in Nat /\ Loop(n + 1) \in Nat /\ Loop(2 * n + 2) \in Nat
      <4>1. phase[Control] \in Nat
        BY FiniteThreads DEF StartInv
      <4> QED  BY <1>n, <3>1, <4>1 DEF Loop
    <3>3. /\ Effect(StepOf(t, k), "pre_init") = IF k = 1 THEN -1 ELSE 0
          /\ Effect(StepOf(t, k), "interface_init") = IF k = 3 THEN 1 ELSE 0
          /\ Effect(StepOf(t, k), "post_init") = IF k = 4 THEN -1 ELSE 0
      BY <2>1, <2>6 DEF StepOf, InterfaceStep, Effect, Length
    <3>4. /\ Cardinality(Begun(1)) \in Nat /\ Cardinality(Begun(3)) \in Nat /\ Cardinality(Begun(4)) \in Nat
          /\ Cardinality(Begun(1))' = Cardinality(Begun(1)) + IF k = 1 THEN 1 ELSE 0
          /\ Cardinality(Begun(3))' = Cardinality(Begun(3)) + IF k = 3 THEN 1 ELSE 0
          /\ Cardinality(Begun(4))' = Cardinality(Begun(4)) + IF k = 4 THEN 1 ELSE 0
      BY <2>1, <3>1, BegunNext
    <3> QED  BY <2>1, <2>2, <2>3, <2>4, <3>2, <3>3, <3>4 DEF StartInv
  <2> QED  BY <2>5, <2>6
<1>b. ASSUME S!Rendezvous(t), UNCHANGED phase PROVE StartInv'
  <2>1. SB!Rendezvous(t) /\ SB!SemInv'
    BY <1>b, FiniteThreads, SameCounting, SameStart, SB!SemStep DEF StartInv
  <2>2. initValue' = initValue
    BY <2>1 DEF SB!Rendezvous
  <2>3. \A u \in Threads : StageFits(u)'
    <3> SUFFICES ASSUME NEW u \in Threads PROVE StageFits(u)'
      OBVIOUS
    <3>1. PICK s \in S!Sems : \/ initStage[t] = SB!At("wait", s) /\ SB!Meet(t, s, "recv", "send")
                              \/ initStage[t] = SB!At("post", s) /\ SB!Meet(t, s, "send", "recv")
      BY <2>1 DEF SB!Rendezvous
    <3>2. initStage \in [Threads -> SB!Stages]
      BY FiniteThreads DEF StartInv, SB!SemInv, SB!SemTypeOK
    <3>3. \/ initStage'[u] \in {initStage[u], SB!Running}
          \/ u = t /\ initStage[t] = SB!At("wait", s) /\ initStage'[t] = SB!At("recv", s)
          \/ u = t /\ initStage[t] = SB!At("post", s) /\ initStage'[t] = SB!At("send", s)
      BY <3>1, <3>2 DEF SB!Meet
    <3>4. StageFits(u) /\ phase' = phase
      BY <1>b DEF StartInv
    <3>5. initStage[u] # SB!Running => StageFits(u)'
      <4>1. \A p, q, r, v : SB!At(p, r) = SB!At(q, v) <=> p = q /\ r = v
        BY SB!StagesDiffer
      <4> QED  BY <3>1, <3>3, <3>4, <4>1 DEF StageFits
    <3>6. initStage[u] = SB!Running => StageFits(u)'
      <4>1. \A p, v : p # "running" => SB!At(p, v) # SB!Running
        BY SB!StagesDiffer
      <4> QED  BY <3>3, <4>1 DEF StageFits
    <3> QED  BY <3>5, <3>6
  <2>4. /\ Begun(1)' = Begun(1) /\ Begun(3)' = Begun(3) /\ Begun(4)' = Begun(4)
        /\ Loop(1)' = Loop(1) /\ Loop(n + 1)' = Loop(n + 1) /\ Loop(2 * n + 2)' = Loop(2 * n + 2)
    BY <1>b DEF Begun, Loop
  <2> QED  BY <1>b, <2>1, <2>2, <2>3, <2>4 DEF StartInv
<1> QED  BY <1>a, <1>b DEF S!Thread

(* Who waits at a semaphore is at a step of its program that waits there. *)
LEMMA WaitersWait ==
    ASSUME StartInv, NEW s \in S!Sems, NEW t \in SB!Waiters(s)
    PROVE  t \in Threads /\ phase[t] \in 1 .. Length(t) /\ StepOf(t, phase[t]) = <<"wait", s>>
<1>1. t \in Threads /\ initStage[t] \in {SB!At("wait", s), SB!At("recv", s)}
  BY FiniteThreads DEF SB!Waiters
<1>2. /\ \A p, q, r, v : SB!At(p, r) = SB!At(q, v) <=> p = q /\ r = v
      /\ \A p, v : p # "running" => SB!At(p, v) # SB!Running
  BY SB!StagesDiffer
<1>3. phase[t] >= 1 /\ StepOf(t, phase[t]) = <<"wait", s>>
  BY <1>1, <1>2 DEF StartInv, StageFits
<1>4. phase[t] \in Nat /\ phase[t] <= Length(t) /\ Length(t) \in Nat
  BY <1>1, FiniteThreads DEF StartInv, Length, n
<1> QED  BY <1>1, <1>3, <1>4

(* A thread that has got past a loop's semaphore was let through by an
   iteration of the other side's loop. *)
LEMMA LetThrough ==
    ASSUME StartInv, NEW s \in S!Sems, NEW a \in Nat, NEW k \in Nat,
           initValue[s] = Loop(a) - Cardinality(Begun(k)),
           SB!Waiters(s) \subseteq Begun(k),
           NEW t \in Begun(k) \ SB!Waiters(s)
    PROVE  phase[Control] > a
<1>1. IsFiniteSet(Begun(k)) /\ Begun(k) \in SUBSET S!Threads
  BY FiniteThreads, FS_Subset DEF Begun
<1>2. /\ IsFiniteSet(Begun(k) \ SB!Waiters(s)) /\ IsFiniteSet(SB!Wakers(s))
  BY <1>1, FiniteThreads, FS_Subset DEF SB!Wakers
<1>3. /\ Cardinality(Begun(k)) \in Nat /\ Cardinality(Begun(k) \ SB!Waiters(s)) \in Nat
      /\ Cardinality(SB!Wakers(s)) \in Nat
  BY <1>1, <1>2, FS_CardinalityType
<1>4. Cardinality(Begun(k) \ SB!Waiters(s)) # 0
  BY <1>2, FS_EmptySet
<1>5. Cardinality(Begun(k) \ SB!Waiters(s)) + Cardinality(SB!Wakers(s)) <= Cardinality(Begun(k)) + initValue[s]
  BY <1>1, FiniteThreads, SameCounting, SB!Passed DEF StartInv
<1>6. phase[Control] \in Nat /\ n \in Nat
  BY FiniteThreads DEF StartInv, n
<1> QED  BY <1>3, <1>4, <1>5, <1>6 DEF Loop

(* What the phases of the start mean for the threads' programs. *)
LEMMA PhaseMeans ==
    ASSUME StartInv
    PROVE  /\ \A i \in Interfaces : /\ S!Begun(i, "init") => phase[i] >= 2
                                    /\ phase[i] >= 3 => S!Over(i, "init")
                                    /\ S!Begun(i, "run") => phase[i] >= 5
           /\ phase[Control] >= 2 => S!Over(Control, "pre_init")
           /\ S!Begun(Control, "post_init") => phase[Control] >= 2 * n + 2
           /\ phase[Control] >= 2 * n + 3 => S!Over(Control, "post_init")
<1>n. n \in Nat
  BY FiniteThreads DEF n
<1>1. ASSUME NEW i \in Interfaces
      PROVE  /\ S!Begun(i, "init") => phase[i] >= 2
             /\ phase[i] >= 3 => S!Over(i, "init")
             /\ S!Begun(i, "run") => phase[i] >= 5
  <2>1. i \in Threads /\ i # Control /\ phase[i] \in 0 .. 5
    BY FiniteThreads DEF StartInv, Length
  <2>2. \A j \in 1 .. 5 : S!Program(i)[j] = InterfaceStep(j)
    BY <2>1, ProgramSteps DEF StepOf, Length
  <2>3. \A j \in 1 .. 5 : /\ InterfaceStep(j) = <<"init">> <=> j = 2
                          /\ InterfaceStep(j) = <<"run">> <=> j = 5
    BY DEF InterfaceStep
  <2> QED  BY <2>1, <2>2, <2>3 DEF S!Begun, S!Over
<1>2. phase[Control] \in 0 .. 3 * n + 3
  BY <1>n, FiniteThreads DEF StartInv, Length
<1>3. \A j \in 1 .. 3 * n + 3 : S!Program(Control)[j] = ControlStep(j)
  BY FiniteThreads, ProgramSteps DEF StepOf, Length
<1>4. \A j \in 1 .. 3 * n + 3 : /\ ControlStep(j) = <<"pre_init">> <=> j = 1
                                /\ ControlStep(j) = <<"post_init">> <=> j = 2 * n + 2
  BY <1>n DEF ControlStep
<1>5. phase[Control] >= 2 => S!Over(Control, "pre_init")
  <2>1. 1 \in 1 .. 3 * n + 3
    BY <1>n
  <2> QED  BY <1>n, <1>2, <1>3, <1>4, <2>1 DEF S!Begun, S!Over
<1>6. S!Begun(Control, "post_init") => phase[Control] >= 2 * n + 2
  BY <1>n, <1>2, <1>3, <1>4 DEF S!Begun
<1>7. phase[Control] >= 2 * n + 3 => S!Over(Control, "post_init")
  <2>1. 2 * n + 2 \in 1 .. 3 * n + 3
    BY <1>n
  <2> QED  BY <1>n, <1>2, <1>3, <1>4, <2>1 DEF S!Begun, S!Over
<1> QED  BY <1>1, <1>5, <1>6, <1>7

(* The order of the phases follows from the counters. *)
LEMMA PhasesFollow == StartInv => S!PhasesKeptApart
<1> SUFFICES ASSUME StartInv PROVE S!PhasesKeptApart
  OBVIOUS
<1>n. n \in Nat /\ \A t \in Threads : phase[t] \in Nat
  BY FiniteThreads DEF StartInv, n
<1>1. \A t \in SB!Waiters("pre_init") : t \in Interfaces /\ phase[t] = 1
  <2> SUFFICES ASSUME NEW t \in SB!Waiters("pre_init") PROVE t \in Interfaces /\ phase[t] = 1
    OBVIOUS
  <2>1. t \in Threads /\ phase[t] \in 1 .. Length(t) /\ StepOf(t, phase[t]) = <<"wait", "pre_init">>
    BY WaitersWait DEF S!Sems
  <2> QED  BY <1>n, <2>1, FiniteThreads DEF StepOf, ControlStep, InterfaceStep
<1>2. \A t \in SB!Waiters("interface_init") : t = Control /\ phase[Control] <= 2 * n + 1
  <2> SUFFICES ASSUME NEW t \in SB!Waiters("interface_init") PROVE t = Control /\ phase[Control] <= 2 * n + 1
    OBVIOUS
  <2>1. t \in Threads /\ phase[t] \in 1 .. Length(t) /\ StepOf(t, phase[t]) = <<"wait", "interface_init">>
    BY WaitersWait DEF S!Sems
  <2> QED  BY <1>n, <2>1, FiniteThreads DEF StepOf, ControlStep, InterfaceStep
<1>3. \A t \in SB!Waiters("post_init") : t \in Interfaces /\ phase[t] = 4
  <2> SUFFICES ASSUME NEW t \in SB!Waiters("post_init") PROVE t \in Interfaces /\ phase[t] = 4
    OBVIOUS
  <2>1. t \in Threads /\ phase[t] \in 1 .. Length(t) /\ StepOf(t, phase[t]) = <<"wait", "post_init">>
    BY WaitersWait DEF S!Sems
  <2> QED  BY <1>n, <2>1, FiniteThreads DEF StepOf, ControlStep, InterfaceStep
<1>4. ASSUME NEW i \in Interfaces, S!Begun(i, "init") PROVE S!Over(Control, "pre_init")
  <2>1. phase[i] >= 2
    BY <1>4, PhaseMeans
  <2>2. i \in Begun(1) \ SB!Waiters("pre_init") /\ SB!Waiters("pre_init") \subseteq Begun(1)
    BY <1>n, <1>1, <2>1, FiniteThreads DEF Begun
  <2>3. initValue["pre_init"] = Loop(1) - Cardinality(Begun(1)) /\ "pre_init" \in S!Sems
    BY DEF StartInv, S!Sems
  <2>4. phase[Control] > 1
    BY ONLY <2>2, <2>3, StartInv, LetThrough, 1 \in Nat
  <2> QED  BY <1>n, <2>4, PhaseMeans, FiniteThreads
<1>5. ASSUME NEW i \in Interfaces, S!Begun(i, "run") PROVE S!Over(Control, "post_init")
  <2>1. phase[i] >= 5
    BY <1>5, PhaseMeans
  <2>2. i \in Begun(4) \ SB!Waiters("post_init") /\ SB!Waiters("post_init") \subseteq Begun(4)
    BY <1>n, <1>3, <2>1, FiniteThreads DEF Begun
  <2>3. /\ initValue["post_init"] = Loop(2 * n + 2) - Cardinality(Begun(4))
        /\ "post_init" \in S!Sems /\ 2 * n + 2 \in Nat
    BY <1>n DEF StartInv, S!Sems
  <2>4. phase[Control] > 2 * n + 2
    BY ONLY <2>2, <2>3, StartInv, LetThrough, 4 \in Nat
  <2> QED  BY <1>n, <2>4, PhaseMeans, FiniteThreads
<1>6. ASSUME S!Begun(Control, "post_init"), NEW i \in Interfaces PROVE S!Over(i, "init")
  <2>1. phase[Control] >= 2 * n + 2 /\ phase[Control] \in Nat
    BY <1>n, <1>6, PhaseMeans, FiniteThreads
  <2>2. SB!Waiters("interface_init") = {}
    BY <1>n, <1>2, <2>1
  <2>3. Loop(n + 1) = n
    BY <1>n, <2>1 DEF Loop
  <2>4. initValue["interface_init"] >= 0
    <3>1. /\ IsFiniteSet(SB!Wakers("interface_init")) /\ Cardinality(SB!Wakers("interface_init")) \in Nat
      BY FiniteThreads, FS_Subset, FS_CardinalityType DEF SB!Wakers
    <3>2. Cardinality(SB!Waiters("interface_init")) = 0
      BY <2>2, FS_EmptySet
    <3>3. /\ initValue["interface_init"] \in Int
          /\ Cardinality(SB!Waiters("interface_init")) - Cardinality(SB!Wakers("interface_init")) =
                IF initValue["interface_init"] < 0 THEN - initValue["interface_init"] ELSE 0
      BY SameCounting DEF StartInv, SB!SemInv, SB!SemTypeOK, SB!CounterExact, S!Sems
    <3> QED  BY <3>1, <3>2, <3>3
  <2>5. Begun(3) = Interfaces
    <3>1. IsFiniteSet(Interfaces) /\ Begun(3) \subseteq Interfaces
      BY FiniteThreads DEF Begun
    <3>2. Cardinality(Begun(3)) \in Nat /\ Cardinality(Begun(3)) <= n
      BY <3>1, FS_Subset, FS_CardinalityType DEF n
    <3>3. Cardinality(Begun(3)) = Cardinality(Interfaces)
      BY <1>n, <2>3, <2>4, <3>2 DEF StartInv, n
    <3> QED  BY <3>1, <3>3, FS_Subset
  <2>6. phase[i] >= 3
    BY <2>5 DEF Begun
  <2> QED  BY <2>6, PhaseMeans
<1> QED  BY <1>4, <1>5, <1>6 DEF S!PhasesKeptApart, Interfaces
----------------------------------------------------------------------------
(* The stub.  The threads from begin_send to release_recv, and those among
   them that the lock has let through *)
Inside == {t \in Threads : stubPc[t] # "user"}
Holding == Inside \ RB!Waiters("lock")

(* Where a caller may be in the lock's code *)
LockFits(t) ==
    \/ lockStage[t] = RB!Running
    \/ lockStage[t] \in {RB!At("wait", "lock"), RB!At("recv", "lock")} /\ stubPc[t] = "marshal"
    \/ lockStage[t] \in {RB!At("post", "lock"), RB!At("send", "lock")} /\ stubPc[t] = "user"

Contents == {<<>>} \cup (Nat \X {"request", "response"})
Request(t) == <<call[t], "request">>
Response(t) == <<call[t], "response">>

(* A caller's message is where its place in the stub says. *)
ExchangeFits(t) ==
    /\ stubPc[t] = "call" => buffer = Request(t)
    /\ stubPc[t] = "blocked" => \/ pending = <<t>> /\ serving = <<>> /\ buffer = Request(t)
                                \/ pending = <<>> /\ serving = <<t, Request(t)>>
    /\ stubPc[t] = "unmarshal" => buffer = Response(t)
    /\ stubPc[t] = "release" => received[t] = Response(t)

(* Errors return with the lock taken, so the counter bounds the number of
   threads inside, and is not determined by it. *)
StubInv ==
    /\ RB!SemInv
    /\ stubPc \in [Threads -> {"user", "marshal", "call", "blocked", "unmarshal", "release"}]
    /\ call \in [Threads -> Nat] /\ buffer \in Contents /\ received \in [Threads -> Contents]
    /\ \A t \in Threads : LockFits(t)
    /\ lockValue["lock"] <= 1 - Cardinality(Inside)
    /\ \A t \in Threads : ExchangeFits(t)
    /\ pending # <<>> => \E t \in Threads : stubPc[t] = "blocked" /\ pending = <<t>>
    /\ serving # <<>> => \E t \in Threads : stubPc[t] = "blocked" /\ serving = <<t, Request(t)>>

(* A thread that waits for the lock is about to marshal. *)
LEMMA LockWaiters ==
    ASSUME StubInv
    PROVE  /\ RB!Waiters("lock") \subseteq Inside
           /\ \A t \in RB!Waiters("lock") : stubPc[t] = "marshal"
           /\ \A t \in Threads : /\ lockStage[t] = RB!Running => t \notin RB!Waiters("lock")
                                 /\ stubPc[t] \notin {"user", "marshal"} => t \in Holding
<1>1. /\ \A p, q, r, v : RB!At(p, r) = RB!At(q, v) <=> p = q /\ r = v
      /\ \A p, v : p # "running" => RB!At(p, v) # RB!Running
  BY RB!StagesDiffer
<1>2. \A t \in RB!Waiters("lock") : t \in Threads /\ stubPc[t] = "marshal"
  BY <1>1 DEF RB!Waiters, StubInv, LockFits, Threads
<1>3. \A t \in Threads : lockStage[t] = RB!Running => t \notin RB!Waiters("lock")
  BY <1>1 DEF RB!Waiters
<1> QED  BY <1>2, <1>3 DEF Inside, Holding

(* The lock lets one thread through at a time. *)
LEMMA OneHolds ==
    ASSUME StubInv, NEW t \in Holding, NEW u \in Holding
    PROVE  t = u
<1>1. Inside \in SUBSET Threads /\ IsFiniteSet(Inside) /\ IsFiniteSet(Holding) /\ IsFiniteSet(RB!Wakers("lock"))
  BY FiniteThreads, FS_Subset DEF Inside, Holding, RB!Wakers, Threads
<1>2. Cardinality(Holding) + Cardinality(RB!Wakers("lock")) <= Cardinality(Inside) + lockValue["lock"]
  BY <1>1, FiniteThreads, SameCounting, LockWaiters, RB!Passed DEF StubInv, Holding, Threads
<1>3. /\ Cardinality(Holding) \in Nat /\ Cardinality(RB!Wakers("lock")) \in Nat /\ Cardinality(Inside) \in Nat
      /\ lockValue["lock"] \in Int
  BY <1>1, FS_CardinalityType DEF StubInv, RB!SemInv, RB!SemTypeOK
<1>4. Cardinality(Holding) <= 1
  BY <1>2, <1>3 DEF StubInv
<1>5. SUFFICES ASSUME t # u PROVE FALSE
  OBVIOUS
<1>6. Cardinality(Holding) \in Nat /\ 2 <= Cardinality(Holding)
  BY ONLY <1>1, <1>5, TwoWithin, t \in Holding, u \in Holding
<1> QED  BY <1>4, <1>6

(* Nobody reads another's request or response. *)
LEMMA OwnResponseFollows == StubInv => R!OwnResponse
BY DEF StubInv, ExchangeFits, R!OwnResponse, R!Message, Request, Response, Threads

(* Nobody is in the stub at first. *)
LEMMA StubInitInv == R!Init => StubInv
<1> SUFFICES ASSUME R!Init PROVE StubInv
  OBVIOUS
<1>1. RB!SemInv
  BY FiniteThreads, SameCounting, SameLock, RB!SemInitInv DEF R!Init, Threads
<1>2. lockValue["lock"] = 1 /\ \A t \in Threads : lockStage[t] = RB!Running
  BY SameLock DEF R!Init, RB!SemInit, Threads
<1>3. Cardinality(Inside) = 0
  <2>1. Inside = {}
    BY DEF R!Init, Inside, Threads
  <2> QED  BY <2>1, FS_EmptySet
<1> QED  BY <1>1, <1>2, <1>3 DEF R!Init, StubInv, LockFits, ExchangeFits, Contents, Threads

(* While a thread holds the lock the others are outside or wait for it. *)
LEMMA OthersWait ==
    ASSUME StubInv, NEW t \in Threads, lockStage[t] = RB!Running, stubPc[t] # "user"
    PROVE  /\ t \in Holding
           /\ \A u \in Threads \ {t} : stubPc[u] \in {"user", "marshal"}
           /\ stubPc[t] # "blocked" => pending = <<>> /\ serving = <<>>
<1>1. t \in Holding
  BY LockWaiters DEF Holding, Inside
<1>2. \A u \in Threads \ {t} : stubPc[u] \in {"user", "marshal"}
  BY <1>1, LockWaiters, OneHolds
<1> QED  BY <1>1, <1>2 DEF StubInv

(* A thread more or less in the stub *)
LEMMA InsideNext ==
    ASSUME StubInv, NEW t \in Threads, NEW l, stubPc' = [stubPc EXCEPT ![t] = l]
    PROVE  /\ Cardinality(Inside) \in Nat
           /\ l # "user" /\ stubPc[t] = "user" => Cardinality(Inside)' = Cardinality(Inside) + 1
           /\ l # "user" /\ stubPc[t] # "user" => Inside' = Inside
           /\ l = "user" /\ stubPc[t] # "user" => Cardinality(Inside)' = Cardinality(Inside) - 1
<1>1. IsFiniteSet(Inside) /\ Cardinality(Inside) \in Nat
  BY FiniteThreads, FS_Subset, FS_CardinalityType DEF Inside
<1>2. /\ l # "user" => Inside' = Inside \cup {t}
      /\ l = "user" => Inside' = Inside \ {t}
      /\ t \in Inside <=> stubPc[t] # "user"
  BY DEF Inside, StubInv
<1>3. /\ t \notin Inside => Cardinality(Inside \cup {t}) = Cardinality(Inside) + 1
      /\ t \in Inside => Cardinality(Inside \ {t}) = Cardinality(Inside) - 1
  BY <1>1, FS_AddElement, FS_RemoveElement
<1> QED  BY <1>1, <1>2, <1>3

(* The lock is asked for. *)
LEMMA BeginSendStep ==
    ASSUME StubInv, calls \in Nat, NEW t \in Threads, R!BeginSend(t)
    PROVE  StubInv'
<1>1. /\ stubPc[t] = "user" /\ stubPc' = [stubPc EXCEPT ![t] = "marshal"] /\ RB!Wait(t, "lock")
      /\ call' = [call EXCEPT ![t] = calls + 1] /\ UNCHANGED <<buffer, pending, serving, received>>
  BY SameLock DEF R!BeginSend, R!Begins, R!In, R!Goto
<1>2. RB!SemInv'
  BY <1>1, FiniteThreads, SameCounting, RB!SemStep DEF StubInv, Threads
<1>3. /\ lockValue["lock"] \in Int /\ lockValue'["lock"] = lockValue["lock"] - 1
      /\ lockStage'[t] \in {RB!Running, RB!At("wait", "lock")}
      /\ \A u \in Threads \ {t} : lockStage'[u] = lockStage[u]
  BY <1>1 DEF RB!Wait, StubInv, RB!SemInv, RB!SemTypeOK, Threads
<1>4. Cardinality(Inside) \in Nat /\ Cardinality(Inside)' = Cardinality(Inside) + 1
  <2>1. "marshal" # "user"
    OBVIOUS
  <2> QED  BY <1>1, <2>1, InsideNext
<1>5. /\ stubPc'[t] = "marshal" /\ \A u \in Threads \ {t} : stubPc'[u] = stubPc[u] /\ call'[u] = call[u]
      /\ stubPc' \in [Threads -> {"user", "marshal", "call", "blocked", "unmarshal", "release"}]
      /\ call' \in [Threads -> Nat]
  BY <1>1 DEF StubInv
<1>6. lockValue'["lock"] <= 1 - Cardinality(Inside)'
  BY <1>3, <1>4 DEF StubInv
<1>7. \A u \in Threads : LockFits(u)' /\ ExchangeFits(u)'
  BY <1>1, <1>3, <1>5 DEF StubInv, LockFits, ExchangeFits, Request, Response
<1>8. /\ pending' # <<>> => \E u \in Threads : stubPc'[u] = "blocked" /\ pending' = <<u>>
      /\ serving' # <<>> => \E u \in Threads : stubPc'[u] = "blocked" /\ serving' = <<u, Request(u)'>>
  BY <1>1, <1>5 DEF StubInv, Request
<1> QED  BY <1>1, <1>2, <1>5, <1>6, <1>7, <1>8 DEF StubInv

(* The lock's system calls. *)
LEMMA LockStep ==
    ASSUME StubInv, NEW t \in Threads, R!Lock(t)
    PROVE  StubInv'
<1>1. RB!Rendezvous(t) /\ UNCHANGED <<stubPc, call, buffer, pending, serving, received>>
  BY SameLock DEF R!Lock
<1>2. RB!SemInv'
  BY <1>1, FiniteThreads, SameCounting, RB!SemStep DEF StubInv, Threads
<1>3. lockValue' = lockValue /\ Inside' = Inside
  BY <1>1 DEF RB!Rendezvous, Inside
<1>4. \A u \in Threads : LockFits(u)'
  <2> SUFFICES ASSUME NEW u \in Threads PROVE LockFits(u)'
    OBVIOUS
  <2>1. PICK s \in {"lock"} : \/ lockStage[t] = RB!At("wait", s) /\ RB!Meet(t, s, "recv", "send")
                              \/ lockStage[t] = RB!At("post", s) /\ RB!Meet(t, s, "send", "recv")
    BY <1>1 DEF RB!Rendezvous
  <2>2. lockStage \in [Threads -> RB!Stages] /\ s = "lock"
    BY DEF StubInv, RB!SemInv, RB!SemTypeOK, Threads
  <2>3. \/ lockStage'[u] \in {lockStage[u], RB!Running}
        \/ u = t /\ lockStage[t] = RB!At("wait", s) /\ lockStage'[t] = RB!At("recv", s)
        \/ u = t /\ lockStage[t] = RB!At("post", s) /\ lockStage'[t] = RB!At("send", s)
    BY <2>1, <2>2 DEF RB!Meet
  <2>4. /\ \A p, q, r, v : RB!At(p, r) = RB!At(q, v) <=> p = q /\ r = v
        /\ \A p, v : p # "running" => RB!At(p, v) # RB!Running
    BY RB!StagesDiffer
  <2>5. LockFits(u)
    BY DEF StubInv
  <2> QED  BY <1>1, <2>2, <2>3, <2>4, <2>5 DEF LockFits
<1>5. \A u \in Threads : ExchangeFits(u)'
  BY <1>1 DEF StubInv, ExchangeFits, Request, Response
<1> QED  BY <1>1, <1>2, <1>3, <1>4, <1>5 DEF StubInv, Request

(* The request is written while nobody else's exchange is under way. *)
LEMMA MarshalStep ==
    ASSUME StubInv, NEW t \in Threads, R!Marshal(t)
    PROVE  StubInv'
<1>1. /\ stubPc[t] = "marshal" /\ lockStage[t] = RB!Running /\ stubPc' = [stubPc EXCEPT ![t] = "call"]
      /\ buffer' = Request(t)
      /\ UNCHANGED <<lockValue, lockQueue, lockStage, call, pending, serving, received>>
  BY DEF R!Marshal, R!In, R!Goto, R!Running, RB!Running, R!Message, Request
<1>2. RB!SemInv'
  BY <1>1, FiniteThreads, SameCounting, RB!SemStep DEF StubInv, Threads
<1>3. pending = <<>> /\ serving = <<>> /\ \A u \in Threads \ {t} : stubPc[u] \in {"user", "marshal"}
  BY <1>1, OthersWait
<1>4. /\ stubPc'[t] = "call" /\ \A u \in Threads \ {t} : stubPc'[u] = stubPc[u]
      /\ stubPc' \in [Threads -> {"user", "marshal", "call", "blocked", "unmarshal", "release"}]
  BY <1>1 DEF StubInv
<1>5. Inside' = Inside
  BY <1>1, <1>4 DEF Inside
<1>6. \A u \in Threads : LockFits(u)' /\ ExchangeFits(u)'
  BY <1>1, <1>3, <1>4 DEF StubInv, LockFits, ExchangeFits, Request
<1>7. buffer' \in Contents
  BY <1>1 DEF StubInv, Contents, Request
<1> QED  BY <1>1, <1>2, <1>3, <1>4, <1>5, <1>6, <1>7 DEF StubInv

(* The call is sent with the request in the buffer. *)
LEMMA PerformCallStep ==
    ASSUME StubInv, NEW t \in Threads, R!PerformCall(t)
    PROVE  StubInv'
<1>1. /\ stubPc[t] = "call" /\ lockStage[t] = RB!Running /\ stubPc' = [stubPc EXCEPT ![t] = "blocked"]
      /\ pending' = Append(pending, t)
      /\ UNCHANGED <<lockValue, lockQueue, lockStage, call, buffer, serving, received>>
  BY DEF R!PerformCall, R!In, R!Goto, R!Running, RB!Running
<1>2. RB!SemInv'
  BY <1>1, FiniteThreads, SameCounting, RB!SemStep DEF StubInv, Threads
<1>3. pending = <<>> /\ serving = <<>> /\ \A u \in Threads \ {t} : stubPc[u] \in {"user", "marshal"}
  BY <1>1, OthersWait
<1>4. /\ stubPc'[t] = "blocked" /\ \A u \in Threads \ {t} : stubPc'[u] = stubPc[u]
      /\ stubPc' \in [Threads -> {"user", "marshal", "call", "blocked", "unmarshal", "release"}]
      /\ pending' = <<t>>
  BY <1>1, <1>3 DEF StubInv
<1>5. Inside' = Inside /\ buffer = Request(t)
  BY <1>1, <1>4 DEF Inside, StubInv, ExchangeFits
<1>6. \A u \in Threads : LockFits(u)' /\ ExchangeFits(u)'
  BY <1>1, <1>3, <1>4, <1>5 DEF StubInv, LockFits, ExchangeFits, Request
<1> QED  BY <1>1, <1>2, <1>3, <1>4, <1>5, <1>6 DEF StubInv

(* The server finds the request of the caller it receives from. *)
LEMMA ServerReceivesStep ==
    ASSUME StubInv, R!ServerReceives
    PROVE  StubInv'
<1>1. /\ serving = <<>> /\ pending # <<>> /\ serving' = <<Head(pending), buffer>> /\ pending' = Tail(pending)
      /\ UNCHANGED <<lockValue, lockQueue, lockStage, stubPc, call, buffer, received>>
  BY DEF R!ServerReceives
<1>2. PICK t \in Threads : stubPc[t] = "blocked" /\ pending = <<t>>
  BY <1>1 DEF StubInv
<1>3. RB!SemInv'
  <2>1. UNCHANGED <<lockValue, lockQueue, lockStage>>
    BY <1>1
  <2> QED  BY <1>2, <2>1, FiniteThreads, SameCounting, RB!SemStep DEF StubInv, Threads
<1>4. buffer = Request(t) /\ t \in Holding
  BY <1>1, <1>2, LockWaiters DEF StubInv, ExchangeFits
<1>5. serving' = <<t, Request(t)>> /\ pending' = <<>>
  BY <1>1, <1>2, <1>4
<1>6. \A u \in Threads \ {t} : stubPc[u] \in {"user", "marshal"}
  BY <1>4, LockWaiters, OneHolds
<1>7. Inside' = Inside
  BY <1>1 DEF Inside
<1>8. \A u \in Threads : LockFits(u)' /\ ExchangeFits(u)'
  BY <1>1, <1>2, <1>5, <1>6 DEF StubInv, LockFits, ExchangeFits, Request
<1> QED  BY <1>1, <1>2, <1>3, <1>5, <1>7, <1>8 DEF StubInv, Request

(* The response goes to the caller whose request was served. *)
LEMMA ServerRepliesStep ==
    ASSUME StubInv, R!ServerReplies
    PROVE  StubInv'
<1>1. PICK t \in Threads : stubPc[t] = "blocked" /\ serving = <<t, Request(t)>>
  BY DEF R!ServerReplies, StubInv
<1>2. /\ buffer' = Response(t) /\ serving' = <<>> /\ stubPc' = [stubPc EXCEPT ![t] = "unmarshal"]
      /\ UNCHANGED <<lockValue, lockQueue, lockStage, call, pending, received>>
  BY <1>1 DEF R!ServerReplies, R!Goto, Request, Response
<1>3. RB!SemInv'
  <2>1. UNCHANGED <<lockValue, lockQueue, lockStage>>
    BY <1>2
  <2> QED  BY <1>1, <2>1, FiniteThreads, SameCounting, RB!SemStep DEF StubInv, Threads
<1>4. t \in Holding /\ pending = <<>>
  BY <1>1, LockWaiters DEF StubInv, ExchangeFits
<1>5. \A u \in Threads \ {t} : stubPc[u] \in {"user", "marshal"}
  BY <1>4, LockWaiters, OneHolds
<1>6. /\ stubPc'[t] = "unmarshal" /\ \A u \in Threads \ {t} : stubPc'[u] = stubPc[u]
      /\ stubPc' \in [Threads -> {"user", "marshal", "call", "blocked", "unmarshal", "release"}]
  BY <1>2 DEF StubInv
<1>7. Inside' = Inside /\ buffer' \in Contents
  BY <1>1, <1>2, <1>6 DEF Inside, StubInv, Contents, Response
<1>8. \A u \in Threads : LockFits(u)' /\ ExchangeFits(u)'
  BY <1>1, <1>2, <1>5, <1>6 DEF StubInv, LockFits, ExchangeFits, Response
<1> QED  BY <1>2, <1>3, <1>4, <1>6, <1>7, <1>8 DEF StubInv

(* The response is read before anybody else is let in. *)
LEMMA UnmarshalStep ==
    ASSUME StubInv, NEW t \in Threads, R!Unmarshal(t)
    PROVE  StubInv'
<1>1. /\ stubPc[t] = "unmarshal" /\ lockStage[t] = RB!Running /\ stubPc' = [stubPc EXCEPT ![t] = "release"]
      /\ received' = [received EXCEPT ![t] = buffer]
      /\ UNCHANGED <<lockValue, lockQueue, lockStage, call, buffer, pending, serving>>
  BY DEF R!Unmarshal, R!In, R!Goto, R!Running, RB!Running
<1>2. RB!SemInv'
  BY <1>1, FiniteThreads, SameCounting, RB!SemStep DEF StubInv, Threads
<1>3. pending = <<>> /\ serving = <<>> /\ \A u \in Threads \ {t} : stubPc[u] \in {"user", "marshal"}
  BY <1>1, OthersWait
<1>4. /\ stubPc'[t] = "release" /\ received'[t] = buffer /\ \A u \in Threads \ {t} : stubPc'[u] = stubPc[u]
      /\ stubPc' \in [Threads -> {"user", "marshal", "call", "blocked", "unmarshal", "release"}]
      /\ received' \in [Threads -> Contents] /\ buffer = Response(t)
  BY <1>1 DEF StubInv, ExchangeFits
<1>5. Inside' = Inside
  BY <1>1, <1>4 DEF Inside
<1>6. \A u \in Threads : LockFits(u)' /\ ExchangeFits(u)'
  BY <1>1, <1>3, <1>4 DEF StubInv, LockFits, ExchangeFits, Response
<1> QED  BY <1>1, <1>2, <1>3, <1>4, <1>5, <1>6 DEF StubInv

(* A thread leaves the stub, giving the lock back or keeping it. *)
LEMMA LeaveStep ==
    ASSUME StubInv, NEW t \in Threads, R!MarshalError(t) \/ R!UnmarshalError(t) \/ R!ReleaseRecv(t)
    PROVE  StubInv'
<1>1. /\ stubPc[t] \notin {"user", "blocked"} /\ lockStage[t] = RB!Running
      /\ stubPc' = [stubPc EXCEPT ![t] = "user"] /\ call' = [call EXCEPT ![t] = 0]
      /\ received' = [received EXCEPT ![t] = <<>>] /\ UNCHANGED <<buffer, pending, serving>>
      /\ RB!Post(t, "lock") \/ UNCHANGED <<lockValue, lockQueue, lockStage>>
  BY SameLock DEF R!MarshalError, R!UnmarshalError, R!ReleaseRecv, R!Leave, R!In, R!Goto, R!Running, RB!Running
<1>2. RB!SemInv'
  BY <1>1, FiniteThreads, SameCounting, RB!SemStep DEF StubInv, Threads
<1>3. pending = <<>> /\ serving = <<>> /\ \A u \in Threads \ {t} : stubPc[u] \in {"user", "marshal"}
  BY <1>1, OthersWait
<1>4. /\ lockValue["lock"] \in Int /\ lockValue'["lock"] <= lockValue["lock"] + 1
      /\ lockStage'[t] \in {RB!Running, RB!At("post", "lock")}
      /\ \A u \in Threads \ {t} : lockStage'[u] = lockStage[u]
  <2>1. lockValue \in [{"lock"} -> Int] /\ lockStage \in [Threads -> RB!Stages]
    BY DEF StubInv, RB!SemInv, RB!SemTypeOK, Threads
  <2>2. CASE RB!Post(t, "lock")
    BY <1>1, <2>1, <2>2 DEF RB!Post
  <2>3. CASE UNCHANGED <<lockValue, lockQueue, lockStage>>
    BY <1>1, <2>1, <2>3
  <2> QED  BY <1>1, <2>2, <2>3
<1>5. Cardinality(Inside) \in Nat /\ Cardinality(Inside)' = Cardinality(Inside) - 1
  BY <1>1, InsideNext
<1>6. lockValue'["lock"] <= 1 - Cardinality(Inside)'
  <2>1. lockValue'["lock"] \in Int
    BY <1>2 DEF RB!SemInv, RB!SemTypeOK
  <2> QED  BY <1>4, <1>5, <2>1 DEF StubInv
<1>7. /\ stubPc'[t] = "user" /\ \A u \in Threads \ {t} : stubPc'[u] = stubPc[u]
      /\ stubPc' \in [Threads -> {"user", "marshal", "call", "blocked", "unmarshal", "release"}]
      /\ call' \in [Threads -> Nat] /\ received' \in [Threads -> Contents]
  BY <1>1 DEF StubInv, Contents
<1>8. \A u \in Threads : LockFits(u)' /\ ExchangeFits(u)'
  BY <1>3, <1>4, <1>7 DEF StubInv, LockFits, ExchangeFits
<1> QED  BY <1>1, <1>2, <1>3, <1>6, <1>7, <1>8 DEF StubInv

(* StubInv is inductive. *)
LEMMA StubInvStep ==
    ASSUME StubInv, calls \in Nat, (\E t \in Threads : R!Caller(t)) \/ R!Server
    PROVE  StubInv' /\ calls' \in Nat
<1>1. ASSUME NEW t \in Threads, R!Caller(t) PROVE StubInv'
  BY <1>1, BeginSendStep, LockStep, MarshalStep, PerformCallStep, UnmarshalStep, LeaveStep DEF R!Caller
<1>2. ASSUME R!Server PROVE StubInv'
  BY <1>2, ServerReceivesStep, ServerRepliesStep DEF R!Server
<1>3. calls' \in {calls, calls + 1}
  BY DEF R!Caller, R!Server, R!BeginSend, R!Begins, R!Lock, R!Marshal, R!MarshalError, R!PerformCall,
         R!Unmarshal, R!UnmarshalError, R!ReleaseRecv, R!ServerReceives, R!ServerReplies
<1> QED  BY <1>1, <1>2, <1>3
----------------------------------------------------------------------------
(* The event connector.  The threads from lock to unlock, those among them
   that still wait for the lock, and those that have yet to signal it *)
Places == {"idle", "lock", "decide", "unlock", "unlock_invoke", "invoke", "waiting", "register", "reg_lock", "reg_check"}
Guarded == {t \in Threads : pc[t] \in {"decide", "reg_check", "unlock", "unlock_invoke"}}
LockWaiting == {t \in Threads : entry[t].op = "wait" \/ t \in Range(waiting["lock"])}
LockWaking == {t \in Threads : entry[t].op = "post"}

(* The signals of the lock that are under way *)
Signals == Cardinality(LockWaking) + IF "lock" \in active THEN 1 ELSE 0

LockEntry(op) == [op |-> op, lock |-> "lock"]

(* The binary semaphore: its counter is one less those inside, and tells how
   many wait that nobody is waking. *)
BinTypeOK ==
    /\ pc \in [Threads -> Places]
    /\ entry \in [Threads -> {E!L!NoEntry, LockEntry("wait"), LockEntry("post")}]
    /\ active \subseteq {"event", "lock"}
    /\ waiting \in [{"event", "lock"} -> Seq(Threads)]
    /\ count \in [{"lock"} -> Int]

BinInv ==
    /\ BinTypeOK
    /\ IsInjective(waiting["lock"]) /\ \A t \in Range(waiting["lock"]) : entry[t] = E!L!NoEntry
    /\ LockWaiting \subseteq Guarded
    /\ count["lock"] = 1 - Cardinality(Guarded)
    /\ Cardinality(LockWaiting) - Signals = IF count["lock"] < 0 THEN - count["lock"] ELSE 0

(* A callback is owed to each accepted registration, and none is registered
   while the handoff has an event.  The connector's thread posts the handoff
   with the lock held. *)
EventInv ==
    /\ BinInv /\ HB!SemInv
    /\ callback \in BOOLEAN
    /\ E!CallbacksExact
    /\ stage[Runner] # HB!Running => pc[Runner] = "unlock" /\ Runner \notin LockWaiting

(* The sets of BinInv are finite, and the entries are told apart. *)
LEMMA BinFacts ==
    ASSUME BinTypeOK
    PROVE  /\ IsFiniteSet(Guarded) /\ IsFiniteSet(LockWaiting) /\ IsFiniteSet(LockWaking)
           /\ Cardinality(Guarded) \in Nat /\ Cardinality(LockWaiting) \in Nat /\ Cardinality(LockWaking) \in Nat
           /\ \A t \in Threads : /\ entry[t] = E!L!NoEntry => entry[t].op = "none"
                                 /\ entry[t] # E!L!NoEntry => entry[t].lock = "lock" /\ entry[t].op \in {"wait", "post"}
                                 /\ entry[t].op = "wait" => entry[t] = LockEntry("wait")
                                 /\ entry[t].op = "post" => entry[t] = LockEntry("post")
<1>1. IsFiniteSet(Guarded) /\ IsFiniteSet(LockWaiting) /\ IsFiniteSet(LockWaking)
  BY FiniteThreads, FS_Subset DEF Guarded, LockWaiting, LockWaking
<1>2. Cardinality(Guarded) \in Nat /\ Cardinality(LockWaiting) \in Nat /\ Cardinality(LockWaking) \in Nat
  BY <1>1, FS_CardinalityType
<1>3. /\ E!L!NoEntry.op = "none" /\ LockEntry("wait").op = "wait" /\ LockEntry("post").op = "post"
      /\ LockEntry("wait").lock = "lock" /\ LockEntry("post").lock = "lock"
  BY DEF E!L!NoEntry, LockEntry
<1> QED  BY <1>1, <1>2, <1>3 DEF BinTypeOK

(* One thread holds the lock, or is being given it, at a time. *)
LEMMA OneInside ==
    ASSUME BinInv
    PROVE  /\ Cardinality(Guarded \ LockWaiting) + Signals <= 1
           /\ \A t, u \in Guarded \ LockWaiting : t = u
<1>1. BinTypeOK
  BY DEF BinInv
<1>2. /\ IsFiniteSet(Guarded) /\ IsFiniteSet(LockWaiting) /\ Cardinality(Guarded) \in Nat
      /\ Cardinality(LockWaiting) \in Nat /\ Cardinality(LockWaking) \in Nat
  BY <1>1, BinFacts
<1>3. Cardinality(Guarded \ LockWaiting) = Cardinality(Guarded) - Cardinality(LockWaiting)
  <2>1. Guarded \cap LockWaiting = LockWaiting
    BY DEF BinInv
  <2> QED  BY <1>2, <2>1, FS_Difference
<1>4. Signals \in Nat
  BY <1>2 DEF Signals
<1>5. Cardinality(Guarded \ LockWaiting) + Signals <= 1
  BY <1>2, <1>3, <1>4 DEF BinInv
<1>6. ASSUME NEW t \in Guarded \ LockWaiting, NEW u \in Guarded \ LockWaiting, t # u PROVE FALSE
  <2>1. IsFiniteSet(Guarded \ LockWaiting)
    BY <1>2, FS_Subset
  <2>2. Cardinality(Guarded \ LockWaiting) \in Nat /\ 2 <= Cardinality(Guarded \ LockWaiting)
    BY ONLY <1>6, <2>1, TwoWithin, t \in Guarded \ LockWaiting, u \in Guarded \ LockWaiting
  <2> QED  BY <1>4, <1>5, <2>2
<1> QED  BY <1>5, <1>6

(* Who is free to go on does not wait for the lock. *)
LEMMA FreeHolds ==
    ASSUME BinInv, NEW t \in Threads, E!L!Free(t)
    PROVE  entry[t] = E!L!NoEntry /\ t \notin LockWaiting /\ t \notin LockWaking /\ t \notin Range(waiting["lock"])
<1>1. entry[t] = E!L!NoEntry /\ t \notin Range(waiting["lock"])
  BY DEF E!L!Free, E!L!Blocked, Range
<1> QED  BY <1>1, BinFacts DEF BinInv, LockWaiting, LockWaking

(* Steps that change nothing of the lock. *)
LEMMA BinUnchanged ==
    ASSUME BinInv, BinTypeOK', Guarded' = Guarded, entry' = entry, count' = count,
           waiting'["lock"] = waiting["lock"], "lock" \in active' <=> "lock" \in active
    PROVE  BinInv'
<1>1. LockWaiting' = LockWaiting /\ LockWaking' = LockWaking
  BY DEF LockWaiting, LockWaking
<1>2. Signals' = Signals
  BY <1>1 DEF Signals
<1> QED  BY <1>1, <1>2 DEF BinInv

(* Asking for the lock *)
LEMMA AcquireStep ==
    ASSUME BinInv, NEW t \in Threads, E!L!Acquire(t, "lock"), t \notin Guarded,
           pc' \in [Threads -> Places], Guarded' = Guarded \cup {t}
    PROVE  BinInv'
<1>1. /\ count' = [count EXCEPT !["lock"] = @ - 1] /\ active' = active /\ waiting' = waiting
      /\ entry' = IF count["lock"] <= 0 THEN [entry EXCEPT ![t] = LockEntry("wait")] ELSE entry
      /\ E!L!Free(t)
  BY DEF E!L!Acquire, LockEntry
<1>2. /\ count["lock"] \in Int /\ count'["lock"] = count["lock"] - 1 /\ count' \in [{"lock"} -> Int]
  BY <1>1 DEF BinInv, BinTypeOK
<1>3. entry[t] = E!L!NoEntry /\ t \notin LockWaiting /\ t \notin LockWaking /\ t \notin Range(waiting["lock"])
  BY <1>1, FreeHolds
<1>4. BinTypeOK'
  BY <1>1, <1>2 DEF BinInv, BinTypeOK
<1>5. /\ IsFiniteSet(Guarded) /\ IsFiniteSet(LockWaiting) /\ Cardinality(Guarded) \in Nat
      /\ Cardinality(LockWaiting) \in Nat /\ Cardinality(LockWaking) \in Nat
  BY BinFacts DEF BinInv
<1>6. Cardinality(Guarded)' = Cardinality(Guarded) + 1
  BY <1>5, FS_AddElement
<1>7. LockWaking' = LockWaking /\ Signals' = Signals /\ Signals \in Nat
  <2>1. LockEntry("wait").op # "post"
    BY DEF LockEntry
  <2>2. LockWaking' = LockWaking
    BY <1>1, <1>3, <2>1 DEF LockWaking, BinInv, BinTypeOK
  <2> QED  BY <1>1, <1>5, <2>2 DEF Signals
<1>8. CASE count["lock"] <= 0
  <2>1. entry' = [entry EXCEPT ![t] = LockEntry("wait")] /\ LockEntry("wait").op = "wait"
    BY <1>1, <1>8 DEF LockEntry
  <2>2. LockWaiting' = LockWaiting \cup {t}
    BY <1>1, <2>1 DEF LockWaiting, BinInv, BinTypeOK
  <2>3. Cardinality(LockWaiting)' = Cardinality(LockWaiting) + 1
    BY <1>3, <1>5, <2>2, FS_AddElement
  <2>4. Cardinality(LockWaiting)' - Signals' = IF count'["lock"] < 0 THEN - count'["lock"] ELSE 0
    BY <1>2, <1>5, <1>7, <1>8, <2>3 DEF BinInv
  <2>5. IsInjective(waiting'["lock"]) /\ \A u \in Range(waiting'["lock"]) : entry'[u] = E!L!NoEntry
    BY <1>1, <1>3, <2>1 DEF BinInv, BinTypeOK
  <2>6. LockWaiting' \subseteq Guarded' /\ count'["lock"] = 1 - Cardinality(Guarded)'
    BY <1>2, <1>5, <1>6, <2>2 DEF BinInv
  <2> QED  BY <1>4, <2>4, <2>5, <2>6 DEF BinInv
<1>9. CASE count["lock"] > 0
  <2>1. entry' = entry
    BY <1>1, <1>2, <1>9
  <2>2. LockWaiting' = LockWaiting
    BY <1>1, <2>1 DEF LockWaiting
  <2>3. Cardinality(LockWaiting)' - Signals' = IF count'["lock"] < 0 THEN - count'["lock"] ELSE 0
    BY <1>2, <1>5, <1>7, <1>9, <2>2 DEF BinInv
  <2>4. LockWaiting' \subseteq Guarded' /\ count'["lock"] = 1 - Cardinality(Guarded)'
    BY <1>2, <1>5, <1>6, <2>2 DEF BinInv
  <2> QED  BY <1>1, <1>4, <2>1, <2>3, <2>4 DEF BinInv
<1> QED  BY <1>2, <1>8, <1>9

(* Giving the lock back *)
LEMMA ReleaseStep ==
    ASSUME BinInv, NEW t \in Threads, E!L!Release(t, "lock"), t \in Guarded,
           pc' \in [Threads -> Places], Guarded' = Guarded \ {t}
    PROVE  BinInv'
<1>1. /\ count' = [count EXCEPT !["lock"] = @ + 1] /\ active' = active /\ waiting' = waiting
      /\ entry' = IF count'["lock"] <= 0 THEN [entry EXCEPT ![t] = LockEntry("post")] ELSE entry
      /\ E!L!Free(t)
  BY DEF E!L!Release, LockEntry
<1>2. /\ count["lock"] \in Int /\ count'["lock"] = count["lock"] + 1 /\ count' \in [{"lock"} -> Int]
  BY <1>1 DEF BinInv, BinTypeOK
<1>3. entry[t] = E!L!NoEntry /\ t \notin LockWaiting /\ t \notin LockWaking /\ t \notin Range(waiting["lock"])
  BY <1>1, FreeHolds
<1>4. BinTypeOK'
  BY <1>1, <1>2 DEF BinInv, BinTypeOK
<1>5. /\ IsFiniteSet(Guarded) /\ IsFiniteSet(LockWaking) /\ Cardinality(Guarded) \in Nat
      /\ Cardinality(LockWaiting) \in Nat /\ Cardinality(LockWaking) \in Nat
  BY BinFacts DEF BinInv
<1>6. Cardinality(Guarded)' = Cardinality(Guarded) - 1
  BY <1>5, FS_RemoveElement
<1>7. LockWaiting' = LockWaiting
  <2>1. LockEntry("post").op # "wait" /\ E!L!NoEntry.op # "wait"
    BY DEF LockEntry, E!L!NoEntry
  <2> QED  BY <1>1, <1>3, <2>1 DEF LockWaiting, BinInv, BinTypeOK
<1>8. LockWaiting' \subseteq Guarded' /\ count'["lock"] = 1 - Cardinality(Guarded)'
  BY <1>2, <1>3, <1>5, <1>6, <1>7 DEF BinInv
<1>9. CASE count'["lock"] <= 0
  <2>1. entry' = [entry EXCEPT ![t] = LockEntry("post")] /\ LockEntry("post").op = "post"
    BY <1>1, <1>9 DEF LockEntry
  <2>2. LockWaking' = LockWaking \cup {t}
    BY <2>1 DEF LockWaking, BinInv, BinTypeOK
  <2>3. Cardinality(LockWaking)' = Cardinality(LockWaking) + 1
    BY <1>3, <1>5, <2>2, FS_AddElement
  <2>4. Signals' = Signals + 1 /\ Signals \in Nat
    BY <1>1, <1>5, <2>3 DEF Signals
  <2>5. Cardinality(LockWaiting)' - Signals' = IF count'["lock"] < 0 THEN - count'["lock"] ELSE 0
    BY <1>2, <1>5, <1>7, <1>9, <2>4 DEF BinInv
  <2>6. IsInjective(waiting'["lock"]) /\ \A u \in Range(waiting'["lock"]) : entry'[u] = E!L!NoEntry
    BY <1>1, <1>3, <2>1 DEF BinInv, BinTypeOK
  <2> QED  BY <1>4, <1>8, <2>5, <2>6 DEF BinInv
<1>10. CASE count'["lock"] > 0
  <2>1. entry' = entry
    BY <1>1, <1>2, <1>10
  <2>2. LockWaking' = LockWaking
    BY <2>1 DEF LockWaking
  <2>3. Signals' = Signals /\ Signals \in Nat
    BY <1>1, <1>5, <2>2 DEF Signals
  <2>4. Cardinality(LockWaiting)' - Signals' = IF count'["lock"] < 0 THEN - count'["lock"] ELSE 0
    BY <1>2, <1>5, <1>7, <1>10, <2>3 DEF BinInv
  <2> QED  BY <1>1, <1>4, <1>8, <2>1, <2>4 DEF BinInv
<1> QED  BY <1>2, <1>9, <1>10

(* The lock's system calls: no signal of the notification is lost, since
   there is at most one. *)
LEMMA EnterStep ==
    ASSUME BinInv, NEW t \in Threads, E!L!Enter(t), UNCHANGED pc
    PROVE  BinInv'
<1>1. /\ ~E!L!Blocked(t) /\ entry[t] # E!L!NoEntry /\ count' = count
      /\ entry' = [entry EXCEPT ![t] = E!L!NoEntry]
      /\ \/ entry[t].op = "wait" /\ E!L!WaitOn(t, entry[t].lock)
         \/ entry[t].op = "post" /\ E!L!Signal(entry[t].lock)
  BY DEF E!L!Enter
<1>2. entry[t].lock = "lock" /\ E!L!NoEntry.op = "none" /\ t \notin Range(waiting["lock"])
  BY <1>1, BinFacts DEF BinInv, E!L!NoEntry, E!L!Blocked, Range
<1>3. entry'[t] = E!L!NoEntry /\ \A u \in Threads \ {t} : entry'[u] = entry[u]
  BY <1>1 DEF BinInv, BinTypeOK
<1>4. /\ IsFiniteSet(LockWaiting) /\ IsFiniteSet(LockWaking) /\ Cardinality(Guarded) \in Nat
      /\ Cardinality(LockWaiting) \in Nat /\ Cardinality(LockWaking) \in Nat
  BY BinFacts DEF BinInv
<1>5. Guarded' = Guarded /\ count'["lock"] = 1 - Cardinality(Guarded)' /\ count["lock"] \in Int
  BY <1>1 DEF Guarded, BinInv, BinTypeOK
<1>6. waiting["lock"] \in Seq(Threads) /\ IsInjective(waiting["lock"])
  BY DEF BinInv, BinTypeOK
<1>7. pc' \in [Threads -> Places] /\ entry' \in [Threads -> {E!L!NoEntry, LockEntry("wait"), LockEntry("post")}]
  BY <1>1 DEF BinInv, BinTypeOK
<1>8. CASE entry[t].op = "wait"
  <2>1. E!L!WaitOn(t, "lock") /\ t \in LockWaiting
    BY <1>1, <1>2, <1>8 DEF LockWaiting
  <2>2. LockWaking' = LockWaking
    BY <1>2, <1>3, <1>8 DEF LockWaking
  <2>3. CASE "lock" \in active
    <3>1. active' = active \ {"lock"} /\ waiting' = waiting
      BY <2>1, <2>3 DEF E!L!WaitOn
    <3>2. LockWaiting' = LockWaiting \ {t}
      BY <1>2, <1>3, <3>1 DEF LockWaiting
    <3>3. Cardinality(LockWaiting)' = Cardinality(LockWaiting) - 1
      BY <1>4, <2>1, <3>2, FS_RemoveElement
    <3>4. Signals' = Signals - 1 /\ Signals \in Nat
      BY <1>4, <2>2, <2>3, <3>1 DEF Signals
    <3>5. Cardinality(LockWaiting)' - Signals' = IF count'["lock"] < 0 THEN - count'["lock"] ELSE 0
      BY <1>1, <1>4, <1>5, <3>3, <3>4 DEF BinInv
    <3>6. IsInjective(waiting'["lock"]) /\ \A u \in Range(waiting'["lock"]) : entry'[u] = E!L!NoEntry
      <4>1. Range(waiting["lock"]) \subseteq Threads
        BY <1>6, HB!QueueRange DEF HB!Range, Range
      <4> QED  BY <1>2, <1>3, <3>1, <4>1 DEF BinInv
    <3>7. BinTypeOK'
      BY <1>1, <1>7, <3>1 DEF BinInv, BinTypeOK
    <3> QED  BY <1>5, <3>2, <3>5, <3>6, <3>7 DEF BinInv
  <2>4. CASE "lock" \notin active
    <3>1. active' = active /\ waiting' = [waiting EXCEPT !["lock"] = Append(@, t)]
      BY <2>1, <2>4 DEF E!L!WaitOn
    <3>2. waiting'["lock"] = Append(waiting["lock"], t) /\ waiting'["event"] = waiting["event"]
      BY <3>1 DEF BinInv, BinTypeOK
    <3>3. /\ Append(waiting["lock"], t) \in Seq(Threads) /\ IsInjective(Append(waiting["lock"], t))
          /\ Range(Append(waiting["lock"], t)) = Range(waiting["lock"]) \cup {t}
      BY <1>2, <1>6, Enqueued
    <3>4. LockWaiting' = LockWaiting
      BY <1>2, <1>3, <1>8, <3>2, <3>3 DEF LockWaiting
    <3>5. Signals' = Signals
      BY <2>2, <3>1 DEF Signals
    <3>6. Cardinality(LockWaiting)' - Signals' = IF count'["lock"] < 0 THEN - count'["lock"] ELSE 0
      BY <1>1, <3>4, <3>5 DEF BinInv
    <3>7. IsInjective(waiting'["lock"]) /\ \A u \in Range(waiting'["lock"]) : entry'[u] = E!L!NoEntry
      <4>1. Range(waiting["lock"]) \subseteq Threads
        BY <1>6, HB!QueueRange DEF HB!Range, Range
      <4> QED  BY <1>3, <3>2, <3>3, <4>1 DEF BinInv
    <3>8. BinTypeOK'
      <4>1. waiting' \in [{"event", "lock"} -> Seq(Threads)]
        BY <3>1, <3>3 DEF BinInv, BinTypeOK
      <4> QED  BY <1>1, <1>7, <3>1, <4>1 DEF BinInv, BinTypeOK
    <3> QED  BY <1>5, <3>4, <3>6, <3>7, <3>8 DEF BinInv
  <2> QED  BY <2>3, <2>4
<1>9. CASE entry[t].op = "post"
  <2>1. E!L!Signal("lock") /\ t \in LockWaking /\ t \notin LockWaiting
    BY <1>1, <1>2, <1>9 DEF LockWaking, LockWaiting
  <2>2. LockWaking' = LockWaking \ {t}
    BY <1>2, <1>3 DEF LockWaking
  <2>3. Cardinality(LockWaking)' = Cardinality(LockWaking) - 1
    BY <1>4, <2>1, <2>2, FS_RemoveElement
  <2>4. "lock" \notin active
    <3>1. Signals <= 1
      <4>1. IsFiniteSet(Guarded \ LockWaiting)
        BY BinFacts, FS_Subset DEF BinInv
      <4>2. Cardinality(Guarded \ LockWaiting) \in Nat /\ Signals \in Nat
        BY <1>4, <4>1, FS_CardinalityType DEF Signals
      <4> QED  BY <4>2, OneInside
    <3>2. Cardinality(LockWaking) # 0
      BY <1>4, <2>1, FS_EmptySet
    <3> QED  BY <1>4, <3>1, <3>2 DEF Signals
  <2>5. CASE waiting["lock"] = <<>>
    <3>1. active' = active \cup {"lock"} /\ waiting' = waiting
      BY <2>1, <2>5 DEF E!L!Signal
    <3>2. LockWaiting' = LockWaiting
      BY <1>2, <1>3, <1>9, <3>1 DEF LockWaiting
    <3>3. Signals' = Signals
      BY <1>4, <2>3, <2>4, <3>1 DEF Signals
    <3>4. Cardinality(LockWaiting)' - Signals' = IF count'["lock"] < 0 THEN - count'["lock"] ELSE 0
      BY <1>1, <3>2, <3>3 DEF BinInv
    <3>5. IsInjective(waiting'["lock"]) /\ \A u \in Range(waiting'["lock"]) : entry'[u] = E!L!NoEntry
      <4>1. Range(waiting["lock"]) \subseteq Threads
        BY <1>6, HB!QueueRange DEF HB!Range, Range
      <4> QED  BY <1>2, <1>3, <3>1, <4>1 DEF BinInv
    <3>6. BinTypeOK'
      BY <1>1, <1>7, <3>1 DEF BinInv, BinTypeOK
    <3> QED  BY <1>5, <3>2, <3>4, <3>5, <3>6 DEF BinInv
  <2>6. CASE waiting["lock"] # <<>>
    <3>1. active' = active /\ waiting' = [waiting EXCEPT !["lock"] = Tail(@)]
      BY <2>1, <2>6 DEF E!L!Signal
    <3> DEFINE h == Head(waiting["lock"])
    <3>2. waiting'["lock"] = Tail(waiting["lock"]) /\ waiting'["event"] = waiting["event"]
      BY <3>1 DEF BinInv, BinTypeOK
    <3>3. /\ h \in Threads /\ h \in Range(waiting["lock"])
          /\ Tail(waiting["lock"]) \in Seq(Threads) /\ IsInjective(Tail(waiting["lock"]))
          /\ Range(Tail(waiting["lock"])) = Range(waiting["lock"]) \ {h}
      BY <1>6, <2>6, HB!DequeueFacts DEF HB!Range, HB!IsInjective, Range, IsInjective
    <3> HIDE DEF h
    <3>4. LockWaiting' = LockWaiting \ {h} /\ h \in LockWaiting
      <4>1. entry[h].op # "wait" /\ h # t
        BY <1>2, <3>3 DEF BinInv
      <4> QED  BY <1>2, <1>3, <1>9, <3>2, <3>3, <4>1 DEF LockWaiting
    <3>5. Cardinality(LockWaiting)' = Cardinality(LockWaiting) - 1
      BY <1>4, <3>4, FS_RemoveElement
    <3>6. Signals' = Signals - 1 /\ Signals \in Nat
      BY <1>4, <2>3, <3>1 DEF Signals
    <3>7. Cardinality(LockWaiting)' - Signals' = IF count'["lock"] < 0 THEN - count'["lock"] ELSE 0
      BY <1>1, <1>4, <1>5, <3>5, <3>6 DEF BinInv
    <3>8. IsInjective(waiting'["lock"]) /\ \A u \in Range(waiting'["lock"]) : entry'[u] = E!L!NoEntry
      <4>1. Range(waiting["lock"]) \subseteq Threads
        BY <1>6, HB!QueueRange DEF HB!Range, Range
      <4> QED  BY <1>2, <1>3, <3>2, <3>3, <4>1 DEF BinInv
    <3>9. BinTypeOK'
      <4>1. waiting' \in [{"event", "lock"} -> Seq(Threads)]
        BY <3>1, <3>3 DEF BinInv, BinTypeOK
      <4> QED  BY <1>1, <1>7, <3>1, <4>1 DEF BinInv, BinTypeOK
    <3> QED  BY <1>5, <3>4, <3>7, <3>8, <3>9 DEF BinInv
  <2> QED  BY <2>5, <2>6
<1> QED  BY <1>1, <1>8, <1>9

(* Nobody but who asks begins to wait for the lock. *)
LEMMA WaitingNext ==
    ASSUME BinInv, NEW t \in Threads
    PROVE  /\ E!L!Acquire(t, "lock") => LockWaiting' \subseteq LockWaiting \cup {t}
           /\ E!L!Release(t, "lock") \/ E!L!Enter(t) => LockWaiting' \subseteq LockWaiting
           /\ entry' = entry /\ waiting'["lock"] = waiting["lock"] => LockWaiting' = LockWaiting
<1>1. ASSUME E!L!Acquire(t, "lock") PROVE LockWaiting' \subseteq LockWaiting \cup {t}
  BY <1>1 DEF E!L!Acquire, LockWaiting, BinInv, BinTypeOK
<1>2. ASSUME E!L!Release(t, "lock") PROVE LockWaiting' \subseteq LockWaiting
  <2>1. /\ waiting' = waiting /\ \A u \in Threads \ {t} : entry'[u] = entry[u]
        /\ entry'[t] = entry[t] \/ entry'[t] = LockEntry("post")
    BY <1>2 DEF E!L!Release, BinInv, BinTypeOK, LockEntry
  <2>2. LockEntry("post").op # "wait"
    BY DEF LockEntry
  <2> QED  BY <2>1, <2>2 DEF LockWaiting
<1>3. ASSUME E!L!Enter(t) PROVE LockWaiting' \subseteq LockWaiting
  <2>1. /\ entry'[t] = E!L!NoEntry /\ \A u \in Threads \ {t} : entry'[u] = entry[u]
        /\ \/ entry[t].op = "wait" /\ E!L!WaitOn(t, entry[t].lock)
           \/ entry[t].op = "post" /\ E!L!Signal(entry[t].lock)
        /\ entry[t] # E!L!NoEntry
    BY <1>3 DEF E!L!Enter, BinInv, BinTypeOK
  <2>2. entry[t].lock = "lock" /\ E!L!NoEntry.op = "none"
    BY <2>1, BinFacts DEF BinInv, E!L!NoEntry
  <2>3. waiting["lock"] \in Seq(Threads) /\ IsInjective(waiting["lock"]) /\ t \notin Range(waiting["lock"])
    BY <1>3 DEF BinInv, BinTypeOK, E!L!Enter, E!L!Blocked, Range
  <2>4. \/ waiting'["lock"] = waiting["lock"]
        \/ waiting["lock"] # <<>> /\ waiting'["lock"] = Tail(waiting["lock"])
        \/ entry[t].op = "wait" /\ waiting'["lock"] = Append(waiting["lock"], t)
    BY <2>1, <2>2 DEF E!L!WaitOn, E!L!Signal, BinInv, BinTypeOK
  <2>5. \/ Range(waiting'["lock"]) \subseteq Range(waiting["lock"])
        \/ entry[t].op = "wait" /\ Range(waiting'["lock"]) \subseteq Range(waiting["lock"]) \cup {t}
    <3>1. waiting["lock"] # <<>> => Range(Tail(waiting["lock"])) = Range(waiting["lock"]) \ {Head(waiting["lock"])}
      BY <2>3, HB!DequeueFacts DEF HB!Range, HB!IsInjective, Range, IsInjective
    <3>2. Range(Append(waiting["lock"], t)) = Range(waiting["lock"]) \cup {t}
      BY <2>3, Enqueued
    <3> QED  BY <2>4, <3>1, <3>2
  <2> QED  BY <2>1, <2>2, <2>5 DEF LockWaiting
<1>4. ASSUME entry' = entry, waiting'["lock"] = waiting["lock"] PROVE LockWaiting' = LockWaiting
  BY <1>4 DEF LockWaiting
<1> QED  BY <1>1, <1>2, <1>3, <1>4

(* The places with the lock taken, and those where a callback is owed *)
LockPlaces == {"decide", "reg_check", "unlock", "unlock_invoke"}
Calling == {t \in Threads : pc[t] \in {"unlock_invoke", "invoke"}}

(* A thread goes on. *)
LEMMA PlaceNext ==
    ASSUME BinTypeOK, NEW t \in Threads, NEW l \in Places, E!Goto(t, l)
    PROVE  /\ pc' \in [Threads -> Places] /\ pc'[t] = l /\ \A u \in Threads \ {t} : pc'[u] = pc[u]
           /\ t \in Guarded <=> pc[t] \in LockPlaces
           /\ l \in LockPlaces => Guarded' = Guarded \cup {t}
           /\ l \notin LockPlaces => Guarded' = Guarded \ {t}
           /\ Cardinality(Calling) \in Nat
           /\ t \in Calling /\ l \notin {"unlock_invoke", "invoke"} => Cardinality(Calling)' = Cardinality(Calling) - 1
           /\ t \notin Calling /\ l \in {"unlock_invoke", "invoke"} => Cardinality(Calling)' = Cardinality(Calling) + 1
           /\ (t \in Calling <=> l \in {"unlock_invoke", "invoke"}) => Cardinality(Calling)' = Cardinality(Calling)
           /\ t \in Calling <=> pc[t] \in {"unlock_invoke", "invoke"}
<1>1. pc' \in [Threads -> Places] /\ pc'[t] = l /\ \A u \in Threads \ {t} : pc'[u] = pc[u]
  BY DEF E!Goto, BinTypeOK
<1>2. /\ t \in Guarded <=> pc[t] \in LockPlaces
      /\ l \in LockPlaces => Guarded' = Guarded \cup {t}
      /\ l \notin LockPlaces => Guarded' = Guarded \ {t}
  BY <1>1 DEF Guarded, LockPlaces
<1>3. /\ t \in Calling <=> pc[t] \in {"unlock_invoke", "invoke"}
      /\ l \in {"unlock_invoke", "invoke"} => Calling' = Calling \cup {t}
      /\ l \notin {"unlock_invoke", "invoke"} => Calling' = Calling \ {t}
  BY <1>1 DEF Calling
<1>4. IsFiniteSet(Calling) /\ Cardinality(Calling) \in Nat
  BY FiniteThreads, FS_Subset, FS_CardinalityType DEF Calling
<1>5. /\ t \notin Calling => Cardinality(Calling \cup {t}) = Cardinality(Calling) + 1
      /\ t \in Calling => Cardinality(Calling \ {t}) = Cardinality(Calling) - 1
  BY <1>4, FS_AddElement, FS_RemoveElement
<1>6. (t \in Calling => Calling \cup {t} = Calling) /\ (t \notin Calling => Calling \ {t} = Calling)
  OBVIOUS
<1> QED  BY <1>1, <1>2, <1>3, <1>4, <1>5, <1>6

(* The conjuncts of CallbacksExact *)
LEMMA CallbacksMean ==
    ASSUME callback \in BOOLEAN
    PROVE  E!CallbacksExact <=> /\ callback => value["handoff"] <= 0 /\ stage[Runner] = HB!Running
                                /\ due = Cardinality(Calling) + IF callback THEN 1 ELSE 0
BY SameCounting, FiniteThreads
   DEF E!CallbacksExact, E!NeverBoth, E!InvokedOnce, Calling, E!H!Running, HB!Running

(* The same, after a step. *)
LEMMA CallbacksMeanNext ==
    ASSUME callback' \in BOOLEAN
    PROVE  E!CallbacksExact' <=> /\ callback' => value'["handoff"] <= 0 /\ stage'[Runner] = HB!Running
                                 /\ due' = Cardinality(Calling)' + IF callback' THEN 1 ELSE 0
BY SameCounting, FiniteThreads
   DEF E!CallbacksExact, E!NeverBoth, E!InvokedOnce, Calling, E!H!Running, HB!Running

(* What a thread that goes on knows *)
LEMMA GoesOn ==
    ASSUME EventInv, NEW t \in Threads, NEW l, E!In(t, l)
    PROVE  pc[t] = l /\ E!L!Free(t) /\ stage[t] = HB!Running /\ t \notin LockWaiting
BY FreeHolds DEF E!In, E!H!Running, HB!Running, EventInv

(* Steps of a thread that leave the lock alone. *)
LEMMA LockQuiet ==
    ASSUME EventInv, NEW t \in Threads, NEW l \in Places, E!Goto(t, l),
           UNCHANGED <<active, waiting, count, entry>>, pc[t] \in LockPlaces <=> l \in LockPlaces
    PROVE  BinInv' /\ LockWaiting' = LockWaiting
<1>1. BinTypeOK'
  BY PlaceNext DEF EventInv, BinInv, BinTypeOK
<1>2. Guarded' = Guarded
  <2>1. BinTypeOK
    BY DEF EventInv, BinInv
  <2>2. /\ t \in Guarded <=> pc[t] \in LockPlaces
        /\ l \in LockPlaces => Guarded' = Guarded \cup {t}
        /\ l \notin LockPlaces => Guarded' = Guarded \ {t}
    BY <2>1, PlaceNext
  <2> QED  BY <2>2
<1> QED  BY <1>1, <1>2, BinUnchanged, WaitingNext DEF EventInv

(* An event comes, and the connector's thread waits for one. *)
LEMMA NotifyStep ==
    ASSUME EventInv, E!Emit \/ E!RunWait
    PROVE  EventInv'
<1>1. /\ UNCHANGED <<count, entry, value, queue, stage, callback, due>>
      /\ \/ pc' = pc
         \/ E!Goto(Runner, "lock") /\ pc[Runner] = "idle"
  BY DEF E!Emit, E!RunWait, E!handoffVars, E!userVars, E!In
<1>2. Runner \in Threads /\ BinTypeOK
  BY DEF Threads, EventInv, BinInv
<1>3. pc' \in [Threads -> Places] /\ Guarded' = Guarded /\ Cardinality(Calling)' = Cardinality(Calling)
  <2>1. CASE pc' = pc
    BY <1>2, <2>1 DEF Guarded, Calling, BinTypeOK
  <2>2. CASE E!Goto(Runner, "lock") /\ pc[Runner] = "idle"
    <3>1. "lock" \in Places /\ "lock" \notin LockPlaces /\ "idle" \notin LockPlaces
      BY DEF Places, LockPlaces
    <3>2. /\ pc' \in [Threads -> Places]
          /\ Runner \in Guarded <=> pc[Runner] \in LockPlaces
          /\ "lock" \notin LockPlaces => Guarded' = Guarded \ {Runner}
          /\ (Runner \in Calling <=> "lock" \in {"unlock_invoke", "invoke"}) =>
                Cardinality(Calling)' = Cardinality(Calling)
          /\ Runner \in Calling <=> pc[Runner] \in {"unlock_invoke", "invoke"}
      BY <1>2, <2>2, <3>1, PlaceNext
    <3> QED  BY <2>2, <3>1, <3>2
  <2> QED  BY <1>1, <2>1, <2>2
<1>4. BinInv' /\ LockWaiting' = LockWaiting
  <2>1. \/ E!L!Signal("event")
        \/ E!L!WaitOn(Runner, "event")
    BY DEF E!Emit, E!RunWait
  <2>2. /\ active' \subseteq {"event", "lock"} /\ ("lock" \in active' <=> "lock" \in active)
        /\ \/ waiting' = waiting
           \/ waiting["event"] # <<>> /\ waiting' = [waiting EXCEPT !["event"] = Tail(@)]
           \/ waiting' = [waiting EXCEPT !["event"] = Append(@, Runner)]
    BY <1>2, <2>1 DEF E!L!Signal, E!L!WaitOn, BinTypeOK
  <2>3. waiting' \in [{"event", "lock"} -> Seq(Threads)] /\ waiting'["lock"] = waiting["lock"]
    <3>1. waiting["event"] \in Seq(Threads) /\ waiting \in [{"event", "lock"} -> Seq(Threads)]
      BY <1>2 DEF BinTypeOK
    <3>2. Append(waiting["event"], Runner) \in Seq(Threads)
      BY <1>2, <3>1
    <3>3. waiting["event"] # <<>> => Tail(waiting["event"]) \in Seq(Threads)
      BY <3>1
    <3> QED  BY <2>2, <3>1, <3>2, <3>3
  <2>4. BinTypeOK'
    BY <1>1, <1>2, <1>3, <2>2, <2>3 DEF BinTypeOK
  <2>5. LockWaiting' = LockWaiting
    BY <1>1, <1>2, <2>3, WaitingNext DEF EventInv
  <2> QED  BY <1>1, <1>3, <2>2, <2>3, <2>4, <2>5, BinUnchanged DEF EventInv
<1>5. HB!SemInv'
  <2>1. UNCHANGED <<value, queue, stage>>
    BY <1>1
  <2> QED  BY <1>2, <2>1, FiniteThreads, SameCounting, HB!SemStep DEF EventInv
<1>6. E!CallbacksExact'
  <2>1. callback' \in BOOLEAN /\ callback \in BOOLEAN
    BY <1>1 DEF EventInv
  <2> QED  BY <1>1, <1>3, <2>1, CallbacksMean, CallbacksMeanNext DEF EventInv
<1>7. stage'[Runner] # HB!Running => pc'[Runner] = "unlock" /\ Runner \notin LockWaiting'
  <2>1. pc' # pc => stage[Runner] = HB!Running
    BY <1>1 DEF EventInv
  <2> QED  BY <1>1, <1>4, <2>1 DEF EventInv
<1> QED  BY <1>1, <1>4, <1>5, <1>6, <1>7 DEF EventInv

(* What must be shown of a step, in the terms of CallbacksMean. *)
LEMMA EventParts ==
    /\ EventInv => /\ callback => value["handoff"] <= 0 /\ stage[Runner] = HB!Running
                   /\ due = Cardinality(Calling) + IF callback THEN 1 ELSE 0
                   /\ value["handoff"] \in Int /\ BinTypeOK
    /\ /\ BinInv' /\ HB!SemInv' /\ callback' \in BOOLEAN
       /\ callback' => value'["handoff"] <= 0 /\ stage'[Runner] = HB!Running
       /\ due' = Cardinality(Calling)' + IF callback' THEN 1 ELSE 0
       /\ stage'[Runner] # HB!Running => pc'[Runner] = "unlock" /\ Runner \notin LockWaiting'
       => EventInv'
<1>1. EventInv => /\ callback => value["handoff"] <= 0 /\ stage[Runner] = HB!Running
                  /\ due = Cardinality(Calling) + IF callback THEN 1 ELSE 0
                  /\ value["handoff"] \in Int /\ BinTypeOK
  BY CallbacksMean DEF EventInv, BinInv, HB!SemInv, HB!SemTypeOK
<1>2. /\ BinInv' /\ HB!SemInv' /\ callback' \in BOOLEAN
      /\ callback' => value'["handoff"] <= 0 /\ stage'[Runner] = HB!Running
      /\ due' = Cardinality(Calling)' + IF callback' THEN 1 ELSE 0
      /\ stage'[Runner] # HB!Running => pc'[Runner] = "unlock" /\ Runner \notin LockWaiting'
      => EventInv'
  BY CallbacksMeanNext DEF EventInv
<1> QED  BY <1>1, <1>2

(* Steps that leave the handoff alone. *)
LEMMA HandoffQuiet ==
    ASSUME EventInv, UNCHANGED <<value, queue, stage>>
    PROVE  HB!SemInv'
BY FiniteThreads, SameCounting, HB!SemStep DEF EventInv, Threads

(* What a call of the handoff's semaphore does. *)
LEMMA HandoffStep ==
    ASSUME EventInv, NEW t \in Threads,
           E!H!Wait(t, "handoff") \/ E!H!TryWait(t, "handoff") \/ E!H!Post(t, "handoff")
    PROVE  /\ HB!SemInv' /\ \A u \in Threads \ {t} : stage'[u] = stage[u]
           /\ E!H!TryWait(t, "handoff") => stage' = stage /\ value["handoff"] > 0
           /\ E!H!Wait(t, "handoff") => value'["handoff"] <= value["handoff"]
<1>1. /\ E!H!Wait(t, "handoff") => HB!Wait(t, "handoff")
      /\ E!H!TryWait(t, "handoff") => HB!TryWait(t, "handoff")
      /\ E!H!Post(t, "handoff") => HB!Post(t, "handoff")
  BY SameHandoff
<1>2. HB!SemInv'
  <2>1. t \in E!Threads /\ "handoff" \in {"handoff"}
    BY FiniteThreads
  <2> QED  BY <1>1, <2>1, FiniteThreads, SameCounting, HB!SemStep DEF EventInv
<1>3. value \in [{"handoff"} -> Int] /\ stage \in [Threads -> HB!Stages]
  BY FiniteThreads DEF EventInv, HB!SemInv, HB!SemTypeOK
<1>4. \A u \in Threads \ {t} : stage'[u] = stage[u]
  BY <1>1, <1>3 DEF HB!Wait, HB!TryWait, HB!Post
<1>5. HB!TryWait(t, "handoff") => stage' = stage /\ value["handoff"] > 0
  BY DEF HB!TryWait
<1>6. HB!Wait(t, "handoff") => value'["handoff"] <= value["handoff"]
  BY <1>3 DEF HB!Wait
<1> QED  BY <1>1, <1>2, <1>4, <1>5, <1>6

(* The lock is asked for, by the connector's thread and by reg_callback. *)
LEMMA TakeLockStep ==
    ASSUME EventInv, NEW t \in Threads, (E!RunLock /\ t = Runner) \/ E!RegisterLock(t)
    PROVE  EventInv'
<1>1. PICK l \in {"decide", "reg_check"} : E!Goto(t, l)
  BY DEF E!RunLock, E!RegisterLock
<1>2. /\ pc[t] \in {"lock", "reg_lock"} /\ stage[t] = HB!Running /\ E!L!Acquire(t, "lock")
      /\ UNCHANGED <<value, queue, stage, callback, due>>
  BY GoesOn DEF E!RunLock, E!RegisterLock, E!handoffVars, E!userVars
<1>3. BinTypeOK /\ l \in Places /\ l \in LockPlaces /\ pc[t] \notin LockPlaces
      /\ l \notin {"unlock_invoke", "invoke"} /\ pc[t] \notin {"unlock_invoke", "invoke"}
  BY <1>1, <1>2, EventParts DEF Places, LockPlaces
<1>4. /\ pc' \in [Threads -> Places] /\ pc'[t] = l /\ \A u \in Threads \ {t} : pc'[u] = pc[u]
      /\ t \notin Guarded /\ Guarded' = Guarded \cup {t} /\ Cardinality(Calling)' = Cardinality(Calling)
  BY <1>1, <1>3, PlaceNext
<1>5. BinInv'
  BY <1>2, <1>4, AcquireStep DEF EventInv
<1>6. stage'[Runner] # HB!Running => pc'[Runner] = "unlock" /\ Runner \notin LockWaiting'
  <2>1. LockWaiting' \subseteq LockWaiting \cup {t}
    BY <1>2, WaitingNext DEF EventInv
  <2> QED  BY <1>2, <1>4, <2>1 DEF EventInv, Threads
<1> QED  BY <1>2, <1>4, <1>5, <1>6, EventParts, HandoffQuiet DEF EventInv

(* The connector's thread hands the event to a callback or to the handoff. *)
LEMMA RunDecideStep ==
    ASSUME EventInv, E!RunDecide
    PROVE  EventInv'
<1>1. Runner \in Threads
  BY DEF Threads
<1>2. /\ pc[Runner] = "decide" /\ stage[Runner] = HB!Running /\ Runner \notin LockWaiting
      /\ callback' = FALSE /\ due' = due /\ UNCHANGED <<active, waiting, count, entry>>
      /\ callback => UNCHANGED <<value, queue, stage>> /\ E!Goto(Runner, "unlock_invoke")
      /\ ~callback => E!H!Post(Runner, "handoff") /\ E!Goto(Runner, "unlock")
  BY <1>1, GoesOn DEF E!RunDecide, E!lockVars, E!userVars, E!handoffVars
<1>3. BinTypeOK /\ callback \in BOOLEAN /\ due = Cardinality(Calling) + IF callback THEN 1 ELSE 0
  BY EventParts DEF EventInv
<1>4. /\ "unlock_invoke" \in Places /\ "unlock" \in Places
      /\ "decide" \in LockPlaces /\ "unlock_invoke" \in LockPlaces /\ "unlock" \in LockPlaces
  BY DEF Places, LockPlaces
<1>5. CASE callback
  <2>1. /\ pc'[Runner] = "unlock_invoke" /\ Cardinality(Calling) \in Nat
        /\ Cardinality(Calling)' = Cardinality(Calling) + 1
    BY <1>1, <1>2, <1>3, <1>4, <1>5, PlaceNext
  <2>2. BinInv'
    BY <1>1, <1>2, <1>4, <1>5, LockQuiet
  <2>3. HB!SemInv'
    BY <1>2, <1>5, HandoffQuiet
  <2>4. due' = Cardinality(Calling)' + IF callback' THEN 1 ELSE 0
    BY <1>2, <1>3, <1>5, <2>1
  <2> QED  BY <1>2, <1>5, <2>2, <2>3, <2>4, EventParts
<1>6. CASE ~callback
  <2>1. /\ pc'[Runner] = "unlock" /\ Cardinality(Calling) \in Nat
        /\ Cardinality(Calling)' = Cardinality(Calling)
    <3>1. E!Goto(Runner, "unlock") /\ pc[Runner] = "decide"
      BY <1>2, <1>6
    <3> QED  BY <1>1, <1>3, <1>4, <3>1, PlaceNext
  <2>2. BinInv' /\ LockWaiting' = LockWaiting
    BY <1>1, <1>2, <1>4, <1>6, LockQuiet
  <2>3. HB!SemInv'
    BY <1>1, <1>2, <1>6, HandoffStep
  <2>4. due' = Cardinality(Calling)' + IF callback' THEN 1 ELSE 0
    BY <1>2, <1>3, <1>6, <2>1
  <2>5. Runner \notin LockWaiting'
    BY <1>2, <2>2
  <2> QED  BY <1>2, <2>1, <2>2, <2>3, <2>4, <2>5, EventParts
<1> QED  BY <1>3, <1>5, <1>6

(* A callback is invoked, and may register again. *)
LEMMA InvokeStep ==
    ASSUME EventInv, NEW t \in Threads, E!Invoke(t)
    PROVE  EventInv'
<1>1. PICK l \in {"register", "idle"} : E!Goto(t, l)
  BY DEF E!Invoke
<1>2. /\ pc[t] = "invoke" /\ stage[t] = HB!Running /\ due' = due - 1
      /\ UNCHANGED <<active, waiting, count, entry, value, queue, stage, callback>>
  BY GoesOn DEF E!Invoke, E!lockVars, E!handoffVars
<1>3. /\ BinTypeOK /\ callback \in BOOLEAN /\ due = Cardinality(Calling) + IF callback THEN 1 ELSE 0
      /\ callback => value["handoff"] <= 0 /\ stage[Runner] = HB!Running
  BY EventParts DEF EventInv
<1>4. l \in Places /\ l \notin LockPlaces /\ pc[t] \notin LockPlaces
  BY <1>2 DEF Places, LockPlaces
<1>5. /\ pc'[t] = l /\ (\A u \in Threads \ {t} : pc'[u] = pc[u]) /\ Cardinality(Calling) \in Nat
      /\ Cardinality(Calling)' = Cardinality(Calling) - 1
  BY <1>1, <1>2, <1>3, <1>4, PlaceNext
<1>6. BinInv' /\ HB!SemInv' /\ LockWaiting' = LockWaiting
  BY <1>1, <1>2, <1>4, LockQuiet, HandoffQuiet
<1>7. stage'[Runner] # HB!Running => pc'[Runner] = "unlock" /\ Runner \notin LockWaiting'
  BY <1>2, <1>5, <1>6 DEF EventInv, Threads
<1>8. due' = Cardinality(Calling)' + IF callback' THEN 1 ELSE 0
  BY <1>2, <1>3, <1>5
<1> QED  BY <1>2, <1>3, <1>6, <1>7, <1>8, EventParts

(* Threads poll and wait for events. *)
LEMMA PollStep ==
    ASSUME EventInv, NEW t \in Users, E!Poll(t) \/ E!WaitEvent(t) \/ E!WaitReturns(t)
    PROVE  EventInv'
<1>1. t \in Threads /\ t # Runner /\ Runner \in Threads
  BY FiniteThreads DEF Threads
<1>2. /\ UNCHANGED <<active, waiting, count, entry, callback, due>>
      /\ pc[t] \in {"idle", "waiting"}
      /\ pc' = pc \/ \E l \in {"idle", "waiting"} : E!Goto(t, l)
      /\ \/ UNCHANGED <<value, queue, stage>>
         \/ E!H!TryWait(t, "handoff")
         \/ E!H!Wait(t, "handoff")
  BY DEF E!Poll, E!WaitEvent, E!WaitReturns, E!In, E!lockVars, E!handoffVars
<1>3. /\ BinTypeOK /\ callback \in BOOLEAN /\ due = Cardinality(Calling) + IF callback THEN 1 ELSE 0
      /\ callback => value["handoff"] <= 0 /\ stage[Runner] = HB!Running
      /\ value["handoff"] \in Int
  BY EventParts DEF EventInv
<1>4. /\ BinInv' /\ LockWaiting' = LockWaiting /\ (\A u \in Threads \ {t} : pc'[u] = pc[u])
      /\ Cardinality(Calling)' = Cardinality(Calling)
  <2>1. CASE pc' = pc
    <3>1. BinTypeOK' /\ Guarded' = Guarded /\ Calling' = Calling
      BY <1>2, <1>3, <2>1 DEF BinTypeOK, Guarded, Calling
    <3> QED  BY <1>2, <2>1, <3>1, BinUnchanged, WaitingNext, <1>1 DEF EventInv
  <2>2. ASSUME NEW l \in {"idle", "waiting"}, E!Goto(t, l)
        PROVE  /\ BinInv' /\ LockWaiting' = LockWaiting /\ (\A u \in Threads \ {t} : pc'[u] = pc[u])
               /\ Cardinality(Calling)' = Cardinality(Calling)
    <3>1. l \in Places /\ l \notin LockPlaces /\ pc[t] \notin LockPlaces
      BY <1>2 DEF Places, LockPlaces
    <3> QED  BY <1>1, <1>2, <1>3, <2>2, <3>1, PlaceNext, LockQuiet
  <2> QED  BY <1>2, <2>1, <2>2
<1>5. /\ HB!SemInv' /\ stage'[Runner] = stage[Runner]
      /\ callback => value'["handoff"] <= 0
  <2>1. CASE UNCHANGED <<value, queue, stage>>
    BY <1>3, <2>1, HandoffQuiet
  <2>2. CASE E!H!TryWait(t, "handoff")
    BY <1>1, <1>3, <2>2, HandoffStep
  <2>3. CASE E!H!Wait(t, "handoff")
    <3>1. value'["handoff"] <= value["handoff"] /\ HB!SemInv' /\ stage'[Runner] = stage[Runner]
      BY <1>1, <2>3, HandoffStep
    <3>2. value'["handoff"] \in Int
      BY <3>1 DEF HB!SemInv, HB!SemTypeOK
    <3> QED  BY <1>3, <3>1, <3>2
  <2> QED  BY <1>2, <2>1, <2>2, <2>3
<1>6. stage'[Runner] # HB!Running => pc'[Runner] = "unlock" /\ Runner \notin LockWaiting'
  BY <1>1, <1>4, <1>5 DEF EventInv
<1> QED  BY <1>2, <1>3, <1>4, <1>5, <1>6, EventParts

(* reg_callback polls the handoff first, *)
LEMMA RegisterStep ==
    ASSUME EventInv, NEW t \in Threads, E!Register(t)
    PROVE  EventInv'
<1>1. /\ pc[t] \in {"idle", "register"} /\ stage[t] = HB!Running
      /\ UNCHANGED <<active, waiting, count, entry, callback>>
      /\ \/ E!H!TryWait(t, "handoff") /\ due' = due + 1 /\ E!Goto(t, "invoke")
         \/ E!Goto(t, "reg_lock") /\ UNCHANGED <<value, queue, stage, due>>
  BY DEF E!Register, E!In, E!lockVars, E!handoffVars, E!H!Running, HB!Running
<1>2. /\ BinTypeOK /\ callback \in BOOLEAN /\ due = Cardinality(Calling) + IF callback THEN 1 ELSE 0
      /\ callback => value["handoff"] <= 0 /\ stage[Runner] = HB!Running
      /\ value["handoff"] \in Int
  BY EventParts DEF EventInv
<1>3. /\ "invoke" \in Places /\ "reg_lock" \in Places
      /\ "invoke" \notin LockPlaces /\ "reg_lock" \notin LockPlaces /\ pc[t] \notin LockPlaces
  BY <1>1 DEF Places, LockPlaces
<1>4. CASE E!H!TryWait(t, "handoff") /\ due' = due + 1 /\ E!Goto(t, "invoke")
  <2>1. HB!SemInv' /\ stage' = stage /\ value["handoff"] > 0
    BY <1>4, HandoffStep
  <2>2. /\ (\A u \in Threads \ {t} : pc'[u] = pc[u]) /\ Cardinality(Calling) \in Nat
        /\ Cardinality(Calling)' = Cardinality(Calling) + 1
    BY <1>1, <1>2, <1>3, <1>4, PlaceNext
  <2>3. BinInv' /\ LockWaiting' = LockWaiting
    BY <1>1, <1>3, <1>4, LockQuiet
  <2>4. ~callback /\ callback' = FALSE
    BY <1>1, <1>2, <1>4, <2>1
  <2>5. stage'[Runner] # HB!Running => pc'[Runner] = "unlock" /\ Runner \notin LockWaiting'
    BY <1>1, <2>1, <2>2, <2>3 DEF EventInv, Threads
  <2>6. due' = Cardinality(Calling)' + IF callback' THEN 1 ELSE 0
    BY <1>1, <1>2, <1>4, <2>2, <2>4
  <2> QED  BY <1>1, <2>1, <2>3, <2>4, <2>5, <2>6, EventParts
<1>5. CASE E!Goto(t, "reg_lock") /\ UNCHANGED <<value, queue, stage, due>>
  <2>1. HB!SemInv' /\ BinInv' /\ LockWaiting' = LockWaiting
    BY <1>1, <1>3, <1>5, HandoffQuiet, LockQuiet
  <2>2. (\A u \in Threads \ {t} : pc'[u] = pc[u]) /\ Cardinality(Calling)' = Cardinality(Calling)
    BY <1>1, <1>2, <1>3, <1>5, PlaceNext
  <2>3. stage'[Runner] # HB!Running => pc'[Runner] = "unlock" /\ Runner \notin LockWaiting'
    BY <1>1, <1>5, <2>1, <2>2 DEF EventInv, Threads
  <2> QED  BY <1>1, <1>2, <1>5, <2>1, <2>2, <2>3, EventParts
<1> QED  BY <1>1, <1>4, <1>5

(* and again with the lock taken: nobody is posting the handoff then. *)
LEMMA RegisterCheckStep ==
    ASSUME EventInv, NEW t \in Threads, E!RegisterCheck(t)
    PROVE  EventInv'
<1>1. /\ pc[t] = "reg_check" /\ stage[t] = HB!Running /\ t \notin LockWaiting
      /\ UNCHANGED <<active, waiting, count, entry>>
      /\ \/ E!H!TryWait(t, "handoff") /\ due' = due + 1 /\ E!Goto(t, "unlock_invoke") /\ callback' = callback
         \/ /\ E!Goto(t, "unlock") /\ value["handoff"] <= 0 /\ UNCHANGED <<value, queue, stage>>
            /\ due' = (IF callback THEN due ELSE due + 1) /\ callback' = TRUE
  BY GoesOn DEF E!RegisterCheck, E!lockVars, E!handoffVars
<1>2. /\ BinTypeOK /\ callback \in BOOLEAN /\ due = Cardinality(Calling) + IF callback THEN 1 ELSE 0
      /\ callback => value["handoff"] <= 0 /\ stage[Runner] = HB!Running
      /\ value["handoff"] \in Int
  BY EventParts DEF EventInv
<1>3. /\ "unlock" \in Places /\ "unlock_invoke" \in Places
      /\ "unlock" \in LockPlaces /\ "unlock_invoke" \in LockPlaces /\ pc[t] \in LockPlaces
  BY <1>1 DEF Places, LockPlaces
<1>4. CASE E!H!TryWait(t, "handoff") /\ due' = due + 1 /\ E!Goto(t, "unlock_invoke") /\ callback' = callback
  <2>1. HB!SemInv' /\ stage' = stage /\ value["handoff"] > 0
    BY <1>4, HandoffStep
  <2>2. /\ (\A u \in Threads \ {t} : pc'[u] = pc[u]) /\ Cardinality(Calling) \in Nat
        /\ Cardinality(Calling)' = Cardinality(Calling) + 1
    BY <1>1, <1>2, <1>3, <1>4, PlaceNext
  <2>3. BinInv' /\ LockWaiting' = LockWaiting
    BY <1>1, <1>3, <1>4, LockQuiet
  <2>4. ~callback /\ callback' = FALSE
    BY <1>1, <1>2, <1>4, <2>1
  <2>5. stage'[Runner] # HB!Running => pc'[Runner] = "unlock" /\ Runner \notin LockWaiting'
    BY <1>1, <2>1, <2>2, <2>3 DEF EventInv, Threads
  <2>6. due' = Cardinality(Calling)' + IF callback' THEN 1 ELSE 0
    BY <1>2, <1>4, <2>2, <2>4
  <2> QED  BY <1>4, <2>1, <2>3, <2>4, <2>5, <2>6, EventParts
<1>5. CASE /\ E!Goto(t, "unlock") /\ value["handoff"] <= 0 /\ UNCHANGED <<value, queue, stage>>
           /\ due' = (IF callback THEN due ELSE due + 1) /\ callback' = TRUE
  <2>1. HB!SemInv' /\ BinInv' /\ LockWaiting' = LockWaiting
    BY <1>1, <1>3, <1>5, HandoffQuiet, LockQuiet
  <2>2. Cardinality(Calling) \in Nat /\ Cardinality(Calling)' = Cardinality(Calling)
    BY <1>1, <1>2, <1>3, <1>5, PlaceNext
  <2>3. stage[Runner] = HB!Running
    <3>1. SUFFICES ASSUME stage[Runner] # HB!Running PROVE FALSE
      OBVIOUS
    <3>2. pc[Runner] = "unlock" /\ Runner \in Threads /\ Runner # t
      BY <1>1, <3>1 DEF EventInv, Threads
    <3>3. Runner \in Guarded /\ t \in Guarded
      BY <1>1, <3>2 DEF Guarded
    <3>4. Runner \notin LockWaiting
      BY <3>1 DEF EventInv
    <3> QED  BY <1>1, <3>2, <3>3, <3>4, OneInside DEF EventInv
  <2>4. due' = Cardinality(Calling)' + IF callback' THEN 1 ELSE 0
    BY <1>2, <1>5, <2>2
  <2> QED  BY <1>5, <2>1, <2>3, <2>4, EventParts
<1> QED  BY <1>1, <1>4, <1>5

(* unlock *)
LEMMA UnlockStep ==
    ASSUME EventInv, NEW t \in Threads, E!Unlock(t)
    PROVE  EventInv'
<1>1. /\ E!L!Release(t, "lock") /\ stage[t] = HB!Running
      /\ UNCHANGED <<value, queue, stage, callback, due>>
      /\ \/ pc[t] = "unlock" /\ E!Goto(t, "idle")
         \/ pc[t] = "unlock_invoke" /\ E!Goto(t, "invoke")
  BY DEF E!Unlock, E!In, E!handoffVars, E!userVars, E!H!Running, HB!Running
<1>2. /\ BinTypeOK /\ callback \in BOOLEAN /\ due = Cardinality(Calling) + IF callback THEN 1 ELSE 0
      /\ callback => value["handoff"] <= 0 /\ stage[Runner] = HB!Running
  BY EventParts DEF EventInv
<1>3. /\ "idle" \in Places /\ "invoke" \in Places /\ "idle" \notin LockPlaces /\ "invoke" \notin LockPlaces
      /\ pc[t] \in LockPlaces
  BY <1>1 DEF Places, LockPlaces
<1>4. /\ pc' \in [Threads -> Places] /\ (\A u \in Threads \ {t} : pc'[u] = pc[u])
      /\ t \in Guarded /\ Guarded' = Guarded \ {t} /\ Cardinality(Calling)' = Cardinality(Calling)
  <2>1. CASE pc[t] = "unlock" /\ E!Goto(t, "idle")
    BY <1>2, <1>3, <2>1, PlaceNext
  <2>2. CASE pc[t] = "unlock_invoke" /\ E!Goto(t, "invoke")
    BY <1>2, <1>3, <2>2, PlaceNext
  <2> QED  BY <1>1, <2>1, <2>2
<1>5. BinInv' /\ HB!SemInv' /\ LockWaiting' \subseteq LockWaiting
  BY <1>1, <1>4, ReleaseStep, HandoffQuiet, WaitingNext DEF EventInv
<1>6. stage'[Runner] # HB!Running => pc'[Runner] = "unlock" /\ Runner \notin LockWaiting'
  BY <1>1, <1>4, <1>5 DEF EventInv, Threads
<1> QED  BY <1>1, <1>2, <1>4, <1>5, <1>6, EventParts

(* The system calls of the two semaphores. *)
LEMMA SystemCallStep ==
    ASSUME EventInv, NEW t \in Threads, E!SemStep(t)
    PROVE  EventInv'
<1>1. /\ UNCHANGED <<pc, callback, due>>
      /\ \/ E!L!Enter(t) /\ UNCHANGED <<value, queue, stage>>
         \/ E!H!Rendezvous(t) /\ UNCHANGED <<active, waiting, count, entry>>
  BY DEF E!SemStep, E!lockVars, E!handoffVars, E!userVars
<1>2. /\ BinTypeOK /\ callback \in BOOLEAN /\ due = Cardinality(Calling) + IF callback THEN 1 ELSE 0
      /\ callback => value["handoff"] <= 0 /\ stage[Runner] = HB!Running
  BY EventParts DEF EventInv
<1>3. Calling' = Calling /\ Guarded' = Guarded
  BY <1>1 DEF Calling, Guarded
<1>4. CASE E!L!Enter(t) /\ UNCHANGED <<value, queue, stage>>
  <2>1. BinInv' /\ HB!SemInv' /\ LockWaiting' \subseteq LockWaiting
    BY <1>1, <1>4, EnterStep, HandoffQuiet, WaitingNext DEF EventInv
  <2>2. stage'[Runner] # HB!Running => pc'[Runner] = "unlock" /\ Runner \notin LockWaiting'
    BY <1>1, <1>4, <2>1 DEF EventInv
  <2> QED  BY <1>1, <1>2, <1>3, <1>4, <2>1, <2>2, EventParts
<1>5. CASE E!H!Rendezvous(t) /\ UNCHANGED <<active, waiting, count, entry>>
  <2>1. BinInv' /\ LockWaiting' = LockWaiting
    <3>1. BinTypeOK'
      BY <1>1, <1>2, <1>5 DEF BinTypeOK
    <3> QED  BY <1>3, <1>5, <3>1, BinUnchanged, WaitingNext DEF EventInv
  <2>2. HB!Rendezvous(t)
    BY <1>5, SameHandoff
  <2>3. HB!SemInv'
    BY <2>2, FiniteThreads, SameCounting, HB!SemStep DEF EventInv
  <2>4. value' = value /\ (stage[Runner] = HB!Running => stage'[Runner] = HB!Running)
    <3>1. stage \in [E!Threads -> HB!Stages] /\ Runner \in E!Threads
      BY FiniteThreads DEF EventInv, HB!SemInv, HB!SemTypeOK, Threads
    <3>2. \A p, s : p # "running" => HB!At(p, s) # HB!Running
      BY HB!StagesDiffer
    <3> QED  BY <2>2, <3>1, <3>2 DEF HB!Rendezvous, HB!Meet
  <2>5. stage'[Runner] # HB!Running => pc'[Runner] = "unlock" /\ Runner \notin LockWaiting'
    BY <1>1, <2>1, <2>4 DEF EventInv
  <2> QED  BY <1>1, <1>2, <1>3, <2>1, <2>3, <2>4, <2>5, EventParts
<1> QED  BY <1>1, <1>4, <1>5

(* Nobody waits at first. *)
LEMMA EventInitInv == E!Init => EventInv
<1> SUFFICES ASSUME E!Init PROVE EventInv
  OBVIOUS
<1>1. HB!SemInv
  BY FiniteThreads, SameCounting, SameHandoff, HB!SemInitInv DEF E!Init
<1>2. /\ active = {} /\ waiting = [m \in {"event", "lock"} |-> <<>>] /\ count = [l \in {"lock"} |-> 1]
      /\ entry = [t \in Threads |-> E!L!NoEntry] /\ pc = [t \in Threads |-> "idle"]
      /\ callback = FALSE /\ due = 0
  BY FiniteThreads DEF E!Init, E!L!BinSemInit
<1>3. BinTypeOK
  BY <1>2 DEF BinTypeOK, Places
<1>4. Guarded = {} /\ LockWaiting = {} /\ LockWaking = {} /\ Calling = {} /\ Range(waiting["lock"]) = {}
  <2>1. E!L!NoEntry.op = "none" /\ Range(waiting["lock"]) = {}
    BY <1>2 DEF E!L!NoEntry, Range
  <2> QED  BY <1>2, <2>1 DEF Guarded, LockWaiting, LockWaking, Calling
<1>5. /\ Cardinality(Guarded) = 0 /\ Cardinality(LockWaiting) = 0 /\ Cardinality(LockWaking) = 0
      /\ Cardinality(Calling) = 0
  BY <1>4, FS_EmptySet
<1>6. BinInv
  <2>1. IsInjective(waiting["lock"])
    BY <1>2 DEF IsInjective
  <2>2. Signals = 0
    BY <1>2, <1>5 DEF Signals
  <2>3. count["lock"] = 1
    BY <1>2
  <2> QED  BY <1>3, <1>4, <1>5, <2>1, <2>2, <2>3 DEF BinInv
<1>7. E!CallbacksExact
  <2>1. ~callback /\ callback \in BOOLEAN
    BY <1>2
  <2>2. due = Cardinality(Calling) + 0
    BY <1>2, <1>5
  <2>3. due = Cardinality(Calling) + IF callback THEN 1 ELSE 0
    BY <2>1, <2>2
  <2> QED  BY <2>1, <2>3, CallbacksMean
<1>8. stage[Runner] = HB!Running
  BY SameHandoff, FiniteThreads DEF E!Init, HB!SemInit, Threads
<1> QED  BY <1>1, <1>2, <1>6, <1>7, <1>8 DEF EventInv

(* EventInv is inductive. *)
LEMMA EventInvStep ==
    ASSUME EventInv, E!Emit \/ E!Run \/ \E t \in Users : E!User(t)
    PROVE  EventInv'
<1>1. ASSUME NEW t \in Threads, E!Common(t) PROVE EventInv'
  BY <1>1, InvokeStep, RegisterStep, TakeLockStep, RegisterCheckStep, UnlockStep, SystemCallStep DEF E!Common
<1>2. ASSUME E!Run PROVE EventInv'
  <2>1. Runner \in Threads
    BY DEF Threads
  <2> QED  BY <1>1, <1>2, <2>1, NotifyStep, TakeLockStep, RunDecideStep DEF E!Run
<1>3. ASSUME NEW t \in Users, E!User(t) PROVE EventInv'
  <2>1. t \in Threads
    BY DEF Threads
  <2> QED  BY <1>1, <1>3, <2>1, PollStep DEF E!User
<1> QED  BY <1>2, <1>3, NotifyStep
----------------------------------------------------------------------------
(* The component: an invariant for each part, and the number of calls, which
   the stub and the events share. *)
ComponentInv == StartInv /\ StubInv /\ EventInv /\ calls \in Nat

(* Steps elsewhere do not touch the start, *)
LEMMA StartUntouched ==
    ASSUME StartInv, UNCHANGED startVars
    PROVE  StartInv'
<1>1. UNCHANGED <<initValue, initQueue, initStage, phase>>
  BY DEF startVars
<1>2. SB!SemInv'
  <2>1. Control \in S!Threads
    BY DEF S!Threads
  <2> QED  BY <1>1, <2>1, FiniteThreads, SameCounting, SB!SemStep DEF StartInv
<1>3. /\ Begun(1)' = Begun(1) /\ Begun(3)' = Begun(3) /\ Begun(4)' = Begun(4)
      /\ Loop(1)' = Loop(1) /\ Loop(n + 1)' = Loop(n + 1) /\ Loop(2 * n + 2)' = Loop(2 * n + 2)
  BY <1>1 DEF Begun, Loop
<1>4. \A t \in Threads : StageFits(t)'
  BY <1>1 DEF StageFits, StartInv
<1> QED  BY <1>1, <1>2, <1>3, <1>4 DEF StartInv

(* the stub, *)
LEMMA StubUntouched ==
    ASSUME StubInv, UNCHANGED stubVars
    PROVE  StubInv'
<1>1. UNCHANGED <<lockValue, lockQueue, lockStage, stubPc, call, buffer, pending, serving, received>>
  BY DEF stubVars
<1>2. RB!SemInv'
  <2>1. UNCHANGED <<lockValue, lockQueue, lockStage>> /\ Runner \in {Runner} \cup Users
    BY <1>1
  <2> QED  BY <2>1, FiniteThreads, SameCounting, RB!SemStep DEF StubInv, Threads
<1>3. Inside' = Inside /\ \A t \in Threads : Request(t)' = Request(t)
  BY <1>1 DEF Inside, Request
<1>4. \A t \in Threads : LockFits(t)' /\ ExchangeFits(t)'
  BY <1>1 DEF LockFits, ExchangeFits, Request, Response, StubInv
<1> QED  BY <1>1, <1>2, <1>3, <1>4 DEF StubInv

(* or the events. *)
LEMMA EventUntouched ==
    ASSUME EventInv, UNCHANGED eventVars
    PROVE  EventInv'
<1>1. UNCHANGED <<active, waiting, count, entry, value, queue, stage, pc, callback, due>>
  BY DEF eventVars
<1>2. Guarded' = Guarded /\ Calling' = Calling
  BY <1>1 DEF Guarded, Calling
<1>3. BinInv' /\ LockWaiting' = LockWaiting
  <2>1. BinTypeOK' /\ Runner \in Threads
    BY <1>1, EventParts DEF EventInv, BinTypeOK, Threads
  <2> QED  BY <1>1, <1>2, <2>1, BinUnchanged, WaitingNext DEF EventInv
<1>4. HB!SemInv'
  BY <1>1, HandoffQuiet
<1> QED  BY <1>1, <1>2, <1>3, <1>4, EventParts DEF EventInv

(* Calls are counted. *)
LEMMA CallsCounted ==
    ASSUME calls \in Nat, E!Emit \/ E!Run \/ \E t \in Users : E!User(t)
    PROVE  calls' \in Nat
<1>1. calls' \in {calls, calls + 1}
  BY DEF E!Emit, E!Run, E!User, E!RunWait, E!RunLock, E!RunDecide, E!Common, E!Invoke, E!Register, E!RegisterLock,
         E!RegisterCheck, E!Unlock, E!SemStep, E!Poll, E!WaitEvent, E!WaitReturns, E!Begins, E!userVars
<1> QED  BY <1>1

(* All of the invariant holds at first, *)
LEMMA ComponentInitInv == Init => ComponentInv
BY StartInitInv, StubInitInv, EventInitInv DEF Init, ComponentInv, R!Init

(* and is preserved. *)
LEMMA ComponentInvStep ==
    ASSUME ComponentInv, [Next]_vars
    PROVE  ComponentInv'
<1>1. ASSUME NEW t \in S!Threads, Starting(t) PROVE ComponentInv'
  BY <1>1, FiniteThreads, StartInvStep, StubUntouched, EventUntouched DEF Starting, ComponentInv
<1>2. ASSUME NEW t \in S!Threads, InStub(t) PROVE ComponentInv'
  <2>1. t \in Threads /\ R!Caller(t) /\ UNCHANGED startVars /\ UNCHANGED eventVars
    BY <1>2 DEF InStub, Threads, startVars, eventVars
  <2> QED  BY <2>1, StubInvStep, StartUntouched, EventUntouched DEF ComponentInv
<1>3. ASSUME NEW t \in S!Threads, AtEvents(t) PROVE ComponentInv'
  <2>1. E!Run \/ \E u \in Users : E!User(u)
    <3>1. t = Runner \/ t \in Users
      BY FiniteThreads DEF Threads
    <3> QED  BY <1>3, <3>1 DEF AtEvents
  <2>2. UNCHANGED startVars /\ UNCHANGED stubVars
    BY <1>3 DEF AtEvents, startVars, stubVars
  <2> QED  BY <2>1, <2>2, EventInvStep, StartUntouched, StubUntouched, CallsCounted DEF ComponentInv
<1>4. ASSUME Server PROVE ComponentInv'
  <2>1. R!Server /\ UNCHANGED startVars /\ UNCHANGED eventVars
    BY <1>4 DEF Server, startVars, eventVars
  <2> QED  BY <2>1, StubInvStep, StartUntouched, EventUntouched DEF ComponentInv
<1>5. ASSUME Emit PROVE ComponentInv'
  <2>1. E!Emit /\ UNCHANGED startVars /\ UNCHANGED stubVars
    BY <1>5 DEF Emit, startVars, stubVars
  <2> QED  BY <2>1, EventInvStep, StartUntouched, StubUntouched, CallsCounted DEF ComponentInv
<1>6. ASSUME UNCHANGED vars PROVE ComponentInv'
  <2>1. UNCHANGED startVars /\ UNCHANGED stubVars /\ UNCHANGED eventVars /\ calls' = calls
    BY <1>6 DEF vars, startVars, stubVars, eventVars
  <2> QED  BY <2>1, StartUntouched, StubUntouched, EventUntouched DEF ComponentInv
<1> QED  BY <1>1, <1>2, <1>3, <1>4, <1>5, <1>6 DEF Next, Thread

(* Of any number of threads, and for all three kinds of semaphores: the
   counter says who waits at the endpoint that is not being woken yet. *)
THEOREM CountersExact == Spec => []CounterExact
<1>1. ComponentInv => CounterExact
  BY SameStart, SameLock, SameHandoff
     DEF ComponentInv, StartInv, StubInv, EventInv, CounterExact, SB!SemInv, RB!SemInv, HB!SemInv
<1> QED  BY ComponentInitInv, ComponentInvStep, <1>1, PTL DEF Spec

(* However many interface threads there are, and however fast they are:
   pre_init comes before every initialiser, all of these before post_init,
   and post_init before anybody serves. *)
THEOREM PhasesStayApart == Spec => []PhasesKeptApart
<1>1. ComponentInv => PhasesKeptApart
  BY PhasesFollow DEF ComponentInv, PhasesKeptApart
<1> QED  BY ComponentInitInv, ComponentInvStep, <1>1, PTL DEF Spec

(* However many threads share the stub, also when some return with an error
   and leave the lock taken: a thread is handed the response to its own call,
   and the server reads the request of the thread it answers. *)
THEOREM ResponsesAreOwn == Spec => []OwnResponse
<1>1. ComponentInv => OwnResponse
  BY OwnResponseFollows DEF ComponentInv, OwnResponse
<1> QED  BY ComponentInitInv, ComponentInvStep, <1>1, PTL DEF Spec

(* However many threads register, poll and wait, and whatever events come:
   a callback that was accepted is invoked once, and none stays registered
   while the handoff has an event. *)
THEOREM CallbacksAreExact == Spec => []CallbacksExact
<1>1. ComponentInv => CallbacksExact
  BY DEF ComponentInv, EventInv, CallbacksExact
<1> QED  BY ComponentInitInv, ComponentInvStep, <1>1, PTL DEF Spec
=============================================================================
