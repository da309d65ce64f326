--------------------------- MODULE SemBare_proofs ---------------------------
(***************************************************************************)
(* The counter of a semaphore says who waits at its endpoint, for any      *)
(* number of threads and semaphores, whatever they do between the calls.   *)
(*                                                                         *)
(* What CounterExact says of a queue, that its threads are all in the same *)
(* stage, survives a dequeue only because nobody is queued twice; the      *)
(* users of the semaphore extend SemInv with what they know of its value.  *)
(***************************************************************************)
EXTENDS SemBare, Functions, FiniteSetTheorems, TLAPS

----------------------------------------------------------------------------
(* The queues of the semaphores, in which nobody is twice *)

(* Only the empty queue has no length. *)
LEMMA EmptyQueue ==
    ASSUME NEW T, NEW q \in Seq(T)
    PROVE  q = <<>> <=> Len(q) = 0
OBVIOUS

(* A queue holds threads, and is empty when nobody is in it. *)
LEMMA QueueRange ==
    ASSUME NEW T, NEW q \in Seq(T)
    PROVE  Range(q) \subseteq T /\ (q = <<>> <=> Range(q) = {})
<1>1. Len(q) \in Nat /\ DOMAIN q = 1 .. Len(q)
  OBVIOUS
<1>2. q = <<>> <=> Len(q) = 0
  BY EmptyQueue
<1>3. Len(q) = 0 <=> DOMAIN q = {}
  <2>1. Len(q) # 0 => 1 \in DOMAIN q
    BY <1>1
  <2>2. Len(q) = 0 => \A i : i \notin DOMAIN q
    BY <1>1
  <2> QED  BY <2>1, <2>2
<1>4. \A i \in DOMAIN q : q[i] \in T
  OBVIOUS
<1>5. Range(q) \subseteq T
  BY <1>4 DEF Range
<1> QED  BY <1>2, <1>3, <1>5 DEF Range

(* The head of a non-empty queue is in it, and dequeuing removes it only. *)
LEMMA DequeueFacts ==
    ASSUME NEW T, NEW q \in Seq(T), q # <<>>, IsInjective(q)
    PROVE  /\ Head(q) \in T /\ Head(q) \in Range(q)
           /\ Tail(q) \in Seq(T) /\ IsInjective(Tail(q))
           /\ Range(Tail(q)) = Range(q) \ {Head(q)}
           /\ Tail(q) = <<>> <=> Range(Tail(q)) = {}
<1>1. /\ Len(q) \in Nat \ {0} /\ DOMAIN q = 1 .. Len(q)
      /\ \A i \in DOMAIN q : q[i] \in T
      /\ Head(q) = q[1]
  OBVIOUS
<1>2. /\ Tail(q) \in Seq(T) /\ Len(Tail(q)) = Len(q) - 1
      /\ DOMAIN Tail(q) = 1 .. Len(q) - 1
      /\ \A i \in 1 .. Len(q) - 1 : Tail(q)[i] = q[i + 1]
  BY <1>1
<1>3. IsInjective(Tail(q))
  <2> SUFFICES ASSUME NEW i \in DOMAIN Tail(q), NEW j \in DOMAIN Tail(q), Tail(q)[i] = Tail(q)[j]
               PROVE  i = j
    BY DEF IsInjective
  <2>1. i + 1 \in DOMAIN q /\ j + 1 \in DOMAIN q /\ q[i + 1] = q[j + 1]
    BY <1>1, <1>2
  <2> QED  BY <2>1, <1>1, <1>2 DEF IsInjective
<1>4. Range(Tail(q)) = Range(q) \ {Head(q)}
  <2>1. ASSUME NEW x \in Range(Tail(q)) PROVE x \in Range(q) \ {Head(q)}
    <3>1. PICK i \in DOMAIN Tail(q) : x = Tail(q)[i]
      BY DEF Range
    <3>2. i + 1 \in DOMAIN q /\ x = q[i + 1] /\ i + 1 # 1
      BY <3>1, <1>1, <1>2
    <3> QED  BY <3>2, <1>1 DEF Range, IsInjective
  <2>2. ASSUME NEW x \in Range(q), x # Head(q) PROVE x \in Range(Tail(q))
    <3>1. PICK i \in DOMAIN q : x = q[i]
      BY DEF Range
    <3>2. i - 1 \in DOMAIN Tail(q) /\ Tail(q)[i - 1] = x
      BY <3>1, <2>2, <1>1, <1>2
    <3> QED  BY <3>2 DEF Range
  <2> QED  BY <2>1, <2>2
<1>5. Tail(q) = <<>> <=> Range(Tail(q)) = {}
  BY <1>2, QueueRange
<1>6. Head(q) \in T /\ Head(q) \in Range(q)
  BY <1>1 DEF Range
<1> QED  BY <1>2, <1>3, <1>4, <1>5, <1>6

(* Enqueuing adds the thread to the queue. *)
LEMMA EnqueueFacts ==
    ASSUME NEW T, NEW q \in Seq(T), NEW t \in T, t \notin Range(q), IsInjective(q)
    PROVE  /\ Append(q, t) \in Seq(T) /\ Append(q, t) # <<>>
           /\ IsInjective(Append(q, t))
           /\ Range(Append(q, t)) = Range(q) \cup {t}
<1>1. /\ Len(q) \in Nat /\ DOMAIN q = 1 .. Len(q)
      /\ Append(q, t) \in Seq(T) /\ DOMAIN Append(q, t) = 1 .. Len(q) + 1
      /\ \A i \in 1 .. Len(q) : Append(q, t)[i] = q[i]
      /\ Append(q, t)[Len(q) + 1] = t
  OBVIOUS
<1>2. IsInjective(Append(q, t))
  BY <1>1 DEF IsInjective, Range
<1>3. Range(Append(q, t)) = Range(q) \cup {t}
  <2>1. ASSUME NEW x \in Range(Append(q, t)), x # t PROVE x \in Range(q)
    BY <1>1, <2>1 DEF Range
  <2>2. ASSUME NEW x \in Range(q) PROVE x \in Range(Append(q, t))
    <3>1. PICK i \in DOMAIN q : x = q[i]
      BY DEF Range
    <3> QED  BY <3>1, <1>1 DEF Range
  <2>3. t \in Range(Append(q, t))
    BY <1>1 DEF Range
  <2> QED  BY <2>1, <2>2, <2>3
<1>4. Append(q, t) # <<>>
  BY <1>1
<1> QED  BY <1>1, <1>2, <1>3, <1>4

----------------------------------------------------------------------------


SemTypeOK ==
    /\ value \in [Sems -> Int]
    /\ queue \in [Sems -> Seq(Threads)]
    /\ stage \in [Threads -> Stages]

SemInv ==
    /\ SemTypeOK
    /\ CounterExact
    /\ \A s \in Sems : IsInjective(queue[s])

(* Stages are told apart by their place and their semaphore. *)
LEMMA StagesDiffer ==
    /\ \A p, q, s, r : At(p, s) = At(q, r) <=> p = q /\ s = r
    /\ \A p, s : p # "running" => At(p, s) # Running
    /\ Running \in Stages
    /\ \A s \in Sems : \A p \in {"wait", "recv", "post", "send"} : At(p, s) \in Stages
<1>1. \A p, q, s, r : At(p, s) = At(q, r) <=> p = q /\ s = r
  BY DEF At
<1>2. ASSUME NEW p, NEW s, p # "running" PROVE At(p, s) # Running
  <2>1. At(p, s).at = p /\ Running.at = "running"
    BY DEF At, Running
  <2> QED  BY <1>2, <2>1
<1> QED  BY <1>1, <1>2 DEF Stages

(* The parts of CounterExact *)
Balance(s) == Cardinality(Waiters(s)) - Cardinality(Wakers(s)) = IF value[s] < 0 THEN - value[s] ELSE 0
Parked(s) == {t \in Threads : stage[t] \in {At("recv", s), At("send", s)}}
Alike(s) == \A t, u \in Range(queue[s]) : stage[t] = stage[u]

(* CounterExact holds semaphore by semaphore. *)
LEMMA CounterParts == CounterExact <=> \A s \in Sems : Balance(s) /\ Alike(s) /\ Range(queue[s]) = Parked(s)
<1>1. ASSUME NEW s \in Sems
      PROVE  /\ Range(queue[s]) = {queue[s][i] : i \in DOMAIN queue[s]}
             /\ Alike(s) <=> \A i, j \in DOMAIN queue[s] : stage[queue[s][i]] = stage[queue[s][j]]
  BY DEF Range, Alike
<1> QED  BY <1>1 DEF CounterExact, Balance, Parked

(* The same, after a step. *)
LEMMA CounterPartsNext ==
    ASSUME \A s \in Sems : (Balance(s) /\ Alike(s) /\ Range(queue[s]) = Parked(s))'
    PROVE  CounterExact'
<1>1. ASSUME NEW s \in Sems
      PROVE  /\ Range(queue'[s]) = {queue'[s][i] : i \in DOMAIN queue'[s]}
             /\ Alike(s)' <=> \A i, j \in DOMAIN queue'[s] : stage'[queue'[s][i]] = stage'[queue'[s][j]]
  BY DEF Range, Alike
<1> QED  BY <1>1 DEF CounterExact, Balance, Parked

(* One thread more or less in a set of threads. *)
LEMMA OneMore ==
    ASSUME NEW A, NEW x, IsFiniteSet(A)
    PROVE  /\ Cardinality(A) \in Nat
           /\ x \notin A => Cardinality(A \cup {x}) = Cardinality(A) + 1
           /\ x \in A => Cardinality(A \ {x}) = Cardinality(A) - 1
           /\ IsFiniteSet(A \cup {x}) /\ IsFiniteSet(A \ {x})
BY FS_CardinalityType, FS_AddElement, FS_RemoveElement

(* Nobody waits at first. *)
LEMMA SemInitInv ==
    ASSUME IsFiniteSet(Threads), Initial \in [Sems -> Nat], SemInit
    PROVE  SemInv
<1>1. SemTypeOK
  BY StagesDiffer DEF SemInit, SemTypeOK
<1>2. ASSUME NEW s \in Sems
      PROVE  Waiters(s) = {} /\ Wakers(s) = {} /\ {t \in Threads : stage[t] \in {At("recv", s), At("send", s)}} = {}
  BY StagesDiffer DEF SemInit, Waiters, Wakers
<1>3. ASSUME NEW s \in Sems PROVE Balance(s) /\ Alike(s) /\ Range(queue[s]) = Parked(s) /\ IsInjective(queue[s])
  <2>1. queue[s] = <<>> /\ value[s] \in Nat
    BY DEF SemInit
  <2>2. Balance(s)
    <3>1. Cardinality(Waiters(s)) = 0 /\ Cardinality(Wakers(s)) = 0
      BY <1>2, FS_EmptySet
    <3> QED  BY <2>1, <3>1 DEF Balance
  <2>3. Range(queue[s]) = {} /\ IsInjective(queue[s])
    BY <2>1 DEF Range, IsInjective
  <2> QED  BY <1>2, <2>2, <2>3 DEF Alike, Parked
<1> QED  BY <1>1, <1>3, CounterParts DEF SemInv

(* The atomic change of a counter: a thread that must wait, or must wake
   another, is counted at once and is in no queue yet. *)
LEMMA CountStep ==
    ASSUME SemInv, IsFiniteSet(Threads), NEW t \in Threads, NEW s \in Sems,
           Wait(t, s) \/ TryWait(t, s) \/ Post(t, s)
    PROVE  SemInv'
<1>1. /\ stage[t] = Running /\ queue' = queue /\ value[s] \in Int
      /\ \A r \in Sems : Balance(r) /\ Alike(r) /\ Range(queue[r]) = Parked(r) /\ IsInjective(queue[r])
  BY CounterParts DEF SemInv, SemTypeOK, Wait, TryWait, Post
<1>2. \A u \in Threads \ {t} : stage'[u] = stage[u]
  BY DEF SemInv, SemTypeOK, Wait, TryWait, Post
<1>3. \A r \in Sems \ {s} : value'[r] = value[r]
  BY DEF SemInv, SemTypeOK, Wait, TryWait, Post
<1>4. \/ value[s] > 0 /\ value'[s] = value[s] - 1 /\ stage'[t] = Running
      \/ value[s] <= 0 /\ value'[s] = value[s] - 1 /\ stage'[t] = At("wait", s)
      \/ value[s] >= 0 /\ value'[s] = value[s] + 1 /\ stage'[t] = Running
      \/ value[s] < 0 /\ value'[s] = value[s] + 1 /\ stage'[t] = At("post", s)
  <2>1. CASE Wait(t, s)
    BY <2>1, <1>1 DEF SemInv, SemTypeOK, Wait
  <2>2. CASE TryWait(t, s)
    BY <2>2, <1>1 DEF SemInv, SemTypeOK, TryWait
  <2>3. CASE Post(t, s)
    <3>1. value' = [value EXCEPT ![s] = @ + 1] /\ value'[s] = value[s] + 1
      BY <2>3 DEF SemInv, SemTypeOK, Post
    <3>2. CASE value[s] + 1 <= 0
      BY <1>1, <2>3, <3>1, <3>2 DEF SemInv, SemTypeOK, Post
    <3>3. CASE ~(value[s] + 1 <= 0)
      BY <1>1, <2>3, <3>1, <3>3 DEF SemInv, SemTypeOK, Post
    <3> QED  BY <3>2, <3>3
  <2> QED  BY <2>1, <2>2, <2>3
<1>5. SemTypeOK'
  <2>1. value' \in [Sems -> Int]
    BY DEF SemInv, SemTypeOK, Wait, TryWait, Post
  <2>2. stage' \in [Threads -> Stages]
    <3>1. stage' \in {stage, [stage EXCEPT ![t] = At("wait", s)], [stage EXCEPT ![t] = At("post", s)]}
      BY DEF Wait, TryWait, Post
    <3>2. At("wait", s) \in Stages /\ At("post", s) \in Stages
      BY StagesDiffer
    <3> QED  BY <3>1, <3>2 DEF SemInv, SemTypeOK
  <2> QED  BY <1>1, <2>1, <2>2 DEF SemInv, SemTypeOK
<1>6. stage'[t] \in {Running, At("wait", s), At("post", s)}
  BY <1>4
<1>7. ASSUME NEW r \in Sems PROVE Parked(r)' = Parked(r) /\ Alike(r)'
  <2>1. Parked(r)' = Parked(r) /\ t \notin Parked(r)
    BY <1>1, <1>2, <1>6, StagesDiffer DEF Parked
  <2>2. \A u \in Range(queue[r]) : stage'[u] = stage[u]
    BY <1>1, <1>2, <2>1 DEF Parked
  <2> QED  BY <1>1, <2>1, <2>2 DEF Alike
<1>8. ASSUME NEW r \in Sems \ {s} PROVE Balance(r)'
  <2>1. Waiters(r)' = Waiters(r) /\ Wakers(r)' = Wakers(r)
    BY <1>1, <1>2, <1>6, <1>8, StagesDiffer DEF Waiters, Wakers
  <2> QED  BY <1>1, <1>3, <2>1 DEF Balance
<1>9. Balance(s)'
  <2>1. t \notin Waiters(s) /\ t \notin Wakers(s)
    BY <1>1, StagesDiffer DEF Waiters, Wakers
  <2>2. IsFiniteSet(Waiters(s)) /\ IsFiniteSet(Wakers(s))
    BY FS_Subset DEF Waiters, Wakers
  <2>3. /\ Cardinality(Waiters(s)) \in Nat /\ Cardinality(Wakers(s)) \in Nat
        /\ Cardinality(Waiters(s) \cup {t}) = Cardinality(Waiters(s)) + 1
        /\ Cardinality(Wakers(s) \cup {t}) = Cardinality(Wakers(s)) + 1
    BY <2>1, <2>2, OneMore
  <2>4. Balance(s)
    BY <1>1
  <2>5. CASE stage'[t] = Running
    <3>1. Waiters(s)' = Waiters(s) /\ Wakers(s)' = Wakers(s)
      BY <1>1, <1>2, <2>5, StagesDiffer DEF Waiters, Wakers
    <3>2. value'[s] \in Int /\ (IF value'[s] < 0 THEN - value'[s] ELSE 0) = IF value[s] < 0 THEN - value[s] ELSE 0
      BY <1>1, <1>4, <2>5, StagesDiffer
    <3> QED  BY <2>4, <3>1, <3>2 DEF Balance
  <2>6. CASE stage'[t] = At("wait", s)
    <3>1. Waiters(s)' = Waiters(s) \cup {t} /\ Wakers(s)' = Wakers(s)
      BY <1>1, <1>2, <2>1, <2>6, StagesDiffer DEF Waiters, Wakers
    <3>2. value[s] <= 0 /\ value'[s] = value[s] - 1
      BY <1>4, <2>6, StagesDiffer
    <3> QED  BY <1>1, <2>3, <2>4, <3>1, <3>2 DEF Balance
  <2>7. CASE stage'[t] = At("post", s)
    <3>1. Waiters(s)' = Waiters(s) /\ Wakers(s)' = Wakers(s) \cup {t}
      BY <1>1, <1>2, <2>1, <2>7, StagesDiffer DEF Waiters, Wakers
    <3>2. value[s] < 0 /\ value'[s] = value[s] + 1
      BY <1>4, <2>7, StagesDiffer
    <3> QED  BY <1>1, <2>3, <2>4, <3>1, <3>2 DEF Balance
  <2> QED  BY <1>6, <2>5, <2>6, <2>7
<1>10. CounterExact'
  <2>1. \A r \in Sems : (Balance(r) /\ Alike(r) /\ Range(queue[r]) = Parked(r))'
    BY <1>1, <1>7, <1>8, <1>9
  <2> QED  BY <2>1, CounterPartsNext
<1> QED  BY <1>1, <1>5, <1>10 DEF SemInv

(* The system call: a thread meets one that waits for the opposite, or parks
   behind others like itself. *)
LEMMA MeetStep ==
    ASSUME SemInv, IsFiniteSet(Threads), NEW t \in Threads, Rendezvous(t)
    PROVE  SemInv'
<1>1. /\ value' = value
      /\ \A r \in Sems : /\ Balance(r) /\ Alike(r) /\ Range(queue[r]) = Parked(r)
                         /\ IsInjective(queue[r]) /\ queue[r] \in Seq(Threads)
  BY CounterParts DEF SemInv, SemTypeOK, Rendezvous
<1>2. PICK s \in Sems, b \in BOOLEAN :
         /\ stage[t] = IF b THEN At("wait", s) ELSE At("post", s)
         /\ Meet(t, s, IF b THEN "recv" ELSE "send", IF b THEN "send" ELSE "recv")
  BY DEF Rendezvous
<1> DEFINE mine == IF b THEN "recv" ELSE "send"
           opposite == IF b THEN "send" ELSE "recv"
<1>3. At(mine, s) \in Stages /\ Running \in Stages /\ At(mine, s) # At(opposite, s)
  BY StagesDiffer
<1>4. \A r \in Sems : t \notin Range(queue[r])
  BY <1>1, <1>2, StagesDiffer DEF Parked
<1>5. /\ \A r \in Sems : IsFiniteSet(Waiters(r)) /\ IsFiniteSet(Wakers(r))
      /\ \A r \in Sems : t \in Waiters(r) <=> b /\ r = s
      /\ \A r \in Sems : t \in Wakers(r) <=> ~b /\ r = s
  BY <1>2, FS_Subset, StagesDiffer DEF Waiters, Wakers
<1>6. CASE queue[s] # <<>> /\ stage[Head(queue[s])] = At(opposite, s)
  <2>1. PICK h : h = Head(queue[s])
    OBVIOUS
  <2>2. /\ h \in Threads /\ h \in Range(queue[s]) /\ h # t /\ stage[h] = At(opposite, s)
        /\ Tail(queue[s]) \in Seq(Threads) /\ IsInjective(Tail(queue[s]))
        /\ Range(Tail(queue[s])) = Range(queue[s]) \ {h}
    BY <1>1, <1>4, <1>6, <2>1, DequeueFacts
  <2>3. /\ stage' = [stage EXCEPT ![t] = Running, ![h] = Running]
        /\ queue' = [queue EXCEPT ![s] = Tail(@)]
    BY <1>2, <1>6, <2>1 DEF Meet
  <2>4. /\ stage'[t] = Running /\ stage'[h] = Running /\ \A u \in Threads \ {t, h} : stage'[u] = stage[u]
        /\ queue'[s] = Tail(queue[s]) /\ \A r \in Sems \ {s} : queue'[r] = queue[r]
    BY <2>2, <2>3 DEF SemInv, SemTypeOK
  <2>5. SemTypeOK'
    BY <1>1, <1>3, <2>2, <2>3 DEF SemInv, SemTypeOK
  <2>6. \A r \in Sems : Range(queue[r])' = Range(queue[r]) \ {h} /\ IsInjective(queue[r])'
    BY <1>1, <2>2, <2>4, StagesDiffer DEF Parked
  <2>7. \A r \in Sems : Parked(r)' = Parked(r) \ {h}
    BY <1>2, <2>2, <2>4, StagesDiffer DEF Parked
  <2>8. \A r \in Sems : Alike(r)'
    <3>1. ASSUME NEW r \in Sems, NEW u \in Range(queue[r])' PROVE u \in Range(queue[r]) /\ stage'[u] = stage[u]
      <4>1. u \in Range(queue[r]) \ {t, h}
        BY <1>4, <2>6, <3>1
      <4> QED  BY <1>1, <2>4, <4>1 DEF Parked
    <3> QED  BY <1>1, <3>1 DEF Alike
  <2>9. ASSUME NEW r \in Sems PROVE Balance(r)'
    <3>1. CASE r # s
      <4>1. Waiters(r)' = Waiters(r) /\ Wakers(r)' = Wakers(r)
        BY <1>2, <2>2, <2>4, <3>1, StagesDiffer DEF Waiters, Wakers
      <4> QED  BY <1>1, <4>1 DEF Balance
    <3>2. CASE r = s
      <4>1. Waiters(s) \cap {t, h} = (IF b THEN {t} ELSE {h}) /\ Wakers(s) \cap {t, h} = (IF b THEN {h} ELSE {t})
        BY <1>2, <2>2, StagesDiffer DEF Waiters, Wakers
      <4>2. Waiters(s)' = Waiters(s) \ {t, h} /\ Wakers(s)' = Wakers(s) \ {t, h}
        BY <2>2, <2>4, StagesDiffer DEF Waiters, Wakers
      <4>3. PICK x \in Waiters(s), y \in Wakers(s) :
               Waiters(s)' = Waiters(s) \ {x} /\ Wakers(s)' = Wakers(s) \ {y}
        BY <4>1, <4>2
      <4>4. /\ Cardinality(Waiters(s) \ {x}) = Cardinality(Waiters(s)) - 1
            /\ Cardinality(Wakers(s) \ {y}) = Cardinality(Wakers(s)) - 1
            /\ Cardinality(Waiters(s)) \in Nat /\ Cardinality(Wakers(s)) \in Nat
        BY <1>5, OneMore
      <4> QED  BY <1>1, <3>2, <4>3, <4>4 DEF Balance
    <3> QED  BY <3>1, <3>2
  <2>10. \A r \in Sems : (Balance(r) /\ Alike(r) /\ Range(queue[r]) = Parked(r))'
    BY <1>1, <2>6, <2>7, <2>8, <2>9
  <2> QED  BY <2>5, <2>6, <2>10, CounterPartsNext DEF SemInv
<1>7. CASE ~(queue[s] # <<>> /\ stage[Head(queue[s])] = At(opposite, s))
  <2>1. /\ stage' = [stage EXCEPT ![t] = At(mine, s)]
        /\ queue' = [queue EXCEPT ![s] = Append(@, t)]
    BY <1>2, <1>7 DEF Meet
  <2>2. /\ stage'[t] = At(mine, s) /\ \A u \in Threads \ {t} : stage'[u] = stage[u]
        /\ queue'[s] = Append(queue[s], t) /\ \A r \in Sems \ {s} : queue'[r] = queue[r]
    BY <2>1 DEF SemInv, SemTypeOK
  <2>3. /\ Append(queue[s], t) \in Seq(Threads) /\ IsInjective(Append(queue[s], t))
        /\ Range(Append(queue[s], t)) = Range(queue[s]) \cup {t}
    BY <1>1, <1>4, EnqueueFacts
  <2>4. SemTypeOK'
    BY <1>1, <1>3, <2>1, <2>3 DEF SemInv, SemTypeOK
  <2>5. \A u \in Range(queue[s]) : stage[u] = At(mine, s)
    <3>1. CASE queue[s] = <<>>
      BY <3>1 DEF Range
    <3>2. CASE queue[s] # <<>>
      <4>1. Head(queue[s]) \in Range(queue[s])
        BY <1>1, <3>2, DequeueFacts
      <4>2. stage[Head(queue[s])] = At(mine, s)
        BY <1>1, <1>7, <3>2, <4>1 DEF Parked
      <4> QED  BY <1>1, <4>1, <4>2 DEF Alike
    <3> QED  BY <3>1, <3>2
  <2>6. ASSUME NEW r \in Sems
        PROVE  Range(queue[r])' = Parked(r)' /\ Alike(r)' /\ IsInjective(queue[r])'
    <3>1. CASE r # s
      <4>1. Parked(r)' = Parked(r)
        BY <1>2, <2>2, <3>1, StagesDiffer DEF Parked
      <4> QED  BY <1>1, <1>4, <2>2, <3>1, <4>1 DEF Alike, Parked
    <3>2. CASE r = s
      <4>1. Parked(s)' = Parked(s) \cup {t}
        BY <2>2, StagesDiffer DEF Parked
      <4>2. \A u \in Range(queue[s]) \cup {t} : stage'[u] = At(mine, s)
        BY <1>1, <2>2, <2>5 DEF Parked
      <4> QED  BY ZenonT(60), <1>1, <2>2, <2>3, <3>2, <4>1, <4>2 DEF Alike
    <3> QED  BY <3>1, <3>2
  <2>7. \A r \in Sems : Waiters(r)' = Waiters(r) /\ Wakers(r)' = Wakers(r)
    BY <1>2, <2>2, StagesDiffer DEF Waiters, Wakers
  <2>8. \A r \in Sems : (Balance(r) /\ Alike(r) /\ Range(queue[r]) = Parked(r))'
    BY <1>1, <2>6, <2>7 DEF Balance
  <2> QED  BY <2>4, <2>6, <2>8, CounterPartsNext DEF SemInv
<1> QED  BY <1>6, <1>7

(* Whatever a thread does with a semaphore. *)
LEMMA SemStep ==
    ASSUME SemInv, IsFiniteSet(Threads), NEW t \in Threads,
           \/ \E s \in Sems : Wait(t, s) \/ TryWait(t, s) \/ Post(t, s)
           \/ Rendezvous(t)
           \/ UNCHANGED <<value, queue, stage>>
    PROVE  SemInv'
<1>1. ASSUME UNCHANGED <<value, queue, stage>> PROVE SemInv'
  <2>1. \A s \in Sems : Waiters(s)' = Waiters(s) /\ Wakers(s)' = Wakers(s)
    BY <1>1 DEF Waiters, Wakers
  <2>2. CounterExact'
    BY <1>1, <2>1 DEF SemInv, CounterExact
  <2>3. SemTypeOK' /\ \A s \in Sems : IsInjective(queue[s])'
    BY <1>1 DEF SemInv, SemTypeOK
  <2> QED  BY <2>2, <2>3 DEF SemInv
<1>2. ASSUME NEW s \in Sems, Wait(t, s) \/ TryWait(t, s) \/ Post(t, s) PROVE SemInv'
  BY <1>2, CountStep
<1>3. ASSUME Rendezvous(t) PROVE SemInv'
  BY <1>3, MeetStep
<1> QED  BY <1>1, <1>2, <1>3

(* Threads let through a semaphore: every unit of its value and every thread
   that is waking another has let one thread less through. *)
LEMMA Passed ==
    ASSUME SemInv, IsFiniteSet(Threads), NEW s \in Sems, NEW A \in SUBSET Threads, Waiters(s) \subseteq A
    PROVE  Cardinality(A \ Waiters(s)) + Cardinality(Wakers(s)) <= Cardinality(A) + value[s]
<1>1. IsFiniteSet(A) /\ IsFiniteSet(Waiters(s)) /\ IsFiniteSet(Wakers(s))
  BY FS_Subset DEF Wakers
<1>2. Cardinality(A \ Waiters(s)) = Cardinality(A) - Cardinality(Waiters(s))
  <2>1. A \cap Waiters(s) = Waiters(s)
    OBVIOUS
  <2> QED  BY <1>1, <2>1, FS_Difference
<1>3. /\ Cardinality(A) \in Nat /\ Cardinality(Waiters(s)) \in Nat /\ Cardinality(Wakers(s)) \in Nat
  BY <1>1, FS_CardinalityType
<1>4. value[s] \in Int /\ Balance(s)
  BY CounterParts DEF SemInv, SemTypeOK
<1> QED  BY <1>2, <1>3, <1>4 DEF Balance
=============================================================================
