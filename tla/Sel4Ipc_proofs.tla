--------------------------- MODULE Sel4Ipc_proofs ---------------------------
(***************************************************************************)
(* The invariants of Sel4Ipc hold for any threads, endpoints and messages. *)
(*                                                                         *)
(* Typing alone is not inductive: that the head of a queue is a thread     *)
(* needs the queue to be non-empty, which is QueueMatchesState; that one   *)
(* survives a dequeue because nobody is queued twice; a thread dequeued by *)
(* a sender can be given a reply capability because a receiver holds none; *)
(* and a thread resumed by a reply leaves no capability behind because it  *)
(* had only one.  So the invariants are proved together, as KernelInv.     *)
(***************************************************************************)
EXTENDS Sel4Ipc, TLAPS

----------------------------------------------------------------------------
(* What joining, leaving and being dequeued do to a queue of threads in which
   nobody is twice *)

(* Only the empty queue has no length. *)
LEMMA EmptyQueue ==
    ASSUME NEW T, NEW q \in Seq(T)
    PROVE  q = <<>> <=> Len(q) = 0
OBVIOUS

(* A queue holds threads, and is empty when nobody is in it. *)
LEMMA QueueRange ==
    ASSUME NEW T, NEW q \in Seq(T)
    PROVE  Range(q) \subseteq T /\ (q = <<>> <=> Range(q) = {})
<1>1. Len(q) \in Nat /\ DOMAIN q = 1 .. Len(q)
  OBVIOUS
<1>2. q = <<>> <=> Len(q) = 0
  BY EmptyQueue
<1>3. Len(q) = 0 <=> DOMAIN q = {}
  <2>1. Len(q) # 0 => 1 \in DOMAIN q
    BY <1>1
  <2>2. Len(q) = 0 => \A i : i \notin DOMAIN q
    BY <1>1
  <2> QED  BY <2>1, <2>2
<1>4. \A i \in DOMAIN q : q[i] \in T
  OBVIOUS
<1>5. Range(q) \subseteq T
  BY <1>4 DEF Range
<1> QED  BY <1>2, <1>3, <1>5 DEF Range

(* The head of a non-empty queue is in it, and dequeuing removes it only. *)
LEMMA DequeueFacts ==
    ASSUME NEW T, NEW q \in Seq(T), q # <<>>, IsInjective(q)
    PROVE  /\ Head(q) \in T /\ Head(q) \in Range(q)
           /\ Tail(q) \in Seq(T) /\ IsInjective(Tail(q))
           /\ Range(Tail(q)) = Range(q) \ {Head(q)}
           /\ Tail(q) = <<>> <=> Range(Tail(q)) = {}
<1>1. /\ Len(q) \in Nat \ {0} /\ DOMAIN q = 1 .. Len(q)
      /\ \A i \in DOMAIN q : q[i] \in T
      /\ Head(q) = q[1]
  OBVIOUS
<1>2. /\ Tail(q) \in Seq(T) /\ Len(Tail(q)) = Len(q) - 1
      /\ DOMAIN Tail(q) = 1 .. Len(q) - 1
      /\ \A i \in 1 .. Len(q) - 1 : Tail(q)[i] = q[i + 1]
  BY <1>1
<1>3. IsInjective(Tail(q))
  <2> SUFFICES ASSUME NEW i \in DOMAIN Tail(q), NEW j \in DOMAIN Tail(q), Tail(q)[i] = Tail(q)[j]
               PROVE  i = j
    BY DEF IsInjective
  <2>1. i + 1 \in DOMAIN q /\ j + 1 \in DOMAIN q /\ q[i + 1] = q[j + 1]
    BY <1>1, <1>2
  <2> QED  BY <2>1, <1>1, <1>2 DEF IsInjective
<1>4. Range(Tail(q)) = Range(q) \ {Head(q)}
  <2>1. ASSUME NEW x \in Range(Tail(q)) PROVE x \in Range(q) \ {Head(q)}
    <3>1. PICK i \in DOMAIN Tail(q) : x = Tail(q)[i]
      BY DEF Range
    <3>2. i + 1 \in DOMAIN q /\ x = q[i + 1] /\ i + 1 # 1
      BY <3>1, <1>1, <1>2
    <3> QED  BY <3>2, <1>1 DEF Range, IsInjective
  <2>2. ASSUME NEW x \in Range(q), x # Head(q) PROVE x \in Range(Tail(q))
    <3>1. PICK i \in DOMAIN q : x = q[i]
      BY DEF Range
    <3>2. i - 1 \in DOMAIN Tail(q) /\ Tail(q)[i - 1] = x
      BY <3>1, <2>2, <1>1, <1>2
    <3> QED  BY <3>2 DEF Range
  <2> QED  BY <2>1, <2>2
<1>5. Tail(q) = <<>> <=> Range(Tail(q)) = {}
  BY <1>2, QueueRange
<1>6. Head(q) \in T /\ Head(q) \in Range(q)
  BY <1>1 DEF Range
<1> QED  BY <1>2, <1>3, <1>4, <1>5, <1>6

(* Enqueuing adds the thread to the queue. *)
LEMMA EnqueueFacts ==
    ASSUME NEW T, NEW q \in Seq(T), NEW t \in T, t \notin Range(q), IsInjective(q)
    PROVE  /\ Append(q, t) \in Seq(T) /\ Append(q, t) # <<>>
           /\ IsInjective(Append(q, t))
           /\ Range(Append(q, t)) = Range(q) \cup {t}
<1>1. /\ Len(q) \in Nat /\ DOMAIN q = 1 .. Len(q)
      /\ Append(q, t) \in Seq(T) /\ DOMAIN Append(q, t) = 1 .. Len(q) + 1
      /\ \A i \in 1 .. Len(q) : Append(q, t)[i] = q[i]
      /\ Append(q, t)[Len(q) + 1] = t
  OBVIOUS
<1>2. IsInjective(Append(q, t))
  BY <1>1 DEF IsInjective, Range
<1>3. Range(Append(q, t)) = Range(q) \cup {t}
  <2>1. ASSUME NEW x \in Range(Append(q, t)), x # t PROVE x \in Range(q)
    BY <1>1, <2>1 DEF Range
  <2>2. ASSUME NEW x \in Range(q) PROVE x \in Range(Append(q, t))
    <3>1. PICK i \in DOMAIN q : x = q[i]
      BY DEF Range
    <3> QED  BY <3>1, <1>1 DEF Range
  <2>3. t \in Range(Append(q, t))
    BY <1>1 DEF Range
  <2> QED  BY <2>1, <2>2, <2>3
<1>4. Append(q, t) # <<>>
  BY <1>1
<1> QED  BY <1>1, <1>2, <1>3, <1>4

(* Unlinking a queued thread removes it only. *)
LEMMA UnlinkFacts ==
    ASSUME NEW T, NEW q \in Seq(T), NEW t \in Range(q), IsInjective(q)
    PROVE  /\ Unlink(q, t) \in Seq(T) /\ IsInjective(Unlink(q, t))
           /\ Range(Unlink(q, t)) = Range(q) \ {t}
           /\ Unlink(q, t) = <<>> <=> Range(Unlink(q, t)) = {}
<1> DEFINE k == CHOOSE i \in DOMAIN q : q[i] = t
           r == [i \in 1 .. Len(q) - 1 |-> IF i < k THEN q[i] ELSE q[i + 1]]
<1>1. /\ Len(q) \in Nat /\ DOMAIN q = 1 .. Len(q)
      /\ \A i \in DOMAIN q : q[i] \in T
  OBVIOUS
<1>2. k \in DOMAIN q /\ q[k] = t
  BY DEF Range
<1>3. Unlink(q, t) = r
  BY DEF Unlink
<1> HIDE DEF k
<1>4. /\ Len(q) - 1 \in Nat /\ DOMAIN r = 1 .. Len(q) - 1
      /\ \A i \in DOMAIN r : r[i] = IF i < k THEN q[i] ELSE q[i + 1]
  BY <1>1, <1>2
<1>5. \A i \in DOMAIN r : r[i] \in T
  BY <1>1, <1>2, <1>4
<1>6. r \in Seq(T) /\ Len(r) = Len(q) - 1
  <2> SUFFICES r \in [1 .. Len(q) - 1 -> T]
    BY <1>4
  <2> QED  BY <1>4, <1>5
<1> HIDE DEF r
<1>7. IsInjective(r)
  <2> SUFFICES ASSUME NEW i \in DOMAIN r, NEW j \in DOMAIN r, r[i] = r[j]
               PROVE  i = j
    BY DEF IsInjective
  <2>1. /\ i \in DOMAIN q /\ i + 1 \in DOMAIN q /\ j \in DOMAIN q /\ j + 1 \in DOMAIN q
        /\ k \in Nat
    BY <1>1, <1>2, <1>4
  <2> QED  BY <2>1, <1>1, <1>4 DEF IsInjective
<1>8. Range(r) = Range(q) \ {t}
  <2>1. ASSUME NEW x \in Range(r) PROVE x \in Range(q) \ {t}
    <3>1. PICK i \in DOMAIN r : x = r[i]
      BY DEF Range
    <3>2. PICK j \in DOMAIN q : j # k /\ x = q[j]
      BY <3>1, <1>1, <1>2, <1>4
    <3> QED  BY <3>2, <1>2 DEF Range, IsInjective
  <2>2. ASSUME NEW x \in Range(q), x # t PROVE x \in Range(r)
    <3>1. PICK j \in DOMAIN q : x = q[j]
      BY DEF Range
    <3>2. j # k
      BY <3>1, <2>2, <1>2
    <3>3. CASE j < k
      <4>1. j \in DOMAIN r /\ r[j] = x
        BY <3>1, <3>3, <1>1, <1>2, <1>4
      <4> QED  BY <4>1 DEF Range
    <3>4. CASE j > k
      <4>1. j - 1 \in DOMAIN r /\ r[j - 1] = x
        BY <3>1, <3>4, <1>1, <1>2, <1>4
      <4> QED  BY <4>1 DEF Range
    <3> QED  BY <3>2, <3>3, <3>4, <1>1, <1>2
  <2> QED  BY <2>1, <2>2
<1>9. r = <<>> <=> Range(r) = {}
  BY <1>6, QueueRange
<1> QED  BY <1>3, <1>6, <1>7, <1>8, <1>9

(* The front of a queue, put before the rest or taken off again. *)
LEMMA FrontFacts ==
    ASSUME NEW T, NEW x \in T, NEW q \in Seq(T)
    PROVE  /\ <<>> \o q = q
           /\ <<x>> \o q \in Seq(T) /\ <<x>> \o q # <<>>
           /\ Head(<<x>> \o q) = x /\ Tail(<<x>> \o q) = q
           /\ q # <<>> => <<Head(q)>> \o Tail(q) = q
<1>1. <<>> \o q = q
  OBVIOUS
<1>2. <<x>> \o q \in Seq(T) /\ <<x>> \o q # <<>> /\ Head(<<x>> \o q) = x /\ Len(<<x>> \o q) = Len(q) + 1
  OBVIOUS
<1>3. Tail(<<x>> \o q) = q
  <2>1. Tail(<<x>> \o q) \in Seq(T) /\ Len(Tail(<<x>> \o q)) = Len(q)
    BY <1>2
  <2>2. \A i \in 1 .. Len(q) : Tail(<<x>> \o q)[i] = q[i]
    BY <1>2
  <2> QED  BY <2>1, <2>2
<1>4. ASSUME q # <<>> PROVE <<Head(q)>> \o Tail(q) = q
  <2>1. Head(q) \in T /\ Tail(q) \in Seq(T) /\ Len(Tail(q)) = Len(q) - 1 /\ Head(q) = q[1]
    BY <1>4
  <2>2. <<Head(q)>> \o Tail(q) \in Seq(T) /\ Len(<<Head(q)>> \o Tail(q)) = Len(q)
    BY <2>1, <1>4
  <2>3. \A i \in 1 .. Len(q) : (<<Head(q)>> \o Tail(q))[i] = q[i]
    BY <1>4, <2>1
  <2> QED  BY <2>2, <2>3
<1> QED  BY <1>1, <1>2, <1>3, <1>4

(* Who joins the tail of a queue is behind whatever stands before it. *)
LEMMA BehindFacts ==
    ASSUME NEW T, NEW x \in T, NEW p \in Seq(T), NEW q \in Seq(T)
    PROVE  p \o Append(q, x) = Append(p \o q, x)
<1>1. p \o q \in Seq(T) /\ Len(p \o q) = Len(p) + Len(q)
  OBVIOUS
<1>2. /\ p \o Append(q, x) \in Seq(T) /\ Append(p \o q, x) \in Seq(T)
      /\ Len(p \o Append(q, x)) = Len(p) + Len(q) + 1 /\ Len(Append(p \o q, x)) = Len(p) + Len(q) + 1
  BY <1>1
<1>3. \A i \in 1 .. Len(p) + Len(q) + 1 : (p \o Append(q, x))[i] = Append(p \o q, x)[i]
  BY <1>1
<1> QED  BY <1>2, <1>3

----------------------------------------------------------------------------


KernelInv == KernelTypeOK /\ QueueInv /\ ReplyInv

----------------------------------------------------------------------------
(* What a system call does to the queues *)

(* u is queued after the step where it was before, or neither. *)
Undisturbed(u) ==
    /\ InQueue(u)' <=> InQueue(u)
    /\ InQueue(u) => Direction(u)' = Direction(u) /\ blocking'[u].ep = blocking[u].ep

QueueType == epState \in [Endpoints -> EPState] /\ epQueue \in [Endpoints -> Seq(Threads)]

(* A thread that blocks joins the queue of its endpoint. *)
LEMMA EnqueueStep ==
    ASSUME KernelTypeOK, QueueInv,
           NEW t \in Threads, NEW e \in Endpoints, NEW d \in {"Send", "Recv"},
           ~InQueue(t), epState[e] \in {"Idle", d}, Enqueue(t, e, d),
           InQueue(t)', Direction(t)' = d, blocking'[t].ep = e,
           \A u \in Threads \ {t} : Undisturbed(u)
    PROVE  QueueType' /\ QueueInv'
<1> DEFINE q == epQueue[e]
<1>1. /\ q \in Seq(Threads) /\ IsInjective(q) /\ t \notin Range(q)
      /\ epQueue' = [epQueue EXCEPT ![e] = Append(q, t)]
      /\ epState' = [epState EXCEPT ![e] = d]
  BY DEF KernelTypeOK, QueueInv, QueueMatchesState, QueuedOnce, Enqueue
<1>2. /\ Append(q, t) \in Seq(Threads) /\ Append(q, t) # <<>>
      /\ IsInjective(Append(q, t)) /\ Range(Append(q, t)) = Range(q) \cup {t}
  BY <1>1, EnqueueFacts
<1>3. QueueType'
  BY <1>1, <1>2 DEF QueueType, KernelTypeOK, EPState
<1>4. \A f \in Endpoints \ {e} : epQueue'[f] = epQueue[f] /\ epState'[f] = epState[f]
  BY <1>1 DEF KernelTypeOK
<1>5. epQueue'[e] = Append(q, t) /\ epState'[e] = d
  BY <1>1 DEF KernelTypeOK
<1>6. q = <<>> \/ \A u \in Range(q) : Direction(u) = d
  BY DEF KernelTypeOK, QueueInv, QueueMatchesState
<1>7. Range(q) \subseteq Threads /\ (q = <<>> <=> Range(q) = {})
  BY <1>1, QueueRange
<1> HIDE DEF q
<1>8. QueuedOnce'
  BY <1>2, <1>4, <1>5 DEF QueueInv, QueuedOnce
<1>9. ASSUME NEW f \in Endpoints
      PROVE  /\ epState'[f] = "Idle" <=> epQueue'[f] = <<>>
             /\ \A u \in Threads : u \in Range(epQueue'[f]) <=> InQueue(u)' /\ blocking'[u].ep = f
             /\ \A u \in Range(epQueue'[f]) : Direction(u)' = epState'[f]
  <2>1. CASE f = e
    <3>1. \A u \in Threads : u \in Range(q) <=> InQueue(u) /\ blocking[u].ep = e
      BY DEF q, QueueInv, QueueMatchesState
    <3>2. \A u \in Threads : u \in Range(Append(q, t)) <=> InQueue(u)' /\ blocking'[u].ep = e
      BY <1>2, <3>1 DEF Undisturbed
    <3>3. \A u \in Range(Append(q, t)) : Direction(u)' = d
      BY <1>1, <1>2, <1>6, <1>7, <3>1 DEF Undisturbed
    <3>4. d # "Idle" /\ Append(q, t) # <<>>
      BY <1>2
    <3> QED  BY ONLY <2>1, <1>5, <3>2, <3>3, <3>4
  <2>2. CASE f # e
    <3>1. /\ epState[f] = "Idle" <=> epQueue[f] = <<>>
          /\ \A u \in Threads : u \in Range(epQueue[f]) <=> InQueue(u) /\ blocking[u].ep = f
          /\ \A u \in Range(epQueue[f]) : Direction(u) = epState[f]
      BY DEF QueueInv, QueueMatchesState
    <3>2. Range(epQueue[f]) \subseteq Threads
      BY DEF KernelTypeOK, Range
    <3> QED  BY <2>2, <1>4, <3>1, <3>2 DEF Undisturbed
  <2> QED  BY <2>1, <2>2
<1>10. QueueMatchesState'
  BY <1>9 DEF QueueMatchesState
<1> QED  BY <1>3, <1>8, <1>10 DEF QueueInv

(* A thread that stops being blocked leaves the queue of its endpoint, whether
   it was at the head or anywhere in it; r is what is left of the queue. *)
LEMMA RemoveStep ==
    ASSUME KernelTypeOK, QueueInv,
           NEW t \in Threads, NEW e \in Endpoints, NEW r \in Seq(Threads),
           InQueue(t), blocking[t].ep = e, IsInjective(r),
           Range(r) = Range(epQueue[e]) \ {t},
           epQueue' = [epQueue EXCEPT ![e] = r],
           epState' = [epState EXCEPT ![e] = IF r = <<>> THEN "Idle" ELSE @],
           ~InQueue(t)',
           \A u \in Threads \ {t} : Undisturbed(u)
    PROVE  QueueType' /\ QueueInv'
<1>1. QueueType'
  BY DEF QueueType, KernelTypeOK, EPState
<1>2. QueuedOnce'
  BY DEF KernelTypeOK, QueueInv, QueuedOnce
<1>3. ASSUME NEW f \in Endpoints
      PROVE  /\ epState'[f] = "Idle" <=> epQueue'[f] = <<>>
             /\ \A u \in Threads : u \in Range(epQueue'[f]) <=> InQueue(u)' /\ blocking'[u].ep = f
             /\ \A u \in Range(epQueue'[f]) : Direction(u)' = epState'[f]
  <2>1. /\ epState[f] = "Idle" <=> epQueue[f] = <<>>
        /\ \A u \in Threads : u \in Range(epQueue[f]) <=> InQueue(u) /\ blocking[u].ep = f
        /\ \A u \in Range(epQueue[f]) : Direction(u) = epState[f]
    BY DEF QueueInv, QueueMatchesState
  <2>2. Range(epQueue[f]) \subseteq Threads /\ (epQueue[f] = <<>> <=> Range(epQueue[f]) = {})
    BY QueueRange DEF KernelTypeOK
  <2>3. CASE f = e
    <3>1. epQueue'[f] = r /\ epState'[f] = IF r = <<>> THEN "Idle" ELSE epState[f]
      BY <2>3 DEF KernelTypeOK
    <3>2. t \in Range(epQueue[f]) /\ epState[f] # "Idle"
      BY <2>1, <2>2, <2>3
    <3>3. \A u \in Threads : u \in Range(r) <=> InQueue(u)' /\ blocking'[u].ep = f
      BY <2>1, <2>3 DEF Undisturbed
    <3>4. \A u \in Range(r) : Direction(u)' = epState[f]
      BY <2>1, <2>2, <2>3 DEF Undisturbed
    <3>5. r = <<>> <=> Range(r) = {}
      BY QueueRange
    <3> QED  BY <3>1, <3>2, <3>3, <3>4, <3>5
  <2>4. CASE f # e
    <3>1. epQueue'[f] = epQueue[f] /\ epState'[f] = epState[f]
      BY <2>4 DEF KernelTypeOK
    <3>2. t \notin Range(epQueue[f])
      BY <2>1, <2>4
    <3> QED  BY <2>1, <2>2, <2>4, <3>1, <3>2 DEF Undisturbed
  <2> QED  BY <2>3, <2>4
<1>4. QueueMatchesState'
  BY <1>3 DEF QueueMatchesState
<1> QED  BY <1>1, <1>2, <1>4 DEF QueueInv

(* A step that touches no queue and no queued thread. *)
LEMMA QuietStep ==
    ASSUME KernelTypeOK, QueueInv, UNCHANGED <<epQueue, epState>>,
           \A u \in Threads : Undisturbed(u)
    PROVE  QueueType' /\ QueueInv'
<1>1. QueueType'
  BY DEF QueueType, KernelTypeOK
<1>2. QueuedOnce'
  BY DEF QueueInv, QueuedOnce
<1>3. \A e \in Endpoints : Range(epQueue[e]) \subseteq Threads
  BY DEF KernelTypeOK, Range
<1>4. QueueMatchesState'
  BY <1>3 DEF QueueInv, QueueMatchesState, Undisturbed
<1> QED  BY <1>1, <1>2, <1>4 DEF QueueInv

----------------------------------------------------------------------------
(* The system calls *)

LEMMA SendIPCStep ==
    ASSUME KernelInv, NEW t \in Threads, NEW e \in Endpoints, NEW m \in Msgs,
           NEW b \in BOOLEAN, NEW call \in BOOLEAN, NEW grant \in BOOLEAN,
           IsRunning(t), SendIPC(b, call, grant, t, e, m)
    PROVE  KernelInv'
<1> USE DEF KernelInv
<1>1. CASE epState[e] # "Recv" /\ b
  <2>1. /\ tcbState' = [tcbState EXCEPT ![t] = "BlockedOnSend"]
        /\ blocking' = [blocking EXCEPT ![t] = [ep |-> e, call |-> call, grant |-> grant]]
        /\ Enqueue(t, e, "Send")
        /\ mrs' = [mrs EXCEPT ![t] = m]
        /\ UNCHANGED <<callerSlot, savedSlot>>
    BY <1>1 DEF SendIPC
  <2>2. /\ tcbState' \in [Threads -> ThreadState]
        /\ blocking' \in [Threads -> Blocking]
        /\ callerSlot' \in [Threads -> MaybeThread] /\ savedSlot' \in [Threads -> MaybeThread]
        /\ mrs' \in [Threads -> MaybeMsg]
    BY <2>1 DEF KernelTypeOK, ThreadState, Blocking, MaybeMsg
  <2>3. ~InQueue(t) /\ InQueue(t)' /\ Direction(t)' = "Send" /\ blocking'[t].ep = e
    BY <2>1 DEF KernelTypeOK, IsRunning, InQueue, Direction
  <2>4. \A u \in Threads \ {t} : Undisturbed(u)
    BY <2>1 DEF KernelTypeOK, Undisturbed, InQueue, Direction
  <2>5. epState[e] \in {"Idle", "Send"}
    BY <1>1 DEF KernelTypeOK, EPState
  <2>6. QueueType' /\ QueueInv'
    BY <2>1, <2>3, <2>4, <2>5, EnqueueStep
  <2>7. ReplyInv'
    BY <2>1 DEF KernelTypeOK, ReplyInv, ReplyCapLive, ReplyCapUnique, CallerSlotFree, IsRunning
  <2> QED  BY <2>2, <2>6, <2>7 DEF KernelTypeOK, QueueType
<1>2. CASE epState[e] # "Recv" /\ ~b
  <2>1. UNCHANGED kernelVars
    BY <1>2 DEF SendIPC
  <2> QED  BY <2>1 DEF kernelVars, KernelTypeOK, QueueInv, QueueMatchesState, QueuedOnce, InQueue,
                       Direction, ReplyInv, ReplyCapLive, ReplyCapUnique, CallerSlotFree
<1>3. CASE epState[e] = "Recv"
  <2>1. epQueue[e] \in Seq(Threads) /\ epQueue[e] # <<>> /\ IsInjective(epQueue[e])
    BY <1>3 DEF KernelTypeOK, QueueInv, QueueMatchesState, QueuedOnce
  <2>2. PICK dest \in Threads : dest = Head(epQueue[e])
    BY <2>1, DequeueFacts
  <2>3. PICK r \in Seq(Threads) :
           /\ r = Tail(epQueue[e]) /\ IsInjective(r) /\ Range(r) = Range(epQueue[e]) \ {dest}
           /\ dest \in Range(epQueue[e])
    BY <2>1, <2>2, DequeueFacts
  <2>4. InQueue(dest) /\ blocking[dest].ep = e /\ Direction(dest) = "Recv"
    BY <1>3, <2>3 DEF QueueInv, QueueMatchesState
  <2>5. tcbState[dest] = "BlockedOnReceive" /\ dest # t
    BY <2>4 DEF InQueue, Direction, IsRunning
  <2>6. /\ epQueue' = [epQueue EXCEPT ![e] = r]
        /\ epState' = [epState EXCEPT ![e] = IF r = <<>> THEN "Idle" ELSE @]
        /\ tcbState' = [tcbState EXCEPT ![dest] = "Running",
              ![t] = IF ~call THEN "Running" ELSE IF grant THEN "BlockedOnReply" ELSE "Inactive"]
        /\ callerSlot' = IF call /\ grant THEN [callerSlot EXCEPT ![dest] = t] ELSE callerSlot
        /\ mrs' = [mrs EXCEPT ![dest] = m, ![t] = m]
        /\ UNCHANGED <<blocking, savedSlot>>
    BY <1>3, <2>2, <2>3 DEF SendIPC, DequeueHead
  <2>7. /\ tcbState'[dest] = "Running"
        /\ tcbState'[t] \in {"Running", "BlockedOnReply", "Inactive"}
        /\ call /\ grant => tcbState'[t] = "BlockedOnReply"
        /\ \A u \in Threads \ {t, dest} : tcbState'[u] = tcbState[u]
    BY <2>5, <2>6 DEF KernelTypeOK
  <2>8. QueueType' /\ QueueInv'
    <3>1. ~InQueue(dest)' /\ \A u \in Threads \ {dest} : Undisturbed(u)
      BY <2>6, <2>7 DEF Undisturbed, InQueue, Direction, IsRunning
    <3>2. KernelTypeOK /\ QueueInv
      OBVIOUS
    <3> QED  BY <2>3, <2>4, <2>6, <3>1, <3>2, RemoveStep
  <2>9. ReplyInv'
    <3>1. ReplyCapLive /\ ReplyCapUnique /\ CallerSlotFree
      BY DEF ReplyInv
    <3>2. \A u \in Threads : callerSlot[u] # t /\ savedSlot[u] # t
      BY <3>1 DEF ReplyCapLive, IsRunning
    <3>3. \A u \in Threads :
             /\ savedSlot'[u] = savedSlot[u]
             /\ callerSlot'[u] # callerSlot[u] =>
                   u = dest /\ callerSlot'[u] = t /\ tcbState'[t] = "BlockedOnReply"
      BY <2>6, <2>7 DEF KernelTypeOK
    <3>4. \A u \in Threads : tcbState[u] = "BlockedOnReply" => tcbState'[u] = "BlockedOnReply"
      BY <2>5, <2>7 DEF IsRunning
    <3>5. \A u \in Threads :
             tcbState'[u] = "BlockedOnReceive" => tcbState[u] = "BlockedOnReceive" /\ u # dest
      BY <2>7
    <3>6. ReplyCapLive'
      BY <3>1, <3>3, <3>4 DEF ReplyCapLive
    <3>7. ReplyCapUnique'
      BY <3>1, <3>2, <3>3 DEF ReplyCapUnique
    <3>8. CallerSlotFree'
      BY <3>1, <3>3, <3>5 DEF CallerSlotFree
    <3> QED  BY <3>6, <3>7, <3>8 DEF ReplyInv
  <2> QED
    <3>1. /\ tcbState' \in [Threads -> ThreadState]
          /\ blocking' \in [Threads -> Blocking]
          /\ callerSlot' \in [Threads -> MaybeThread] /\ savedSlot' \in [Threads -> MaybeThread]
          /\ mrs' \in [Threads -> MaybeMsg]
      BY <2>6 DEF KernelTypeOK, ThreadState, MaybeThread, MaybeMsg
    <3> QED  BY <2>8, <2>9, <3>1 DEF KernelTypeOK, QueueType
<1> QED  BY <1>1, <1>2, <1>3

(* Recv, with c = NoThread, and ReplyRecv, with c the caller answered first. *)
LEMMA HandleRecvStep ==
    ASSUME KernelInv, NEW t \in Threads, NEW e \in Endpoints, NEW m \in MaybeMsg,
           NEW c, c \in {NoThread, callerSlot[t]},
           IsRunning(t), HandleRecv(Resumed(c), Answered(c, m), t, e)
    PROVE  KernelInv'
<1> USE DEF KernelInv
<1>0. KernelTypeOK /\ QueueInv /\ ReplyCapLive /\ ReplyCapUnique /\ CallerSlotFree
  BY DEF ReplyInv
<1>1. PICK ts \in [Threads -> ThreadState] :
         /\ ts = Resumed(c)
         /\ \A u \in Threads : ts[u] = IF u = c THEN "Running" ELSE tcbState[u]
  <2>1. Resumed(c) \in [Threads -> ThreadState]
    BY DEF Resumed, KernelTypeOK, ThreadState
  <2>2. \A u \in Threads : Resumed(c)[u] = IF u = c THEN "Running" ELSE tcbState[u]
    BY KernelAssumption DEF Resumed, KernelTypeOK
  <2> QED  BY <2>1, <2>2
<1>2. PICK ms \in [Threads -> MaybeMsg] : ms = Answered(c, m)
  BY DEF Answered, KernelTypeOK
<1>3. c = NoThread \/ (c \in Threads /\ tcbState[c] = "BlockedOnReply")
  BY <1>0 DEF KernelTypeOK, MaybeThread, ReplyCapLive
<1>4. \A u \in Threads : InQueue(u) => u # c /\ u # t
  BY <1>3, KernelAssumption DEF InQueue, IsRunning
<1>5. \A u \in Threads \ {t} : callerSlot[u] = c \/ savedSlot[u] = c => c = NoThread
  BY <1>0, <1>3 DEF ReplyCapUnique
<1>6. savedSlot[t] # c \/ c = NoThread
  BY <1>0, <1>3 DEF ReplyCapUnique
<1>7. CASE epState[e] # "Send"
  <2>1. /\ tcbState' = [ts EXCEPT ![t] = "BlockedOnReceive"]
        /\ blocking' = [blocking EXCEPT ![t].ep = e]
        /\ Enqueue(t, e, "Recv")
        /\ callerSlot' = [callerSlot EXCEPT ![t] = NoThread]
        /\ mrs' = ms
        /\ UNCHANGED savedSlot
    BY <1>1, <1>2, <1>7 DEF HandleRecv
  <2>2. /\ tcbState' \in [Threads -> ThreadState]
        /\ callerSlot' \in [Threads -> MaybeThread] /\ savedSlot' \in [Threads -> MaybeThread]
        /\ mrs' \in [Threads -> MaybeMsg]
    BY <2>1, <1>2 DEF KernelTypeOK, ThreadState, MaybeThread
  <2>3. blocking' \in [Threads -> Blocking] /\ blocking'[t].ep = e
    BY <2>1 DEF KernelTypeOK, Blocking
  <2>4. ~InQueue(t) /\ InQueue(t)' /\ Direction(t)' = "Recv"
    BY <2>1 DEF IsRunning, InQueue, Direction
  <2>5. \A u \in Threads \ {t} : Undisturbed(u)
    BY <2>1, <1>1, <1>4 DEF KernelTypeOK, Undisturbed, InQueue, Direction
  <2>6. epState[e] \in {"Idle", "Recv"}
    BY <1>7 DEF KernelTypeOK, EPState
  <2>7. QueueType' /\ QueueInv'
    BY <1>0, <2>1, <2>3, <2>4, <2>5, <2>6, EnqueueStep
  <2>8. \A u \in Threads :
           /\ savedSlot'[u] = savedSlot[u]
           /\ callerSlot'[u] = IF u = t THEN NoThread ELSE callerSlot[u]
    BY <2>1 DEF KernelTypeOK
  <2>9. \A u \in Threads : tcbState'[u] = IF u = t THEN "BlockedOnReceive" ELSE ts[u]
    BY <2>1
  <2>10. ReplyCapLive'
    BY <1>0, <1>1, <1>3, <1>5, <1>6, <2>8, <2>9, KernelAssumption DEF ReplyCapLive, IsRunning
  <2>11. ReplyCapUnique'
    BY <1>0, <2>8, KernelAssumption DEF ReplyCapUnique
  <2>12. CallerSlotFree'
    BY <1>0, <1>1, <2>8, <2>9 DEF CallerSlotFree
  <2> QED  BY <2>2, <2>3, <2>7, <2>10, <2>11, <2>12 DEF KernelTypeOK, QueueType, ReplyInv
<1>8. CASE epState[e] = "Send"
  <2>1. epQueue[e] \in Seq(Threads) /\ epQueue[e] # <<>> /\ IsInjective(epQueue[e])
    BY <1>8 DEF KernelTypeOK, QueueInv, QueueMatchesState, QueuedOnce
  <2>2. PICK sender \in Threads : sender = Head(epQueue[e])
    BY <2>1, DequeueFacts
  <2>3. PICK r \in Seq(Threads) :
           /\ r = Tail(epQueue[e]) /\ IsInjective(r) /\ Range(r) = Range(epQueue[e]) \ {sender}
           /\ sender \in Range(epQueue[e])
    BY <2>1, <2>2, DequeueFacts
  <2>4. InQueue(sender) /\ blocking[sender].ep = e /\ Direction(sender) = "Send"
    BY <1>8, <2>3 DEF QueueInv, QueueMatchesState
  <2>5. tcbState[sender] = "BlockedOnSend" /\ sender # t /\ sender # c
    BY <1>4, <2>4 DEF InQueue, Direction
  <2>6. PICK calls \in BOOLEAN, grants \in BOOLEAN :
           calls = blocking[sender].call /\ grants = blocking[sender].grant
    BY DEF KernelTypeOK, Blocking
  <2>7. /\ epQueue' = [epQueue EXCEPT ![e] = r]
        /\ epState' = [epState EXCEPT ![e] = IF r = <<>> THEN "Idle" ELSE @]
        /\ tcbState' = [ts EXCEPT ![sender] =
              IF ~calls THEN "Running" ELSE IF grants THEN "BlockedOnReply" ELSE "Inactive"]
        /\ callerSlot' = [callerSlot EXCEPT ![t] = IF calls /\ grants THEN sender ELSE NoThread]
        /\ mrs' = [ms EXCEPT ![t] = mrs[sender]]
        /\ UNCHANGED <<blocking, savedSlot>>
    BY <1>1, <1>2, <1>8, <2>2, <2>3, <2>6 DEF HandleRecv, DequeueHead
  <2>8. /\ tcbState'[sender] \in {"Running", "BlockedOnReply", "Inactive"}
        /\ calls /\ grants => tcbState'[sender] = "BlockedOnReply"
        /\ \A u \in Threads \ {sender} : tcbState'[u] = ts[u]
    BY <2>7
  <2>9. QueueType' /\ QueueInv'
    <3>1. ~InQueue(sender)' /\ \A u \in Threads \ {sender} : Undisturbed(u)
      BY <1>1, <1>3, <1>4, <2>7, <2>8 DEF Undisturbed, InQueue, Direction
    <3> QED  BY <1>0, <2>3, <2>4, <2>7, <3>1, RemoveStep
  <2>10. /\ tcbState' \in [Threads -> ThreadState]
         /\ blocking' \in [Threads -> Blocking]
         /\ callerSlot' \in [Threads -> MaybeThread] /\ savedSlot' \in [Threads -> MaybeThread]
         /\ mrs' \in [Threads -> MaybeMsg]
    BY <2>7 DEF KernelTypeOK, ThreadState, MaybeThread
  <2>11. \A u \in Threads :
            /\ savedSlot'[u] = savedSlot[u]
            /\ u # t => callerSlot'[u] = callerSlot[u]
    BY <2>7 DEF KernelTypeOK
  <2>12. callerSlot'[t] = NoThread \/ (callerSlot'[t] = sender /\ tcbState'[sender] = "BlockedOnReply")
    BY <2>7, <2>8 DEF KernelTypeOK
  <2>13. \A u \in Threads : callerSlot[u] # sender /\ savedSlot[u] # sender
    BY <1>0, <2>5 DEF ReplyCapLive
  <2>14. ReplyCapLive'
    BY <1>0, <1>1, <1>3, <1>5, <1>6, <2>5, <2>8, <2>11, <2>12, <2>13, KernelAssumption DEF ReplyCapLive
  <2>15. ReplyCapUnique'
    BY <1>0, <2>11, <2>12, <2>13, KernelAssumption DEF ReplyCapUnique
  <2>16. CallerSlotFree'
    BY <1>0, <1>1, <2>8, <2>11 DEF CallerSlotFree, IsRunning
  <2> QED  BY <2>9, <2>10, <2>14, <2>15, <2>16 DEF KernelTypeOK, QueueType, ReplyInv
<1> QED  BY <1>7, <1>8

(* A reply that resumes c from the caller slot or the CNode slot of t. *)
LEMMA ReplyStep ==
    ASSUME KernelInv, NEW t \in Threads, NEW m \in MaybeMsg, NEW c \in MaybeThread,
           tcbState' = Resumed(c), mrs' = Answered(c, m),
           UNCHANGED <<blocking, epState, epQueue>>,
           \/ /\ c = callerSlot[t] /\ callerSlot' = [callerSlot EXCEPT ![t] = NoThread]
              /\ UNCHANGED savedSlot
           \/ /\ c = savedSlot[t] /\ savedSlot' = [savedSlot EXCEPT ![t] = NoThread]
              /\ UNCHANGED callerSlot
    PROVE  KernelInv'
<1> USE DEF KernelInv
<1>0. KernelTypeOK /\ QueueInv /\ ReplyCapLive /\ ReplyCapUnique /\ CallerSlotFree
  BY DEF ReplyInv
<1>1. \A u \in Threads : tcbState'[u] = IF u = c THEN "Running" ELSE tcbState[u]
  BY KernelAssumption DEF Resumed, KernelTypeOK
<1>2. /\ tcbState' \in [Threads -> ThreadState]
      /\ callerSlot' \in [Threads -> MaybeThread] /\ savedSlot' \in [Threads -> MaybeThread]
      /\ mrs' \in [Threads -> MaybeMsg]
  BY DEF KernelTypeOK, Resumed, Answered, ThreadState, MaybeThread
<1>3. c = NoThread \/ (c \in Threads /\ tcbState[c] = "BlockedOnReply")
  BY <1>0 DEF MaybeThread, ReplyCapLive
<1>4. \A u \in Threads : Undisturbed(u)
  BY <1>1, <1>3, KernelAssumption DEF Undisturbed, InQueue, Direction
<1>5. QueueType' /\ QueueInv'
  BY <1>0, <1>4, QuietStep
<1>6. \A u \in Threads :
         /\ callerSlot'[u] # NoThread => callerSlot'[u] = callerSlot[u] /\ callerSlot'[u] # c
         /\ savedSlot'[u] # NoThread => savedSlot'[u] = savedSlot[u] /\ savedSlot'[u] # c
         /\ callerSlot[u] = NoThread => callerSlot'[u] = NoThread
  BY <1>0, <1>3 DEF KernelTypeOK, ReplyCapUnique
<1>7. ReplyCapLive'
  BY <1>0, <1>1, <1>6, KernelAssumption DEF ReplyCapLive
<1>8. ReplyCapUnique'
  BY <1>0, <1>6, KernelAssumption DEF ReplyCapUnique
<1>9. CallerSlotFree'
  BY <1>0, <1>1, <1>6 DEF CallerSlotFree
<1> QED  BY <1>0, <1>2, <1>5, <1>7, <1>8, <1>9 DEF KernelTypeOK, QueueType, ReplyInv

(* cancelIPC, followed by the new state suspend or restart gives the thread. *)
LEMMA CancelIPCStep ==
    ASSUME KernelInv, NEW t \in Threads, NEW s \in {"Inactive", "Running"},
           CancelIPC(t), tcbState' = [tcbState EXCEPT ![t] = s]
    PROVE  KernelInv'
<1> USE DEF KernelInv
<1>0. KernelTypeOK /\ QueueInv /\ ReplyCapLive /\ ReplyCapUnique /\ CallerSlotFree
  BY DEF ReplyInv
<1>1. /\ \A u \in Threads \ {t} : tcbState'[u] = tcbState[u]
      /\ tcbState'[t] = s
      /\ UNCHANGED <<blocking, mrs>>
  BY DEF KernelTypeOK, CancelIPC
<1>2. /\ ~InQueue(t)'
      /\ \A u \in Threads \ {t} : Undisturbed(u)
  BY <1>1 DEF InQueue, Undisturbed, Direction
<1>3. QueueType' /\ QueueInv'
  <2>1. CASE InQueue(t)
    <3>1. PICK e \in Endpoints : e = blocking[t].ep
      BY DEF KernelTypeOK, Blocking
    <3>2. epQueue[e] \in Seq(Threads) /\ t \in Range(epQueue[e]) /\ IsInjective(epQueue[e])
      BY <2>1, <3>1 DEF KernelTypeOK, QueueInv, QueueMatchesState, QueuedOnce
    <3>3. PICK r \in Seq(Threads) :
             r = Unlink(epQueue[e], t) /\ IsInjective(r) /\ Range(r) = Range(epQueue[e]) \ {t}
      BY <3>2, UnlinkFacts
    <3>4. /\ epQueue' = [epQueue EXCEPT ![e] = r]
          /\ epState' = [epState EXCEPT ![e] = IF r = <<>> THEN "Idle" ELSE @]
      BY <2>1, <3>1, <3>3 DEF CancelIPC
    <3> QED  BY <1>0, <1>2, <2>1, <3>1, <3>3, <3>4, RemoveStep
  <2>2. CASE ~InQueue(t)
    <3>1. UNCHANGED <<epQueue, epState>>
      BY <2>2 DEF CancelIPC
    <3>2. Undisturbed(t)
      BY <1>2, <2>2 DEF Undisturbed
    <3> QED  BY <1>0, <1>2, <3>1, <3>2, QuietStep
  <2> QED  BY <2>1, <2>2
<1>4. \A u \in Threads :
         /\ callerSlot'[u] \in {callerSlot[u], NoThread}
         /\ savedSlot'[u] \in {savedSlot[u], NoThread}
         /\ tcbState[t] = "BlockedOnReply" => callerSlot'[u] # t /\ savedSlot'[u] # t
  BY KernelAssumption DEF CancelIPC, Cleared
<1>5. /\ tcbState' \in [Threads -> ThreadState]
      /\ callerSlot' \in [Threads -> MaybeThread] /\ savedSlot' \in [Threads -> MaybeThread]
  BY DEF KernelTypeOK, ThreadState, MaybeThread, CancelIPC, Cleared
<1>6. ReplyCapLive'
  BY <1>0, <1>1, <1>4, KernelAssumption DEF ReplyCapLive
<1>7. ReplyCapUnique'
  BY <1>0, <1>4, KernelAssumption DEF ReplyCapUnique
<1>8. CallerSlotFree'
  BY <1>0, <1>1, <1>4 DEF CallerSlotFree
<1> QED  BY <1>0, <1>1, <1>3, <1>5, <1>6, <1>7, <1>8 DEF KernelTypeOK, QueueType, ReplyInv

(* Every other system call changes capability slots only. *)
LEMMA SlotStep ==
    ASSUME KernelInv, NEW t \in Threads, UNCHANGED <<tcbState, blocking, epState, epQueue, mrs>>,
           \/ UNCHANGED <<callerSlot, savedSlot>>
           \/ /\ callerSlot' = [callerSlot EXCEPT ![t] = NoThread]
              /\ UNCHANGED savedSlot
           \/ /\ savedSlot[t] = NoThread
              /\ savedSlot' = [savedSlot EXCEPT ![t] = callerSlot[t]]
              /\ callerSlot' = [callerSlot EXCEPT ![t] = NoThread]
    PROVE  KernelInv'
<1> USE DEF KernelInv
<1>0. KernelTypeOK /\ QueueInv /\ ReplyCapLive /\ ReplyCapUnique /\ CallerSlotFree
  BY DEF ReplyInv
<1>1. QueueType' /\ QueueInv'
  <2>1. \A u \in Threads : Undisturbed(u)
    BY DEF Undisturbed, InQueue, Direction
  <2> QED  BY <1>0, <2>1, QuietStep
<1>2. /\ callerSlot' \in [Threads -> MaybeThread] /\ savedSlot' \in [Threads -> MaybeThread]
      /\ \A u \in Threads \ {t} : callerSlot'[u] = callerSlot[u] /\ savedSlot'[u] = savedSlot[u]
      /\ callerSlot'[t] # NoThread => callerSlot'[t] = callerSlot[t] /\ savedSlot'[t] = savedSlot[t]
      /\ savedSlot'[t] = savedSlot[t] \/ savedSlot'[t] = callerSlot[t]
      /\ callerSlot[t] = NoThread => callerSlot'[t] = NoThread
  BY DEF KernelTypeOK, MaybeThread
<1>3. ReplyCapLive'
  BY <1>0, <1>2, KernelAssumption DEF ReplyCapLive
<1>4. ReplyCapUnique'
  BY <1>0, <1>2, KernelAssumption DEF ReplyCapUnique
<1>5. CallerSlotFree'
  BY <1>0, <1>2 DEF CallerSlotFree
<1> QED  BY <1>0, <1>1, <1>2, <1>3, <1>4, <1>5 DEF KernelTypeOK, QueueType, ReplyInv

----------------------------------------------------------------------------
(* Initially nobody is queued and no slot holds a reply capability. *)
LEMMA KernelInitInv == KernelInit => KernelInv
<1> SUFFICES ASSUME KernelInit PROVE KernelInv
  OBVIOUS
<1>1. KernelTypeOK
  <2>1. (CHOOSE e \in Endpoints : TRUE) \in Endpoints
    BY KernelAssumption
  <2>2. blocking \in [Threads -> Blocking]
    BY <2>1 DEF KernelInit, Blocking
  <2> QED  BY <2>2 DEF KernelInit, KernelTypeOK, ThreadState, EPState, MaybeThread, MaybeMsg
<1>2. \A e \in Endpoints : epQueue[e] = <<>> /\ epState[e] = "Idle" /\ Range(epQueue[e]) = {}
  BY DEF KernelInit, Range
<1>3. \A t \in Threads : ~InQueue(t)
  BY DEF KernelInit, InQueue
<1>4. QueueInv
  BY <1>2, <1>3 DEF QueueInv, QueueMatchesState, QueuedOnce, IsInjective
<1>5. ReplyInv
  BY KernelAssumption DEF KernelInit, ReplyInv, ReplyCapLive, ReplyCapUnique, CallerSlotFree
<1> QED  BY <1>1, <1>4, <1>5 DEF KernelInv

(* Every step preserves the invariant. *)
LEMMA KernelNextInv == KernelInv /\ [KernelNext]_kernelVars => KernelInv'
<1> SUFFICES ASSUME KernelInv, [KernelNext]_kernelVars PROVE KernelInv'
  OBVIOUS
<1>1. CASE UNCHANGED kernelVars
  BY <1>1 DEF KernelInv, kernelVars, KernelTypeOK, QueueInv, QueueMatchesState, QueuedOnce, InQueue,
              Direction, ReplyInv, ReplyCapLive, ReplyCapUnique, CallerSlotFree
<1>2. ASSUME NEW t \in Threads, NEW e \in Endpoints, NEW m \in Msgs, NEW b \in BOOLEAN, Send(t, e, m, b)
      PROVE  KernelInv'
  BY <1>2, SendIPCStep DEF Send
<1>3. ASSUME NEW t \in Threads, NEW e \in Endpoints, NEW m \in Msgs, NEW g \in BOOLEAN, Call(t, e, m, g)
      PROVE  KernelInv'
  BY <1>3, SendIPCStep DEF Call
<1>4. ASSUME NEW t \in Threads, NEW e \in Endpoints, NEW m \in Msgs, ReplyRecv(t, e, m)
      PROVE  KernelInv'
  <2>1. PICK c : c = callerSlot[t]
    OBVIOUS
  <2>2. IsRunning(t) /\ HandleRecv(Resumed(c), Answered(c, m), t, e) /\ m \in MaybeMsg
    BY <1>4, <2>1 DEF ReplyRecv, MaybeMsg
  <2> QED  BY <2>1, <2>2, HandleRecvStep
<1>5. ASSUME NEW t \in Threads, NEW e \in Endpoints, Recv(t, e)
      PROVE  KernelInv'
  <2>1. HandleRecv(Resumed(NoThread), Answered(NoThread, NoMsg), t, e)
    BY <1>5 DEF Recv, Resumed, Answered
  <2> QED  BY <1>5, <2>1, HandleRecvStep DEF Recv, MaybeMsg
<1>6. ASSUME NEW t \in Threads, NEW e \in Endpoints, NBRecv(t, e)
      PROVE  KernelInv'
  <2>1. CASE epState[e] = "Send"
    <3>1. HandleRecv(Resumed(NoThread), Answered(NoThread, NoMsg), t, e)
      BY <1>6, <2>1 DEF NBRecv, Resumed, Answered
    <3> QED  BY <1>6, <3>1, HandleRecvStep DEF NBRecv, MaybeMsg
  <2>2. CASE epState[e] # "Send"
    BY <1>6, <2>2, SlotStep DEF NBRecv
  <2> QED  BY <2>1, <2>2
<1>7. ASSUME NEW t \in Threads, NEW m \in Msgs, Reply(t, m) \/ SendSaved(t, m)
      PROVE  KernelInv'
  BY <1>7, ReplyStep DEF Reply, SendSaved, KernelInv, KernelTypeOK, MaybeMsg
<1>8. ASSUME NEW t \in Threads, SaveCaller(t)
      PROVE  KernelInv'
  BY <1>8, SlotStep DEF SaveCaller, SaveCallerFails, kernelVars
<1>9. ASSUME NEW t \in Threads, Suspend(t) \/ Restart(t)
      PROVE  KernelInv'
  BY <1>9, CancelIPCStep DEF Suspend, Restart
<1> QED  BY <1>1, <1>2, <1>3, <1>4, <1>5, <1>6, <1>7, <1>8, <1>9 DEF KernelNext

(* The state of the kernel is well typed. *)
THEOREM KernelTypes == KernelSpec => []KernelTypeOK
<1>1. KernelInv => KernelTypeOK
  BY DEF KernelInv
<1> QED  BY <1>1, KernelInitInv, KernelNextInv, PTL DEF KernelSpec

(* A queue holds exactly the threads blocked on its endpoint, in one direction
   and each once. *)
THEOREM QueuesCorrect == KernelSpec => []QueueInv
<1>1. KernelInv => QueueInv
  BY DEF KernelInv
<1> QED  BY <1>1, KernelInitInv, KernelNextInv, PTL DEF KernelSpec

(* Reply capabilities are live and unique, and a receiver holds none: the
   assertions of doReplyTransfer and setupCallerCap never fail. *)
THEOREM ReplyAuthority == KernelSpec => []ReplyInv
<1>1. KernelInv => ReplyInv
  BY DEF KernelInv
<1> QED  BY <1>1, KernelInitInv, KernelNextInv, PTL DEF KernelSpec

----------------------------------------------------------------------------
(* Who is resumed, and by whom *)

(* The head of a queue is blocked on its endpoint. *)
LEMMA HeadBlocked ==
    ASSUME KernelInv, NEW e \in Endpoints, epState[e] # "Idle"
    PROVE  LET h == Head(epQueue[e])
           IN  h \in Threads /\ InQueue(h) /\ blocking[h].ep = e /\ Direction(h) = epState[e]
<1>1. epQueue[e] \in Seq(Threads) /\ epQueue[e] # <<>> /\ IsInjective(epQueue[e])
  BY DEF KernelInv, KernelTypeOK, QueueInv, QueueMatchesState, QueuedOnce
<1>2. Head(epQueue[e]) \in Threads /\ Head(epQueue[e]) \in Range(epQueue[e])
  BY <1>1, DequeueFacts
<1> QED  BY <1>2 DEF KernelInv, QueueInv, QueueMatchesState

(* A thread some running thread holds the reply capability of, once it runs. *)
LEMMA HolderResumes ==
    ASSUME KernelInv', NEW t \in Threads, IsRunning(t),
           NEW w \in Threads, IsRunning(w)', w \in {callerSlot[t], savedSlot[t]}
    PROVE  Resumption(w)
<1>1. \A u \in Threads : w \notin {callerSlot'[u], savedSlot'[u]}
  BY DEF KernelInv, ReplyInv, ReplyCapLive, IsRunning
<1> QED  BY <1>1 DEF Resumption

LEMMA SendIPCResumes ==
    ASSUME KernelInv, NEW t \in Threads, NEW e \in Endpoints, NEW m \in Msgs,
           NEW b \in BOOLEAN, NEW call \in BOOLEAN, NEW grant \in BOOLEAN,
           IsRunning(t), SendIPC(b, call, grant, t, e, m),
           NEW w \in Threads, ~IsRunning(w), IsRunning(w)'
    PROVE  Resumption(w)
<1>1. epState[e] = "Recv" /\ w = Head(epQueue[e])
  BY DEF SendIPC, IsRunning, KernelInv, KernelTypeOK, kernelVars
<1> QED  BY <1>1, HeadBlocked DEF Resumption

LEMMA HandleRecvResumes ==
    ASSUME KernelInv, KernelInv', NEW t \in Threads, NEW e \in Endpoints, NEW m \in MaybeMsg,
           NEW c, c \in {NoThread, callerSlot[t]},
           IsRunning(t), HandleRecv(Resumed(c), Answered(c, m), t, e),
           NEW w \in Threads, ~IsRunning(w), IsRunning(w)'
    PROVE  Resumption(w)
<1>1. CASE w = c
  <2>1. w \in {callerSlot[t], savedSlot[t]}
    BY <1>1, KernelAssumption
  <2> QED  BY <2>1, HolderResumes
<1>2. CASE w # c
  <2>1. Resumed(c)[w] = tcbState[w]
    BY <1>2 DEF Resumed, KernelInv, KernelTypeOK
  <2>2. w # t
    BY DEF IsRunning
  <2>3. epState[e] = "Send" /\ w = Head(epQueue[e])
    BY <2>1, <2>2 DEF HandleRecv, IsRunning, Resumed, KernelInv, KernelTypeOK
  <2> QED  BY <2>3, HeadBlocked DEF Resumption
<1> QED  BY <1>1, <1>2

LEMMA ReplyResumes ==
    ASSUME KernelInv, KernelInv', NEW t \in Threads, NEW c \in {callerSlot[t], savedSlot[t]},
           IsRunning(t), tcbState' = Resumed(c),
           NEW w \in Threads, ~IsRunning(w), IsRunning(w)'
    PROVE  Resumption(w)
<1>1. w = c
  BY DEF Resumed, IsRunning, KernelInv, KernelTypeOK
<1> QED  BY <1>1, HolderResumes

LEMMA NextResumes ==
    KernelInv /\ [KernelNext]_kernelVars => [ResumptionStep]_kernelVars
<1> SUFFICES ASSUME KernelInv, KernelNext, NEW w \in Threads, ~IsRunning(w), IsRunning(w)'
             PROVE  Resumption(w)
  BY DEF ResumptionStep
<1>1. KernelInv'
  BY KernelNextInv
<1>2. ASSUME NEW t \in Threads, NEW e \in Endpoints, NEW m \in Msgs, NEW b \in BOOLEAN,
             Send(t, e, m, b) \/ Call(t, e, m, b)
      PROVE  Resumption(w)
  BY <1>2, SendIPCResumes DEF Send, Call
<1>3. ASSUME NEW t \in Threads, NEW e \in Endpoints, NEW m \in Msgs, ReplyRecv(t, e, m)
      PROVE  Resumption(w)
  <2>1. PICK c : c = callerSlot[t]
    OBVIOUS
  <2>2. IsRunning(t) /\ HandleRecv(Resumed(c), Answered(c, m), t, e) /\ m \in MaybeMsg
    BY <1>3, <2>1 DEF ReplyRecv, MaybeMsg
  <2> QED  BY <1>1, <2>1, <2>2, HandleRecvResumes
<1>4. ASSUME NEW t \in Threads, NEW e \in Endpoints, IsRunning(t), HandleRecv(tcbState, mrs, t, e)
      PROVE  Resumption(w)
  <2>1. HandleRecv(Resumed(NoThread), Answered(NoThread, NoMsg), t, e)
    BY <1>4 DEF Resumed, Answered
  <2> QED  BY <1>1, <1>4, <2>1, HandleRecvResumes DEF MaybeMsg
<1>5. ASSUME NEW t \in Threads, NEW e \in Endpoints, Recv(t, e) \/ NBRecv(t, e)
      PROVE  Resumption(w)
  BY <1>4, <1>5 DEF Recv, NBRecv, IsRunning
<1>6. ASSUME NEW t \in Threads, NEW m \in Msgs, Reply(t, m) \/ SendSaved(t, m)
      PROVE  Resumption(w)
  BY <1>1, <1>6, ReplyResumes DEF Reply, SendSaved
<1>7. ASSUME NEW t \in Threads, SaveCaller(t)
      PROVE  Resumption(w)
  BY <1>7 DEF SaveCaller, kernelVars, IsRunning
<1>8. ASSUME NEW t \in Threads, Suspend(t) \/ Restart(t)
      PROVE  Resumption(w)
  BY <1>8 DEF Suspend, Restart, Resumption, IsRunning, KernelInv, KernelTypeOK
<1> QED  BY <1>2, <1>3, <1>5, <1>6, <1>7, <1>8 DEF KernelNext

(* A thread starts to run only at the head of its queue, by a restart, or by
   the one holder of its reply capability using it up. *)
THEOREM ResumptionCorrect == KernelSpec => ResumedRightly
BY KernelInitInv, KernelNextInv, NextResumes, PTL DEF KernelSpec, ResumedRightly

----------------------------------------------------------------------------
(* First come first served *)

(* A thread that joins at the tail has nobody behind it. *)
LEMMA AppendInOrder ==
    ASSUME NEW q \in Seq(Threads), NEW t \in Threads, t \notin Range(q)
    PROVE  InArrivalOrder(q, Append(q, t))
<1>1. /\ Len(q) \in Nat /\ DOMAIN q = 1 .. Len(q) /\ DOMAIN Append(q, t) = 1 .. Len(q) + 1
      /\ \A i \in 1 .. Len(q) : Append(q, t)[i] = q[i]
      /\ Append(q, t)[Len(q) + 1] = t
  OBVIOUS
<1>2. \A k \in DOMAIN q : q[k] # t
  BY DEF Range
<1> QED  BY <1>1, <1>2 DEF InArrivalOrder

(* The head leaves those behind it in order. *)
LEMMA TailInOrder ==
    ASSUME NEW q \in Seq(Threads), q # <<>>
    PROVE  InArrivalOrder(q, Tail(q))
<1>1. /\ Len(q) \in Nat \ {0} /\ DOMAIN q = 1 .. Len(q)
      /\ DOMAIN Tail(q) = 1 .. Len(q) - 1
      /\ \A i \in 1 .. Len(q) - 1 : Tail(q)[i] = q[i + 1]
  OBVIOUS
<1> SUFFICES ASSUME NEW i \in DOMAIN Tail(q), NEW j \in DOMAIN Tail(q), i < j
             PROVE  \E h, k \in DOMAIN q : h < k /\ q[h] = Tail(q)[i] /\ q[k] = Tail(q)[j]
  BY DEF InArrivalOrder
<1>2. i + 1 \in DOMAIN q /\ j + 1 \in DOMAIN q /\ i + 1 < j + 1
  BY <1>1
<1> QED  BY <1>1, <1>2

(* So does one from the middle. *)
LEMMA UnlinkInOrder ==
    ASSUME NEW q \in Seq(Threads), NEW t \in Range(q)
    PROVE  InArrivalOrder(q, Unlink(q, t))
<1> DEFINE n == CHOOSE i \in DOMAIN q : q[i] = t
           from(i) == IF i < n THEN i ELSE i + 1
<1>1. Len(q) \in Nat /\ DOMAIN q = 1 .. Len(q)
  OBVIOUS
<1>2. n \in DOMAIN q
  BY DEF Range
<1>3. Unlink(q, t) = [i \in 1 .. Len(q) - 1 |-> IF i < n THEN q[i] ELSE q[i + 1]]
  BY DEF Unlink
<1> HIDE DEF n
<1>4. ASSUME NEW i \in 1 .. Len(q) - 1
      PROVE  from(i) \in DOMAIN q /\ Unlink(q, t)[i] = q[from(i)]
  BY <1>1, <1>2, <1>3
<1>5. ASSUME NEW i \in 1 .. Len(q) - 1, NEW j \in 1 .. Len(q) - 1, i < j
      PROVE  from(i) < from(j)
  BY <1>1, <1>2, <1>5
<1>6. DOMAIN Unlink(q, t) = 1 .. Len(q) - 1
  BY <1>3
<1>7. ASSUME NEW i \in 1 .. Len(q) - 1, NEW j \in 1 .. Len(q) - 1, i < j
      PROVE  \E h, k \in DOMAIN q : h < k /\ q[h] = Unlink(q, t)[i] /\ q[k] = Unlink(q, t)[j]
  <2> HIDE DEF from
  <2>1. from(i) \in DOMAIN q /\ from(j) \in DOMAIN q /\ from(i) < from(j)
    BY <1>4, <1>5, <1>7
  <2>2. q[from(i)] = Unlink(q, t)[i] /\ q[from(j)] = Unlink(q, t)[j]
    BY <1>4
  <2> QED  BY <2>1, <2>2
<1>8. \A i, j \in DOMAIN Unlink(q, t) : i < j =>
         \E h, k \in DOMAIN q : h < k /\ q[h] = Unlink(q, t)[i] /\ q[k] = Unlink(q, t)[j]
  BY <1>6, <1>7
<1> QED  BY <1>8 DEF InArrivalOrder

(* A queue that does not change keeps its order. *)
LEMMA SameInOrder ==
    ASSUME NEW q PROVE InArrivalOrder(q, q)
BY DEF InArrivalOrder

LEMMA NextInOrder ==
    KernelInv /\ [KernelNext]_kernelVars => [ArrivalStep]_kernelVars
<1> SUFFICES ASSUME KernelInv, KernelNext, NEW f \in Endpoints
             PROVE  InArrivalOrder(epQueue[f], epQueue'[f])
  BY DEF ArrivalStep
<1>1. /\ epQueue \in [Endpoints -> Seq(Threads)]
      /\ \A e \in Endpoints : epState[e] # "Idle" => epQueue[e] # <<>>
      /\ \A t \in Threads : InQueue(t) =>
            blocking[t].ep \in Endpoints /\ t \in Range(epQueue[blocking[t].ep])
  BY DEF KernelInv, KernelTypeOK, QueueInv, QueueMatchesState, Blocking
<1>2. ASSUME NEW t \in Threads, IsRunning(t), NEW e \in Endpoints, NEW d, Enqueue(t, e, d)
      PROVE  InArrivalOrder(epQueue[f], epQueue'[f])
  <2>1. t \notin Range(epQueue[e])
    BY <1>2 DEF KernelInv, QueueInv, QueueMatchesState, InQueue, IsRunning
  <2> QED  BY <1>1, <1>2, <2>1, AppendInOrder, SameInOrder DEF Enqueue
<1>3. ASSUME NEW e \in Endpoints, epState[e] # "Idle", DequeueHead(e)
      PROVE  InArrivalOrder(epQueue[f], epQueue'[f])
  BY <1>1, <1>3, TailInOrder, SameInOrder DEF DequeueHead
<1>4. ASSUME UNCHANGED epQueue PROVE InArrivalOrder(epQueue[f], epQueue'[f])
  BY <1>4, SameInOrder
<1>5. ASSUME NEW t \in Threads, NEW e \in Endpoints, NEW m \in Msgs, NEW b \in BOOLEAN,
             Send(t, e, m, b) \/ Call(t, e, m, b)
      PROVE  InArrivalOrder(epQueue[f], epQueue'[f])
  BY <1>2, <1>3, <1>4, <1>5 DEF Send, Call, SendIPC, kernelVars
<1>6. ASSUME NEW t \in Threads, NEW e \in Endpoints, NEW ts, NEW ms,
             IsRunning(t), HandleRecv(ts, ms, t, e)
      PROVE  InArrivalOrder(epQueue[f], epQueue'[f])
  BY <1>2, <1>3, <1>6 DEF HandleRecv
<1>7. ASSUME NEW t \in Threads, NEW e \in Endpoints,
             Recv(t, e) \/ NBRecv(t, e) \/ \E m \in Msgs : ReplyRecv(t, e, m)
      PROVE  InArrivalOrder(epQueue[f], epQueue'[f])
  BY <1>4, <1>6, <1>7 DEF Recv, NBRecv, ReplyRecv
<1>8. ASSUME NEW t \in Threads, SaveCaller(t) \/ \E m \in Msgs : Reply(t, m) \/ SendSaved(t, m)
      PROVE  InArrivalOrder(epQueue[f], epQueue'[f])
  BY <1>4, <1>8 DEF SaveCaller, Reply, SendSaved, kernelVars
<1>9. ASSUME NEW t \in Threads, Suspend(t) \/ Restart(t)
      PROVE  InArrivalOrder(epQueue[f], epQueue'[f])
  <2>1. CASE InQueue(t)
    <3>1. PICK e \in Endpoints : e = blocking[t].ep /\ t \in Range(epQueue[e])
      BY <1>1, <2>1
    <3>2. epQueue' = [epQueue EXCEPT ![e] = Unlink(epQueue[e], t)]
      BY <1>9, <2>1, <3>1 DEF Suspend, Restart, CancelIPC
    <3> QED  BY <1>1, <3>1, <3>2, UnlinkInOrder, SameInOrder
  <2>2. CASE ~InQueue(t)
    BY <1>4, <1>9, <2>2 DEF Suspend, Restart, CancelIPC
  <2> QED  BY <2>1, <2>2
<1> QED  BY <1>5, <1>7, <1>8, <1>9 DEF KernelNext

(* Nobody overtakes a thread that stays in the queue of an endpoint, whatever
   is sent, received or cancelled meanwhile. *)
THEOREM ServedInOrder == KernelSpec => FirstComeFirstServed
BY KernelInitInv, KernelNextInv, NextInOrder, PTL DEF KernelSpec, FirstComeFirstServed
=============================================================================
