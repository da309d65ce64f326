-------------------------- MODULE Sel4Sched_proofs --------------------------
(***************************************************************************)
(* The scheduler's invariants hold for any threads, priorities, word width *)
(* and time slice.                                                         *)
(*                                                                         *)
(* The invariants are not inductive.  QueuesExact says nothing of bits of  *)
(* the bitmap beyond the last priority, which a search for the highest bit *)
(* would find (BitmapSound); HighestRuns says nothing of the time between  *)
(* a handler and schedule(), which consults the bitmap only when the       *)
(* candidate may be outranked (HandlerInv).  The lemmas on the kernel's    *)
(* functions hold of any scheduler state k, not only of ks, so that        *)
(* Sel4Kernel, which has a scheduler in it, can use them.                  *)
(***************************************************************************)
EXTENDS Sel4Sched, WellFoundedInduction, TLAPS

----------------------------------------------------------------------------
(* The ready queues, in which nobody is twice *)

(* Only the empty queue has no length. *)
LEMMA EmptyQueue ==
    ASSUME NEW T, NEW q \in Seq(T)
    PROVE  q = <<>> <=> Len(q) = 0
OBVIOUS

(* A queue holds threads, and is empty when nobody is in it. *)
LEMMA QueueRange ==
    ASSUME NEW T, NEW q \in Seq(T)
    PROVE  Range(q) \subseteq T /\ (q = <<>> <=> Range(q) = {})
<1>1. Len(q) \in Nat /\ DOMAIN q = 1 .. Len(q)
  OBVIOUS
<1>2. q = <<>> <=> Len(q) = 0
  BY EmptyQueue
<1>3. Len(q) = 0 <=> DOMAIN q = {}
  <2>1. Len(q) # 0 => 1 \in DOMAIN q
    BY <1>1
  <2>2. Len(q) = 0 => \A i : i \notin DOMAIN q
    BY <1>1
  <2> QED  BY <2>1, <2>2
<1>4. \A i \in DOMAIN q : q[i] \in T
  OBVIOUS
<1>5. Range(q) \subseteq T
  BY <1>4 DEF Range
<1> QED  BY <1>2, <1>3, <1>5 DEF Range

(* The head of a non-empty queue is in it. *)
LEMMA HeadQueued ==
    ASSUME NEW T, NEW q \in Seq(T), q # <<>>
    PROVE  Head(q) \in Range(q)
<1>1. Head(q) = q[1] /\ 1 \in DOMAIN q
  OBVIOUS
<1> QED  BY <1>1 DEF Range

(* Enqueuing adds the thread to the queue. *)
LEMMA EnqueueFacts ==
    ASSUME NEW T, NEW q \in Seq(T), NEW t \in T, t \notin Range(q), IsInjective(q)
    PROVE  /\ Append(q, t) \in Seq(T) /\ Append(q, t) # <<>>
           /\ IsInjective(Append(q, t))
           /\ Range(Append(q, t)) = Range(q) \cup {t}
<1>1. /\ Len(q) \in Nat /\ DOMAIN q = 1 .. Len(q)
      /\ Append(q, t) \in Seq(T) /\ DOMAIN Append(q, t) = 1 .. Len(q) + 1
      /\ \A i \in 1 .. Len(q) : Append(q, t)[i] = q[i]
      /\ Append(q, t)[Len(q) + 1] = t
  OBVIOUS
<1>2. IsInjective(Append(q, t))
  BY <1>1 DEF IsInjective, Range
<1>3. Range(Append(q, t)) = Range(q) \cup {t}
  <2>1. ASSUME NEW x \in Range(Append(q, t)), x # t PROVE x \in Range(q)
    BY <1>1, <2>1 DEF Range
  <2>2. ASSUME NEW x \in Range(q) PROVE x \in Range(Append(q, t))
    <3>1. PICK i \in DOMAIN q : x = q[i]
      BY DEF Range
    <3> QED  BY <3>1, <1>1 DEF Range
  <2>3. t \in Range(Append(q, t))
    BY <1>1 DEF Range
  <2> QED  BY <2>1, <2>2, <2>3
<1>4. Append(q, t) # <<>>
  BY <1>1
<1> QED  BY <1>1, <1>2, <1>3, <1>4

(* So does putting it in front. *)
LEMMA PrependFacts ==
    ASSUME NEW T, NEW q \in Seq(T), NEW t \in T, t \notin Range(q), IsInjective(q)
    PROVE  /\ <<t>> \o q \in Seq(T) /\ <<t>> \o q # <<>>
           /\ IsInjective(<<t>> \o q)
           /\ Range(<<t>> \o q) = Range(q) \cup {t}
<1> DEFINE r == <<t>> \o q
<1>1. /\ Len(q) \in Nat /\ DOMAIN q = 1 .. Len(q)
      /\ r \in Seq(T) /\ Len(r) = Len(q) + 1 /\ DOMAIN r = 1 .. Len(q) + 1
      /\ r[1] = t
      /\ \A i \in 1 .. Len(q) : r[i + 1] = q[i]
  OBVIOUS
<1>2. \A i \in DOMAIN r : i # 1 => i - 1 \in DOMAIN q /\ r[i] = q[i - 1]
  BY <1>1
<1> HIDE DEF r
<1>3. IsInjective(r)
  <2> SUFFICES ASSUME NEW i \in DOMAIN r, NEW j \in DOMAIN r, r[i] = r[j]
               PROVE  i = j
    BY DEF IsInjective
  <2>1. CASE i = 1 \/ j = 1
    BY <2>1, <1>1, <1>2 DEF Range
  <2>2. CASE i # 1 /\ j # 1
    <3>1. i - 1 = j - 1
      BY <2>2, <1>2 DEF IsInjective
    <3> QED  BY <3>1, <1>1
  <2> QED  BY <2>1, <2>2
<1>4. Range(r) = Range(q) \cup {t}
  <2>1. ASSUME NEW x \in Range(r), x # t PROVE x \in Range(q)
    BY <1>1, <1>2, <2>1 DEF Range
  <2>2. ASSUME NEW x \in Range(q) PROVE x \in Range(r)
    <3>1. PICK i \in DOMAIN q : x = q[i]
      BY DEF Range
    <3>2. i + 1 \in DOMAIN r /\ r[i + 1] = x
      BY <3>1, <1>1
    <3> QED  BY <3>2 DEF Range
  <2>3. t \in Range(r)
    BY <1>1 DEF Range
  <2> QED  BY <2>1, <2>2, <2>3
<1>5. r # <<>>
  BY <1>1
<1> QED  BY <1>1, <1>3, <1>4, <1>5 DEF r

(* Unlinking a queued thread removes it only. *)
LEMMA UnlinkFacts ==
    ASSUME NEW T, NEW q \in Seq(T), NEW t \in Range(q), IsInjective(q)
    PROVE  /\ Unlink(q, t) \in Seq(T) /\ IsInjective(Unlink(q, t))
           /\ Range(Unlink(q, t)) = Range(q) \ {t}
           /\ Unlink(q, t) = <<>> <=> Range(Unlink(q, t)) = {}
<1> DEFINE k == CHOOSE i \in DOMAIN q : q[i] = t
           r == [i \in 1 .. Len(q) - 1 |-> IF i < k THEN q[i] ELSE q[i + 1]]
<1>1. /\ Len(q) \in Nat /\ DOMAIN q = 1 .. Len(q)
      /\ \A i \in DOMAIN q : q[i] \in T
  OBVIOUS
<1>2. k \in DOMAIN q /\ q[k] = t
  BY DEF Range
<1>3. Unlink(q, t) = r
  BY DEF Unlink
<1> HIDE DEF k
<1>4. /\ Len(q) - 1 \in Nat /\ DOMAIN r = 1 .. Len(q) - 1
      /\ \A i \in DOMAIN r : r[i] = IF i < k THEN q[i] ELSE q[i + 1]
  BY <1>1, <1>2
<1>5. \A i \in DOMAIN r : r[i] \in T
  BY <1>1, <1>2, <1>4
<1>6. r \in Seq(T) /\ Len(r) = Len(q) - 1
  <2> SUFFICES r \in [1 .. Len(q) - 1 -> T]
    BY <1>4
  <2> QED  BY <1>4, <1>5
<1> HIDE DEF r
<1>7. IsInjective(r)
  <2> SUFFICES ASSUME NEW i \in DOMAIN r, NEW j \in DOMAIN r, r[i] = r[j]
               PROVE  i = j
    BY DEF IsInjective
  <2>1. /\ i \in DOMAIN q /\ i + 1 \in DOMAIN q /\ j \in DOMAIN q /\ j + 1 \in DOMAIN q
        /\ k \in Nat
    BY <1>1, <1>2, <1>4
  <2> QED  BY <2>1, <1>1, <1>4 DEF IsInjective
<1>8. Range(r) = Range(q) \ {t}
  <2>1. ASSUME NEW x \in Range(r) PROVE x \in Range(q) \ {t}
    <3>1. PICK i \in DOMAIN r : x = r[i]
      BY DEF Range
    <3>2. PICK j \in DOMAIN q : j # k /\ x = q[j]
      BY <3>1, <1>1, <1>2, <1>4
    <3> QED  BY <3>2, <1>2 DEF Range, IsInjective
  <2>2. ASSUME NEW x \in Range(q), x # t PROVE x \in Range(r)
    <3>1. PICK j \in DOMAIN q : x = q[j]
      BY DEF Range
    <3>2. j # k
      BY <3>1, <2>2, <1>2
    <3>3. CASE j < k
      <4>1. j \in DOMAIN r /\ r[j] = x
        BY <3>1, <3>3, <1>1, <1>2, <1>4
      <4> QED  BY <4>1 DEF Range
    <3>4. CASE j > k
      <4>1. j - 1 \in DOMAIN r /\ r[j - 1] = x
        BY <3>1, <3>4, <1>1, <1>2, <1>4
      <4> QED  BY <4>1 DEF Range
    <3> QED  BY <3>2, <3>3, <3>4, <1>1, <1>2
  <2> QED  BY <2>1, <2>2
<1>9. r = <<>> <=> Range(r) = {}
  BY <1>6, QueueRange
<1> QED  BY <1>3, <1>6, <1>7, <1>8, <1>9


----------------------------------------------------------------------------
(* The bitmap *)

(* A priority is a word and a bit of it. *)
LEMMA BitOfPriority ==
    ASSUME NEW p \in Prios
    PROVE  /\ l1index(p) \in Words /\ p % WordBits \in Bits
           /\ p = l1index(p) * WordBits + (p % WordBits)
<1> DEFINE w == p \div WordBits
<1>1. p \in Nat /\ p <= NumPrios - 1 /\ NumPrios \in Nat /\ WordBits \in Nat \ {0}
  BY SchedAssumption DEF Prios
<1>2. w \in Nat /\ p % WordBits \in Bits /\ p = w * WordBits + (p % WordBits)
  BY <1>1 DEF Bits
<1>3. NumWords \in Nat /\ NumPrios - 1 < NumWords * WordBits
  <2> DEFINE n == NumPrios + WordBits - 1
  <2>1. n \in Nat
    BY <1>1
  <2>2. n \div WordBits \in Nat /\ n < (n \div WordBits) * WordBits + WordBits
    BY <1>1, <2>1
  <2> QED  BY <1>1, <2>1, <2>2 DEF NumWords
<1> HIDE DEF w
<1>4. w * WordBits < NumWords * WordBits
  BY <1>1, <1>2, <1>3
<1>5. NumWords <= w => NumWords * WordBits <= w * WordBits
  BY <1>1, <1>2, <1>3
<1> QED  BY <1>1, <1>2, <1>3, <1>4, <1>5 DEF l1index, w, Words

(* A word and a bit are one priority, and a higher word wins. *)
LEMMA PriorityOfBit ==
    ASSUME NEW w \in Nat, NEW b \in Bits
    PROVE  /\ l1index(w * WordBits + b) = w /\ (w * WordBits + b) % WordBits = b
           /\ \A v \in Nat, c \in Bits :
                 v < w \/ (v = w /\ c <= b) => v * WordBits + c <= w * WordBits + b
<1>1. WordBits \in Nat \ {0} /\ w * WordBits \in Nat /\ b \in Nat
  BY SchedAssumption DEF Bits
<1>2. l1index(w * WordBits + b) = w /\ (w * WordBits + b) % WordBits = b
  BY <1>1 DEF l1index, Bits
<1>3. ASSUME NEW v \in Nat, NEW c \in Bits, v < w
      PROVE  v * WordBits + c <= w * WordBits + b
  <2>1. (v + 1) * WordBits <= w * WordBits
    BY <1>1, <1>3
  <2>2. (v + 1) * WordBits = v * WordBits + WordBits
    BY <1>1
  <2> QED  BY <1>1, <2>1, <2>2 DEF Bits
<1> QED  BY <1>1, <1>2, <1>3 DEF Bits

(* The words of the second level are stored in reverse, each once. *)
LEMMA InvertWord ==
    /\ NumWords \in Nat
    /\ \A w \in Words : /\ invert_l1index(w) \in Words
                                    /\ invert_l1index(invert_l1index(w)) = w
    /\ \A v, w \in Words : invert_l1index(v) = invert_l1index(w) => v = w
<1>1. NumWords \in Nat
  BY SchedAssumption DEF NumWords
<1> QED  BY <1>1 DEF invert_l1index, Words

(* The highest bit of a word is its maximum. *)
LEMMA HighestBitIsMax ==
    ASSUME NEW n \in Nat, NEW S \in SUBSET (0 .. n), S # {}
    PROVE  HighestBit(S) \in S /\ \A j \in S : j <= HighestBit(S)
<1> DEFINE T == {n - i : i \in S}
<1>1. T \subseteq Nat /\ T # {}
  <2>1. \A i \in S : n - i \in Nat
    OBVIOUS
  <2> QED  BY <2>1
<1> HIDE DEF T
<1>2. PICK m \in T : \A j \in T : ~(<<j, m>> \in OpToRel(<, Nat))
  BY <1>1, WFMin, NatLessThanWellFounded
<1>3. \A j \in T : ~(j < m)
  BY <1>1, <1>2 DEF OpToRel
<1>4. n - m \in S /\ \A j \in S : j <= n - m
  <2>1. PICK i \in S : m = n - i
    BY DEF T
  <2>2. \A j \in S : n - j \in T
    BY DEF T
  <2> QED  BY <1>3, <2>1, <2>2
<1> QED  BY <1>4 DEF HighestBit

Marked(k, p) == p % WordBits \in k.l2[invert_l1index(l1index(p))]

(* The two levels agree, and every bit is a priority's. *)
BitmapSound(k) ==
    \A w \in Words :
        /\ w \in k.l1 <=> k.l2[invert_l1index(w)] # {}
        /\ \A b \in k.l2[invert_l1index(w)] : w * WordBits + b \in Prios

(* The threads are as before: only queues and bitmap may differ. *)
SameThreads(k, r) ==
    /\ r.runnable = k.runnable /\ r.prio = k.prio /\ r.slice = k.slice
    /\ r.action = k.action /\ r.cur = k.cur

(* Two priorities share a word and a bit only if they are the same. *)
LEMMA MarkedApart ==
    ASSUME NEW p \in Prios, NEW o \in Prios,
           invert_l1index(l1index(o)) = invert_l1index(l1index(p)), o % WordBits = p % WordBits
    PROVE  o = p
<1>1. l1index(o) = l1index(p)
  BY BitOfPriority, InvertWord
<1>2. /\ p = l1index(p) * WordBits + (p % WordBits)
      /\ o = l1index(o) * WordBits + (o % WordBits)
  BY BitOfPriority
<1> QED  BY <1>1, <1>2

(* addToBitmap marks one priority. *)
LEMMA AddToBitmapStep ==
    ASSUME NEW k \in SchedState, BitmapSound(k), NEW p \in Prios
    PROVE  LET r == AddToBitmap(k, p)
           IN  /\ r \in SchedState /\ BitmapSound(r) /\ SameThreads(k, r)
               /\ r.queued = k.queued /\ r.ready = k.ready
               /\ \A o \in Prios : Marked(r, o) <=> o = p \/ Marked(k, o)
<1> DEFINE r == AddToBitmap(k, p)
           w == l1index(p)
           b == p % WordBits
           i == invert_l1index(w)
<1>1. /\ w \in Words /\ i \in Words /\ b \in Bits
      /\ p = w * WordBits + b
  BY BitOfPriority, InvertWord
<1>2. /\ k.l1 \in SUBSET Words
      /\ k.l2 \in [Words -> SUBSET Bits]
      /\ r = [k EXCEPT !.l1 = @ \cup {w}, !.l2[i] = @ \cup {b}]
  BY DEF SchedState, AddToBitmap
<1>3. /\ r.l1 = k.l1 \cup {w} /\ r.l2 = [k.l2 EXCEPT ![i] = @ \cup {b}]
      /\ SameThreads(k, r) /\ r.queued = k.queued /\ r.ready = k.ready
  BY <1>2 DEF SchedState, SameThreads
<1> HIDE DEF w, b, i, r
<1>4. r.l1 \in SUBSET Words /\ r.l2 \in [Words -> SUBSET Bits]
  BY <1>1, <1>2, <1>3
<1>5. r \in SchedState
  BY <1>2, <1>4 DEF SchedState
<1>6. BitmapSound(r)
  <2> SUFFICES ASSUME NEW v \in Words
               PROVE  /\ v \in r.l1 <=> r.l2[invert_l1index(v)] # {}
                      /\ \A c \in r.l2[invert_l1index(v)] : v * WordBits + c \in Prios
    BY DEF BitmapSound
  <2>1. invert_l1index(v) \in Words /\ (invert_l1index(v) = i => v = w)
    BY <1>1, InvertWord DEF i
  <2>2. CASE v = w
    <3>1. r.l2[invert_l1index(v)] = k.l2[invert_l1index(v)] \cup {b}
      BY <2>1, <2>2, <1>1, <1>2, <1>3 DEF i
    <3> QED  BY <2>2, <3>1, <1>1, <1>3 DEF BitmapSound
  <2>3. CASE v # w
    <3>1. r.l2[invert_l1index(v)] = k.l2[invert_l1index(v)]
      BY <2>1, <2>3, <1>1, <1>2, <1>3
    <3> QED  BY <2>3, <3>1, <1>3 DEF BitmapSound
  <2> QED  BY <2>2, <2>3
<1>7. ASSUME NEW o \in Prios PROVE Marked(r, o) <=> o = p \/ Marked(k, o)
  <2>1. invert_l1index(l1index(o)) \in Words
    BY BitOfPriority, InvertWord
  <2>2. invert_l1index(l1index(o)) = i /\ o % WordBits = b => o = p
    BY MarkedApart DEF i, w, b
  <2>3. r.l2[invert_l1index(l1index(o))] = IF invert_l1index(l1index(o)) = i
            THEN k.l2[invert_l1index(l1index(o))] \cup {b} ELSE k.l2[invert_l1index(l1index(o))]
    BY ZenonT(60), <2>1, <1>1, <1>2, <1>3
  <2> QED  BY <2>2, <2>3 DEF Marked, i, w, b
<1> QED  BY <1>3, <1>5, <1>6, <1>7 DEF r

(* removeFromBitmap unmarks one. *)
LEMMA RemoveFromBitmapStep ==
    ASSUME NEW k \in SchedState, BitmapSound(k), NEW p \in Prios
    PROVE  LET r == RemoveFromBitmap(k, p)
           IN  /\ r \in SchedState /\ BitmapSound(r) /\ SameThreads(k, r)
               /\ r.queued = k.queued /\ r.ready = k.ready
               /\ \A o \in Prios : Marked(r, o) <=> o # p /\ Marked(k, o)
<1> DEFINE r == RemoveFromBitmap(k, p)
           w == l1index(p)
           b == p % WordBits
           i == invert_l1index(w)
           rest == k.l2[i] \ {b}
<1>1. w \in Words /\ i \in Words /\ b \in Bits
  BY BitOfPriority, InvertWord
<1>2. /\ k.l1 \in SUBSET Words /\ k.l2 \in [Words -> SUBSET Bits]
      /\ r = [k EXCEPT !.l2[i] = rest, !.l1 = IF rest = {} THEN @ \ {w} ELSE @]
  BY DEF SchedState, RemoveFromBitmap
<1> HIDE DEF w, b, i, r, rest
<1>3. /\ r.l1 = (IF rest = {} THEN k.l1 \ {w} ELSE k.l1) /\ r.l2 = [k.l2 EXCEPT ![i] = rest]
      /\ SameThreads(k, r) /\ r.queued = k.queued /\ r.ready = k.ready
  BY <1>2 DEF SchedState, SameThreads
<1>4. r.l1 \in SUBSET Words /\ r.l2 \in [Words -> SUBSET Bits]
  BY <1>1, <1>2, <1>3 DEF rest
<1>5. r \in SchedState
  BY <1>2, <1>4 DEF SchedState
<1>6. BitmapSound(r)
  <2> SUFFICES ASSUME NEW v \in Words
               PROVE  /\ v \in r.l1 <=> r.l2[invert_l1index(v)] # {}
                      /\ \A c \in r.l2[invert_l1index(v)] : v * WordBits + c \in Prios
    BY DEF BitmapSound
  <2>1. invert_l1index(v) \in Words /\ (invert_l1index(v) = i => v = w)
    BY <1>1, InvertWord DEF i
  <2>2. CASE v = w
    <3>1. r.l2[invert_l1index(v)] = rest /\ rest \subseteq k.l2[invert_l1index(v)]
      BY <2>1, <2>2, <1>1, <1>2, <1>3 DEF i, rest
    <3> QED  BY <2>2, <3>1, <1>1, <1>3 DEF BitmapSound
  <2>3. CASE v # w
    <3>1. r.l2[invert_l1index(v)] = k.l2[invert_l1index(v)]
      BY <2>1, <2>3, <1>1, <1>2, <1>3
    <3> QED  BY <2>3, <3>1, <1>3 DEF BitmapSound
  <2> QED  BY <2>2, <2>3
<1>7. ASSUME NEW o \in Prios PROVE Marked(r, o) <=> o # p /\ Marked(k, o)
  <2>1. invert_l1index(l1index(o)) \in Words
    BY BitOfPriority, InvertWord
  <2>2. invert_l1index(l1index(o)) = i /\ o % WordBits = b => o = p
    BY MarkedApart DEF i, w, b
  <2>3. r.l2[invert_l1index(l1index(o))] = IF invert_l1index(l1index(o)) = i
            THEN k.l2[invert_l1index(l1index(o))] \ {b} ELSE k.l2[invert_l1index(l1index(o))]
    BY ZenonT(60), <2>1, <1>1, <1>2, <1>3 DEF rest
  <2> QED  BY <2>2, <2>3 DEF Marked, i, w, b
<1> QED  BY <1>3, <1>5, <1>6, <1>7 DEF r
----------------------------------------------------------------------------
(* The ready queues *)

ReadyOK(k) ==
    /\ k \in SchedState /\ QueuesMatch(k) /\ BitmapSound(k)
    /\ \A p \in Prios : k.ready[p] # <<>> <=> Marked(k, p)

(* r is k with the flagged threads Q. *)
Requeued(k, r, Q) == ReadyOK(r) /\ SameThreads(k, r) /\ r.queued = Q

(* A queue of a priority that gains or loses a thread, and its bit with it. *)
LEMMA QueueStep ==
    ASSUME NEW k, ReadyOK(k), NEW p \in Prios, NEW m \in SchedState,
           BitmapSound(m), SameThreads(k, m), m.queued = k.queued, m.ready = k.ready,
           NEW q \in Seq(Threads), IsInjective(q), NEW Q \in SUBSET Threads,
           Range(q) = {t \in Q : k.prio[t] = p},
           \A t \in Threads : k.prio[t] # p => (t \in Q <=> t \in k.queued),
           \A o \in Prios : Marked(m, o) <=> IF o = p THEN q # <<>> ELSE Marked(k, o)
    PROVE  Requeued(k, [m EXCEPT !.ready[p] = q, !.queued = Q], Q)
<1> DEFINE r == [m EXCEPT !.ready[p] = q, !.queued = Q]
<1>1. /\ k \in SchedState /\ QueuesMatch(k)
      /\ \A o \in Prios : k.ready[o] # <<>> <=> Marked(k, o)
  BY DEF ReadyOK
<1>2. /\ m.ready \in [Prios -> Seq(Threads)] /\ r.ready = [m.ready EXCEPT ![p] = q]
      /\ r.queued = Q /\ SameThreads(m, r) /\ r.l1 = m.l1 /\ r.l2 = m.l2
  BY DEF SchedState, SameThreads
<1>3. r.ready \in [Prios -> Seq(Threads)]
  BY <1>2
<1>4. r \in SchedState
  BY <1>2, <1>3 DEF SchedState
<1> HIDE DEF r
<1>5. SameThreads(k, r)
  BY <1>2 DEF SameThreads
<1>6. QueuesMatch(r)
  <2> SUFFICES ASSUME NEW o \in Prios
               PROVE  /\ Range(r.ready[o]) = {t \in r.queued : r.prio[t] = o}
                      /\ IsInjective(r.ready[o])
    BY DEF QueuesMatch
  <2>1. CASE o = p
    BY <2>1, <1>2, <1>5 DEF SameThreads
  <2>2. CASE o # p
    <3>1. r.ready[o] = k.ready[o] /\ r.prio = k.prio
      BY <2>2, <1>2, <1>5 DEF SameThreads
    <3>2. {t \in Q : k.prio[t] = o} = {t \in k.queued : k.prio[t] = o}
      BY <2>2, <1>1 DEF SchedState
    <3> QED  BY <3>1, <3>2, <1>1, <1>2 DEF QueuesMatch
  <2> QED  BY <2>1, <2>2
<1>7. BitmapSound(r)
  BY <1>2 DEF BitmapSound
<1>8. \A o \in Prios : r.ready[o] # <<>> <=> Marked(r, o)
  BY <1>1, <1>2 DEF Marked
<1> QED  BY <1>2, <1>4, <1>5, <1>6, <1>7, <1>8 DEF Requeued, ReadyOK, r

(* tcbSchedEnqueue and tcbSchedAppend queue a thread at its priority. *)
LEMMA EnqueueStep ==
    ASSUME NEW k, ReadyOK(k), NEW t \in Threads,
           NEW r \in {tcbSchedEnqueue(k, t), tcbSchedAppend(k, t)}
    PROVE  Requeued(k, r, k.queued \cup {t})
<1>1. CASE t \in k.queued
  BY <1>1 DEF tcbSchedEnqueue, tcbSchedAppend, Requeued, SameThreads
<1>2. CASE t \notin k.queued
  <2> DEFINE p == k.prio[t]
             old == k.ready[p]
             m == IF old = <<>> THEN AddToBitmap(k, p) ELSE k
  <2>1. /\ k \in SchedState /\ p \in Prios /\ old \in Seq(Threads) /\ IsInjective(old)
        /\ Range(old) = {u \in k.queued : k.prio[u] = p} /\ k.queued \in SUBSET Threads
    BY DEF ReadyOK, SchedState, QueuesMatch
  <2>2. PICK q \in {<<t>> \o old, Append(old, t)} :
            r = [m EXCEPT !.ready[p] = q, !.queued = @ \cup {t}]
    BY <1>2 DEF tcbSchedEnqueue, tcbSchedAppend, PutInQueue
  <2>3. /\ q \in Seq(Threads) /\ q # <<>> /\ IsInjective(q)
        /\ Range(q) = Range(old) \cup {t}
    <3> HIDE DEF old
    <3>1. t \notin Range(old) /\ q \in {<<t>> \o old, Append(old, t)}
      BY <1>2, <2>1
    <3>2. CASE q = <<t>> \o old
      BY <3>1, <3>2, <2>1, PrependFacts
    <3>3. CASE q = Append(old, t)
      BY <3>1, <3>3, <2>1, EnqueueFacts
    <3> QED  BY <3>1, <3>2, <3>3
  <2>4. /\ m \in SchedState /\ BitmapSound(m) /\ SameThreads(k, m)
        /\ m.queued = k.queued /\ m.ready = k.ready
        /\ \A o \in Prios : Marked(m, o) <=> o = p \/ Marked(k, o)
    BY ZenonT(60), <2>1, AddToBitmapStep DEF ReadyOK, SameThreads
  <2>5. r = [m EXCEPT !.ready[p] = q, !.queued = k.queued \cup {t}]
    BY <2>2, <2>4
  <2> HIDE DEF m, old
  <2>6. k.queued \cup {t} \in SUBSET Threads
    BY <2>1
  <2>7. Range(q) = {u \in k.queued \cup {t} : k.prio[u] = p}
    BY <2>1, <2>3
  <2> QED  BY <2>1, <2>3, <2>4, <2>5, <2>6, <2>7, QueueStep
<1> QED  BY <1>1, <1>2

(* tcbSchedDequeue takes it out. *)
LEMMA DequeueStep ==
    ASSUME NEW k, ReadyOK(k), NEW t \in Threads
    PROVE  Requeued(k, tcbSchedDequeue(k, t), k.queued \ {t})
<1>1. CASE t \notin k.queued
  BY <1>1 DEF tcbSchedDequeue, Requeued, SameThreads
<1>2. CASE t \in k.queued
  <2> DEFINE p == k.prio[t]
             q == Unlink(k.ready[p], t)
             m == IF q = <<>> THEN RemoveFromBitmap(k, p) ELSE k
  <2>1. /\ k \in SchedState /\ p \in Prios /\ k.ready[p] \in Seq(Threads) /\ IsInjective(k.ready[p])
        /\ Range(k.ready[p]) = {u \in k.queued : k.prio[u] = p} /\ k.queued \in SUBSET Threads
    BY DEF ReadyOK, SchedState, QueuesMatch
  <2>2. /\ q \in Seq(Threads) /\ IsInjective(q)
        /\ Range(q) = Range(k.ready[p]) \ {t} /\ k.ready[p] # <<>>
    BY <1>2, <2>1, UnlinkFacts, QueueRange
  <2>3. /\ m \in SchedState /\ BitmapSound(m) /\ SameThreads(k, m)
        /\ m.queued = k.queued /\ m.ready = k.ready
        /\ \A o \in Prios : Marked(m, o) <=> IF o = p THEN q # <<>> ELSE Marked(k, o)
    BY <2>1, <2>2, RemoveFromBitmapStep DEF ReadyOK, SameThreads
  <2>4. tcbSchedDequeue(k, t) = [m EXCEPT !.ready[p] = q, !.queued = k.queued \ {t}]
    BY <1>2, <2>3 DEF tcbSchedDequeue
  <2> HIDE DEF m, q
  <2>5. Range(q) = {u \in k.queued \ {t} : k.prio[u] = p}
    BY <2>1, <2>2
  <2>6. k.queued \ {t} \in SUBSET Threads
    BY <2>1
  <2>7. \A u \in Threads : k.prio[u] # p => (u \in k.queued \ {t} <=> u \in k.queued)
    OBVIOUS
  <2> HIDE DEF p
  <2>8. Requeued(k, [m EXCEPT !.ready[p] = q, !.queued = k.queued \ {t}], k.queued \ {t})
    BY <2>1, <2>2, <2>3, <2>5, <2>6, <2>7, QueueStep
  <2> QED  BY <2>4, <2>8
<1> QED  BY <1>1, <1>2

(* The bitmap leads to the queue of the highest priority that has one. *)
LEMMA HighestPrio ==
    ASSUME NEW k, ReadyOK(k)
    PROVE  /\ k.l1 = {} <=> k.queued = {}
           /\ k.l1 # {} => LET h == getHighestPrio(k)
                           IN  /\ h \in Prios /\ Head(k.ready[h]) \in k.queued
                               /\ k.prio[Head(k.ready[h])] = h
                               /\ \A t \in k.queued : k.prio[t] <= h
<1>1. /\ k \in SchedState /\ QueuesMatch(k) /\ BitmapSound(k)
      /\ \A p \in Prios : k.ready[p] # <<>> <=> Marked(k, p)
      /\ k.l1 \in SUBSET Words /\ k.l2 \in [Words -> SUBSET Bits]
      /\ k.queued \in SUBSET Threads /\ k.prio \in [Threads -> Prios]
  BY DEF ReadyOK, SchedState
<1>2. NumWords \in Nat /\ WordBits \in Nat \ {0}
  BY InvertWord, SchedAssumption
<1>3. ASSUME NEW t \in k.queued
      PROVE  /\ l1index(k.prio[t]) \in k.l1
             /\ k.prio[t] % WordBits \in k.l2[invert_l1index(l1index(k.prio[t]))]
  <2>1. Range(k.ready[k.prio[t]]) # {} /\ k.ready[k.prio[t]] \in Seq(Threads)
    BY <1>1 DEF QueuesMatch, SchedState
  <2>2. Marked(k, k.prio[t])
    BY <2>1, <1>1, QueueRange
  <2> QED  BY <2>2, <1>1, BitOfPriority DEF Marked, BitmapSound
<1>4. ASSUME k.l1 # {}
      PROVE  LET h == getHighestPrio(k)
             IN  /\ h \in Prios /\ Head(k.ready[h]) \in k.queued
                 /\ k.prio[Head(k.ready[h])] = h
                 /\ \A t \in k.queued : k.prio[t] <= h
  <2> DEFINE w == HighestBit(k.l1)
             b == HighestBit(k.l2[invert_l1index(w)])
             h == getHighestPrio(k)
  <2>1. w \in k.l1 /\ \A v \in k.l1 : v <= w
    <3>1. NumWords - 1 \in Nat
      BY <1>1, <1>2, <1>4 DEF Words
    <3> QED  BY <3>1, <1>1, <1>4, HighestBitIsMax DEF Words
  <2>2. invert_l1index(w) \in Words
    BY <2>1, <1>1, InvertWord
  <2>3. /\ b \in k.l2[invert_l1index(w)]
        /\ \A c \in k.l2[invert_l1index(w)] : c <= b
    <3>1. k.l2[invert_l1index(w)] \in SUBSET (0 .. WordBits - 1) /\ k.l2[invert_l1index(w)] # {}
      BY <2>1, <2>2, <1>1 DEF BitmapSound, Bits
    <3> QED  BY <3>1, <1>2, HighestBitIsMax
  <2>4. w \in Nat /\ b \in Bits /\ h = w * WordBits + b
    BY <2>1, <2>2, <2>3, <1>1, <1>2 DEF getHighestPrio, Words
  <2>5. h \in Prios
    BY <2>1, <2>3, <2>4, <1>1 DEF BitmapSound
  <2> HIDE DEF w, b, h
  <2>6. Marked(k, h)
    BY <2>3, <2>4, PriorityOfBit DEF Marked
  <2>7. k.ready[h] \in Seq(Threads) /\ k.ready[h] # <<>> /\ IsInjective(k.ready[h])
    BY <2>5, <2>6, <1>1 DEF SchedState, QueuesMatch
  <2>8. Head(k.ready[h]) \in k.queued /\ k.prio[Head(k.ready[h])] = h
    BY <2>5, <2>7, <1>1, HeadQueued DEF QueuesMatch
  <2>9. ASSUME NEW t \in k.queued PROVE k.prio[t] <= h
    <3> DEFINE p == k.prio[t]
    <3>1. p \in Prios
      BY <1>1
    <3>2. /\ l1index(p) \in Nat /\ p % WordBits \in Bits
          /\ p = l1index(p) * WordBits + (p % WordBits)
      BY <3>1, <1>2, BitOfPriority DEF Words
    <3>3. l1index(p) <= w /\ (l1index(p) = w => p % WordBits <= b)
      BY <1>3, <2>1, <2>3
    <3>4. l1index(p) < w \/ (l1index(p) = w /\ p % WordBits <= b)
      BY <2>4, <3>2, <3>3
    <3> HIDE DEF p
    <3> QED  BY <2>4, <3>2, <3>4, PriorityOfBit DEF p
  <2> QED  BY <2>5, <2>8, <2>9 DEF h
<1>5. k.l1 = {} <=> k.queued = {}
  BY <1>3, <1>4
<1> QED  BY <1>4, <1>5
----------------------------------------------------------------------------
(* The scheduler's invariant *)

(* Between a handler and schedule().  While the scheduler's action is not to
   choose a new thread, the current thread outranks all that are queued but
   the candidate: that is why schedule() need not look at the bitmap when the
   candidate does not rank below the current thread, even one that has blocked. *)
HandlerInv(k) ==
    /\ ReadyOK(k) /\ k.queued \subseteq k.runnable
    /\ k.runnable \subseteq k.queued \cup Candidates(k) \cup {k.cur}
    /\ \A t \in Candidates(k) : t \in k.runnable /\ t # k.cur
    /\ k.action # Choose /\ k.cur # Idle =>
          \A u \in k.queued \ Candidates(k) : k.prio[u] <= k.prio[k.cur]
    /\ k.action = Resume => /\ k.cur \in k.runnable \cup {Idle} /\ k.cur \notin k.queued
                            /\ k.cur = Idle => k.queued = {}

(* In user mode, as schedule() leaves it. *)
UserInv(k) == HandlerInv(k) /\ k.action = Resume

SchedInv == HandlerInv(ks) /\ phase \in {"user", "kernel"} /\ (phase = "user" => UserInv(ks))
(* The queues do not depend on the action, the current thread, the slices,
   who is runnable, or the priority of a thread that is not queued. *)
LEMMA QueuesUnaffected ==
    ASSUME NEW k, ReadyOK(k), NEW r \in SchedState,
           r.queued = k.queued, r.ready = k.ready, r.l1 = k.l1, r.l2 = k.l2,
           \A t \in k.queued : r.prio[t] = k.prio[t]
    PROVE  ReadyOK(r)
<1>1. k.queued \in SUBSET Threads
  BY DEF ReadyOK, SchedState
<1>2. \A p \in Prios : {t \in r.queued : r.prio[t] = p} = {t \in k.queued : k.prio[t] = p}
  OBVIOUS
<1>3. QueuesMatch(r)
  BY <1>2 DEF QueuesMatch, ReadyOK
<1> QED  BY <1>3 DEF ReadyOK, BitmapSound, Marked

(* The scheduler's action, the current thread and the set of runnable threads
   are assigned. *)
LEMMA AssignStep ==
    ASSUME NEW k, ReadyOK(k)
    PROVE  /\ \A a \in {Resume, Choose} \cup Threads : ReadyOK([k EXCEPT !.action = a])
           /\ \A c \in Threads \cup {Idle} : ReadyOK([k EXCEPT !.cur = c])
           /\ \A R \in SUBSET Threads : ReadyOK([k EXCEPT !.runnable = R])
<1>1. k \in SchedState
  BY DEF ReadyOK
<1>2. ASSUME NEW a \in {Resume, Choose} \cup Threads PROVE ReadyOK([k EXCEPT !.action = a])
  <2>1. [k EXCEPT !.action = a] \in SchedState
    BY <1>1 DEF SchedState
  <2> QED  BY <1>1, <2>1, QueuesUnaffected DEF SchedState
<1>3. ASSUME NEW c \in Threads \cup {Idle} PROVE ReadyOK([k EXCEPT !.cur = c])
  <2>1. [k EXCEPT !.cur = c] \in SchedState
    BY <1>1 DEF SchedState
  <2> QED  BY <1>1, <2>1, QueuesUnaffected DEF SchedState
<1>4. ASSUME NEW R \in SUBSET Threads PROVE ReadyOK([k EXCEPT !.runnable = R])
  <2>1. [k EXCEPT !.runnable = R] \in SchedState
    BY <1>1 DEF SchedState
  <2> QED  BY <1>1, <2>1, QueuesUnaffected DEF SchedState
<1> QED  BY <1>2, <1>3, <1>4

(* rescheduleRequired queues the candidate it gives up. *)
LEMMA RescheduleStep ==
    ASSUME NEW k, ReadyOK(k)
    PROVE  LET r == rescheduleRequired(k)
           IN  /\ ReadyOK(r) /\ r.queued = k.queued \cup Candidates(k) /\ r.action = Choose
               /\ r.runnable = k.runnable /\ r.prio = k.prio /\ r.cur = k.cur
<1> DEFINE m == IF k.action \in {Resume, Choose} THEN k ELSE tcbSchedEnqueue(k, k.action)
<1>1. k \in SchedState /\ k.action \in {Resume, Choose} \cup Threads
  BY DEF ReadyOK, SchedState
<1>2. ReadyOK(m) /\ SameThreads(k, m) /\ m.queued = k.queued \cup Candidates(k)
  <2>1. CASE k.action \in {Resume, Choose}
    BY <2>1, SchedAssumption DEF SameThreads, Candidates
  <2>2. CASE k.action \in Threads
    <3>1. k.action \notin {Resume, Choose}
      BY <2>2, SchedAssumption
    <3>2. Requeued(k, m, k.queued \cup {k.action})
      BY <2>2, <3>1, EnqueueStep
    <3> QED  BY <2>2, <3>2 DEF Requeued, Candidates
  <2> QED  BY <1>1, <2>1, <2>2
<1>3. rescheduleRequired(k) = [m EXCEPT !.action = Choose]
  BY DEF rescheduleRequired
<1> HIDE DEF m
<1>4. ReadyOK([m EXCEPT !.action = Choose]) /\ m \in SchedState
  BY <1>2, AssignStep DEF ReadyOK
<1> QED  BY <1>2, <1>3, <1>4 DEF SchedState, SameThreads

(* A thread that is woken becomes the candidate, or is queued, and so is the
   one that was. *)
LEMMA SwitchToStep ==
    ASSUME NEW k, ReadyOK(k), NEW t \in Threads
    PROVE  LET r == possibleSwitchTo(k, t)
           IN  /\ ReadyOK(r) /\ r.runnable = k.runnable /\ r.prio = k.prio /\ r.cur = k.cur
               /\ k.action = Resume => r.action = t /\ r.queued = k.queued
               /\ k.action # Resume => /\ r.action = Choose
                                       /\ r.queued = k.queued \cup Candidates(k) \cup {t}
<1>1. CASE k.action = Resume
  <2>1. ReadyOK([k EXCEPT !.action = t]) /\ k \in SchedState
    BY AssignStep DEF ReadyOK
  <2> QED  BY <1>1, <2>1 DEF possibleSwitchTo, SchedState
<1>2. CASE k.action # Resume
  <2> DEFINE m == rescheduleRequired(k)
  <2>1. /\ ReadyOK(m) /\ m.queued = k.queued \cup Candidates(k) /\ m.action = Choose
        /\ m.runnable = k.runnable /\ m.prio = k.prio /\ m.cur = k.cur
    BY RescheduleStep
  <2>2. possibleSwitchTo(k, t) = tcbSchedEnqueue(m, t)
    BY <1>2 DEF possibleSwitchTo
  <2> HIDE DEF m
  <2>3. Requeued(m, tcbSchedEnqueue(m, t), m.queued \cup {t})
    BY <2>1, EnqueueStep
  <2> QED  BY <1>2, <2>1, <2>2, <2>3 DEF Requeued, SameThreads
<1> QED  BY <1>1, <1>2

(* A thread that outranks all queued ones is switched to. *)
LEMMA SwitchStep ==
    ASSUME NEW k, ReadyOK(k), NEW c \in Threads, c \in k.runnable, k.queued \subseteq k.runnable,
           k.runnable \subseteq k.queued \cup {c}, \A u \in k.queued : k.prio[u] <= k.prio[c]
    PROVE  LET r == [switchToThread(k, c) EXCEPT !.action = Resume]
           IN  UserInv(r) /\ r.runnable = k.runnable /\ r.prio = k.prio /\ r.cur = c
<1> DEFINE m == tcbSchedDequeue(k, c)
           n == [m EXCEPT !.cur = c]
           r == [n EXCEPT !.action = Resume]
<1>1. Requeued(k, m, k.queued \ {c})
  BY DequeueStep
<1>2. r = [switchToThread(k, c) EXCEPT !.action = Resume]
  BY DEF switchToThread
<1> HIDE DEF m
<1>3. ReadyOK(m) /\ SameThreads(k, m) /\ m.queued = k.queued \ {c} /\ m \in SchedState
  BY <1>1 DEF Requeued, ReadyOK
<1>4. ReadyOK(n) /\ n \in SchedState
  BY <1>3, AssignStep DEF ReadyOK
<1>5. /\ n.cur = c /\ n.queued = k.queued \ {c} /\ n.runnable = k.runnable /\ n.prio = k.prio
  BY <1>3 DEF SchedState, SameThreads
<1> HIDE DEF n
<1>6. ReadyOK(r)
  BY <1>4, AssignStep
<1>7. /\ r.cur = c /\ r.queued = k.queued \ {c} /\ r.runnable = k.runnable /\ r.prio = k.prio
      /\ r.action = Resume
  BY <1>4, <1>5 DEF SchedState
<1> HIDE DEF r
<1>8. UserInv(r)
  BY <1>6, <1>7, SchedAssumption DEF UserInv, HandlerInv, Candidates
<1> QED  BY <1>2, <1>7, <1>8

(* With all runnable threads queued, chooseThread finds one nobody outranks. *)
LEMMA ChooseStep ==
    ASSUME NEW k, ReadyOK(k), k.queued = k.runnable
    PROVE  LET r == [chooseThread(k) EXCEPT !.action = Resume]
           IN  UserInv(r) /\ r.runnable = k.runnable /\ r.prio = k.prio
<1>1. CASE k.l1 = {}
  <2> DEFINE n == [k EXCEPT !.cur = Idle]
             r == [n EXCEPT !.action = Resume]
  <2>1. k.queued = {} /\ k \in SchedState
    BY <1>1, HighestPrio DEF ReadyOK
  <2>2. ReadyOK(n) /\ n \in SchedState
    BY AssignStep DEF ReadyOK
  <2>3. n.cur = Idle /\ n.queued = {} /\ n.runnable = {} /\ n.prio = k.prio
    BY <2>1 DEF SchedState
  <2>4. r = [chooseThread(k) EXCEPT !.action = Resume]
    BY <1>1 DEF chooseThread
  <2> HIDE DEF n
  <2>5. /\ ReadyOK(r) /\ r.cur = Idle /\ r.queued = {} /\ r.runnable = {} /\ r.prio = k.prio
        /\ r.action = Resume
    BY <2>2, <2>3, AssignStep DEF SchedState
  <2> HIDE DEF r
  <2>6. UserInv(r)
    BY <2>5, SchedAssumption DEF UserInv, HandlerInv, Candidates
  <2> QED  BY <2>1, <2>4, <2>5, <2>6
<1>2. CASE k.l1 # {}
  <2> DEFINE c == Head(k.ready[getHighestPrio(k)])
  <2>1. c \in k.queued /\ \A u \in k.queued : k.prio[u] <= k.prio[c]
    BY <1>2, HighestPrio
  <2>2. c \in Threads /\ c \in k.runnable
    BY <2>1 DEF ReadyOK, SchedState
  <2>3. chooseThread(k) = switchToThread(k, c)
    BY <1>2 DEF chooseThread
  <2> HIDE DEF c
  <2> QED  BY <2>1, <2>2, <2>3, SwitchStep
<1> QED  BY <1>1, <1>2

(* schedule() leaves a current thread that nobody outranks, and loses none. *)
LEMMA ScheduleStep ==
    ASSUME NEW k, HandlerInv(k)
    PROVE  UserInv(schedule(k)) /\ schedule(k).runnable = k.runnable /\ schedule(k).prio = k.prio
<1> DEFINE Good(r) == UserInv(r) /\ r.runnable = k.runnable /\ r.prio = k.prio
           m == KeepCurrent(k)
           c == k.action
<1>1. ReadyOK(k) /\ k \in SchedState /\ k.action \in {Resume, Choose} \cup Threads
  BY DEF HandlerInv, ReadyOK, SchedState
<1>2. CASE k.action = Resume
  <2>1. schedule(k) = k
    BY <1>1, <1>2 DEF schedule, SchedState
  <2> QED  BY <1>2, <2>1 DEF UserInv
<1>3. CASE k.action # Resume
  <2>1. /\ ReadyOK(m) /\ SameThreads(k, m)
        /\ m.queued = k.queued \cup ({k.cur} \cap k.runnable)
    <3>1. CASE k.cur \in k.runnable
      <4>1. k.cur \in Threads
        BY <1>1, <3>1 DEF SchedState
      <4>2. Requeued(k, m, k.queued \cup {k.cur})
        BY <1>1, <3>1, <4>1, EnqueueStep DEF KeepCurrent
      <4> QED  BY <3>1, <4>2 DEF Requeued
    <3>2. CASE k.cur \notin k.runnable
      BY <1>1, <3>2 DEF KeepCurrent, SameThreads
    <3> QED  BY <3>1, <3>2
  <2>2. schedule(k) = [Decide(m) EXCEPT !.action = Resume]
    BY <1>3 DEF schedule
  <2> HIDE DEF m
  <2>3. /\ m.queued \subseteq m.runnable /\ m.runnable \subseteq m.queued \cup Candidates(k)
        /\ m.runnable = k.runnable /\ m.prio = k.prio /\ m.cur = k.cur /\ m.action = c
        /\ m \in SchedState
    BY <2>1 DEF HandlerInv, SameThreads, ReadyOK
  <2>4. CASE c = Choose
    <3>1. m.queued = m.runnable
      BY <2>3, <2>4, SchedAssumption DEF Candidates
    <3>2. Decide(m) = chooseThread(m)
      BY <2>3, <2>4 DEF Decide
    <3> QED  BY <2>1, <2>2, <2>3, <3>1, <3>2, ChooseStep
  <2>5. CASE c \in Threads
    <3>1. /\ c # Choose /\ Candidates(k) = {c} /\ c \in m.runnable /\ c # m.cur
          /\ m.runnable \subseteq m.queued \cup {c}
      BY <2>3, <2>5, SchedAssumption DEF Candidates, HandlerInv
    <3>2. m.cur # Idle => \A u \in m.queued \ {c} : m.prio[u] <= m.prio[m.cur]
      <4> SUFFICES ASSUME m.cur # Idle, NEW u \in m.queued \ {c}
                   PROVE  m.prio[u] <= m.prio[m.cur]
        OBVIOUS
      <4>1. m.cur \in Threads /\ m.prio \in [Threads -> Prios]
        BY <2>3 DEF SchedState
      <4>2. m.prio[m.cur] \in Nat
        BY <4>1 DEF Prios
      <4>3. CASE u = m.cur
        BY <4>2, <4>3
      <4>4. CASE u # m.cur
        BY <4>4, <1>3, <2>1, <2>3, <3>1 DEF HandlerInv
      <4> QED  BY <4>3, <4>4
    <3>3. m.prio[c] \in Nat /\ \A u \in m.queued : m.prio[u] \in Nat
      BY <2>3, <2>5 DEF SchedState, Prios
    <3>4. CASE MustCheck(m) /\ ~isHighestPrio(m, m.prio[c])
      <4> DEFINE n == tcbSchedEnqueue(m, c)
      <4>1. Requeued(m, n, m.queued \cup {c})
        BY <2>1, <2>5, EnqueueStep
      <4>2. Decide(m) = chooseThread(n)
        BY <2>3, <3>1, <3>4 DEF Decide
      <4> HIDE DEF n
      <4>3. ReadyOK(n) /\ n.queued = n.runnable /\ n.runnable = m.runnable /\ n.prio = m.prio
        BY <2>3, <3>1, <4>1 DEF Requeued, SameThreads
      <4> QED  BY <2>2, <2>3, <4>2, <4>3, ChooseStep
    <3>5. CASE /\ ~(MustCheck(m) /\ ~isHighestPrio(m, m.prio[c]))
               /\ m.cur \in m.runnable /\ m.prio[c] = m.prio[m.cur]
      <4> DEFINE n == tcbSchedAppend(m, c)
      <4>1. Requeued(m, n, m.queued \cup {c})
        BY <2>1, <2>5, EnqueueStep
      <4>2. Decide(m) = chooseThread(n)
        BY <2>3, <3>1, <3>5 DEF Decide
      <4> HIDE DEF n
      <4>3. ReadyOK(n) /\ n.queued = n.runnable /\ n.runnable = m.runnable /\ n.prio = m.prio
        BY <2>3, <3>1, <4>1 DEF Requeued, SameThreads
      <4> QED  BY <2>2, <2>3, <4>2, <4>3, ChooseStep
    <3>6. CASE /\ ~(MustCheck(m) /\ ~isHighestPrio(m, m.prio[c]))
               /\ ~(m.cur \in m.runnable /\ m.prio[c] = m.prio[m.cur])
      <4>1. Decide(m) = switchToThread(m, c)
        BY <2>3, <3>1, <3>6 DEF Decide
      <4>2. \A u \in m.queued : m.prio[u] <= m.prio[c]
        <5>1. CASE isHighestPrio(m, m.prio[c])
          <6> SUFFICES ASSUME NEW u \in m.queued PROVE m.prio[u] <= m.prio[c]
            OBVIOUS
          <6>1. m.l1 # {} /\ m.prio[u] <= getHighestPrio(m) /\ getHighestPrio(m) \in Nat
            BY <2>1, HighestPrio DEF Prios
          <6>2. getHighestPrio(m) <= m.prio[c]
            BY <5>1, <6>1 DEF isHighestPrio
          <6> QED  BY <3>3, <6>1, <6>2
        <5>2. CASE ~MustCheck(m)
          <6>1. m.cur # Idle /\ ~(m.prio[c] < m.prio[m.cur])
            BY <2>3, <5>2 DEF MustCheck
          <6>2. m.prio[m.cur] \in Nat
            BY <2>3, <6>1 DEF SchedState, Prios
          <6>3. \A u \in m.queued \ {c} : m.prio[u] <= m.prio[m.cur]
            BY <3>2, <6>1
          <6> QED  BY <3>3, <6>1, <6>2, <6>3
        <5> QED  BY <3>6, <5>1, <5>2
      <4> QED  BY <2>1, <2>2, <2>3, <2>5, <3>1, <4>1, <4>2, SwitchStep
    <3> QED  BY <3>4, <3>5, <3>6
  <2> QED  BY <1>1, <1>3, <2>4, <2>5
<1> QED  BY <1>2, <1>3
----------------------------------------------------------------------------
(* The handlers *)

(* With a new thread to be chosen it is enough that no runnable thread is
   lost, whoever outranks whom. *)
LEMMA RescheduleInv ==
    ASSUME NEW k, ReadyOK(k), k.queued \cup Candidates(k) \subseteq k.runnable,
           k.runnable \subseteq k.queued \cup Candidates(k) \cup {k.cur}
    PROVE  LET r == rescheduleRequired(k)
           IN  /\ HandlerInv(r) /\ r.action = Choose
               /\ r.runnable = k.runnable /\ r.prio = k.prio /\ r.cur = k.cur
<1> DEFINE r == rescheduleRequired(k)
<1>1. /\ ReadyOK(r) /\ r.queued = k.queued \cup Candidates(k) /\ r.action = Choose
      /\ r.runnable = k.runnable /\ r.prio = k.prio /\ r.cur = k.cur
  BY RescheduleStep
<1> HIDE DEF r
<1>2. HandlerInv(r)
  BY <1>1, SchedAssumption DEF HandlerInv, Candidates
<1> QED  BY <1>1, <1>2 DEF r

(* A thread that waited is woken. *)
LEMMA WakeUpStep ==
    ASSUME NEW k, HandlerInv(k), k.cur \in k.runnable \cup {Idle}, k.cur \notin k.queued,
           NEW t \in Threads, t \notin k.runnable
    PROVE  LET r == WakeUp(k, t)
           IN  /\ HandlerInv(r) /\ r.runnable = k.runnable \cup {t} /\ r.prio = k.prio
               /\ r.cur = k.cur /\ r.cur \notin r.queued
<1> DEFINE m == [k EXCEPT !.runnable = k.runnable \cup {t}]
           r == possibleSwitchTo(m, t)
<1>1. /\ ReadyOK(k) /\ k \in SchedState /\ t # k.cur
      /\ k.runnable \in SUBSET Threads /\ k.action \in {Resume, Choose} \cup Threads
  BY SchedAssumption DEF HandlerInv, ReadyOK, SchedState
<1>2. k.runnable \cup {t} \in SUBSET Threads
  BY <1>1
<1>3. ReadyOK(m)
  BY <1>1, <1>2, AssignStep
<1>4. /\ m.runnable = k.runnable \cup {t} /\ m.queued = k.queued /\ m.prio = k.prio
      /\ m.action = k.action /\ m.cur = k.cur /\ Candidates(m) = Candidates(k)
  BY <1>1 DEF SchedState, Candidates
<1>5. WakeUp(k, t) = r
  BY DEF WakeUp, Wake
<1> HIDE DEF m
<1>6. /\ ReadyOK(r) /\ r.runnable = m.runnable /\ r.prio = m.prio /\ r.cur = m.cur
      /\ m.action = Resume => r.action = t /\ r.queued = m.queued
      /\ m.action # Resume => r.action = Choose /\ r.queued = m.queued \cup Candidates(m) \cup {t}
  BY <1>3, SwitchToStep
<1> HIDE DEF r
<1>7. CASE k.action = Resume
  <2>1. Candidates(k) = {} /\ Candidates(r) = {t}
    BY <1>4, <1>6, <1>7, SchedAssumption DEF Candidates
  <2> QED  BY <2>1, <1>1, <1>4, <1>5, <1>6, <1>7, SchedAssumption DEF HandlerInv
<1>8. CASE k.action # Resume
  <2>1. Candidates(r) = {}
    BY <1>4, <1>6, <1>8, SchedAssumption DEF Candidates
  <2> QED  BY <2>1, <1>1, <1>4, <1>5, <1>6, <1>8, SchedAssumption DEF HandlerInv
<1> QED  BY <1>7, <1>8

(* A thread stops being runnable. *)
LEMMA UnrunnableStep ==
    ASSUME NEW k, ReadyOK(k), NEW t \in Threads
    PROVE  LET b == [k EXCEPT !.runnable = @ \ {t}]
           IN  /\ ReadyOK(b) /\ b.runnable = k.runnable \ {t} /\ b.queued = k.queued
               /\ b.prio = k.prio /\ b.action = k.action /\ b.cur = k.cur
<1>1. k.runnable \ {t} \in SUBSET Threads /\ k \in SchedState
  BY DEF ReadyOK, SchedState
<1>2. ReadyOK([k EXCEPT !.runnable = k.runnable \ {t}])
  BY <1>1, AssignStep
<1> QED  BY <1>1, <1>2 DEF SchedState

(* The current thread blocks, perhaps after it has woken others. *)
LEMMA BlockStep ==
    ASSUME NEW k, HandlerInv(k), k.cur \in k.runnable, k.cur \notin k.queued
    PROVE  LET r == Block(k, k.cur)
           IN  HandlerInv(r) /\ r.runnable = k.runnable \ {k.cur} /\ r.prio = k.prio /\ r.cur = k.cur
<1> DEFINE b == [k EXCEPT !.runnable = @ \ {k.cur}]
<1>1. ReadyOK(k) /\ k.cur \in Threads
  BY DEF HandlerInv, ReadyOK, SchedState
<1>2. /\ ReadyOK(b) /\ b.runnable = k.runnable \ {k.cur} /\ b.queued = k.queued
      /\ b.prio = k.prio /\ b.action = k.action /\ b.cur = k.cur
  BY <1>1, UnrunnableStep
<1>3. Block(k, k.cur) = IF k.action = Resume THEN rescheduleRequired(b) ELSE b
  BY DEF Block
<1> HIDE DEF b
<1>4. Candidates(b) = Candidates(k)
  BY <1>2 DEF Candidates
<1>5. CASE k.action = Resume
  <2>1. Candidates(k) = {}
    BY <1>5, SchedAssumption DEF Candidates
  <2>2. b.queued \subseteq b.runnable /\ b.runnable \subseteq b.queued \cup {b.cur}
    BY <2>1, <1>2 DEF HandlerInv
  <2> QED  BY <2>1, <2>2, <1>2, <1>3, <1>4, <1>5, RescheduleInv
<1>6. CASE k.action # Resume
  BY <1>1, <1>2, <1>3, <1>4, <1>6 DEF HandlerInv
<1> QED  BY <1>5, <1>6

(* Any thread is suspended. *)
LEMMA SuspendStep ==
    ASSUME NEW k, UserInv(k), NEW t \in Threads
    PROVE  LET r == suspend(k, t)
           IN  /\ HandlerInv(r) /\ r.action \in {Resume, Choose}
               /\ r.runnable = k.runnable \ {t} /\ r.prio = k.prio /\ r.cur = k.cur
<1> DEFINE b == [k EXCEPT !.runnable = @ \ {t}]
           m == IF t = k.cur THEN rescheduleRequired(b) ELSE b
           r == tcbSchedDequeue(m, t)
<1>1. ReadyOK(k) /\ k.action = Resume /\ Candidates(k) = {}
  BY SchedAssumption DEF UserInv, HandlerInv, Candidates
<1>2. /\ ReadyOK(b) /\ b.runnable = k.runnable \ {t} /\ b.queued = k.queued
      /\ b.prio = k.prio /\ b.action = Resume /\ b.cur = k.cur
  BY <1>1, UnrunnableStep
<1>3. suspend(k, t) = r
  BY <1>1 DEF suspend, Block
<1> HIDE DEF b
<1>4. /\ ReadyOK(m) /\ m.runnable = b.runnable /\ m.queued = b.queued /\ m.prio = b.prio
      /\ m.cur = b.cur /\ m.action = IF t = k.cur THEN Choose ELSE Resume
  <2>1. Candidates(b) = {}
    BY <1>2, SchedAssumption DEF Candidates
  <2>2. /\ ReadyOK(rescheduleRequired(b)) /\ rescheduleRequired(b).runnable = b.runnable
        /\ rescheduleRequired(b).queued = b.queued /\ rescheduleRequired(b).prio = b.prio
        /\ rescheduleRequired(b).cur = b.cur /\ rescheduleRequired(b).action = Choose
    BY <2>1, <1>2, RescheduleStep
  <2> QED  BY <2>2, <1>2
<1> HIDE DEF m
<1>5. /\ ReadyOK(r) /\ r.queued = k.queued \ {t} /\ r.runnable = k.runnable \ {t}
      /\ r.prio = k.prio /\ r.cur = k.cur /\ r.action = IF t = k.cur THEN Choose ELSE Resume
  BY <1>2, <1>4, DequeueStep DEF Requeued, SameThreads
<1> HIDE DEF r
<1>6. Candidates(r) = {}
  BY <1>5, SchedAssumption DEF Candidates
<1>7. HandlerInv(r)
  BY <1>1, <1>5, <1>6, SchedAssumption DEF UserInv, HandlerInv
<1> QED  BY <1>3, <1>5, <1>7

(* Any thread is resumed, even the current one that was just suspended. *)
LEMMA RestartStep ==
    ASSUME NEW k, HandlerInv(k), k.action \in {Resume, Choose}, NEW t \in Threads
    PROVE  LET r == restart(k, t)
           IN  HandlerInv(r) /\ r.runnable = k.runnable \cup {t} /\ r.prio = k.prio /\ r.cur = k.cur
<1>1. CASE t \in k.runnable
  BY <1>1 DEF restart
<1>2. CASE t \notin k.runnable
  <2> DEFINE w == [k EXCEPT !.runnable = k.runnable \cup {t}]
             m == tcbSchedEnqueue(w, t)
             r == possibleSwitchTo(m, t)
  <2>1. ReadyOK(k) /\ k \in SchedState /\ k.runnable \cup {t} \in SUBSET Threads /\ Candidates(k) = {}
    BY SchedAssumption DEF HandlerInv, ReadyOK, SchedState, Candidates
  <2>2. /\ ReadyOK(w) /\ w.runnable = k.runnable \cup {t} /\ w.queued = k.queued
        /\ w.prio = k.prio /\ w.action = k.action /\ w.cur = k.cur
    BY <2>1, AssignStep DEF SchedState
  <2>3. restart(k, t) = r
    BY <1>2 DEF restart, Wake
  <2> HIDE DEF w
  <2>4. Requeued(w, m, w.queued \cup {t})
    BY <2>2, EnqueueStep
  <2> HIDE DEF m
  <2>5. /\ ReadyOK(m) /\ m.runnable = k.runnable \cup {t} /\ m.queued = k.queued \cup {t}
        /\ m.prio = k.prio /\ m.action = k.action /\ m.cur = k.cur /\ Candidates(m) = {}
    BY <2>1, <2>2, <2>4 DEF Requeued, SameThreads, Candidates
  <2>6. /\ ReadyOK(r) /\ r.runnable = m.runnable /\ r.prio = m.prio /\ r.cur = m.cur
        /\ r.queued = k.queued \cup {t}
        /\ r.action = IF k.action = Resume THEN t ELSE Choose
    BY <2>5, SwitchToStep
  <2> HIDE DEF r
  <2>7. CASE k.action = Resume
    <3>1. Candidates(r) = {t}
      BY <2>6, <2>7 DEF Candidates
    <3> QED  BY <1>2, <2>1, <2>3, <2>5, <2>6, <2>7, <3>1, SchedAssumption DEF HandlerInv
  <2>8. CASE k.action # Resume
    <3>1. Candidates(r) = {}
      BY <2>6, <2>8, SchedAssumption DEF Candidates
    <3> QED  BY <2>1, <2>3, <2>5, <2>6, <2>8, <3>1, SchedAssumption DEF HandlerInv
  <2> QED  BY <2>7, <2>8
<1> QED  BY <1>1, <1>2

(* A thread that is current is rescheduled after what was done to it. *)
LEMMA IfCurrentStep ==
    ASSUME NEW k, HandlerInv(k), NEW t
    PROVE  LET r == IfCurrent(k, t)
           IN  HandlerInv(r) /\ r.runnable = k.runnable /\ r.prio = k.prio /\ r.cur = k.cur
<1>1. k.queued \cup Candidates(k) \subseteq k.runnable
  BY DEF HandlerInv
<1> QED  BY <1>1, RescheduleInv DEF IfCurrent, HandlerInv

(* The timer takes from the slice of the current thread; when that is used up
   the thread joins the tail of its queue. *)
LEMMA TickStep ==
    ASSUME NEW k, UserInv(k)
    PROVE  LET r == timerTick(k)
           IN  HandlerInv(r) /\ r.runnable = k.runnable /\ r.prio = k.prio /\ r.cur = k.cur
<1> DEFINE Sliced(s) == [k EXCEPT !.slice[k.cur] = s]
<1>1. ReadyOK(k) /\ k \in SchedState /\ k.action = Resume /\ Candidates(k) = {}
  BY SchedAssumption DEF UserInv, HandlerInv, ReadyOK, Candidates
<1>2. ASSUME NEW s \in 1 .. TimeSlice, k.cur \in k.runnable
      PROVE  /\ ReadyOK(Sliced(s)) /\ Sliced(s).runnable = k.runnable /\ Sliced(s).prio = k.prio
             /\ Sliced(s).queued = k.queued /\ Sliced(s).cur = k.cur /\ Sliced(s).action = k.action
  <2>1. k.slice \in [Threads -> 1 .. TimeSlice] /\ [k.slice EXCEPT ![k.cur] = s] \in [Threads -> 1 .. TimeSlice]
    BY <1>1 DEF SchedState
  <2>2. Sliced(s) = [k EXCEPT !.slice = [k.slice EXCEPT ![k.cur] = s]]
    BY <1>1 DEF SchedState
  <2>3. Sliced(s) \in SchedState
    BY <1>1, <2>1, <2>2 DEF SchedState
  <2> QED  BY <1>1, <2>2, <2>3, QueuesUnaffected DEF SchedState
<1>3. CASE k.cur \notin k.runnable
  BY <1>3 DEF timerTick, UserInv
<1>4. CASE k.cur \in k.runnable /\ k.slice[k.cur] > 1
  <2>1. k.slice[k.cur] - 1 \in 1 .. TimeSlice /\ timerTick(k) = Sliced(k.slice[k.cur] - 1)
    <3>1. k.slice[k.cur] \in 1 .. TimeSlice /\ TimeSlice \in Nat
      BY <1>1, <1>4, SchedAssumption DEF SchedState
    <3> QED  BY <1>4, <3>1 DEF timerTick
  <2> QED  BY <1>1, <1>2, <1>4, <2>1 DEF UserInv, HandlerInv, Candidates
<1>5. CASE k.cur \in k.runnable /\ ~(k.slice[k.cur] > 1)
  <2> DEFINE m == Sliced(TimeSlice)
             n == tcbSchedAppend(m, k.cur)
  <2>1. TimeSlice \in 1 .. TimeSlice /\ k.cur \in Threads
    BY <1>1, <1>5, SchedAssumption DEF SchedState
  <2>2. /\ ReadyOK(m) /\ m.runnable = k.runnable /\ m.prio = k.prio
        /\ m.queued = k.queued /\ m.cur = k.cur /\ m.action = k.action
    BY <1>2, <1>5, <2>1
  <2>3. timerTick(k) = rescheduleRequired(n)
    BY <1>5 DEF timerTick
  <2> HIDE DEF m
  <2>4. Requeued(m, n, m.queued \cup {k.cur})
    BY <2>1, <2>2, EnqueueStep
  <2> HIDE DEF n
  <2>5. /\ ReadyOK(n) /\ n.runnable = k.runnable /\ n.prio = k.prio /\ n.cur = k.cur
        /\ n.queued = k.queued \cup {k.cur} /\ Candidates(n) = {}
    BY <1>1, <2>2, <2>4 DEF Requeued, SameThreads, Candidates
  <2>6. n.queued \subseteq n.runnable /\ n.runnable \subseteq n.queued
    BY <1>1, <1>5, <2>5 DEF UserInv, HandlerInv
  <2> QED  BY <2>3, <2>5, <2>6, RescheduleInv
<1> QED  BY <1>3, <1>4, <1>5

(* The current thread yields. *)
LEMMA YieldStep ==
    ASSUME NEW k, UserInv(k), k.cur # Idle
    PROVE  HandlerInv(handleYield(k))
<1> DEFINE m == tcbSchedDequeue(k, k.cur)
           n == tcbSchedAppend(m, k.cur)
<1>1. /\ ReadyOK(k) /\ k.cur \in Threads /\ k.cur \in k.runnable
      /\ k.action = Resume /\ Candidates(k) = {}
  BY SchedAssumption DEF UserInv, HandlerInv, ReadyOK, SchedState, Candidates
<1>2. Requeued(k, m, k.queued \ {k.cur})
  BY <1>1, DequeueStep
<1>3. handleYield(k) = rescheduleRequired(n)
  BY DEF handleYield
<1> HIDE DEF m
<1>4. Requeued(m, n, m.queued \cup {k.cur})
  BY <1>1, <1>2, EnqueueStep DEF Requeued
<1> HIDE DEF n
<1>5. /\ ReadyOK(n) /\ n.runnable = k.runnable /\ n.cur = k.cur
      /\ n.queued = (k.queued \ {k.cur}) \cup {k.cur} /\ Candidates(n) = {}
  BY <1>1, <1>2, <1>4 DEF Requeued, SameThreads, Candidates
<1>6. n.queued \subseteq n.runnable /\ n.runnable \subseteq n.queued
  BY <1>1, <1>5 DEF UserInv, HandlerInv
<1> QED  BY <1>3, <1>5, <1>6, RescheduleInv

(* A thread changes its priority: it leaves the queue of the old one and, if
   it is runnable, joins that of the new. *)
LEMMA SetPriorityStep ==
    ASSUME NEW k, UserInv(k), NEW t \in Threads, NEW p \in Prios
    PROVE  HandlerInv(setPriority(k, t, p))
<1> DEFINE m == tcbSchedDequeue(k, t)
           n == [m EXCEPT !.prio[t] = p]
           e == tcbSchedEnqueue(n, t)
<1>1. ReadyOK(k) /\ k.action = Resume /\ Candidates(k) = {}
  BY SchedAssumption DEF UserInv, HandlerInv, Candidates
<1>2. Requeued(k, m, k.queued \ {t})
  BY <1>1, DequeueStep
<1>3. setPriority(k, t, p) = IF t \in k.runnable THEN rescheduleRequired(e) ELSE n
  BY DEF setPriority
<1> HIDE DEF m
<1>4. /\ ReadyOK(m) /\ m \in SchedState /\ m.queued = k.queued \ {t} /\ m.runnable = k.runnable
      /\ m.action = Resume /\ m.cur = k.cur /\ m.prio = k.prio
  BY <1>1, <1>2 DEF Requeued, SameThreads, ReadyOK
<1>5. /\ n.queued = m.queued /\ n.runnable = m.runnable /\ n.action = Resume /\ n.cur = m.cur
      /\ n.ready = m.ready /\ n.l1 = m.l1 /\ n.l2 = m.l2 /\ n.prio = [m.prio EXCEPT ![t] = p]
  BY <1>4 DEF SchedState
<1>6. n \in SchedState
  <2>1. [m.prio EXCEPT ![t] = p] \in [Threads -> Prios]
    BY <1>4 DEF SchedState
  <2>2. n = [m EXCEPT !.prio = [m.prio EXCEPT ![t] = p]]
    BY <1>4 DEF SchedState
  <2> QED  BY <1>4, <2>1, <2>2 DEF SchedState
<1> HIDE DEF n
<1>7. \A u \in k.queued \ {t} : n.prio[u] = k.prio[u]
  BY <1>4, <1>5 DEF SchedState
<1>8. ReadyOK(n)
  <2>1. /\ n.queued = m.queued /\ n.ready = m.ready /\ n.l1 = m.l1 /\ n.l2 = m.l2
        /\ \A u \in m.queued : n.prio[u] = m.prio[u]
    BY <1>4, <1>5, <1>7
  <2> QED  BY <1>4, <1>6, <2>1, QueuesUnaffected
<1>9. CASE t \notin k.runnable
  <2>1. t # k.cur \/ k.cur = Idle
    BY <1>1, <1>9 DEF UserInv, HandlerInv
  <2>2. k.cur # Idle => n.prio[k.cur] = k.prio[k.cur]
    BY <1>1, <1>4, <1>5, <2>1 DEF ReadyOK, SchedState
  <2>3. Candidates(n) = {}
    BY <1>1, <1>5 DEF Candidates
  <2> QED  BY ZenonT(60), <1>1, <1>3, <1>4, <1>5, <1>7, <1>8, <1>9, <2>2, <2>3 DEF UserInv, HandlerInv
<1>10. CASE t \in k.runnable
  <2>1. Requeued(n, e, n.queued \cup {t})
    BY <1>8, EnqueueStep
  <2> HIDE DEF e
  <2>2. /\ ReadyOK(e) /\ e.runnable = k.runnable /\ e.cur = k.cur
        /\ e.queued = (k.queued \ {t}) \cup {t} /\ Candidates(e) = {}
    BY <1>1, <1>4, <1>5, <2>1 DEF Requeued, SameThreads, Candidates
  <2>3. e.queued \subseteq e.runnable /\ e.runnable \subseteq e.queued \cup {e.cur}
    BY <1>1, <1>10, <2>2 DEF UserInv, HandlerInv
  <2> QED  BY <1>3, <1>10, <2>2, <2>3, RescheduleInv
<1> QED  BY <1>9, <1>10

(* A thread changes its domain, of which there is one. *)
LEMMA SetDomainStep ==
    ASSUME NEW k, UserInv(k), NEW t \in Threads
    PROVE  HandlerInv(setDomain(k, t))
<1> DEFINE m == tcbSchedDequeue(k, t)
           n == IF t \in k.runnable THEN tcbSchedEnqueue(m, t) ELSE m
<1>1. ReadyOK(k) /\ k.action = Resume /\ Candidates(k) = {}
  BY SchedAssumption DEF UserInv, HandlerInv, Candidates
<1>2. Requeued(k, m, k.queued \ {t})
  BY <1>1, DequeueStep
<1>3. setDomain(k, t) = IF t = n.cur THEN rescheduleRequired(n) ELSE n
  <2>1. m.runnable = k.runnable
    BY <1>2 DEF Requeued, SameThreads
  <2> QED  BY DEF setDomain, IfCurrent
<1> HIDE DEF m
<1>4. ReadyOK(n) /\ SameThreads(k, n) /\ n.queued = (k.queued \ {t}) \cup ({t} \cap k.runnable)
  <2>1. CASE t \in k.runnable
    <3>1. Requeued(m, n, m.queued \cup {t})
      BY <1>2, <2>1, EnqueueStep DEF Requeued
    <3> QED  BY <1>2, <2>1, <3>1 DEF Requeued, SameThreads
  <2>2. CASE t \notin k.runnable
    BY <1>2, <2>2 DEF Requeued
  <2> QED  BY <2>1, <2>2
<1> HIDE DEF n
<1>5. Candidates(n) = {}
  BY <1>1, <1>4 DEF SameThreads, Candidates
<1>6. CASE t = k.cur
  <2>1. n.queued \subseteq n.runnable /\ n.runnable \subseteq n.queued \cup {n.cur}
    BY <1>1, <1>4 DEF UserInv, HandlerInv, SameThreads
  <2> QED  BY <1>3, <1>4, <1>5, <1>6, <2>1, RescheduleInv DEF SameThreads
<1>7. CASE t # k.cur
  <2>1. n.queued = k.queued \/ n.queued = k.queued \cup {t} \/ n.queued = k.queued \ {t}
    BY <1>4
  <2>2. t \in k.runnable => t \in k.queued
    BY <1>1, <1>7 DEF UserInv, HandlerInv
  <2>3. n.queued = k.queued
    BY <1>1, <1>4, <2>2 DEF UserInv, HandlerInv
  <2> QED  BY <1>1, <1>3, <1>4, <1>5, <1>7, <2>3 DEF UserInv, HandlerInv, SameThreads
<1> QED  BY <1>6, <1>7
----------------------------------------------------------------------------
(* The theorems *)

(* The initial thread is the candidate, and no queue has a thread. *)
LEMMA SchedInitInv == SchedInit => SchedInv
<1> SUFFICES ASSUME SchedInit PROVE SchedInv
  OBVIOUS
<1>1. PICK root \in Threads :
          ks = [runnable |-> {root},
                prio     |-> [t \in Threads |-> IF t = root THEN NumPrios - 1 ELSE 0],
                slice    |-> [t \in Threads |-> TimeSlice],
                queued   |-> {},
                ready    |-> [p \in Prios |-> <<>>],
                l1       |-> {},
                l2       |-> [w \in Words |-> {}],
                action   |-> root,
                cur      |-> Idle]
  BY DEF SchedInit
<1>2. phase = "kernel"
  BY DEF SchedInit
<1>3. NumPrios - 1 \in Prios /\ 0 \in Prios /\ TimeSlice \in 1 .. TimeSlice
  BY SchedAssumption DEF Prios
<1>4. ks \in SchedState
  BY <1>1, <1>3 DEF SchedState
<1>5. QueuesMatch(ks)
  BY <1>1 DEF QueuesMatch, Range, IsInjective
<1>6. \A w \in Words : ks.l2[invert_l1index(w)] = {}
  BY <1>1, InvertWord
<1>7. BitmapSound(ks) /\ \A p \in Prios : ~Marked(ks, p)
  BY <1>1, <1>6, BitOfPriority DEF BitmapSound, Marked
<1>8. ReadyOK(ks)
  BY <1>1, <1>4, <1>5, <1>7 DEF ReadyOK
<1>9. root # Idle /\ root # Resume /\ root # Choose
  BY SchedAssumption
<1> QED  BY <1>1, <1>2, <1>8, <1>9 DEF SchedInv, HandlerInv, Candidates

(* Every handler and schedule() preserve the invariant. *)
LEMMA SchedNextInv == SchedInv /\ [SchedNext]_vars => SchedInv'
<1> SUFFICES ASSUME SchedInv, [SchedNext]_vars PROVE SchedInv'
  OBVIOUS
<1>1. ASSUME NEW k, Entry(k), HandlerInv(k) PROVE SchedInv'
  BY <1>1 DEF Entry, SchedInv
<1>2. CASE phase = "user"
  <2>1. UserInv(ks) /\ HandlerInv(ks) /\ ks.cur \in ks.runnable \cup {Idle} /\ ks.cur \notin ks.queued
    BY <1>2 DEF SchedInv, UserInv, HandlerInv
  <2>2. ASSUME NEW t \in Threads, t \notin ks.runnable
        PROVE  LET r == WakeUp(ks, t)
               IN  /\ HandlerInv(r) /\ r.runnable = ks.runnable \cup {t} /\ r.cur = ks.cur
                   /\ r.cur \notin r.queued
    BY <2>1, <2>2, WakeUpStep
  <2>3. ASSUME Tick PROVE SchedInv'
    BY <1>1, <2>1, <2>3, TickStep DEF Tick
  <2>4. ASSUME NEW t \in Threads, WakeOne(t) PROVE SchedInv'
    BY <1>1, <2>2, <2>4 DEF WakeOne
  <2>5. ASSUME Yield PROVE SchedInv'
    BY <1>1, <2>1, <2>5, YieldStep DEF Yield
  <2>6. ASSUME Wait PROVE SchedInv'
    BY <1>1, <2>1, <2>6, BlockStep DEF Wait
  <2>7. ASSUME NEW t \in Threads, Handoff(t) PROVE SchedInv'
    <3> DEFINE m == WakeUp(ks, t)
    <3>1. HandlerInv(m) /\ m.cur = ks.cur /\ m.cur \in m.runnable /\ m.cur \notin m.queued
      BY <2>1, <2>2, <2>7 DEF Handoff
    <3>2. Entry(Block(m, m.cur))
      BY <2>7, <3>1 DEF Handoff
    <3> HIDE DEF m
    <3> QED  BY <1>1, <3>1, <3>2, BlockStep
  <2>8. ASSUME NEW t \in Threads, NEW u \in Threads, WakeTwo(t, u) PROVE SchedInv'
    <3> DEFINE m == WakeUp(ks, t)
    <3>1. /\ HandlerInv(m) /\ m.cur \in m.runnable \cup {Idle} /\ m.cur \notin m.queued
          /\ u \notin m.runnable
      BY <2>1, <2>2, <2>8 DEF WakeTwo
    <3>2. Entry(WakeUp(m, u))
      BY <2>8 DEF WakeTwo
    <3> HIDE DEF m
    <3> QED  BY <1>1, <3>1, <3>2, WakeUpStep
  <2>9. ASSUME NEW t \in Threads, Suspend(t) PROVE SchedInv'
    BY <1>1, <2>1, <2>9, SuspendStep DEF Suspend
  <2>10. ASSUME NEW t \in Threads, Resumption(t) \/ WriteRegisters(t) PROVE SchedInv'
    <3> DEFINE m == restart(ks, t)
    <3>1. HandlerInv(m)
      BY <2>1, RestartStep DEF UserInv
    <3>2. Entry(m) \/ Entry(IfCurrent(m, t))
      BY <2>10 DEF Resumption, WriteRegisters
    <3> HIDE DEF m
    <3> QED  BY <1>1, <3>1, <3>2, IfCurrentStep
  <2>11. ASSUME NEW t \in Threads, NEW u \in Threads, CopyRegisters(t, u) PROVE SchedInv'
    <3> DEFINE m == suspend(ks, u)
               n == restart(m, t)
    <3>1. HandlerInv(m) /\ m.action \in {Resume, Choose}
      BY <2>1, SuspendStep
    <3>2. Entry(IfCurrent(n, t))
      BY <2>11 DEF CopyRegisters
    <3> HIDE DEF m
    <3>3. HandlerInv(n)
      BY <3>1, RestartStep
    <3> HIDE DEF n
    <3> QED  BY <1>1, <3>2, <3>3, IfCurrentStep
  <2>12. ASSUME NEW t \in Threads, NEW p \in Prios, SetPriority(t, p) PROVE SchedInv'
    BY <1>1, <2>1, <2>12, SetPriorityStep DEF SetPriority
  <2>13. ASSUME NEW t \in Threads, SetDomain(t) PROVE SchedInv'
    BY <1>1, <2>1, <2>13, SetDomainStep DEF SetDomain
  <2>14. ~Leave
    BY <1>2 DEF Leave
  <2> QED  BY <2>3, <2>4, <2>5, <2>6, <2>7, <2>8, <2>9, <2>10, <2>11, <2>12, <2>13, <2>14
           DEF SchedNext, IpcNext, SchedInv, vars
<1>3. CASE phase # "user"
  <2>1. CASE Leave
    <3>1. UserInv(schedule(ks))
      BY ScheduleStep DEF SchedInv
    <3> QED  BY <2>1, <3>1 DEF Leave, SchedInv, UserInv
  <2>2. CASE UNCHANGED vars
    BY <2>2 DEF SchedInv, vars
  <2> QED
    BY <1>3, <2>1, <2>2
    DEF SchedNext, IpcNext, Entry, Tick, WakeOne, Yield, Wait, Handoff, WakeTwo, Suspend,
        Resumption, WriteRegisters, CopyRegisters, SetPriority, SetDomain
<1> QED  BY <1>2, <1>3

(* What the invariant says of the properties. *)
LEMMA SchedInvImplies == SchedInv => SchedTypeOK /\ QueuesExact /\ NobodyLost /\ HighestRuns
<1> SUFFICES ASSUME SchedInv PROVE SchedTypeOK /\ QueuesExact /\ NobodyLost /\ HighestRuns
  OBVIOUS
<1>1. ReadyOK(ks) /\ HandlerInv(ks) /\ SchedTypeOK
  BY DEF SchedInv, HandlerInv, ReadyOK, SchedTypeOK
<1>2. QueuesExact
  BY <1>1 DEF HandlerInv, ReadyOK, QueuesExact, BitmapExact, BitmapSound, Marked
<1>3. NobodyLost
  BY <1>1 DEF HandlerInv, NobodyLost, ScheduleAsserts
<1>4. HighestRuns
  <2> SUFFICES ASSUME phase = "user"
               PROVE  IF ks.cur = Idle THEN ks.runnable = {}
                      ELSE \A t \in ks.runnable : ks.prio[t] <= ks.prio[ks.cur]
    BY DEF HighestRuns
  <2>1. ks.action = Resume /\ Candidates(ks) = {}
    BY SchedAssumption DEF SchedInv, UserInv, Candidates
  <2>2. CASE ks.cur = Idle
    BY <1>1, <2>1, <2>2, SchedAssumption DEF HandlerInv, ReadyOK, SchedState
  <2>3. CASE ks.cur # Idle
    <3>1. ks.prio[ks.cur] \in Nat
      BY <1>1, <2>3 DEF ReadyOK, SchedState, Prios
    <3>2. ASSUME NEW t \in ks.runnable PROVE ks.prio[t] <= ks.prio[ks.cur]
      BY <1>1, <2>1, <2>3, <3>1, SchedAssumption DEF HandlerInv
    <3> QED  BY <2>3, <3>2
  <2> QED  BY <2>2, <2>3
<1> QED  BY <1>1, <1>2, <1>3, <1>4

(* The scheduler keeps its types. *)
THEOREM SchedTypes == SchedSpec => []SchedTypeOK
BY SchedInitInv, SchedNextInv, SchedInvImplies, PTL DEF SchedSpec

(* The ready queues hold the flagged threads, each in the queue of its
   priority, and the two-level bitmap finds every queue that is not empty,
   whatever the number of priorities and the width of a word. *)
THEOREM QueuesAreExact == SchedSpec => []QueuesExact
BY SchedInitInv, SchedNextInv, SchedInvImplies, PTL DEF SchedSpec

(* No runnable thread is lost between handlers and schedule(), and what
   schedule() asserts of its candidate holds. *)
THEOREM NobodyIsLost == SchedSpec => []NobodyLost
BY SchedInitInv, SchedNextInv, SchedInvImplies, PTL DEF SchedSpec

(* Whoever runs in user mode is outranked by no runnable thread. *)
THEOREM HighestPriorityRuns == SchedSpec => []HighestRuns
BY SchedInitInv, SchedNextInv, SchedInvImplies, PTL DEF SchedSpec
=============================================================================
