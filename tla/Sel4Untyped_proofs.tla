------------------------- MODULE Sel4Untyped_proofs -------------------------
(***************************************************************************)
(* The mapping database stays a list in which copies lie side by side, no  *)
(* memory is in use twice, free memory stays cleared, and the derivation   *)
(* tree read off the list changes as the manual says: for any slots,       *)
(* initial regions, badges, sizes and fan-out.                             *)
(*                                                                         *)
(* The list is its own record of the derivation tree, so the invariant is  *)
(* about the list as an order: heights of the entries witness it, pointers *)
(* are neighbours in it, what is below an untyped capability is a run in   *)
(* it, and so are the capabilities to one object.  Moving and swapping     *)
(* entries renames slots and keeps the rest; everything else links entries *)
(* in behind others or takes entries out.  So does the tree: what is       *)
(* linked in comes to lie below its source or beside it, and what is below *)
(* an entry that is taken out is left to the nearest one above.            *)
(***************************************************************************)
EXTENDS Sel4Untyped, Integers, FiniteSetTheorems, WellFoundedInduction, TLAPS

----------------------------------------------------------------------------
(* Induction and recursion *)

(* A set of naturals that is not empty has a least element. *)
LEMMA LeastNat ==
    ASSUME NEW T, T \subseteq Nat, T # {}
    PROVE  \E m \in T : \A n \in T : m <= n
<1>1. PICK m \in T : \A n \in T : ~(<<n, m>> \in OpToRel(<, Nat))
  BY WFMin, NatLessThanWellFounded
<1>2. \A n \in T : ~(n < m)
  BY <1>1 DEF OpToRel
<1> QED  BY <1>2

(* What holds of zero and of each successor holds of every number: the set of
   those it holds of has no least number outside it. *)
LEMMA Induction ==
    ASSUME NEW X, 0 \in X, \A n \in Nat : n \in X => n + 1 \in X
    PROVE  Nat \subseteq X
<1> DEFINE T == Nat \ X
<1>1. SUFFICES ASSUME T # {} PROVE FALSE
  OBVIOUS
<1>2. PICK m \in T : \A n \in T : m <= n
  BY <1>1, LeastNat
<1>3. m - 1 \in Nat /\ m - 1 \notin T
  BY <1>2
<1> QED  BY <1>3

(* g begins with v and goes on by the steps F. *)
Follows(g, v, F, N) == g[0] = v /\ \A i \in 1 .. N : g[i] = F[i][g[i - 1]]

LEMMA Recursion ==
    ASSUME NEW V, NEW v \in V, NEW N \in Nat, NEW F \in [1 .. N -> [V -> V]]
    PROVE  \E g \in [0 .. N -> V] : Follows(g, v, F, N)
<1> DEFINE Upto(n) == \E g \in [0 .. n -> V] : g[0] = v /\ \A i \in 1 .. n : g[i] = F[i][g[i - 1]]
           X == {n \in Nat : n <= N => Upto(n)}
<1>1. 0 \in X
  <2>1. [i \in 0 .. 0 |-> v] \in [0 .. 0 -> V] /\ [i \in 0 .. 0 |-> v][0] = v
    OBVIOUS
  <2>2. \A i \in 1 .. 0 : FALSE
    OBVIOUS
  <2>3. Upto(0)
    BY ONLY <2>1, <2>2
  <2> QED  BY <2>3
<1>2. ASSUME NEW n \in Nat, n \in X PROVE n + 1 \in X
  <2>1. SUFFICES ASSUME n + 1 <= N PROVE Upto(n + 1)
    OBVIOUS
  <2>2. PICK g \in [0 .. n -> V] : g[0] = v /\ \A i \in 1 .. n : g[i] = F[i][g[i - 1]]
    BY <1>2, <2>1
  <2> DEFINE h == [i \in 0 .. n + 1 |-> IF i = n + 1 THEN F[n + 1][g[n]] ELSE g[i]]
  <2>3. n + 1 \in 1 .. N /\ g[n] \in V
    BY <2>1
  <2>4. h \in [0 .. n + 1 -> V]
    BY <2>3
  <2>5. h[0] = v
    BY <2>2
  <2>6. \A i \in 1 .. n + 1 : h[i] = F[i][h[i - 1]]
    <3> TAKE i \in 1 .. n + 1
    <3>1. h[i - 1] = g[i - 1]
      OBVIOUS
    <3>2. CASE i = n + 1
      BY <3>1, <3>2
    <3>3. CASE i # n + 1
      <4>1. i \in 1 .. n /\ h[i] = g[i]
        BY <3>3
      <4> QED  BY <2>2, <3>1, <4>1
    <3> QED  BY <3>2, <3>3
  <2> QED  BY <2>4, <2>5, <2>6
<1> HIDE DEF X
<1>3. Nat \subseteq X
  BY <1>1, <1>2, Induction
<1> QED  BY <1>3 DEF X, Follows

(* The size of a region, its recursion unfolded. *)
LEMMA BITDef == BIT = [n \in Nat |-> IF n = 0 THEN 1 ELSE 2 * BIT[n - 1]]
<1> DEFINE IsUpto(g, n) == g \in [0 .. n -> Nat] /\ g[0] = 1 /\ \A i \in 1 .. n : g[i] = 2 * g[i - 1]
           upto(n) == CHOOSE g : IsUpto(g, n)
           b == [n \in Nat |-> upto(n)[n]]
<1>1. \A n \in Nat : IsUpto(upto(n), n)
  <2> SUFFICES ASSUME NEW n \in Nat PROVE \E g : IsUpto(g, n)
    OBVIOUS
  <2> DEFINE F == [i \in 1 .. n |-> [x \in Nat |-> 2 * x]]
  <2>1. F \in [1 .. n -> [Nat -> Nat]]
    OBVIOUS
  <2>2. \E g \in [0 .. n -> Nat] : Follows(g, 1, F, n)
    <3> HIDE DEF F
    <3> QED  BY <2>1, Recursion
  <2>a. PICK g \in [0 .. n -> Nat] : g[0] = 1 /\ \A i \in 1 .. n : g[i] = F[i][g[i - 1]]
    BY <2>2 DEF Follows
  <2>3. \A i \in 1 .. n : g[i] = 2 * g[i - 1]
    <3> TAKE i \in 1 .. n
    <3>1. g[i - 1] \in Nat
      OBVIOUS
    <3> QED  BY <2>a, <3>1 DEF F
  <2> QED  BY <2>a, <2>3
<1> HIDE DEF upto
<1>2. ASSUME NEW n \in Nat PROVE upto(n + 1)[n] = upto(n)[n]
  <2> DEFINE X == {i \in Nat : i <= n => upto(n + 1)[i] = upto(n)[i]}
  <2>1. 0 \in X
    <3>1. upto(n + 1)[0] = 1 /\ upto(n)[0] = 1
      BY <1>1
    <3> QED  BY <3>1
  <2>2. ASSUME NEW i \in Nat, i \in X PROVE i + 1 \in X
    <3>1. SUFFICES ASSUME i + 1 <= n PROVE upto(n + 1)[i + 1] = upto(n)[i + 1]
      OBVIOUS
    <3>2. i + 1 \in 1 .. n /\ i + 1 \in 1 .. n + 1 /\ (i + 1) - 1 = i
      BY <3>1
    <3>3. upto(n)[i + 1] = 2 * upto(n)[i] /\ upto(n + 1)[i + 1] = 2 * upto(n + 1)[i]
      BY <1>1, <3>2
    <3> QED  BY <2>2, <3>1, <3>3
  <2> HIDE DEF X
  <2>3. Nat \subseteq X
    BY <2>1, <2>2, Induction
  <2> QED  BY <2>3 DEF X
<1>3. b = [n \in Nat |-> IF n = 0 THEN 1 ELSE 2 * b[n - 1]]
  <2>1. b[0] = 1
    BY <1>1
  <2>2. ASSUME NEW n \in Nat, n # 0 PROVE b[n] = 2 * b[n - 1]
    <3>1. n \in 1 .. n /\ n - 1 \in Nat /\ (n - 1) + 1 = n
      BY <2>2
    <3>2. upto(n)[n] = 2 * upto(n)[n - 1]
      BY <1>1, <3>1
    <3>3. upto(n)[n - 1] = upto(n - 1)[n - 1]
      BY <1>2, <3>1
    <3> QED  BY <3>1, <3>2, <3>3
  <2> HIDE DEF b
  <2>3. b = [n \in Nat |-> b[n]]
    BY DEF b
  <2> QED  BY <2>1, <2>2, <2>3
<1> HIDE DEF b
<1> QED  BY <1>3 DEF BIT

(* Sizes are positive, and double with each bit. *)
LEMMA BITFacts ==
    BIT[0] = 1 /\ \A n \in Nat : BIT[n] \in Nat \ {0} /\ BIT[n + 1] = 2 * BIT[n]
<1>1. BIT[0] = 1 /\ \A n \in Nat : BIT[n + 1] = 2 * BIT[n]
  <2> DEFINE b == BIT
  <2>1. b = [n \in Nat |-> IF n = 0 THEN 1 ELSE 2 * b[n - 1]]
    BY BITDef
  <2> HIDE DEF b
  <2>2. b[0] = 1 /\ \A n \in Nat : b[n + 1] = 2 * b[n]
    BY <2>1
  <2> QED  BY <2>2 DEF b
<1> DEFINE X == {n \in Nat : BIT[n] \in Nat \ {0}}
<1>2. 0 \in X /\ \A n \in Nat : n \in X => n + 1 \in X
  BY <1>1
<1> HIDE DEF X
<1>3. Nat \subseteq X
  BY <1>2, Induction
<1> QED  BY <1>1, <1>3 DEF X

(* The smaller of two sizes divides the larger. *)
LEMMA BITDivides ==
    ASSUME NEW a \in Nat, NEW n \in Nat
    PROVE  \E k \in Nat \ {0} : BIT[a + n] = BIT[a] * k
<1> DEFINE X == {i \in Nat : \E k \in Nat \ {0} : BIT[a + i] = BIT[a] * k}
<1>1. 0 \in X
  BY BITFacts
<1>2. ASSUME NEW i \in Nat, i \in X PROVE i + 1 \in X
  <2>1. PICK k \in Nat \ {0} : BIT[a + i] = BIT[a] * k
    BY <1>2
  <2>2. BIT[a + (i + 1)] = 2 * BIT[a + i]
    <3>1. a + (i + 1) = (a + i) + 1 /\ a + i \in Nat
      OBVIOUS
    <3> QED  BY <3>1, BITFacts
  <2>3. BIT[a + (i + 1)] = BIT[a] * (2 * k) /\ 2 * k \in Nat \ {0}
    <3>1. BIT[a] \in Nat
      BY BITFacts
    <3> QED  BY <2>1, <2>2, <3>1
  <2> QED  BY <2>3
<1> HIDE DEF X
<1>3. Nat \subseteq X
  BY <1>1, <1>2, Induction
<1> QED  BY <1>3 DEF X

(* What is rounded up does not become smaller, and is a multiple. *)
LEMMA AlignedUp ==
    ASSUME NEW x \in Nat, NEW b \in Nat
    PROVE  /\ alignUp(x, b) \in Nat /\ x <= alignUp(x, b)
           /\ \E q \in Nat : alignUp(x, b) = BIT[b] * q /\ BIT[b] * q < x + BIT[b]
<1> DEFINE u == BIT[b]
           q == (x + u - 1) \div u
<1>1. u \in Nat \ {0}
  BY BITFacts
<1> HIDE DEF u
<1>2. q \in Nat /\ u * q <= x + u - 1 /\ x + u - 1 < u * q + u
  BY <1>1
<1> HIDE DEF q
<1>3. alignUp(x, b) = q * u
  BY DEF alignUp, u, q
<1>4. q * u = u * q /\ u * q \in Nat
  BY <1>1, <1>2
<1> DEFINE p == u * q
<1> HIDE DEF p
<1>5. x <= p /\ p < x + u /\ p \in Nat
  BY <1>1, <1>2, <1>4 DEF p
<1> QED  BY <1>2, <1>3, <1>4, <1>5 DEF p, u

(* Where there is room for n objects before they are aligned, there is room
   for them aligned: regions begin at multiples of their size. *)
LEMMA RoomAligned ==
    ASSUME NEW bits \in Nat, NEW size \in Nat, NEW k \in Nat, NEW f \in Nat, NEW n \in Nat \ {0},
           f <= BIT[size], (BIT[size] - f) \div BIT[bits] >= n
    PROVE  alignUp(BIT[size] * k + f, bits) + n * BIT[bits] <= BIT[size] * k + BIT[size]
<1> DEFINE u == BIT[bits]
           s == BIT[size]
<1>1. u \in Nat \ {0} /\ s \in Nat \ {0}
  BY BITFacts
<1>2. n * u <= s - f
  <2> DEFINE d == (s - f) \div u
  <2> HIDE DEF u, s
  <2>1. d \in Nat /\ u * d <= s - f
    BY <1>1 DEF u, s
  <2>2. n <= d
    BY DEF u, s
  <2> HIDE DEF d
  <2>3. n * u <= u * d
    BY <1>1, <2>1, <2>2
  <2> QED  BY <1>1, <2>1, <2>3
<1>3. bits <= size
  <2>1. SUFFICES ASSUME size < bits PROVE FALSE
    OBVIOUS
  <2>2. bits - size - 1 \in Nat /\ (size + 1) + (bits - size - 1) = bits
    BY <2>1
  <2>3. PICK m \in Nat \ {0} : BIT[bits] = BIT[size + 1] * m
    BY <2>2, BITDivides
  <2>4. u = 2 * s * m
    BY <2>3, BITFacts
  <2> HIDE DEF u, s
  <2>5. s < u
    BY <1>1, <2>4
  <2>6. u <= n * u
    BY <1>1
  <2> DEFINE p == n * u
  <2> HIDE DEF p
  <2> QED  BY <1>1, <1>2, <2>5, <2>6 DEF p
<1>4. PICK m \in Nat \ {0} : s = u * m
  <2>1. size - bits \in Nat /\ bits + (size - bits) = size
    BY <1>3
  <2>2. PICK m \in Nat \ {0} : BIT[bits + (size - bits)] = BIT[bits] * m
    BY <2>1, BITDivides
  <2> QED  BY <2>1, <2>2
<1> DEFINE x == s * k + f
<1>5. x \in Nat /\ s * k \in Nat
  BY <1>1
<1>6. PICK q \in Nat : alignUp(x, bits) = u * q /\ u * q < x + u
  BY <1>5, AlignedUp
<1> HIDE DEF u, s
<1>7. s * k = u * (m * k) /\ m * k \in Nat
  BY <1>1, <1>4
<1>8. u * q + n * u < u * (m * k) + u * m + u
  <2> DEFINE p == u * q
             r == n * u
             t == u * (m * k)
             w == u * m
  <2>1. p \in Nat /\ r \in Nat /\ t \in Nat /\ w \in Nat
    BY <1>1, <1>7
  <2>2. p < x + u /\ x = t + f /\ r <= w - f
    BY <1>2, <1>4, <1>6, <1>7
  <2> HIDE DEF p, r, t, w, x
  <2>3. p + r < t + w + u
    BY <1>1, <2>1, <2>2
  <2> QED  BY <2>3 DEF p, r, t, w
<1>9. q + n <= m * k + m
  <2> DEFINE a == q + n
             c == m * k + m
  <2>1. a \in Nat /\ c \in Nat
    BY <1>7
  <2>2. u * a = u * q + n * u /\ u * c = u * (m * k) + u * m
    BY <1>1, <1>7
  <2>3. u * a < u * c + u
    BY <1>8, <2>2
  <2> HIDE DEF a, c
  <2>4. ~(c + 1 <= a)
    <3>1. c + 1 <= a => u * (c + 1) <= u * a
      BY <1>1, <2>1
    <3>2. u * (c + 1) = u * c + u
      BY <1>1, <2>1
    <3> QED  BY <1>1, <2>1, <2>3, <3>1, <3>2
  <2>5. a <= c
    BY <2>1, <2>4
  <2> QED  BY <2>5 DEF a, c
<1>10. u * q + n * u <= s * k + s
  <2> DEFINE a == q + n
             c == m * k + m
  <2>1. a \in Nat /\ c \in Nat
    BY <1>7
  <2>2. u * a = u * q + n * u /\ u * c = s * k + s
    BY <1>1, <1>4, <1>7
  <2>3. a <= c
    BY <1>9
  <2> HIDE DEF a, c
  <2>4. u * a <= u * c
    BY <1>1, <2>1, <2>3
  <2> QED  BY <2>2, <2>4
<1> QED  BY <1>6, <1>10 DEF x, u, s

----------------------------------------------------------------------------
(* The order of the list *)

Slot == Slots \cup {NoSlot}

(* The initial region a capability's memory lies in: each has a list of its
   own. *)
Root(cap) == cap.base \div BIT[MemBits]

UsedIn(c) == {s \in Slots : ~IsEmpty(c, s)}

(* Of the heights h that witness the order of the entries, each is above those
   that are later in the list. *)
Later(c, h, x, y) ==
    x \in UsedIn(c) /\ y \in UsedIn(c) /\ Root(c[x].cap) = Root(c[y].cap) /\ h[y] < h[x]

Adjacent(c, h, x, y) ==
    Later(c, h, x, y) /\ \A z \in Slots : ~(Later(c, h, x, z) /\ Later(c, h, z, y))

(* The pointers of the entries are their neighbours in that order. *)
Ordered(c, h) ==
    /\ h \in [Slots -> Nat]
    /\ \A x, y \in UsedIn(c) : x # y /\ Root(c[x].cap) = Root(c[y].cap) => h[x] # h[y]
    /\ \A x \in UsedIn(c) : c[x].next \in Slot /\ c[x].prev \in Slot
    /\ \A x \in UsedIn(c), y \in Slots : c[x].next = y <=> Adjacent(c, h, x, y)
    /\ \A y \in UsedIn(c), x \in Slots : c[y].prev = x <=> Adjacent(c, h, x, y)
    /\ \A x \in UsedIn(c) : c[x].next = NoSlot => \A y \in Slots : ~Later(c, h, x, y)
    /\ \A y \in UsedIn(c) : c[y].prev = NoSlot => \A x \in Slots : ~Later(c, h, x, y)

(* The order is one. *)
LEMMA LaterOrder ==
    ASSUME NEW c, NEW h, Ordered(c, h)
    PROVE  /\ \A x, y : Later(c, h, x, y) => x \in Slots /\ y \in Slots /\ x # y /\ ~Later(c, h, y, x)
           /\ \A x, y, z : Later(c, h, x, y) /\ Later(c, h, y, z) => Later(c, h, x, z)
           /\ \A x, y \in UsedIn(c) : Root(c[x].cap) = Root(c[y].cap) /\ x # y =>
                 Later(c, h, x, y) \/ Later(c, h, y, x)
BY DEF Ordered, Later, UsedIn

(* The heights when t comes to be right behind s. *)
Lifted(h, s, t) ==
    [x \in Slots |-> IF x = t THEN h[s] ELSE IF h[x] < h[s] THEN h[x] ELSE h[x] + 1]

(* What insertion behind an entry does to the order. *)
LEMMA InsertOrder ==
    ASSUME NEW c, NEW d, NEW h, Ordered(c, h), NEW s \in UsedIn(c), NEW t \in Slots \ UsedIn(c),
           UsedIn(d) = UsedIn(c) \cup {t}, Root(d[t].cap) = Root(c[s].cap),
           \A x \in UsedIn(c) : Root(d[x].cap) = Root(c[x].cap)
    PROVE  LET g == Lifted(h, s, t)
           IN  /\ g \in [Slots -> Nat]
               /\ \A x, y \in UsedIn(d) : x # y /\ Root(d[x].cap) = Root(d[y].cap) => g[x] # g[y]
               /\ \A x, y : x # t /\ y # t => (Later(d, g, x, y) <=> Later(c, h, x, y))
               /\ \A x : Later(d, g, x, t) <=> x = s \/ Later(c, h, x, s)
               /\ \A y : Later(d, g, t, y) <=> Later(c, h, s, y)
<1> DEFINE g == Lifted(h, s, t)
<1>1. h \in [Slots -> Nat] /\ \A x, y \in UsedIn(c) : x # y /\ Root(c[x].cap) = Root(c[y].cap) => h[x] # h[y]
  BY DEF Ordered
<1>2. /\ g \in [Slots -> Nat] /\ g[t] = h[s]
      /\ \A x \in Slots : x # t => g[x] = IF h[x] < h[s] THEN h[x] ELSE h[x] + 1
  BY <1>1 DEF Lifted, UsedIn
<1> HIDE DEF g
<1>3. UsedIn(c) \subseteq Slots /\ UsedIn(d) \subseteq Slots /\ t \notin UsedIn(c) /\ s # t
  BY DEF UsedIn
<1>4. \A x, y \in UsedIn(d) : x # y /\ Root(d[x].cap) = Root(d[y].cap) => g[x] # g[y]
  BY <1>1, <1>2, <1>3
<1>5. \A x, y : x # t /\ y # t => (Later(d, g, x, y) <=> Later(c, h, x, y))
  BY <1>1, <1>2, <1>3 DEF Later
<1>6. \A x : Later(d, g, x, t) <=> x = s \/ Later(c, h, x, s)
  BY <1>1, <1>2, <1>3 DEF Later
<1>7. \A y : Later(d, g, t, y) <=> Later(c, h, s, y)
  BY <1>1, <1>2, <1>3 DEF Later
<1> QED  BY <1>2, <1>4, <1>5, <1>6, <1>7 DEF g

(* Linking t in behind s keeps the pointers and the order together. *)
LEMMA InsertOrdered ==
    ASSUME NEW c, NEW d, NEW h, Ordered(c, h), NEW s \in UsedIn(c), NEW t \in Slots \ UsedIn(c),
           UsedIn(d) = UsedIn(c) \cup {t}, Root(d[t].cap) = Root(c[s].cap),
           \A x \in UsedIn(c) : Root(d[x].cap) = Root(c[x].cap),
           d[t].prev = s, d[t].next = c[s].next, d[s].next = t,
           \A x \in UsedIn(c) : x # s => d[x].next = c[x].next,
           \A x \in UsedIn(c) : d[x].prev = IF x = c[s].next THEN t ELSE c[x].prev
    PROVE  Ordered(d, Lifted(h, s, t))
<1> DEFINE g == Lifted(h, s, t)
<1>1. /\ g \in [Slots -> Nat]
      /\ \A x, y \in UsedIn(d) : x # y /\ Root(d[x].cap) = Root(d[y].cap) => g[x] # g[y]
      /\ \A x, y : x # t /\ y # t => (Later(d, g, x, y) <=> Later(c, h, x, y))
      /\ \A x : Later(d, g, x, t) <=> x = s \/ Later(c, h, x, s)
      /\ \A y : Later(d, g, t, y) <=> Later(c, h, s, y)
  BY InsertOrder
<1> HIDE DEF g
<1>2. /\ \A x, y : Later(c, h, x, y) => x \in UsedIn(c) /\ y \in UsedIn(c) /\ x # y /\ ~Later(c, h, y, x)
      /\ \A x, y, z : Later(c, h, x, y) /\ Later(c, h, y, z) => Later(c, h, x, z)
  BY LaterOrder DEF Later
<1>3. /\ s # t /\ s \in Slots /\ UsedIn(c) \subseteq Slots /\ t \notin UsedIn(c)
      /\ NoSlot \notin Slots
  BY CteAssumption DEF UsedIn
<1>4. \A x, y : x # t /\ y # t /\ x # s => (Adjacent(d, g, x, y) <=> Adjacent(c, h, x, y))
  <2> SUFFICES ASSUME NEW x, NEW y, x # t, y # t, x # s
               PROVE  Adjacent(d, g, x, y) <=> Adjacent(c, h, x, y)
    OBVIOUS
  <2>1. Adjacent(d, g, x, y) => Adjacent(c, h, x, y)
    BY <1>1, <1>2, <1>3 DEF Adjacent
  <2>2. Adjacent(c, h, x, y) => Adjacent(d, g, x, y)
    BY <1>1, <1>2, <1>3 DEF Adjacent
  <2> QED  BY <2>1, <2>2
<1>5. Adjacent(d, g, s, t) /\ \A y : Adjacent(d, g, s, y) => y = t
  BY <1>1, <1>2, <1>3 DEF Adjacent
<1>6. \A x : Adjacent(d, g, x, t) => x = s
  BY <1>1, <1>2, <1>3 DEF Adjacent
<1>7. \A y : Adjacent(d, g, t, y) <=> Adjacent(c, h, s, y)
  BY <1>1, <1>2, <1>3 DEF Adjacent
<1>8. /\ \A x \in UsedIn(c) : c[x].next \in Slot /\ c[x].prev \in Slot
      /\ \A x \in UsedIn(c), y \in Slots : c[x].next = y <=> Adjacent(c, h, x, y)
      /\ \A y \in UsedIn(c), x \in Slots : c[y].prev = x <=> Adjacent(c, h, x, y)
      /\ \A x \in UsedIn(c) : c[x].next = NoSlot => \A y \in Slots : ~Later(c, h, x, y)
      /\ \A y \in UsedIn(c) : c[y].prev = NoSlot => \A x \in Slots : ~Later(c, h, x, y)
  BY DEF Ordered
<1>9. \A x, y : Adjacent(c, h, x, y) => x \in UsedIn(c) /\ y \in UsedIn(c)
  BY <1>2 DEF Adjacent
<1>10. \A x \in UsedIn(d) : d[x].next \in Slot /\ d[x].prev \in Slot
  BY <1>3, <1>8 DEF Slot
<1>11. \A x \in UsedIn(d), y \in Slots : d[x].next = y <=> Adjacent(d, g, x, y)
  BY <1>3, <1>4, <1>5, <1>6, <1>7, <1>8, <1>9
<1>12. \A y \in UsedIn(d), x \in Slots : d[y].prev = x <=> Adjacent(d, g, x, y)
  BY <1>3, <1>4, <1>5, <1>6, <1>7, <1>8, <1>9
<1>13. \A x \in UsedIn(d) : d[x].next = NoSlot => \A y \in Slots : ~Later(d, g, x, y)
  BY <1>1, <1>2, <1>3, <1>8
<1>14. \A y \in UsedIn(d) : d[y].prev = NoSlot => \A x \in Slots : ~Later(d, g, x, y)
  BY <1>1, <1>2, <1>3, <1>5, <1>7, <1>8
<1> QED  BY <1>1, <1>10, <1>11, <1>12, <1>13, <1>14 DEF Ordered, g

(* Unlinking t, too. *)
LEMMA RemoveOrdered ==
    ASSUME NEW c, NEW d, NEW h, Ordered(c, h), NEW t \in UsedIn(c),
           UsedIn(d) = UsedIn(c) \ {t},
           \A x \in UsedIn(d) : Root(d[x].cap) = Root(c[x].cap),
           \A x \in UsedIn(d) : d[x].next = IF x = c[t].prev THEN c[t].next ELSE c[x].next,
           \A x \in UsedIn(d) : d[x].prev = IF x = c[t].next THEN c[t].prev ELSE c[x].prev
    PROVE  /\ Ordered(d, h)
           /\ \A x, y : Later(d, h, x, y) <=> x # t /\ y # t /\ Later(c, h, x, y)
<1>1. \A x, y : Later(d, h, x, y) <=> x # t /\ y # t /\ Later(c, h, x, y)
  BY DEF Later
<1>2. /\ \A x, y : Later(c, h, x, y) => x \in UsedIn(c) /\ y \in UsedIn(c) /\ x # y /\ ~Later(c, h, y, x)
      /\ \A x, y, z : Later(c, h, x, y) /\ Later(c, h, y, z) => Later(c, h, x, z)
      /\ \A x, y \in UsedIn(c) : Root(c[x].cap) = Root(c[y].cap) /\ x # y =>
            Later(c, h, x, y) \/ Later(c, h, y, x)
  BY LaterOrder DEF Later
<1>3. UsedIn(c) \subseteq Slots /\ NoSlot \notin Slots
  BY CteAssumption DEF UsedIn
<1>4. /\ \A x \in UsedIn(c) : c[x].next \in Slot /\ c[x].prev \in Slot
      /\ \A x \in UsedIn(c), y \in Slots : c[x].next = y <=> Adjacent(c, h, x, y)
      /\ \A y \in UsedIn(c), x \in Slots : c[y].prev = x <=> Adjacent(c, h, x, y)
      /\ \A x \in UsedIn(c) : c[x].next = NoSlot => \A y \in Slots : ~Later(c, h, x, y)
      /\ \A y \in UsedIn(c) : c[y].prev = NoSlot => \A x \in Slots : ~Later(c, h, x, y)
      /\ h \in [Slots -> Nat]
      /\ \A x, y \in UsedIn(c) : x # y /\ Root(c[x].cap) = Root(c[y].cap) => h[x] # h[y]
  BY DEF Ordered
<1>5. ASSUME NEW x, NEW y, x # t, y # t
      PROVE  Adjacent(d, h, x, y) <=> Adjacent(c, h, x, y) \/ (Adjacent(c, h, x, t) /\ Adjacent(c, h, t, y))
  <2>1. Adjacent(c, h, x, y) => Adjacent(d, h, x, y)
    BY <1>1, <1>5 DEF Adjacent
  <2>2. ASSUME Adjacent(c, h, x, t), Adjacent(c, h, t, y) PROVE Adjacent(d, h, x, y)
    <3>1. Later(c, h, x, t) /\ Later(c, h, t, y) /\ Later(d, h, x, y)
      BY <1>1, <1>2, <1>5, <2>2 DEF Adjacent
    <3>2. ASSUME NEW z \in Slots, Later(d, h, x, z), Later(d, h, z, y) PROVE FALSE
      <4>1. Later(c, h, x, z) /\ Later(c, h, z, y) /\ z # t /\ z \in UsedIn(c)
        BY <1>1, <1>2, <3>2
      <4>2. Later(c, h, z, t) \/ Later(c, h, t, z)
        BY <1>2, <3>1, <4>1 DEF Later
      <4> QED  BY <2>2, <4>1, <4>2 DEF Adjacent
    <3> QED  BY <3>1, <3>2 DEF Adjacent
  <2>3. ASSUME Adjacent(d, h, x, y), ~Adjacent(c, h, x, y)
        PROVE  Adjacent(c, h, x, t) /\ Adjacent(c, h, t, y)
    <3>1. Later(c, h, x, y)
      BY <1>1, <2>3 DEF Adjacent
    <3>2. \A z \in Slots : Later(c, h, x, z) /\ Later(c, h, z, y) => z = t
      BY <1>1, <1>5, <2>3 DEF Adjacent
    <3>3. Later(c, h, x, t) /\ Later(c, h, t, y)
      BY <2>3, <3>1, <3>2 DEF Adjacent
    <3> QED  BY <1>2, <3>2, <3>3 DEF Adjacent
  <2> QED  BY <2>1, <2>2, <2>3
<1>6. \A x, y, z : Adjacent(c, h, x, y) /\ Adjacent(c, h, x, z) => y = z
  <2> SUFFICES ASSUME NEW x, NEW y, NEW z, Adjacent(c, h, x, y), Adjacent(c, h, x, z), y # z PROVE FALSE
    OBVIOUS
  <2>1. Later(c, h, y, z) \/ Later(c, h, z, y)
    BY <1>2 DEF Adjacent, Later
  <2> QED  BY <1>2, <1>3, <2>1 DEF Adjacent
<1>7. \A x \in UsedIn(d) : d[x].next \in Slot /\ d[x].prev \in Slot
  BY <1>4
<1>8. \A x \in UsedIn(d), y \in Slots : d[x].next = y <=> Adjacent(d, h, x, y)
  <2> TAKE x \in UsedIn(d), y \in Slots
  <2>1. CASE y = t
    <3>1. ~Adjacent(d, h, x, t)
      BY <1>1 DEF Adjacent
    <3>2. c[t].next # t
      BY <1>2, <1>3, <1>4 DEF Adjacent
    <3>3. c[x].next = t => x = c[t].prev
      BY <1>3, <1>4
    <3> QED  BY <2>1, <3>1, <3>2, <3>3
  <2>2. CASE y # t
    <3>1. Adjacent(d, h, x, y) <=> Adjacent(c, h, x, y) \/ (Adjacent(c, h, x, t) /\ Adjacent(c, h, t, y))
      BY <1>5, <2>2
    <3>2. x = c[t].prev <=> Adjacent(c, h, x, t)
      BY <1>3, <1>4
    <3>3. CASE Adjacent(c, h, x, t)
      <4>1. ~Adjacent(c, h, x, y)
        BY <1>6, <2>2, <3>3
      <4> QED  BY <1>4, <3>1, <3>2, <3>3, <4>1
    <3>4. CASE ~Adjacent(c, h, x, t)
      BY <1>4, <3>1, <3>2, <3>4
    <3> QED  BY <3>3, <3>4
  <2> QED  BY <2>1, <2>2
<1>9. \A x, y, z : Adjacent(c, h, x, z) /\ Adjacent(c, h, y, z) => x = y
  <2> SUFFICES ASSUME NEW x, NEW y, NEW z, Adjacent(c, h, x, z), Adjacent(c, h, y, z), x # y PROVE FALSE
    OBVIOUS
  <2>1. Later(c, h, y, x) \/ Later(c, h, x, y)
    BY <1>2 DEF Adjacent, Later
  <2> QED  BY <1>2, <1>3, <2>1 DEF Adjacent
<1>10. \A y \in UsedIn(d), x \in Slots : d[y].prev = x <=> Adjacent(d, h, x, y)
  <2> TAKE y \in UsedIn(d), x \in Slots
  <2>1. CASE x = t
    <3>1. ~Adjacent(d, h, t, y)
      BY <1>1 DEF Adjacent
    <3>2. c[t].prev # t
      BY <1>2, <1>3, <1>4 DEF Adjacent
    <3>3. c[y].prev = t => y = c[t].next
      BY <1>3, <1>4
    <3> QED  BY <2>1, <3>1, <3>2, <3>3
  <2>2. CASE x # t
    <3>1. Adjacent(d, h, x, y) <=> Adjacent(c, h, x, y) \/ (Adjacent(c, h, x, t) /\ Adjacent(c, h, t, y))
      BY <1>5, <2>2
    <3>2. y = c[t].next <=> Adjacent(c, h, t, y)
      BY <1>3, <1>4
    <3>3. CASE Adjacent(c, h, t, y)
      <4>1. ~Adjacent(c, h, x, y)
        BY <1>9, <2>2, <3>3
      <4> QED  BY <1>4, <3>1, <3>2, <3>3, <4>1
    <3>4. CASE ~Adjacent(c, h, t, y)
      BY <1>4, <3>1, <3>2, <3>4
    <3> QED  BY <3>3, <3>4
  <2> QED  BY <2>1, <2>2
<1>11. \A x \in UsedIn(d) : d[x].next = NoSlot => \A y \in Slots : ~Later(d, h, x, y)
  <2> SUFFICES ASSUME NEW x \in UsedIn(d), d[x].next = NoSlot, NEW y \in Slots, Later(d, h, x, y) PROVE FALSE
    OBVIOUS
  <2>1. Later(c, h, x, y) /\ y # t /\ x # t
    BY <1>1
  <2>2. c[x].next # NoSlot
    BY <1>4, <2>1
  <2>3. x = c[t].prev /\ c[t].next = NoSlot
    BY <2>2
  <2>4. Adjacent(c, h, x, t) /\ ~Later(c, h, t, y)
    BY <1>3, <1>4, <2>3
  <2>5. Later(c, h, y, t)
    BY <1>2, <2>1, <2>4 DEF Adjacent, Later
  <2> QED  BY <2>1, <2>4, <2>5 DEF Adjacent
<1>12. \A y \in UsedIn(d) : d[y].prev = NoSlot => \A x \in Slots : ~Later(d, h, x, y)
  <2> SUFFICES ASSUME NEW y \in UsedIn(d), d[y].prev = NoSlot, NEW x \in Slots, Later(d, h, x, y) PROVE FALSE
    OBVIOUS
  <2>1. Later(c, h, x, y) /\ y # t /\ x # t
    BY <1>1
  <2>2. c[y].prev # NoSlot
    BY <1>4, <2>1
  <2>3. y = c[t].next /\ c[t].prev = NoSlot
    BY <2>2
  <2>4. Adjacent(c, h, t, y) /\ ~Later(c, h, x, t)
    BY <1>3, <1>4, <2>3
  <2>5. Later(c, h, t, x)
    BY <1>2, <2>1, <2>4 DEF Adjacent, Later
  <2> QED  BY <2>1, <2>4, <2>5 DEF Adjacent
<1> QED  BY <1>1, <1>4, <1>7, <1>8, <1>10, <1>11, <1>12 DEF Ordered

----------------------------------------------------------------------------
(* Capabilities *)

Caps == [type : CapTypes, base : Nat, bits : Nat, free : Nat, badge : Badges \cup {0}]

Entries == [cap : Caps, prev : Slot, next : Slot, revocable : BOOLEAN, firstBadged : BOOLEAN]

(* A capability to an object: its memory lies in one initial region, a region
   of untyped memory begins at a multiple of its size, and its watermark is
   within it. *)
SoundCaps ==
    {cap \in Caps :
        /\ cap.type # "null"
        /\ \A u \in Region(cap) : u \div BIT[MemBits] = Root(cap)
        /\ cap.type = "untyped" =>
              /\ cap.free <= BIT[cap.bits]
              /\ cap.badge = 0
              /\ \E k \in Nat : cap.base = BIT[cap.bits] * k
        /\ cap.type = "endpoint" => cap.bits = 0}

EntriesSound(c) ==
    /\ c \in [Slots -> Entries]
    /\ \A s \in Slots :
          IF IsEmpty(c, s) THEN c[s] = EmptyEntry
          ELSE c[s].cap \in SoundCaps /\ (c[s].cap.type = "untyped" => c[s].revocable)

Overlap(a, b) == Region(a) \cap Region(b) # {}

(* How the relations of capabilities to overlapping memory compose. *)
LEMMA CapFacts ==
    /\ \A a \in SoundCaps : Overlap(a, a) /\ Covers(a, a) /\ a.type \in {"untyped", "endpoint"}
    /\ \A a, b \in SoundCaps :
          /\ Overlap(a, b) => Overlap(b, a) /\ Root(a) = Root(b)
          /\ Covers(a, b) => Overlap(a, b)
          /\ sameObjectAs(a, b) <=> a.type = "endpoint" /\ b.type = "endpoint" /\ a.base = b.base
          /\ sameObjectAs(a, b) => Covers(a, b) /\ Covers(b, a)
          /\ a.type = "endpoint" /\ b.type = "endpoint" /\ Overlap(a, b) => sameObjectAs(a, b)
    /\ \A a, b, x \in SoundCaps :
          /\ Covers(a, b) /\ Overlap(x, b) => Overlap(x, a)
          /\ Covers(a, b) /\ Covers(b, x) => Covers(a, x)
<1>1. ASSUME NEW a \in SoundCaps
      PROVE  /\ a.base \in Nat /\ BIT[a.bits] \in Nat \ {0} /\ a.type \in {"untyped", "endpoint"}
             /\ \A u \in Nat : u \in Region(a) <=> a.base <= u /\ u < a.base + BIT[a.bits]
             /\ \A u \in Region(a) : u \in Nat /\ u \div BIT[MemBits] = Root(a)
             /\ a.type = "endpoint" => BIT[a.bits] = 1
  <2>1. a \in Caps
    BY DEF SoundCaps
  <2>2. a.base \in Nat /\ a.bits \in Nat /\ a.type \in CapTypes
    BY <2>1 DEF Caps
  <2>3. BIT[a.bits] \in Nat \ {0} /\ BIT[0] = 1
    BY <2>2, BITFacts
  <2> QED  BY <2>2, <2>3 DEF SoundCaps, Region, CapTypes
<1>2. \A a \in SoundCaps : a.base \in Region(a) /\ Covers(a, a)
  BY <1>1 DEF Covers
<1>3. \A a, b \in SoundCaps : Overlap(a, b) => Overlap(b, a) /\ Root(a) = Root(b)
  BY <1>1 DEF Overlap
<1>4. \A a, b \in SoundCaps : Covers(a, b) => b.base \in Region(a) /\ b.base \in Region(b)
  BY <1>1 DEF Covers
<1>5. \A a, b \in SoundCaps :
         sameObjectAs(a, b) <=> a.type = "endpoint" /\ b.type = "endpoint" /\ a.base = b.base
  BY <1>1 DEF sameObjectAs, sameRegionAs
<1>6. \A a, b \in SoundCaps : sameObjectAs(a, b) => Covers(a, b) /\ Covers(b, a)
  BY <1>1, <1>5 DEF Covers
<1>7. \A a, b \in SoundCaps :
         a.type = "endpoint" /\ b.type = "endpoint" /\ Overlap(a, b) => sameObjectAs(a, b)
  BY <1>1, <1>5 DEF Overlap
<1>8. \A a, b, x \in SoundCaps : Covers(a, b) /\ Overlap(x, b) => Overlap(x, a)
  BY <1>1 DEF Overlap, Covers
<1>9. \A a, b, x \in SoundCaps : Covers(a, b) /\ Covers(b, x) => Covers(a, x)
  BY <1>1 DEF Covers
<1> QED  BY <1>1, <1>2, <1>3, <1>4, <1>5, <1>6, <1>7, <1>8, <1>9 DEF Overlap

----------------------------------------------------------------------------
(* The tree in the list *)

(* b lies behind an untyped capability that covers it. *)
Above(c, h, a, b) ==
    c[a].cap.type = "untyped" /\ Later(c, h, a, b) /\ Covers(c[a].cap, c[b].cap)

(* Capabilities to overlapping memory are to one object, or one is above the
   other. *)
Apart(c, h) ==
    \A a, b \in UsedIn(c) : a # b /\ Overlap(c[a].cap, c[b].cap) =>
        sameObjectAs(c[a].cap, c[b].cap) \/ Above(c, h, a, b) \/ Above(c, h, b, a)

(* The entries below one are a run in the list, *)
Contiguous(c, h) ==
    \A a, b, x \in UsedIn(c) :
        Above(c, h, a, b) /\ Later(c, h, a, x) /\ Later(c, h, x, b) => Covers(c[a].cap, c[x].cap)

(* and so are those to the same object. *)
Together(c, h) ==
    \A x, y, z \in UsedIn(c) :
        sameObjectAs(c[x].cap, c[y].cap) /\ Later(c, h, x, z) /\ Later(c, h, z, y) =>
            sameObjectAs(c[x].cap, c[z].cap)

(* What is in use of an untyped region lies below its watermark. *)
BelowMark(c, h) ==
    \A a, b \in UsedIn(c) : Above(c, h, a, b) =>
        c[b].cap.base + BIT[c[b].cap.bits] <= c[a].cap.base + c[a].cap.free

TreeSound(c, h) ==
    EntriesSound(c) /\ Ordered(c, h) /\ Apart(c, h) /\ Contiguous(c, h) /\ Together(c, h) /\ BelowMark(c, h)

(* d is c with the entry t linked in behind s. *)
Linked(c, d, s, t) ==
    /\ s \in UsedIn(c) /\ t \in Slots \ UsedIn(c)
    /\ d \in [Slots -> Entries]
    /\ d[t].prev = s /\ d[t].next = c[s].next /\ d[s].next = t
    /\ \A x \in Slots \ {t} :
          /\ d[x].cap = c[x].cap
          /\ d[x].revocable = c[x].revocable
          /\ d[x].firstBadged = c[x].firstBadged
          /\ x # s => d[x].next = c[x].next
          /\ d[x].prev = IF x = c[s].next THEN t ELSE c[x].prev

(* p may be linked in behind s: it is to memory of s that is not in use, or to
   the object of s. *)
Hangs(c, h, s, p) ==
    /\ p \in SoundCaps
    /\ \/ /\ c[s].cap.type = "untyped" /\ Covers(c[s].cap, p)
          /\ p.base + BIT[p.bits] <= c[s].cap.base + c[s].cap.free
          /\ \A x \in UsedIn(c) \ {s} : Overlap(c[x].cap, p) => Above(c, h, x, s)
       \/ sameObjectAs(c[s].cap, p)

LEMMA LinkSound ==
    ASSUME NEW c, NEW d, NEW h, NEW s, NEW t, TreeSound(c, h), Linked(c, d, s, t),
           Hangs(c, h, s, d[t].cap), d[t].cap.type = "untyped" => d[t].revocable
    PROVE  LET g == Lifted(h, s, t)
           IN  /\ TreeSound(d, g)
               /\ UsedIn(d) = UsedIn(c) \cup {t}
               /\ \A x, y \in UsedIn(c) : Above(d, g, x, y) <=> Above(c, h, x, y)
<1> DEFINE g == Lifted(h, s, t)
           p == d[t].cap
           q == c[s].cap
<1>1. /\ c \in [Slots -> Entries] /\ d \in [Slots -> Entries]
      /\ s \in Slots /\ t \in Slots /\ s # t /\ s \in UsedIn(c) /\ t \notin UsedIn(c)
      /\ UsedIn(c) \subseteq Slots
  BY DEF TreeSound, EntriesSound, Linked, UsedIn
<1>2. /\ p \in SoundCaps /\ \A x \in UsedIn(c) : c[x].cap \in SoundCaps /\ d[x].cap = c[x].cap
      /\ UsedIn(d) = UsedIn(c) \cup {t}
  BY <1>1, CapFacts DEF TreeSound, EntriesSound, Linked, UsedIn, IsEmpty, Hangs
<1>3. Covers(q, p) /\ Root(p) = Root(q)
  BY <1>1, <1>2, CapFacts DEF Hangs
<1>4. Ordered(c, h)
  BY DEF TreeSound
<1>5. Ordered(d, g)
  <2>1. /\ d[t].prev = s /\ d[t].next = c[s].next /\ d[s].next = t
        /\ \A x \in UsedIn(c) : x # s => d[x].next = c[x].next
        /\ \A x \in UsedIn(c) : d[x].prev = IF x = c[s].next THEN t ELSE c[x].prev
        /\ \A x \in UsedIn(c) : Root(d[x].cap) = Root(c[x].cap)
    BY <1>1, <1>2 DEF Linked
  <2>2. t \in Slots \ UsedIn(c)
    BY <1>1
  <2> QED  BY <1>1, <1>2, <1>3, <1>4, <2>1, <2>2, InsertOrdered
<1>6. /\ \A x, y : x # t /\ y # t => (Later(d, g, x, y) <=> Later(c, h, x, y))
      /\ \A x : Later(d, g, x, t) <=> x = s \/ Later(c, h, x, s)
      /\ \A y : Later(d, g, t, y) <=> Later(c, h, s, y)
  <2>1. t \in Slots \ UsedIn(c) /\ \A x \in UsedIn(c) : Root(d[x].cap) = Root(c[x].cap)
    BY <1>1, <1>2
  <2> QED  BY <1>1, <1>2, <1>3, <1>4, <2>1, InsertOrder
<1>7. /\ \A x, y : Later(c, h, x, y) => x \in UsedIn(c) /\ y \in UsedIn(c) /\ x # y /\ ~Later(c, h, y, x)
      /\ \A x, y, z : Later(c, h, x, y) /\ Later(c, h, y, z) => Later(c, h, x, z)
  BY <1>4, LaterOrder DEF Later
<1>8. EntriesSound(d)
  <2> SUFFICES ASSUME NEW x \in Slots
               PROVE  IF IsEmpty(d, x) THEN d[x] = EmptyEntry
                      ELSE d[x].cap \in SoundCaps /\ (d[x].cap.type = "untyped" => d[x].revocable)
    BY <1>1 DEF EntriesSound
  <2>1. CASE x = t
    BY <1>1, <1>2, <2>1, CapFacts DEF IsEmpty
  <2>2. CASE x \in UsedIn(c)
    <3>1. d[x].cap = c[x].cap /\ d[x].revocable = c[x].revocable
      BY <1>1, <2>2 DEF Linked
    <3> QED  BY <1>1, <1>2, <2>2, <3>1, CapFacts DEF IsEmpty, TreeSound, EntriesSound
  <2>3. CASE x # t /\ x \notin UsedIn(c)
    <3>1. c[x] = EmptyEntry /\ x # s /\ x # c[s].next
      <4>1. c[x] = EmptyEntry
        BY <2>3 DEF UsedIn, TreeSound, EntriesSound
      <4>2. c[s].next \in Slots => Adjacent(c, h, s, c[s].next)
        BY <1>1, <1>4 DEF Ordered
      <4> QED  BY <1>1, <1>7, <2>3, <4>1, <4>2 DEF Adjacent
    <3>2. c[x] \in Entries /\ d[x] \in Entries
      BY <1>1
    <3>3. d[x] = c[x]
      BY <2>3, <3>1, <3>2 DEF Linked, Entries
    <3> QED  BY <3>1, <3>3 DEF IsEmpty, EmptyEntry, NullCap
  <2> QED  BY <2>1, <2>2, <2>3
<1> HIDE DEF g, p, q
<1>9. \A x, y \in UsedIn(c) : Above(d, g, x, y) <=> Above(c, h, x, y)
  BY <1>1, <1>2, <1>6 DEF Above
<1>10. \A x \in UsedIn(c) : Above(d, g, x, t) <=>
           c[x].cap.type = "untyped" /\ (x = s \/ Later(c, h, x, s)) /\ Covers(c[x].cap, p)
  BY <1>1, <1>2, <1>6 DEF Above, p
<1>11. \A a, b \in UsedIn(c) : a # b /\ Overlap(c[a].cap, c[b].cap) =>
           sameObjectAs(c[a].cap, c[b].cap) \/ Above(c, h, a, b) \/ Above(c, h, b, a)
  BY DEF TreeSound, Apart
<1>12. \A x \in UsedIn(c) \ {s} : Overlap(c[x].cap, p) =>
           Above(c, h, x, s) \/ (sameObjectAs(c[x].cap, p) /\ sameObjectAs(q, p) /\ sameObjectAs(c[x].cap, q))
  <2> SUFFICES ASSUME NEW x \in UsedIn(c) \ {s}, Overlap(c[x].cap, p), ~Above(c, h, x, s)
               PROVE  sameObjectAs(c[x].cap, p) /\ sameObjectAs(q, p) /\ sameObjectAs(c[x].cap, q)
    OBVIOUS
  <2>1. sameObjectAs(q, p)
    BY DEF Hangs, p, q
  <2>2. q \in SoundCaps /\ c[x].cap \in SoundCaps /\ p \in SoundCaps
    BY <1>1, <1>2 DEF q, p
  <2>3. q.type = "endpoint" /\ p.type = "endpoint" /\ q.base = p.base
    BY <2>1, <2>2, CapFacts
  <2>4. Overlap(c[x].cap, q)
    BY <1>3, <2>2, CapFacts DEF p, q
  <2>5. sameObjectAs(c[x].cap, q) \/ Above(c, h, s, x)
    BY <1>1, <1>11, <2>4 DEF q
  <2>6. sameObjectAs(c[x].cap, q)
    BY <2>3, <2>5 DEF Above, q
  <2>7. sameObjectAs(c[x].cap, p)
    BY <2>2, <2>3, <2>6, CapFacts
  <2> QED  BY <2>1, <2>6, <2>7
<1>13. q \in SoundCaps /\ p \in SoundCaps /\ (q.type = "untyped" \/ sameObjectAs(q, p))
  BY <1>1, <1>2 DEF Hangs, p, q
<1>14. q.type = "untyped" => p.base + BIT[p.bits] <= q.base + q.free
  BY <1>13, CapFacts DEF Hangs, p, q
<1>15. Apart(d, g)
  <2>1. \A x \in UsedIn(c) : Overlap(c[x].cap, p) => Above(d, g, x, t) \/ sameObjectAs(c[x].cap, p)
    <3> SUFFICES ASSUME NEW x \in UsedIn(c), Overlap(c[x].cap, p), ~sameObjectAs(c[x].cap, p)
                 PROVE  Above(d, g, x, t)
      OBVIOUS
    <3>1. CASE x = s
      BY <1>3, <1>10, <1>13, <3>1 DEF p, q
    <3>2. CASE x # s
      <4>1. Above(c, h, x, s)
        BY <1>12, <3>2
      <4>2. Covers(c[x].cap, q) /\ c[x].cap.type = "untyped" /\ Later(c, h, x, s)
        BY <4>1 DEF Above, q
      <4>3. Covers(c[x].cap, p)
        BY <1>2, <1>3, <1>13, <4>2, CapFacts DEF p, q
      <4> QED  BY <1>10, <4>2, <4>3
    <3> QED  BY <3>1, <3>2
  <2>2. \A a, b \in SoundCaps : /\ Overlap(a, b) => Overlap(b, a)
                                /\ sameObjectAs(a, b) => sameObjectAs(b, a)
    BY CapFacts
  <2> QED  BY <1>2, <1>9, <1>11, <1>13, <2>1, <2>2 DEF Apart, p
<1>16. \A y \in UsedIn(c) : ~Above(d, g, t, y)
  <2> SUFFICES ASSUME NEW y \in UsedIn(c), Above(d, g, t, y) PROVE FALSE
    OBVIOUS
  <2>1. p.type = "untyped" /\ Later(c, h, s, y) /\ Covers(p, c[y].cap)
    BY <1>2, <1>6 DEF Above, p
  <2>2. Overlap(c[y].cap, p) /\ y # s /\ c[y].cap \in SoundCaps
    BY <1>2, <1>7, <1>13, <2>1, CapFacts
  <2>3. ~sameObjectAs(c[y].cap, p)
    BY <1>13, <2>1, <2>2, CapFacts
  <2>4. Later(c, h, y, s)
    BY <1>12, <2>2, <2>3 DEF Above
  <2> QED  BY <1>7, <2>1, <2>4
<1>17. Contiguous(d, g)
  <2>1. \A a, b, x \in UsedIn(c) :
            Above(c, h, a, b) /\ Later(c, h, a, x) /\ Later(c, h, x, b) => Covers(c[a].cap, c[x].cap)
    BY DEF TreeSound, Contiguous
  <2> SUFFICES ASSUME NEW a \in UsedIn(d), NEW b \in UsedIn(d), NEW x \in UsedIn(d),
                      Above(d, g, a, b), Later(d, g, a, x), Later(d, g, x, b)
               PROVE  Covers(d[a].cap, d[x].cap)
    BY DEF Contiguous
  <2>2. a # x /\ x # b /\ a # b
    BY <1>5, LaterOrder DEF Above
  <2>3. a # t
    BY <1>2, <1>16, <2>2
  <2>a. a \in UsedIn(c) /\ d[a].cap = c[a].cap /\ c[a].cap \in SoundCaps
    BY <1>2, <2>3
  <2>4. CASE x # t /\ b # t
    <3>1. x \in UsedIn(c) /\ b \in UsedIn(c) /\ d[x].cap = c[x].cap
      BY <1>2, <2>4
    <3>2. Above(c, h, a, b) /\ Later(c, h, a, x) /\ Later(c, h, x, b)
      BY <1>6, <1>9, <2>a, <2>3, <2>4, <3>1
    <3> QED  BY <2>1, <2>a, <3>1, <3>2
  <2>5. CASE x = t
    <3>1. b \in UsedIn(c) /\ Above(c, h, a, b) /\ Later(c, h, s, b) /\ (a = s \/ Later(c, h, a, s))
      BY <1>2, <1>6, <1>9, <2>2, <2>a, <2>5
    <3>2. Covers(c[a].cap, q)
      BY <1>1, <1>13, <2>1, <2>a, <3>1, CapFacts DEF q
    <3> QED  BY <1>3, <1>13, <2>a, <2>5, <3>2, CapFacts DEF p, q
  <2>6. CASE b = t
    <3>1. x \in UsedIn(c) /\ Later(c, h, a, x) /\ (x = s \/ Later(c, h, x, s))
      BY <1>2, <1>6, <2>2, <2>3, <2>6
    <3>2. a # s /\ Later(c, h, a, s)
      BY <1>7, <3>1
    <3>3. c[a].cap.type = "untyped" /\ Covers(c[a].cap, p)
      BY <1>10, <2>a, <2>6
    <3>4. Overlap(c[a].cap, p) /\ ~sameObjectAs(c[a].cap, p)
      BY <1>13, <2>a, <3>3, CapFacts
    <3>5. Above(c, h, a, s)
      BY <1>12, <2>a, <3>2, <3>4
    <3> QED  BY <1>1, <1>2, <2>1, <2>a, <3>1, <3>5 DEF Above
  <2> QED  BY <2>4, <2>5, <2>6
<1>18. \A x, y, z \in UsedIn(c) :
           sameObjectAs(c[x].cap, c[y].cap) /\ Later(c, h, x, z) /\ Later(c, h, z, y) =>
               sameObjectAs(c[x].cap, c[z].cap)
  BY DEF TreeSound, Together
<1>19. \A x \in UsedIn(c) : sameObjectAs(c[x].cap, p) \/ sameObjectAs(p, c[x].cap) =>
           sameObjectAs(c[x].cap, q) /\ sameObjectAs(q, c[x].cap) /\ sameObjectAs(q, p)
  <2> SUFFICES ASSUME NEW x \in UsedIn(c), sameObjectAs(c[x].cap, p) \/ sameObjectAs(p, c[x].cap)
               PROVE  sameObjectAs(c[x].cap, q) /\ sameObjectAs(q, c[x].cap) /\ sameObjectAs(q, p)
    OBVIOUS
  <2>1. c[x].cap \in SoundCaps /\ c[x].cap.type = "endpoint" /\ p.type = "endpoint" /\ c[x].cap.base = p.base
    BY <1>2, <1>13, CapFacts
  <2>2. sameObjectAs(c[x].cap, p) /\ Overlap(c[x].cap, p)
    BY <1>13, <2>1, CapFacts
  <2>3. x = s => sameObjectAs(q, p) /\ sameObjectAs(c[x].cap, q)
    BY <1>13, <2>1, <2>2, CapFacts DEF q
  <2>4. x # s => sameObjectAs(q, p) /\ sameObjectAs(c[x].cap, q)
    BY <1>12, <2>1, <2>2 DEF Above
  <2> QED  BY <1>13, <2>1, <2>3, <2>4, CapFacts
<1>20. Together(d, g)
  <2> SUFFICES ASSUME NEW x \in UsedIn(d), NEW y \in UsedIn(d), NEW z \in UsedIn(d),
                      sameObjectAs(d[x].cap, d[y].cap), Later(d, g, x, z), Later(d, g, z, y)
               PROVE  sameObjectAs(d[x].cap, d[z].cap)
    BY DEF Together
  <2>1. x # z /\ z # y /\ x # y
    BY <1>5, LaterOrder
  <2>2. CASE x # t /\ y # t /\ z # t
    BY <1>2, <1>6, <1>18, <2>2
  <2>3. CASE z = t
    <3>1. /\ x \in UsedIn(c) /\ y \in UsedIn(c) /\ sameObjectAs(c[x].cap, c[y].cap)
          /\ Later(c, h, s, y) /\ (x = s \/ Later(c, h, x, s))
      BY <1>2, <1>6, <2>1, <2>3
    <3>2. c[x].cap.type = "endpoint" /\ c[x].cap \in SoundCaps
      BY <1>2, <3>1, CapFacts
    <3>3. x = s \/ sameObjectAs(c[x].cap, q)
      BY <1>1, <1>18, <3>1 DEF q
    <3>4. q.type = "endpoint" /\ q.base = c[x].cap.base
      BY <1>13, <3>2, <3>3, CapFacts DEF q
    <3>5. p.type = "endpoint" /\ p.base = q.base
      <4>1. q.type # "untyped"
        BY <3>4
      <4> QED  BY <1>13, <4>1, CapFacts
    <3>6. sameObjectAs(c[x].cap, p)
      BY <1>13, <3>2, <3>4, <3>5, CapFacts
    <3> QED  BY <1>2, <2>3, <3>1, <3>6 DEF p
  <2>4. CASE y = t
    <3>1. /\ x \in UsedIn(c) /\ z \in UsedIn(c) /\ sameObjectAs(c[x].cap, p)
          /\ Later(c, h, x, z) /\ (z = s \/ Later(c, h, z, s))
      BY <1>2, <1>6, <2>1, <2>4 DEF p
    <3>2. sameObjectAs(c[x].cap, q)
      BY <1>19, <3>1
    <3>3. sameObjectAs(c[x].cap, c[z].cap)
      BY <1>1, <1>18, <3>1, <3>2 DEF q
    <3> QED  BY <1>2, <3>1, <3>3
  <2>5. CASE x = t
    <3>1. /\ y \in UsedIn(c) /\ z \in UsedIn(c) /\ sameObjectAs(p, c[y].cap)
          /\ Later(c, h, s, z) /\ Later(c, h, z, y)
      BY <1>2, <1>6, <2>1, <2>5 DEF p
    <3>2. sameObjectAs(q, c[y].cap) /\ sameObjectAs(q, p)
      BY <1>19, <3>1
    <3>3. sameObjectAs(q, c[z].cap)
      BY <1>1, <1>18, <3>1, <3>2 DEF q
    <3>4. sameObjectAs(p, c[z].cap)
      BY <1>2, <1>13, <3>1, <3>2, <3>3, CapFacts
    <3> QED  BY <1>2, <2>5, <3>1, <3>4 DEF p
  <2> QED  BY <2>2, <2>3, <2>4, <2>5
<1>21. BelowMark(d, g)
  <2>1. \A a, b \in UsedIn(c) : Above(c, h, a, b) =>
           c[b].cap.base + BIT[c[b].cap.bits] <= c[a].cap.base + c[a].cap.free
    BY DEF TreeSound, BelowMark
  <2> SUFFICES ASSUME NEW a \in UsedIn(d), NEW b \in UsedIn(d), Above(d, g, a, b)
               PROVE  d[b].cap.base + BIT[d[b].cap.bits] <= d[a].cap.base + d[a].cap.free
    BY DEF BelowMark
  <2>2. a # b
    BY <1>5, LaterOrder DEF Above
  <2>3. a # t
    BY <1>2, <1>16, <2>2
  <2>4. CASE b # t
    BY <1>2, <1>9, <2>1, <2>3, <2>4
  <2>5. CASE b = t
    <3>1. a \in UsedIn(c) /\ c[a].cap.type = "untyped" /\ Covers(c[a].cap, p)
      BY <1>2, <1>10, <2>3, <2>5
    <3>2. CASE a = s
      BY <1>2, <1>14, <2>5, <3>1, <3>2 DEF p, q
    <3>3. CASE a # s
      <4>1. Overlap(c[a].cap, p) /\ ~sameObjectAs(c[a].cap, p)
        BY <1>2, <1>13, <3>1, CapFacts
      <4>2. Above(c, h, a, s)
        BY <1>12, <3>1, <3>3, <4>1
      <4>3. q.base + BIT[q.bits] <= c[a].cap.base + c[a].cap.free
        BY <1>1, <2>1, <3>1, <4>2 DEF q
      <4>4. p.base + BIT[p.bits] <= q.base + BIT[q.bits]
        BY <1>3 DEF Covers, p, q
      <4>5. /\ p.base \in Nat /\ BIT[p.bits] \in Nat /\ q.base \in Nat /\ BIT[q.bits] \in Nat
            /\ c[a].cap.base \in Nat /\ c[a].cap.free \in Nat
        BY <1>2, <1>13, <3>1, BITFacts DEF SoundCaps, Caps
      <4>6. d[a].cap = c[a].cap
        BY <1>2, <3>1
      <4> QED  BY <2>5, <4>3, <4>4, <4>5, <4>6 DEF p
    <3> QED  BY <3>2, <3>3
  <2> QED  BY <2>4, <2>5
<1> QED  BY <1>2, <1>5, <1>8, <1>9, <1>15, <1>17, <1>20, <1>21 DEF TreeSound, g

(* An untyped capability that HasChildren denies children to is above
   nothing. *)
LEMMA Childless ==
    ASSUME NEW c, NEW h, TreeSound(c, h), NEW s \in Slots, c[s].cap.type = "untyped", ~HasChildren(c, s)
    PROVE  \A b : ~Above(c, h, s, b)
<1> SUFFICES ASSUME NEW b, Above(c, h, s, b) PROVE FALSE
  OBVIOUS
<1>1. /\ s \in UsedIn(c) /\ b \in UsedIn(c) /\ Later(c, h, s, b) /\ Covers(c[s].cap, c[b].cap)
      /\ UsedIn(c) \subseteq Slots
  BY DEF Above, Later, UsedIn
<1>2. Ordered(c, h) /\ Contiguous(c, h) /\ EntriesSound(c)
  BY DEF TreeSound
<1> DEFINE n == c[s].next
<1>3. n # NoSlot /\ n \in Slots /\ Adjacent(c, h, s, n)
  BY <1>1, <1>2 DEF Ordered, Slot
<1> HIDE DEF n
<1>4. (n \in UsedIn(c) /\ Later(c, h, s, n) /\ ~Later(c, h, b, n)) \/ n = b
  <2>1. n \in UsedIn(c) /\ Later(c, h, s, n)
    BY <1>3 DEF Adjacent, Later
  <2>2. ~Later(c, h, b, n)
    BY <1>1, <1>3 DEF Adjacent
  <2> QED  BY <2>1, <2>2
<1>5. n = b \/ Later(c, h, n, b)
  <2>1. \A x, y \in UsedIn(c) : Root(c[x].cap) = Root(c[y].cap) /\ x # y =>
                 Later(c, h, x, y) \/ Later(c, h, y, x)
    BY <1>2, LaterOrder
  <2> QED  BY <1>1, <1>4, <2>1 DEF Later
<1>6. Covers(c[s].cap, c[n].cap)
  BY <1>1, <1>2, <1>4, <1>5 DEF Contiguous
<1>7. c[s].revocable /\ c[s].cap.badge = 0 /\ c[n].cap.type # "null"
  BY <1>1, <1>2, <1>4, <1>5 DEF EntriesSound, SoundCaps, UsedIn, IsEmpty
<1> QED  BY <1>3, <1>6, <1>7 DEF HasChildren, isMDBParentOf, sameRegionAs, n

Marked(c, s, f) == [c EXCEPT ![s].cap.free = f]

(* The watermark of s may be set to what is no lower than all that lies below
   s. *)
LEMMA MarkSound ==
    ASSUME NEW c, NEW h, TreeSound(c, h), NEW s \in Slots, c[s].cap.type = "untyped",
           NEW f \in Nat, f <= BIT[c[s].cap.bits],
           \A b \in UsedIn(c) : Above(c, h, s, b) => c[b].cap.base + BIT[c[b].cap.bits] <= c[s].cap.base + f
    PROVE  LET d == Marked(c, s, f)
           IN  /\ TreeSound(d, h)
               /\ UsedIn(d) = UsedIn(c)
               /\ \A x, y : Above(d, h, x, y) <=> Above(c, h, x, y)
<1> DEFINE d == Marked(c, s, f)
<1> USE DEF Marked
<1>1. c \in [Slots -> Entries] /\ EntriesSound(c) /\ s \in UsedIn(c) /\ UsedIn(c) \subseteq Slots
  BY DEF TreeSound, EntriesSound, UsedIn, IsEmpty
<1>2. d \in [Slots -> Entries]
  BY <1>1 DEF Entries, Caps
<1>3. \A x \in Slots :
         /\ d[x].next = c[x].next /\ d[x].prev = c[x].prev /\ d[x].revocable = c[x].revocable
         /\ d[x].cap.type = c[x].cap.type /\ d[x].cap.base = c[x].cap.base /\ d[x].cap.bits = c[x].cap.bits
         /\ d[x].cap.badge = c[x].cap.badge
         /\ x # s => d[x] = c[x] 
  <2>1. \A x \in Slots : d[x] = IF x = s THEN [c[s] EXCEPT !.cap = [c[s].cap EXCEPT !.free = f]] ELSE c[x]
    BY <1>1
  <2>2. c[s] \in Entries /\ c[s].cap \in Caps
    BY <1>1 DEF Entries
  <2>3. [c[s].cap EXCEPT !.free = f] \in Caps
    BY <2>2 DEF Caps
  <2> QED  BY <2>1, <2>2, <2>3 DEF Entries, Caps
<1>4. d[s].cap.free = f
  BY <1>1 DEF Entries, Caps
<1> HIDE DEF d
<1>5. UsedIn(d) = UsedIn(c)
  BY <1>3 DEF UsedIn, IsEmpty
<1>6. \A x, y \in Slots :
         /\ Root(d[x].cap) = Root(c[x].cap) /\ Region(d[x].cap) = Region(c[x].cap)
         /\ Covers(d[x].cap, d[y].cap) <=> Covers(c[x].cap, c[y].cap)
         /\ Overlap(d[x].cap, d[y].cap) <=> Overlap(c[x].cap, c[y].cap)
         /\ sameObjectAs(d[x].cap, d[y].cap) <=> sameObjectAs(c[x].cap, c[y].cap)
  BY <1>3 DEF Root, Region, Covers, Overlap, sameObjectAs, sameRegionAs
<1>7. \A x, y : Later(d, h, x, y) <=> Later(c, h, x, y)
  BY <1>1, <1>5, <1>6 DEF Later
<1>8. \A x, y : Above(d, h, x, y) <=> Above(c, h, x, y)
  BY <1>1, <1>3, <1>5, <1>6, <1>7 DEF Above, Later
<1>9. EntriesSound(d)
  <2> SUFFICES ASSUME NEW x \in Slots
               PROVE  IF IsEmpty(d, x) THEN d[x] = EmptyEntry
                      ELSE d[x].cap \in SoundCaps /\ (d[x].cap.type = "untyped" => d[x].revocable)
    BY <1>2 DEF EntriesSound
  <2>1. CASE x # s
    BY <1>1, <1>3, <2>1 DEF EntriesSound, IsEmpty
  <2>2. CASE x = s
    <3>1. c[s].cap \in SoundCaps /\ c[s].revocable /\ d[s].cap \in Caps
      BY <1>1, <1>2 DEF EntriesSound, UsedIn, Entries
    <3>2. d[s].cap.type = "untyped" /\ d[s].cap.badge = 0 /\ d[s].revocable
      BY <1>3, <3>1 DEF SoundCaps
    <3>3. \A u \in Region(d[s].cap) : u \div BIT[MemBits] = Root(d[s].cap)
      BY <1>6, <3>1 DEF SoundCaps
    <3>4. \E k \in Nat : d[s].cap.base = BIT[d[s].cap.bits] * k
      BY <1>3, <3>1 DEF SoundCaps
    <3>5. d[s].cap.free <= BIT[d[s].cap.bits]
      BY <1>3, <1>4
    <3>6. d[s].cap \in SoundCaps
      BY <3>1, <3>2, <3>3, <3>4, <3>5 DEF SoundCaps
    <3> QED  BY <2>2, <3>2, <3>6 DEF IsEmpty
  <2> QED  BY <2>1, <2>2
<1>10. Ordered(d, h)
  <2>1. Ordered(c, h)
    BY DEF TreeSound
  <2>2. \A x, y : Adjacent(d, h, x, y) <=> Adjacent(c, h, x, y)
    BY <1>7 DEF Adjacent
  <2> QED  BY <1>1, <1>3, <1>5, <1>6, <1>7, <2>1, <2>2 DEF Ordered
<1>11. Apart(d, h) /\ Contiguous(d, h) /\ Together(d, h)
  BY <1>1, <1>5, <1>6, <1>7, <1>8 DEF TreeSound, Apart, Contiguous, Together
<1>12. BelowMark(d, h)
  <2> SUFFICES ASSUME NEW a \in UsedIn(c), NEW b \in UsedIn(c), Above(c, h, a, b)
               PROVE  d[b].cap.base + BIT[d[b].cap.bits] <= d[a].cap.base + d[a].cap.free
    BY <1>5, <1>8 DEF BelowMark
  <2>1. c[b].cap.base + BIT[c[b].cap.bits] <= c[a].cap.base + c[a].cap.free
    BY DEF TreeSound, BelowMark
  <2>2. d[b].cap.base = c[b].cap.base /\ d[b].cap.bits = c[b].cap.bits /\ d[a].cap.base = c[a].cap.base
    BY <1>1, <1>3
  <2>3. a # s => d[a].cap.free = c[a].cap.free
    BY <1>1, <1>3
  <2> QED  BY <1>4, <2>1, <2>2, <2>3
<1> QED  BY <1>5, <1>8, <1>9, <1>10, <1>11, <1>12 DEF TreeSound, d

(* Linking a new entry in behind src. *)
Link(c, cap, flag, src, dest) ==
    SetPrev([c EXCEPT ![dest] = [cap |-> cap, prev |-> src, next |-> c[src].next,
                                 revocable |-> flag, firstBadged |-> flag],
                      ![src].next = dest], c[src].next, dest)

LEMMA LinkLinks ==
    ASSUME NEW c, NEW h, TreeSound(c, h), NEW s \in UsedIn(c), NEW t \in Slots \ UsedIn(c),
           NEW cap \in Caps, NEW flag \in BOOLEAN
    PROVE  LET d == Link(c, cap, flag, s, t)
           IN  /\ Linked(c, d, s, t)
               /\ d[t].cap = cap /\ d[t].revocable = flag /\ d[t].firstBadged = flag
<1> DEFINE n == c[s].next
           e == [cap |-> cap, prev |-> s, next |-> n, revocable |-> flag, firstBadged |-> flag]
           c1 == [c EXCEPT ![t] = e, ![s].next = t]
           d == Link(c, cap, flag, s, t)
<1>1. /\ c \in [Slots -> Entries] /\ s \in Slots /\ t \in Slots /\ s # t /\ n \in Slot
      /\ NoSlot \notin Slots
  BY CteAssumption DEF TreeSound, EntriesSound, UsedIn, Entries
<1>2. n # t /\ n # s
  <2>1. n \in Slots => Adjacent(c, h, s, n)
    BY DEF TreeSound, Ordered
  <2>2. n \in Slots => Later(c, h, s, n)
    BY <2>1 DEF Adjacent
  <2> QED  BY <1>1, <2>2, LaterOrder DEF TreeSound, Later
<1>3. e \in Entries
  BY <1>1 DEF Entries, Slot
<1>4. /\ c1 \in [Slots -> Entries] /\ c1[t] = e /\ c1[s] = [c[s] EXCEPT !.next = t]
      /\ \A x \in Slots : x # s /\ x # t => c1[x] = c[x]
  <2>1. [c[s] EXCEPT !.next = t] \in Entries
    BY <1>1 DEF Entries, Slot
  <2> HIDE DEF e
  <2> QED  BY <1>1, <1>3, <2>1
<1>5. /\ d \in [Slots -> Entries]
      /\ \A x \in Slots : d[x] = IF x = n THEN [c1[x] EXCEPT !.prev = t] ELSE c1[x]
  <2>1. d = SetPrev(c1, n, t)
    BY DEF Link
  <2> HIDE DEF c1, d, e
  <2>2. CASE n = NoSlot
    BY <1>1, <1>4, <2>1, <2>2 DEF SetPrev
  <2>3. CASE n # NoSlot
    <3>1. n \in Slots /\ [c1[n] EXCEPT !.prev = t] \in Entries
      BY <1>1, <1>4, <2>3 DEF Entries, Slot
    <3> QED  BY <1>1, <1>4, <2>1, <2>3, <3>1 DEF SetPrev
  <2> QED  BY <2>2, <2>3
<1>6. d[t] = e
  BY <1>1, <1>2, <1>4, <1>5
<1> HIDE DEF c1, d
<1>7. \A x \in Slots \ {t} :
          /\ d[x].cap = c[x].cap
          /\ d[x].revocable = c[x].revocable
          /\ d[x].firstBadged = c[x].firstBadged
          /\ x # s => d[x].next = c[x].next
          /\ d[x].prev = IF x = n THEN t ELSE c[x].prev
  <2> TAKE x \in Slots \ {t}
  <2>1. c[x] \in Entries /\ c1[x] \in Entries /\ c[s] \in Entries
    BY <1>1, <1>4
  <2>2. CASE x = s
    BY <1>2, <1>4, <1>5, <2>1, <2>2 DEF Entries
  <2>3. CASE x # s
    BY <1>4, <1>5, <2>1, <2>3 DEF Entries
  <2> QED  BY <2>2, <2>3
<1>8. d[s].next = t
  <2>1. d[s] = c1[s] /\ c[s] \in Entries
    BY <1>1, <1>2, <1>5
  <2> QED  BY <1>4, <2>1 DEF Entries
<1> QED  BY <1>1, <1>5, <1>6, <1>7, <1>8 DEF Linked, d

(* d is c without the entry s: its successor inherits the mark of s. *)
Unlinked(c, d, h, s) ==
    /\ \A x \in Slots \ {s} :
          /\ d[x].revocable = c[x].revocable
          /\ d[x].firstBadged = (c[x].firstBadged \/ (x = c[s].next /\ c[s].firstBadged))
          /\ d[x].prev = IF x = c[s].next THEN c[s].prev ELSE c[x].prev
    /\ \A x, y : Later(d, h, x, y) <=> x # s /\ y # s /\ Later(c, h, x, y)

(* Deleting an entry, used or not, disturbs nothing. *)
LEMMA EmptySound ==
    ASSUME NEW c, NEW h, TreeSound(c, h), NEW s \in Slots
    PROVE  LET d == emptySlot(c, s)
           IN  /\ TreeSound(d, h)
               /\ UsedIn(d) = UsedIn(c) \ {s}
               /\ \A x \in Slots \ {s} : d[x].cap = c[x].cap
               /\ s \in UsedIn(c) => Unlinked(c, d, h, s)
<1> DEFINE n == c[s].next
           p == c[s].prev
           c0 == SetNext(c, p, n)
           c1 == SetPrev(c0, n, p)
           c2 == IF n = NoSlot THEN c1 ELSE [c1 EXCEPT ![n].firstBadged = @ \/ c[s].firstBadged]
           d == emptySlot(c, s)
<1>1. /\ c \in [Slots -> Entries] /\ EntriesSound(c) /\ Ordered(c, h)
      /\ NoSlot \notin Slots /\ n \in Slot /\ p \in Slot
  BY CteAssumption DEF TreeSound, EntriesSound, Entries
<1>2. CASE IsEmpty(c, s)
  BY <1>2 DEF emptySlot, UsedIn
<1>3. CASE ~IsEmpty(c, s)
  <2>1. s \in UsedIn(c)
    BY <1>3 DEF UsedIn
  <2>2. n # s /\ p # s /\ (n = p => n = NoSlot)
    <3>1. n \in Slots => Later(c, h, s, n)
      BY <1>1, <2>1 DEF Ordered, Adjacent
    <3>2. p \in Slots => Later(c, h, p, s)
      BY <1>1, <2>1 DEF Ordered, Adjacent
    <3> QED  BY <1>1, <3>1, <3>2, LaterOrder DEF Slot
  <2>3. /\ n \in Slots => n \in UsedIn(c)
        /\ p \in Slots => p \in UsedIn(c)
    BY <1>1, <2>1 DEF Ordered, Adjacent, Later
  <2>4. c0 \in [Slots -> Entries] /\ \A x \in Slots : c0[x] = IF x = p THEN [c[x] EXCEPT !.next = n] ELSE c[x]
    BY <1>1 DEF SetNext, Slot, Entries
  <2> HIDE DEF c0
  <2>5. c1 \in [Slots -> Entries] /\ \A x \in Slots : c1[x] = IF x = n THEN [c0[x] EXCEPT !.prev = p] ELSE c0[x]
    BY <1>1, <2>4 DEF SetPrev, Slot, Entries
  <2> HIDE DEF c1
  <2>6. /\ c2 \in [Slots -> Entries]
        /\ \A x \in Slots : x # n => c2[x] = c1[x]
        /\ \A x \in Slots : /\ c2[x].cap = c1[x].cap /\ c2[x].next = c1[x].next
                            /\ c2[x].prev = c1[x].prev /\ c2[x].revocable = c1[x].revocable
        /\ n \in Slots => c2[n].firstBadged = (c1[n].firstBadged \/ c[s].firstBadged)
    <3>1. CASE n = NoSlot
      BY <1>1, <2>5, <3>1
    <3>2. CASE n # NoSlot
      <4>1. n \in Slots
        BY <1>1, <3>2 DEF Slot
      <4> DEFINE b == c1[n].firstBadged \/ c[s].firstBadged
      <4>2. b \in BOOLEAN
        BY <1>1, <2>5, <4>1 DEF Entries
      <4>3. c2 = [c1 EXCEPT ![n] = [c1[n] EXCEPT !.firstBadged = b]]
        BY <3>2
      <4>4. [c1[n] EXCEPT !.firstBadged = b] \in Entries
        BY ONLY <2>5, <4>1, <4>2 DEF Entries
      <4> HIDE DEF b, c2
      <4>5. \A x \in Slots : c2[x] = IF x = n THEN [c1[n] EXCEPT !.firstBadged = b] ELSE c1[x]
        BY <2>5, <4>3
      <4>6. c2 \in [Slots -> Entries]
        BY <2>5, <4>3, <4>4
      <4>7. c1[n] \in Entries
        BY <2>5, <4>1
      <4>8. c2[n].firstBadged = b
        BY <4>1, <4>5, <4>7 DEF Entries
      <4>9. /\ \A x \in Slots : x # n => c2[x] = c1[x]
            /\ \A x \in Slots : /\ c2[x].cap = c1[x].cap /\ c2[x].next = c1[x].next
                                /\ c2[x].prev = c1[x].prev /\ c2[x].revocable = c1[x].revocable
        BY <4>5, <4>7 DEF Entries
      <4> QED  BY <4>6, <4>8, <4>9 DEF b
    <3> QED  BY <3>1, <3>2
  <2> HIDE DEF c2
  <2>7. d = [c2 EXCEPT ![s] = EmptyEntry]
    BY <1>3 DEF emptySlot, c2, c1, c0
  <2>8. EmptyEntry \in Entries
    BY DEF EmptyEntry, Entries, NullCap, Caps, CapTypes, Slot
  <2>9. d \in [Slots -> Entries] /\ \A x \in Slots : d[x] = IF x = s THEN EmptyEntry ELSE c2[x]
    BY <2>6, <2>7, <2>8
  <2> HIDE DEF d
  <2>10. \A x \in Slots \ {s} :
            /\ d[x].cap = c[x].cap /\ d[x].revocable = c[x].revocable
            /\ d[x].next = IF x = p THEN n ELSE c[x].next
            /\ d[x].prev = IF x = n THEN p ELSE c[x].prev
            /\ d[x].firstBadged = (c[x].firstBadged \/ (x = n /\ c[s].firstBadged))
            /\ x # n /\ x # p => d[x] = c[x]
    <3> TAKE x \in Slots \ {s}
    <3>1. c[x] \in Entries /\ c0[x] \in Entries /\ c1[x] \in Entries
      BY <1>1, <2>4, <2>5
    <3>2. /\ c0[x].cap = c[x].cap /\ c0[x].revocable = c[x].revocable /\ c0[x].prev = c[x].prev
          /\ c0[x].next = IF x = p THEN n ELSE c[x].next
          /\ c0[x].firstBadged = c[x].firstBadged
      BY <2>4, <3>1 DEF Entries
    <3>3. /\ c1[x].cap = c0[x].cap /\ c1[x].revocable = c0[x].revocable /\ c1[x].next = c0[x].next
          /\ c1[x].prev = IF x = n THEN p ELSE c0[x].prev
          /\ c1[x].firstBadged = c0[x].firstBadged
      BY <2>5, <3>1 DEF Entries
    <3>4. x # n /\ x # p => d[x] = c[x]
      BY <2>4, <2>5, <2>6, <2>9
    <3>5. d[x] = c2[x] /\ c[x].firstBadged \in BOOLEAN
      BY <2>9, <3>1 DEF Entries
    <3>6. d[x].firstBadged = (c[x].firstBadged \/ (x = n /\ c[s].firstBadged))
      <4>1. CASE x = n
        BY <2>6, <3>2, <3>3, <3>5, <4>1
      <4>2. CASE x # n
        BY <2>6, <3>2, <3>3, <3>5, <4>2
      <4> QED  BY <4>1, <4>2
    <3> QED  BY <2>6, <3>2, <3>3, <3>4, <3>5, <3>6
  <2>11. UsedIn(d) = UsedIn(c) \ {s}
    BY <2>9, <2>10 DEF UsedIn, IsEmpty, EmptyEntry, NullCap
  <2>12. /\ Ordered(d, h)
         /\ \A x, y : Later(d, h, x, y) <=> x # s /\ y # s /\ Later(c, h, x, y)
    <3>1. \A x \in UsedIn(d) : x \in Slots \ {s}
      BY <2>11 DEF UsedIn
    <3>2. \A x \in UsedIn(d) : Root(d[x].cap) = Root(c[x].cap)
      BY <2>10, <3>1
    <3>3. \A x \in UsedIn(d) : d[x].next = IF x = c[s].prev THEN c[s].next ELSE c[x].next
      BY <2>10, <3>1
    <3>4. \A x \in UsedIn(d) : d[x].prev = IF x = c[s].next THEN c[s].prev ELSE c[x].prev
      BY <2>10, <3>1
    <3> QED  BY <1>1, <2>1, <2>11, <3>2, <3>3, <3>4, RemoveOrdered
  <2>13. EntriesSound(d)
    <3> SUFFICES ASSUME NEW x \in Slots
                 PROVE  IF IsEmpty(d, x) THEN d[x] = EmptyEntry
                        ELSE d[x].cap \in SoundCaps /\ (d[x].cap.type = "untyped" => d[x].revocable)
      BY <2>9 DEF EntriesSound
    <3>1. CASE x = s
      BY <2>9, <3>1 DEF IsEmpty, EmptyEntry, NullCap
    <3>2. CASE x # s /\ x \in UsedIn(c)
      BY <1>1, <2>10, <3>2 DEF IsEmpty, EntriesSound, UsedIn
    <3>3. CASE x # s /\ x \notin UsedIn(c)
      BY <1>1, <2>3, <2>10, <3>3 DEF IsEmpty, EntriesSound, UsedIn
    <3> QED  BY <3>1, <3>2, <3>3
  <2>14. /\ \A x \in UsedIn(d) : x \in UsedIn(c) /\ x # s /\ d[x].cap = c[x].cap
         /\ \A x, y \in UsedIn(d) : Above(d, h, x, y) <=> Above(c, h, x, y)
    <3>1. \A x \in UsedIn(d) : x \in UsedIn(c) /\ x # s /\ d[x].cap = c[x].cap
      BY <2>10, <2>11 DEF UsedIn
    <3> QED  BY <2>12, <3>1 DEF Above
  <2>15. Apart(d, h)
    BY <2>14 DEF TreeSound, Apart
  <2>16. Contiguous(d, h)
    BY <2>12, <2>14 DEF TreeSound, Contiguous
  <2>17. Together(d, h) /\ BelowMark(d, h)
    BY <2>12, <2>14 DEF TreeSound, Together, BelowMark
  <2>18. Unlinked(c, d, h, s)
    BY <2>10, <2>12 DEF Unlinked
  <2> QED  BY <2>10, <2>11, <2>12, <2>13, <2>15, <2>16, <2>17, <2>18 DEF TreeSound, d
<1> QED  BY <1>2, <1>3

(* The entries of c under other names: p exchanges slots, and the null pointer
   stays what it is. *)
Exchange(p) == p \in [Slot -> Slot] /\ p[NoSlot] = NoSlot /\ \A x \in Slot : p[p[x]] = x

Renamed(c, d, p) ==
    /\ d \in [Slots -> Entries]
    /\ \A x \in Slots :
          /\ d[x].cap = c[p[x]].cap
          /\ d[x].revocable = c[p[x]].revocable
          /\ d[x].firstBadged = c[p[x]].firstBadged
          /\ d[x].next = p[c[p[x]].next]
          /\ d[x].prev = p[c[p[x]].prev]

LEMMA RenameSound ==
    ASSUME NEW c, NEW d, NEW h, NEW p, TreeSound(c, h), Exchange(p), Renamed(c, d, p)
    PROVE  LET g == [x \in Slots |-> h[p[x]]]
           IN  TreeSound(d, g)
<1> DEFINE g == [x \in Slots |-> h[p[x]]]
<1>1. /\ c \in [Slots -> Entries] /\ d \in [Slots -> Entries]
      /\ EntriesSound(c) /\ Ordered(c, h) /\ h \in [Slots -> Nat] /\ NoSlot \notin Slots
  BY CteAssumption DEF TreeSound, EntriesSound, Ordered, Renamed
<1>2. /\ \A x \in Slots : p[x] \in Slots
      /\ \A x \in Slot : p[x] \in Slot /\ p[p[x]] = x
      /\ p[NoSlot] = NoSlot
  BY <1>1 DEF Exchange, Slot
<1>3. g \in [Slots -> Nat] /\ \A x \in Slots : g[x] = h[p[x]]
  BY <1>1, <1>2
<1> HIDE DEF g
<1>4. /\ \A x \in Slots : d[x].cap = c[p[x]].cap /\ d[x].revocable = c[p[x]].revocable
                          /\ d[x].next = p[c[p[x]].next] /\ d[x].prev = p[c[p[x]].prev]
      /\ \A x \in Slots : x \in UsedIn(d) <=> p[x] \in UsedIn(c)
      /\ UsedIn(c) \subseteq Slots /\ UsedIn(d) \subseteq Slots
  BY <1>2 DEF Renamed, UsedIn, IsEmpty
<1>5. \A x, y \in Slots : Later(d, g, x, y) <=> Later(c, h, p[x], p[y])
  BY <1>2, <1>3, <1>4 DEF Later
<1>6. \A x, y \in Slots : Adjacent(d, g, x, y) <=> Adjacent(c, h, p[x], p[y])
  <2> SUFFICES ASSUME NEW x \in Slots, NEW y \in Slots
               PROVE  (\E z \in Slots : Later(d, g, x, z) /\ Later(d, g, z, y))
                         <=> (\E z \in Slots : Later(c, h, p[x], z) /\ Later(c, h, z, p[y]))
    BY <1>2, <1>5 DEF Adjacent
  <2>1. \A z \in Slots : Later(d, g, x, z) /\ Later(d, g, z, y) =>
            p[z] \in Slots /\ Later(c, h, p[x], p[z]) /\ Later(c, h, p[z], p[y])
    BY <1>2, <1>5
  <2>2. \A z \in Slots : Later(c, h, p[x], z) /\ Later(c, h, z, p[y]) =>
            p[z] \in Slots /\ Later(d, g, x, p[z]) /\ Later(d, g, p[z], y)
    <3> TAKE z \in Slots
    <3>1. p[z] \in Slots /\ p[p[z]] = z
      BY <1>2 DEF Slot
    <3> QED  BY <1>5, <3>1
  <2> QED  BY <2>1, <2>2
<1>7. \A x \in UsedIn(c) : c[x].next \in Slot /\ c[x].prev \in Slot
  BY <1>1 DEF Ordered
<1>8. Ordered(d, g)
  <2>1. \A x, y \in UsedIn(d) : x # y /\ Root(d[x].cap) = Root(d[y].cap) => g[x] # g[y]
    <3> SUFFICES ASSUME NEW x \in UsedIn(d), NEW y \in UsedIn(d), x # y, Root(d[x].cap) = Root(d[y].cap)
                 PROVE  g[x] # g[y]
      OBVIOUS
    <3>1. p[x] \in UsedIn(c) /\ p[y] \in UsedIn(c) /\ p[x] # p[y] /\ Root(c[p[x]].cap) = Root(c[p[y]].cap)
      BY <1>2, <1>4 DEF Slot
    <3>2. h[p[x]] # h[p[y]]
      BY <1>1, <3>1 DEF Ordered
    <3> QED  BY <1>3, <1>4, <3>2
  <2>2. \A x \in UsedIn(d) : d[x].next \in Slot /\ d[x].prev \in Slot
    BY <1>2, <1>4, <1>7
  <2>3. \A x \in Slots, e \in Slot : p[e] = x <=> e = p[x]
    BY <1>2 DEF Slot
  <2>4. \A x \in UsedIn(d), y \in Slots : d[x].next = y <=> Adjacent(d, g, x, y)
    <3> TAKE x \in UsedIn(d), y \in Slots
    <3>1. p[x] \in UsedIn(c) /\ p[y] \in Slots /\ d[x].next = p[c[p[x]].next] /\ c[p[x]].next \in Slot
      BY <1>2, <1>4, <1>7
    <3>2. d[x].next = y <=> c[p[x]].next = p[y]
      BY <2>3, <3>1
    <3>3. c[p[x]].next = p[y] <=> Adjacent(c, h, p[x], p[y])
      BY <1>1, <3>1 DEF Ordered
    <3> QED  BY <1>4, <1>6, <3>2, <3>3
  <2>5. \A y \in UsedIn(d), x \in Slots : d[y].prev = x <=> Adjacent(d, g, x, y)
    <3> TAKE y \in UsedIn(d), x \in Slots
    <3>1. p[y] \in UsedIn(c) /\ p[x] \in Slots /\ d[y].prev = p[c[p[y]].prev] /\ c[p[y]].prev \in Slot
      BY <1>2, <1>4, <1>7
    <3>2. d[y].prev = x <=> c[p[y]].prev = p[x]
      BY <2>3, <3>1
    <3>3. c[p[y]].prev = p[x] <=> Adjacent(c, h, p[x], p[y])
      BY <1>1, <3>1 DEF Ordered
    <3> QED  BY <1>4, <1>6, <3>2, <3>3
  <2>6. \A e \in Slot : p[e] = NoSlot => e = NoSlot
    BY <1>2 DEF Slot
  <2>7. \A x \in UsedIn(d) : d[x].next = NoSlot => \A y \in Slots : ~Later(d, g, x, y)
    <3> SUFFICES ASSUME NEW x \in UsedIn(d), d[x].next = NoSlot, NEW y \in Slots
                 PROVE  ~Later(d, g, x, y)
      OBVIOUS
    <3>1. p[x] \in UsedIn(c) /\ c[p[x]].next = NoSlot /\ p[y] \in Slots
      BY <1>2, <1>4, <1>7, <2>6
    <3>2. ~Later(c, h, p[x], p[y])
      BY <1>1, <3>1 DEF Ordered
    <3> QED  BY <1>4, <1>5, <3>2
  <2>8. \A y \in UsedIn(d) : d[y].prev = NoSlot => \A x \in Slots : ~Later(d, g, x, y)
    <3> SUFFICES ASSUME NEW y \in UsedIn(d), d[y].prev = NoSlot, NEW x \in Slots
                 PROVE  ~Later(d, g, x, y)
      OBVIOUS
    <3>1. p[y] \in UsedIn(c) /\ c[p[y]].prev = NoSlot /\ p[x] \in Slots
      BY <1>2, <1>4, <1>7, <2>6
    <3>2. ~Later(c, h, p[x], p[y])
      BY <1>1, <3>1 DEF Ordered
    <3> QED  BY <1>4, <1>5, <3>2
  <2> QED  BY <1>3, <2>1, <2>2, <2>4, <2>5, <2>7, <2>8 DEF Ordered
<1>9. EntriesSound(d)
  <2> SUFFICES ASSUME NEW x \in Slots
               PROVE  IF IsEmpty(d, x) THEN d[x] = EmptyEntry
                      ELSE d[x].cap \in SoundCaps /\ (d[x].cap.type = "untyped" => d[x].revocable)
    BY <1>1 DEF EntriesSound
  <2>1. CASE IsEmpty(d, x)
    <3>1. c[p[x]] = EmptyEntry
      BY <1>1, <1>2, <1>4, <2>1 DEF IsEmpty, EntriesSound
    <3>a. c[p[x]].next = NoSlot /\ c[p[x]].prev = NoSlot
      BY <3>1 DEF EmptyEntry
    <3>b. EmptyEntry.next = NoSlot /\ EmptyEntry.prev = NoSlot
      BY DEF EmptyEntry
    <3>2. d[x] \in Entries /\ d[x].cap = EmptyEntry.cap /\ d[x].revocable = EmptyEntry.revocable
          /\ d[x].firstBadged = EmptyEntry.firstBadged
          /\ d[x].next = EmptyEntry.next /\ d[x].prev = EmptyEntry.prev
      BY <1>1, <1>2, <3>1, <3>a, <3>b DEF Renamed
    <3>3. EmptyEntry \in Entries
      BY DEF EmptyEntry, Entries, NullCap, Caps, CapTypes, Slot
    <3>4. d[x] = EmptyEntry
      BY <3>2, <3>3 DEF Entries
    <3> QED  BY <2>1, <3>4
  <2>2. CASE ~IsEmpty(d, x)
    BY <1>1, <1>2, <1>4, <2>2 DEF IsEmpty, EntriesSound
  <2> QED  BY <2>1, <2>2
<1>10. /\ \A x \in UsedIn(d) : x \in Slots /\ p[x] \in UsedIn(c) /\ d[x].cap = c[p[x]].cap
       /\ \A x, y \in UsedIn(d) : x # y => p[x] # p[y]
       /\ \A x, y \in UsedIn(d) : Later(d, g, x, y) <=> Later(c, h, p[x], p[y])
       /\ \A x, y \in UsedIn(d) : Above(d, g, x, y) <=> Above(c, h, p[x], p[y])
  <2>1. \A x, y \in UsedIn(d) : x # y => p[x] # p[y]
    BY <1>2, <1>4 DEF Slot
  <2> QED  BY <1>4, <1>5, <2>1 DEF Above
<1>11. Apart(d, g)
  BY <1>10 DEF TreeSound, Apart
<1>12. Contiguous(d, g)
  BY <1>10 DEF TreeSound, Contiguous
<1>13. Together(d, g)
  BY <1>10 DEF TreeSound, Together
<1>14. BelowMark(d, g)
  BY <1>10 DEF TreeSound, BelowMark
<1> QED  BY <1>8, <1>9, <1>11, <1>12, <1>13, <1>14 DEF TreeSound, g

(* Pointing the neighbours p and n at x. *)
LEMMA RelinkFacts ==
    ASSUME NEW c \in [Slots -> Entries], NEW p \in Slot, NEW n \in Slot, NEW x \in Slots
    PROVE  LET d == SetPrev(SetNext(c, p, x), n, x)
           IN  /\ d \in [Slots -> Entries]
               /\ \A y \in Slots :
                     /\ d[y].cap = c[y].cap
                     /\ d[y].revocable = c[y].revocable
                     /\ d[y].firstBadged = c[y].firstBadged
                     /\ d[y].next = IF y = p THEN x ELSE c[y].next
                     /\ d[y].prev = IF y = n THEN x ELSE c[y].prev
<1> DEFINE c0 == SetNext(c, p, x)
           d == SetPrev(c0, n, x)
<1>1. NoSlot \notin Slots
  BY CteAssumption
<1>2. c0 \in [Slots -> Entries] /\ \A y \in Slots : c0[y] = IF y = p THEN [c[y] EXCEPT !.next = x] ELSE c[y]
  BY <1>1 DEF SetNext, Slot, Entries
<1> HIDE DEF c0
<1>3. d \in [Slots -> Entries] /\ \A y \in Slots : d[y] = IF y = n THEN [c0[y] EXCEPT !.prev = x] ELSE c0[y]
  BY <1>1, <1>2 DEF SetPrev, Slot, Entries
<1> HIDE DEF d
<1>4. ASSUME NEW y \in Slots
      PROVE  /\ d[y].cap = c[y].cap
             /\ d[y].revocable = c[y].revocable
             /\ d[y].firstBadged = c[y].firstBadged
             /\ d[y].next = IF y = p THEN x ELSE c[y].next
             /\ d[y].prev = IF y = n THEN x ELSE c[y].prev
  <2>1. c[y] \in Entries /\ c0[y] \in Entries
    BY <1>2
  <2>2. /\ c0[y].cap = c[y].cap /\ c0[y].revocable = c[y].revocable /\ c0[y].prev = c[y].prev
        /\ c0[y].firstBadged = c[y].firstBadged
        /\ c0[y].next = IF y = p THEN x ELSE c[y].next
    BY <1>2, <2>1 DEF Entries
  <2>3. /\ d[y].cap = c0[y].cap /\ d[y].revocable = c0[y].revocable /\ d[y].next = c0[y].next
        /\ d[y].firstBadged = c0[y].firstBadged
        /\ d[y].prev = IF y = n THEN x ELSE c0[y].prev
    BY <1>3, <2>1 DEF Entries
  <2> QED  BY <2>2, <2>3
<1> QED  BY <1>3, <1>4 DEF d, c0

Transposed(a, b) == [x \in Slot |-> IF x = a THEN b ELSE IF x = b THEN a ELSE x]

LEMMA TransposedExchange ==
    ASSUME NEW a \in Slots, NEW b \in Slots
    PROVE  Exchange(Transposed(a, b))
BY CteAssumption DEF Exchange, Transposed, Slot

(* The pointers of sound entries. *)
LEMMA Neighbours ==
    ASSUME NEW c, NEW h, TreeSound(c, h)
    PROVE  /\ c \in [Slots -> Entries]
           /\ \A x \in Slots : c[x].next \in Slot /\ c[x].prev \in Slot
           /\ \A x \in Slots \ UsedIn(c) : c[x] = EmptyEntry
           /\ \A x \in UsedIn(c) : c[x].next # x /\ c[x].prev # x
           /\ \A x, y \in Slots : c[x].next = y => x \in UsedIn(c) /\ y \in UsedIn(c)
           /\ \A x, y \in Slots : c[x].next = y <=> c[y].prev = x
           /\ \A x \in UsedIn(c) : c[x].next = c[x].prev => c[x].next = NoSlot
<1>1. Ordered(c, h) /\ EntriesSound(c) /\ c \in [Slots -> Entries] /\ NoSlot \notin Slots
  BY CteAssumption DEF TreeSound, EntriesSound
<1>2. \A x \in Slots : c[x].next \in Slot /\ c[x].prev \in Slot
  BY <1>1 DEF Entries
<1>3. \A x \in Slots \ UsedIn(c) : c[x] = EmptyEntry /\ c[x].next = NoSlot /\ c[x].prev = NoSlot
  BY <1>1 DEF EntriesSound, UsedIn, EmptyEntry
<1>4. \A x \in UsedIn(c), y \in Slots : c[x].next = y <=> Adjacent(c, h, x, y)
  BY <1>1 DEF Ordered
<1>5. \A y \in UsedIn(c), x \in Slots : c[y].prev = x <=> Adjacent(c, h, x, y)
  BY <1>1 DEF Ordered
<1>6. \A x, y : Adjacent(c, h, x, y) => Later(c, h, x, y) /\ x \in UsedIn(c) /\ y \in UsedIn(c)
  BY DEF Adjacent, Later
<1>7. \A x, y : Later(c, h, x, y) => x # y /\ ~Later(c, h, y, x)
  BY <1>1, LaterOrder
<1>8. UsedIn(c) \subseteq Slots
  BY DEF UsedIn
<1>9. \A x, y \in Slots : c[x].next = y => x \in UsedIn(c) /\ y \in UsedIn(c)
  BY <1>1, <1>3, <1>4, <1>6
<1>10. \A x, y \in Slots : c[y].prev = x => x \in UsedIn(c) /\ y \in UsedIn(c)
  BY <1>1, <1>3, <1>5, <1>6
<1>11. \A x, y \in Slots : c[x].next = y <=> c[y].prev = x
  BY <1>4, <1>5, <1>9, <1>10
<1>12. \A x \in UsedIn(c) : c[x].next # x /\ c[x].prev # x
  BY <1>4, <1>5, <1>6, <1>7, <1>8
<1>13. \A x \in UsedIn(c) : c[x].next = c[x].prev => c[x].next = NoSlot
  <2> SUFFICES ASSUME NEW x \in UsedIn(c), c[x].next = c[x].prev, c[x].next # NoSlot PROVE FALSE
    OBVIOUS
  <2>1. c[x].next \in Slots
    BY <1>2, <1>8 DEF Slot
  <2> QED  BY <1>4, <1>5, <1>6, <1>7, <2>1
<1> QED  BY <1>1, <1>2, <1>3, <1>9, <1>11, <1>12, <1>13

(* A move, and a swap, even of neighbours, is a renaming. *)
LEMMA MoveRenames ==
    ASSUME NEW c, NEW h, TreeSound(c, h), NEW a \in UsedIn(c), NEW b \in Slots \ UsedIn(c)
    PROVE  Renamed(c, cteMove(c, a, b), Transposed(a, b))
<1> DEFINE moved == [c EXCEPT ![b] = c[a], ![a] = EmptyEntry]
           p == c[a].prev
           n == c[a].next
           d == cteMove(c, a, b)
           t == Transposed(a, b)
<1>1. a \in Slots /\ b \in Slots /\ a # b /\ NoSlot \notin Slots
  BY CteAssumption DEF UsedIn
<1>2. /\ c \in [Slots -> Entries]
      /\ \A x \in Slots : c[x].next \in Slot /\ c[x].prev \in Slot
      /\ c[b] = EmptyEntry
      /\ \A x \in UsedIn(c) : c[x].next # x /\ c[x].prev # x
      /\ \A x, y \in Slots : c[x].next = y => x \in UsedIn(c) /\ y \in UsedIn(c)
      /\ \A x, y \in Slots : c[x].next = y <=> c[y].prev = x
  BY Neighbours
<1>3. EmptyEntry \in Entries /\ EmptyEntry.next = NoSlot /\ EmptyEntry.prev = NoSlot
  BY DEF EmptyEntry, Entries, NullCap, Caps, CapTypes, Slot
<1>4. /\ moved \in [Slots -> Entries]
      /\ \A x \in Slots : moved[x] = IF x = a THEN EmptyEntry ELSE IF x = b THEN c[a] ELSE c[x]
  <2> HIDE DEF EmptyEntry
  <2> QED  BY <1>1, <1>2, <1>3
<1>5. p \in Slot /\ n \in Slot
  BY <1>1, <1>2
<1>6. p \notin {a, b} /\ n \notin {a, b}
  <2>1. p \in Slots => p \in UsedIn(c)
    BY <1>1, <1>2
  <2>2. n \in Slots => n \in UsedIn(c)
    BY <1>1, <1>2
  <2> QED  BY <1>1, <1>2, <2>1, <2>2
<1>7. d = SetPrev(SetNext(moved, p, b), n, b)
  BY DEF cteMove
<1> HIDE DEF moved, d
<1>8. /\ d \in [Slots -> Entries]
      /\ \A y \in Slots :
            /\ d[y].cap = moved[y].cap
            /\ d[y].revocable = moved[y].revocable
            /\ d[y].firstBadged = moved[y].firstBadged
            /\ d[y].next = IF y = p THEN b ELSE moved[y].next
            /\ d[y].prev = IF y = n THEN b ELSE moved[y].prev
  <2> HIDE DEF p, n
  <2> QED  BY <1>1, <1>4, <1>5, <1>7, RelinkFacts
<1>9. /\ t[a] = b /\ t[b] = a /\ t[NoSlot] = NoSlot
      /\ \A x \in Slot : x \notin {a, b} => t[x] = x
  BY <1>1 DEF Transposed, Slot
<1> HIDE DEF t, EmptyEntry
<1>10. ASSUME NEW x \in Slots
       PROVE  /\ d[x].cap = c[t[x]].cap
              /\ d[x].revocable = c[t[x]].revocable
              /\ d[x].firstBadged = c[t[x]].firstBadged
              /\ d[x].next = t[c[t[x]].next]
              /\ d[x].prev = t[c[t[x]].prev]
  <2>1. CASE x = a
    <3>1. moved[x] = EmptyEntry /\ t[x] = b /\ c[t[x]] = EmptyEntry
      BY <1>1, <1>2, <1>4, <1>9, <2>1
    <3> QED  BY <1>3, <1>6, <1>8, <1>9, <2>1, <3>1
  <2>2. CASE x = b
    <3>1. moved[x] = c[a] /\ t[x] = a
      BY <1>1, <1>4, <1>9, <2>2
    <3>2. t[n] = n /\ t[p] = p
      BY <1>5, <1>6, <1>9
    <3> QED  BY <1>6, <1>8, <2>2, <3>1, <3>2
  <2>3. CASE x # a /\ x # b
    <3>1. moved[x] = c[x] /\ t[x] = x
      BY <1>1, <1>4, <1>9, <2>3 DEF Slot
    <3>2. /\ c[x].next = a <=> x = p
          /\ c[x].prev = a <=> x = n
      BY <1>1, <1>2
    <3>3. c[x].next # b /\ c[x].prev # b
      BY <1>1, <1>2
    <3>4. c[x].next \in Slot /\ c[x].prev \in Slot
      BY <1>2
    <3> QED  BY <1>8, <1>9, <3>1, <3>2, <3>3, <3>4
  <2> QED  BY <2>1, <2>2, <2>3
<1> QED  BY <1>8, <1>10 DEF Renamed, d, t

LEMMA SwapRenames ==
    ASSUME NEW c, NEW h, TreeSound(c, h), NEW a \in UsedIn(c), NEW b \in UsedIn(c), a # b
    PROVE  Renamed(c, cteSwap(c, a, b), Transposed(a, b))
<1> DEFINE c1 == SetPrev(SetNext(c, c[a].prev, b), c[a].next, b)
           e == c1[b]
           c2 == [c1 EXCEPT ![a] = e, ![b] = c[a]]
           d == cteSwap(c, a, b)
           t == Transposed(a, b)
<1>1. a \in Slots /\ b \in Slots /\ a # b /\ NoSlot \notin Slots
  BY CteAssumption DEF UsedIn
<1>2. /\ c \in [Slots -> Entries]
      /\ \A x \in Slots : c[x].next \in Slot /\ c[x].prev \in Slot
      /\ \A x \in UsedIn(c) : c[x].next # x /\ c[x].prev # x
      /\ \A x, y \in Slots : c[x].next = y <=> c[y].prev = x
      /\ \A x \in UsedIn(c) : c[x].next = c[x].prev => c[x].next = NoSlot
  BY Neighbours
<1>3. d = SetPrev(SetNext(c2, e.prev, a), e.next, a)
  BY DEF cteSwap
<1> HIDE DEF d
<1>4. /\ c1 \in [Slots -> Entries]
      /\ \A y \in Slots :
            /\ c1[y].cap = c[y].cap
            /\ c1[y].revocable = c[y].revocable
            /\ c1[y].firstBadged = c[y].firstBadged
            /\ c1[y].next = IF y = c[a].prev THEN b ELSE c[y].next
            /\ c1[y].prev = IF y = c[a].next THEN b ELSE c[y].prev
  <2>1. c[a].prev \in Slot /\ c[a].next \in Slot
    BY <1>1, <1>2
  <2> DEFINE p == c[a].prev
             n == c[a].next
  <2> HIDE DEF p, n
  <2>2. p \in Slot /\ n \in Slot
    BY <2>1 DEF p, n
  <2>3. /\ SetPrev(SetNext(c, p, b), n, b) \in [Slots -> Entries]
        /\ \A y \in Slots :
            /\ SetPrev(SetNext(c, p, b), n, b)[y].cap = c[y].cap
            /\ SetPrev(SetNext(c, p, b), n, b)[y].revocable = c[y].revocable
            /\ SetPrev(SetNext(c, p, b), n, b)[y].firstBadged = c[y].firstBadged
            /\ SetPrev(SetNext(c, p, b), n, b)[y].next = IF y = p THEN b ELSE c[y].next
            /\ SetPrev(SetNext(c, p, b), n, b)[y].prev = IF y = n THEN b ELSE c[y].prev
    BY <1>1, <1>2, <2>2, RelinkFacts
  <2> QED  BY <2>3 DEF p, n
<1> HIDE DEF c1
<1>5. e \in Entries /\ e.prev \in Slot /\ e.next \in Slot
  BY <1>1, <1>4 DEF Entries
<1>6. c2 \in [Slots -> Entries] /\ \A x \in Slots : c2[x] = IF x = b THEN c[a] ELSE IF x = a THEN e ELSE c1[x]
  BY <1>1, <1>2, <1>4, <1>5
<1> HIDE DEF c2
<1>7. /\ d \in [Slots -> Entries]
      /\ \A y \in Slots :
            /\ d[y].cap = c2[y].cap
            /\ d[y].revocable = c2[y].revocable
            /\ d[y].firstBadged = c2[y].firstBadged
            /\ d[y].next = IF y = e.prev THEN a ELSE c2[y].next
            /\ d[y].prev = IF y = e.next THEN a ELSE c2[y].prev
  <2> DEFINE p == e.prev
             n == e.next
  <2>1. p \in Slot /\ n \in Slot /\ d = SetPrev(SetNext(c2, p, a), n, a)
    BY <1>3, <1>5
  <2> HIDE DEF p, n
  <2>2. /\ d \in [Slots -> Entries]
        /\ \A y \in Slots :
            /\ d[y].cap = c2[y].cap
            /\ d[y].revocable = c2[y].revocable
            /\ d[y].firstBadged = c2[y].firstBadged
            /\ d[y].next = IF y = p THEN a ELSE c2[y].next
            /\ d[y].prev = IF y = n THEN a ELSE c2[y].prev
    BY <1>1, <1>6, <2>1, RelinkFacts
  <2> QED  BY <2>2 DEF p, n
<1>8. /\ t[a] = b /\ t[b] = a /\ t[NoSlot] = NoSlot
      /\ \A x \in Slot : x \notin {a, b} => t[x] = x
  BY <1>1 DEF Transposed, Slot
<1> HIDE DEF t
<1>9. /\ e.cap = c[b].cap /\ e.revocable = c[b].revocable /\ e.firstBadged = c[b].firstBadged
      /\ e.next = (IF b = c[a].prev THEN b ELSE c[b].next)
      /\ e.prev = (IF b = c[a].next THEN b ELSE c[b].prev)
  BY <1>1, <1>4 DEF e
<1> HIDE DEF e
<1>10. ASSUME NEW x \in Slots
       PROVE  /\ d[x].cap = c[t[x]].cap
              /\ d[x].revocable = c[t[x]].revocable
              /\ d[x].firstBadged = c[t[x]].firstBadged
  BY <1>1, <1>4, <1>6, <1>7, <1>8, <1>9 DEF Slot
<1>11. ASSUME NEW x \in Slots PROVE d[x].next = t[c[t[x]].next] /\ d[x].prev = t[c[t[x]].prev]
  <2>a. c[x].next \in Slot /\ c[x].prev \in Slot /\ c[a].next \in Slot /\ c[a].prev \in Slot
        /\ c[b].next \in Slot /\ c[b].prev \in Slot
    BY <1>1, <1>2
  <2>b. /\ c[a].next # a /\ c[a].prev # a /\ c[b].next # b /\ c[b].prev # b
        /\ (c[a].next = b <=> c[b].prev = a) /\ (c[a].prev = b <=> c[b].next = a)
        /\ ~(c[a].next = b /\ c[a].prev = b)
    BY <1>1, <1>2
  <2>1. CASE x = a
    <3>1. t[x] = b /\ c2[x] = e
      BY <1>1, <1>6, <1>8, <2>1
    <3>2. d[x].next = (IF a = e.prev THEN a ELSE e.next) /\ d[x].prev = (IF a = e.next THEN a ELSE e.prev)
      BY <1>1, <1>7, <2>1, <3>1
    <3>3. a # e.prev /\ a # e.next
      BY <1>1, <1>9, <2>b
    <3>4. e.next = t[c[b].next]
      BY <1>8, <1>9, <2>a, <2>b
    <3>5. e.prev = t[c[b].prev]
      BY <1>8, <1>9, <2>a, <2>b
    <3> QED  BY <3>1, <3>2, <3>3, <3>4, <3>5
  <2>2. CASE x = b
    <3>1. t[x] = a /\ c2[x] = c[a]
      BY <1>1, <1>6, <1>8, <2>2
    <3>2. d[x].next = (IF b = e.prev THEN a ELSE c[a].next) /\ d[x].prev = (IF b = e.next THEN a ELSE c[a].prev)
      BY <1>1, <1>7, <2>2, <3>1
    <3>3. (b = e.prev <=> b = c[a].next) /\ (b = e.next <=> b = c[a].prev)
      BY <1>9, <2>b
    <3> QED  BY <1>8, <2>a, <2>b, <3>1, <3>2, <3>3
  <2>3. CASE x # a /\ x # b
    <3>1. t[x] = x /\ c2[x] = c1[x]
      BY <1>6, <1>8, <2>3 DEF Slot
    <3>2. /\ d[x].next = IF x = e.prev THEN a ELSE IF x = c[a].prev THEN b ELSE c[x].next
          /\ d[x].prev = IF x = e.next THEN a ELSE IF x = c[a].next THEN b ELSE c[x].prev
      BY <1>4, <1>7, <3>1
    <3>3. /\ x = e.prev <=> c[x].next = b
          /\ x = e.next <=> c[x].prev = b
          /\ x = c[a].prev <=> c[x].next = a
          /\ x = c[a].next <=> c[x].prev = a
      BY <1>1, <1>2, <1>9, <2>3, <2>b
    <3> QED  BY <1>1, <1>8, <2>a, <3>1, <3>2, <3>3
  <2> QED  BY <2>1, <2>2, <2>3
<1> QED  BY <1>7, <1>10, <1>11 DEF Renamed, d, t

----------------------------------------------------------------------------
(* The tree of derivation *)

(* b would be deleted if a were revoked: it and all between a and b would be
   taken for descendants of a. *)
Descends(c, h, a, b) ==
    /\ Later(c, h, a, b)
    /\ \A x \in Slots : Later(c, h, a, x) /\ (x = b \/ Later(c, h, x, b)) => isMDBParentOf(c, a, x)

(* The pairs of an entry and one below it. *)
TreeOf(c, h) == {pair \in Slots \X Slots : Descends(c, h, pair[1], pair[2])}

(* The copies of one badge are a run that begins with a marked one, and whoever
   may have children begins a run. *)
Badged(c) ==
    \A y \in UsedIn(c) :
        /\ c[y].revocable => c[y].firstBadged
        /\ c[y].cap.badge # 0 /\ ~c[y].firstBadged =>
              /\ c[y].prev \in UsedIn(c)
              /\ sameObjectAs(c[c[y].prev].cap, c[y].cap)
              /\ c[c[y].prev].cap.badge = c[y].cap.badge

(* Of two entries above a third one is above the other, and what is below what
   is below is below. *)
Forest(D) ==
    /\ D \in SUBSET (Slots \X Slots)
    /\ \A a, b : <<a, b>> \in D => a # b /\ <<b, a>> \notin D
    /\ \A a, b, x : <<a, b>> \in D /\ <<b, x>> \in D => <<a, x>> \in D
    /\ \A a, b, x : <<a, x>> \in D /\ <<b, x>> \in D => a = b \/ <<a, b>> \in D \/ <<b, a>> \in D

LEMMA TreePairs ==
    ASSUME NEW c, NEW h
    PROVE  /\ \A a, b : <<a, b>> \in TreeOf(c, h) <=> a \in Slots /\ b \in Slots /\ Descends(c, h, a, b)
           /\ TreeOf(c, h) \in SUBSET (Slots \X Slots)
BY DEF TreeOf

(* The entries above one are in line. *)
LEMMA LaterChain ==
    ASSUME NEW c, NEW h, TreeSound(c, h)
    PROVE  /\ \A x, y : Later(c, h, x, y) => x \in UsedIn(c) /\ y \in UsedIn(c) /\ x # y /\ ~Later(c, h, y, x)
           /\ \A x, y, z : Later(c, h, x, y) /\ Later(c, h, y, z) => Later(c, h, x, z)
           /\ \A x, y, z : Later(c, h, x, z) /\ Later(c, h, y, z) => x = y \/ Later(c, h, x, y) \/ Later(c, h, y, x)
           /\ \A x, y, z : Later(c, h, x, y) /\ Later(c, h, x, z) => y = z \/ Later(c, h, y, z) \/ Later(c, h, z, y)
           /\ UsedIn(c) \subseteq Slots
BY LaterOrder DEF Later, TreeSound, UsedIn

LEMMA TreeIsForest ==
    ASSUME NEW c, NEW h, TreeSound(c, h), Badged(c)
    PROVE  Forest(TreeOf(c, h))
<1>1. /\ \A x, y : Later(c, h, x, y) => x \in UsedIn(c) /\ y \in UsedIn(c) /\ x # y /\ ~Later(c, h, y, x)
      /\ \A x, y, z : Later(c, h, x, y) /\ Later(c, h, y, z) => Later(c, h, x, z)
      /\ \A x, y, z : Later(c, h, x, z) /\ Later(c, h, y, z) => x = y \/ Later(c, h, x, y) \/ Later(c, h, y, x)
      /\ UsedIn(c) \subseteq Slots
  BY LaterChain
<1>2. \A a, b : Descends(c, h, a, b) => Later(c, h, a, b) /\ isMDBParentOf(c, a, b)
  BY <1>1 DEF Descends
<1>3. ASSUME NEW a, NEW b, NEW x, Descends(c, h, a, b), Descends(c, h, b, x)
      PROVE  Descends(c, h, a, x)
  <2>1. ASSUME NEW z \in Slots, isMDBParentOf(c, a, b), isMDBParentOf(c, b, z), z \in UsedIn(c), b \in UsedIn(c), a \in UsedIn(c)
        PROVE  isMDBParentOf(c, a, z)
    <3>1. /\ c[a].cap \in SoundCaps /\ c[b].cap \in SoundCaps /\ c[z].cap \in SoundCaps
          /\ c[a].cap.type = "untyped" => c[a].cap.badge = 0
      BY <2>1 DEF TreeSound, EntriesSound, UsedIn, SoundCaps
    <3>2. c[a].revocable /\ c[b].revocable /\ c[b].firstBadged
      BY <2>1 DEF isMDBParentOf, Badged
    <3>3. c[a].cap.badge = 0
      BY <2>1, <3>2 DEF isMDBParentOf
    <3>4. sameRegionAs(c[a].cap, c[z].cap)
      BY <2>1, <3>1, CapFacts DEF isMDBParentOf, sameRegionAs
    <3> QED  BY <3>2, <3>3, <3>4 DEF isMDBParentOf
  <2>2. /\ Later(c, h, a, b) /\ Later(c, h, b, x) /\ Later(c, h, a, x) /\ isMDBParentOf(c, a, b)
    BY <1>1, <1>2, <1>3
  <2>3. ASSUME NEW z \in Slots, Later(c, h, a, z), z = x \/ Later(c, h, z, x) PROVE isMDBParentOf(c, a, z)
    <3>1. z = b \/ Later(c, h, z, b) \/ Later(c, h, b, z)
      BY <1>1, <2>2, <2>3
    <3>2. CASE z = b \/ Later(c, h, z, b)
      BY <1>3, <2>3, <3>2 DEF Descends
    <3>3. CASE Later(c, h, b, z)
      <4>1. isMDBParentOf(c, b, z)
        BY <1>3, <2>3, <3>3 DEF Descends
      <4> QED  BY <1>1, <2>1, <2>2, <2>3, <4>1
    <3> QED  BY <3>1, <3>2, <3>3
  <2> QED  BY <2>2, <2>3 DEF Descends
<1>4. ASSUME NEW a, NEW b, NEW x, Descends(c, h, a, x), Descends(c, h, b, x), Later(c, h, a, b)
      PROVE  Descends(c, h, a, b)
  BY <1>1, <1>4 DEF Descends
<1>5. ASSUME NEW a, NEW b, NEW x, Descends(c, h, a, x), Descends(c, h, b, x)
      PROVE  a = b \/ Descends(c, h, a, b) \/ Descends(c, h, b, a)
  BY <1>1, <1>2, <1>4, <1>5
<1> QED  BY <1>1, <1>2, <1>3, <1>5, TreePairs DEF Forest

(* Linking an entry in behind s puts it below s, if s may have children, and
   below all that s is below. *)
LEMMA LinkTree ==
    ASSUME NEW c, NEW d, NEW h, NEW s, NEW t, TreeSound(c, h), Linked(c, d, s, t),
           Hangs(c, h, s, d[t].cap),
           \A a : Descends(c, h, a, s) => isMDBParentOf(d, a, t),
           isMDBParentOf(d, s, t) <=> c[s].revocable,
           c[s].next # NoSlot => ~isMDBParentOf(d, t, c[s].next)
    PROVE  LET g == Lifted(h, s, t)
           IN  \A a, b : Descends(d, g, a, b) <=>
                   IF b = t THEN Descends(c, h, a, s) \/ (a = s /\ c[s].revocable)
                   ELSE Descends(c, h, a, b)
<1> DEFINE g == Lifted(h, s, t)
<1>1. /\ s \in UsedIn(c) /\ t \in Slots \ UsedIn(c) /\ s # t /\ UsedIn(c) \subseteq Slots
      /\ \A x \in Slots \ {t} : d[x].cap = c[x].cap /\ d[x].revocable = c[x].revocable
                                /\ d[x].firstBadged = c[x].firstBadged
  BY DEF Linked, UsedIn
<1>2. /\ c[s].cap \in SoundCaps /\ d[t].cap \in SoundCaps /\ Covers(c[s].cap, d[t].cap) /\ d[t].cap.type # "null"
  BY <1>1, CapFacts DEF TreeSound, EntriesSound, UsedIn, Hangs, SoundCaps
<1>3. UsedIn(d) = UsedIn(c) \cup {t} /\ Root(d[t].cap) = Root(c[s].cap)
      /\ \A x \in UsedIn(c) : Root(d[x].cap) = Root(c[x].cap)
  BY <1>1, <1>2, CapFacts DEF UsedIn, IsEmpty
<1>4. /\ \A x, y : x # t /\ y # t => (Later(d, g, x, y) <=> Later(c, h, x, y))
      /\ \A x : Later(d, g, x, t) <=> x = s \/ Later(c, h, x, s)
      /\ \A y : Later(d, g, t, y) <=> Later(c, h, s, y)
  <2> HIDE DEF g
  <2> QED  BY <1>1, <1>3, InsertOrder DEF TreeSound, g
<1> HIDE DEF g
<1>5. /\ \A x, y : Later(c, h, x, y) => x \in UsedIn(c) /\ y \in UsedIn(c) /\ x # y /\ ~Later(c, h, y, x)
      /\ \A x, y, z : Later(c, h, x, y) /\ Later(c, h, y, z) => Later(c, h, x, z)
      /\ \A x, y, z : Later(c, h, x, z) /\ Later(c, h, y, z) => x = y \/ Later(c, h, x, y) \/ Later(c, h, y, x)
  BY LaterChain
<1>6. \A x, y \in UsedIn(c) : isMDBParentOf(d, x, y) <=> isMDBParentOf(c, x, y)
  BY <1>1 DEF isMDBParentOf
<1>7. ASSUME NEW a PROVE Descends(d, g, a, t) <=> Descends(c, h, a, s) \/ (a = s /\ c[s].revocable)
  <2>1. CASE a = s
    <3>1. Later(d, g, s, t) /\ \A x \in Slots : Later(d, g, s, x) /\ (x = t \/ Later(d, g, x, t)) => x = t
      BY <1>1, <1>4, <1>5
    <3>2. ~Descends(c, h, s, s)
      BY <1>5 DEF Descends
    <3>3. Descends(d, g, s, t) <=> isMDBParentOf(d, s, t)
      BY <1>1, <3>1 DEF Descends
    <3> QED  BY <2>1, <3>2, <3>3
  <2>2. CASE a # s
    <3>1. Descends(c, h, a, s) => Descends(d, g, a, t)
      BY <1>1, <1>4, <1>5, <1>6, <2>2 DEF Descends
    <3>2. Descends(d, g, a, t) => Descends(c, h, a, s)
      <4>1. SUFFICES ASSUME Descends(d, g, a, t) PROVE Descends(c, h, a, s)
        OBVIOUS
      <4>2. Later(c, h, a, s) /\ a # t
        BY <1>1, <1>4, <1>5, <2>2, <4>1 DEF Descends
      <4>3. ASSUME NEW x \in Slots, Later(c, h, a, x), x = s \/ Later(c, h, x, s) PROVE isMDBParentOf(c, a, x)
        <5>1. x # t /\ Later(d, g, a, x) /\ Later(d, g, x, t)
          BY <1>1, <1>4, <1>5, <4>2, <4>3
        <5> QED  BY <1>1, <1>5, <1>6, <4>1, <4>3, <5>1 DEF Descends
      <4> QED  BY <4>2, <4>3 DEF Descends
    <3> QED  BY <2>2, <3>1, <3>2
  <2> QED  BY <2>1, <2>2
<1>8. ASSUME NEW b PROVE ~Descends(d, g, t, b)
  <2>1. SUFFICES ASSUME Descends(d, g, t, b) PROVE FALSE
    OBVIOUS
  <2> DEFINE n == c[s].next
  <2>2. Later(c, h, s, b)
    BY <1>4, <2>1 DEF Descends
  <2>3. n # NoSlot /\ n \in Slots /\ Adjacent(c, h, s, n)
    BY <1>1, <1>5, <2>2 DEF TreeSound, Ordered, Slot
  <2> HIDE DEF n
  <2>4. Later(c, h, s, n) /\ (n = b \/ Later(c, h, n, b))
    <3>1. Root(c[n].cap) = Root(c[b].cap) /\ n \in UsedIn(c) /\ b \in UsedIn(c)
      BY <1>5, <2>2, <2>3 DEF Adjacent, Later
    <3>2. n = b \/ Later(c, h, n, b) \/ Later(c, h, b, n)
      BY <3>1, LaterOrder DEF TreeSound
    <3> QED  BY <1>1, <1>5, <2>2, <2>3, <3>2 DEF Adjacent
  <2>5. n # t /\ b # t
    BY <1>1, <1>5, <2>4
  <2>6. Later(d, g, t, n) /\ (n = b \/ Later(d, g, n, b))
    BY <1>4, <2>4, <2>5
  <2>7. isMDBParentOf(d, t, n)
    BY <2>1, <2>3, <2>6 DEF Descends
  <2> QED  BY <2>3, <2>7 DEF n
<1>9. ASSUME NEW a, NEW b, a # t, b # t PROVE Descends(d, g, a, b) <=> Descends(c, h, a, b)
  <2>1. Descends(d, g, a, b) => Descends(c, h, a, b)
    BY <1>1, <1>4, <1>5, <1>6, <1>9 DEF Descends
  <2>2. ASSUME Descends(c, h, a, b) PROVE Descends(d, g, a, b)
    <3>1. Later(d, g, a, b) /\ Later(c, h, a, b)
      BY <1>4, <1>9, <2>2 DEF Descends
    <3>2. ASSUME NEW x \in Slots, Later(d, g, a, x), x = b \/ Later(d, g, x, b) PROVE isMDBParentOf(d, a, x)
      <4>1. CASE x # t
        BY <1>4, <1>5, <1>6, <1>9, <2>2, <3>2, <4>1 DEF Descends
      <4>2. CASE x = t
        <5>1. Later(c, h, s, b) /\ (a = s \/ Later(c, h, a, s))
          BY <1>4, <1>9, <3>2, <4>2
        <5>2. CASE a = s
          <6>1. c[s].revocable
            BY <1>1, <1>5, <2>2, <3>1, <5>2 DEF Descends, isMDBParentOf
          <6> QED  BY <4>2, <5>2, <6>1
        <5>3. CASE Later(c, h, a, s)
          <6>1. Descends(c, h, a, s)
            BY <1>1, <1>5, <2>2, <5>1, <5>3 DEF Descends
          <6> QED  BY <4>2, <6>1
        <5> QED  BY <5>1, <5>2, <5>3
      <4> QED  BY <4>1, <4>2
    <3> QED  BY <3>1, <3>2 DEF Descends
  <2> QED  BY <2>1, <2>2
<1>10. \A b : ~Descends(c, h, t, b)
  BY <1>1, <1>5 DEF Descends
<1>11. ASSUME NEW a, NEW b
       PROVE  Descends(d, g, a, b) <=>
                   IF b = t THEN Descends(c, h, a, s) \/ (a = s /\ c[s].revocable)
                   ELSE Descends(c, h, a, b)
  BY <1>7, <1>8, <1>9, <1>10
<1> QED  BY <1>11 DEF g

(* How a new entry t is marked that is linked in behind s. *)
Flagged(c, d, s, t) ==
    /\ d[t].revocable = d[t].firstBadged
    /\ ~d[t].firstBadged => sameObjectAs(c[s].cap, d[t].cap) /\ d[t].cap.badge = c[s].cap.badge
    /\ d[t].firstBadged => c[s].cap.badge = 0 /\ (sameObjectAs(c[s].cap, d[t].cap) => d[t].cap.badge # 0)

Unmarked(cap) == [cap EXCEPT !.free = 0]

(* d is c with entries S that have come to lie below s, or beside it if it may
   have no children.  Only copies may not have children of their own. *)
Grew(c, h, d, g, s, S) ==
    /\ TreeSound(d, g) /\ Badged(d)
    /\ S \subseteq Slots \ UsedIn(c)
    /\ UsedIn(d) = UsedIn(c) \cup S
    /\ \A x \in Slots \ S : Unmarked(d[x].cap) = Unmarked(c[x].cap) /\ d[x].revocable = c[x].revocable
    /\ \A x \in S : \/ d[x].revocable
                    \/ Unmarked(d[x].cap) = Unmarked(c[s].cap) /\ Unmarked(c[s].cap).type # "untyped"
    /\ \A a, b : Descends(d, g, a, b) <=>
          IF b \in S THEN Descends(c, h, a, s) \/ (a = s /\ c[s].revocable) ELSE Descends(c, h, a, b)

LEMMA LinkMarks ==
    ASSUME NEW c, NEW d, NEW h, NEW s, NEW t, TreeSound(c, h), Badged(c), Linked(c, d, s, t),
           Hangs(c, h, s, d[t].cap), Flagged(c, d, s, t)
    PROVE  /\ \A a : Descends(c, h, a, s) => isMDBParentOf(d, a, t)
           /\ isMDBParentOf(d, s, t) <=> c[s].revocable
           /\ c[s].next # NoSlot => ~isMDBParentOf(d, t, c[s].next)
           /\ Badged(d)
<1>1. /\ s \in UsedIn(c) /\ t \in Slots \ UsedIn(c) /\ s # t /\ UsedIn(c) \subseteq Slots /\ NoSlot \notin Slots
      /\ \A x \in Slots \ {t} : d[x].cap = c[x].cap /\ d[x].revocable = c[x].revocable
                                /\ d[x].firstBadged = c[x].firstBadged
      /\ \A x \in UsedIn(c) : c[x].cap \in SoundCaps
      /\ \A x \in UsedIn(c) : c[x].cap.type = "untyped" => c[x].cap.badge = 0
  BY CteAssumption DEF Linked, UsedIn, TreeSound, EntriesSound, SoundCaps
<1>2. /\ d[t].cap \in SoundCaps /\ sameRegionAs(c[s].cap, d[t].cap)
  BY DEF Hangs, sameRegionAs, sameObjectAs, SoundCaps
<1>3. \A x, y : Later(c, h, x, y) => x \in UsedIn(c) /\ y \in UsedIn(c) /\ x # y /\ ~Later(c, h, y, x)
  BY LaterChain
<1>4. ASSUME NEW a, Descends(c, h, a, s) PROVE isMDBParentOf(d, a, t)
  <2>1. Later(c, h, a, s) /\ isMDBParentOf(c, a, s) /\ a \in UsedIn(c) /\ a # t
    BY <1>1, <1>3, <1>4 DEF Descends
  <2>2. sameRegionAs(c[a].cap, d[t].cap)
    BY <1>1, <1>2, <2>1, CapFacts DEF isMDBParentOf, sameRegionAs, SoundCaps
  <2> QED  BY <1>1, <2>1, <2>2 DEF isMDBParentOf, Flagged
<1>5. isMDBParentOf(d, s, t) <=> c[s].revocable
  BY <1>1, <1>2 DEF isMDBParentOf, Flagged
<1> DEFINE n == c[s].next
<1>6. n # NoSlot => n \in UsedIn(c) /\ n # t /\ n # s /\ c[n].prev = s /\ Later(c, h, s, n)
  <2>1. c[s].next \in Slot /\ \A y \in Slots : c[s].next = y <=> Adjacent(c, h, s, y)
    BY <1>1 DEF TreeSound, Ordered
  <2>2. \A y \in UsedIn(c), x \in Slots : c[y].prev = x <=> Adjacent(c, h, x, y)
    BY DEF TreeSound, Ordered
  <2> QED  BY <1>1, <1>3, <2>1, <2>2 DEF Slot, Adjacent
<1> HIDE DEF n
<1>7. ASSUME n # NoSlot, isMDBParentOf(d, t, n) PROVE FALSE
  <2>1. n \in UsedIn(c) /\ n # t /\ d[n].cap = c[n].cap /\ d[n].firstBadged = c[n].firstBadged
    BY <1>1, <1>6, <1>7
  <2>2. c[s].cap.badge = 0 /\ (sameObjectAs(c[s].cap, d[t].cap) => d[t].cap.badge # 0)
        /\ sameRegionAs(d[t].cap, c[n].cap)
    BY <1>7, <2>1 DEF isMDBParentOf, Flagged
  <2>3. ~Above(c, h, n, s)
    BY <1>3, <1>6, <1>7 DEF Above
  <2>4. Overlap(c[n].cap, d[t].cap)
    BY <1>1, <1>2, <2>1, <2>2, CapFacts DEF sameRegionAs, sameObjectAs
  <2>5. sameObjectAs(c[s].cap, d[t].cap)
    BY <1>1, <1>6, <1>7, <2>3, <2>4 DEF Hangs
  <2>6. d[t].cap.badge = c[n].cap.badge /\ ~c[n].firstBadged /\ c[n].cap.badge # 0
    BY <1>7, <2>1, <2>2, <2>5 DEF isMDBParentOf
  <2>7. c[s].cap.badge = c[n].cap.badge
    BY <1>6, <1>7, <2>1, <2>6 DEF Badged
  <2> QED  BY <2>2, <2>6, <2>7
<1>8. Badged(d)
  <2> SUFFICES ASSUME NEW y \in UsedIn(d)
               PROVE  /\ d[y].revocable => d[y].firstBadged
                      /\ d[y].cap.badge # 0 /\ ~d[y].firstBadged =>
                            /\ d[y].prev \in UsedIn(d)
                            /\ sameObjectAs(d[d[y].prev].cap, d[y].cap)
                            /\ d[d[y].prev].cap.badge = d[y].cap.badge
    BY DEF Badged
  <2>1. UsedIn(d) = UsedIn(c) \cup {t}
    BY <1>1, <1>2 DEF UsedIn, IsEmpty, SoundCaps
  <2>2. CASE y = t
    BY <1>1, <2>1, <2>2 DEF Flagged, Linked
  <2>3. CASE y # t
    <3>1. y \in UsedIn(c) /\ d[y].cap = c[y].cap /\ d[y].revocable = c[y].revocable
          /\ d[y].firstBadged = c[y].firstBadged /\ d[y].prev = IF y = n THEN t ELSE c[y].prev
      BY <1>1, <2>1, <2>3 DEF Linked, n
    <3>2. SUFFICES ASSUME d[y].cap.badge # 0, ~d[y].firstBadged
                   PROVE  /\ d[y].prev \in UsedIn(d)
                          /\ sameObjectAs(d[d[y].prev].cap, d[y].cap)
                          /\ d[d[y].prev].cap.badge = d[y].cap.badge
      BY <3>1 DEF Badged
    <3>3. /\ c[y].prev \in UsedIn(c) /\ sameObjectAs(c[c[y].prev].cap, c[y].cap)
          /\ c[c[y].prev].cap.badge = c[y].cap.badge
      BY <3>1, <3>2 DEF Badged
    <3>4. CASE y # n
      BY <1>1, <2>1, <3>1, <3>3, <3>4
    <3>5. CASE y = n
      <4>1. c[y].prev = s /\ ~d[t].firstBadged
        BY <1>1, <1>6, <3>1, <3>2, <3>3, <3>5 DEF Flagged
      <4>2. sameObjectAs(c[s].cap, d[t].cap) /\ d[t].cap.badge = c[s].cap.badge
        BY <4>1 DEF Flagged
      <4>3. sameObjectAs(d[t].cap, c[y].cap)
        BY <1>1, <1>2, <3>1, <3>3, <4>1, <4>2, CapFacts
      <4> QED  BY <2>1, <3>1, <3>3, <3>5, <4>1, <4>2, <4>3
    <3> QED  BY <3>4, <3>5
  <2> QED  BY <2>2, <2>3
<1> QED  BY <1>4, <1>5, <1>7, <1>8 DEF n

LEMMA LinkGrows ==
    ASSUME NEW c, NEW d, NEW h, NEW s, NEW t, TreeSound(c, h), Badged(c), Linked(c, d, s, t),
           Hangs(c, h, s, d[t].cap), Flagged(c, d, s, t), d[t].cap.type = "untyped" => d[t].revocable
    PROVE  Grew(c, h, d, Lifted(h, s, t), s, {t})
<1> DEFINE g == Lifted(h, s, t)
<1>a. /\ TreeSound(c, h) /\ Linked(c, d, s, t) /\ Hangs(c, h, s, d[t].cap)
      /\ d[t].cap.type = "untyped" => d[t].revocable
  OBVIOUS
<1>1. /\ TreeSound(d, g)
      /\ UsedIn(d) = UsedIn(c) \cup {t}
      /\ \A x, y \in UsedIn(c) : Above(d, g, x, y) <=> Above(c, h, x, y)
  BY ONLY <1>a, LinkSound
<1>2. /\ \A a : Descends(c, h, a, s) => isMDBParentOf(d, a, t)
      /\ isMDBParentOf(d, s, t) <=> c[s].revocable
      /\ c[s].next # NoSlot => ~isMDBParentOf(d, t, c[s].next)
      /\ Badged(d)
  BY LinkMarks
<1>3. \A a, b : Descends(d, g, a, b) <=>
          IF b = t THEN Descends(c, h, a, s) \/ (a = s /\ c[s].revocable) ELSE Descends(c, h, a, b)
  BY ONLY <1>2, <1>a, LinkTree
<1> HIDE DEF g
<1>b. ASSUME ~d[t].revocable
      PROVE  Unmarked(d[t].cap) = Unmarked(c[s].cap) /\ Unmarked(c[s].cap).type # "untyped"
  <2>1. c[s].cap \in SoundCaps /\ d[t].cap \in SoundCaps
    BY DEF Linked, Hangs, TreeSound, EntriesSound, UsedIn
  <2>2. sameObjectAs(c[s].cap, d[t].cap) /\ d[t].cap.badge = c[s].cap.badge
    BY <1>b DEF Flagged
  <2>3. /\ c[s].cap \in Caps /\ d[t].cap \in Caps /\ c[s].cap.type = "endpoint" /\ d[t].cap.type = "endpoint"
        /\ c[s].cap.base = d[t].cap.base /\ c[s].cap.bits = 0 /\ d[t].cap.bits = 0
    BY <2>1, <2>2 DEF SoundCaps, sameObjectAs, sameRegionAs
  <2> QED  BY <2>2, <2>3 DEF Unmarked, Caps
<1>4. Grew(c, h, d, g, s, {t})
  BY <1>1, <1>2, <1>3, <1>b DEF Grew, Linked
<1> QED  BY <1>4 DEF g

LEMMA MarkGrows ==
    ASSUME NEW c, NEW h, NEW s \in Slots, NEW f, TreeSound(c, h), Badged(c), TreeSound(Marked(c, s, f), h)
    PROVE  Grew(c, h, Marked(c, s, f), h, s, {})
<1> DEFINE d == Marked(c, s, f)
<1>1. c \in [Slots -> Entries]
  BY DEF TreeSound, EntriesSound
<1>2. ASSUME NEW x \in Slots
      PROVE  /\ d[x].cap = IF x = s THEN [c[x].cap EXCEPT !.free = f] ELSE c[x].cap
             /\ d[x].revocable = c[x].revocable /\ d[x].firstBadged = c[x].firstBadged
             /\ d[x].prev = c[x].prev /\ c[x].cap \in Caps
  BY <1>1 DEF Entries, Marked
<1> HIDE DEF d
<1>3. ASSUME NEW x \in Slots
      PROVE  /\ d[x].cap.type = c[x].cap.type /\ d[x].cap.base = c[x].cap.base
             /\ d[x].cap.bits = c[x].cap.bits /\ d[x].cap.badge = c[x].cap.badge
             /\ Unmarked(d[x].cap) = Unmarked(c[x].cap)
  BY <1>2 DEF Caps, Unmarked
<1>4. UsedIn(d) = UsedIn(c) /\ UsedIn(c) \subseteq Slots
  BY <1>3 DEF UsedIn, IsEmpty
<1>5. \A x, y \in Slots : sameRegionAs(d[x].cap, d[y].cap) <=> sameRegionAs(c[x].cap, c[y].cap)
  BY <1>3 DEF sameRegionAs, Covers
<1>6. \A x, y \in Slots : isMDBParentOf(d, x, y) <=> isMDBParentOf(c, x, y)
  BY <1>2, <1>3, <1>5 DEF isMDBParentOf
<1>7. \A x, y : Later(d, h, x, y) <=> Later(c, h, x, y)
  BY <1>3, <1>4 DEF Later, Root
<1>8. \A a, b : Descends(d, h, a, b) <=> Descends(c, h, a, b)
  BY <1>4, <1>6, <1>7 DEF Descends, Later
<1>9. Badged(d)
  <2>1. \A x, y \in Slots : sameObjectAs(d[x].cap, d[y].cap) <=> sameObjectAs(c[x].cap, c[y].cap)
    BY <1>3, <1>5 DEF sameObjectAs
  <2> SUFFICES ASSUME NEW y \in UsedIn(c)
               PROVE  /\ d[y].revocable => d[y].firstBadged
                      /\ d[y].cap.badge # 0 /\ ~d[y].firstBadged =>
                            /\ d[y].prev \in UsedIn(c)
                            /\ sameObjectAs(d[d[y].prev].cap, d[y].cap)
                            /\ d[d[y].prev].cap.badge = d[y].cap.badge
    BY <1>4 DEF Badged
  <2>2. /\ c[y].revocable => c[y].firstBadged
        /\ c[y].cap.badge # 0 /\ ~c[y].firstBadged =>
              /\ c[y].prev \in UsedIn(c)
              /\ sameObjectAs(c[c[y].prev].cap, c[y].cap)
              /\ c[c[y].prev].cap.badge = c[y].cap.badge
    BY DEF Badged
  <2>3. d[y].revocable = c[y].revocable /\ d[y].firstBadged = c[y].firstBadged /\ d[y].cap.badge = c[y].cap.badge
    BY <1>2, <1>3, <1>4
  <2>4. SUFFICES ASSUME d[y].cap.badge # 0, ~d[y].firstBadged
                 PROVE  /\ d[y].prev \in UsedIn(c)
                        /\ sameObjectAs(d[d[y].prev].cap, d[y].cap)
                        /\ d[d[y].prev].cap.badge = d[y].cap.badge
    BY <2>2, <2>3
  <2>5. d[y].prev = c[y].prev /\ c[y].prev \in Slots /\ y \in Slots
    BY <1>2, <1>4, <2>2, <2>3, <2>4
  <2> QED  BY <1>3, <2>1, <2>2, <2>3, <2>4, <2>5
<1>10. Grew(c, h, d, h, s, {})
  BY <1>2, <1>3, <1>4, <1>8, <1>9 DEF Grew, d
<1> QED  BY <1>10 DEF d

LEMMA GrewMore ==
    ASSUME NEW c, NEW d, NEW e, NEW h, NEW g, NEW f, NEW s \in UsedIn(c), NEW S, NEW T,
           Grew(c, h, d, g, s, S), Grew(d, g, e, f, s, T)
    PROVE  Grew(c, h, e, f, s, S \cup T)
<1>1. s \notin S /\ s \in Slots /\ d[s].revocable = c[s].revocable
  BY DEF Grew, UsedIn
<1>2. \A a, b : Descends(e, f, a, b) <=>
          IF b \in S \cup T THEN Descends(c, h, a, s) \/ (a = s /\ c[s].revocable) ELSE Descends(c, h, a, b)
  BY <1>1 DEF Grew
<1>3. ASSUME NEW x \in S \cup T
      PROVE  \/ e[x].revocable
             \/ Unmarked(e[x].cap) = Unmarked(c[s].cap) /\ Unmarked(c[s].cap).type # "untyped"
  <2>1. Unmarked(d[s].cap) = Unmarked(c[s].cap) /\ S \subseteq Slots
    BY <1>1 DEF Grew
  <2>2. CASE x \in T
    BY <2>1, <2>2 DEF Grew
  <2>3. CASE x \notin T
    <3>1. x \in S /\ Unmarked(e[x].cap) = Unmarked(d[x].cap) /\ e[x].revocable = d[x].revocable
      BY <1>3, <2>1, <2>3 DEF Grew
    <3> QED  BY <3>1 DEF Grew
  <2> QED  BY <2>2, <2>3
<1>4. ASSUME NEW x \in Slots \ (S \cup T)
      PROVE  Unmarked(e[x].cap) = Unmarked(c[x].cap) /\ e[x].revocable = c[x].revocable
  BY <1>4 DEF Grew
<1>5. UsedIn(e) = UsedIn(c) \cup (S \cup T) /\ S \cup T \subseteq Slots \ UsedIn(c) /\ TreeSound(e, f) /\ Badged(e)
  BY DEF Grew
<1> QED  BY <1>2, <1>3, <1>4, <1>5 DEF Grew

(* d is c without the entries R. *)
Pruned(c, h, d, R) ==
    /\ TreeSound(d, h) /\ Badged(d)
    /\ UsedIn(d) = UsedIn(c) \ R
    /\ \A x \in Slots \ R : d[x].cap = c[x].cap /\ d[x].revocable = c[x].revocable
    /\ \A a, b : Descends(d, h, a, b) <=> a \notin R /\ b \notin R /\ Descends(c, h, a, b)

LEMMA EmptyPrunes ==
    ASSUME NEW c, NEW h, NEW s \in UsedIn(c), TreeSound(c, h), Badged(c)
    PROVE  Pruned(c, h, emptySlot(c, s), {s})
<1> DEFINE d == emptySlot(c, s)
           n == c[s].next
<1>1. /\ TreeSound(d, h) /\ UsedIn(d) = UsedIn(c) \ {s} /\ \A x \in Slots \ {s} : d[x].cap = c[x].cap
      /\ Unlinked(c, d, h, s)
  BY EmptySound DEF UsedIn
<1> HIDE DEF d
<1>2. /\ s \in Slots /\ UsedIn(c) \subseteq Slots /\ NoSlot \notin Slots /\ n \in Slot /\ n # s
      /\ n # NoSlot => n \in UsedIn(c) /\ n \in Slots /\ c[n].prev = s /\ Adjacent(c, h, s, n)
      /\ \A x \in UsedIn(c) : c[x].prev = s <=> x = n
      /\ \A x \in UsedIn(c) : c[x].cap \in SoundCaps
  <2>1. /\ n \in Slot /\ n # s
        /\ \A x, y \in Slots : c[x].next = y => x \in UsedIn(c) /\ y \in UsedIn(c)
        /\ \A x, y \in Slots : c[x].next = y <=> c[y].prev = x
    BY Neighbours DEF UsedIn
  <2>2. \A y \in Slots : c[s].next = y <=> Adjacent(c, h, s, y)
    BY DEF TreeSound, Ordered
  <2> QED  BY <2>1, <2>2, CteAssumption DEF UsedIn, Slot, TreeSound, EntriesSound
<1>3. /\ \A x, y : Later(d, h, x, y) <=> x # s /\ y # s /\ Later(c, h, x, y)
      /\ \A x \in Slots \ {s} :
            /\ d[x].revocable = c[x].revocable
            /\ d[x].firstBadged = (c[x].firstBadged \/ (x = n /\ c[s].firstBadged))
            /\ d[x].prev = IF x = n THEN c[s].prev ELSE c[x].prev
  BY <1>1 DEF Unlinked
<1> HIDE DEF n
<1>4. /\ \A x, y : Later(c, h, x, y) => x \in UsedIn(c) /\ y \in UsedIn(c) /\ x # y /\ ~Later(c, h, y, x)
      /\ \A x, y, z : Later(c, h, x, y) /\ Later(c, h, y, z) => Later(c, h, x, z)
      /\ \A x, y, z : Later(c, h, x, z) /\ Later(c, h, y, z) => x = y \/ Later(c, h, x, y) \/ Later(c, h, y, x)
      /\ \A x, y, z : Later(c, h, x, y) /\ Later(c, h, x, z) => y = z \/ Later(c, h, y, z) \/ Later(c, h, z, y)
  BY LaterChain
<1>5. \A x : Later(c, h, s, x) => n \in UsedIn(c) /\ Later(c, h, s, n) /\ (x = n \/ Later(c, h, n, x))
  <2> SUFFICES ASSUME NEW x, Later(c, h, s, x)
               PROVE  n \in UsedIn(c) /\ Later(c, h, s, n) /\ (x = n \/ Later(c, h, n, x))
    OBVIOUS
  <2>1. n # NoSlot
    BY <1>2, <1>4 DEF TreeSound, Ordered, n
  <2> QED  BY <1>2, <1>4, <2>1 DEF Adjacent
<1>6. ASSUME NEW a, NEW b, a # s, b # s, Descends(c, h, a, b) PROVE Descends(d, h, a, b)
  <2>1. Later(d, h, a, b) /\ Later(c, h, a, b) /\ a \in UsedIn(c)
    BY <1>3, <1>4, <1>6 DEF Descends
  <2>2. ASSUME NEW x \in Slots, Later(d, h, a, x), x = b \/ Later(d, h, x, b) PROVE isMDBParentOf(d, a, x)
    <3>1. /\ Later(c, h, a, x) /\ x # s /\ (x = b \/ Later(c, h, x, b)) /\ isMDBParentOf(c, a, x)
      BY <1>3, <1>6, <2>2 DEF Descends
    <3>2. CASE x # n
      BY <1>1, <1>2, <1>3, <1>6, <2>1, <3>1, <3>2 DEF isMDBParentOf
    <3>3. CASE x = n
      <4>1. Later(c, h, s, n) /\ \A z : ~(Later(c, h, s, z) /\ Later(c, h, z, n))
        BY <1>2, <1>4, <3>1, <3>3 DEF Adjacent, Later
      <4>2. Later(c, h, a, s) /\ Later(c, h, s, b)
        BY <1>4, <1>6, <3>1, <3>3, <4>1
      <4>3. isMDBParentOf(c, a, s)
        BY <1>2, <1>6, <4>2 DEF Descends
      <4> QED  BY <1>1, <1>2, <1>3, <1>6, <2>1, <3>1, <3>3, <4>3 DEF isMDBParentOf
    <3> QED  BY <3>2, <3>3
  <2> QED  BY <2>1, <2>2 DEF Descends
<1>7. ASSUME NEW a, NEW b, Descends(d, h, a, b) PROVE a # s /\ b # s /\ Descends(c, h, a, b)
  <2>1. a # s /\ b # s /\ Later(c, h, a, b) /\ a \in UsedIn(c)
    BY <1>3, <1>4, <1>7 DEF Descends
  <2>2. ASSUME NEW x \in Slots, x # s, Later(c, h, a, x), x = b \/ Later(c, h, x, b) PROVE isMDBParentOf(d, a, x)
    BY <1>3, <1>7, <2>1, <2>2 DEF Descends
  <2>3. ASSUME NEW x \in Slots, x # s, isMDBParentOf(d, a, x) PROVE isMDBParentOf(c, a, x)
    BY <1>1, <1>2, <1>3, <2>1, <2>3 DEF isMDBParentOf
  <2>4. ASSUME Later(c, h, a, s), Later(c, h, s, b) PROVE isMDBParentOf(c, a, s)
    <3>1. /\ n \in UsedIn(c) /\ Later(c, h, s, n) /\ (n = b \/ Later(c, h, n, b)) /\ Later(c, h, a, n) /\ n # s
      BY <1>4, <1>5, <2>4
    <3>2. isMDBParentOf(d, a, n) /\ isMDBParentOf(c, a, n)
      BY <1>2, <2>2, <2>3, <3>1
    <3>3. sameRegionAs(c[a].cap, c[s].cap)
      <4>1. CASE c[a].cap.type = "untyped"
        <5>1. Above(c, h, a, n)
          BY <3>1, <3>2, <4>1 DEF Above, isMDBParentOf, sameRegionAs
        <5>2. Covers(c[a].cap, c[s].cap)
          BY <2>1, <2>4, <3>1, <5>1 DEF TreeSound, Contiguous
        <5> QED  BY <1>2, <4>1, <5>2 DEF sameRegionAs, SoundCaps
      <4>2. CASE c[a].cap.type # "untyped"
        <5>1. sameObjectAs(c[a].cap, c[n].cap)
          BY <3>2, <4>2 DEF isMDBParentOf, sameObjectAs
        <5>2. sameObjectAs(c[a].cap, c[s].cap)
          BY <2>1, <2>4, <3>1, <5>1 DEF TreeSound, Together
        <5> QED  BY <5>2 DEF sameObjectAs
      <4> QED  BY <4>1, <4>2
    <3>4. CASE c[a].cap.badge = 0
      BY <3>2, <3>3, <3>4 DEF isMDBParentOf
    <3>5. CASE c[a].cap.badge # 0
      <4>1. c[a].cap.badge = c[n].cap.badge /\ ~c[n].firstBadged /\ ~c[s].firstBadged
        BY <1>1, <1>2, <1>3, <2>1, <3>1, <3>2, <3>5 DEF isMDBParentOf
      <4>2. c[s].cap.badge = c[n].cap.badge
        BY <1>2, <3>1, <3>5, <4>1 DEF Badged
      <4> QED  BY <3>2, <3>3, <4>1, <4>2 DEF isMDBParentOf
    <3> QED  BY <3>4, <3>5
  <2>5. \A x \in Slots : Later(c, h, a, x) /\ (x = b \/ Later(c, h, x, b)) => isMDBParentOf(c, a, x)
    BY <2>1, <2>2, <2>3, <2>4
  <2> QED  BY <2>1, <2>5 DEF Descends
<1>8. Badged(d)
  <2> SUFFICES ASSUME NEW y \in UsedIn(c) \ {s}
               PROVE  /\ d[y].revocable => d[y].firstBadged
                      /\ d[y].cap.badge # 0 /\ ~d[y].firstBadged =>
                            /\ d[y].prev \in UsedIn(c) \ {s}
                            /\ sameObjectAs(d[d[y].prev].cap, d[y].cap)
                            /\ d[d[y].prev].cap.badge = d[y].cap.badge
    BY <1>1 DEF Badged
  <2>1. /\ y \in Slots \ {s} /\ d[y].cap = c[y].cap /\ d[y].revocable = c[y].revocable
        /\ d[y].firstBadged = (c[y].firstBadged \/ (y = n /\ c[s].firstBadged))
    BY <1>1, <1>2, <1>3
  <2>2. d[y].revocable => d[y].firstBadged
    BY <2>1 DEF Badged
  <2>3. ASSUME d[y].cap.badge # 0, ~d[y].firstBadged
        PROVE  /\ d[y].prev \in UsedIn(c) \ {s}
               /\ sameObjectAs(d[d[y].prev].cap, d[y].cap)
               /\ d[d[y].prev].cap.badge = d[y].cap.badge
    <3>1. /\ c[y].prev \in UsedIn(c) /\ sameObjectAs(c[c[y].prev].cap, c[y].cap)
          /\ c[c[y].prev].cap.badge = c[y].cap.badge
      BY <2>1, <2>3 DEF Badged
    <3>2. CASE y # n
      <4>1. d[y].prev = c[y].prev /\ c[y].prev # s
        BY <1>2, <1>3, <2>1, <3>2
      <4> QED  BY <1>1, <1>2, <2>1, <3>1, <4>1
    <3>3. CASE y = n
      <4>1. c[y].prev = s /\ ~c[s].firstBadged /\ d[y].prev = c[s].prev
        BY <1>2, <1>3, <2>1, <2>3, <3>3
      <4>2. /\ c[s].prev \in UsedIn(c) /\ sameObjectAs(c[c[s].prev].cap, c[s].cap)
            /\ c[c[s].prev].cap.badge = c[s].cap.badge
        BY <2>1, <2>3, <3>1, <4>1 DEF Badged
      <4>3. c[s].prev # s
        BY Neighbours
      <4>4. sameObjectAs(c[c[s].prev].cap, c[y].cap)
        BY <1>2, <3>1, <4>1, <4>2, CapFacts
      <4> QED  BY <1>1, <1>2, <2>1, <3>1, <4>1, <4>2, <4>3, <4>4
    <3> QED  BY <3>2, <3>3
  <2> QED  BY <2>2, <2>3
<1>9. Pruned(c, h, d, {s})
  BY <1>1, <1>3, <1>6, <1>7, <1>8 DEF Pruned
<1> QED  BY <1>9 DEF d

LEMMA RenameTree ==
    ASSUME NEW c, NEW d, NEW h, NEW p, TreeSound(c, h), Badged(c), Exchange(p), Renamed(c, d, p)
    PROVE  /\ Badged(d)
           /\ \A a, b : Descends(d, [x \in Slots |-> h[p[x]]], a, b) <=>
                 a \in Slots /\ b \in Slots /\ Descends(c, h, p[a], p[b])
<1> DEFINE g == [x \in Slots |-> h[p[x]]]
<1>1. /\ \A x \in Slots : p[x] \in Slots /\ p[p[x]] = x
      /\ UsedIn(c) \subseteq Slots /\ NoSlot \notin Slots
      /\ UsedIn(d) = {x \in Slots : p[x] \in UsedIn(c)}
      /\ \A x \in Slots : /\ d[x].cap = c[p[x]].cap /\ d[x].revocable = c[p[x]].revocable
                          /\ d[x].firstBadged = c[p[x]].firstBadged /\ d[x].prev = p[c[p[x]].prev]
  BY CteAssumption DEF Exchange, Slot, Renamed, UsedIn, IsEmpty
<1>2. \A x, y : Later(d, g, x, y) <=> x \in Slots /\ y \in Slots /\ Later(c, h, p[x], p[y])
  BY <1>1 DEF Later
<1> HIDE DEF g
<1>3. \A x, y \in Slots : isMDBParentOf(d, x, y) <=> isMDBParentOf(c, p[x], p[y])
  BY <1>1 DEF isMDBParentOf
<1>4. ASSUME NEW a \in Slots, NEW b \in Slots PROVE Descends(d, g, a, b) <=> Descends(c, h, p[a], p[b])
  <2>1. ASSUME Descends(d, g, a, b), NEW x \in Slots, Later(c, h, p[a], x), x = p[b] \/ Later(c, h, x, p[b])
        PROVE  isMDBParentOf(c, p[a], x)
    <3>1. p[x] \in Slots /\ p[p[x]] = x /\ (x = p[b] => p[x] = b)
      BY <1>1
    <3>2. Later(d, g, a, p[x]) /\ (p[x] = b \/ Later(d, g, p[x], b))
      BY <1>2, <2>1, <3>1
    <3>3. isMDBParentOf(d, a, p[x])
      BY <2>1, <3>1, <3>2 DEF Descends
    <3> QED  BY <1>3, <3>1, <3>3
  <2>2. ASSUME Descends(c, h, p[a], p[b]), NEW x \in Slots, Later(d, g, a, x), x = b \/ Later(d, g, x, b)
        PROVE  isMDBParentOf(d, a, x)
    BY <1>1, <1>2, <1>3, <2>2 DEF Descends
  <2>3. Later(d, g, a, b) <=> Later(c, h, p[a], p[b])
    BY <1>2
  <2> QED  BY <2>1, <2>2, <2>3 DEF Descends
<1>5. \A a, b : Descends(d, g, a, b) => a \in Slots /\ b \in Slots
  BY <1>2 DEF Descends
<1>6. Badged(d)
  <2> SUFFICES ASSUME NEW y \in Slots, p[y] \in UsedIn(c)
               PROVE  /\ d[y].revocable => d[y].firstBadged
                      /\ d[y].cap.badge # 0 /\ ~d[y].firstBadged =>
                            /\ d[y].prev \in UsedIn(d)
                            /\ sameObjectAs(d[d[y].prev].cap, d[y].cap)
                            /\ d[d[y].prev].cap.badge = d[y].cap.badge
    BY <1>1 DEF Badged
  <2> DEFINE x == p[y]
  <2>1. x \in UsedIn(c) /\ d[y].cap = c[x].cap /\ d[y].revocable = c[x].revocable
        /\ d[y].firstBadged = c[x].firstBadged /\ d[y].prev = p[c[x].prev]
    BY <1>1
  <2> HIDE DEF x
  <2>2. c[x].prev \in UsedIn(c) => d[y].prev \in UsedIn(d) /\ d[d[y].prev].cap = c[c[x].prev].cap
    BY <1>1, <2>1
  <2> QED  BY <2>1, <2>2 DEF Badged
<1> QED  BY <1>4, <1>5, <1>6 DEF g

----------------------------------------------------------------------------
(* The steps *)

(* What lies above the watermarks has been cleared. *)
Cleared(c, D) ==
    \A s \in UsedIn(c) : c[s].cap.type = "untyped" =>
        \A u \in Region(c[s].cap) : u >= c[s].cap.base + c[s].cap.free => u \notin D

(* A copy or a badged one: what cteInsert does. *)
LEMMA InsertSound ==
    ASSUME NEW c, NEW h, TreeSound(c, h), Badged(c), NEW s \in UsedIn(c), NEW t \in Slots \ UsedIn(c),
           NEW cap \in SoundCaps, cap.bits = c[s].cap.bits, cap.base = c[s].cap.base, cap.type = c[s].cap.type,
           cap.type = "untyped" => cap = c[s].cap /\ ~HasChildren(c, s),
           cap.badge # c[s].cap.badge => c[s].cap.badge = 0,
           NEW D, Cleared(c, D)
    PROVE  LET d == cteInsert(c, cap, s, t)
           IN  (\E g : Grew(c, h, d, g, s, {t})) /\ Cleared(d, D)
<1> DEFINE flag == isCapRevocable(cap, c[s].cap)
           d == cteInsert(c, cap, s, t)
<1>1. /\ c \in [Slots -> Entries] /\ s \in Slots /\ t \in Slots /\ s # t /\ EntriesSound(c)
      /\ UsedIn(c) \subseteq Slots /\ flag \in BOOLEAN /\ cap \in Caps
      /\ \A x \in UsedIn(c) : c[x].cap \in SoundCaps
  BY DEF TreeSound, EntriesSound, UsedIn, isCapRevocable, SoundCaps
<1>2. CASE cap.type # "untyped"
  <2>1. cap.type = "endpoint" /\ c[s].cap.type = "endpoint"
    BY <1>2, CapFacts
  <2>2. d = Link(c, cap, flag, s, t)
    BY <2>1 DEF cteInsert, Link
  <2> HIDE DEF d, flag
  <2>3. Linked(c, d, s, t) /\ d[t].cap = cap /\ d[t].revocable = flag /\ d[t].firstBadged = flag
    BY <1>1, <2>2, LinkLinks
  <2>4. Hangs(c, h, s, d[t].cap)
    BY <1>1, <2>1, <2>3, CapFacts DEF Hangs
  <2>a. TreeSound(c, h) /\ Badged(c) /\ Linked(c, d, s, t) /\ (d[t].cap.type = "untyped" => d[t].revocable)
    BY <1>2, <2>3
  <2>b. Flagged(c, d, s, t)
    <3>1. (flag <=> cap.badge # c[s].cap.badge) /\ sameObjectAs(c[s].cap, cap)
      BY <1>1, <2>1, CapFacts DEF flag, isCapRevocable
    <3> QED  BY <1>1, <2>3, <3>1 DEF Flagged
  <2>5. Grew(c, h, d, Lifted(h, s, t), s, {t})
    BY ONLY <2>4, <2>a, <2>b, LinkGrows
  <2>c. UsedIn(d) = UsedIn(c) \cup {t}
    BY <2>5 DEF Grew
  <2>6. \A x \in Slots \ {t} : d[x].cap = c[x].cap
    BY <2>3 DEF Linked
  <2>7. Cleared(d, D)
    BY <1>1, <1>2, <2>3, <2>6, <2>c DEF Cleared
  <2> QED  BY <2>5, <2>7 DEF d
<1>3. CASE cap.type = "untyped"
  <2> DEFINE size == BIT[c[s].cap.bits]
             full == Marked(c, s, size)
  <2>1. cap = c[s].cap /\ ~HasChildren(c, s) /\ c[s].cap.type = "untyped"
    BY <1>3
  <2>2. size \in Nat /\ cap.base \in Nat
    BY <1>1, BITFacts DEF Entries, Caps
  <2>3. \A b : ~Above(c, h, s, b)
    BY <1>1, <2>1, Childless
  <2>4. TreeSound(full, h) /\ UsedIn(full) = UsedIn(c) /\ \A x, y : Above(full, h, x, y) <=> Above(c, h, x, y)
    <3>1. TreeSound(c, h) /\ s \in Slots /\ c[s].cap.type = "untyped" /\ size <= BIT[c[s].cap.bits]
      BY <1>1, <2>1, <2>2
    <3>2. \A b \in UsedIn(c) : Above(c, h, s, b) =>
             c[b].cap.base + BIT[c[b].cap.bits] <= c[s].cap.base + size
      BY <2>3
    <3> HIDE DEF size
    <3> QED  BY ONLY <2>2, <3>1, <3>2, MarkSound
  <2>5. /\ \A x \in Slots \ {s} : full[x] = c[x]
        /\ full[s].next = c[s].next /\ full[s].prev = c[s].prev
        /\ full[s].cap = [c[s].cap EXCEPT !.free = size]
    BY <1>1 DEF Entries, Marked
  <2>a. /\ full[s].cap.type = "untyped" /\ full[s].cap.base = cap.base /\ full[s].cap.bits = cap.bits
        /\ full[s].cap.free = size
    BY <1>1, <2>1, <2>5 DEF Caps
  <2>6. d = Link(full, cap, TRUE, s, t)
    BY <1>3, <2>1, <2>5 DEF cteInsert, Link, isCapRevocable, Marked
  <2> HIDE DEF full, d, size
  <2>7. Linked(full, d, s, t) /\ d[t].cap = cap /\ d[t].revocable = TRUE /\ d[t].firstBadged = TRUE
    <3> DEFINE yes == TRUE
    <3>1. s \in UsedIn(full) /\ t \in Slots \ UsedIn(full) /\ yes \in BOOLEAN
      BY <2>4
    <3>2. d = Link(full, cap, yes, s, t)
      BY <2>6
    <3> HIDE DEF yes
    <3>3. Linked(full, d, s, t) /\ d[t].cap = cap /\ d[t].revocable = yes /\ d[t].firstBadged = yes
      BY ONLY <1>1, <2>4, <3>1, <3>2, LinkLinks
    <3> QED  BY <3>3 DEF yes
  <2>8. Hangs(full, h, s, cap)
    <3>1. Covers(full[s].cap, cap)
      BY <2>2, <2>a DEF Covers, size
    <3>2. cap.base + BIT[cap.bits] <= full[s].cap.base + full[s].cap.free
      BY <2>1, <2>2, <2>a DEF size
    <3>3. ASSUME NEW x \in UsedIn(full) \ {s}, Overlap(full[x].cap, cap) PROVE Above(full, h, x, s)
      <4>1. x \in UsedIn(c) /\ x # s /\ Overlap(c[x].cap, c[s].cap)
        BY <1>1, <2>1, <2>4, <2>5, <3>3
      <4>2. sameObjectAs(c[x].cap, c[s].cap) \/ Above(c, h, x, s)
        BY <2>3, <4>1 DEF TreeSound, Apart
      <4>3. ~sameObjectAs(c[x].cap, c[s].cap)
        BY <1>1, <1>3, <2>1, <4>1, CapFacts
      <4> QED  BY <2>4, <4>2, <4>3
    <3> QED  BY <2>a, <3>1, <3>2, <3>3 DEF Hangs
  <2>b. Grew(c, h, full, h, s, {})
    BY <1>1, <2>4, MarkGrows DEF full
  <2>c. Flagged(full, d, s, t)
    <3>1. full[s].cap.badge = 0 /\ ~sameObjectAs(full[s].cap, cap)
      BY <1>1, <2>1, <2>5, <2>a DEF SoundCaps, Caps, sameObjectAs
    <3> QED  BY <2>7, <3>1 DEF Flagged
  <2>d. Grew(full, h, d, Lifted(h, s, t), s, {t})
    <3>1. /\ TreeSound(full, h) /\ Badged(full) /\ Linked(full, d, s, t)
          /\ Hangs(full, h, s, d[t].cap) /\ (d[t].cap.type = "untyped" => d[t].revocable)
      BY <2>4, <2>7, <2>8, <2>b DEF Grew
    <3> QED  BY ONLY <2>c, <3>1, LinkGrows
  <2>9. Grew(c, h, d, Lifted(h, s, t), s, {t}) /\ UsedIn(d) = UsedIn(c) \cup {t}
    <3>1. Grew(c, h, d, Lifted(h, s, t), s, {} \cup {t})
      BY <2>b, <2>d, GrewMore
    <3>2. {} \cup {t} = {t}
      OBVIOUS
    <3>3. Grew(c, h, d, Lifted(h, s, t), s, {t})
      BY ONLY <3>1, <3>2
    <3> QED  BY <3>3 DEF Grew
  <2>10. \A x \in Slots \ {t} : d[x].cap = full[x].cap
    BY <2>7 DEF Linked
  <2>11. Cleared(d, D)
    <3> SUFFICES ASSUME NEW x \in UsedIn(d), d[x].cap.type = "untyped", NEW u \in Region(d[x].cap),
                        u >= d[x].cap.base + d[x].cap.free
                 PROVE  u \notin D
      BY DEF Cleared
    <3>1. CASE x = t
      BY <2>1, <2>7, <3>1 DEF Cleared
    <3>2. CASE x = s
      <4>1. d[x].cap = full[s].cap
        BY <1>1, <2>10, <3>2
      <4>2. u \in full[s].cap.base .. full[s].cap.base + BIT[full[s].cap.bits] - 1 /\ u >= full[s].cap.base + size
        BY <2>a, <4>1 DEF Region
      <4> QED  BY <2>1, <2>2, <2>a, <4>2 DEF size
    <3>3. CASE x # s /\ x # t
      <4>1. x \in UsedIn(c) /\ d[x].cap = c[x].cap
        BY <1>1, <2>5, <2>9, <2>10, <3>3
      <4> QED  BY <4>1 DEF Cleared
    <3> QED  BY <3>1, <3>2, <3>3
  <2> QED  BY <2>9, <2>11 DEF d
<1> QED  BY <1>2, <1>3

(* The inductive invariant: some heights witness the order of the list, and the
   tree in it is sound. *)
Sound(c, D) == (\E h : TreeSound(c, h)) /\ Badged(c) /\ Cleared(c, D)

UntypedInv == Sound(cte, dirty)

LEMMA CopySound ==
    ASSUME UntypedInv, NEW h, TreeSound(cte, h), NEW src \in Slots, NEW dest \in Slots, Copy(src, dest)
    PROVE  UntypedInv' /\ \E g : Grew(cte, h, cte', g, src, {dest})
<1>1. TreeSound(cte, h) /\ Badged(cte)
  BY DEF UntypedInv, Sound
<1>2. Cleared(cte, dirty) /\ dirty' = dirty /\ cte' = cteInsert(cte, cte[src].cap, src, dest)
  BY DEF UntypedInv, Sound, Copy
<1>3. src \in UsedIn(cte) /\ dest \in Slots \ UsedIn(cte) /\ cte[src].cap \in SoundCaps
  BY <1>1 DEF Copy, UsedIn, TreeSound, EntriesSound
<1>4. cte[src].cap.type = "untyped" => ~HasChildren(cte, src)
  BY DEF Copy, Derivable
<1>5. (\E g : Grew(cte, h, cte', g, src, {dest})) /\ Cleared(cte', dirty)
  BY <1>1, <1>2, <1>3, <1>4, InsertSound
<1>6. (\E g : TreeSound(cte', g)) /\ Badged(cte')
  BY <1>5 DEF Grew
<1> QED  BY <1>2, <1>5, <1>6 DEF UntypedInv, Sound

LEMMA MintSound ==
    ASSUME UntypedInv, NEW h, TreeSound(cte, h), NEW src \in Slots, NEW dest \in Slots, NEW badge \in Badges, Mint(src, dest, badge)
    PROVE  UntypedInv' /\ \E g : Grew(cte, h, cte', g, src, {dest})
<1> DEFINE cap == [cte[src].cap EXCEPT !.badge = badge]
<1>1. TreeSound(cte, h) /\ Badged(cte)
  BY DEF UntypedInv, Sound
<1>2. Cleared(cte, dirty) /\ dirty' = dirty /\ cte' = cteInsert(cte, cap, src, dest)
  BY DEF UntypedInv, Sound, Mint
<1>3. src \in UsedIn(cte) /\ dest \in Slots \ UsedIn(cte) /\ cte[src].cap \in SoundCaps
  BY <1>1 DEF Mint, UsedIn, IsEmpty, TreeSound, EntriesSound
<1>4. /\ cap \in Caps /\ cap.type = "endpoint" /\ cte[src].cap.type = "endpoint"
      /\ cap.bits = cte[src].cap.bits /\ cap.base = cte[src].cap.base
  BY <1>3 DEF SoundCaps, Caps, Mint
<1>5. cap \in SoundCaps
  <2>1. Region(cap) = Region(cte[src].cap) /\ Root(cap) = Root(cte[src].cap)
    BY <1>4 DEF Region, Root
  <2> HIDE DEF cap
  <2>2. /\ \A u \in Region(cap) : u \div BIT[MemBits] = Root(cap)
        /\ cap.bits = 0 /\ cap.type # "null" /\ cap.type # "untyped"
    BY <1>3, <1>4, <2>1 DEF SoundCaps
  <2> QED  BY <1>4, <2>2 DEF SoundCaps
<1> HIDE DEF cap
<1>6. (\E g : Grew(cte, h, cte', g, src, {dest})) /\ Cleared(cte', dirty)
  <2>1. cap.type # "untyped" /\ cap.type = cte[src].cap.type /\ cte[src].cap.badge = 0
    BY <1>4 DEF Mint
  <2> QED  BY <1>1, <1>2, <1>3, <1>4, <1>5, <2>1, InsertSound
<1>7. (\E g : TreeSound(cte', g)) /\ Badged(cte')
  BY <1>6 DEF Grew
<1> QED  BY <1>2, <1>6, <1>7 DEF UntypedInv, Sound

(* Renaming carries the invariant over. *)
LEMMA RenamedSound ==
    ASSUME NEW c, NEW d, NEW D, NEW p, Sound(c, D), Exchange(p), Renamed(c, d, p)
    PROVE  Sound(d, D)
<1>1. PICK h : TreeSound(c, h)
  BY DEF Sound
<1>2. TreeSound(d, [x \in Slots |-> h[p[x]]])
  BY <1>1, RenameSound
<1>3. \A x \in Slots : p[x] \in Slots
  BY CteAssumption DEF Exchange, Slot
<1>4. Cleared(d, D)
  <2> SUFFICES ASSUME NEW x \in UsedIn(d), d[x].cap.type = "untyped"
               PROVE  \A u \in Region(d[x].cap) : u >= d[x].cap.base + d[x].cap.free => u \notin D
    BY DEF Cleared
  <2>1. x \in Slots /\ p[x] \in UsedIn(c) /\ d[x].cap = c[p[x]].cap
    BY <1>3 DEF Renamed, UsedIn, IsEmpty
  <2> QED  BY <2>1 DEF Sound, Cleared
<1>5. Badged(d)
  BY <1>1, RenameTree DEF Sound
<1> QED  BY <1>2, <1>4, <1>5 DEF Sound

LEMMA MoveSound ==
    ASSUME NEW c, NEW D, Sound(c, D), NEW a \in UsedIn(c), NEW b \in Slots \ UsedIn(c)
    PROVE  /\ Sound(cteMove(c, a, b), D)
           /\ UsedIn(cteMove(c, a, b)) = (UsedIn(c) \ {a}) \cup {b}
<1>1. PICK h : TreeSound(c, h)
  BY DEF Sound
<1>2. Renamed(c, cteMove(c, a, b), Transposed(a, b))
  BY <1>1, MoveRenames
<1>3. a \in Slots /\ b \in Slots /\ Exchange(Transposed(a, b))
  BY TransposedExchange DEF UsedIn
<1>4. Sound(cteMove(c, a, b), D)
  BY <1>2, <1>3, RenamedSound
<1>5. \A x \in Slots : Transposed(a, b)[x] = IF x = a THEN b ELSE IF x = b THEN a ELSE x
  BY DEF Transposed, Slot
<1>6. \A x \in Slots : x \in UsedIn(cteMove(c, a, b)) <=> Transposed(a, b)[x] \in UsedIn(c)
  BY <1>2, <1>3, <1>5 DEF Renamed, UsedIn, IsEmpty
<1>7. UsedIn(c) \subseteq Slots /\ UsedIn(cteMove(c, a, b)) \subseteq Slots
  BY DEF UsedIn
<1> QED  BY <1>3, <1>4, <1>5, <1>6, <1>7

LEMMA SwapSound ==
    ASSUME NEW c, NEW D, Sound(c, D), NEW a \in UsedIn(c), NEW b \in UsedIn(c), a # b
    PROVE  Sound(cteSwap(c, a, b), D)
<1>1. PICK h : TreeSound(c, h)
  BY DEF Sound
<1>2. Renamed(c, cteSwap(c, a, b), Transposed(a, b))
  BY <1>1, SwapRenames
<1>3. Exchange(Transposed(a, b))
  BY TransposedExchange DEF UsedIn
<1> QED  BY <1>2, <1>3, RenamedSound

LEMMA RotateSound ==
    ASSUME UntypedInv, NEW src \in Slots, NEW pivot \in Slots, NEW dest \in Slots, Rotate(src, pivot, dest)
    PROVE  UntypedInv'
<1>1. Sound(cte, dirty) /\ dirty' = dirty /\ src \in UsedIn(cte) /\ pivot \in UsedIn(cte) /\ pivot # src /\ pivot # dest
  BY DEF UntypedInv, Rotate, UsedIn, IsEmpty
<1>2. CASE src = dest
  BY <1>1, <1>2, SwapSound DEF Rotate, UntypedInv
<1>3. CASE src # dest
  <2> DEFINE c == cteMove(cte, pivot, dest)
  <2>1. dest \in Slots \ UsedIn(cte) /\ cte' = cteMove(c, src, pivot)
    BY <1>3 DEF Rotate, UsedIn
  <2>2. Sound(c, dirty) /\ UsedIn(c) = (UsedIn(cte) \ {pivot}) \cup {dest}
    BY <1>1, <2>1, MoveSound
  <2> HIDE DEF c
  <2>3. src \in UsedIn(c) /\ pivot \in Slots \ UsedIn(c)
    BY <1>1, <2>2
  <2>4. Sound(cteMove(c, src, pivot), dirty)
    BY <2>2, <2>3, MoveSound
  <2> QED  BY <1>1, <2>1, <2>4 DEF UntypedInv
<1> QED  BY <1>2, <1>3

LEMMA EmptyKeepsSound ==
    ASSUME NEW c, NEW D, Sound(c, D), NEW s \in Slots
    PROVE  Sound(emptySlot(c, s), D)
<1>1. PICK h : TreeSound(c, h)
  BY DEF Sound
<1> DEFINE d == emptySlot(c, s)
<1>2. TreeSound(d, h) /\ UsedIn(d) = UsedIn(c) \ {s} /\ \A x \in Slots \ {s} : d[x].cap = c[x].cap
  BY <1>1, EmptySound
<1>4. Badged(d)
  <2>1. CASE s \in UsedIn(c)
    BY <1>1, <2>1, EmptyPrunes DEF Sound, Pruned
  <2>2. CASE s \notin UsedIn(c)
    BY <2>2 DEF Sound, emptySlot, UsedIn
  <2> QED  BY <2>1, <2>2
<1> HIDE DEF d
<1>3. Cleared(d, D)
  BY <1>2 DEF Cleared, Sound, UsedIn
<1> QED  BY <1>2, <1>3, <1>4 DEF Sound, d

LEMMA DeleteSound ==
    ASSUME UntypedInv, NEW s \in Slots, Delete(s)
    PROVE  UntypedInv'
BY EmptyKeepsSound DEF UntypedInv, Delete

(* R is a number of descendants of s, none without those before it in the
   list. *)
Taken(c, h, s, R) ==
    /\ R \in SUBSET UsedIn(c)
    /\ \A r \in R : Descends(c, h, s, r) /\ \A x \in Slots : Later(c, h, s, x) /\ Later(c, h, x, r) => x \in R

LEMMA TakeOne ==
    ASSUME NEW c, NEW d, NEW h, NEW s \in Slots, NEW R, TreeSound(c, h), Pruned(c, h, d, R), Taken(c, h, s, R),
           HasChildren(d, s)
    PROVE  LET n == d[s].next
           IN  Pruned(c, h, emptySlot(d, n), R \cup {n}) /\ Taken(c, h, s, R \cup {n})
<1> DEFINE n == d[s].next
           e == emptySlot(d, n)
<1>1. /\ TreeSound(d, h) /\ Badged(d) /\ UsedIn(d) = UsedIn(c) \ R
      /\ \A x \in Slots \ R : d[x].cap = c[x].cap /\ d[x].revocable = c[x].revocable
      /\ \A a, b : Descends(d, h, a, b) <=> a \notin R /\ b \notin R /\ Descends(c, h, a, b)
  BY DEF Pruned
<1>2. UsedIn(c) \subseteq Slots /\ R \subseteq UsedIn(c)
  BY DEF Taken, UsedIn
<1>3. n \in UsedIn(d) /\ s \in UsedIn(d) /\ n \in Slots /\ Adjacent(d, h, s, n) /\ isMDBParentOf(d, s, n)
  <2>1. n # NoSlot /\ isMDBParentOf(d, s, n)
    BY DEF HasChildren
  <2>2. n \in Slot /\ \A x, y \in Slots : d[x].next = y => x \in UsedIn(d) /\ y \in UsedIn(d)
    BY <1>1, Neighbours
  <2>3. n \in Slots
    BY <2>1, <2>2 DEF Slot
  <2>4. s \in UsedIn(d) /\ n \in UsedIn(d)
    BY <2>2, <2>3
  <2>5. Adjacent(d, h, s, n)
    BY <1>1, <2>3, <2>4 DEF TreeSound, Ordered
  <2> QED  BY <2>1, <2>3, <2>4, <2>5
<1> HIDE DEF n
<1>4. \A x, y : Later(d, h, x, y) <=> x \notin R /\ y \notin R /\ Later(c, h, x, y)
  BY <1>1, <1>2 DEF Later
<1>5. Descends(d, h, s, n)
  BY <1>1, <1>3, LaterChain DEF Descends, Adjacent
<1>6. Pruned(d, h, e, {n})
  BY <1>1, <1>3, EmptyPrunes
<1> HIDE DEF e
<1>7. Pruned(c, h, e, R \cup {n})
  BY <1>1, <1>6 DEF Pruned
<1>8. Taken(c, h, s, R \cup {n})
  <2>1. Descends(c, h, s, n) /\ n \in UsedIn(c) /\ s \notin R /\ n \notin R
    BY <1>1, <1>3, <1>5
  <2>2. \A x \in Slots : Later(c, h, s, x) /\ Later(c, h, x, n) => x \in R
    BY <1>3, <1>4, <2>1 DEF Adjacent
  <2> QED  BY <1>2, <2>1, <2>2 DEF Taken
<1> QED  BY <1>7, <1>8 DEF e, n

(* Revocation is a number of deletions. *)
LEMMA RevokeSound ==
    ASSUME UntypedInv, NEW h, TreeSound(cte, h), NEW s \in Slots, Revoke(s)
    PROVE  UntypedInv' /\ \E R : Pruned(cte, h, cte', R) /\ Taken(cte, h, s, R)
<1> DEFINE N == Cardinality(Slots)
           after[n \in 0 .. Cardinality(Slots)] ==
               IF n = 0 THEN cte
               ELSE IF HasChildren(after[n - 1], s) THEN emptySlot(after[n - 1], after[n - 1][s].next)
               ELSE after[n - 1]
           V == {c \in [Slots -> Entries] : \E R : Pruned(cte, h, c, R) /\ Taken(cte, h, s, R)}
           next(c) == IF HasChildren(c, s) THEN emptySlot(c, c[s].next) ELSE c
           F == [i \in 1 .. N |-> [c \in V |-> next(c)]]
<1>1. dirty' = dirty /\ \E n \in 1 .. N : cte' = after[n]
  BY DEF Revoke
<1>2. N \in Nat
  BY CteAssumption, FS_CardinalityType
<1>3. \A c, R : Pruned(cte, h, c, R) /\ Taken(cte, h, s, R) => c \in V
  BY DEF Pruned, TreeSound, EntriesSound
<1>4. \A c \in V : next(c) \in V
  <2> TAKE c \in V
  <2>1. CASE HasChildren(c, s)
    <3>1. PICK R : Pruned(cte, h, c, R) /\ Taken(cte, h, s, R)
      OBVIOUS
    <3> DEFINE n == c[s].next
               d == emptySlot(c, n)
    <3>2. Pruned(cte, h, d, R \cup {n}) /\ Taken(cte, h, s, R \cup {n})
      BY <2>1, <3>1, TakeOne
    <3>3. next(c) = d
      BY <2>1
    <3> HIDE DEF n, d, V, next
    <3> QED  BY <1>3, <3>2, <3>3
  <2>2. CASE ~HasChildren(c, s)
    BY <2>2
  <2> QED  BY <2>1, <2>2
<1>5. F \in [1 .. N -> [V -> V]] /\ cte \in V
  <2>1. cte \in V
    <3>1. Pruned(cte, h, cte, {}) /\ Taken(cte, h, s, {})
      BY DEF UntypedInv, Sound, Pruned, Taken
    <3> HIDE DEF V
    <3> QED  BY <1>3, <3>1
  <2> HIDE DEF V, next
  <2> QED  BY <1>4, <2>1
<1>6. \E g \in [0 .. N -> V] : Follows(g, cte, F, N)
  <2> HIDE DEF F, V, N
  <2> QED  BY <1>2, <1>5, Recursion
<1>7. \E g : g = [n \in 0 .. N |-> IF n = 0 THEN cte ELSE next(g[n - 1])]
  <2>1. PICK g \in [0 .. N -> V] : g[0] = cte /\ \A i \in 1 .. N : g[i] = F[i][g[i - 1]]
    BY <1>6 DEF Follows
  <2>2. \A i \in 1 .. N : g[i] = next(g[i - 1])
    <3> HIDE DEF V, next
    <3> TAKE i \in 1 .. N
    <3>1. g[i - 1] \in V
      BY <1>2
    <3> QED  BY <2>1, <3>1
  <2> HIDE DEF next, V, F, N
  <2>3. g = [n \in 0 .. N |-> IF n = 0 THEN cte ELSE next(g[n - 1])]
    BY <1>2, <2>1, <2>2
  <2> QED  BY <2>3
<1>8. after = [n \in 0 .. N |-> IF n = 0 THEN cte ELSE next(after[n - 1])]
  BY <1>7
<1> HIDE DEF after, V, next, F, N
<1> DEFINE X == {n \in Nat : n <= N => after[n] \in V}
<1>9. 0 \in X
  BY <1>2, <1>5, <1>8
<1>10. ASSUME NEW n \in Nat, n \in X PROVE n + 1 \in X
  <2>1. SUFFICES ASSUME n + 1 <= N PROVE after[n + 1] \in V
    OBVIOUS
  <2>2. n + 1 \in 0 .. N /\ n + 1 # 0 /\ (n + 1) - 1 = n /\ after[n] \in V
    BY <1>2, <1>10, <2>1
  <2>3. after[n + 1] = next(after[n])
    BY <1>8, <2>2
  <2> QED  BY <1>4, <2>2, <2>3
<1> HIDE DEF X
<1>11. Nat \subseteq X
  BY <1>9, <1>10, Induction
<1>12. cte' \in V
  BY <1>1, <1>2, <1>11 DEF X
<1>13. PICK R : Pruned(cte, h, cte', R) /\ Taken(cte, h, s, R)
  BY <1>12 DEF V
<1>14. Cleared(cte', dirty)
  BY <1>13 DEF UntypedInv, Sound, Cleared, Pruned, UsedIn
<1>15. TreeSound(cte', h) /\ Badged(cte')
  BY <1>13 DEF Pruned
<1> QED  BY <1>1, <1>13, <1>14, <1>15 DEF UntypedInv, Sound

(* A watermark lowered over what has been cleared. *)
LEMMA RetypePreemptedSound ==
    ASSUME UntypedInv, NEW h, TreeSound(cte, h), NEW s \in Slots, RetypePreempted(s)
    PROVE  UntypedInv' /\ Grew(cte, h, cte', h, s, {})
<1> DEFINE cap == cte[s].cap
           B == BIT[ChunkBits]
           size == BIT[cap.bits]
           last == (cap.free - 1) \div B
<1>1. TreeSound(cte, h) /\ Badged(cte)
  BY DEF UntypedInv, Sound
<1>2. cap.type = "untyped" /\ cap.free > 0 /\ ~HasChildren(cte, s)
  BY DEF RetypePreempted
<1>3. PICK k \in 0 .. last : /\ cte' = [cte EXCEPT ![s].cap.free = k * B]
                             /\ dirty' = dirty \ (cap.base + k * B .. cap.base + (last + 1) * B - 1)
  BY DEF RetypePreempted
<1>4. /\ cte \in [Slots -> Entries] /\ s \in UsedIn(cte) /\ UsedIn(cte) \subseteq Slots
      /\ cap \in SoundCaps
  BY <1>1, <1>2 DEF TreeSound, EntriesSound, UsedIn, IsEmpty
<1>5. cap.base \in Nat /\ cap.free \in Nat /\ size \in Nat /\ cap.free <= size
  BY <1>2, <1>4, BITFacts DEF SoundCaps, Caps
<1>6. B \in Nat \ {0}
  BY UntypedAssumption, BITFacts
<1> DEFINE f == k * B
           top == (last + 1) * B
<1>7. f \in Nat /\ top \in Nat /\ f < cap.free /\ cap.free <= top
  <2> DEFINE e == cap.free - 1
  <2> HIDE DEF B
  <2>1. e \in Nat /\ e < cap.free /\ cap.free = e + 1
    BY <1>2, <1>5
  <2> HIDE DEF e
  <2>2. last = e \div B
    BY DEF e
  <2> HIDE DEF last
  <2>3. last \in Nat /\ B * last <= e /\ e < B * last + B
    BY <1>6, <2>1, <2>2
  <2>4. k \in Nat /\ k <= last
    BY <2>3
  <2>5. k * B <= B * last /\ k * B \in Nat
    BY <1>6, <2>3, <2>4
  <2>6. (last + 1) * B = B * last + B /\ B * last \in Nat
    BY <1>6, <2>3
  <2> HIDE DEF cap
  <2> QED  BY <1>6, <2>1, <2>3, <2>5, <2>6
<1>8. \A b : ~Above(cte, h, s, b)
  BY <1>1, <1>2, Childless
<1> HIDE DEF f, top
<1>9. cte' = [cte EXCEPT ![s].cap.free = f] /\ dirty' = dirty \ (cap.base + f .. cap.base + top - 1)
  BY <1>3 DEF f, top
<1> DEFINE d == Marked(cte, s, f)
<1>10. TreeSound(d, h) /\ UsedIn(d) = UsedIn(cte)
  <2>1. f \in Nat /\ f <= BIT[cte[s].cap.bits] /\ cte[s].cap.type = "untyped" /\ s \in Slots
    BY <1>2, <1>5, <1>7
  <2>2. \A b \in UsedIn(cte) : Above(cte, h, s, b) =>
             cte[b].cap.base + BIT[cte[b].cap.bits] <= cte[s].cap.base + f
    BY <1>8
  <2>3. /\ TreeSound(d, h) /\ UsedIn(d) = UsedIn(cte)
        /\ \A x, y : Above(d, h, x, y) <=> Above(cte, h, x, y)
    BY ONLY <1>1, <2>1, <2>2, MarkSound
  <2> QED  BY <2>3
<1>11. /\ d[s].cap.base = cap.base /\ d[s].cap.bits = cap.bits /\ d[s].cap.free = f
       /\ \A x \in Slots \ {s} : d[x] = cte[x]
  <2>1. cap \in Caps /\ cte[s] \in Entries
    BY <1>4 DEF SoundCaps
  <2> QED  BY <1>4, <2>1 DEF Caps, Entries, Marked
<1>a. Grew(cte, h, d, h, s, {})
  BY <1>1, <1>10, MarkGrows
<1> HIDE DEF d
<1>b. Badged(d)
  BY <1>a DEF Grew
<1>12. Cleared(d, dirty \ (cap.base + f .. cap.base + top - 1))
  <2> SUFFICES ASSUME NEW x \in UsedIn(d), d[x].cap.type = "untyped", NEW u \in Region(d[x].cap),
                      u >= d[x].cap.base + d[x].cap.free, u \in dirty
               PROVE  u \in cap.base + f .. cap.base + top - 1
    BY DEF Cleared
  <2>1. Cleared(cte, dirty) /\ x \in UsedIn(cte)
    BY <1>10 DEF UntypedInv, Sound
  <2>2. x = s
    BY <1>4, <1>11, <2>1 DEF Cleared
  <2>3. u \in Region(cap) /\ u >= cap.base + f /\ u \in Int
    BY <1>5, <1>11, <2>2 DEF Region
  <2>4. ~(u >= cap.base + cap.free)
    BY <1>2, <1>4, <2>1, <2>3 DEF Cleared
  <2> HIDE DEF cap
  <2> QED  BY <1>5, <1>7, <2>3, <2>4
<1>13. cte' = d
  BY <1>9 DEF d, Marked
<1> QED  BY <1>9, <1>10, <1>12, <1>13, <1>a, <1>b DEF UntypedInv, Sound

(* The places of the objects of a window, B units each. *)
LEMMA PartFacts ==
    ASSUME NEW B \in Nat \ {0}, NEW n \in Nat \ {0}, NEW i \in 1 .. n
    PROVE  /\ (i - 1) * B \in Nat /\ (i - 1) * B + B <= n * B /\ n * B \in Nat
           /\ \A j \in 1 .. n : j < i => (j - 1) * B + B <= (i - 1) * B
<1>1. (i - 1) * B \in Nat /\ n * B \in Nat
  OBVIOUS
<1>2. (i - 1) * B + B = i * B /\ i * B <= n * B
  OBVIOUS
<1>3. ASSUME NEW j \in 1 .. n, j < i PROVE (j - 1) * B + B <= (i - 1) * B
  <2>1. (j - 1) * B + B = j * B
    OBVIOUS
  <2>2. j * B <= (i - 1) * B
    <3>1. j \in Nat /\ i - 1 \in Nat /\ j <= i - 1
      BY <1>3
    <3> DEFINE k == i - 1
    <3> HIDE DEF k
    <3>2. k \in Nat /\ j <= k
      BY <3>1 DEF k
    <3>3. j * B <= k * B
      BY <3>1, <3>2
    <3> QED  BY <3>3 DEF k
  <2> QED  BY <2>1, <2>2
<1> QED  BY <1>1, <1>2, <1>3

LEMMA ObjectSound ==
    ASSUME NEW cap \in SoundCaps, NEW type \in {"untyped", "endpoint"}, NEW bits \in Nat,
           type = "endpoint" => bits = 0,
           NEW base \in Nat, NEW q \in Nat, base = BIT[bits] * q,
           cap.base <= base, base + BIT[bits] <= cap.base + BIT[cap.bits]
    PROVE  LET p == createObject(type, base, bits)
           IN  /\ p \in SoundCaps /\ Covers(cap, p)
               /\ p.type = type /\ p.base = base /\ p.bits = bits /\ p.free = 0
<1> DEFINE p == createObject(type, base, bits)
<1>1. /\ p \in Caps /\ p.type = type /\ p.base = base /\ p.bits = bits /\ p.free = 0 /\ p.badge = 0
  BY DEF createObject, UntypedCap, EndpointCap, NullCap, Caps, CapTypes
<1> HIDE DEF p
<1>2. cap.base \in Nat /\ BIT[cap.bits] \in Nat /\ BIT[bits] \in Nat \ {0}
  BY BITFacts DEF SoundCaps, Caps
<1>3. Covers(cap, p) /\ p.base \in Region(p)
  BY <1>1, <1>2 DEF Covers, Region
<1>4. \A u \in Region(p) : u \in Region(cap)
  BY <1>1, <1>2 DEF Region
<1>5. \A u \in Region(p) : u \div BIT[MemBits] = Root(cap)
  BY <1>4 DEF SoundCaps
<1>6. Root(p) = Root(cap)
  BY <1>3, <1>5 DEF Root
<1>7. p \in SoundCaps
  <2>1. p.free <= BIT[p.bits]
    BY <1>1, <1>2
  <2>2. \E k \in Nat : p.base = BIT[p.bits] * k
    BY <1>1
  <2> QED  BY <1>1, <1>5, <1>6, <2>1, <2>2 DEF SoundCaps
<1> QED  BY <1>1, <1>3, <1>7 DEF p

LEMMA LinkType ==
    ASSUME NEW c \in [Slots -> Entries], NEW s \in Slots, NEW t \in Slots, NEW cap \in Caps, NEW flag \in BOOLEAN
    PROVE  Link(c, cap, flag, s, t) \in [Slots -> Entries]
<1> DEFINE n == c[s].next
           e == [cap |-> cap, prev |-> s, next |-> n, revocable |-> flag, firstBadged |-> flag]
           c1 == [c EXCEPT ![t] = e, ![s].next = t]
<1>1. n \in Slot /\ e \in Entries
  BY DEF Entries, Slot
<1>2. c1 \in [Slots -> Entries]
  <2> DEFINE c0 == [c EXCEPT ![t] = e]
  <2>1. c0 \in [Slots -> Entries]
    BY <1>1
  <2>2. c1 = [c0 EXCEPT ![s].next = t]
    OBVIOUS
  <2> HIDE DEF c0, c1, e
  <2>3. [c0[s] EXCEPT !.next = t] \in Entries
    BY <2>1 DEF Entries, Slot
  <2> QED  BY <2>1, <2>2, <2>3
<1>3. Link(c, cap, flag, s, t) = SetPrev(c1, n, t)
  BY DEF Link
<1> HIDE DEF c1, n
<1>4. CASE n = NoSlot
  BY <1>2, <1>3, <1>4 DEF SetPrev
<1>5. CASE n # NoSlot
  <2>1. [c1[n] EXCEPT !.prev = t] \in Entries /\ n \in Slots
    BY <1>1, <1>2, <1>5 DEF Entries, Slot
  <2> QED  BY <1>2, <1>3, <1>5, <2>1 DEF SetPrev
<1> QED  BY <1>4, <1>5

Meets(cap, lo, hi) == \E u \in Region(cap) : lo <= u /\ u < hi

(* There is room for n objects below the watermark of s, and only what is above
   s has it. *)
MayCreate(c, h, s, w, n, type, base, bits) ==
    /\ TreeSound(c, h) /\ Badged(c) /\ s \in UsedIn(c) /\ c[s].cap.type = "untyped"
    /\ n \in Nat \ {0} /\ w \in [1 .. n -> Slots] /\ Len(w) = n
    /\ \A i, j \in 1 .. n : w[i] = w[j] => i = j
    /\ \A i \in 1 .. n : w[i] \notin UsedIn(c)
    /\ type \in {"untyped", "endpoint"} /\ bits \in Nat /\ (type = "endpoint" => bits = 0)
    /\ base \in Nat /\ \E q \in Nat : base = BIT[bits] * q
    /\ c[s].cap.base <= base /\ base + n * BIT[bits] <= c[s].cap.base + c[s].cap.free
    /\ \A x \in UsedIn(c) \ {s} : Meets(c[x].cap, base, base + n * BIT[bits]) => Above(c, h, x, s)

(* The first n slots of a window. *)
First(w, n) == {w[i] : i \in 1 .. n}

(* d is c with the n objects of a window below s. *)
Created(c, h, s, d, w, n, type, base, bits) ==
    /\ \E g : Grew(c, h, d, g, s, First(w, n))
    /\ UsedIn(d) = UsedIn(c) \cup {w[i] : i \in 1 .. n}
    /\ \A x \in UsedIn(c) : d[x].cap = c[x].cap
    /\ \A i \in 1 .. n : d[w[i]].cap = createObject(type, base + (i - 1) * BIT[bits], bits)

(* The objects of a retype, linked in one after the other: each keeps clear of
   those before it, and of all else but what is above the parent. *)
LEMMA CreateSound ==
    ASSUME NEW c, NEW h, NEW s, NEW w, NEW n, NEW type, NEW base, NEW bits,
           MayCreate(c, h, s, w, n, type, base, bits)
    PROVE  Created(c, h, s, createNewObjects(c, s, w, type, base, bits), w, n, type, base, bits)
<1>a. PICK q \in Nat : base = BIT[bits] * q
  BY DEF MayCreate
<1> SUFFICES
      ASSUME TreeSound(c, h), Badged(c), s \in UsedIn(c), c[s].cap.type = "untyped",
             n \in Nat \ {0}, w \in [1 .. n -> Slots], Len(w) = n,
             \A i, j \in 1 .. n : w[i] = w[j] => i = j,
             \A i \in 1 .. n : w[i] \notin UsedIn(c),
             type \in {"untyped", "endpoint"}, bits \in Nat, type = "endpoint" => bits = 0,
             base \in Nat, base = BIT[bits] * q,
             c[s].cap.base <= base, base + n * BIT[bits] <= c[s].cap.base + c[s].cap.free,
             \A x \in UsedIn(c) \ {s} : Meets(c[x].cap, base, base + n * BIT[bits]) => Above(c, h, x, s)
      PROVE  Created(c, h, s, createNewObjects(c, s, w, type, base, bits), w, n, type, base, bits)
  BY <1>a DEF MayCreate
<1> DEFINE B == BIT[bits]
           obj(i) == createObject(type, base + (i - 1) * B, bits)
           after[i \in 0 .. Len(w)] ==
               IF i = 0 THEN c
               ELSE insertNewCap(after[i - 1], s, w[i], createObject(type, base + (i - 1) * BIT[bits], bits))
           V == [Slots -> Entries]
           F == [i \in 1 .. n |-> [d \in V |-> insertNewCap(d, s, w[i], obj(i))]]
           cap == c[s].cap
<1>1. /\ c \in V /\ EntriesSound(c) /\ s \in Slots /\ UsedIn(c) \subseteq Slots
      /\ \A x \in UsedIn(c) : c[x].cap \in SoundCaps
  BY DEF TreeSound, EntriesSound, UsedIn
<1>2. B \in Nat \ {0}
  BY BITFacts
<1>3. \A i \in 1 .. n : /\ (i - 1) * B \in Nat /\ (i - 1) * B + B <= n * B /\ n * B \in Nat
                        /\ \A j \in 1 .. n : j < i => (j - 1) * B + B <= (i - 1) * B
  <2> HIDE DEF B
  <2> QED  BY <1>2, PartFacts
<1>4. cap \in SoundCaps /\ cap.base \in Nat /\ cap.free \in Nat /\ BIT[cap.bits] \in Nat /\ cap.free <= BIT[cap.bits]
  BY <1>1, BITFacts DEF SoundCaps, Caps
<1>5. ASSUME NEW i \in 1 .. n
      PROVE  /\ obj(i) \in SoundCaps /\ Covers(cap, obj(i))
             /\ obj(i).type = type /\ obj(i).base = base + (i - 1) * B /\ obj(i).bits = bits
  <2> DEFINE a == base + (i - 1) * B
  <2>1. a \in Nat /\ a = B * (q + (i - 1)) /\ q + (i - 1) \in Nat
    <3> DEFINE k == i - 1
    <3>1. k \in Nat /\ base = B * q /\ k * B \in Nat
      BY <1>3
    <3> HIDE DEF k, B
    <3>2. k * B = B * k /\ B * (q + k) = B * q + B * k
      BY ONLY <1>2, <3>1, q \in Nat
    <3>3. base + k * B \in Nat /\ base + k * B = B * (q + k) /\ q + k \in Nat
      BY ONLY <3>1, <3>2, q \in Nat, base \in Nat
    <3> QED  BY <3>3 DEF k
  <2>2. cap.base <= a /\ a + B <= cap.base + BIT[cap.bits]
    <3> DEFINE m == (i - 1) * B
               l == n * B
    <3>1. m \in Nat /\ l \in Nat /\ m + B <= l
      BY <1>3
    <3>2. base + l <= cap.base + cap.free /\ cap.base <= base
      OBVIOUS
    <3> HIDE DEF m, l, cap, B
    <3>3. cap.base <= base + m /\ (base + m) + B <= cap.base + BIT[cap.bits]
      BY ONLY <1>2, <1>4, <3>1, <3>2, base \in Nat
    <3> QED  BY <3>3 DEF m
  <2> HIDE DEF a, cap
  <2>3. /\ createObject(type, a, bits) \in SoundCaps /\ Covers(cap, createObject(type, a, bits))
        /\ createObject(type, a, bits).type = type /\ createObject(type, a, bits).base = a
        /\ createObject(type, a, bits).bits = bits
    BY <1>4, <2>1, <2>2, ObjectSound
  <2> QED  BY <2>3 DEF a
<1> HIDE DEF obj
<1>6. \A d, i : insertNewCap(d, s, w[i], obj(i)) = Link(d, obj(i), TRUE, s, w[i])
  BY DEF insertNewCap, Link
<1>7. F \in [1 .. n -> [V -> V]]
  <2> SUFFICES ASSUME NEW i \in 1 .. n, NEW d \in V
               PROVE  insertNewCap(d, s, w[i], obj(i)) \in V
    OBVIOUS
  <2>1. obj(i) \in Caps
    BY <1>5 DEF SoundCaps
  <2> DEFINE p == obj(i)
             t == w[i]
             yes == TRUE
  <2>2. t \in Slots /\ p \in Caps /\ yes \in BOOLEAN
    BY <2>1
  <2> HIDE DEF p, t, yes
  <2>3. Link(d, p, yes, s, t) \in V
    BY <1>1, <2>2, LinkType
  <2> QED  BY <1>6, <2>3 DEF p, t, yes
<1>8. \E g \in [0 .. n -> V] : Follows(g, c, F, n)
  <2> HIDE DEF F, V
  <2> QED  BY <1>1, <1>7, Recursion
<1>9. \E g : g = [i \in 0 .. n |-> IF i = 0 THEN c ELSE insertNewCap(g[i - 1], s, w[i], obj(i))]
  <2>1. PICK g \in [0 .. n -> V] : g[0] = c /\ \A i \in 1 .. n : g[i] = F[i][g[i - 1]]
    BY <1>8 DEF Follows
  <2>2. \A i \in 1 .. n : g[i] = insertNewCap(g[i - 1], s, w[i], obj(i))
    <3> HIDE DEF V
    <3> TAKE i \in 1 .. n
    <3>1. g[i - 1] \in V
      OBVIOUS
    <3> QED  BY <2>1, <3>1
  <2> HIDE DEF V, F
  <2>3. g = [i \in 0 .. n |-> IF i = 0 THEN c ELSE insertNewCap(g[i - 1], s, w[i], obj(i))]
    BY <2>1, <2>2
  <2> QED  BY <2>3
<1>10. after = [i \in 0 .. n |-> IF i = 0 THEN c ELSE insertNewCap(after[i - 1], s, w[i], obj(i))]
  BY <1>9 DEF obj
<1>11. createNewObjects(c, s, w, type, base, bits) = after[n]
  BY DEF createNewObjects
<1> HIDE DEF after, F, V
<1> DEFINE Stage(d, g, i) ==
               /\ TreeSound(d, g)
               /\ Grew(c, h, d, g, s, First(w, i))
               /\ UsedIn(d) = UsedIn(c) \cup {w[j] : j \in 1 .. i}
               /\ \A x \in UsedIn(c) : d[x].cap = c[x].cap
               /\ \A j \in 1 .. i : d[w[j]].cap = obj(j)
               /\ \A x \in UsedIn(c) : Above(c, h, x, s) => Above(d, g, x, s)
           X == {i \in Nat : i <= n => \E g : Stage(after[i], g, i)}
<1>12. 0 \in X
  <2>1. after[0] = c
    BY <1>10
  <2>2. Grew(c, h, c, h, s, {})
    BY DEF Grew
  <2>3. First(w, 0) = {} /\ {w[j] : j \in 1 .. 0} = {} /\ 1 .. 0 = {}
    BY DEF First
  <2>4. Grew(c, h, c, h, s, First(w, 0)) /\ UsedIn(c) = UsedIn(c) \cup {w[j] : j \in 1 .. 0}
    BY <2>2, <2>3
  <2>5. Stage(c, h, 0)
    BY <2>4
  <2> QED  BY <2>1, <2>5
<1>13. ASSUME NEW k \in Nat, k \in X PROVE k + 1 \in X
  <2> SUFFICES ASSUME k + 1 <= n PROVE \E g : Stage(after[k + 1], g, k + 1)
    OBVIOUS
  <2> DEFINE i == k + 1
             t == w[i]
             d == after[k]
             e == after[i]
  <2>1. i \in 1 .. n /\ i - 1 = k /\ i \in 0 .. n /\ i # 0
    OBVIOUS
  <2>2. PICK g : Stage(d, g, k)
    BY <1>13
  <2>3. e = Link(d, obj(i), TRUE, s, t)
    BY <1>6, <1>10, <2>1
  <2>4. /\ s \in UsedIn(d) /\ t \in Slots \ UsedIn(d) /\ s # t /\ t \notin UsedIn(c)
        /\ \A j \in 1 .. k : w[j] # t
    BY <1>1, <2>1, <2>2 DEF UsedIn
  <2>5. obj(i) \in Caps /\ obj(i) \in SoundCaps
    BY <1>5, <2>1 DEF SoundCaps
  <2> HIDE DEF d, e, t
  <2>6. Linked(d, e, s, t) /\ e[t].cap = obj(i) /\ e[t].revocable = TRUE /\ e[t].firstBadged = TRUE
    <3> DEFINE yes == TRUE
               p == obj(i)
    <3>1. yes \in BOOLEAN /\ e = Link(d, p, yes, s, t) /\ p \in Caps /\ TreeSound(d, g)
      BY <2>2, <2>3, <2>5
    <3> HIDE DEF yes, p
    <3>2. Linked(d, e, s, t) /\ e[t].cap = p /\ e[t].revocable = yes /\ e[t].firstBadged = yes
      BY ONLY <2>4, <3>1, LinkLinks
    <3> QED  BY <3>2 DEF yes, p
  <2>7. Hangs(d, g, s, obj(i))
    <3>1. d[s].cap = cap
      BY <2>2
    <3>2. obj(i).base + BIT[obj(i).bits] <= cap.base + cap.free
      <4> DEFINE m == (i - 1) * B
                 l == n * B
      <4>1. m \in Nat /\ l \in Nat /\ m + B <= l
        BY <1>3, <2>1
      <4>2. base + l <= cap.base + cap.free
        OBVIOUS
      <4>3. obj(i).base = base + m /\ BIT[obj(i).bits] = B
        BY <1>5, <2>1
      <4> HIDE DEF m, l, cap, B
      <4> QED  BY ONLY <1>2, <1>4, <4>1, <4>2, <4>3, base \in Nat
    <3>3. ASSUME NEW x \in UsedIn(d) \ {s}, Overlap(d[x].cap, obj(i)) PROVE Above(d, g, x, s)
      <4>1. obj(i).base = base + (i - 1) * B /\ obj(i).bits = bits
        BY <1>5, <2>1
      <4>2. PICK u \in Region(d[x].cap) : u \in Region(obj(i))
        BY <3>3 DEF Overlap
      <4>3. base + (i - 1) * B <= u /\ u < base + (i - 1) * B + B /\ u \in Int
        <5> DEFINE m == (i - 1) * B
        <5>1. m \in Nat /\ obj(i).base = base + m
          BY <1>3, <2>1, <4>1
        <5> HIDE DEF m
        <5>2. u \in base + m .. base + m + B - 1
          BY <4>1, <4>2, <5>1 DEF Region
        <5>3. base + m <= u /\ u < base + m + B /\ u \in Int
          BY SMTT(30), <1>2, <5>1, <5>2
        <5> QED  BY <5>3 DEF m
      <4>4. CASE x \in UsedIn(c)
        <5>1. base <= u /\ u < base + n * B
          <6> DEFINE m == (i - 1) * B
                     l == n * B
          <6>1. m \in Nat /\ l \in Nat /\ m + B <= l
            BY <1>3, <2>1
          <6> HIDE DEF m, l, B
          <6>2. base + m <= u /\ u < base + m + B
            BY <4>3 DEF m
          <6>3. base <= u /\ u < base + l
            BY ONLY <1>2, <4>3, <6>1, <6>2, base \in Nat
          <6> QED  BY <6>3 DEF l
        <5>2. d[x].cap = c[x].cap
          BY <2>2, <4>4
        <5>3. Meets(c[x].cap, base, base + n * B)
          BY <4>2, <5>1, <5>2 DEF Meets
        <5>4. Above(c, h, x, s)
          BY <4>4, <5>3
        <5> QED  BY <2>2, <4>4, <5>4
      <4>5. CASE x \notin UsedIn(c)
        <5>1. PICK j \in 1 .. k : x = w[j]
          BY <2>2, <4>5
        <5>2. d[x].cap = obj(j) /\ j \in 1 .. n /\ j < i
          BY <2>1, <2>2, <5>1
        <5>3. obj(j).base = base + (j - 1) * B /\ obj(j).bits = bits
          BY <1>5, <5>2
        <5> DEFINE m == (i - 1) * B
                   l == (j - 1) * B
        <5>4. m \in Nat /\ l \in Nat /\ l + B <= m
          BY <1>3, <2>1, <5>2
        <5>5. u \in base + l .. base + l + B - 1
          BY <4>2, <5>2, <5>3 DEF Region
        <5>6. base + m <= u
          BY <4>3
        <5> HIDE DEF m, l, B
        <5> QED  BY <1>2, <5>4, <5>5, <5>6
      <4> QED  BY <4>4, <4>5
    <3> QED  BY <1>5, <2>1, <2>5, <3>1, <3>2, <3>3 DEF Hangs
  <2>8. /\ TreeSound(e, Lifted(g, s, t))
        /\ UsedIn(e) = UsedIn(d) \cup {t}
        /\ \A x, y \in UsedIn(d) : Above(e, Lifted(g, s, t), x, y) <=> Above(d, g, x, y)
    <3>1. TreeSound(d, g) /\ Hangs(d, g, s, e[t].cap) /\ (e[t].cap.type = "untyped" => e[t].revocable)
      BY <2>2, <2>6, <2>7
    <3> QED  BY ONLY <2>6, <3>1, LinkSound
  <2>a. Grew(d, g, e, Lifted(g, s, t), s, {t})
    <3>1. d[s].cap.badge = 0 /\ d[s].cap.type = "untyped"
      BY <1>4, <2>2 DEF SoundCaps
    <3>2. Flagged(d, e, s, t)
      BY <2>6, <3>1 DEF Flagged, sameObjectAs
    <3>3. /\ TreeSound(d, g) /\ Badged(d) /\ Linked(d, e, s, t)
          /\ Hangs(d, g, s, e[t].cap) /\ (e[t].cap.type = "untyped" => e[t].revocable)
      BY <2>2, <2>6, <2>7 DEF Grew
    <3> QED  BY ONLY <3>2, <3>3, LinkGrows
  <2> DEFINE f == Lifted(g, s, t)
  <2> HIDE DEF f
  <2>b. Grew(c, h, e, f, s, First(w, i))
    <3>1. First(w, i) = First(w, k) \cup {t}
      BY <2>1 DEF First, t
    <3>2. Grew(c, h, d, g, s, First(w, k)) /\ Grew(d, g, e, f, s, {t})
      BY <2>2, <2>a DEF f
    <3>3. Grew(c, h, e, f, s, First(w, k) \cup {t})
      BY <3>2, GrewMore
    <3> QED  BY <3>1, <3>3
  <2>9. TreeSound(e, f) /\ \A x, y \in UsedIn(d) : Above(e, f, x, y) <=> Above(d, g, x, y)
    BY <2>8 DEF f
  <2>10. UsedIn(e) = UsedIn(c) \cup {w[j] : j \in 1 .. i}
    <3>1. {w[j] : j \in 1 .. i} = {w[j] : j \in 1 .. k} \cup {t}
      BY <2>1 DEF t
    <3> QED  BY <2>2, <2>8, <3>1
  <2>11. \A x \in Slots \ {t} : e[x].cap = d[x].cap
    BY <2>6 DEF Linked
  <2>12. \A x \in UsedIn(c) : e[x].cap = c[x].cap
    BY <1>1, <2>2, <2>4, <2>11
  <2>13. \A j \in 1 .. i : e[w[j]].cap = obj(j)
    <3> TAKE j \in 1 .. i
    <3>1. CASE j = i
      BY <2>6, <3>1 DEF t
    <3>2. CASE j # i
      <4>1. j \in 1 .. k /\ w[j] \in Slots \ {t}
        BY <2>1, <2>4, <3>2
      <4> QED  BY <2>2, <2>11, <4>1
    <3> QED  BY <3>1, <3>2
  <2>14. \A x \in UsedIn(c) : Above(c, h, x, s) => Above(e, f, x, s)
    BY <2>2, <2>4, <2>9
  <2>15. Stage(e, f, i)
    BY <2>9, <2>10, <2>12, <2>13, <2>14, <2>b
  <2> HIDE DEF Stage
  <2> QED  BY <2>15 DEF e
<1> HIDE DEF X
<1>14. Nat \subseteq X
  BY <1>12, <1>13, Induction
<1>15. PICK g : Stage(after[n], g, n)
  BY <1>14 DEF X
<1>16. \A i \in 1 .. n : obj(i) = createObject(type, base + (i - 1) * BIT[bits], bits)
  BY DEF obj
<1> QED  BY <1>11, <1>15, <1>16 DEF Created

LEMMA RetypeSound ==
    ASSUME UntypedInv, NEW h, TreeSound(cte, h), NEW s \in Slots, NEW type \in {"untyped", "endpoint"}, NEW bits \in Nat,
           type = "endpoint" => bits = 0, NEW w \in Windows, Retype(s, type, bits, w)
    PROVE  UntypedInv' /\ \E g : Grew(cte, h, cte', g, s, First(w, Len(w)))
<1> DEFINE cap == cte[s].cap
           B == BIT[bits]
           size == BIT[cap.bits]
           f0 == FreeIndex(s)
           n == Len(w)
           base == alignUp(cap.base + f0, bits)
           top == base + n * B
           f == top - cap.base
           cleared == IF HasChildren(cte, s) THEN {} ELSE ResetRegion(cap)
           D == dirty \ cleared
           marked == Marked(cte, s, f)
           d == createNewObjects(marked, s, w, type, base, bits)
<1>1. TreeSound(cte, h) /\ Badged(cte)
  BY DEF UntypedInv, Sound
<1>2. /\ cap.type = "untyped"
      /\ (size - f0) \div B >= n
      /\ \A i \in DOMAIN w : IsEmpty(cte, w[i])
      /\ cte' = d
      /\ dirty' = IF type = "untyped" THEN D ELSE D \cup (base .. top - 1)
  BY DEF Retype, HasRoom, Marked
<1>3. /\ n \in Nat \ {0} /\ w \in [1 .. n -> Slots]
      /\ \A i, j \in 1 .. n : w[i] = w[j] => i = j
      /\ \A i \in 1 .. n : w[i] \notin UsedIn(cte)
  <2>1. PICK m \in 1 .. FanOut : w \in [1 .. m -> Slots]
    BY DEF Windows
  <2>2. m \in Nat \ {0}
    BY UntypedAssumption, <2>1
  <2>3. w \in Seq(Slots)
    BY <2>1, <2>2
  <2>4. DOMAIN w = 1 .. m /\ DOMAIN w = 1 .. n /\ n \in Nat
    BY <2>1, <2>3
  <2>5. n = m
    BY <2>2, <2>4
  <2>6. \A i, j \in 1 .. n : w[i] = w[j] => i = j
    BY <2>4 DEF Windows
  <2> QED  BY <1>2, <2>1, <2>2, <2>4, <2>5, <2>6 DEF UsedIn
<1>4. /\ cte \in [Slots -> Entries] /\ s \in UsedIn(cte) /\ UsedIn(cte) \subseteq Slots /\ EntriesSound(cte)
      /\ cap \in SoundCaps /\ \A x \in UsedIn(cte) : cte[x].cap \in SoundCaps
  BY <1>1, <1>2 DEF TreeSound, EntriesSound, UsedIn, IsEmpty
<1>5. /\ cap.base \in Nat /\ cap.free \in Nat /\ cap.bits \in Nat /\ size \in Nat /\ cap.free <= size
      /\ \E k \in Nat : cap.base = size * k
  BY <1>2, <1>4, BITFacts DEF SoundCaps, Caps
<1>6. B \in Nat \ {0}
  BY BITFacts
<1>7. /\ f0 \in Nat /\ f0 <= size
      /\ HasChildren(cte, s) => f0 = cap.free
      /\ ~HasChildren(cte, s) => f0 = 0
  BY <1>5 DEF FreeIndex
<1>8. base \in Nat /\ cap.base + f0 <= base /\ \E q \in Nat : base = B * q
  <2>1. cap.base + f0 \in Nat
    BY <1>5, <1>7
  <2> DEFINE x == cap.base + f0
  <2>2. x \in Nat
    BY <2>1
  <2> HIDE DEF x
  <2>3. /\ alignUp(x, bits) \in Nat /\ x <= alignUp(x, bits)
        /\ \E q \in Nat : alignUp(x, bits) = BIT[bits] * q
    BY <2>2, AlignedUp
  <2> QED  BY <2>3 DEF x
<1>9. top <= cap.base + size
  <2>1. PICK k \in Nat : cap.base = size * k
    BY <1>5
  <2> DEFINE z == cap.bits
  <2>2. /\ z \in Nat /\ f0 \in Nat /\ n \in Nat \ {0} /\ f0 <= BIT[z] /\ (BIT[z] - f0) \div BIT[bits] >= n
        /\ cap.base = BIT[z] * k
    BY <1>2, <1>3, <1>5, <1>7, <2>1
  <2> HIDE DEF z, f0, n
  <2>3. alignUp(BIT[z] * k + f0, bits) + n * BIT[bits] <= BIT[z] * k + BIT[z]
    BY ONLY <2>2, k \in Nat, bits \in Nat, RoomAligned
  <2> QED  BY <2>2, <2>3 DEF z
<1>10. n * B \in Nat
  <2> HIDE DEF n, B
  <2> QED  BY <1>3, <1>6
<1>11. f \in Nat /\ f0 <= f /\ f <= size /\ top \in Nat /\ top = cap.base + f
  <2> DEFINE l == n * B
             b == cap.base
  <2>1. l \in Nat /\ b \in Nat /\ f0 \in Nat /\ b + f0 <= base /\ base \in Nat /\ size \in Nat
        /\ base + l <= b + size
    BY <1>5, <1>7, <1>8, <1>9, <1>10
  <2> HIDE DEF l, b, f0, base, size
  <2>2. (base + l) - b \in Nat /\ f0 <= (base + l) - b /\ (base + l) - b <= size /\ base + l \in Nat
        /\ base + l = b + ((base + l) - b)
    BY <2>1
  <2> QED  BY <2>2 DEF l, b
<1>12. \A b \in UsedIn(cte) : Above(cte, h, s, b) =>
           cte[b].cap.base + BIT[cte[b].cap.bits] <= cap.base + f0
  <2>1. CASE HasChildren(cte, s)
    BY <1>1, <1>4, <1>7, <2>1 DEF TreeSound, BelowMark
  <2>2. CASE ~HasChildren(cte, s)
    BY <1>1, <1>2, <2>2, Childless
  <2> QED  BY <2>1, <2>2
<1> HIDE DEF f0, f, n, base, top, size, marked, d, D, B
<1>13. \A x \in UsedIn(cte) : cte[x].cap.base \in Nat /\ BIT[cte[x].cap.bits] \in Nat /\ cte[x].cap.free \in Nat
  BY <1>4, BITFacts DEF SoundCaps, Caps
<1>14. /\ TreeSound(marked, h) /\ UsedIn(marked) = UsedIn(cte)
       /\ \A x, y : Above(marked, h, x, y) <=> Above(cte, h, x, y)
  <2>1. cte[s].cap.type = "untyped" /\ f \in Nat /\ f <= BIT[cte[s].cap.bits]
    BY <1>2, <1>11 DEF size
  <2>2. \A b \in UsedIn(cte) : Above(cte, h, s, b) =>
             cte[b].cap.base + BIT[cte[b].cap.bits] <= cte[s].cap.base + f
    <3> SUFFICES ASSUME NEW b \in UsedIn(cte), Above(cte, h, s, b)
                 PROVE  cte[b].cap.base + BIT[cte[b].cap.bits] <= cap.base + f
      OBVIOUS
    <3> DEFINE e == cte[b].cap.base
               l == BIT[cte[b].cap.bits]
               a == cap.base
    <3>1. e \in Nat /\ l \in Nat /\ a \in Nat /\ e + l <= a + f0
      BY <1>5, <1>12, <1>13
    <3> HIDE DEF e, l, a
    <3>2. e + l <= a + f
      BY <1>7, <1>11, <3>1
    <3> QED  BY <3>2 DEF e, l, a
  <2> QED  BY ONLY <1>1, <2>1, <2>2, s \in Slots, MarkSound DEF marked
<1>15. /\ \A x \in Slots \ {s} : marked[x] = cte[x]
       /\ marked[s].cap.base = cap.base /\ marked[s].cap.bits = cap.bits /\ marked[s].cap.free = f
       /\ marked[s].cap.type = "untyped"
  <2>1. cap \in Caps /\ cte[s] \in Entries
    BY <1>4 DEF SoundCaps
  <2> QED  BY <1>2, <1>4, <2>1 DEF Caps, Entries, Marked, marked
<1>16. ASSUME NEW x \in UsedIn(cte) \ {s}, Meets(cte[x].cap, base, top) PROVE Above(cte, h, x, s)
  <2>1. PICK u \in Region(cte[x].cap) : base <= u /\ u < top
    BY <1>16 DEF Meets
  <2>2. u \in cte[x].cap.base .. cte[x].cap.base + BIT[cte[x].cap.bits] - 1
    BY DEF Region
  <2>3. u \in Region(cap)
    <3>1. u \in Int /\ cap.base <= u /\ u < cap.base + size
      BY ONLY <1>5, <1>7, <1>8, <1>9, <1>11, <1>13, <2>1, <2>2
    <3> QED  BY <1>5, <3>1 DEF Region, size
  <2>4. sameObjectAs(cte[x].cap, cap) \/ Above(cte, h, x, s) \/ Above(cte, h, s, x)
    BY <1>1, <1>4, <2>3 DEF TreeSound, Apart, Overlap
  <2>5. ~sameObjectAs(cte[x].cap, cap)
    BY <1>2, <1>4, CapFacts
  <2>6. ~Above(cte, h, s, x)
    <3>1. SUFFICES ASSUME Above(cte, h, s, x) PROVE FALSE
      OBVIOUS
    <3>2. cte[x].cap.base + BIT[cte[x].cap.bits] <= cap.base + f0
      BY <1>12, <3>1
    <3>3. cte[x].cap.base \in Nat /\ BIT[cte[x].cap.bits] \in Nat
      BY <1>13
    <3> QED  BY ONLY <1>5, <1>7, <1>8, <2>1, <2>2, <3>2, <3>3
  <2> QED  BY <2>4, <2>5, <2>6
<1>a. Grew(cte, h, marked, h, s, {})
  BY <1>1, <1>14, MarkGrows DEF marked
<1>17. /\ \E g : Grew(marked, h, d, g, s, First(w, n))
       /\ UsedIn(d) = UsedIn(cte) \cup {w[i] : i \in 1 .. n}
       /\ \A x \in UsedIn(cte) : d[x].cap = marked[x].cap
       /\ \A i \in 1 .. n : d[w[i]].cap = createObject(type, base + (i - 1) * B, bits)
  <2>1. PICK q \in Nat : base = BIT[bits] * q
    BY <1>8 DEF B
  <2>2. /\ TreeSound(marked, h) /\ Badged(marked) /\ s \in UsedIn(marked) /\ marked[s].cap.type = "untyped"
        /\ Len(w) = n /\ \A i \in 1 .. n : w[i] \notin UsedIn(marked)
    BY <1>3, <1>4, <1>14, <1>15, <1>a DEF n, Grew
  <2>3. marked[s].cap.base <= base
    <3> DEFINE a == cap.base
    <3>1. a \in Nat /\ a + f0 <= base
      BY <1>5, <1>8
    <3> HIDE DEF a
    <3>2. a <= base
      BY <1>7, <1>8, <3>1
    <3> QED  BY <1>15, <3>2 DEF a
  <2>4. base + n * BIT[bits] <= marked[s].cap.base + marked[s].cap.free
    <3>1. base + n * BIT[bits] = marked[s].cap.base + marked[s].cap.free
      BY <1>11, <1>15 DEF top, B
    <3>2. base + n * BIT[bits] \in Nat
      BY <1>11 DEF top, B
    <3> QED  BY <3>1, <3>2
  <2>5. \A x \in UsedIn(marked) \ {s} :
            Meets(marked[x].cap, base, base + n * BIT[bits]) => Above(marked, h, x, s)
    <3> SUFFICES ASSUME NEW x \in UsedIn(marked) \ {s}, Meets(marked[x].cap, base, base + n * BIT[bits])
                 PROVE  Above(marked, h, x, s)
      OBVIOUS
    <3>1. x \in UsedIn(cte) \ {s} /\ marked[x] = cte[x]
      BY <1>4, <1>14, <1>15
    <3>2. Meets(cte[x].cap, base, top)
      BY <3>1 DEF top, B
    <3> QED  BY <1>14, <1>16, <3>1, <3>2
  <2>6. /\ n \in Nat \ {0} /\ w \in [1 .. n -> Slots] /\ base \in Nat
        /\ \A i, j \in 1 .. n : w[i] = w[j] => i = j
        /\ (type = "endpoint" => bits = 0)
    BY <1>3, <1>8
  <2>7. Created(marked, h, s, d, w, n, type, base, bits)
    <3>1. MayCreate(marked, h, s, w, n, type, base, bits)
      BY <2>1, <2>2, <2>3, <2>4, <2>5, <2>6 DEF MayCreate
    <3> QED  BY ONLY <3>1, CreateSound DEF d
  <2> QED  BY <1>14, <2>7 DEF B, Created
<1>18. ASSUME NEW u \in Region(cap), u >= cap.base + f0 PROVE u \notin D
  <2>1. Cleared(cte, dirty)
    BY DEF UntypedInv, Sound
  <2>2. CASE HasChildren(cte, s)
    BY <1>2, <1>4, <1>7, <1>18, <2>1, <2>2 DEF Cleared, D
  <2>3. CASE ~HasChildren(cte, s)
    <3>1. CASE u >= cap.base + cap.free
      BY <1>2, <1>4, <2>1, <3>1 DEF Cleared, D
    <3>2. CASE ~(u >= cap.base + cap.free)
      <4> DEFINE unit == IF cap.bits < ChunkBits THEN cap.bits ELSE ChunkBits
                 x == cap.base + cap.free
      <4>1. unit \in Nat /\ x \in Nat
        BY <1>5, UntypedAssumption
      <4>2. D = dirty \ (cap.base .. alignUp(x, unit) - 1)
        BY <2>3 DEF D, ResetRegion
      <4> HIDE DEF unit, x
      <4>3. alignUp(x, unit) \in Nat /\ x <= alignUp(x, unit)
        BY <4>1, AlignedUp
      <4>4. u < x /\ cap.base <= u /\ u \in Int
        <5>1. u \in Int /\ cap.base <= u
          BY <1>5 DEF Region, size
        <5> QED  BY <1>5, <3>2, <5>1 DEF x
      <4>5. u \in cap.base .. alignUp(x, unit) - 1
        BY <1>5, <4>1, <4>3, <4>4
      <4> QED  BY <4>2, <4>5
    <3> QED  BY <3>1, <3>2
  <2> QED  BY <2>2, <2>3
<1>19. ASSUME NEW u \in base .. top - 1 PROVE u \in Region(cap) /\ u >= cap.base + f0 /\ u \in Nat
  <2> DEFINE a == cap.base
  <2>1. a \in Nat /\ a + f0 <= base /\ top <= a + size
    BY <1>5, <1>8, <1>9
  <2> HIDE DEF a
  <2>2. u \in Nat /\ u >= a + f0 /\ a <= u /\ u <= a + size - 1
    BY <1>5, <1>7, <1>8, <1>11, <2>1
  <2> QED  BY <2>2 DEF a, Region, size
<1>20. Cleared(d, dirty')
  <2> SUFFICES ASSUME NEW x \in UsedIn(d), d[x].cap.type = "untyped", NEW u \in Region(d[x].cap),
                      u >= d[x].cap.base + d[x].cap.free
               PROVE  u \notin dirty'
    BY DEF Cleared
  <2>1. CASE x \notin UsedIn(cte)
    <3>1. PICK i \in 1 .. n : x = w[i]
      BY <1>17, <2>1
    <3>2. d[x].cap = createObject(type, base + (i - 1) * B, bits)
      BY <1>17, <3>1
    <3>3. type = "untyped"
      BY <3>2 DEF createObject, EndpointCap, NullCap
    <3>4. d[x].cap.base = base + (i - 1) * B /\ d[x].cap.bits = bits
      BY <3>2, <3>3 DEF createObject, UntypedCap, NullCap
    <3>5. u \in base .. top - 1
      <4> DEFINE m == (i - 1) * B
                 l == n * B
      <4>1. m \in Nat /\ l \in Nat /\ m + B <= l
        BY <1>3, <1>6, PartFacts
      <4>2. u \in base + m .. base + m + B - 1 /\ top = base + l
        BY <3>4 DEF Region, top, B
      <4> HIDE DEF m, l
      <4> QED  BY <1>6, <1>8, <4>1, <4>2
    <3> QED  BY <1>2, <1>18, <1>19, <3>3, <3>5
  <2>2. CASE x = s
    <3>1. /\ d[x].cap.base = cap.base /\ d[x].cap.bits = cap.bits /\ d[x].cap.free = f
      BY <1>4, <1>15, <1>17, <2>2
    <3>2. u \in Region(cap)
      BY <3>1 DEF Region
    <3>3. u \in Int /\ u >= cap.base + f0 /\ u >= top
      <4>1. u \in Int
        BY <3>2 DEF Region
      <4>2. u >= cap.base + f
        BY <3>1
      <4> QED  BY ONLY <1>5, <1>7, <1>11, <4>1, <4>2
    <3>4. u \notin base .. top - 1
      BY ONLY <1>8, <1>11, <3>3
    <3> QED  BY <1>2, <1>18, <3>2, <3>3, <3>4
  <2>3. CASE x \in UsedIn(cte) /\ x # s
    <3>1. d[x].cap = cte[x].cap /\ x \in UsedIn(cte) \ {s}
      BY <1>4, <1>15, <1>17, <2>3
    <3>2. u \notin dirty
      BY <3>1 DEF UntypedInv, Sound, Cleared
    <3>3. u \notin base .. top - 1
      <4>1. SUFFICES ASSUME u \in base .. top - 1 PROVE FALSE
        OBVIOUS
      <4>2. base <= u /\ u < top /\ u \in Int
        BY <1>8, <1>11, <4>1
      <4>3. Above(cte, h, x, s)
        BY <1>16, <3>1, <4>2 DEF Meets
      <4>4. cap.base + size <= cte[x].cap.base + cte[x].cap.free
        BY <1>1, <1>4, <3>1, <4>3 DEF TreeSound, BelowMark, size
      <4>5. u >= cte[x].cap.base + cte[x].cap.free /\ cte[x].cap.base \in Nat /\ cte[x].cap.free \in Nat
        BY <1>13, <3>1
      <4> QED  BY ONLY <1>5, <1>9, <1>11, <4>2, <4>4, <4>5
    <3> QED  BY <1>2, <3>2, <3>3 DEF D
  <2> QED  BY <2>1, <2>2, <2>3
<1>21. \E g : Grew(cte, h, d, g, s, First(w, n))
  <2> DEFINE S == First(w, n)
  <2>1. PICK g : Grew(marked, h, d, g, s, S)
    BY <1>17
  <2> HIDE DEF S
  <2>2. Grew(cte, h, d, g, s, {} \cup S)
    BY <1>4, <1>a, <2>1, GrewMore
  <2>3. {} \cup S = S
    OBVIOUS
  <2>4. Grew(cte, h, d, g, s, S)
    BY <2>2, <2>3
  <2> QED  BY <2>4 DEF S
<1>22. (\E g : TreeSound(d, g)) /\ Badged(d)
  BY <1>21 DEF Grew
<1> QED  BY <1>2, <1>20, <1>21, <1>22 DEF UntypedInv, Sound, n

(* The initial capabilities are to regions of their own, each alone in its
   list. *)
LEMMA InitSound ==
    ASSUME Init
    PROVE  UntypedInv /\ TreeSound(cte, [s \in Slots |-> 0])
<1> DEFINE B == BIT[MemBits]
           h == [s \in Slots |-> 0]
<1>1. PICK root \in [1 .. NumRoots -> Slots] :
          /\ \A i, j \in 1 .. NumRoots : root[i] = root[j] => i = j
          /\ cte = [s \in Slots |->
                IF \E i \in 1 .. NumRoots : s = root[i]
                THEN [EmptyEntry EXCEPT !.cap = RootCap(CHOOSE i \in 1 .. NumRoots : s = root[i]),
                                        !.revocable = TRUE, !.firstBadged = TRUE]
                ELSE EmptyEntry]
  BY DEF Init
<1> DEFINE Roots == {root[i] : i \in 1 .. NumRoots}
           num(s) == CHOOSE i \in 1 .. NumRoots : s = root[i]
<1>2. B \in Nat \ {0} /\ MemBits \in Nat /\ NumRoots \in Nat
  BY BITFacts, UntypedAssumption
<1>3. \A s \in Roots : num(s) \in 1 .. NumRoots /\ root[num(s)] = s
  OBVIOUS
<1> HIDE DEF num
<1>4. /\ Roots \subseteq Slots
      /\ \A s \in Slots : cte[s] = IF s \in Roots
                                   THEN [EmptyEntry EXCEPT !.cap = RootCap(num(s)), !.revocable = TRUE,
                                                           !.firstBadged = TRUE]
                                   ELSE EmptyEntry
  BY <1>1 DEF num
<1>a. DOMAIN cte = Slots /\ cte = [s \in Slots |-> cte[s]]
  BY <1>1
<1>5. ASSUME NEW i \in 1 .. NumRoots
      PROVE  /\ RootCap(i) \in SoundCaps /\ RootCap(i).type = "untyped"
             /\ RootCap(i).base = B * (i - 1) /\ RootCap(i).bits = MemBits /\ RootCap(i).free = B
             /\ Root(RootCap(i)) = i - 1
  <2>1. B * (i - 1) \in Nat /\ i - 1 \in Nat
    <3> HIDE DEF B
    <3>1. i - 1 \in Nat
      OBVIOUS
    <3> QED  BY <1>2, <3>1
  <2> DEFINE cap == RootCap(i)
  <2>2. /\ cap \in Caps /\ cap.type = "untyped" /\ cap.badge = 0
        /\ cap.base = B * (i - 1) /\ cap.bits = MemBits /\ cap.free = B
    BY <1>2, <2>1 DEF RootCap, UntypedCap, NullCap, Caps, CapTypes
  <2> HIDE DEF cap, B
  <2>3. \A m \in Nat, u \in Int : B * m <= u /\ u < B * m + B => u \div B = m
    BY ONLY <1>2
  <2>4. Root(cap) = i - 1
    BY <1>2, <2>1, <2>2, <2>3 DEF Root, B
  <2>5. \A u \in Region(cap) : u \div BIT[MemBits] = Root(cap)
    <3> SUFFICES ASSUME NEW u \in Region(cap) PROVE u \div B = i - 1
      BY <2>4 DEF B
    <3>1. u \in B * (i - 1) .. B * (i - 1) + B - 1
      BY <2>2 DEF Region, B
    <3> DEFINE m == i - 1
               p == B * m
    <3>2. m \in Nat /\ p \in Nat
      BY <2>1
    <3>3. u \in Int /\ p <= u /\ u < p + B
      <4> HIDE DEF p
      <4> QED  BY <1>2, <3>1, <3>2 DEF p
    <3> HIDE DEF m
    <3>4. u \div B = m
      BY <2>3, <3>2, <3>3
    <3> QED  BY <3>4 DEF m
  <2>6. \E k \in Nat : cap.base = BIT[cap.bits] * k
    BY <2>1, <2>2 DEF B
  <2>7. cap.free <= BIT[cap.bits]
    BY <1>2, <2>2 DEF B
  <2> QED  BY <2>2, <2>4, <2>5, <2>6, <2>7 DEF SoundCaps, cap
<1>6. EmptyEntry \in Entries /\ EmptyEntry.cap.type = "null"
  BY DEF EmptyEntry, Entries, NullCap, Caps, CapTypes, Slot
<1>7. \A s \in Roots : /\ cte[s] \in Entries /\ cte[s].cap = RootCap(num(s)) /\ cte[s].revocable
                       /\ cte[s].firstBadged /\ cte[s].prev = NoSlot /\ cte[s].next = NoSlot
  <2> SUFFICES ASSUME NEW s \in Roots
               PROVE  /\ cte[s] \in Entries /\ cte[s].cap = RootCap(num(s)) /\ cte[s].revocable
                      /\ cte[s].firstBadged /\ cte[s].prev = NoSlot /\ cte[s].next = NoSlot
    OBVIOUS
  <2> DEFINE cap == RootCap(num(s))
  <2>1. cap \in Caps
    BY <1>3, <1>5 DEF SoundCaps
  <2>2. cte[s] = [EmptyEntry EXCEPT !.cap = cap, !.revocable = TRUE, !.firstBadged = TRUE]
    BY <1>4
  <2> HIDE DEF cap
  <2>3. cte[s] = [cap |-> cap, prev |-> NoSlot, next |-> NoSlot, revocable |-> TRUE, firstBadged |-> TRUE]
    BY <2>2 DEF EmptyEntry
  <2> QED  BY <2>1, <2>3 DEF Entries, Slot, cap
<1> HIDE DEF Roots
<1>8. cte \in [Slots -> Entries]
  <2>1. \A s \in Slots : cte[s] \in Entries
    BY <1>4, <1>6, <1>7
  <2> QED  BY <1>a, <2>1
<1>9. UsedIn(cte) = Roots
  <2>1. \A s \in Roots : cte[s].cap.type = "untyped"
    BY <1>3, <1>5, <1>7
  <2> QED  BY <1>4, <1>6, <2>1 DEF UsedIn, IsEmpty
<1>10. \A x, y \in Roots : Root(cte[x].cap) = Root(cte[y].cap) => x = y
  <2> SUFFICES ASSUME NEW x \in Roots, NEW y \in Roots, Root(cte[x].cap) = Root(cte[y].cap) PROVE x = y
    OBVIOUS
  <2>1. num(x) \in 1 .. NumRoots /\ num(y) \in 1 .. NumRoots /\ num(x) - 1 = num(y) - 1
    BY <1>3, <1>5, <1>7
  <2>2. num(x) = num(y)
    BY <2>1
  <2> QED  BY <1>3, <2>2
<1>11. \A x, y : ~Later(cte, h, x, y)
  <2>1. \A x \in Roots : h[x] = 0
    BY <1>4
  <2> HIDE DEF h
  <2>2. \A x, y \in Roots : ~(h[x] < h[y])
    BY <2>1
  <2> QED  BY <1>9, <2>2 DEF Later
<1>12. EntriesSound(cte)
  <2> SUFFICES ASSUME NEW s \in Slots
               PROVE  IF IsEmpty(cte, s) THEN cte[s] = EmptyEntry
                      ELSE cte[s].cap \in SoundCaps /\ (cte[s].cap.type = "untyped" => cte[s].revocable)
    BY <1>8 DEF EntriesSound
  <2>1. CASE s \in Roots
    BY <1>3, <1>5, <1>7, <2>1 DEF IsEmpty
  <2>2. CASE s \notin Roots
    BY <1>4, <1>6, <2>2 DEF IsEmpty
  <2> QED  BY <2>1, <2>2
<1>13. Ordered(cte, h)
  <2>1. NoSlot \notin Slots
    BY CteAssumption
  <2>2. \A x, y : ~Adjacent(cte, h, x, y)
    BY <1>11 DEF Adjacent
  <2>3. h \in [Slots -> Nat]
    OBVIOUS
  <2> HIDE DEF h
  <2> QED  BY ZenonT(60), <1>4, <1>7, <1>9, <1>10, <1>11, <2>1, <2>2, <2>3 DEF Ordered, Slot
<1>14. Apart(cte, h) /\ Contiguous(cte, h) /\ Together(cte, h) /\ BelowMark(cte, h)
  <2>1. \A x, y : ~Above(cte, h, x, y)
    BY <1>11 DEF Above
  <2>2. \A x, y \in UsedIn(cte) : x # y => ~Overlap(cte[x].cap, cte[y].cap)
    <3>1. \A x \in UsedIn(cte) : cte[x].cap \in SoundCaps
      BY <1>3, <1>5, <1>7, <1>9
    <3> QED  BY <1>9, <1>10, <3>1, CapFacts
  <2> QED  BY <1>11, <2>1, <2>2 DEF Apart, Contiguous, Together, BelowMark
<1>15. Cleared(cte, dirty)
  <2> SUFFICES ASSUME NEW s \in Roots, NEW u \in Region(cte[s].cap), u >= cte[s].cap.base + cte[s].cap.free
               PROVE  FALSE
    BY <1>9 DEF Cleared
  <2>1. /\ cte[s].cap.base = B * (num(s) - 1) /\ cte[s].cap.bits = MemBits /\ cte[s].cap.free = B
        /\ num(s) - 1 \in Nat
    BY <1>3, <1>5, <1>7
  <2> DEFINE k == num(s) - 1
             m == B * k
  <2>2. m \in Nat /\ cte[s].cap.base = m
    <3> HIDE DEF B, k
    <3>1. k \in Nat
      BY <2>1 DEF k
    <3>2. B * k \in Nat
      BY <1>2, <3>1
    <3> QED  BY <2>1, <3>2 DEF k
  <2> HIDE DEF m
  <2>3. u \in m .. m + B - 1 /\ u >= m + B
    BY <2>1, <2>2 DEF Region
  <2> HIDE DEF B
  <2> QED  BY <1>2, <2>2, <2>3
<1>16. TreeSound(cte, h)
  BY <1>12, <1>13, <1>14 DEF TreeSound
<1>17. Badged(cte)
  BY <1>7, <1>9 DEF Badged
<1> QED  BY <1>15, <1>16, <1>17 DEF UntypedInv, Sound

LEMMA StepSound == UntypedInv /\ [Next]_vars => UntypedInv'
<1> SUFFICES ASSUME UntypedInv, [Next]_vars PROVE UntypedInv'
  OBVIOUS
<1>a. PICK h : TreeSound(cte, h)
  BY DEF UntypedInv, Sound
<1>1. CASE UNCHANGED vars
  BY <1>1 DEF vars, UntypedInv
<1>2. ASSUME NEW s \in Slots, NEW w \in Windows, Retype(s, "endpoint", 0, w) PROVE UntypedInv'
  BY <1>2, <1>a, RetypeSound
<1>3. ASSUME NEW s \in Slots, NEW w \in Windows, NEW bits \in 0 .. MemBits, Retype(s, "untyped", bits, w)
      PROVE  UntypedInv'
  <2>1. bits \in Nat
    BY UntypedAssumption
  <2> QED  BY <1>3, <1>a, <2>1, RetypeSound
<1>4. ASSUME NEW s \in Slots, RetypePreempted(s) \/ Delete(s) \/ Revoke(s) PROVE UntypedInv'
  <2>1. CASE RetypePreempted(s)
    BY <1>a, <2>1, RetypePreemptedSound
  <2>2. CASE Delete(s)
    BY <2>2, DeleteSound
  <2>3. CASE Revoke(s)
    BY <1>a, <2>3, RevokeSound
  <2> QED  BY <1>4, <2>1, <2>2, <2>3
<1>5. ASSUME NEW s \in Slots, NEW d \in Slots, Copy(s, d) PROVE UntypedInv'
  BY <1>5, <1>a, CopySound
<1>6. ASSUME NEW s \in Slots, NEW d \in Slots, Move(s, d) PROVE UntypedInv'
  <2>1. s \in UsedIn(cte) /\ d \in Slots \ UsedIn(cte)
    BY <1>6 DEF Move, UsedIn
  <2>2. Sound(cteMove(cte, s, d), dirty)
    BY <2>1, MoveSound DEF UntypedInv
  <2> QED  BY <1>6, <2>2 DEF Move, UntypedInv
<1>7. ASSUME NEW s \in Slots, NEW d \in Slots, NEW b \in Badges, Mint(s, d, b) PROVE UntypedInv'
  BY <1>7, <1>a, MintSound
<1>8. ASSUME NEW s \in Slots, NEW p \in Slots, NEW d \in Slots, Rotate(s, p, d) PROVE UntypedInv'
  BY <1>8, RotateSound
<1> QED  BY <1>1, <1>2, <1>3, <1>4, <1>5, <1>6, <1>7, <1>8 DEF Next

LEMMA InvHolds == Spec => []UntypedInv
<1>1. Init => UntypedInv
  BY InitSound
<1> QED  BY <1>1, StepSound, PTL DEF Spec

----------------------------------------------------------------------------
(* What follows from the invariant *)

(* Whoever is met when the list is followed is later in it. *)
LEMMA FollowingLater ==
    ASSUME NEW h, TreeSound(cte, h), NEW s \in UsedIn(cte)
    PROVE  \A x \in Following(s) : Later(cte, h, s, x)
<1> DEFINE N == Cardinality(Slots)
           step[n \in 0 .. Cardinality(Slots)] ==
               IF n = 0 THEN {cte[s].next}
               ELSE step[n - 1] \cup {cte[x].next : x \in step[n - 1] \ {NoSlot}}
           L == {x \in Slots : Later(cte, h, s, x)} \cup {NoSlot}
           V == SUBSET L
           more(S) == S \cup {cte[x].next : x \in S \ {NoSlot}}
           F == [i \in 1 .. N |-> [S \in V |-> more(S)]]
<1>1. Following(s) = step[N] \ {NoSlot}
  BY DEF Following
<1>2. N \in Nat
  BY CteAssumption, FS_CardinalityType
<1>3. \A x \in UsedIn(cte) : cte[x].next = NoSlot \/ (cte[x].next \in Slots /\ Later(cte, h, x, cte[x].next))
  BY DEF TreeSound, Ordered, Adjacent, Slot
<1>4. \A x, y, z : Later(cte, h, x, y) /\ Later(cte, h, y, z) => Later(cte, h, x, z)
  BY LaterOrder DEF TreeSound
<1>5. {cte[s].next} \in V /\ \A S \in V : more(S) \in V
  <2>1. \A x \in L : x # NoSlot => cte[x].next \in L
    BY <1>3, <1>4 DEF Later
  <2> QED  BY <1>3, <2>1
<1>6. F \in [1 .. N -> [V -> V]]
  <2> HIDE DEF V, more
  <2> QED  BY <1>5
<1>7. \E g \in [0 .. N -> V] : Follows(g, {cte[s].next}, F, N)
  <2> HIDE DEF F, V, N
  <2> QED  BY <1>2, <1>5, <1>6, Recursion
<1>8. \E g : g = [n \in 0 .. N |-> IF n = 0 THEN {cte[s].next} ELSE more(g[n - 1])]
  <2>1. PICK g \in [0 .. N -> V] : g[0] = {cte[s].next} /\ \A i \in 1 .. N : g[i] = F[i][g[i - 1]]
    BY <1>7 DEF Follows
  <2>2. \A i \in 1 .. N : g[i] = more(g[i - 1])
    <3> HIDE DEF V, more
    <3> TAKE i \in 1 .. N
    <3>1. g[i - 1] \in V
      BY <1>2
    <3> QED  BY <2>1, <3>1
  <2> HIDE DEF more, V, F, N
  <2>3. g = [n \in 0 .. N |-> IF n = 0 THEN {cte[s].next} ELSE more(g[n - 1])]
    BY <1>2, <2>1, <2>2
  <2> QED  BY <2>3
<1>9. step = [n \in 0 .. N |-> IF n = 0 THEN {cte[s].next} ELSE more(step[n - 1])]
  BY <1>8
<1> HIDE DEF step, V, more, F, N
<1> DEFINE X == {n \in Nat : n <= N => step[n] \in V}
<1>10. 0 \in X
  BY <1>2, <1>5, <1>9
<1>11. ASSUME NEW n \in Nat, n \in X PROVE n + 1 \in X
  <2>1. SUFFICES ASSUME n + 1 <= N PROVE step[n + 1] \in V
    OBVIOUS
  <2>2. n + 1 \in 0 .. N /\ n + 1 # 0 /\ (n + 1) - 1 = n /\ step[n] \in V
    BY <1>2, <1>11, <2>1
  <2>3. step[n + 1] = more(step[n])
    BY <1>9, <2>2
  <2> QED  BY <1>5, <2>2, <2>3
<1> HIDE DEF X
<1>12. Nat \subseteq X
  BY <1>10, <1>11, Induction
<1>13. step[N] \in V
  BY <1>2, <1>12 DEF X
<1> QED  BY <1>1, <1>13 DEF V

LEMMA WellFormed ==
    ASSUME UntypedInv
    PROVE  ListWellFormed
<1>1. PICK h : TreeSound(cte, h)
  BY DEF UntypedInv, Sound
<1>2. Used = UsedIn(cte)
  BY DEF Used, UsedIn
<1>3. \A s \in Slots \ Used : cte[s] = EmptyEntry
  BY <1>1, <1>2, Neighbours
<1>4. ASSUME NEW s \in Used
      PROVE  /\ cte[s].next # NoSlot => cte[s].next \in Used /\ cte[cte[s].next].prev = s
             /\ cte[s].prev # NoSlot => cte[s].prev \in Used /\ cte[cte[s].prev].next = s
             /\ s \notin Following(s)
  <2>1. /\ \A x \in Slots : cte[x].next \in Slot /\ cte[x].prev \in Slot
        /\ \A x, y \in Slots : cte[x].next = y => x \in UsedIn(cte) /\ y \in UsedIn(cte)
        /\ \A x, y \in Slots : cte[x].next = y <=> cte[y].prev = x
    BY <1>1, Neighbours
  <2>2. s \notin Following(s)
    BY <1>1, <1>2, FollowingLater, LaterOrder DEF TreeSound
  <2> QED  BY <1>2, <2>1, <2>2 DEF Slot, Used
<1> QED  BY <1>3, <1>4 DEF ListWellFormed

(* The neighbours know of every other capability to their object. *)
LEMMA Final ==
    ASSUME UntypedInv
    PROVE  FinalExact
<1>1. PICK h : TreeSound(cte, h)
  BY DEF UntypedInv, Sound
<1>2. Used = UsedIn(cte) /\ Used \subseteq Slots /\ NoSlot \notin Slots
  BY CteAssumption DEF Used, UsedIn
<1>3. \A x \in Used : cte[x].cap \in SoundCaps
  BY <1>1, <1>2 DEF TreeSound, EntriesSound, UsedIn
<1>4. Ordered(cte, h) /\ Together(cte, h)
  BY <1>1 DEF TreeSound
<1>5. \A a, b \in SoundCaps : sameObjectAs(a, b) => sameObjectAs(b, a) /\ Root(a) = Root(b)
  BY CapFacts
<1>6. \A a, b, c \in SoundCaps : sameObjectAs(a, b) /\ sameObjectAs(a, c) => sameObjectAs(c, b)
  BY CapFacts
<1> SUFFICES ASSUME NEW s \in Used
             PROVE  isFinalCapability(cte, s) <=> \A x \in Used \ {s} : ~sameObjectAs(cte[s].cap, cte[x].cap)
  BY DEF FinalExact
<1> DEFINE n == cte[s].next
           p == cte[s].prev
<1>7. n \in Slot /\ p \in Slot
  BY <1>2, <1>4 DEF Ordered
<1>8. n \in Slots => n \in Used \ {s} /\ Adjacent(cte, h, s, n)
  BY <1>2, <1>4, LaterOrder DEF Ordered, Adjacent, Later
<1>9. p \in Slots => p \in Used \ {s} /\ Adjacent(cte, h, p, s)
  BY <1>2, <1>4, LaterOrder DEF Ordered, Adjacent, Later
<1>10. ASSUME \A x \in Used \ {s} : ~sameObjectAs(cte[s].cap, cte[x].cap) PROVE isFinalCapability(cte, s)
  <2> HIDE DEF n, p
  <2>1. n # NoSlot => ~sameObjectAs(cte[s].cap, cte[n].cap)
    BY <1>7, <1>8, <1>10 DEF Slot
  <2>2. p # NoSlot => ~sameObjectAs(cte[p].cap, cte[s].cap)
    BY <1>2, <1>3, <1>5, <1>7, <1>9, <1>10 DEF Slot
  <2> QED  BY <2>1, <2>2 DEF isFinalCapability, n, p
<1>11. ASSUME NEW x \in Used \ {s}, sameObjectAs(cte[s].cap, cte[x].cap) PROVE ~isFinalCapability(cte, s)
  <2>1. Later(cte, h, s, x) \/ Later(cte, h, x, s)
    <3>1. Root(cte[s].cap) = Root(cte[x].cap)
      BY <1>3, <1>5, <1>11
    <3> QED  BY <1>2, <1>4, <3>1, LaterOrder
  <2>2. CASE Later(cte, h, s, x)
    <3>1. n \in Slots
      BY <1>2, <1>4, <1>7, <2>2 DEF Ordered, Slot
    <3>2. n = x \/ Later(cte, h, n, x)
      <4>1. Later(cte, h, s, n) /\ ~Later(cte, h, x, n)
        BY <1>2, <1>8, <2>2, <3>1 DEF Adjacent
      <4> HIDE DEF n
      <4>2. n \in UsedIn(cte) /\ x \in UsedIn(cte) /\ Root(cte[n].cap) = Root(cte[x].cap)
        BY <2>2, <4>1 DEF Later
      <4> QED  BY <1>4, <4>1, <4>2, LaterOrder
    <3>3. sameObjectAs(cte[s].cap, cte[n].cap)
      BY <1>2, <1>4, <1>8, <1>11, <3>1, <3>2 DEF Together, Adjacent
    <3> QED  BY <1>2, <3>1, <3>3 DEF isFinalCapability
  <2>3. CASE Later(cte, h, x, s)
    <3>1. p \in Slots
      BY <1>2, <1>4, <1>7, <2>3 DEF Ordered, Slot
    <3>2. p = x \/ Later(cte, h, x, p)
      <4>1. Later(cte, h, p, s) /\ ~Later(cte, h, p, x)
        BY <1>2, <1>9, <2>3, <3>1 DEF Adjacent
      <4> QED  BY <1>2, <1>4, <2>3, <4>1, LaterOrder DEF Later
    <3>3. sameObjectAs(cte[x].cap, cte[s].cap)
      BY <1>3, <1>5, <1>11
    <3>4. sameObjectAs(cte[x].cap, cte[p].cap) \/ p = x
      BY <1>2, <1>4, <1>9, <3>1, <3>2, <3>3 DEF Together, Adjacent
    <3>5. sameObjectAs(cte[p].cap, cte[s].cap)
      BY <1>3, <1>6, <1>9, <3>1, <3>3, <3>4
    <3> QED  BY <1>2, <3>1, <3>5 DEF isFinalCapability
  <2> QED  BY <2>1, <2>2, <2>3
<1> QED  BY <1>10, <1>11

(* Descendants, its recursion unfolded: there is one function that follows the
   pointers, since each leads to a lower entry, and this is what it finds. *)
LEMMA DescendantsAre ==
    ASSUME NEW h, TreeSound(cte, h), NEW a \in Slots
    PROVE  Descendants(a) = {b \in Slots : Descends(cte, h, a, b)}
<1> DEFINE Upto(x, y) == {z \in Slots : (z = x \/ Later(cte, h, x, z)) /\ (z = y \/ Later(cte, h, z, y))}
           P(x) == isMDBParentOf(cte, a, x)
           G == [x \in Slots \cup {NoSlot} |->
                   IF x = NoSlot \/ ~P(x) THEN {}
                   ELSE {y \in Slots : (y = x \/ Later(cte, h, x, y)) /\ \A z \in Upto(x, y) : P(z)}]
           R == CHOOSE run : run = [x \in Slots \cup {NoSlot} |->
                   IF x = NoSlot \/ ~isMDBParentOf(cte, a, x) THEN {} ELSE {x} \cup run[cte[x].next]]
<1>1. Descendants(a) = R[cte[a].next]
  BY DEF Descendants
<1>2. /\ \A x \in Slots : cte[x].next \in Slot
      /\ \A x \in UsedIn(cte), y \in Slots : cte[x].next = y <=> Adjacent(cte, h, x, y)
      /\ \A x \in UsedIn(cte) : cte[x].next = NoSlot => \A y \in Slots : ~Later(cte, h, x, y)
      /\ \A x \in Slots \ UsedIn(cte) : cte[x].next = NoSlot
      /\ NoSlot \notin Slots /\ h \in [Slots -> Nat]
  <2>1. \A x \in Slots \ UsedIn(cte) : cte[x].next = NoSlot
    BY Neighbours DEF EmptyEntry
  <2> QED  BY <2>1, CteAssumption, Neighbours DEF TreeSound, Ordered
<1>3. /\ \A x, y : Later(cte, h, x, y) => x \in UsedIn(cte) /\ y \in UsedIn(cte) /\ x # y /\ ~Later(cte, h, y, x)
      /\ \A x, y, z : Later(cte, h, x, y) /\ Later(cte, h, y, z) => Later(cte, h, x, z)
      /\ \A x, y, z : Later(cte, h, x, y) /\ Later(cte, h, x, z) => y = z \/ Later(cte, h, y, z) \/ Later(cte, h, z, y)
      /\ UsedIn(cte) \subseteq Slots
  BY LaterOrder DEF Later, TreeSound, UsedIn
<1>4. \A x \in Slots : P(x) => x \in UsedIn(cte)
  BY DEF isMDBParentOf, sameRegionAs, UsedIn, IsEmpty
<1>5. \A x \in UsedIn(cte) :
        LET n == cte[x].next
        IN  n # NoSlot => /\ n \in Slots /\ Later(cte, h, x, n)
                          /\ \A y : Later(cte, h, x, y) <=> y = n \/ Later(cte, h, n, y)
  <2> TAKE x \in UsedIn(cte)
  <2> DEFINE n == cte[x].next
  <2> SUFFICES ASSUME n # NoSlot
               PROVE  n \in Slots /\ Later(cte, h, x, n) /\ \A y : Later(cte, h, x, y) <=> y = n \/ Later(cte, h, n, y)
    OBVIOUS
  <2>1. n \in Slots /\ Adjacent(cte, h, x, n)
    BY <1>2, <1>3 DEF Slot
  <2> HIDE DEF n
  <2> QED  BY <1>3, <2>1 DEF Adjacent
<1> HIDE DEF P
<1>6. ASSUME NEW x \in Slots, P(x) PROVE G[x] = {x} \cup G[cte[x].next]
  <2> DEFINE n == cte[x].next
  <2>1. x \in UsedIn(cte) /\ n \in Slot
    BY <1>2, <1>4, <1>6
  <2>2. G[x] = {y \in Slots : (y = x \/ Later(cte, h, x, y)) /\ \A z \in Upto(x, y) : P(z)}
    BY <1>2, <1>6
  <2>3. x \in G[x]
    BY <1>3, <1>6, <2>2
  <2>4. CASE n = NoSlot
    BY <1>2, <2>1, <2>2, <2>3, <2>4
  <2>5. CASE n # NoSlot
    <3>1. n \in Slots /\ Adjacent(cte, h, x, n)
      BY <1>2, <2>1, <2>5 DEF Slot
    <3> HIDE DEF n
    <3>2. Later(cte, h, x, n) /\ \A y : Later(cte, h, x, y) => y = n \/ Later(cte, h, n, y)
      BY <1>3, <3>1 DEF Adjacent
    <3>3. \A y : Later(cte, h, x, y) <=> y = n \/ Later(cte, h, n, y)
      BY <1>3, <3>2
    <3>4. \A y \in Slots : Later(cte, h, x, y) => Upto(x, y) = {x} \cup Upto(n, y)
      BY <1>3, <3>2, <3>3
    <3>5. \A y \in Slots : Later(cte, h, x, y) => n \in Upto(n, y)
      BY <3>1, <3>3
    <3> HIDE DEF Upto
    <3>6. CASE P(n)
      <4>1. G[n] = {y \in Slots : (y = n \/ Later(cte, h, n, y)) /\ \A z \in Upto(n, y) : P(z)}
        BY <1>2, <3>1, <3>6
      <4> HIDE DEF G
      <4>2. \A y \in Slots : y # x => (y \in G[x] <=> y \in G[n])
        BY <1>6, <2>2, <3>3, <3>4, <4>1
      <4> QED  BY <2>2, <2>3, <4>1, <4>2 DEF n
    <3>7. CASE ~P(n)
      <4>1. G[n] = {}
        BY <3>1, <3>7
      <4> HIDE DEF G
      <4>2. \A y \in Slots : y # x => y \notin G[x]
        BY <2>2, <3>4, <3>5, <3>7
      <4> QED  BY <2>2, <2>3, <4>1, <4>2 DEF n
    <3> QED  BY <3>6, <3>7
  <2> QED  BY <2>4, <2>5
<1>7. G = [x \in Slots \cup {NoSlot} |-> IF x = NoSlot \/ ~P(x) THEN {} ELSE {x} \cup G[cte[x].next]]
  <2>1. G = [x \in Slots \cup {NoSlot} |-> G[x]]
    OBVIOUS
  <2>2. \A x \in Slots \cup {NoSlot} : x = NoSlot \/ ~P(x) => G[x] = {}
    OBVIOUS
  <2> HIDE DEF G
  <2> QED  BY <1>6, <2>1, <2>2
<1> HIDE DEF G
<1>8. R = [x \in Slots \cup {NoSlot} |-> IF x = NoSlot \/ ~P(x) THEN {} ELSE {x} \cup R[cte[x].next]]
  <2>1. \E run : run = [x \in Slots \cup {NoSlot} |->
                 IF x = NoSlot \/ ~isMDBParentOf(cte, a, x) THEN {} ELSE {x} \cup run[cte[x].next]]
    BY <1>7 DEF P
  <2> QED  BY <2>1 DEF P
<1> HIDE DEF R
<1>9. \A x \in Slot : R[x] = G[x]
  <2> DEFINE Bad == {x \in Slots : R[x] # G[x]}
             T == {h[x] : x \in Bad}
  <2>1. R[NoSlot] = G[NoSlot]
    BY <1>7, <1>8
  <2>2. SUFFICES ASSUME Bad # {} PROVE FALSE
    BY <2>1 DEF Slot
  <2>3. T \subseteq Nat /\ T # {}
    BY <1>2, <2>2
  <2>4. PICK m \in T : \A k \in T : m <= k
    <3> HIDE DEF T
    <3> QED  BY <2>3, LeastNat
  <2>5. PICK x \in Bad : h[x] = m
    BY <2>4
  <2>6. P(x) /\ x \in UsedIn(cte) /\ R[x] = {x} \cup R[cte[x].next] /\ G[x] = {x} \cup G[cte[x].next]
    BY <1>4, <1>7, <1>8, <2>5
  <2> DEFINE n == cte[x].next
  <2>7. n # NoSlot /\ R[n] # G[n]
    BY <2>1, <2>5, <2>6
  <2>8. n \in Slots /\ Later(cte, h, x, n)
    BY <1>5, <2>6, <2>7
  <2>9. h[n] \in T /\ h[n] < h[x]
    BY <2>7, <2>8 DEF Later
  <2>10. h[n] \in Nat /\ m \in Nat
    BY <2>3, <2>4, <2>9
  <2> HIDE DEF T
  <2> QED  BY <2>4, <2>5, <2>9, <2>10
<1>10. CASE a \in UsedIn(cte)
  <2> DEFINE n == cte[a].next
  <2>1. CASE n = NoSlot
    <3>1. G[n] = {}
      BY <1>7, <2>1
    <3> QED  BY <1>1, <1>2, <1>9, <1>10, <2>1, <3>1 DEF Descends, Slot
  <2>2. CASE n # NoSlot
    <3>1. n \in Slots /\ Later(cte, h, a, n) /\ \A y : Later(cte, h, a, y) <=> y = n \/ Later(cte, h, n, y)
      BY <1>5, <1>10, <2>2
    <3> HIDE DEF n
    <3>2. \A b \in Slots : Later(cte, h, a, b) =>
             /\ Upto(n, b) = {x \in Slots : Later(cte, h, a, x) /\ (x = b \/ Later(cte, h, x, b))}
             /\ n \in Upto(n, b)
      BY <1>3, <3>1
    <3> HIDE DEF Upto
    <3>3. \A b \in Slots : Descends(cte, h, a, b) <=> Later(cte, h, a, b) /\ \A z \in Upto(n, b) : P(z)
      BY <3>2 DEF Descends, P
    <3>4. \A b \in Slots : b \in G[n] <=> Later(cte, h, a, b) /\ \A z \in Upto(n, b) : P(z)
      BY <1>2, <3>1, <3>2 DEF G
    <3>5. G[n] \subseteq Slots
      BY <1>2, <3>1 DEF G
    <3> QED  BY <1>1, <1>9, <3>1, <3>3, <3>4, <3>5 DEF n, Slot
  <2> QED  BY <2>1, <2>2
<1>11. CASE a \notin UsedIn(cte)
  <2>1. cte[a].next = NoSlot /\ G[NoSlot] = {}
    BY <1>2, <1>7, <1>11
  <2>2. \A b : ~Later(cte, h, a, b)
    BY <1>3, <1>11
  <2> QED  BY <1>1, <1>9, <2>1, <2>2 DEF Descends, Slot
<1> QED  BY <1>10, <1>11

(* Whatever is below an untyped capability would be revoked with it. *)
LEMMA AboveRevokes ==
    ASSUME NEW h, TreeSound(cte, h), NEW a, NEW b, Above(cte, h, a, b)
    PROVE  b \in Descendants(a)
<1>1. /\ a \in UsedIn(cte) /\ b \in UsedIn(cte) /\ UsedIn(cte) \subseteq Slots
      /\ cte[a].cap.type = "untyped" /\ Later(cte, h, a, b) /\ Covers(cte[a].cap, cte[b].cap)
  BY DEF Above, Later, UsedIn
<1>2. ASSUME NEW x \in Slots, Later(cte, h, a, x), x = b \/ Later(cte, h, x, b)
      PROVE  isMDBParentOf(cte, a, x)
  <2>1. x \in UsedIn(cte) /\ Covers(cte[a].cap, cte[x].cap)
    BY <1>1, <1>2 DEF TreeSound, Contiguous, Later
  <2>2. cte[a].revocable /\ cte[a].cap.badge = 0 /\ cte[x].cap.type # "null"
    BY <1>1, <2>1 DEF TreeSound, EntriesSound, SoundCaps, UsedIn, IsEmpty
  <2> QED  BY <1>1, <2>1, <2>2 DEF isMDBParentOf, sameRegionAs
<1>3. Descends(cte, h, a, b)
  BY <1>1, <1>2 DEF Descends
<1> QED  BY <1>1, <1>3, DescendantsAre

LEMMA MemApart ==
    ASSUME UntypedInv
    PROVE  MemoryApart
<1>1. PICK h : TreeSound(cte, h)
  BY DEF UntypedInv, Sound
<1> SUFFICES ASSUME NEW a \in Used, NEW b \in Used, a # b, Region(cte[a].cap) \cap Region(cte[b].cap) # {}
             PROVE  \/ sameObjectAs(cte[a].cap, cte[b].cap)
                    \/ cte[a].cap.type = "untyped" /\ b \in Descendants(a)
                    \/ cte[b].cap.type = "untyped" /\ a \in Descendants(b)
  BY DEF MemoryApart
<1>2. a \in UsedIn(cte) /\ b \in UsedIn(cte)
  BY DEF Used, UsedIn
<1>3. sameObjectAs(cte[a].cap, cte[b].cap) \/ Above(cte, h, a, b) \/ Above(cte, h, b, a)
  BY <1>1, <1>2 DEF TreeSound, Apart, Overlap
<1>4. Above(cte, h, a, b) => cte[a].cap.type = "untyped" /\ b \in Descendants(a)
  BY <1>1, AboveRevokes DEF Above
<1>5. Above(cte, h, b, a) => cte[b].cap.type = "untyped" /\ a \in Descendants(b)
  BY <1>1, AboveRevokes DEF Above
<1> QED  BY <1>3, <1>4, <1>5

----------------------------------------------------------------------------
(* Parents in a forest *)

(* P gives for each slot the nearest of those above it. *)
IsParent(D, P) ==
    /\ P \in [Slots -> Slot]
    /\ \A b \in Slots :
          IF \E a : <<a, b>> \in D
          THEN <<P[b], b>> \in D /\ \A x : <<x, b>> \in D => x = P[b] \/ <<x, P[b]>> \in D
          ELSE P[b] = NoSlot

LEMMA ParentIs ==
    ASSUME NEW D, Forest(D), NEW P, IsParent(D, P), NEW b \in Slots, NEW m, <<m, b>> \in D,
           \A x : <<x, b>> \in D => x = m \/ <<x, m>> \in D
    PROVE  P[b] = m
<1>1. <<P[b], b>> \in D /\ (m = P[b] \/ <<m, P[b]>> \in D) /\ (P[b] = m \/ <<P[b], m>> \in D)
  BY DEF IsParent
<1> QED  BY <1>1 DEF Forest

(* E is D with S made from s: below it, or beside it. *)
GrownTree(D, E, s, S, orig) ==
    /\ s \in Slots /\ s \notin S
    /\ \A a, b : <<a, b>> \in D => a \notin S /\ b \notin S
    /\ \A a, b : <<a, b>> \in E <=>
          IF b \in S THEN b \in Slots /\ (<<a, s>> \in D \/ (a = s /\ orig)) ELSE <<a, b>> \in D

LEMMA GrewParents ==
    ASSUME NEW D, NEW E, NEW P, NEW Q, Forest(D), Forest(E), IsParent(D, P), IsParent(E, Q),
           NEW s, NEW S, NEW orig, GrownTree(D, E, s, S, orig)
    PROVE  Q = [x \in Slots |-> IF x \in S THEN IF orig THEN s ELSE P[s] ELSE P[x]]
<1>a. /\ s \in Slots /\ s \notin S
      /\ \A a, b : <<a, b>> \in D => a \notin S /\ b \notin S
      /\ \A a, b : <<a, b>> \in E <=>
            IF b \in S THEN b \in Slots /\ (<<a, s>> \in D \/ (a = s /\ orig)) ELSE <<a, b>> \in D
  BY DEF GrownTree
<1>1. Q \in [Slots -> Slot]
  BY DEF IsParent
<1>2. ASSUME NEW b \in Slots, b \notin S PROVE Q[b] = P[b]
  <2>1. CASE \E a : <<a, b>> \in D
    <3>1. <<P[b], b>> \in D /\ \A x : <<x, b>> \in D => x = P[b] \/ <<x, P[b]>> \in D
      BY <2>1 DEF IsParent
    <3>2. <<P[b], b>> \in E /\ \A x : <<x, b>> \in E => x = P[b] \/ <<x, P[b]>> \in E
      BY <1>2, <3>1, <1>a
    <3> QED  BY <3>2, ParentIs
  <2>2. CASE ~\E a : <<a, b>> \in D
    BY <1>2, <2>2, <1>a DEF IsParent
  <2> QED  BY <2>1, <2>2
<1>3. ASSUME NEW b \in Slots, b \in S, orig PROVE Q[b] = s
  <2>1. <<s, b>> \in E /\ \A x : <<x, b>> \in E => x = s \/ <<x, s>> \in E
    BY <1>3, <1>a
  <2> QED  BY <2>1, ParentIs
<1>4. ASSUME NEW b \in Slots, b \in S, ~orig PROVE Q[b] = P[s]
  <2>1. CASE \E a : <<a, s>> \in D
    <3>1. <<P[s], s>> \in D /\ \A x : <<x, s>> \in D => x = P[s] \/ <<x, P[s]>> \in D
      BY <2>1, <1>a DEF IsParent
    <3> DEFINE m == P[s]
    <3>2. <<m, b>> \in E /\ \A x : <<x, b>> \in E => x = m \/ <<x, m>> \in E
      BY <1>4, <3>1, <1>a
    <3> HIDE DEF m
    <3>3. Q[b] = m
      BY <3>2, ParentIs
    <3> QED  BY <3>3 DEF m
  <2>2. CASE ~\E a : <<a, s>> \in D
    BY <1>4, <2>2, <1>a DEF IsParent
  <2> QED  BY <2>1, <2>2
<1> QED  BY <1>1, <1>2, <1>3, <1>4

(* E is D with the slots exchanged as p says. *)
RenamedTree(D, E, p) ==
    /\ \A x \in Slots : p[x] \in Slots
    /\ \A y \in Slots : \E x \in Slots : p[x] = y
    /\ \A a, b : <<a, b>> \in E <=> a \in Slots /\ b \in Slots /\ <<p[a], p[b]>> \in D

LEMMA RenameParents ==
    ASSUME NEW D, NEW E, NEW P, NEW Q, Forest(D), Forest(E), IsParent(D, P), IsParent(E, Q),
           NEW p, RenamedTree(D, E, p)
    PROVE  \A s \in Slots : IF P[p[s]] = NoSlot THEN Q[s] = NoSlot
                            ELSE Q[s] # NoSlot /\ p[Q[s]] = P[p[s]]
<1>a. /\ \A x \in Slots : p[x] \in Slots
      /\ \A y \in Slots : \E x \in Slots : p[x] = y
      /\ \A a, b : <<a, b>> \in E <=> a \in Slots /\ b \in Slots /\ <<p[a], p[b]>> \in D
  BY DEF RenamedTree
<1> TAKE s \in Slots
<1>1. /\ \A a, b : <<a, b>> \in D => a \in Slots /\ b \in Slots /\ a # b /\ <<b, a>> \notin D
      /\ NoSlot \notin Slots /\ p[s] \in Slots
  BY <1>a, CteAssumption DEF Forest
<1> DEFINE t == p[s]
           q == P[t]
           r == Q[s]
<1>2. CASE \E a : <<a, t>> \in D
  <2>1. /\ <<q, t>> \in D /\ \A x : <<x, t>> \in D => x = q \/ <<x, q>> \in D
    BY <1>1, <1>2 DEF IsParent
  <2>2. q \in Slots
    BY <1>1, <2>1
  <2> HIDE DEF q
  <2>3. PICK m \in Slots : p[m] = q
    BY <1>a, <2>2
  <2>4. <<m, s>> \in E
    BY <1>a, <2>1, <2>3
  <2>5. <<r, s>> \in E /\ (m = r \/ <<m, r>> \in E)
    BY <2>4 DEF IsParent
  <2> HIDE DEF r
  <2>6. r \in Slots /\ <<p[r], t>> \in D /\ (m = r \/ <<q, p[r]>> \in D)
    BY <1>a, <2>3, <2>5
  <2>7. p[r] = q
    BY <1>1, <2>1, <2>3, <2>6
  <2> QED  BY <1>1, <2>2, <2>6, <2>7 DEF q, r
<1>3. CASE ~\E a : <<a, t>> \in D
  <2>1. ~\E a : <<a, s>> \in E
    BY <1>a, <1>3
  <2>2. r = NoSlot
    BY <2>1 DEF IsParent
  <2>3. q = NoSlot
    BY <1>1, <1>3 DEF IsParent
  <2> QED  BY <2>2, <2>3
<1> QED  BY <1>2, <1>3

LEMMA ParentsAre ==
    ASSUME NEW h, TreeSound(cte, h), Badged(cte)
    PROVE  IsParent(TreeOf(cte, h), Parents)
<1> DEFINE D == TreeOf(cte, h)
           below == [a \in Slots |-> Descendants(a)]
           above(b) == {a \in Slots : b \in below[a]}
           nearest(b) == CHOOSE a \in above(b) : \A x \in above(b) \ {a} : a \in below[x]
<1>1. Forest(D) /\ \A a, b : <<a, b>> \in D <=> a \in Slots /\ b \in Slots /\ Descends(cte, h, a, b)
  BY TreeIsForest, TreePairs
<1>2. \A a \in Slots : below[a] = {b \in Slots : <<a, b>> \in D}
  <2> TAKE a \in Slots
  <2>1. Descendants(a) = {b \in Slots : Descends(cte, h, a, b)}
    BY DescendantsAre
  <2> HIDE DEF D
  <2> QED  BY <1>1, <2>1
<1>3. Parents = [b \in Slots |-> IF above(b) = {} THEN NoSlot ELSE nearest(b)]
  BY DEF Parents
<1> HIDE DEF below, D
<1>4. \A b \in Slots : above(b) = {a \in Slots : <<a, b>> \in D}
  BY <1>2
<1>5. ASSUME NEW b \in Slots, above(b) # {}
      PROVE  \E a \in above(b) : \A x \in above(b) \ {a} : a \in below[x]
  <2> DEFINE T == {h[a] : a \in above(b)}
  <2>1. h \in [Slots -> Nat]
    BY DEF TreeSound, Ordered
  <2>2. T \subseteq Nat /\ T # {}
    BY <1>4, <1>5, <2>1
  <2>3. PICK k \in T : \A n \in T : k <= n
    <3> HIDE DEF T
    <3> QED  BY <2>2, LeastNat
  <2>4. PICK m \in above(b) : h[m] = k
    BY <2>3
  <2>5. ASSUME NEW x \in above(b) \ {m} PROVE m \in below[x]
    <3>1. <<m, b>> \in D /\ <<x, b>> \in D /\ m \in Slots /\ x \in Slots
      BY <1>4, <1>5, <2>4
    <3>2. <<m, x>> \in D \/ <<x, m>> \in D
      BY <1>1, <2>5, <3>1 DEF Forest
    <3>3. h[m] <= h[x]
      BY <2>3, <2>4
    <3>4. <<m, x>> \notin D
      <4>1. SUFFICES ASSUME <<m, x>> \in D PROVE FALSE
        OBVIOUS
      <4>2. h[x] < h[m]
        BY <1>1, <4>1 DEF Descends, Later
      <4> QED  BY <2>1, <3>1, <3>3, <4>2
    <3> QED  BY <1>2, <3>1, <3>2, <3>4
  <2> QED  BY <2>4, <2>5
<1>6. ASSUME NEW b \in Slots, above(b) # {}
      PROVE  nearest(b) \in above(b) /\ \A x \in above(b) \ {nearest(b)} : nearest(b) \in below[x]
  BY <1>5, <1>6
<1> HIDE DEF nearest
<1>7. ASSUME NEW b \in Slots
      PROVE  /\ Parents[b] \in Slot
             /\ IF \E a : <<a, b>> \in D
                THEN <<Parents[b], b>> \in D /\ \A x : <<x, b>> \in D => x = Parents[b] \/ <<x, Parents[b]>> \in D
                ELSE Parents[b] = NoSlot
  <2>1. above(b) = {} <=> ~\E a : <<a, b>> \in D
    BY <1>1, <1>4
  <2>2. CASE above(b) = {}
    BY <1>3, <2>1, <2>2 DEF Slot
  <2>3. CASE above(b) # {}
    <3> DEFINE m == nearest(b)
    <3>1. m \in above(b) /\ \A x \in above(b) \ {m} : m \in below[x]
      BY <1>6, <2>3
    <3>2. Parents[b] = m
      BY <1>3, <2>3
    <3> HIDE DEF m
    <3>3. m \in Slots /\ <<m, b>> \in D
      BY <1>4, <3>1
    <3>4. ASSUME NEW x, <<x, b>> \in D PROVE x = m \/ <<x, m>> \in D
      <4>1. x \in Slots /\ x \in above(b)
        BY <1>1, <1>4, <3>4
      <4> QED  BY <1>2, <3>1, <3>3, <4>1
    <3> QED  BY <2>1, <2>3, <3>2, <3>3, <3>4 DEF Slot
  <2> QED  BY <2>2, <2>3
<1>8. IsParent(D, Parents)
  <2>1. Parents \in [Slots -> Slot]
    BY <1>3, <1>7
  <2> QED  BY <1>7, <2>1 DEF IsParent
<1> QED  BY <1>8 DEF D

LEMMA Highest ==
    ASSUME NEW h \in [Slots -> Nat], NEW T \in SUBSET Slots, T # {}
    PROVE  \E m \in T : \A x \in T : h[x] <= h[m]
<1> DEFINE Top(U) == \E m \in U : \A x \in U : h[x] <= h[m]
           X == {n \in Nat : \A U \in SUBSET Slots : Cardinality(U) = n /\ U # {} => Top(U)}
<1>1. \A U \in SUBSET Slots : IsFiniteSet(U) /\ Cardinality(U) \in Nat
  BY CteAssumption, FS_Subset, FS_CardinalityType
<1>2. 0 \in X
  BY <1>1, FS_EmptySet
<1>3. ASSUME NEW n \in Nat, n \in X PROVE n + 1 \in X
  <2> SUFFICES ASSUME NEW U \in SUBSET Slots, Cardinality(U) = n + 1, U # {} PROVE Top(U)
    OBVIOUS
  <2>1. PICK y \in U : TRUE
    OBVIOUS
  <2> DEFINE W == U \ {y}
  <2>2. W \in SUBSET Slots /\ Cardinality(W) = n
    BY <1>1, <2>1, FS_RemoveElement
  <2>3. CASE W = {}
    <3>1. \A x \in U : x = y /\ h[x] <= h[y]
      BY <2>3
    <3> QED  BY <2>1, <3>1
  <2>4. CASE W # {}
    <3>1. PICK m \in W : \A x \in W : h[x] <= h[m]
      <4> HIDE DEF W
      <4> QED  BY <1>3, <2>2, <2>4
    <3>2. h[y] \in Nat /\ h[m] \in Nat
      BY <2>1
    <3>3. CASE h[y] <= h[m]
      BY <3>1, <3>3
    <3>4. CASE h[m] < h[y]
      <4>1. \A x \in U : h[x] <= h[y]
        BY <3>1, <3>2, <3>4
      <4> QED  BY <2>1, <4>1
    <3> QED  BY <3>2, <3>3, <3>4
  <2> QED  BY <2>3, <2>4
<1> HIDE DEF X
<1>4. Nat \subseteq X
  BY <1>2, <1>3, Induction
<1>5. Top(T)
  <2> HIDE DEF Top
  <2> QED  BY <1>1, <1>4 DEF X
<1> QED  BY <1>5

(* The parents of R lead to k, higher and higher. *)
Climbs(h, P, R, k) ==
    /\ h \in [Slots -> Nat] /\ R \in SUBSET Slots
    /\ \A r \in R : P[r] = k \/ (P[r] \in R /\ h[r] < h[P[r]])

Inherited(P, R, k, T) == \A r \in R : P[r] = k \/ P[r] \in T => r \in T

(* What holds just below k, and of whatever has a parent it holds of, holds of
   all whose parents lead to k. *)
LEMMA Rises ==
    ASSUME NEW h, NEW R, NEW P, NEW k, Climbs(h, P, R, k), NEW T, Inherited(P, R, k, T)
    PROVE  R \subseteq T
<1>a. /\ h \in [Slots -> Nat] /\ R \in SUBSET Slots
      /\ \A r \in R : P[r] = k \/ (P[r] \in R /\ h[r] < h[P[r]])
      /\ \A r \in R : P[r] = k \/ P[r] \in T => r \in T
  BY DEF Climbs, Inherited
<1>1. SUFFICES ASSUME R \ T # {} PROVE FALSE
  OBVIOUS
<1>2. PICK m \in R \ T : \A x \in R \ T : h[x] <= h[m]
  BY <1>1, <1>a, Highest
<1>3. P[m] \in R \ T /\ h[m] < h[P[m]]
  BY <1>2, <1>a
<1>4. h[m] \in Nat /\ h[P[m]] \in Nat /\ h[P[m]] <= h[m]
  BY <1>2, <1>3, <1>a
<1> QED  BY <1>3, <1>4

(* A set of entries whose parents lead to k. *)
LeadTo(D, P, R, k) ==
    /\ R \in SUBSET Slots /\ k \in Slot /\ k \notin R
    /\ \A r \in R : P[r] = k \/ P[r] \in R

Descending(D, h) == h \in [Slots -> Nat] /\ \A a, b : <<a, b>> \in D => h[b] < h[a]

LEMMA LeadRises ==
    ASSUME NEW D, NEW h, NEW P, NEW R, NEW k, Forest(D), Descending(D, h), IsParent(D, P), LeadTo(D, P, R, k)
    PROVE  /\ Climbs(h, P, R, k)
           /\ \A r \in R : k = NoSlot \/ <<k, r>> \in D
           /\ \A r \in R : \A x : <<x, r>> \in D /\ x \notin R => k # NoSlot /\ (x = k \/ <<x, k>> \in D)
<1>1. NoSlot \notin Slots /\ R \in SUBSET Slots /\ h \in [Slots -> Nat]
      /\ \A a, b : <<a, b>> \in D => a \in Slots /\ b \in Slots
  BY CteAssumption DEF LeadTo, Descending, Forest
<1>2. \A b \in Slots : P[b] # NoSlot => <<P[b], b>> \in D /\ \A x : <<x, b>> \in D => x = P[b] \/ <<x, P[b]>> \in D
  BY DEF IsParent
<1>3. \A b \in Slots : P[b] = NoSlot => \A x : <<x, b>> \notin D
  BY <1>1 DEF IsParent
<1>4. Climbs(h, P, R, k)
  <2> SUFFICES ASSUME NEW r \in R, P[r] # k PROVE P[r] \in R /\ h[r] < h[P[r]]
    BY <1>1 DEF Climbs
  <2>1. r \in Slots /\ P[r] \in R /\ P[r] # NoSlot
    BY <1>1 DEF LeadTo
  <2>2. <<P[r], r>> \in D
    BY <1>2, <2>1
  <2> QED  BY <2>1, <2>2 DEF Descending
<1> DEFINE T == {r \in R : /\ k = NoSlot \/ <<k, r>> \in D
                           /\ \A x : <<x, r>> \in D /\ x \notin R => k # NoSlot /\ (x = k \/ <<x, k>> \in D)}
<1>5. ASSUME NEW r \in R, P[r] = k \/ P[r] \in T PROVE r \in T
  <2>1. r \in Slots
    BY <1>1
  <2>2. CASE P[r] = k
    BY <1>2, <1>3, <2>1, <2>2
  <2>3. CASE P[r] \in T
    <3>1. P[r] # NoSlot /\ <<P[r], r>> \in D /\ \A x : <<x, r>> \in D => x = P[r] \/ <<x, P[r]>> \in D
      BY <1>1, <1>2, <2>1, <2>3
    <3>2. k = NoSlot \/ <<k, r>> \in D
      BY <2>3, <3>1 DEF Forest
    <3> QED  BY <2>3, <3>1, <3>2
  <2> QED  BY <1>5, <2>2, <2>3
<1>b. Inherited(P, R, k, T)
  BY <1>5 DEF Inherited
<1> HIDE DEF T
<1>6. R \subseteq T
  BY <1>4, <1>b, Rises
<1> QED  BY <1>4, <1>6 DEF T

(* The nearest entry above that is not in R. *)
Heirs(heir, P, R) == heir = [s \in Slots \cup {NoSlot} |-> IF s \in R THEN heir[P[s]] ELSE s]

LEMMA HeirsExist ==
    ASSUME NEW D, NEW P, NEW R, NEW k, LeadTo(D, P, R, k)
    PROVE  \E heir : Heirs(heir, P, R)
<1> DEFINE H == [s \in Slots \cup {NoSlot} |-> IF s \in R THEN k ELSE s]
<1>1. /\ R \in SUBSET Slots /\ k \in Slots \cup {NoSlot} /\ k \notin R
      /\ \A r \in R : P[r] = k \/ P[r] \in R
  BY DEF LeadTo, Slot
<1>2. \A s \in Slots \cup {NoSlot} : H[s] = IF s \in R THEN H[P[s]] ELSE s
  BY <1>1
<1>3. H = [s \in Slots \cup {NoSlot} |-> H[s]]
  OBVIOUS
<1> HIDE DEF H
<1>4. H = [s \in Slots \cup {NoSlot} |-> IF s \in R THEN H[P[s]] ELSE s]
  BY <1>2, <1>3
<1> QED  BY <1>4 DEF Heirs

(* E is D without R. *)
PrunedTree(D, E, R, K) ==
    /\ K \subseteq Slots /\ K \cap R = {}
    /\ \A a, b : <<a, b>> \in D => b \in R \cup K
    /\ \A a, b : <<a, b>> \in E <=> a \notin R /\ b \notin R /\ <<a, b>> \in D

LEMMA PruneParents ==
    ASSUME NEW D, NEW E, NEW h, NEW P, NEW Q, NEW R, NEW K, NEW k, NEW heir,
           Forest(D), Forest(E), Descending(D, h), IsParent(D, P), IsParent(E, Q), LeadTo(D, P, R, k),
           PrunedTree(D, E, R, K), Heirs(heir, P, R)
    PROVE  Q = [s \in Slots |-> IF s \in K THEN heir[P[s]] ELSE NoSlot]
<1>a. /\ K \subseteq Slots /\ K \cap R = {} /\ \A a, b : <<a, b>> \in D => b \in R \cup K
      /\ \A a, b : <<a, b>> \in E <=> a \notin R /\ b \notin R /\ <<a, b>> \in D
  BY DEF PrunedTree
<1>1. /\ R \in SUBSET Slots /\ k \in Slots \cup {NoSlot} /\ k \notin R /\ NoSlot \notin Slots
      /\ \A r \in R : P[r] = k \/ P[r] \in R
      /\ h \in [Slots -> Nat] /\ P \in [Slots -> Slots \cup {NoSlot}] /\ Q \in [Slots -> Slot]
      /\ \A a, b : <<a, b>> \in D => a \in Slots /\ b \in Slots
  BY CteAssumption DEF LeadTo, Slot, Descending, IsParent, Forest
<1>2. /\ Climbs(h, P, R, k)
      /\ \A r \in R : k = NoSlot \/ <<k, r>> \in D
      /\ \A r \in R : \A x : <<x, r>> \in D /\ x \notin R => k # NoSlot /\ (x = k \/ <<x, k>> \in D)
  BY LeadRises
<1>4. heir = [s \in Slots \cup {NoSlot} |-> IF s \in R THEN heir[P[s]] ELSE s]
  BY DEF Heirs
<1>5. \A r \in R : heir[r] = k
  <2> DEFINE T == {r \in R : heir[r] = k}
  <2>1. Inherited(P, R, k, T)
    BY <1>1, <1>4 DEF Inherited
  <2> HIDE DEF T
  <2>2. R \subseteq T
    BY <1>2, <2>1, Rises
  <2> QED  BY <2>2 DEF T
<1>6. \A x \in Slots \cup {NoSlot} : x \notin R => heir[x] = x
  BY <1>4
<1>7. ASSUME NEW b \in Slots PROVE Q[b] = IF b \in K THEN heir[P[b]] ELSE NoSlot
  <2> DEFINE m == P[b]
  <2>1. CASE ~\E a : <<a, b>> \in E
    <3>1. Q[b] = NoSlot
      BY <2>1 DEF IsParent
    <3>2. CASE b \in K
      <4>1. b \notin R
        BY <1>a, <3>2
      <4>2. CASE m = NoSlot
        BY <1>1, <1>6, <3>1, <3>2, <4>2
      <4>3. CASE m # NoSlot
        <5>1. <<m, b>> \in D
          BY <4>3 DEF IsParent
        <5>2. m \in R
          BY <1>a, <2>1, <4>1, <5>1
        <5>3. k = NoSlot
          <6>1. k # NoSlot => <<k, b>> \in D
            BY <1>2, <5>1, <5>2 DEF Forest
          <6> QED  BY <1>a, <1>1, <2>1, <4>1, <6>1
        <5> QED  BY <1>5, <3>1, <3>2, <5>2, <5>3
      <4> QED  BY <4>2, <4>3
    <3> QED  BY <3>1, <3>2
  <2>2. CASE \E a : <<a, b>> \in E
    <3>1. PICK a : <<a, b>> \in D /\ a \notin R /\ b \notin R
      BY <1>a, <2>2
    <3>2. b \in K /\ <<m, b>> \in D /\ \A x : <<x, b>> \in D => x = m \/ <<x, m>> \in D
      BY <1>a, <3>1 DEF IsParent
    <3> HIDE DEF m
    <3>3. CASE m \in R
      <4>1. <<a, m>> \in D
        BY <3>1, <3>2, <3>3
      <4>2. k # NoSlot /\ <<k, m>> \in D
        BY <1>2, <3>1, <3>3, <4>1
      <4>3. <<k, b>> \in D
        BY <3>2, <4>2 DEF Forest
      <4>4. ASSUME NEW x, <<x, b>> \in E PROVE x = k \/ <<x, k>> \in E
        <5>1. x \notin R /\ <<x, m>> \in D
          BY <1>a, <3>2, <3>3, <4>4
        <5> QED  BY <1>a, <1>1, <1>2, <3>3, <5>1
      <4>5. <<k, b>> \in E
        BY <1>a, <1>1, <3>1, <4>3
      <4>6. Q[b] = k
        BY <4>4, <4>5, ParentIs
      <4> QED  BY <1>5, <3>2, <3>3, <4>6 DEF m
    <3>4. CASE m \notin R
      <4>1. <<m, b>> \in E /\ \A x : <<x, b>> \in E => x = m \/ <<x, m>> \in E
        BY <1>a, <3>1, <3>2, <3>4
      <4>2. Q[b] = m
        BY <4>1, ParentIs
      <4>3. m \in Slots
        BY <1>1, <3>2
      <4> QED  BY <1>6, <3>2, <3>4, <4>2, <4>3 DEF m
    <3> QED  BY <3>3, <3>4
  <2> QED  BY <2>1, <2>2
<1>8. Q = [s \in Slots |-> IF s \in K THEN heir[P[s]] ELSE NoSlot]
  BY <1>1, <1>7
<1> QED  BY <1>8

(* The entries above one. *)
AllAbove(above, P) ==
    above = [x \in Slots \cup {NoSlot} |-> IF x = NoSlot THEN {} ELSE {P[x]} \cup above[P[x]]]

LEMMA AboveExists ==
    ASSUME NEW D, Forest(D), NEW P, IsParent(D, P)
    PROVE  \E above : AllAbove(above, P)
<1> DEFINE A == [x \in Slots \cup {NoSlot} |-> IF x = NoSlot THEN {} ELSE {a \in Slots : <<a, x>> \in D} \cup {NoSlot}]
<1>1. /\ NoSlot \notin Slots /\ P \in [Slots -> Slots \cup {NoSlot}]
      /\ \A a, b : <<a, b>> \in D => a \in Slots /\ b \in Slots
  BY CteAssumption DEF Slot, IsParent, Forest
<1>2. ASSUME NEW x \in Slots PROVE A[x] = {P[x]} \cup A[P[x]]
  <2>1. CASE P[x] = NoSlot
    <3>1. \A a : <<a, x>> \notin D
      BY <1>1, <2>1 DEF IsParent
    <3> QED  BY <1>1, <2>1, <3>1
  <2>2. CASE P[x] # NoSlot
    <3> DEFINE m == P[x]
    <3>1. m \in Slots /\ <<m, x>> \in D /\ \A a : <<a, x>> \in D => a = m \/ <<a, m>> \in D
      BY <1>1, <2>2 DEF IsParent
    <3> HIDE DEF m
    <3>2. \A a : <<a, x>> \in D <=> a = m \/ <<a, m>> \in D
      BY <3>1 DEF Forest
    <3>3. A[x] = {m} \cup A[m]
      BY <1>1, <3>1, <3>2
    <3> QED  BY <3>3 DEF m
  <2> QED  BY <2>1, <2>2
<1>3. A = [x \in Slots \cup {NoSlot} |-> IF x = NoSlot THEN {} ELSE {P[x]} \cup A[P[x]]]
  <2>1. A = [x \in Slots \cup {NoSlot} |-> A[x]] /\ A[NoSlot] = {}
    OBVIOUS
  <2> HIDE DEF A
  <2> QED  BY <1>2, <2>1
<1> HIDE DEF A
<1> QED  BY <1>3 DEF AllAbove

LEMMA LeadBelow ==
    ASSUME NEW D, NEW h, NEW P, NEW R, NEW s \in Slots, NEW above, AllAbove(above, P),
           Forest(D), Descending(D, h), IsParent(D, P), LeadTo(D, P, R, s)
    PROVE  R \subseteq {x \in Slots : s \in above[x]}
<1>1. R \in SUBSET Slots /\ NoSlot \notin Slots /\ P \in [Slots -> Slots \cup {NoSlot}]
  BY CteAssumption DEF LeadTo, Slot, IsParent
<1>2. Climbs(h, P, R, s)
  BY LeadRises
<1>3. above = [x \in Slots \cup {NoSlot} |-> IF x = NoSlot THEN {} ELSE {P[x]} \cup above[P[x]]]
  BY DEF AllAbove
<1> DEFINE T == {r \in R : s \in above[r]}
<1>4. Inherited(P, R, s, T)
  BY <1>1, <1>3 DEF Inherited
<1> HIDE DEF T
<1>5. R \subseteq T
  BY <1>2, <1>4, Rises
<1> QED  BY <1>1, <1>5 DEF T

----------------------------------------------------------------------------
(* The steps of the tree *)

LEMMA UnmarkedFacts ==
    ASSUME NEW c, NEW h, TreeSound(c, h)
    PROVE  /\ \A x \in Slots : Unmarked(c[x].cap) = NullCap <=> x \notin UsedIn(c)
           /\ {x \in Slots : Unmarked(c[x].cap) # NullCap} = UsedIn(c)
           /\ \A x \in Slots : c[x].revocable \in BOOLEAN
           /\ \A x \in Slots \ UsedIn(c) : c[x].revocable = FALSE
           /\ UsedIn(c) \subseteq Slots
<1>1. ASSUME NEW x \in Slots PROVE Unmarked(c[x].cap) = NullCap <=> x \notin UsedIn(c)
  <2>1. CASE x \in UsedIn(c)
    <3>1. c[x].cap \in Caps /\ c[x].cap.type # "null"
      BY <2>1 DEF TreeSound, EntriesSound, SoundCaps, UsedIn
    <3>2. Unmarked(c[x].cap).type = c[x].cap.type
      BY <3>1 DEF Unmarked, Caps
    <3> QED  BY <2>1, <3>1, <3>2 DEF NullCap
  <2>2. CASE x \notin UsedIn(c)
    <3>1. c[x] = EmptyEntry
      BY <2>2, Neighbours
    <3> QED  BY <2>2, <3>1 DEF EmptyEntry, NullCap, Unmarked
  <2> QED  BY <2>1, <2>2
<1>2. \A x \in Slots : c[x].revocable \in BOOLEAN
  BY DEF TreeSound, EntriesSound, Entries
<1>3. \A x \in Slots \ UsedIn(c) : c[x].revocable = FALSE
  BY Neighbours DEF EmptyEntry
<1> QED  BY <1>1, <1>2, <1>3 DEF UsedIn

LEMMA TreeFacts ==
    ASSUME NEW c, NEW h, TreeSound(c, h), Badged(c)
    PROVE  /\ Forest(TreeOf(c, h))
           /\ Descending(TreeOf(c, h), h)
           /\ \A a, b : <<a, b>> \in TreeOf(c, h) => a \in UsedIn(c) /\ b \in UsedIn(c)
           /\ \A a, b : <<a, b>> \in TreeOf(c, h) <=> Descends(c, h, a, b)
<1>1. \A a, b : Descends(c, h, a, b) => a \in UsedIn(c) /\ b \in UsedIn(c) /\ h[b] < h[a] /\ a \in Slots /\ b \in Slots
  BY DEF Descends, Later, UsedIn
<1>2. \A a, b : <<a, b>> \in TreeOf(c, h) <=> Descends(c, h, a, b)
  BY <1>1, TreePairs
<1>3. Descending(TreeOf(c, h), h)
  BY <1>1, <1>2 DEF Descending, TreeSound, Ordered
<1> QED  BY <1>1, <1>2, <1>3, TreeIsForest

ParentsExact == \A h : TreeSound(cte, h) /\ Badged(cte) => IsParent(TreeOf(cte, h), Parents)

LEMMA ParentsHold == []ParentsExact
<1>1. ParentsExact
  BY ParentsAre DEF ParentsExact
<1> QED  BY <1>1, PTL

LEMMA ParentsNext ==
    ASSUME NEW h, NEW g, TreeSound(cte, h), Badged(cte), TreeSound(cte', g), Badged(cte')
    PROVE  IsParent(TreeOf(cte, h), Parents) /\ IsParent(TreeOf(cte', g), Parents')
<1>1. ParentsExact /\ ParentsExact'
  BY ParentsHold, PTL
<1> QED  BY <1>1 DEF ParentsExact

LEMMA GrewTree ==
    ASSUME NEW c, NEW h, NEW d, NEW g, NEW s \in UsedIn(c), NEW S, TreeSound(c, h), Badged(c), Grew(c, h, d, g, s, S),
           NEW P, NEW Q, IsParent(TreeOf(c, h), P), IsParent(TreeOf(d, g), Q)
    PROVE  Q = [x \in Slots |-> IF x \in S THEN IF c[s].revocable THEN s ELSE P[s] ELSE P[x]]
<1> DEFINE D == TreeOf(c, h)
           E == TreeOf(d, g)
           orig == c[s].revocable
<1>1. Forest(D) /\ \A a, b : <<a, b>> \in D => a \in UsedIn(c) /\ b \in UsedIn(c)
  BY TreeFacts
<1>2. \A a, b : <<a, b>> \in D <=> Descends(c, h, a, b)
  BY TreeFacts
<1>3. TreeSound(d, g) /\ Badged(d) /\ s \in Slots /\ s \notin S /\ S \subseteq Slots \ UsedIn(c)
  BY DEF Grew, UsedIn
<1>4. Forest(E) /\ \A a, b : <<a, b>> \in E <=> Descends(d, g, a, b)
  BY <1>3, TreeFacts
<1>5. \A a, b : Descends(d, g, a, b) <=>
          IF b \in S THEN Descends(c, h, a, s) \/ (a = s /\ orig) ELSE Descends(c, h, a, b)
  BY DEF Grew
<1> HIDE DEF D, E, orig
<1>6. \A a, b : <<a, b>> \in E <=>
          IF b \in S THEN b \in Slots /\ (<<a, s>> \in D \/ (a = s /\ orig)) ELSE <<a, b>> \in D
  BY <1>2, <1>3, <1>4, <1>5
<1>7. GrownTree(D, E, s, S, orig)
  BY <1>1, <1>3, <1>6 DEF GrownTree
<1>8. IsParent(D, P) /\ IsParent(E, Q)
  BY DEF D, E
<1>9. Q = [x \in Slots |-> IF x \in S THEN IF orig THEN s ELSE P[s] ELSE P[x]]
  BY <1>1, <1>4, <1>7, <1>8, GrewParents
<1> QED  BY <1>9 DEF orig

LEMMA PruneTree ==
    ASSUME NEW c, NEW h, NEW d, NEW R, TreeSound(c, h), Badged(c), Pruned(c, h, d, R),
           NEW P, NEW Q, IsParent(TreeOf(c, h), P), IsParent(TreeOf(d, h), Q),
           NEW k, LeadTo(TreeOf(c, h), P, R, k), NEW heir, Heirs(heir, P, R)
    PROVE  Q = [s \in Slots |-> IF s \in UsedIn(d) THEN heir[P[s]] ELSE NoSlot]
<1> DEFINE D == TreeOf(c, h)
           E == TreeOf(d, h)
           K == UsedIn(d)
<1>1. /\ Forest(D) /\ Descending(D, h)
      /\ \A a, b : <<a, b>> \in D => a \in UsedIn(c) /\ b \in UsedIn(c)
      /\ \A a, b : <<a, b>> \in D <=> Descends(c, h, a, b)
  BY TreeFacts
<1>2. TreeSound(d, h) /\ Badged(d) /\ K = UsedIn(c) \ R /\ K \subseteq Slots
      /\ \A a, b : Descends(d, h, a, b) <=> a \notin R /\ b \notin R /\ Descends(c, h, a, b)
  BY DEF Pruned, UsedIn
<1>3. Forest(E) /\ \A a, b : <<a, b>> \in E <=> Descends(d, h, a, b)
  BY <1>2, TreeFacts
<1>4. IsParent(D, P) /\ IsParent(E, Q) /\ LeadTo(D, P, R, k)
  OBVIOUS
<1> HIDE DEF D, E, K
<1>5. PrunedTree(D, E, R, K)
  BY <1>1, <1>2, <1>3 DEF PrunedTree
<1>6. Q = [s \in Slots |-> IF s \in K THEN heir[P[s]] ELSE NoSlot]
  BY <1>1, <1>3, <1>4, <1>5, PruneParents
<1> QED  BY <1>6 DEF K

LEMMA DeleteLeads ==
    ASSUME NEW D, Forest(D), NEW P, IsParent(D, P), NEW s \in Slots
    PROVE  LeadTo(D, P, {s}, P[s])
BY CteAssumption DEF LeadTo, IsParent, Forest

LEMMA RevokeLeads ==
    ASSUME NEW c, NEW h, TreeSound(c, h), Badged(c), NEW s \in Slots, NEW R, Taken(c, h, s, R),
           NEW P, IsParent(TreeOf(c, h), P)
    PROVE  LeadTo(TreeOf(c, h), P, R, s)
<1> DEFINE D == TreeOf(c, h)
<1>1. /\ \A a, b : <<a, b>> \in D => a \in UsedIn(c) /\ b \in UsedIn(c)
      /\ \A a, b : <<a, b>> \in D <=> Descends(c, h, a, b)
      /\ \A a, b : <<a, b>> \in D => a # b
      /\ UsedIn(c) \subseteq Slots
  BY TreeFacts DEF Forest, UsedIn
<1>2. IsParent(D, P)
  OBVIOUS
<1> HIDE DEF D
<1>3. ASSUME NEW r \in R PROVE P[r] = s \/ P[r] \in R
  <2>1. r \in Slots /\ <<s, r>> \in D
    BY <1>1 DEF Taken
  <2>2. <<P[r], r>> \in D /\ (s = P[r] \/ <<s, P[r]>> \in D)
    BY <1>2, <2>1 DEF IsParent
  <2>3. P[r] \in Slots /\ Later(c, h, P[r], r)
    BY <1>1, <2>2 DEF Descends
  <2>4. CASE <<s, P[r]>> \in D
    <3>1. Later(c, h, s, P[r])
      BY <1>1, <2>4 DEF Descends
    <3> QED  BY <2>3, <3>1 DEF Taken
  <2> QED  BY <2>2, <2>4
<1>4. R \in SUBSET Slots /\ s \notin R /\ s \in Slot
  BY <1>1 DEF Taken, Slot
<1>5. LeadTo(D, P, R, s)
  BY <1>3, <1>4 DEF LeadTo
<1> QED  BY <1>5 DEF D

(* d is c with the slots called by other names: what is in x was in q[x]. *)
Turned(c, h, d, g, q) ==
    /\ TreeSound(d, g) /\ Badged(d)
    /\ \A x \in Slots : q[x] \in Slots
    /\ \A y \in Slots : \E x \in Slots : q[x] = y
    /\ \A x \in Slots : d[x].cap = c[q[x]].cap /\ d[x].revocable = c[q[x]].revocable
    /\ \A a, b : Descends(d, g, a, b) <=> a \in Slots /\ b \in Slots /\ Descends(c, h, q[a], q[b])

LEMMA RenameTurns ==
    ASSUME NEW c, NEW d, NEW h, NEW p, TreeSound(c, h), Badged(c), Exchange(p), Renamed(c, d, p)
    PROVE  \E g : Turned(c, h, d, g, p)
<1> DEFINE g == [x \in Slots |-> h[p[x]]]
<1>1. TreeSound(d, g)
  BY RenameSound
<1>2. Badged(d) /\ \A a, b : Descends(d, g, a, b) <=> a \in Slots /\ b \in Slots /\ Descends(c, h, p[a], p[b])
  BY RenameTree
<1> HIDE DEF g
<1>3. \A x \in Slots : p[x] \in Slots /\ p[p[x]] = x
  BY CteAssumption DEF Exchange, Slot
<1>4. \A x \in Slots : d[x].cap = c[p[x]].cap /\ d[x].revocable = c[p[x]].revocable
  BY DEF Renamed
<1> QED  BY <1>1, <1>2, <1>3, <1>4 DEF Turned

LEMMA TurnTurns ==
    ASSUME NEW c, NEW d, NEW e, NEW h, NEW g, NEW f, NEW p, NEW q, NEW r,
           Turned(c, h, d, g, p), Turned(d, g, e, f, q), \A x \in Slots : r[x] = p[q[x]]
    PROVE  Turned(c, h, e, f, r)
<1>1. /\ \A x \in Slots : q[x] \in Slots /\ p[x] \in Slots
      /\ \A y \in Slots : \E x \in Slots : q[x] = y
      /\ \A y \in Slots : \E x \in Slots : p[x] = y
  BY DEF Turned
<1>2. ASSUME NEW y \in Slots PROVE \E x \in Slots : r[x] = y
  <2>1. PICK z \in Slots : p[z] = y
    BY <1>1
  <2>2. PICK x \in Slots : q[x] = z
    BY <1>1
  <2> QED  BY <2>1, <2>2
<1>a. /\ \A x \in Slots : d[x].cap = c[p[x]].cap /\ d[x].revocable = c[p[x]].revocable
      /\ \A a, b : Descends(d, g, a, b) <=> a \in Slots /\ b \in Slots /\ Descends(c, h, p[a], p[b])
  BY DEF Turned
<1>b. /\ \A x \in Slots : e[x].cap = d[q[x]].cap /\ e[x].revocable = d[q[x]].revocable
      /\ \A a, b : Descends(e, f, a, b) <=> a \in Slots /\ b \in Slots /\ Descends(d, g, q[a], q[b])
  BY DEF Turned
<1>3. ASSUME NEW x \in Slots PROVE e[x].cap = c[r[x]].cap /\ e[x].revocable = c[r[x]].revocable
  <2>1. q[x] \in Slots /\ r[x] = p[q[x]]
    BY <1>1
  <2> QED  BY <1>a, <1>b, <2>1
<1>4. ASSUME NEW a, NEW b
      PROVE  Descends(e, f, a, b) <=> a \in Slots /\ b \in Slots /\ Descends(c, h, r[a], r[b])
  <2>1. CASE a \in Slots /\ b \in Slots
    <3>1. q[a] \in Slots /\ q[b] \in Slots /\ r[a] = p[q[a]] /\ r[b] = p[q[b]]
      BY <1>1, <2>1
    <3> QED  BY <1>a, <1>b, <2>1, <3>1
  <2>2. CASE ~(a \in Slots /\ b \in Slots)
    BY <1>b, <2>2
  <2> QED  BY <2>1, <2>2
<1>c. \A x \in Slots : r[x] \in Slots
  BY <1>1
<1>5. TreeSound(e, f) /\ Badged(e)
  BY DEF Turned
<1> QED  BY ONLY <1>1, <1>c, <1>2, <1>3, <1>4, <1>5 DEF Turned

LEMMA TurnTree ==
    ASSUME NEW c, NEW h, NEW d, NEW g, NEW q, TreeSound(c, h), Badged(c), Turned(c, h, d, g, q),
           NEW P, NEW Q, IsParent(TreeOf(c, h), P), IsParent(TreeOf(d, g), Q)
    PROVE  \A s \in Slots : IF P[q[s]] = NoSlot THEN Q[s] = NoSlot
                            ELSE Q[s] # NoSlot /\ q[Q[s]] = P[q[s]]
<1> DEFINE D == TreeOf(c, h)
           E == TreeOf(d, g)
<1>1. Forest(D) /\ \A a, b : <<a, b>> \in D <=> Descends(c, h, a, b)
  BY TreeFacts
<1>2. TreeSound(d, g) /\ Badged(d)
  BY DEF Turned
<1>3. Forest(E) /\ \A a, b : <<a, b>> \in E <=> Descends(d, g, a, b)
  BY <1>2, TreeFacts
<1>4. IsParent(D, P) /\ IsParent(E, Q)
  OBVIOUS
<1> HIDE DEF D, E
<1>5. RenamedTree(D, E, q)
  BY <1>1, <1>3 DEF RenamedTree, Turned
<1> QED  BY <1>1, <1>3, <1>4, <1>5, RenameParents

----------------------------------------------------------------------------
(* Every step is one of the manual's tree *)

LEMMA TreeFull ==
    ASSUME NEW h, TreeSound(cte, h), NEW g, TreeSound(cte', g)
    PROVE  Tree!Full = UsedIn(cte) /\ Tree!Full' = UsedIn(cte')
<1>1. {x \in Slots : Unmarked(cte[x].cap) # NullCap} = UsedIn(cte)
  BY UnmarkedFacts
<1>2. {x \in Slots : Unmarked(cte'[x].cap) # NullCap} = UsedIn(cte')
  BY UnmarkedFacts
<1> QED  BY <1>1, <1>2 DEF Tree!Full, Unmarked

LEMMA TreeRetype ==
    ASSUME NEW h, TreeSound(cte, h), Badged(cte), NEW g, NEW s \in UsedIn(cte), NEW S,
           Grew(cte, h, cte', g, s, S), cte[s].cap.type = "untyped"
    PROVE  Tree!Retype(s)
<1>1. /\ TreeSound(cte', g) /\ Badged(cte') /\ UsedIn(cte') = UsedIn(cte) \cup S /\ S \subseteq Slots \ UsedIn(cte)
      /\ \A x \in Slots \ S : Unmarked(cte'[x].cap) = Unmarked(cte[x].cap) /\ cte'[x].revocable = cte[x].revocable
      /\ UsedIn(cte) \subseteq Slots
  BY DEF Grew, UsedIn
<1>2. Tree!Full = UsedIn(cte) /\ Tree!Full' = UsedIn(cte')
  BY <1>1, TreeFull
<1>3. Parents' = [x \in Slots |-> IF x \in S THEN IF cte[s].revocable THEN s ELSE Parents[s] ELSE Parents[x]]
  <2>1. IsParent(TreeOf(cte, h), Parents) /\ IsParent(TreeOf(cte', g), Parents')
    BY <1>1, ParentsNext
  <2> QED  BY <2>1, GrewTree
<1>4. cte[s].revocable /\ Unmarked(cte[s].cap).type = "untyped"
  <2>1. cte[s].cap \in Caps /\ cte[s].revocable
    BY DEF TreeSound, EntriesSound, SoundCaps, UsedIn
  <2> QED  BY <2>1 DEF Unmarked, Caps
<1>5. \A x \in S : cte'[x].revocable
  BY <1>4 DEF Grew
<1>6. \A x \in Slots : cte[x].revocable \in BOOLEAN /\ cte'[x].revocable \in BOOLEAN
  BY <1>1, UnmarkedFacts
<1>7. Tree!Full' \ Tree!Full = S
  BY <1>1, <1>2
<1>8. \A x \in Tree!Full : Unmarked(cte'[x].cap) = Unmarked(cte[x].cap)
  BY <1>1, <1>2
<1>9. [x \in Slots |-> cte'[x].revocable] = [x \in Slots |-> x \in S \/ cte[x].revocable]
  BY <1>1, <1>5, <1>6
<1> QED  BY <1>1, <1>2, <1>3, <1>4, <1>7, <1>8, <1>9 DEF Tree!Retype, Unmarked

LEMMA TreeDerive ==
    ASSUME NEW h, TreeSound(cte, h), Badged(cte), NEW g, NEW s \in UsedIn(cte), NEW t,
           Grew(cte, h, cte', g, s, {t})
    PROVE  Tree!Derive(s, t)
<1>1. /\ TreeSound(cte', g) /\ Badged(cte') /\ UsedIn(cte') = UsedIn(cte) \cup {t}
      /\ t \in Slots /\ t \notin UsedIn(cte) /\ t # s /\ s \in Slots
      /\ \A x \in Slots : x # t => Unmarked(cte'[x].cap) = Unmarked(cte[x].cap) /\ cte'[x].revocable = cte[x].revocable
  BY DEF Grew, UsedIn
<1>2. Tree!Full = UsedIn(cte) /\ Tree!Full' = UsedIn(cte')
  BY <1>1, TreeFull
<1>3. Parents' = [x \in Slots |-> IF x \in {t} THEN IF cte[s].revocable THEN s ELSE Parents[s] ELSE Parents[x]]
  <2>1. IsParent(TreeOf(cte, h), Parents) /\ IsParent(TreeOf(cte', g), Parents')
    BY <1>1, ParentsNext
  <2> QED  BY <2>1, GrewTree
<1>4. Parents \in [Slots -> Slot]
  BY ParentsAre DEF IsParent
<1>5. Parents' = [Parents EXCEPT ![t] = IF cte[s].revocable THEN s ELSE Parents[s]]
  BY <1>1, <1>3, <1>4
<1>6. cte'[t].revocable \/ Unmarked(cte'[t].cap) = Unmarked(cte[s].cap)
  BY DEF Grew
<1>7. Unmarked(cte'[t].cap) # NullCap
  BY <1>1, UnmarkedFacts
<1>8. [x \in Slots |-> Unmarked(cte'[x].cap)] = [[x \in Slots |-> Unmarked(cte[x].cap)] EXCEPT ![t] = Unmarked(cte'[t].cap)]
  BY <1>1
<1>9. [x \in Slots |-> cte'[x].revocable] = [[x \in Slots |-> cte[x].revocable] EXCEPT ![t] = cte'[t].revocable]
  BY <1>1
<1> QED  BY <1>1, <1>2, <1>5, <1>6, <1>7, <1>8, <1>9 DEF Tree!Derive, Unmarked

LEMMA TreeRename ==
    ASSUME NEW h, TreeSound(cte, h), Badged(cte), NEW g, NEW q, Turned(cte, h, cte', g, q)
    PROVE  Tree!Rename(q)
<1>1. /\ TreeSound(cte', g) /\ Badged(cte') /\ \A x \in Slots : q[x] \in Slots
      /\ \A x \in Slots : cte'[x].cap = cte[q[x]].cap /\ cte'[x].revocable = cte[q[x]].revocable
  BY DEF Turned
<1>2. IsParent(TreeOf(cte, h), Parents) /\ IsParent(TreeOf(cte', g), Parents')
  BY <1>1, ParentsNext
<1>3. \A s \in Slots : IF Parents[q[s]] = NoSlot THEN Parents'[s] = NoSlot
                       ELSE Parents'[s] # NoSlot /\ q[Parents'[s]] = Parents[q[s]]
  BY <1>2, TurnTree
<1>4. [x \in Slots |-> Unmarked(cte'[x].cap)] = [x \in Slots |-> [y \in Slots |-> Unmarked(cte[y].cap)][q[x]]]
  BY <1>1
<1>5. [x \in Slots |-> cte'[x].revocable] = [x \in Slots |-> [y \in Slots |-> cte[y].revocable][q[x]]]
  BY <1>1
<1> QED  BY <1>3, <1>4, <1>5 DEF Tree!Rename, Unmarked

LEMMA TreeRemove ==
    ASSUME NEW h, TreeSound(cte, h), Badged(cte), NEW R \in SUBSET UsedIn(cte), Pruned(cte, h, cte', R),
           NEW k, LeadTo(TreeOf(cte, h), Parents, R, k)
    PROVE  Tree!Full \ Tree!Full' = R /\ Tree!Remove
<1> DEFINE heir[s \in Slots \cup {NoSlot}] == IF s \in Tree!Full \ Tree!Full' THEN heir[Parents[s]] ELSE s
<1>1. /\ TreeSound(cte', h) /\ Badged(cte') /\ UsedIn(cte') = UsedIn(cte) \ R
      /\ \A x \in Slots \ R : cte'[x].cap = cte[x].cap /\ cte'[x].revocable = cte[x].revocable
  BY DEF Pruned
<1>2. Tree!Full = UsedIn(cte) /\ Tree!Full' = UsedIn(cte')
  BY <1>1, TreeFull
<1>3. Tree!Full \ Tree!Full' = R
  BY <1>1, <1>2
<1>4. Heirs(heir, Parents, R)
  <2>1. \E f : Heirs(f, Parents, R)
    BY HeirsExist
  <2>2. \E f : f = [s \in Slots \cup {NoSlot} |-> IF s \in Tree!Full \ Tree!Full' THEN f[Parents[s]] ELSE s]
    BY <1>3, <2>1 DEF Heirs
  <2>3. heir = [s \in Slots \cup {NoSlot} |-> IF s \in Tree!Full \ Tree!Full' THEN heir[Parents[s]] ELSE s]
    BY <2>2
  <2> HIDE DEF heir
  <2> QED  BY <1>3, <2>3 DEF Heirs
<1>5. IsParent(TreeOf(cte, h), Parents) /\ IsParent(TreeOf(cte', h), Parents')
  BY <1>1, ParentsNext
<1>6. Parents' = [s \in Slots |-> IF s \in UsedIn(cte') THEN heir[Parents[s]] ELSE NoSlot]
  <2> HIDE DEF heir
  <2> QED  BY SMTT(40), <1>4, <1>5, PruneTree
<1>7. \A x \in Slots \ UsedIn(cte') : Unmarked(cte'[x].cap) = NullCap /\ cte'[x].revocable = FALSE
  BY <1>1, UnmarkedFacts
<1>8. \A x \in Slots : cte[x].revocable \in BOOLEAN /\ cte'[x].revocable \in BOOLEAN
  BY <1>1, UnmarkedFacts
<1>9. \A x \in UsedIn(cte') : cte'[x].cap = cte[x].cap /\ cte'[x].revocable = cte[x].revocable
  BY <1>1 DEF UsedIn
<1>10. [x \in Slots |-> Unmarked(cte'[x].cap)] =
       [x \in Slots |-> IF x \in UsedIn(cte') THEN [y \in Slots |-> Unmarked(cte[y].cap)][x] ELSE NullCap]
  BY <1>7, <1>9
<1>11. [x \in Slots |-> cte'[x].revocable] =
       [x \in Slots |-> x \in UsedIn(cte') /\ [y \in Slots |-> cte[y].revocable][x]]
  BY <1>7, <1>8, <1>9
<1>12. Tree!Remove
  BY <1>2, <1>6, <1>10, <1>11 DEF Tree!Remove, Unmarked, heir
<1> QED  BY <1>3, <1>12

LEMMA TreeDelete ==
    ASSUME NEW h, TreeSound(cte, h), Badged(cte), NEW s \in UsedIn(cte), Delete(s)
    PROVE  Tree!Delete(s)
<1>1. s \in Slots /\ Pruned(cte, h, cte', {s})
  BY EmptyPrunes DEF Delete, UsedIn
<1>2. LeadTo(TreeOf(cte, h), Parents, {s}, Parents[s])
  BY <1>1, ParentsAre, TreeFacts, DeleteLeads
<1>3. Tree!Full \ Tree!Full' = {s} /\ Tree!Remove
  BY <1>1, <1>2, TreeRemove
<1> QED  BY <1>3 DEF Tree!Delete

LEMMA TreeRevoke ==
    ASSUME UntypedInv, NEW h, TreeSound(cte, h), NEW s \in Slots, Revoke(s)
    PROVE  Tree!Revoke(s)
<1> DEFINE above[x \in Slots \cup {NoSlot}] ==
               IF x = NoSlot THEN {} ELSE {Parents[x]} \cup above[Parents[x]]
<1>1. Badged(cte)
  BY DEF UntypedInv, Sound
<1>2. PICK R : Pruned(cte, h, cte', R) /\ Taken(cte, h, s, R)
  BY RevokeSound
<1>3. IsParent(TreeOf(cte, h), Parents) /\ Forest(TreeOf(cte, h)) /\ Descending(TreeOf(cte, h), h)
  BY <1>1, ParentsAre, TreeFacts
<1>4. LeadTo(TreeOf(cte, h), Parents, R, s)
  BY <1>1, <1>2, <1>3, RevokeLeads
<1>5. R \in SUBSET UsedIn(cte)
  BY <1>2 DEF Taken
<1>6. Tree!Full \ Tree!Full' = R /\ Tree!Remove
  BY <1>1, <1>2, <1>4, <1>5, TreeRemove
<1>7. AllAbove(above, Parents)
  <2>1. \E f : AllAbove(f, Parents)
    BY <1>3, AboveExists
  <2>2. above = [x \in Slots \cup {NoSlot} |-> IF x = NoSlot THEN {} ELSE {Parents[x]} \cup above[Parents[x]]]
    BY <2>1 DEF AllAbove
  <2> HIDE DEF above
  <2> QED  BY <2>2 DEF AllAbove
<1>8. R \subseteq {x \in Slots : s \in above[x]}
  <2> HIDE DEF above
  <2> QED  BY <1>3, <1>4, <1>7, LeadBelow
<1> QED  BY <1>6, <1>8 DEF Tree!Revoke, Tree!Below, above

LEMMA TreeInit ==
    ASSUME Init
    PROVE  Tree!Init
<1> DEFINE h == [s \in Slots |-> 0]
<1>1. UntypedInv /\ TreeSound(cte, h)
  BY InitSound
<1>2. Badged(cte)
  BY <1>1 DEF UntypedInv, Sound
<1>3. Forest(TreeOf(cte, h)) /\ Descending(TreeOf(cte, h), h) /\ IsParent(TreeOf(cte, h), Parents)
  BY <1>1, <1>2, TreeFacts, ParentsAre
<1>4. \A a, b : <<a, b>> \notin TreeOf(cte, h)
  <2> SUFFICES ASSUME NEW a, NEW b, <<a, b>> \in TreeOf(cte, h) PROVE FALSE
    OBVIOUS
  <2>1. h[b] < h[a] /\ a \in Slots /\ b \in Slots
    BY <1>3 DEF Descending, Forest
  <2> QED  BY <2>1
<1>5. \A s \in Slots : Parents[s] = NoSlot
  BY <1>3, <1>4 DEF IsParent
<1>6. \A s \in Slots : cte[s].revocable <=> s \in UsedIn(cte)
  <2> SUFFICES ASSUME NEW s \in Slots PROVE cte[s].revocable <=> s \in UsedIn(cte)
    OBVIOUS
  <2>1. cte[s] = EmptyEntry \/ cte[s].revocable = TRUE
    <3>1. PICK root \in [1 .. NumRoots -> Slots] :
              /\ \A i, j \in 1 .. NumRoots : root[i] = root[j] => i = j
              /\ cte = [x \in Slots |->
                    IF \E i \in 1 .. NumRoots : x = root[i]
                    THEN [EmptyEntry EXCEPT !.cap = RootCap(CHOOSE i \in 1 .. NumRoots : x = root[i]),
                                            !.revocable = TRUE, !.firstBadged = TRUE]
                    ELSE EmptyEntry]
      BY DEF Init
    <3>2. CASE \E i \in 1 .. NumRoots : s = root[i]
      BY <3>1, <3>2 DEF EmptyEntry
    <3>3. CASE ~\E i \in 1 .. NumRoots : s = root[i]
      BY <3>1, <3>3
    <3> QED  BY <3>2, <3>3
  <2>2. cte[s] = EmptyEntry <=> s \notin UsedIn(cte)
    <3>1. EmptyEntry.cap.type = "null"
      BY DEF EmptyEntry, NullCap
    <3>2. s \notin UsedIn(cte) => cte[s] = EmptyEntry
      BY <1>1, Neighbours
    <3> QED  BY <3>1, <3>2 DEF UsedIn, IsEmpty
  <2>3. s \notin UsedIn(cte) => ~cte[s].revocable
    BY <2>2 DEF EmptyEntry
  <2> QED  BY <2>1, <2>2, <2>3
<1>7. Tree!Full = UsedIn(cte)
  <2>1. {x \in Slots : Unmarked(cte[x].cap) # NullCap} = UsedIn(cte)
    BY <1>1, UnmarkedFacts
  <2> QED  BY <2>1 DEF Tree!Full, Unmarked
<1> QED  BY <1>5, <1>6, <1>7 DEF Tree!Init

LEMMA TurnAs ==
    ASSUME NEW c, NEW h, NEW d, NEW g, NEW p, NEW q, Turned(c, h, d, g, p), \A x \in Slots : q[x] = p[x]
    PROVE  Turned(c, h, d, g, q)
BY DEF Turned

LEMMA TreeMove ==
    ASSUME NEW h, TreeSound(cte, h), Badged(cte), NEW s \in Slots, NEW d \in Slots, Move(s, d)
    PROVE  Tree!Rename(Tree!Moves(s, d))
<1> DEFINE p == Transposed(s, d)
           q == Tree!Moves(s, d)
<1>1. s \in UsedIn(cte) /\ d \in Slots \ UsedIn(cte) /\ cte' = cteMove(cte, s, d)
  BY DEF Move, UsedIn
<1>2. Renamed(cte, cte', p) /\ Exchange(p)
  BY <1>1, MoveRenames, TransposedExchange
<1>3. \A x \in Slots : q[x] = p[x]
  BY DEF Tree!Moves, Transposed, Slot
<1> HIDE DEF p, q
<1>4. PICK g : Turned(cte, h, cte', g, p)
  BY <1>2, RenameTurns
<1>5. Turned(cte, h, cte', g, q)
  BY <1>3, <1>4, TurnAs
<1>6. Tree!Rename(q)
  BY <1>5, TreeRename
<1> QED  BY <1>6 DEF q

LEMMA TreeSwap ==
    ASSUME NEW h, TreeSound(cte, h), Badged(cte), NEW s \in UsedIn(cte), NEW d \in UsedIn(cte), s # d,
           cte' = cteSwap(cte, s, d)
    PROVE  Tree!Rename(Tree!Moves(s, d))
<1> DEFINE p == Transposed(s, d)
           q == Tree!Moves(s, d)
<1>1. s \in Slots /\ d \in Slots
  BY DEF UsedIn
<1>2. Renamed(cte, cte', p) /\ Exchange(p)
  BY <1>1, SwapRenames, TransposedExchange
<1>3. \A x \in Slots : q[x] = p[x]
  BY DEF Tree!Moves, Transposed, Slot
<1> HIDE DEF p, q
<1>4. PICK g : Turned(cte, h, cte', g, p)
  BY <1>2, RenameTurns
<1>5. Turned(cte, h, cte', g, q)
  BY <1>3, <1>4, TurnAs
<1>6. Tree!Rename(q)
  BY <1>5, TreeRename
<1> QED  BY <1>6 DEF q

LEMMA TreeRotate ==
    ASSUME UntypedInv, NEW h, TreeSound(cte, h), NEW src \in Slots, NEW pivot \in Slots, NEW dest \in Slots,
           src # dest, Rotate(src, pivot, dest)
    PROVE  Tree!Rename(Tree!Rotates(src, pivot, dest))
<1> DEFINE c == cteMove(cte, pivot, dest)
           p == Transposed(pivot, dest)
           q == Transposed(src, pivot)
           r == Tree!Rotates(src, pivot, dest)
<1>1. /\ Sound(cte, dirty) /\ Badged(cte) /\ src \in UsedIn(cte) /\ pivot \in UsedIn(cte) /\ pivot # src
      /\ pivot # dest /\ dest \in Slots \ UsedIn(cte) /\ cte' = cteMove(c, src, pivot)
  BY DEF UntypedInv, Sound, Rotate, UsedIn, IsEmpty
<1>2. UsedIn(c) = (UsedIn(cte) \ {pivot}) \cup {dest}
  BY <1>1, MoveSound
<1>3. Renamed(cte, c, p) /\ Exchange(p) /\ Exchange(q)
  BY <1>1, MoveRenames, TransposedExchange
<1>4. \A x \in Slots : r[x] = p[q[x]]
  BY <1>1 DEF Tree!Rotates, Transposed, Slot
<1> HIDE DEF c, p
<1>5. PICK g : Turned(cte, h, c, g, p)
  BY <1>1, <1>3, RenameTurns
<1>6. TreeSound(c, g) /\ Badged(c) /\ src \in UsedIn(c) /\ pivot \in Slots \ UsedIn(c)
  BY <1>1, <1>2, <1>5 DEF Turned
<1>7. Renamed(c, cte', q)
  BY <1>1, <1>6, MoveRenames
<1> HIDE DEF q, r
<1>8. PICK f : Turned(c, g, cte', f, q)
  BY <1>3, <1>6, <1>7, RenameTurns
<1>9. Turned(cte, h, cte', f, r)
  BY <1>4, <1>5, <1>8, TurnTurns
<1>10. Tree!Rename(r)
  BY <1>1, <1>9, TreeRename
<1> QED  BY <1>10 DEF r

LEMMA TreeStutter ==
    ASSUME cte' = cte
    PROVE  UNCHANGED Tree!vars
<1>1. Parents' = Parents
  BY DEF Parents, Descendants
<1> QED  BY <1>1 DEF Tree!vars

LEMMA TreePreempted ==
    ASSUME UntypedInv, NEW h, TreeSound(cte, h), NEW s \in Slots, RetypePreempted(s)
    PROVE  UNCHANGED Tree!vars
<1>1. Grew(cte, h, cte', h, s, {}) /\ Badged(cte) /\ s \in UsedIn(cte)
  BY RetypePreemptedSound DEF UntypedInv, Sound, RetypePreempted, UsedIn, IsEmpty
<1>2. TreeSound(cte', h) /\ Badged(cte')
      /\ \A x \in Slots : Unmarked(cte'[x].cap) = Unmarked(cte[x].cap) /\ cte'[x].revocable = cte[x].revocable
  BY <1>1 DEF Grew
<1>3. IsParent(TreeOf(cte, h), Parents) /\ IsParent(TreeOf(cte', h), Parents')
  BY <1>1, <1>2, ParentsNext
<1>4. Parents' = [x \in Slots |-> IF x \in {} THEN IF cte[s].revocable THEN s ELSE Parents[s] ELSE Parents[x]]
  BY <1>1, <1>3, GrewTree
<1>5. Parents' = Parents
  BY <1>3, <1>4 DEF IsParent
<1> QED  BY <1>2, <1>5 DEF Tree!vars, Unmarked

LEMMA TreeSteps == UntypedInv /\ [Next]_vars => [Tree!Next]_(Tree!vars)
<1> SUFFICES ASSUME UntypedInv, [Next]_vars PROVE [Tree!Next]_(Tree!vars)
  OBVIOUS
<1>a. PICK h : TreeSound(cte, h) /\ Badged(cte)
  BY DEF UntypedInv, Sound
<1>1. CASE UNCHANGED vars
  BY <1>1, TreeStutter DEF vars
<1>2. ASSUME NEW s \in Slots, NEW type \in {"untyped", "endpoint"}, NEW bits \in Nat, NEW w \in Windows,
             type = "endpoint" => bits = 0, Retype(s, type, bits, w)
      PROVE  Tree!Next
  <2>1. cte[s].cap.type = "untyped" /\ s \in UsedIn(cte)
    BY <1>2 DEF Retype, UsedIn, IsEmpty
  <2>2. PICK g : Grew(cte, h, cte', g, s, First(w, Len(w)))
    BY <1>2, <1>a, RetypeSound
  <2>3. Tree!Retype(s)
    BY <1>a, <2>1, <2>2, TreeRetype
  <2> QED  BY <1>2, <2>3 DEF Tree!Next
<1>3. ASSUME NEW s \in Slots, RetypePreempted(s) PROVE UNCHANGED Tree!vars
  BY <1>3, <1>a, TreePreempted
<1>4. ASSUME NEW s \in Slots, Delete(s) PROVE [Tree!Next]_(Tree!vars)
  <2>1. CASE s \in UsedIn(cte)
    <3>1. Tree!Delete(s)
      BY <1>4, <1>a, <2>1, TreeDelete
    <3> QED  BY <1>4, <3>1 DEF Tree!Next
  <2>2. CASE s \notin UsedIn(cte)
    <3>1. cte' = cte
      BY <1>4, <2>2 DEF Delete, emptySlot, UsedIn
    <3> QED  BY <3>1, TreeStutter
  <2> QED  BY <2>1, <2>2
<1>5. ASSUME NEW s \in Slots, Revoke(s) PROVE Tree!Next
  <2>1. Tree!Revoke(s)
    BY <1>5, <1>a, TreeRevoke
  <2> QED  BY <1>5, <2>1 DEF Tree!Next
<1>6. ASSUME NEW s \in Slots, NEW d \in Slots, Copy(s, d) \/ \E b \in Badges : Mint(s, d, b) PROVE Tree!Next
  <2>1. s \in UsedIn(cte)
    BY <1>6 DEF Copy, Mint, UsedIn, IsEmpty
  <2>2. PICK g : Grew(cte, h, cte', g, s, {d})
    BY <1>6, <1>a, CopySound, MintSound
  <2>3. Tree!Derive(s, d)
    BY <1>a, <2>1, <2>2, TreeDerive
  <2> QED  BY <1>6, <2>3 DEF Tree!Next
<1>7. ASSUME NEW s \in Slots, NEW d \in Slots, Move(s, d) PROVE Tree!Next
  <2>1. Tree!Rename(Tree!Moves(s, d))
    BY <1>7, <1>a, TreeMove
  <2> QED  BY <1>7, <2>1 DEF Tree!Next
<1>8. ASSUME NEW s \in Slots, NEW p \in Slots, NEW d \in Slots, Rotate(s, p, d) PROVE Tree!Next
  <2>1. CASE s = d
    <3>1. s \in UsedIn(cte) /\ p \in UsedIn(cte) /\ s # p /\ cte' = cteSwap(cte, s, p)
      BY <1>8, <2>1 DEF Rotate, UsedIn, IsEmpty
    <3>2. Tree!Rename(Tree!Moves(s, p))
      BY <1>a, <3>1, TreeSwap
    <3> QED  BY <1>8, <3>2 DEF Tree!Next
  <2>2. CASE s # d
    <3>1. Tree!Rename(Tree!Rotates(s, p, d))
      BY <1>8, <1>a, <2>2, TreeRotate
    <3> QED  BY <1>8, <3>1 DEF Tree!Next
  <2> QED  BY <2>1, <2>2
<1>9. ASSUME NEW s \in Slots, NEW w \in Windows, Retype(s, "endpoint", 0, w) PROVE Tree!Next
  BY <1>2, <1>9
<1>10. ASSUME NEW s \in Slots, NEW w \in Windows, NEW bits \in 0 .. MemBits, Retype(s, "untyped", bits, w)
       PROVE  Tree!Next
  <2>1. bits \in Nat
    BY UntypedAssumption
  <2> QED  BY <1>2, <1>10, <2>1
<1> QED  BY <1>1, <1>3, <1>4, <1>5, <1>6, <1>7, <1>8, <1>9, <1>10 DEF Next

----------------------------------------------------------------------------
(* The theorems *)

(* The database stays a list that links every capability and no empty slot,
   and the two neighbours of a capability decide whether it is the last one to
   its object (isFinalCapability), whatever is retyped, copied, moved, swapped,
   deleted and revoked. *)
THEOREM ListIsExact == Spec => []ListExact
<1>1. UntypedInv => ListExact
  BY WellFormed, Final DEF ListExact
<1> QED  BY InvHolds, <1>1, PTL

(* No memory is in use twice: capabilities to overlapping memory are to one
   object, or revoking the one deletes the other. *)
THEOREM MemoryStaysApart == Spec => []MemoryApart
<1>1. UntypedInv => MemoryApart
  BY MemApart
<1> QED  BY InvHolds, <1>1, PTL

(* What an untyped capability has free reads as zero (resetUntypedCap), however
   often clearing it was preempted. *)
THEOREM FreeMemoryStaysCleared == Spec => []FreeMemoryCleared
<1>1. UntypedInv => FreeMemoryCleared
  BY DEF UntypedInv, Sound, Cleared, FreeMemoryCleared, Used, UsedIn
<1> QED  BY InvHolds, <1>1, PTL

(* The list with its two flags is the manual's tree (cspace.tex, "Capability
   derivation tree"): who is whose parent, read off the order of the entries
   and their marks, changes only as the manual says, whatever cteInsert,
   cteMove, cteSwap, emptySlot and a preempted revocation do to the list. *)
THEOREM DerivationIsTree == Spec => ImplementsTree
<1>1. Init => Tree!Init
  BY TreeInit
<1> QED  BY InvHolds, <1>1, TreeSteps, PTL DEF Spec, ImplementsTree, Tree!Spec
=============================================================================
