----------------------------- MODULE Hmac_proofs -----------------------------
(***************************************************************************)
(* Theorems about Hmac, for every size of block and word and every length  *)
(* of key and message: however a message is cut into pieces, the context   *)
(* holds just its bytes, and the digest is the HMAC of RFC 2104.           *)
(*                                                                         *)
(* The first lemmas say how the blocks of a message grow when bytes are    *)
(* appended; the next ones what that makes of SHA256_Update and            *)
(* SHA256_Final; the invariant of Hmac follows from those.                 *)
(***************************************************************************)
EXTENDS Hmac, SequenceTheorems, TLAPS

(* A block has at least one byte; the length takes two words of it. *)
LEMMA Sizes ==
    /\ CBlock \in Nat /\ WordBytes \in Nat /\ DigestLength \in Nat /\ EighthWord \in Nat
    /\ 0 < CBlock /\ 0 < WordBytes /\ 0 < EighthWord
    /\ Room \in Nat /\ Room = CBlock - 2 * WordBytes /\ 0 < Room
    /\ WordMod \in Nat /\ WordMod = 8 * EighthWord
    /\ DigestLength <= CBlock
  BY ShaAssumption DEF Room, WordMod

(* Quotient and remainder. *)
LEMMA Division ==
    ASSUME NEW c \in Nat, 0 < c, NEW n \in Nat
    PROVE  /\ n \div c \in Nat /\ n % c \in Nat /\ n % c < c
           /\ n = c * (n \div c) + (n % c)
  <1>1. n % c \in 0 .. c - 1
    OBVIOUS
  <1>2. n \div c \in Int
    OBVIOUS
  <1>3. n = c * (n \div c) + (n % c)
    OBVIOUS
  <1>4. n \div c \in Nat
    OBVIOUS
  <1> QED  BY <1>1, <1>2, <1>3, <1>4

(* More blocks are at least a block more. *)
LEMMA BlocksApart ==
    ASSUME NEW c \in Nat, NEW x \in Nat, NEW y \in Nat, x < y
    PROVE  c * x + c <= c * y
  <1>1. PICK k \in Nat : y = x + 1 + k
    <2>1. y - x - 1 \in Nat /\ y = x + 1 + (y - x - 1)
      OBVIOUS
    <2> QED  BY <2>1
  <1>2. c * (x + 1 + k) = c * x + c + c * k
    OBVIOUS
  <1>3. c * k \in Nat
    OBVIOUS
  <1> QED  BY <1>1, <1>2, <1>3

(* There is only one quotient and remainder. *)
LEMMA DivisionUnique ==
    ASSUME NEW c \in Nat, NEW q \in Nat, NEW r \in Nat, NEW n \in Nat, r < c, n = c * q + r
    PROVE  n \div c = q /\ n % c = r
  <1> DEFINE a == n \div c
             b == n % c
  <1>1. a \in Nat /\ b \in Nat /\ b < c /\ n = c * a + b
    BY Division
  <1> HIDE DEF a, b
  <1>2. c * a \in Nat /\ c * q \in Nat
    BY <1>1
  <1>3. ~(a < q)
    BY <1>1, <1>2, BlocksApart
  <1>4. ~(q < a)
    BY <1>1, <1>2, BlocksApart
  <1>5. a = q
    BY <1>1, <1>3, <1>4
  <1>6. b = r
    BY <1>1, <1>2, <1>5
  <1> QED  BY <1>5, <1>6 DEF a, b
----------------------------------------------------------------------------
(* Block i of a message, byte by byte. *)
BlockOf(m, i) == [j \in 1 .. CBlock |-> m[(i - 1) * CBlock + j]]

(* The bytes of block i of those that are complete. *)
LEMMA WithinMessage ==
    ASSUME NEW S, NEW m \in Seq(S), NEW i \in 1 .. Len(m) \div CBlock, NEW j \in 1 .. CBlock
    PROVE  (i - 1) * CBlock \in Nat /\ (i - 1) * CBlock + j \in 1 .. Len(m)
  <1> DEFINE q == Len(m) \div CBlock
             r == Len(m) % CBlock
  <1>1. Len(m) \in Nat /\ CBlock \in Nat /\ 0 < CBlock
    BY Sizes
  <1>2. q \in Nat /\ r \in Nat /\ Len(m) = CBlock * q + r
    BY <1>1, Division
  <1>3. i \in 1 .. q
    OBVIOUS
  <1> HIDE DEF q, r
  <1>4. i - 1 \in Nat /\ i - 1 < q
    BY <1>2, <1>3
  <1>5. CBlock * (i - 1) + CBlock <= CBlock * q
    BY <1>1, <1>2, <1>4, BlocksApart
  <1>6. (i - 1) * CBlock = CBlock * (i - 1) /\ CBlock * (i - 1) \in Nat /\ CBlock * q \in Nat
    BY <1>1, <1>2, <1>4
  <1> QED  BY <1>1, <1>2, <1>5, <1>6

(* The blocks compressed are those, and the rest is what is left over. *)
LEMMA Cut ==
    ASSUME NEW S, NEW m \in Seq(S)
    PROVE  /\ WholeBlocks(m) = [i \in 1 .. Len(m) \div CBlock |-> BlockOf(m, i)]
           /\ WholeBlocks(m) \in Seq(Seq(S))
           /\ Len(WholeBlocks(m)) = Len(m) \div CBlock
           /\ LeftOver(m) \in Seq(S)
           /\ Len(LeftOver(m)) = Len(m) % CBlock
           /\ \A j \in 1 .. Len(m) % CBlock : LeftOver(m)[j] = m[CBlock * (Len(m) \div CBlock) + j]
  <1> DEFINE q == Len(m) \div CBlock
             r == Len(m) % CBlock
  <1>1. Len(m) \in Nat /\ CBlock \in Nat /\ 0 < CBlock
    BY Sizes
  <1>2. q \in Nat /\ r \in Nat /\ Len(m) = CBlock * q + r
    BY <1>1, Division
  <1>3. ASSUME NEW i \in 1 .. q
        PROVE  /\ SubSeq(m, (i - 1) * CBlock + 1, i * CBlock) = BlockOf(m, i)
               /\ BlockOf(m, i) \in Seq(S)
    <2> DEFINE a == (i - 1) * CBlock
    <2>1. \A j \in 1 .. CBlock : a \in Nat /\ a + j \in 1 .. Len(m)
      BY <1>3, WithinMessage
    <2>2. a \in Nat /\ i * CBlock = a + CBlock
      <3>1. i * CBlock = (i - 1) * CBlock + CBlock
        BY <1>1, <1>2
      <3> QED  BY <1>1, <2>1, <3>1
    <2> HIDE DEF a, q
    <2>3. \A k \in a + 1 .. a + CBlock : m[k] \in S
      <3> TAKE k \in a + 1 .. a + CBlock
      <3>1. k - a \in 1 .. CBlock /\ a + (k - a) = k
        BY <1>1, <2>2
      <3>2. k \in 1 .. Len(m)
        BY <2>1, <3>1
      <3> QED  BY <3>2
    <2>4. /\ SubSeq(m, a + 1, a + CBlock) \in Seq(S)
          /\ Len(SubSeq(m, a + 1, a + CBlock)) = CBlock
          /\ \A j \in 1 .. CBlock : SubSeq(m, a + 1, a + CBlock)[j] = m[a + j]
      <3>1. a + 1 \in Int /\ a + CBlock \in Int /\ a + 1 <= a + CBlock
        BY <1>1, <2>2
      <3> QED  BY SMTT(30), <1>1, <2>2, <2>3, <3>1, SubSeqProperties
    <2>5. SubSeq(m, a + 1, a + CBlock) = [j \in 1 .. CBlock |-> m[a + j]]
      BY <2>4, LenProperties
    <2> QED  BY <2>2, <2>4, <2>5 DEF BlockOf, a
  <1>4. WholeBlocks(m) = [i \in 1 .. q |-> BlockOf(m, i)]
    BY <1>3 DEF WholeBlocks
  <1>5. WholeBlocks(m) \in Seq(Seq(S)) /\ Len(WholeBlocks(m)) = q
    <2> HIDE DEF q
    <2>1. [i \in 1 .. q |-> BlockOf(m, i)] \in [1 .. q -> Seq(S)]
      BY <1>3
    <2> QED  BY <1>2, <1>4, <2>1
  <1>6. /\ LeftOver(m) \in Seq(S) /\ Len(LeftOver(m)) = r
        /\ \A j \in 1 .. r : LeftOver(m)[j] = m[CBlock * q + j]
    <2> DEFINE b == CBlock * q
    <2>1. b \in Nat /\ Len(m) = b + r /\ LeftOver(m) = SubSeq(m, b + 1, b + r)
      BY <1>1, <1>2 DEF LeftOver
    <2> HIDE DEF b, q, r
    <2>2. \A k \in b + 1 .. b + r : m[k] \in S
      BY <1>2, <2>1
    <2>3. b + 1 \in Int /\ b + r \in Int /\ (b + r) - (b + 1) + 1 = r
      BY <1>2, <2>1
    <2>4. /\ SubSeq(m, b + 1, b + r) \in Seq(S)
          /\ Len(SubSeq(m, b + 1, b + r)) = IF b + 1 <= b + r THEN (b + r) - (b + 1) + 1 ELSE 0
          /\ \A j \in 1 .. (b + r) - (b + 1) + 1 : SubSeq(m, b + 1, b + r)[j] = m[b + 1 + j - 1]
      BY <2>2, <2>3, SubSeqProperties
    <2>5. Len(SubSeq(m, b + 1, b + r)) = r
      BY <1>2, <2>1, <2>3, <2>4
    <2>6. \A j \in 1 .. r : SubSeq(m, b + 1, b + r)[j] = m[b + j]
      <3> TAKE j \in 1 .. r
      <3>1. b + 1 + j - 1 = b + j
        BY <1>2, <2>1
      <3> QED  BY <2>3, <2>4, <3>1
    <2> QED  BY <2>1, <2>4, <2>5, <2>6 DEF b
  <1> QED  BY <1>4, <1>5, <1>6

(* Fewer bytes than a block are left over. *)
LEMMA Remainder ==
    ASSUME NEW S, NEW m \in Seq(S)
    PROVE  /\ CBlock \in Nat /\ 0 < CBlock /\ Len(m) \in Nat
           /\ Len(m) % CBlock \in Nat /\ Len(m) % CBlock < CBlock
  <1>1. Len(m) \in Nat
    OBVIOUS
  <1> QED  BY <1>1, Sizes, Division

(* Appending leaves the complete blocks as they are. *)
LEMMA BlocksStay ==
    ASSUME NEW S, NEW m \in Seq(S), NEW p \in Seq(S), NEW i \in 1 .. Len(m) \div CBlock
    PROVE  BlockOf(m \o p, i) = BlockOf(m, i)
  <1>1. ASSUME NEW j \in 1 .. CBlock
        PROVE  (m \o p)[(i - 1) * CBlock + j] = m[(i - 1) * CBlock + j]
    <2> DEFINE k == (i - 1) * CBlock + j
    <2>1. k \in 1 .. Len(m)
      BY WithinMessage
    <2> HIDE DEF k
    <2>2. (m \o p)[k] = m[k]
      BY <2>1, ConcatProperties
    <2> QED  BY <2>2 DEF k
  <1> QED  BY <1>1 DEF BlockOf

(* Too few bytes to complete a block are left over behind the others. *)
LEMMA ShortPiece ==
    ASSUME NEW S, NEW m \in Seq(S), NEW p \in Seq(S), (Len(m) % CBlock) + Len(p) < CBlock
    PROVE  /\ Len(m \o p) % CBlock = (Len(m) % CBlock) + Len(p)
           /\ WholeBlocks(m \o p) = WholeBlocks(m)
           /\ LeftOver(m \o p) = LeftOver(m) \o p
  <1> DEFINE q == Len(m) \div CBlock
             r == Len(m) % CBlock
             n == m \o p
  <1>1. /\ Len(m) \in Nat /\ Len(p) \in Nat /\ CBlock \in Nat /\ 0 < CBlock
        /\ q \in Nat /\ r \in Nat /\ Len(m) = CBlock * q + r
    BY Sizes, Division
  <1>2. n \in Seq(S) /\ Len(n) = Len(m) + Len(p)
    BY ConcatProperties
  <1>3. Len(n) \div CBlock = q /\ Len(n) % CBlock = r + Len(p)
    <2>1. r + Len(p) < CBlock
      OBVIOUS
    <2> HIDE DEF q, r, n
    <2>2. r + Len(p) \in Nat /\ Len(n) \in Nat /\ Len(n) = CBlock * q + (r + Len(p))
      <3>1. CBlock * q \in Nat
        BY <1>1
      <3> QED  BY <1>1, <1>2, <3>1
    <2> QED  BY ZenonT(60), <1>1, <2>1, <2>2, DivisionUnique
  <1>4. WholeBlocks(n) = WholeBlocks(m)
    <2>1. \A i \in 1 .. q : BlockOf(n, i) = BlockOf(m, i)
      BY BlocksStay
    <2>2. WholeBlocks(n) = [i \in 1 .. Len(n) \div CBlock |-> BlockOf(n, i)]
      BY <1>2, Cut
    <2>3. WholeBlocks(m) = [i \in 1 .. q |-> BlockOf(m, i)]
      BY Cut
    <2> HIDE DEF q, n
    <2> QED  BY <1>3, <2>1, <2>2, <2>3
  <1>5. LeftOver(n) = LeftOver(m) \o p
    <2> DEFINE u == LeftOver(n)
               v == LeftOver(m)
    <2>1. /\ u \in Seq(S) /\ Len(u) = r + Len(p)
          /\ \A j \in 1 .. r + Len(p) : u[j] = n[CBlock * q + j]
      <3> HIDE DEF q, r, n
      <3> QED  BY <1>2, <1>3, Cut
    <2>2. v \in Seq(S) /\ Len(v) = r /\ \A j \in 1 .. r : v[j] = m[CBlock * q + j]
      BY Cut
    <2>3. \A k \in 1 .. Len(m) + Len(p) : n[k] = IF k <= Len(m) THEN m[k] ELSE p[k - Len(m)]
      BY ConcatProperties
    <2> HIDE DEF q, r, n, u, v
    <2> DEFINE b == CBlock * q
    <2>4. b \in Nat /\ Len(m) = b + r
      BY <1>1
    <2>5. /\ v \o p \in Seq(S) /\ Len(v \o p) = r + Len(p)
          /\ \A j \in 1 .. r + Len(p) : (v \o p)[j] = IF j <= r THEN v[j] ELSE p[j - r]
      BY <2>2, ConcatProperties
    <2>6. \A j \in 1 .. r + Len(p) : u[j] = (v \o p)[j]
      <3> HIDE DEF b
      <3> TAKE j \in 1 .. r + Len(p)
      <3>1. b + j \in 1 .. Len(m) + Len(p)
        BY <1>1, <2>4
      <3>2. u[j] = n[b + j]
        BY <2>1 DEF b
      <3>3. CASE j <= r
        <4>1. b + j <= Len(m) /\ v[j] = m[b + j]
          BY <1>1, <2>2, <2>4, <3>3 DEF b
        <4> QED  BY <2>3, <2>5, <3>1, <3>2, <3>3, <4>1
      <3>4. CASE ~(j <= r)
        <4>1. ~(b + j <= Len(m)) /\ b + j - Len(m) = j - r
          BY <1>1, <2>4, <3>4
        <4>2. n[b + j] = p[b + j - Len(m)]
          BY <1>1, <2>3, <2>4, <3>1, <4>1
        <4>3. (v \o p)[j] = p[j - r]
          BY <2>5, <3>4
        <4> QED  BY <3>2, <4>1, <4>2, <4>3
      <3> QED  BY <3>3, <3>4
    <2> QED  BY <1>1, <2>1, <2>5, <2>6, SeqEqual DEF u, v
  <1> QED  BY <1>3, <1>4, <1>5

(* Appending, written out as a function of the position. *)
LEMMA AppendAsFunction ==
    ASSUME NEW T, NEW w \in Seq(T), NEW x \in T, NEW q \in Nat, Len(w) = q
    PROVE  Append(w, x) = [i \in 1 .. q + 1 |-> IF i <= q THEN w[i] ELSE x]
  <1> DEFINE a == Append(w, x)
  <1>1. /\ a \in Seq(T) /\ Len(a) = q + 1 /\ a[q + 1] = x
        /\ \A i \in 1 .. q : a[i] = w[i]
    BY AppendProperties
  <1> HIDE DEF a
  <1>2. a = [i \in 1 .. q + 1 |-> a[i]]
    BY <1>1, LenProperties
  <1>3. \A i \in 1 .. q + 1 : a[i] = IF i <= q THEN w[i] ELSE x
    <2> TAKE i \in 1 .. q + 1
    <2>1. CASE i <= q
      BY <1>1, <2>1
    <2>2. CASE ~(i <= q)
      <3>1. i = q + 1
        BY <2>2
      <3> QED  BY <1>1, <2>2, <3>1
    <2> QED  BY <2>1, <2>2
  <1> QED  BY <1>2, <1>3 DEF a

(* The bytes that complete a block add this block. *)
LEMMA FillingPiece ==
    ASSUME NEW S, NEW m \in Seq(S), NEW p \in Seq(S), (Len(m) % CBlock) + Len(p) = CBlock
    PROVE  /\ Len(m \o p) % CBlock = 0
           /\ WholeBlocks(m \o p) = Append(WholeBlocks(m), LeftOver(m) \o p)
  <1> DEFINE q == Len(m) \div CBlock
             r == Len(m) % CBlock
             n == m \o p
             v == LeftOver(m)
  <1>1. /\ Len(m) \in Nat /\ Len(p) \in Nat /\ CBlock \in Nat /\ 0 < CBlock
        /\ q \in Nat /\ r \in Nat /\ Len(m) = CBlock * q + r
    BY Sizes, Division
  <1>2. /\ n \in Seq(S) /\ Len(n) = Len(m) + Len(p)
        /\ \A k \in 1 .. Len(m) + Len(p) : n[k] = IF k <= Len(m) THEN m[k] ELSE p[k - Len(m)]
    BY ConcatProperties
  <1>3. r + Len(p) = CBlock
    OBVIOUS
  <1>4. v \in Seq(S) /\ Len(v) = r /\ \A j \in 1 .. r : v[j] = m[CBlock * q + j]
    BY Cut
  <1>5. \A i \in 1 .. q : BlockOf(n, i) = BlockOf(m, i)
    BY BlocksStay
  <1>6. WholeBlocks(m) = [i \in 1 .. q |-> BlockOf(m, i)] /\ WholeBlocks(m) \in Seq(Seq(S)) /\ Len(WholeBlocks(m)) = q
    BY Cut
  <1>7. WholeBlocks(n) = [i \in 1 .. Len(n) \div CBlock |-> BlockOf(n, i)]
    BY <1>2, Cut
  <1> HIDE DEF q, r, n, v
  <1>8. Len(n) \div CBlock = q + 1 /\ Len(n) % CBlock = 0
    <2>1. CBlock * (q + 1) = CBlock * q + CBlock /\ CBlock * q \in Nat
      BY <1>1
    <2>2. q + 1 \in Nat /\ Len(n) \in Nat /\ Len(n) = CBlock * (q + 1) + 0
      <3> DEFINE b == CBlock * q
                 d == CBlock * (q + 1)
      <3>1. b \in Nat /\ d = b + CBlock /\ Len(m) = b + r /\ Len(n) = Len(m) + Len(p)
        BY <1>1, <1>2, <2>1
      <3>2. CBlock \in Nat /\ r \in Nat /\ Len(p) \in Nat /\ r + Len(p) = CBlock
        BY <1>1, <1>3
      <3> HIDE DEF b, d
      <3>3. Len(n) \in Nat /\ Len(n) = d + 0
        BY ONLY <3>1, <3>2
      <3> QED  BY <1>1, <3>3 DEF d
    <2> QED  BY <1>1, <2>2, DivisionUnique
  <1>9. /\ v \o p \in Seq(S) /\ Len(v \o p) = CBlock
        /\ \A j \in 1 .. CBlock : (v \o p)[j] = IF j <= r THEN v[j] ELSE p[j - r]
    BY <1>3, <1>4, ConcatProperties
  <1>10. BlockOf(n, q + 1) = v \o p
    <2> DEFINE b == CBlock * q
    <2>1. b \in Nat /\ Len(m) = b + r /\ ((q + 1) - 1) * CBlock = b
      BY <1>1
    <2> HIDE DEF b
    <2>2. \A j \in 1 .. CBlock : n[b + j] = (v \o p)[j]
      <3> TAKE j \in 1 .. CBlock
      <3>1. b + j \in 1 .. Len(m) + Len(p)
        BY <1>1, <1>3, <2>1
      <3>2. CASE j <= r
        <4>1. b + j <= Len(m) /\ v[j] = m[b + j]
          BY <1>1, <1>4, <2>1, <3>2 DEF b
        <4> QED  BY <1>2, <1>9, <3>1, <3>2, <4>1
      <3>3. CASE ~(j <= r)
        <4>1. ~(b + j <= Len(m)) /\ b + j - Len(m) = j - r
          BY <1>1, <2>1, <3>3
        <4>2. n[b + j] = p[b + j - Len(m)]
          BY <1>1, <1>2, <2>1, <3>1, <4>1
        <4>3. (v \o p)[j] = p[j - r]
          BY <1>9, <3>3
        <4> QED  BY <4>1, <4>2, <4>3
      <3> QED  BY <3>2, <3>3
    <2>3. BlockOf(n, q + 1) = [j \in 1 .. CBlock |-> n[b + j]]
      BY <2>1 DEF BlockOf
    <2>4. v \o p = [j \in 1 .. CBlock |-> (v \o p)[j]]
      BY <1>9, LenProperties
    <2> QED  BY <2>2, <2>3, <2>4
  <1>11. WholeBlocks(n) = Append(WholeBlocks(m), v \o p)
    <2> DEFINE w == WholeBlocks(m)
               x == v \o p
    <2>1. Append(w, x) = [i \in 1 .. q + 1 |-> IF i <= q THEN w[i] ELSE x]
      <3>1. w \in Seq(Seq(S)) /\ Len(w) = q /\ x \in Seq(S) /\ q \in Nat
        BY <1>1, <1>6, <1>9
      <3> HIDE DEF w, x
      <3> QED  BY ONLY <3>1, AppendAsFunction
    <2>2. \A i \in 1 .. q + 1 : BlockOf(n, i) = IF i <= q THEN w[i] ELSE x
      <3> TAKE i \in 1 .. q + 1
      <3>1. CASE i <= q
        BY <1>1, <1>5, <1>6, <3>1
      <3>2. CASE ~(i <= q)
        <4>1. i = q + 1
          BY <1>1, <3>2
        <4> QED  BY <1>10, <3>2, <4>1
      <3> QED  BY <3>1, <3>2
    <2> HIDE DEF w, x
    <2>3. WholeBlocks(n) = Append(w, x)
      BY <1>7, <1>8, <2>1, <2>2
    <2> QED  BY <2>3 DEF w, x
  <1> QED  BY <1>8, <1>11 DEF n, v

(* Behind a whole number of blocks a piece is cut as if it stood alone. *)
LEMMA AlignedPiece ==
    ASSUME NEW S, NEW m \in Seq(S), NEW p \in Seq(S), Len(m) % CBlock = 0
    PROVE  /\ Len(m \o p) % CBlock = Len(p) % CBlock
           /\ WholeBlocks(m \o p) = WholeBlocks(m) \o WholeBlocks(p)
           /\ LeftOver(m \o p) = LeftOver(p)
  <1> DEFINE q == Len(m) \div CBlock
             z == Len(p) \div CBlock
             r == Len(p) % CBlock
             n == m \o p
             v == WholeBlocks(m)
             w == WholeBlocks(p)
             b == CBlock * q
             d == CBlock * z
  <1>1. /\ Len(m) \in Nat /\ Len(p) \in Nat /\ CBlock \in Nat /\ 0 < CBlock
        /\ q \in Nat /\ z \in Nat /\ r \in Nat /\ r < CBlock
        /\ Len(m) = b + (Len(m) % CBlock) /\ Len(p) = d + r
    BY Sizes, Division
  <1>2. /\ n \in Seq(S) /\ Len(n) = Len(m) + Len(p)
        /\ \A k \in 1 .. Len(m) + Len(p) : n[k] = IF k <= Len(m) THEN m[k] ELSE p[k - Len(m)]
    BY ConcatProperties
  <1>3. \A i \in 1 .. q : BlockOf(n, i) = BlockOf(m, i)
    BY BlocksStay
  <1>4. v = [i \in 1 .. q |-> BlockOf(m, i)] /\ v \in Seq(Seq(S)) /\ Len(v) = q
    BY Cut
  <1>5. w = [i \in 1 .. z |-> BlockOf(p, i)] /\ w \in Seq(Seq(S)) /\ Len(w) = z
    BY Cut
  <1>6. /\ WholeBlocks(n) = [i \in 1 .. Len(n) \div CBlock |-> BlockOf(n, i)]
        /\ LeftOver(n) \in Seq(S) /\ Len(LeftOver(n)) = Len(n) % CBlock
        /\ \A j \in 1 .. Len(n) % CBlock : LeftOver(n)[j] = n[CBlock * (Len(n) \div CBlock) + j]
    BY <1>2, Cut
  <1>7. /\ LeftOver(p) \in Seq(S) /\ Len(LeftOver(p)) = r
        /\ \A j \in 1 .. r : LeftOver(p)[j] = p[d + j]
    BY Cut
  <1>8. /\ b \in Nat /\ d \in Nat /\ Len(m) = b /\ Len(n) = b + d + r
        /\ CBlock * (q + z) = b + d
    <2>1. b \in Nat /\ d \in Nat /\ CBlock * (q + z) = b + d
      BY <1>1
    <2>2. Len(m) % CBlock = 0
      OBVIOUS
    <2> HIDE DEF b, d, q, z, r, n
    <2>3. Len(m) = b
      BY <1>1, <2>1, <2>2
    <2>4. Len(n) = b + d + r
      BY <1>1, <1>2, <2>1, <2>3
    <2> QED  BY <2>1, <2>3, <2>4
  <1>9. ASSUME NEW i \in 1 .. z
        PROVE  BlockOf(n, q + i) = BlockOf(p, i)
    <2> DEFINE a == (i - 1) * CBlock
    <2>1. \A j \in 1 .. CBlock : a \in Nat /\ a + j \in 1 .. Len(p)
      BY WithinMessage
    <2>2. ((q + i) - 1) * CBlock = b + a
      <3>1. ((q + i) - 1) * CBlock = CBlock * q + (i - 1) * CBlock
        BY <1>1
      <3> QED  BY <3>1
    <2> HIDE DEF a, b, d, q, z, r, n
    <2>3. \A j \in 1 .. CBlock : n[b + a + j] = p[a + j]
      <3> TAKE j \in 1 .. CBlock
      <3>1. a + j \in 1 .. Len(p) /\ a \in Nat
        BY <2>1
      <3>2. b + a + j \in 1 .. Len(m) + Len(p) /\ ~(b + a + j <= Len(m)) /\ b + a + j - Len(m) = a + j
        BY <1>1, <1>8, <3>1
      <3> QED  BY <1>1, <1>2, <1>8, <3>1, <3>2
    <2>4. BlockOf(n, q + i) = [j \in 1 .. CBlock |-> n[b + a + j]]
      <3>1. BlockOf(n, q + i) = [j \in 1 .. CBlock |-> n[((q + i) - 1) * CBlock + j]]
        BY ONLY DEF BlockOf
      <3> QED  BY ONLY <2>2, <3>1
    <2>5. BlockOf(p, i) = [j \in 1 .. CBlock |-> p[a + j]]
      BY DEF BlockOf, a
    <2> QED  BY <2>3, <2>4, <2>5
  <1> HIDE DEF q, z, r, n, v, w
  <1>10. Len(n) \div CBlock = q + z /\ Len(n) % CBlock = r
    <2>1. q + z \in Nat /\ Len(n) \in Nat /\ Len(n) = CBlock * (q + z) + r
      <3> HIDE DEF b, d
      <3> QED  BY <1>1, <1>8
    <2> QED  BY <1>1, <2>1, DivisionUnique
  <1>11. WholeBlocks(n) = v \o w
    <2>1. v \o w = [i \in 1 .. q + z |-> IF i <= q THEN v[i] ELSE w[i - q]]
      <3> DEFINE T == Seq(S)
      <3>0. v \in Seq(T) /\ w \in Seq(T) /\ Len(v) = q /\ Len(w) = z
        BY <1>4, <1>5
      <3> HIDE DEF T
      <3>1. v \o w \in Seq(T) /\ Len(v \o w) = q + z
        BY <3>0, ConcatProperties
      <3>2. \A i \in 1 .. q + z : (v \o w)[i] = IF i <= q THEN v[i] ELSE w[i - q]
        BY <3>0, ConcatProperties
      <3>3. v \o w = [i \in 1 .. q + z |-> (v \o w)[i]]
        BY <3>1, LenProperties
      <3> QED  BY <3>2, <3>3
    <2>2. \A i \in 1 .. q + z : BlockOf(n, i) = IF i <= q THEN v[i] ELSE w[i - q]
      <3> HIDE DEF b, d
      <3> TAKE i \in 1 .. q + z
      <3>1. CASE i <= q
        BY <1>1, <1>3, <1>4, <3>1
      <3>2. CASE ~(i <= q)
        <4>1. i - q \in 1 .. z /\ q + (i - q) = i
          BY <1>1, <3>2
        <4>2. BlockOf(n, i) = BlockOf(p, i - q) /\ w[i - q] = BlockOf(p, i - q)
          BY <1>5, <1>9, <4>1
        <4> QED  BY <3>2, <4>2
      <3> QED  BY <3>1, <3>2
    <2> QED  BY <1>6, <1>10, <2>1, <2>2
  <1>12. LeftOver(n) = LeftOver(p)
    <2>1. \A j \in 1 .. r : LeftOver(n)[j] = n[b + d + j]
      BY <1>6, <1>8, <1>10
    <2> HIDE DEF b, d
    <2>2. \A j \in 1 .. r : n[b + d + j] = p[d + j]
      <3> TAKE j \in 1 .. r
      <3>1. b + d + j \in 1 .. Len(m) + Len(p) /\ ~(b + d + j <= Len(m)) /\ b + d + j - Len(m) = d + j
        BY <1>1, <1>8
      <3> QED  BY <1>1, <1>2, <1>8, <3>1
    <2> DEFINE x == LeftOver(n)
               y == LeftOver(p)
    <2>3. x \in Seq(S) /\ y \in Seq(S) /\ Len(x) = r /\ Len(y) = r /\ \A j \in 1 .. r : x[j] = y[j]
      BY <1>6, <1>7, <1>10, <2>1, <2>2
    <2> HIDE DEF x, y
    <2>4. x = y
      BY <2>3, SeqEqual
    <2> QED  BY <2>4 DEF x, y
  <1> QED  BY <1>10, <1>11, <1>12 DEF n, v, w, r

(* Nothing left over is the empty sequence. *)
LEMMA NothingLeft ==
    ASSUME NEW S, NEW m \in Seq(S), Len(m) % CBlock = 0
    PROVE  LeftOver(m) = << >>
  <1>1. LeftOver(m) \in Seq(S) /\ Len(LeftOver(m)) = 0
    BY Cut
  <1> QED  BY <1>1, EmptySeq
----------------------------------------------------------------------------
(* Reducing a summand does not change the remainder of a sum. *)
LEMMA RemainderOfSum ==
    ASSUME NEW c \in Nat, 0 < c, NEW a \in Nat, NEW k \in Nat
    PROVE  ((a % c) + k) % c = (a + k) % c
  <1> DEFINE s == a \div c
             u == a % c
             t == (u + k) \div c
             w == (u + k) % c
  <1>1. s \in Nat /\ u \in Nat /\ a = c * s + u
    BY Division
  <1> HIDE DEF s, u
  <1>2. t \in Nat /\ w \in Nat /\ w < c /\ u + k = c * t + w
    BY <1>1, Division
  <1> HIDE DEF t, w
  <1>3. c * (s + t) = c * s + c * t /\ c * s \in Nat /\ c * t \in Nat
    BY <1>1, <1>2
  <1>4. a + k = c * (s + t) + w
    <2> DEFINE x == c * s
               y == c * t
               z == c * (s + t)
    <2>1. a = x + u /\ u + k = y + w /\ z = x + y /\ x \in Nat /\ y \in Nat
      BY <1>1, <1>2, <1>3
    <2>2. u \in Nat /\ w \in Nat /\ k \in Nat
      BY <1>1, <1>2
    <2> HIDE DEF x, y, z
    <2>3. a + k = z + w
      BY ONLY <2>1, <2>2
    <2> QED  BY <2>3 DEF z
  <1>5. (a + k) % c = w
    <2>1. s + t \in Nat /\ a + k \in Nat
      BY <1>1, <1>2
    <2> QED  BY <1>2, <1>4, <2>1, DivisionUnique
  <1> QED  BY <1>5 DEF w, u

(* The two words that count the bits of a message of n bytes. *)
LowCount(n)  == (8 * n) % WordMod
HighCount(n) == ((8 * n) \div WordMod) % WordMod

(* The low word holds the bytes beyond the last multiple of EighthWord. *)
LEMMA Counted ==
    ASSUME NEW a \in Nat, NEW x \in Nat, x < EighthWord, NEW n \in Nat, n = EighthWord * a + x
    PROVE  LowCount(n) = 8 * x /\ HighCount(n) = a % WordMod
  <1>1. 8 * n = WordMod * a + 8 * x
    <2> DEFINE y == EighthWord * a
    <2>1. WordMod * a = 8 * y /\ y \in Nat /\ n = y + x
      BY Sizes
    <2> HIDE DEF y
    <2> QED  BY <2>1
  <1>2. 8 * x < WordMod /\ 8 * x \in Nat /\ 8 * n \in Nat /\ WordMod \in Nat
    BY Sizes
  <1>3. (8 * n) \div WordMod = a /\ (8 * n) % WordMod = 8 * x
    BY SMTT(30), <1>1, <1>2, DivisionUnique
  <1> QED  BY <1>3 DEF LowCount, HighCount

(* SHA256_addlength adds to the count, with the carry from the low word told
   by its having become smaller. *)
LEMMA LengthAdded ==
    ASSUME NEW c, NEW a \in Nat, NEW n \in Nat,
           c.Nl = LowCount(a), c.Nh = HighCount(a)
    PROVE  /\ (c.Nl + 8 * n) % WordMod = LowCount(a + n)
           /\ (c.Nh + (IF (c.Nl + 8 * n) % WordMod < c.Nl THEN 1 ELSE 0) + n \div EighthWord) % WordMod = HighCount(a + n)
  <1> DEFINE E == EighthWord
             W == WordMod
             s == a \div E
             x == a % E
             t == n \div E
             y == n % E
             u == E * s
             v == E * t
             l == (c.Nl + 8 * n) % WordMod
  <1>1. E \in Nat /\ 0 < E /\ W \in Nat /\ W = 8 * E
    BY Sizes
  <1>2. s \in Nat /\ x \in Nat /\ x < E /\ a = u + x
    BY <1>1, Division
  <1>3. t \in Nat /\ y \in Nat /\ y < E /\ n = v + y
    BY <1>1, Division
  <1>4. u \in Nat /\ v \in Nat /\ E * (s + t) = u + v /\ E * (s + t + 1) = u + v + E
    BY <1>1, <1>2, <1>3
  <1>5. c.Nl = 8 * x /\ c.Nh = s % W
    <2> HIDE DEF s, x
    <2> QED  BY <1>1, <1>2, Counted
  <1>6. W * t = 8 * v /\ W * (t + 1) = 8 * v + W
    <2> HIDE DEF t
    <2>1. W * t = 8 * (E * t)
      BY <1>1, <1>3
    <2>2. W * (t + 1) = W * t + W
      BY <1>1, <1>3
    <2> QED  BY <2>1, <2>2
  <1>7. ASSUME NEW k \in Nat
        PROVE  ((s % W) + k) % W = (s + k) % W
    <2> HIDE DEF s
    <2>1. W \in Nat /\ 0 < W /\ s \in Nat
      BY <1>1, <1>2
    <2> HIDE DEF W
    <2> QED  BY <2>1, RemainderOfSum
  <1>8. CASE x + y < E
    <2>1. LowCount(a + n) = 8 * (x + y) /\ HighCount(a + n) = (s + t) % W
      <3> HIDE DEF s, t, x, y
      <3>1. a + n = E * (s + t) + (x + y)
        <4> HIDE DEF u, v
        <4> QED  BY <1>2, <1>3, <1>4
      <3>2. s + t \in Nat /\ x + y \in Nat /\ a + n \in Nat
        BY <1>2, <1>3
      <3> QED  BY <1>8, <3>1, <3>2, Counted
    <2>2. l = 8 * (x + y)
      <3> HIDE DEF s, t, x, y, u, v
      <3>1. c.Nl + 8 * n = W * t + 8 * (x + y)
        BY <1>2, <1>3, <1>4, <1>5, <1>6
      <3>2. c.Nl + 8 * n \in Nat /\ 8 * (x + y) \in Nat /\ 8 * (x + y) < W /\ t \in Nat
        BY <1>1, <1>2, <1>3, <1>4, <1>5, <1>8
      <3> DEFINE g == c.Nl + 8 * n
                 r == 8 * (x + y)
      <3>3. g \in Nat /\ r \in Nat /\ r < W /\ g = W * t + r
        BY <3>1, <3>2
      <3> HIDE DEF g, r
      <3>4. g % W = r
        BY <1>1, <3>2, <3>3, DivisionUnique
      <3> QED  BY <3>4 DEF g, r
    <2>3. (IF l < c.Nl THEN 1 ELSE 0) = 0
      <3> HIDE DEF s, t, x, y, u, v, l
      <3> QED  BY <1>2, <1>3, <1>5, <2>2
    <2>4. (c.Nh + 0 + t) % W = (s + t) % W
      <3>1. ((s % W) + t) % W = (s + t) % W
        BY <1>3, <1>7
      <3>2. c.Nh \in Nat
        <4> HIDE DEF s
        <4> QED  BY <1>1, <1>2, <1>5, Division
      <3>3. c.Nh + 0 + t = (s % W) + t
        <4> HIDE DEF s, t
        <4> QED  BY <1>3, <1>5, <3>2
      <3> QED  BY <3>1, <3>3
    <2> QED  BY <2>1, <2>2, <2>3, <2>4
  <1>9. CASE ~(x + y < E)
    <2>1. LowCount(a + n) = 8 * (x + y - E) /\ HighCount(a + n) = (s + t + 1) % W
      <3> HIDE DEF s, t, x, y
      <3>1. a + n = E * (s + t + 1) + (x + y - E)
        <4> HIDE DEF u, v
        <4> QED  BY <1>1, <1>2, <1>3, <1>4
      <3>2. s + t + 1 \in Nat /\ x + y - E \in Nat /\ a + n \in Nat /\ x + y - E < E
        BY <1>1, <1>2, <1>3, <1>9
      <3> QED  BY <3>1, <3>2, Counted
    <2>2. l = 8 * (x + y - E)
      <3> HIDE DEF s, t, x, y, u, v
      <3>1. c.Nl + 8 * n = W * (t + 1) + 8 * (x + y - E)
        BY SMTT(30), <1>1, <1>2, <1>3, <1>4, <1>5, <1>6
      <3>2. /\ c.Nl + 8 * n \in Nat /\ 8 * (x + y - E) \in Nat /\ 8 * (x + y - E) < W
            /\ t + 1 \in Nat
        BY <1>1, <1>2, <1>3, <1>4, <1>5, <1>9
      <3> QED  BY <1>1, <3>1, <3>2, DivisionUnique
    <2>3. (IF l < c.Nl THEN 1 ELSE 0) = 1
      <3> HIDE DEF s, t, x, y, u, v, l
      <3> QED  BY <1>1, <1>2, <1>3, <1>5, <2>2
    <2>4. (c.Nh + 1 + t) % W = (s + t + 1) % W
      <3>1. ((s % W) + (1 + t)) % W = (s + (1 + t)) % W
        <4> HIDE DEF s, t
        <4>1. 1 + t \in Nat
          BY <1>3
        <4> QED  BY <1>7, <4>1
      <3>2. c.Nh \in Nat
        <4> HIDE DEF s
        <4> QED  BY <1>1, <1>2, <1>5, Division
      <3>3. c.Nh + 1 + t = (s % W) + (1 + t) /\ s + t + 1 = s + (1 + t)
        <4> HIDE DEF s, t
        <4> QED  BY <1>2, <1>3, <1>5, <3>2
      <3> QED  BY <3>1, <3>3
    <2> QED  BY <2>1, <2>2, <2>3, <2>4
  <1> QED  BY <1>8, <1>9
----------------------------------------------------------------------------
(* A record with the fields of an SHA256_CTX. *)
IsContext(c) == c = [h |-> c.h, Nl |-> c.Nl, Nh |-> c.Nh, num |-> c.num, data |-> c.data]

(* The buffer holds what is left over when it does so byte by byte. *)
LEMMA Buffered ==
    ASSUME NEW S, NEW m \in Seq(S), NEW data
    PROVE  SubSeq(data, 1, Len(m) % CBlock) = LeftOver(m)
             <=> \A j \in 1 .. Len(m) % CBlock : data[j] = LeftOver(m)[j]
  <1> DEFINE r == Len(m) % CBlock
             v == LeftOver(m)
             u == SubSeq(data, 1, r)
  <1>1. r \in Nat
    BY Sizes, Division
  <1>2. v \in Seq(S) /\ Len(v) = r
    BY Cut
  <1> HIDE DEF r, v
  <1>3. ASSUME NEW T, \A j \in 1 .. r : data[j] \in T
        PROVE  u \in Seq(T) /\ Len(u) = r /\ \A j \in 1 .. r : u[j] = data[j]
    <2>1. 1 \in Int /\ r \in Int /\ r - 1 + 1 = r
      BY <1>1
    <2>2. /\ SubSeq(data, 1, r) \in Seq(T)
          /\ Len(SubSeq(data, 1, r)) = IF 1 <= r THEN r - 1 + 1 ELSE 0
          /\ \A i \in 1 .. r - 1 + 1 : SubSeq(data, 1, r)[i] = data[1 + i - 1]
      BY <1>3, <2>1, SubSeqProperties
    <2>3. Len(SubSeq(data, 1, r)) = r
      BY <1>1, <2>1, <2>2
    <2>4. \A i \in 1 .. r : SubSeq(data, 1, r)[i] = data[i]
      <3> TAKE i \in 1 .. r
      <3>1. 1 + i - 1 = i
        BY <1>1
      <3> QED  BY <2>1, <2>2, <3>1
    <2> QED  BY <2>2, <2>3, <2>4
  <1>4. ASSUME u = v PROVE \A j \in 1 .. r : data[j] = v[j]
    <2> DEFINE T == {data[j] : j \in 1 .. r}
    <2>1. \A j \in 1 .. r : data[j] \in T
      OBVIOUS
    <2> HIDE DEF T
    <2>2. \A j \in 1 .. r : u[j] = data[j]
      BY <1>3, <2>1
    <2> HIDE DEF u
    <2> QED  BY <1>4, <2>2
  <1>5. ASSUME \A j \in 1 .. r : data[j] = v[j] PROVE u = v
    <2>1. \A j \in 1 .. r : data[j] \in S
      BY <1>1, <1>2, <1>5
    <2>2. u \in Seq(S) /\ Len(u) = r /\ \A j \in 1 .. r : u[j] = data[j]
      BY <1>3, <2>1
    <2> HIDE DEF u
    <2> QED  BY <1>2, <1>5, <2>2, SeqEqual
  <1> QED  BY <1>4, <1>5 DEF r, v

(* The loop of SHA256_Update, behind a whole number of blocks. *)
LEMMA Absorbed ==
    ASSUME NEW S, NEW m \in Seq(S), NEW p \in Seq(S), Len(m) % CBlock = 0,
           NEW c, IsContext(c), c.h = WholeBlocks(m)
    PROVE  /\ IsContext(Absorb(c, p))
           /\ Absorb(c, p).h = WholeBlocks(m \o p)
           /\ Absorb(c, p).num = Len(m \o p) % CBlock
           /\ SubSeq(Absorb(c, p).data, 1, Absorb(c, p).num) = LeftOver(m \o p)
           /\ Absorb(c, p).Nl = c.Nl /\ Absorb(c, p).Nh = c.Nh
  <1> DEFINE e == Absorb(c, p)
             v == LeftOver(p)
             r == Len(p) % CBlock
  <1>1. /\ e.h = WholeBlocks(m) \o WholeBlocks(p) /\ e.num = Len(v)
        /\ e.data = Write(c.data, 0, v) /\ e.Nl = c.Nl /\ e.Nh = c.Nh
        /\ IsContext(e)
    <2> DEFINE w == WholeBlocks(p)
               x == c.h \o w
               y == Write(c.data, 0, v)
    <2>1. e = [c EXCEPT !.h = x, !.num = Len(v), !.data = y]
      BY DEF Absorb
    <2>2. x = WholeBlocks(m) \o w
      OBVIOUS
    <2>3. IsContext(c)
      OBVIOUS
    <2> HIDE DEF e, v, w, x, y
    <2>4. /\ e.h = x /\ e.num = Len(v) /\ e.data = y /\ e.Nl = c.Nl /\ e.Nh = c.Nh
          /\ IsContext(e)
      BY ONLY <2>1, <2>3 DEF IsContext
    <2> QED  BY <2>2, <2>4 DEF w, y
  <1>2. /\ Len(m \o p) % CBlock = r
        /\ WholeBlocks(m \o p) = WholeBlocks(m) \o WholeBlocks(p)
        /\ LeftOver(m \o p) = v
    BY AlignedPiece
  <1>3. v \in Seq(S) /\ Len(v) = r /\ r \in Nat /\ r < CBlock /\ CBlock \in Nat
    BY Cut, Remainder
  <1>4. \A j \in 1 .. r : e.data[j] = v[j]
    <2> HIDE DEF e, v, r
    <2> TAKE j \in 1 .. r
    <2>1. j \in 1 .. CBlock /\ 0 < j /\ j <= 0 + Len(v) /\ j - 0 = j
      BY <1>3
    <2> QED  BY <1>1, <2>1 DEF Write
  <1>5. SubSeq(e.data, 1, r) = v
    BY <1>4, Buffered
  <1> HIDE DEF e, v, r
  <1> QED  BY <1>1, <1>2, <1>3, <1>5 DEF e, v

(* A sequence is its first f elements and the rest. *)
LEMMA SplitAt ==
    ASSUME NEW S, NEW d \in Seq(S), NEW f \in 0 .. Len(d)
    PROVE  /\ SubSeq(d, 1, f) \in Seq(S) /\ SubSeq(d, f + 1, Len(d)) \in Seq(S)
           /\ Len(SubSeq(d, 1, f)) = f /\ Len(SubSeq(d, f + 1, Len(d))) = Len(d) - f
           /\ d = SubSeq(d, 1, f) \o SubSeq(d, f + 1, Len(d))
  <1> DEFINE x == SubSeq(d, 1, f)
             y == SubSeq(d, f + 1, Len(d))
             n == Len(d)
  <1>0. n \in Nat /\ f \in Nat /\ f <= n /\ \A k \in 1 .. n : d[k] \in S
    OBVIOUS
  <1>1. x \in Seq(S) /\ Len(x) = f /\ \A i \in 1 .. f : x[i] = d[i]
    <2> HIDE DEF n
    <2>1. 1 \in Int /\ f \in Int /\ \A k \in 1 .. f : d[k] \in S
      BY ONLY <1>0
    <2>2. /\ x \in Seq(S) /\ Len(x) = IF 1 <= f THEN f - 1 + 1 ELSE 0
          /\ \A i \in 1 .. f - 1 + 1 : x[i] = d[1 + i - 1]
      BY ONLY <2>1, SubSeqProperties
    <2> HIDE DEF x
    <2>3. \A i \in 1 .. f : i \in 1 .. f - 1 + 1 /\ 1 + i - 1 = i
      BY ONLY <1>0
    <2>4. Len(x) = f
      BY ONLY <1>0, <2>2
    <2> QED  BY ONLY <2>2, <2>3, <2>4
  <1>2. y \in Seq(S) /\ Len(y) = Len(d) - f /\ \A i \in 1 .. Len(d) - f : y[i] = d[f + i]
    <2>0. Len(d) = n
      OBVIOUS
    <2> DEFINE g == f + 1
    <2>a. y = SubSeq(d, g, n)
      OBVIOUS
    <2> HIDE DEF n, y
    <2>1. g \in Int /\ n \in Int /\ \A k \in g .. n : d[k] \in S
      BY ONLY <1>0
    <2>b. g = f + 1
      OBVIOUS
    <2> HIDE DEF g
    <2>2. /\ y \in Seq(S) /\ Len(y) = IF g <= n THEN n - g + 1 ELSE 0
          /\ \A i \in 1 .. n - g + 1 : y[i] = d[g + i - 1]
      BY ONLY <2>1, <2>a, SubSeqProperties
    <2>3. \A i \in 1 .. n - f : i \in 1 .. n - g + 1 /\ g + i - 1 = f + i
      BY ONLY <1>0, <2>b
    <2>4. Len(y) = n - f
      BY ONLY <1>0, <2>2, <2>b
    <2> QED  BY ONLY <2>0, <2>2, <2>3, <2>4
  <1> HIDE DEF x, y
  <1>3. /\ x \o y \in Seq(S) /\ Len(x \o y) = Len(d)
        /\ \A i \in 1 .. Len(d) : (x \o y)[i] = IF i <= f THEN x[i] ELSE y[i - f]
    <2>0. Len(d) = n
      BY DEF n
    <2> HIDE DEF n
    <2>1. /\ x \o y \in Seq(S) /\ Len(x \o y) = Len(x) + Len(y)
          /\ \A i \in 1 .. Len(x) + Len(y) : (x \o y)[i] = IF i <= Len(x) THEN x[i] ELSE y[i - Len(x)]
      BY ONLY <1>1, <1>2, ConcatProperties
    <2>2. Len(x) = f /\ Len(y) = n - f /\ Len(x) + Len(y) = n
      BY ONLY <1>0, <1>1, <1>2, <2>0
    <2> QED  BY ONLY <2>0, <2>1, <2>2
  <1>4. \A i \in 1 .. Len(d) : (x \o y)[i] = d[i]
    BY <1>1, <1>2, <1>3
  <1>5. d = x \o y
    BY <1>3, <1>4, SeqEqual
  <1> QED  BY <1>1, <1>2, <1>5 DEF x, y

(* SHA256_Update takes in just the bytes it is given, wherever the pieces
   before have left the buffer. *)
LEMMA UpdateHolds ==
    ASSUME NEW S, NEW m \in Seq(S), NEW d \in Seq(S), NEW c, IsContext(c), Holds(c, m)
    PROVE  IsContext(SHA256_Update(c, d)) /\ Holds(SHA256_Update(c, d), m \o d)
  <1> DEFINE e == SHA256_addlength(c, Len(d))
             r == Len(m) % CBlock
             f == CBlock - r
             u == SHA256_Update(c, d)
             v == LeftOver(m)
  <1>1. /\ IsContext(e) /\ e.h = WholeBlocks(m) /\ e.num = r /\ e.data = c.data
        /\ e.Nl = LowCount(Len(m \o d)) /\ e.Nh = HighCount(Len(m \o d))
    <2>1. /\ c.Nl = LowCount(Len(m)) /\ c.Nh = HighCount(Len(m))
          /\ Len(m) \in Nat /\ Len(d) \in Nat /\ Len(m \o d) = Len(m) + Len(d)
      BY ConcatProperties DEF Holds, LowCount, HighCount
    <2> DEFINE l == (c.Nl + 8 * Len(d)) % WordMod
               x == (c.Nh + (IF l < c.Nl THEN 1 ELSE 0) + Len(d) \div EighthWord) % WordMod
    <2>2. l = LowCount(Len(m) + Len(d)) /\ x = HighCount(Len(m) + Len(d))
      BY <2>1, LengthAdded
    <2>3. e = [c EXCEPT !.Nl = l, !.Nh = x]
      BY DEF SHA256_addlength
    <2> HIDE DEF l, x, e
    <2> QED  BY <2>1, <2>2, <2>3 DEF Holds, IsContext
  <1>2. SubSeq(e.data, 1, r) = v
    BY <1>1 DEF Holds
  <1>3. \A j \in 1 .. r : e.data[j] = v[j]
    BY <1>2, Buffered
  <1>4. u = IF r = 0 THEN Absorb(e, d)
            ELSE IF Len(d) < f
            THEN [e EXCEPT !.data = Write(e.data, r, d), !.num = r + Len(d)]
            ELSE Absorb([Compress(e, Write(e.data, r, SubSeq(d, 1, f))) EXCEPT !.data = Zeros], SubSeq(d, f + 1, Len(d)))
    <2> HIDE DEF e, r
    <2> QED  BY <1>1 DEF SHA256_Update, IsContext, e
  <1>5. /\ CBlock \in Nat /\ 0 < CBlock /\ r \in Nat /\ r < CBlock
        /\ Len(d) \in Nat /\ f \in Nat /\ r + f = CBlock /\ 0 < f
    <2>1. Len(d) \in Nat /\ r \in Nat /\ r < CBlock /\ CBlock \in Nat
      BY Remainder
    <2> HIDE DEF r
    <2> QED  BY <2>1
  <1>6. v \in Seq(S) /\ Len(v) = r
    BY Cut
  <1> HIDE DEF e, f, v
  <1>7. CASE r = 0
    <2>1. u = Absorb(e, d)
      BY <1>4, <1>7
    <2>2. Len(m) % CBlock = 0
      BY <1>7
    <2> HIDE DEF u, r
    <2>3. /\ IsContext(u) /\ u.h = WholeBlocks(m \o d) /\ u.num = Len(m \o d) % CBlock
          /\ SubSeq(u.data, 1, u.num) = LeftOver(m \o d)
          /\ u.Nl = e.Nl /\ u.Nh = e.Nh
      BY <1>1, <2>1, <2>2, Absorbed
    <2>4. IsContext(u) /\ Holds(u, m \o d)
      BY <1>1, <2>3 DEF Holds, LowCount, HighCount
    <2> QED  BY <2>4 DEF u
  <1>8. CASE r # 0 /\ Len(d) < f
    <2> DEFINE w == Write(e.data, r, d)
    <2>1. u = [e EXCEPT !.data = w, !.num = r + Len(d)]
      BY <1>4, <1>8
    <2>2. /\ Len(m \o d) % CBlock = r + Len(d)
          /\ WholeBlocks(m \o d) = WholeBlocks(m)
          /\ LeftOver(m \o d) = v \o d
      <3>1. r + Len(d) < CBlock
        <4> HIDE DEF r
        <4> QED  BY <1>5, <1>8
      <3> QED  BY <3>1, ShortPiece DEF v
    <2>3. u.num = r + Len(d) /\ u.data = w /\ u.h = e.h /\ u.Nl = e.Nl /\ u.Nh = e.Nh /\ IsContext(u)
      <3> HIDE DEF u, w, r
      <3> QED  BY <1>1, <2>1 DEF IsContext
    <2>4. \A j \in 1 .. r + Len(d) : w[j] = (v \o d)[j]
      <3>1. \A j \in 1 .. r + Len(d) : (v \o d)[j] = IF j <= r THEN v[j] ELSE d[j - r]
        <4> HIDE DEF r
        <4> QED  BY <1>6, ConcatProperties
      <3> HIDE DEF r
      <3> TAKE j \in 1 .. r + Len(d)
      <3>2. j \in 1 .. CBlock
        BY <1>5, <1>8
      <3>3. w[j] = IF r < j /\ j <= r + Len(d) THEN d[j - r] ELSE e.data[j]
        BY <3>2 DEF Write
      <3> HIDE DEF w
      <3>4. CASE j <= r
        <4>1. ~(r < j) /\ j \in 1 .. r
          BY <1>5, <3>4
        <4> QED  BY <1>3, <3>1, <3>3, <3>4, <4>1
      <3>5. CASE ~(j <= r)
        <4>1. r < j /\ j <= r + Len(d)
          BY <1>5, <3>5
        <4> QED  BY <3>1, <3>3, <3>5, <4>1
      <3> QED  BY <3>4, <3>5
    <2>5. SubSeq(u.data, 1, u.num) = LeftOver(m \o d)
      <3> DEFINE n == m \o d
      <3>1. n \in Seq(S)
        BY ConcatProperties
      <3>2. \A j \in 1 .. Len(n) % CBlock : w[j] = LeftOver(n)[j]
        BY <2>2, <2>4
      <3> HIDE DEF n, w, u
      <3>3. SubSeq(w, 1, Len(n) % CBlock) = LeftOver(n)
        BY <3>1, <3>2, Buffered
      <3> QED  BY <2>2, <2>3, <3>3 DEF n
    <2> HIDE DEF u, w, r
    <2>6. IsContext(u) /\ Holds(u, m \o d)
      BY <1>1, <2>2, <2>3, <2>5 DEF Holds, LowCount, HighCount
    <2> QED  BY <2>6 DEF u
  <1>9. CASE r # 0 /\ ~(Len(d) < f)
    <2> DEFINE x == SubSeq(d, 1, f)
               y == SubSeq(d, f + 1, Len(d))
               w == Write(e.data, r, x)
               g == [Compress(e, w) EXCEPT !.data = Zeros]
    <2>1. u = Absorb(g, y)
      <3> HIDE DEF u, r
      <3> QED  BY <1>4, <1>9
    <2>2. x \in Seq(S) /\ y \in Seq(S) /\ Len(x) = f /\ d = x \o y
      <3>1. f \in 0 .. Len(d)
        BY <1>5, <1>9
      <3> QED  BY ZenonT(60), <3>1, SplitAt
    <2>3. Len(m \o x) % CBlock = 0 /\ WholeBlocks(m \o x) = Append(WholeBlocks(m), v \o x)
      <3>1. r + Len(x) = CBlock
        <4> HIDE DEF x, r
        <4> QED  BY <1>5, <2>2
      <3> HIDE DEF x
      <3> QED  BY <2>2, <3>1, FillingPiece DEF v
    <2>4. w = v \o x
      <3> HIDE DEF x, r
      <3>1. /\ v \o x \in Seq(S) /\ Len(v \o x) = CBlock
            /\ \A j \in 1 .. CBlock : (v \o x)[j] = IF j <= r THEN v[j] ELSE x[j - r]
        BY ZenonT(60), <1>5, <1>6, <2>2, ConcatProperties
      <3>2. v \o x = [j \in 1 .. CBlock |-> (v \o x)[j]]
        BY <3>1, LenProperties
      <3>3. \A j \in 1 .. CBlock : (IF r < j /\ j <= r + Len(x) THEN x[j - r] ELSE e.data[j]) = (v \o x)[j]
        <4> TAKE j \in 1 .. CBlock
        <4>1. CASE j <= r
          <5>1. ~(r < j) /\ j \in 1 .. r
            BY <1>5, <4>1
          <5> QED  BY <1>3, <3>1, <4>1, <5>1
        <4>2. CASE ~(j <= r)
          <5>1. r < j /\ j <= r + Len(x)
            BY <1>5, <2>2, <4>2
          <5> QED  BY <3>1, <4>2, <5>1
        <4> QED  BY <4>1, <4>2
      <3> QED  BY <3>2, <3>3 DEF Write
    <2>5. g.h = WholeBlocks(m \o x) /\ g.Nl = e.Nl /\ g.Nh = e.Nh /\ IsContext(g)
      <3> HIDE DEF x, w
      <3>1. g = [e EXCEPT !.h = Append(e.h, w), !.data = Zeros]
        BY <1>1 DEF Compress, IsContext
      <3> HIDE DEF g
      <3>2. g.h = Append(e.h, w) /\ g.Nl = e.Nl /\ g.Nh = e.Nh /\ IsContext(g)
        BY <1>1, <3>1 DEF IsContext
      <3> QED  BY <1>1, <2>3, <2>4, <3>2
    <2> HIDE DEF u, r, w, g, x, y
    <2>6. m \o x \in Seq(S) /\ (m \o x) \o y = m \o d
      BY <2>2, ConcatProperties, ConcatAssociative
    <2>7. /\ IsContext(u) /\ u.h = WholeBlocks(m \o d) /\ u.num = Len(m \o d) % CBlock
          /\ SubSeq(u.data, 1, u.num) = LeftOver(m \o d)
          /\ u.Nl = g.Nl /\ u.Nh = g.Nh
      <3> DEFINE n == m \o x
      <3>1. n \in Seq(S) /\ Len(n) % CBlock = 0 /\ g.h = WholeBlocks(n) /\ n \o y = m \o d
        BY <2>3, <2>5, <2>6
      <3> HIDE DEF n
      <3>a. y \in Seq(S) /\ IsContext(g)
        BY <2>2, <2>5
      <3>b. LET a == Absorb(g, y)
            IN  /\ IsContext(a) /\ a.h = WholeBlocks(n \o y) /\ a.num = Len(n \o y) % CBlock
                /\ SubSeq(a.data, 1, a.num) = LeftOver(n \o y)
                /\ a.Nl = g.Nl /\ a.Nh = g.Nh
        <4>1. n \in Seq(S) /\ Len(n) % CBlock = 0 /\ g.h = WholeBlocks(n)
          BY <3>1
        <4> QED  BY ONLY <3>a, <4>1, Absorbed
      <3>2. /\ IsContext(u) /\ u.h = WholeBlocks(n \o y) /\ u.num = Len(n \o y) % CBlock
            /\ SubSeq(u.data, 1, u.num) = LeftOver(n \o y)
            /\ u.Nl = g.Nl /\ u.Nh = g.Nh
        BY <2>1, <3>b
      <3> QED  BY <3>1, <3>2
    <2>8. IsContext(u) /\ Holds(u, m \o d)
      BY <1>1, <2>5, <2>7 DEF Holds, LowCount, HighCount
    <2> QED  BY <2>8 DEF u
  <1> QED  BY <1>7, <1>8, <1>9
----------------------------------------------------------------------------
(* The zeros of the padding end where the length begins, in the last block or
   in one more. *)
LEMMA PaddingLength ==
    ASSUME NEW n \in Nat
    PROVE  /\ Padding(n) \in Nat
           /\ (n % CBlock) + 1 <= Room => 1 + Padding(n) = Room - (n % CBlock)
           /\ (n % CBlock) + 1 > Room => 1 + Padding(n) = Room + CBlock - (n % CBlock)
  <1> DEFINE C == CBlock
             q == n \div C
             r == n % C
             l == 2 * WordBytes
             b == C * q
             x == (n + 1 + l) % C
  <1>1. /\ C \in Nat /\ 0 < C /\ l \in Nat /\ 0 < l /\ l < C /\ Room = C - l
    BY Sizes
  <1>2. q \in Nat /\ r \in Nat /\ r < C /\ n = b + r /\ b \in Nat /\ C * (q + 1) = b + C
    <2>1. q \in Nat /\ r \in Nat /\ r < C /\ n = b + r
      BY <1>1, Division
    <2> HIDE DEF q, r
    <2> QED  BY <1>1, <2>1
  <1>3. Padding(n) = (C - x) % C
    BY DEF Padding
  <1> HIDE DEF C, q, r, l, x
  <1>4. \A k \in Nat : k < C => k % C = k
    <2> TAKE k \in Nat
    <2> HAVE k < C
    <2>1. 0 \in Nat /\ k = C * 0 + k
      BY <1>1
    <2> QED  BY <1>1, <2>1, DivisionUnique
  <1>5. C % C = 0
    <2>1. 0 \in Nat /\ 1 \in Nat /\ C = C * 1 + 0
      BY <1>1
    <2> QED  BY <1>1, <2>1, DivisionUnique
  <1>6. ASSUME r + 1 + l < C
        PROVE  Padding(n) = C - (r + 1 + l)
    <2>1. x = r + 1 + l
      <3>1. r + 1 + l \in Nat /\ n + 1 + l \in Nat /\ n + 1 + l = b + (r + 1 + l)
        <4> HIDE DEF b
        <4> QED  BY <1>1, <1>2
      <3> QED  BY <1>1, <1>2, <1>6, <3>1, DivisionUnique DEF x
    <2>2. C - x \in Nat /\ C - x < C
      BY <1>1, <1>2, <1>6, <2>1
    <2> QED  BY <1>3, <1>4, <2>1, <2>2
  <1>7. ASSUME r + 1 + l = C
        PROVE  Padding(n) = 0
    <2>1. x = 0
      <3>1. n + 1 + l \in Nat /\ n + 1 + l = C * (q + 1) + 0 /\ q + 1 \in Nat
        <4> DEFINE d == C * (q + 1)
        <4>1. d = b + C
          BY <1>2
        <4> HIDE DEF b, d
        <4>2. n + 1 + l = d + 0 /\ n + 1 + l \in Nat /\ q + 1 \in Nat
          BY <1>1, <1>2, <1>7, <4>1
        <4> QED  BY <4>2 DEF d
      <3> QED  BY <1>1, <3>1, DivisionUnique DEF x
    <2>2. C - x = C
      BY <1>1, <2>1
    <2> QED  BY <1>3, <1>5, <2>2
  <1>8. ASSUME r + 1 + l > C
        PROVE  Padding(n) = C + C - (r + 1 + l)
    <2>1. x = r + 1 + l - C
      <3>1. /\ n + 1 + l \in Nat /\ n + 1 + l = C * (q + 1) + (r + 1 + l - C) /\ q + 1 \in Nat
            /\ r + 1 + l - C \in Nat /\ r + 1 + l - C < C
        <4> DEFINE d == C * (q + 1)
        <4>1. d = b + C
          BY <1>2
        <4> HIDE DEF b, d
        <4>2. n + 1 + l = d + (r + 1 + l - C) /\ n + 1 + l \in Nat /\ q + 1 \in Nat
          BY <1>1, <1>2, <1>8, <4>1
        <4>3. r + 1 + l - C \in Nat /\ r + 1 + l - C < C
          BY <1>1, <1>2, <1>8
        <4> QED  BY <4>2, <4>3 DEF d
      <3> QED  BY SMTT(30), <1>1, <3>1, DivisionUnique DEF x
    <2>2. C - x \in Nat /\ C - x < C /\ C - x = C + C - (r + 1 + l)
      BY <1>1, <1>2, <1>8, <2>1
    <2> QED  BY <1>3, <1>4, <2>2
  <1>9. (r + 1 <= Room <=> r + 1 + l <= C) /\ (r + 1 > Room <=> r + 1 + l > C)
    BY <1>1, <1>2
  <1>10. r + 1 + l <= C => Padding(n) \in Nat /\ 1 + Padding(n) = Room - r
    BY <1>1, <1>2, <1>6, <1>7
  <1>11. r + 1 + l > C => Padding(n) \in Nat /\ 1 + Padding(n) = Room + C - r
    BY <1>1, <1>2, <1>8
  <1>12. r + 1 + l <= C \/ r + 1 + l > C
    BY <1>1, <1>2
  <1> QED  BY <1>9, <1>10, <1>11, <1>12 DEF r, C

(* What padding puts behind a message. *)
LengthBytes(n) == WordAsBytes(HighCount(n)) \o WordAsBytes(LowCount(n))
Trailer(n)     == (<<Marker>> \o [i \in 1 .. Padding(n) |-> Zero]) \o LengthBytes(n)

(* Whatever the bytes of the message are, there is a set that holds them and
   those of the padding. *)
LEMMA TrailerIs ==
    ASSUME NEW S, NEW m \in Seq(S)
    PROVE  \E T : LET n == Len(m)
                      t == Trailer(n)
                  IN  /\ m \in Seq(T) /\ t \in Seq(T) /\ LengthBytes(n) \in Seq(T)
                      /\ Padded(m) = m \o t
                      /\ Len(LengthBytes(n)) = 2 * WordBytes
                      /\ Len(t) = 1 + Padding(n) + 2 * WordBytes
                      /\ \A k \in 1 .. Len(t) :
                            t[k] = IF k = 1 THEN Marker ELSE IF k <= 1 + Padding(n) THEN Zero
                                   ELSE LengthBytes(n)[k - (1 + Padding(n))]
  <1> DEFINE n == Len(m)
             p == Padding(n)
             a == WordAsBytes(HighCount(n))
             b == WordAsBytes(LowCount(n))
             l == LengthBytes(n)
             t == Trailer(n)
             z == [i \in 1 .. p |-> Zero]
             T == S \cup {Marker, Zero} \cup {a[i] : i \in 1 .. WordBytes} \cup {b[i] : i \in 1 .. WordBytes}
  <1>1. n \in Nat /\ p \in Nat /\ WordBytes \in Nat
    BY PaddingLength, Sizes
  <1>2. a \in Seq(T) /\ b \in Seq(T) /\ Len(a) = WordBytes /\ Len(b) = WordBytes
    <2>1. a \in [1 .. WordBytes -> T] /\ b \in [1 .. WordBytes -> T]
      BY DEF WordAsBytes
    <2> HIDE DEF a, b, T
    <2> QED  BY <1>1, <2>1
  <1>3. m \in Seq(T) /\ Marker \in T /\ Zero \in T
    <2>1. S \subseteq T /\ Marker \in T /\ Zero \in T
      OBVIOUS
    <2> HIDE DEF T
    <2> QED  BY <2>1, SeqMonotonic
  <1> HIDE DEF T, a, b, p
  <1>4. z \in Seq(T) /\ Len(z) = p /\ \A i \in 1 .. p : z[i] = Zero
    <2>1. z \in [1 .. p -> T]
      BY <1>3
    <2> QED  BY <1>1, <2>1
  <1>5. <<Marker>> \in Seq(T) /\ Len(<<Marker>>) = 1 /\ <<Marker>>[1] = Marker
    BY <1>3
  <1> DEFINE e == <<Marker>>
             y == e \o z
  <1>6. t = y \o l /\ l = a \o b
    BY DEF Trailer, LengthBytes, a, b, p
  <1> HIDE DEF l, t, z, e
  <1>7. l \in Seq(T) /\ Len(l) = 2 * WordBytes
    <2> HIDE DEF y
    <2>1. a \o b \in Seq(T) /\ Len(a \o b) = Len(a) + Len(b)
      BY <1>2, ConcatProperties
    <2> QED  BY <1>1, <1>2, <1>6, <2>1
  <1>8. /\ y \in Seq(T) /\ Len(y) = 1 + p
        /\ \A i \in 1 .. 1 + p : y[i] = IF i <= 1 THEN e[i] ELSE z[i - 1]
    BY <1>1, <1>4, <1>5, ConcatProperties DEF e
  <1>9. \A i \in 1 .. 1 + p : y[i] = IF i = 1 THEN Marker ELSE Zero
    <2> HIDE DEF y
    <2> TAKE i \in 1 .. 1 + p
    <2>1. CASE i = 1
      BY <1>1, <1>5, <1>8, <2>1 DEF e
    <2>2. CASE i # 1
      <3>1. ~(i <= 1) /\ i - 1 \in 1 .. p
        BY <1>1, <2>2
      <3> QED  BY <1>4, <1>8, <2>2, <3>1
    <2> QED  BY <2>1, <2>2
  <1>10. /\ t \in Seq(T) /\ Len(t) = 1 + p + 2 * WordBytes
         /\ \A k \in 1 .. Len(t) : t[k] = IF k <= 1 + p THEN y[k] ELSE l[k - (1 + p)]
    <2> HIDE DEF y
    <2>1. Len(y) + Len(l) = 1 + p + 2 * WordBytes
      BY <1>1, <1>7, <1>8
    <2>2. /\ y \o l \in Seq(T) /\ Len(y \o l) = Len(y) + Len(l)
          /\ \A k \in 1 .. Len(y) + Len(l) : (y \o l)[k] = IF k <= Len(y) THEN y[k] ELSE l[k - Len(y)]
      BY <1>7, <1>8, ConcatProperties
    <2> QED  BY <1>6, <1>8, <2>1, <2>2
  <1>11. \A k \in 1 .. Len(t) : t[k] = IF k = 1 THEN Marker ELSE IF k <= 1 + p THEN Zero ELSE l[k - (1 + p)]
    <2> HIDE DEF y
    <2> TAKE k \in 1 .. Len(t)
    <2>1. CASE k <= 1 + p
      <3>1. k \in 1 .. 1 + p
        BY <1>1, <1>10, <2>1
      <3> QED  BY <1>9, <1>10, <2>1, <3>1
    <2>2. CASE ~(k <= 1 + p)
      <3>1. k # 1
        BY <1>1, <2>2
      <3> QED  BY <1>10, <2>2, <3>1
    <2> QED  BY <2>1, <2>2
  <1>12. Padded(m) = m \o t
    <2>1. Padded(m) = (((m \o e) \o z) \o a) \o b
      BY DEF Padded, HighCount, LowCount, e, z, a, b, p
    <2>2. (m \o e) \o z = m \o y /\ m \o e \in Seq(T)
      BY <1>3, <1>4, <1>5, ConcatAssociative, ConcatProperties DEF e
    <2>3. m \o y \in Seq(T)
      BY <1>3, <1>8, ConcatProperties
    <2> HIDE DEF y
    <2>4. ((m \o y) \o a) \o b = (m \o y) \o (a \o b)
      <3> DEFINE g == m \o y
      <3>1. g \in Seq(T)
        BY <2>3
      <3> HIDE DEF g
      <3>2. (g \o a) \o b = g \o (a \o b)
        BY SMTT(30), <1>2, <3>1, ConcatAssociative
      <3> QED  BY <3>2 DEF g
    <2>5. (m \o y) \o l = m \o (y \o l)
      BY SMTT(30), <1>3, <1>7, <1>8, ConcatAssociative
    <2> QED  BY <1>6, <2>1, <2>2, <2>4, <2>5
  <1> QED  BY <1>3, <1>7, <1>10, <1>11, <1>12 DEF t, l, p

(* SHA256_Final compresses the rest of the padded message, in one block or in
   two, and so leaves the state of the whole of it. *)
LEMMA FinalHashes ==
    ASSUME NEW S, NEW m \in Seq(S), NEW c, IsContext(c), Holds(c, m)
    PROVE  /\ SHA256_Final(c).h = WholeBlocks(Padded(m))
           /\ Digest(SHA256_Final(c).h) = Hash(m)
           /\ IsContext(SHA256_Final(c))
  <1> DEFINE n == Len(m)
             l == LengthBytes(n)
             t == Trailer(n)
             p == Padding(n)
             r == n % CBlock
             v == LeftOver(m)
             z == 2 * WordBytes
  <1>1. PICK T : /\ m \in Seq(T) /\ t \in Seq(T) /\ l \in Seq(T)
                 /\ Padded(m) = m \o t /\ Len(l) = z /\ Len(t) = 1 + p + z
                 /\ \A k \in 1 .. Len(t) :
                       t[k] = IF k = 1 THEN Marker ELSE IF k <= 1 + p THEN Zero ELSE l[k - (1 + p)]
    BY TrailerIs
  <1>2. /\ CBlock \in Nat /\ 0 < CBlock /\ r \in Nat /\ r < CBlock /\ n \in Nat
        /\ z \in Nat /\ 0 < z /\ Room \in Nat /\ 0 < Room /\ Room + z = CBlock
    <2>1. CBlock \in Nat /\ 0 < CBlock /\ r \in Nat /\ r < CBlock /\ n \in Nat
      BY Remainder
    <2> HIDE DEF r, n
    <2> QED  BY <2>1, Sizes
  <1>3. p \in Nat /\ (r + 1 <= Room => 1 + p = Room - r) /\ (r + 1 > Room => 1 + p = Room + CBlock - r)
    BY <1>2, PaddingLength
  <1>4. /\ c.num = r /\ c.h = WholeBlocks(m)
        /\ c.Nl = LowCount(n) /\ c.Nh = HighCount(n)
    BY DEF Holds, LowCount, HighCount
  <1>5. v \in Seq(T) /\ Len(v) = r
    BY <1>1, Cut
  <1>6. \A j \in 1 .. r : c.data[j] = v[j]
    <2>1. SubSeq(c.data, 1, r) = v
      BY <1>4 DEF Holds
    <2> QED  BY <2>1, Buffered
  <1> DEFINE marked == [i \in 1 .. CBlock |-> IF i <= r THEN c.data[i] ELSE IF i = r + 1 THEN Marker ELSE Zero]
             closed == IF r + 1 > Room
                       THEN Compress(Compress(c, marked), Write(Zeros, Room, l))
                       ELSE Compress(c, Write(marked, Room, l))
             f == SHA256_Final(c)
  <1>7. f = [closed EXCEPT !.num = 0, !.data = Zeros]
    <2>1. l = WordAsBytes(c.Nh) \o WordAsBytes(c.Nl)
      BY <1>4 DEF LengthBytes
    <2> HIDE DEF l, r, n
    <2> QED  BY <1>4, <2>1 DEF SHA256_Final
  <1> HIDE DEF n, l, t, p, r, v, z, f
  <1>8. CASE ~(r + 1 > Room)
    <2> DEFINE w == Write(marked, Room, l)
    <2>1. 1 + p = Room - r /\ r + Len(t) = CBlock
      BY <1>1, <1>2, <1>3, <1>8
    <2>2. WholeBlocks(m \o t) = Append(WholeBlocks(m), v \o t)
      BY <1>1, <2>1, FillingPiece DEF v, r, n
    <2>3. w = v \o t
      <3>1. /\ v \o t \in Seq(T) /\ Len(v \o t) = CBlock
            /\ \A j \in 1 .. CBlock : (v \o t)[j] = IF j <= r THEN v[j] ELSE t[j - r]
        BY ZenonT(60), <1>1, <1>5, <2>1, ConcatProperties
      <3>2. v \o t = [j \in 1 .. CBlock |-> (v \o t)[j]]
        BY <3>1, LenProperties
      <3>3. \A j \in 1 .. CBlock :
              (IF Room < j /\ j <= Room + Len(l) THEN l[j - Room] ELSE marked[j]) = (v \o t)[j]
        <4> TAKE j \in 1 .. CBlock
        <4>1. marked[j] = IF j <= r THEN c.data[j] ELSE IF j = r + 1 THEN Marker ELSE Zero
          OBVIOUS
        <4> HIDE DEF marked
        <4>2. CASE j <= r
          <5>1. ~(Room < j) /\ j \in 1 .. r
            BY <1>2, <1>8, <4>2
          <5> QED  BY <1>6, <3>1, <4>1, <4>2, <5>1
        <4>3. CASE ~(j <= r)
          <5> DEFINE k == j - r
          <5>1. k \in 1 .. Len(t) /\ (v \o t)[j] = t[k] /\ k + r = j
            BY <1>2, <2>1, <3>1, <4>3
          <5> HIDE DEF k
          <5>2. t[k] = IF k = 1 THEN Marker ELSE IF k <= 1 + p THEN Zero ELSE l[k - (1 + p)]
            BY <1>1, <5>1
          <5>3. CASE k <= 1 + p
            <6>1. ~(Room < j) /\ (k = 1 <=> j = r + 1)
              BY <1>2, <2>1, <5>1, <5>3
            <6> QED  BY <4>1, <4>3, <5>1, <5>2, <5>3, <6>1
          <5>4. CASE ~(k <= 1 + p)
            <6>1. Room < j /\ j <= Room + Len(l) /\ k - (1 + p) = j - Room /\ k # 1
              BY <1>1, <1>2, <1>3, <2>1, <5>1, <5>4
            <6> QED  BY <5>1, <5>2, <5>4, <6>1
          <5> QED  BY <5>3, <5>4
        <4> QED  BY <4>2, <4>3
      <3> HIDE DEF marked
      <3> QED  BY <3>2, <3>3 DEF Write
    <2> HIDE DEF marked, w
    <2>4. f = [[c EXCEPT !.h = Append(c.h, w)] EXCEPT !.num = 0, !.data = Zeros]
      BY <1>7, <1>8 DEF Compress, w
    <2>5. f.h = Append(c.h, w) /\ IsContext(f)
      BY <2>4 DEF IsContext
    <2> QED  BY <1>1, <1>4, <2>2, <2>3, <2>5 DEF Hash, f
  <1>9. CASE r + 1 > Room
    <2> DEFINE s == CBlock - r
               x == SubSeq(t, 1, s)
               y == SubSeq(t, s + 1, Len(t))
               w == Write(Zeros, Room, l)
    <2>1. 1 + p = Room + s /\ Len(t) = s + CBlock /\ s \in Nat /\ 0 < s /\ r + s = CBlock /\ s <= 1 + p
      BY <1>1, <1>2, <1>3, <1>9
    <2>2. /\ x \in Seq(T) /\ y \in Seq(T) /\ Len(x) = s /\ Len(y) = CBlock /\ t = x \o y
      <3> HIDE DEF s
      <3>1. s \in 0 .. Len(t) /\ Len(t) - s = CBlock
        BY <1>2, <2>1
      <3> QED  BY <1>1, <3>1, SplitAt
    <2>3. /\ \A k \in 1 .. s : x[k] = t[k]
          /\ \A k \in 1 .. CBlock : y[k] = t[s + k]
      <3> HIDE DEF x, y, s
      <3>1. \A k \in 1 .. s + CBlock : (x \o y)[k] = IF k <= s THEN x[k] ELSE y[k - s]
        BY <2>2, ConcatProperties
      <3>2. ASSUME NEW k \in 1 .. s PROVE x[k] = t[k]
        <4>1. k \in 1 .. s + CBlock /\ k <= s
          BY <1>2, <2>1
        <4> QED  BY <2>2, <3>1, <4>1
      <3>3. ASSUME NEW k \in 1 .. CBlock PROVE y[k] = t[s + k]
        <4>1. s + k \in 1 .. s + CBlock /\ ~(s + k <= s) /\ (s + k) - s = k
          BY <1>2, <2>1
        <4> QED  BY <2>2, <3>1, <4>1
      <3> QED  BY <3>2, <3>3
    <2> HIDE DEF x, y, s
    <2> DEFINE g == m \o x
    <2>4. /\ g \in Seq(T) /\ Len(g) % CBlock = 0
          /\ WholeBlocks(g) = Append(WholeBlocks(m), v \o x)
      <3>1. r + Len(x) = CBlock
        BY <2>1, <2>2
      <3> QED  BY <1>1, <2>2, <3>1, FillingPiece, ConcatProperties DEF v, r, n
    <2> HIDE DEF g
    <2>5. WholeBlocks(g \o y) = Append(WholeBlocks(g), y)
      <3>1. (Len(g) % CBlock) + Len(y) = CBlock
        <4> DEFINE e == Len(g) % CBlock
        <4>1. e = 0 /\ Len(y) = CBlock /\ CBlock \in Nat
          BY <1>2, <2>2, <2>4
        <4> HIDE DEF e
        <4>2. e + Len(y) = CBlock
          BY ONLY <4>1
        <4> QED  BY <4>2 DEF e
      <3>2. LeftOver(g) \o y = y
        BY <2>2, <2>4, NothingLeft, ConcatEmptySeq
      <3> QED  BY <2>2, <2>4, <3>1, <3>2, FillingPiece
    <2>6. g \o y = m \o t
      <3>1. (m \o x) \o y = m \o (x \o y)
        <4>1. m \in Seq(T) /\ x \in Seq(T) /\ y \in Seq(T)
          BY <1>1, <2>2
        <4> QED  BY ONLY SMTT(30), <4>1, ConcatAssociative
      <3> QED  BY <2>2, <3>1 DEF g
    <2>7. marked = v \o x
      <3>1. /\ v \o x \in Seq(T) /\ Len(v \o x) = CBlock
            /\ \A j \in 1 .. CBlock : (v \o x)[j] = IF j <= r THEN v[j] ELSE x[j - r]
        BY <1>5, <2>1, <2>2, ConcatProperties
      <3>2. v \o x = [j \in 1 .. CBlock |-> (v \o x)[j]]
        BY <3>1, LenProperties
      <3>3. \A j \in 1 .. CBlock :
              (IF j <= r THEN c.data[j] ELSE IF j = r + 1 THEN Marker ELSE Zero) = (v \o x)[j]
        <4> TAKE j \in 1 .. CBlock
        <4>1. CASE j <= r
          <5>1. j \in 1 .. r
            BY <1>2, <4>1
          <5> QED  BY <1>6, <3>1, <4>1, <5>1
        <4>2. CASE ~(j <= r)
          <5> DEFINE k == j - r
          <5>1. k \in 1 .. s /\ k \in 1 .. Len(t) /\ k <= 1 + p /\ (v \o x)[j] = x[k] /\ (k = 1 <=> j = r + 1)
            BY <1>2, <2>1, <3>1, <4>2
          <5> HIDE DEF k
          <5>2. x[k] = IF k = 1 THEN Marker ELSE Zero
            BY <1>1, <2>3, <5>1
          <5> QED  BY <4>2, <5>1, <5>2
        <4> QED  BY <4>1, <4>2
      <3> QED  BY <3>2, <3>3
    <2>8. w = y
      <3>1. y = [j \in 1 .. CBlock |-> y[j]]
        BY <2>2, LenProperties
      <3>2. \A j \in 1 .. CBlock : (IF Room < j /\ j <= Room + Len(l) THEN l[j - Room] ELSE Zero) = y[j]
        <4> TAKE j \in 1 .. CBlock
        <4> DEFINE k == s + j
        <4>1. k \in 1 .. Len(t) /\ y[j] = t[k] /\ k # 1
          <5>1. y[j] = t[k]
            BY <2>3
          <5>2. k \in 1 .. Len(t) /\ k # 1
            BY <1>2, <2>1
          <5> QED  BY <5>1, <5>2
        <4>2. k <= 1 + p <=> j <= Room
          BY <1>2, <2>1
        <4>3. k - (1 + p) = j - Room
          BY <1>2, <2>1
        <4> HIDE DEF k
        <4>4. t[k] = IF k <= 1 + p THEN Zero ELSE l[j - Room]
          BY <1>1, <4>1, <4>3
        <4>5. (Room < j /\ j <= Room + Len(l)) <=> ~(j <= Room)
          BY <1>1, <1>2
        <4> QED  BY <4>1, <4>2, <4>4, <4>5
      <3> QED  BY <3>1, <3>2 DEF Write, Zeros
    <2> HIDE DEF marked, w
    <2>9. f = [[[c EXCEPT !.h = Append(c.h, marked)] EXCEPT !.h = Append(@, w)] EXCEPT !.num = 0, !.data = Zeros]
      BY <1>7, <1>9 DEF Compress, w
    <2>10. f.h = Append(Append(c.h, marked), w) /\ IsContext(f)
      BY <2>9 DEF IsContext
    <2> QED  BY <1>1, <1>4, <2>4, <2>5, <2>6, <2>7, <2>8, <2>10 DEF Hash, f
  <1> QED  BY <1>8, <1>9
----------------------------------------------------------------------------
(* A context just initialised holds the empty message. *)
LEMMA InitHolds ==
    ASSUME NEW c, IsContext(c)
    PROVE  IsContext(SHA256_Init(c)) /\ Holds(SHA256_Init(c), << >>)
  <1> DEFINE e == SHA256_Init(c)
  <1>1. e.h = << >> /\ e.Nl = 0 /\ e.Nh = 0 /\ e.num = 0 /\ IsContext(e)
    <2>1. e = [c EXCEPT !.h = << >>, !.Nl = 0, !.Nh = 0, !.num = 0]
      BY DEF SHA256_Init
    <2> HIDE DEF e
    <2> QED  BY <2>1 DEF IsContext
  <1>2. << >> \in Seq({}) /\ Len(<< >>) = 0
    BY EmptySeq
  <1>3. \A k \in Nat : 0 < k => 0 \div k = 0 /\ 0 % k = 0
    <2> TAKE k \in Nat
    <2> HAVE 0 < k
    <2>1. 0 \in Nat /\ 0 = k * 0 + 0
      OBVIOUS
    <2> QED  BY <2>1, DivisionUnique
  <1>4. 0 \div CBlock = 0 /\ 0 % CBlock = 0 /\ 0 \div WordMod = 0 /\ 0 % WordMod = 0
    <2>1. 0 < CBlock /\ 0 < WordMod /\ CBlock \in Nat /\ WordMod \in Nat
      BY Sizes
    <2> QED  BY <1>3, <2>1
  <1>5. WholeBlocks(<< >>) = << >>
    <2>1. WholeBlocks(<< >>) \in Seq(Seq({})) /\ Len(WholeBlocks(<< >>)) = 0
      BY <1>2, <1>4, Cut
    <2> QED  BY <2>1, EmptySeq
  <1>6. SubSeq(e.data, 1, 0) = LeftOver(<< >>)
    <2>1. Len(<< >>) % CBlock = 0
      BY <1>2, <1>4
    <2>2. LeftOver(<< >>) = << >>
      BY <1>2, <2>1, NothingLeft
    <2>3. SubSeq(e.data, 1, 0) = << >>
      <3>1. 1 \in Int /\ 0 \in Int /\ 0 < 1
        OBVIOUS
      <3> HIDE DEF e
      <3> QED  BY <3>1, SubSeqEmpty
    <2> QED  BY <2>2, <2>3
  <1>7. 8 * 0 = 0
    OBVIOUS
  <1> HIDE DEF e
  <1>8. Holds(e, << >>)
    BY <1>1, <1>2, <1>4, <1>5, <1>6, <1>7 DEF Holds
  <1> QED  BY <1>1, <1>8 DEF e

(* UpdateHolds, for bytes of two kinds. *)
LEMMA PieceHolds ==
    ASSUME NEW S, NEW T, NEW m \in Seq(S), NEW d \in Seq(T), NEW c, IsContext(c), Holds(c, m)
    PROVE  IsContext(SHA256_Update(c, d)) /\ Holds(SHA256_Update(c, d), m \o d)
  <1> DEFINE U == S \cup T
  <1>1. m \in Seq(U) /\ d \in Seq(U)
    <2>1. S \subseteq U /\ T \subseteq U
      OBVIOUS
    <2> HIDE DEF U
    <2> QED  BY <2>1, SeqMonotonic
  <1> HIDE DEF U
  <1> QED  BY <1>1, UpdateHolds

(* A piece fed to a fresh context. *)
LEMMA FirstPieceHolds ==
    ASSUME NEW T, NEW d \in Seq(T), NEW c, IsContext(c)
    PROVE  LET e == SHA256_Update(SHA256_Init(c), d) IN IsContext(e) /\ Holds(e, d)
  <1> DEFINE a == SHA256_Init(c)
  <1>1. IsContext(a) /\ Holds(a, << >>)
    BY InitHolds
  <1>2. << >> \in Seq(T) /\ << >> \o d = d
    BY EmptySeq, ConcatEmptySeq
  <1> HIDE DEF a
  <1>3. IsContext(SHA256_Update(a, d)) /\ Holds(SHA256_Update(a, d), << >> \o d)
    BY <1>1, <1>2, UpdateHolds
  <1> QED  BY <1>2, <1>3 DEF a

(* Pads and digests are sequences. *)
LEMMA FixedSizes ==
    /\ \A pad, block : \E T : Xor(pad, block) \in Seq(T)
    /\ \A h : \E T : Digest(h) \in Seq(T)
  <1>1. ASSUME NEW pad, NEW block PROVE \E T : Xor(pad, block) \in Seq(T)
    <2> DEFINE T == {<<pad, block[i]>> : i \in 1 .. CBlock}
    <2>1. Xor(pad, block) \in [1 .. CBlock -> T]
      BY DEF Xor
    <2> HIDE DEF T
    <2>2. Xor(pad, block) \in Seq(T)
      BY <2>1, Sizes
    <2> QED  BY <2>2
  <1>2. ASSUME NEW h PROVE \E T : Digest(h) \in Seq(T)
    <2> DEFINE T == {<<"digest", h, i>> : i \in 1 .. DigestLength}
    <2>1. Digest(h) \in [1 .. DigestLength -> T]
      BY DEF Digest
    <2> HIDE DEF T
    <2>2. Digest(h) \in Seq(T)
      BY <2>1, Sizes
    <2> QED  BY <2>2
  <1> QED  BY <1>1, <1>2

(* A long key is hashed, a short one is not, as in RFC 2104. *)
LEMMA KeyPrepared ==
    ASSUME NEW T, NEW k \in Seq(T), NEW c, IsContext(c)
    PROVE  KeyBlock(c, k) = PaddedKey(k)
  <1> DEFINE e == SHA256_Update(SHA256_Init(c), k)
  <1>1. IsContext(e) /\ Holds(e, k)
    BY FirstPieceHolds
  <1> HIDE DEF e
  <1>2. Digest(SHA256_Final(e).h) = Hash(k)
    BY <1>1, FinalHashes
  <1> QED  BY <1>2 DEF KeyBlock, PaddedKey, e

----------------------------------------------------------------------------
(* The bytes Next lets come, as sets that TLC and the provers can both use. *)
KeyBytes == {"key"} \X Nat
MsgBytes == {"msg"} \X Nat \X Nat

(* Contexts are contexts, and the bytes are bytes. *)
HmacTypes ==
    /\ IsContext(md_ctx) /\ IsContext(i_ctx) /\ IsContext(o_ctx)
    /\ phase \in {"new", "feeding", "done"}
    /\ round \in Nat
    /\ key \in Seq(KeyBytes) /\ msg \in Seq(MsgBytes)

(* ContextHolds carries the induction; while the caller is "new" the contexts
   may hold anything, since SHA256_Init sets all of them but the buffer. *)
HmacInv == HmacTypes /\ ContextHolds /\ DigestRight

(* The invariant holds at first: nothing is claimed of an unkeyed context. *)
LEMMA HmacInit == Init => HmacInv
  <1> SUFFICES ASSUME Init PROVE HmacInv
    OBVIOUS
  <1>1. HmacTypes
    <2>1. IsContext(Uninitialised)
      BY DEF Uninitialised, IsContext
    <2>2. << >> \in Seq(KeyBytes) /\ << >> \in Seq(MsgBytes)
      BY EmptySeq
    <2> QED  BY <2>1, <2>2 DEF Init, HmacTypes
  <1> QED  BY <1>1 DEF Init, HmacInv, ContextHolds, DigestRight

(* HMAC_Init with a key: both contexts are those of the key. *)
LEMMA InitKeyKeeps ==
    ASSUME HmacInv, NEW n \in Nat, InitKey(KeyOf(n))
    PROVE  HmacInv'
  <1> DEFINE k == KeyOf(n)
             x == Xor("0x36", PaddedKey(k))
             y == Xor("0x5c", PaddedKey(k))
  <1>1. k \in Seq(KeyBytes)
    <2>1. k \in [1 .. n -> KeyBytes]
      BY DEF KeyOf, KeyBytes
    <2> HIDE DEF k
    <2> QED  BY <2>1
  <1>2. InitKey(k)
    OBVIOUS
  <1> HIDE DEF k
  <1>3. KeyBlock(md_ctx, k) = PaddedKey(k)
    BY <1>1, KeyPrepared DEF HmacInv, HmacTypes
  <1>4. PICK T : x \in Seq(T)
    BY FixedSizes
  <1>5. PICK U : y \in Seq(U)
    BY FixedSizes
  <1>6. i_ctx' = SHA256_Update(SHA256_Init(i_ctx), x) /\ o_ctx' = SHA256_Update(SHA256_Init(o_ctx), y)
    BY <1>2, <1>3 DEF InitKey
  <1>7. md_ctx' = i_ctx' /\ phase' = "feeding" /\ round' = 1 /\ key' = k /\ msg' = << >>
    BY <1>2 DEF InitKey
  <1> HIDE DEF x, y
  <1>8. IsContext(i_ctx') /\ Holds(i_ctx', x)
    BY <1>4, <1>6, FirstPieceHolds DEF HmacInv, HmacTypes
  <1>9. IsContext(o_ctx') /\ Holds(o_ctx', y)
    BY <1>5, <1>6, FirstPieceHolds DEF HmacInv, HmacTypes
  <1>10. x \o << >> = x
    BY <1>4, ConcatEmptySeq
  <1>11. HmacTypes'
    <2>1. << >> \in Seq(MsgBytes)
      BY EmptySeq
    <2> QED  BY <1>1, <1>7, <1>8, <1>9, <2>1 DEF HmacTypes
  <1>12. ContextHolds' /\ DigestRight'
    BY <1>7, <1>8, <1>9, <1>10 DEF ContextHolds, DigestRight, x, y
  <1> QED  BY <1>11, <1>12 DEF HmacInv

(* HMAC_Init with a null key: the context prepared for the key is copied. *)
LEMMA InitNullKeeps ==
    ASSUME HmacInv, InitNull
    PROVE  HmacInv'
  <1> DEFINE x == Xor("0x36", PaddedKey(key))
  <1>1. /\ md_ctx' = i_ctx /\ phase = "done" /\ phase' = "feeding" /\ round' = round + 1 /\ msg' = << >>
        /\ i_ctx' = i_ctx /\ o_ctx' = o_ctx /\ key' = key
    BY DEF InitNull
  <1>2. Holds(i_ctx, x) /\ Holds(o_ctx, Xor("0x5c", PaddedKey(key)))
    BY <1>1 DEF HmacInv, ContextHolds
  <1>3. x \o << >> = x
    <2>1. PICK T : x \in Seq(T)
      BY FixedSizes
    <2> HIDE DEF x
    <2> QED  BY <2>1, ConcatEmptySeq
  <1>4. HmacTypes'
    <2>1. << >> \in Seq(MsgBytes)
      BY EmptySeq
    <2> QED  BY <1>1, <2>1 DEF HmacInv, HmacTypes
  <1>5. ContextHolds' /\ DigestRight'
    <2> HIDE DEF x
    <2> QED  BY <1>1, <1>2, <1>3 DEF ContextHolds, DigestRight, x
  <1> QED  BY <1>4, <1>5 DEF HmacInv

(* HMAC_Update: the context takes the piece in. *)
LEMMA UpdateKeeps ==
    ASSUME HmacInv, NEW n \in Nat, Update(Piece(n))
    PROVE  HmacInv'
  <1> DEFINE d == Piece(n)
             x == Xor("0x36", PaddedKey(key))
  <1>1. d \in Seq(MsgBytes)
    <2>1. round \in Nat /\ Len(msg) \in Nat
      BY DEF HmacInv, HmacTypes
    <2>2. \A i \in 1 .. n : Len(msg) + i \in Nat
      BY <2>1
    <2>3. d \in [1 .. n -> MsgBytes]
      BY <2>1, <2>2 DEF Piece, MsgBytes
    <2> HIDE DEF d
    <2> QED  BY <2>3
  <1>2. /\ phase = "feeding" /\ phase' = phase /\ md_ctx' = SHA256_Update(md_ctx, d) /\ msg' = msg \o d
        /\ i_ctx' = i_ctx /\ o_ctx' = o_ctx /\ round' = round /\ key' = key
    BY DEF Update
  <1>3. PICK T : x \in Seq(T)
    BY FixedSizes
  <1>4. msg \in Seq(MsgBytes) /\ IsContext(md_ctx)
    BY DEF HmacInv, HmacTypes
  <1>5. /\ Holds(md_ctx, x \o msg)
        /\ Holds(i_ctx, x) /\ Holds(o_ctx, Xor("0x5c", PaddedKey(key)))
    BY <1>2 DEF HmacInv, ContextHolds
  <1> HIDE DEF d, x
  <1> DEFINE U == T \cup MsgBytes
  <1>6. x \in Seq(U) /\ msg \in Seq(U) /\ d \in Seq(U)
    <2>1. T \subseteq U /\ MsgBytes \subseteq U
      OBVIOUS
    <2> HIDE DEF U
    <2> QED  BY <1>1, <1>3, <1>4, <2>1, SeqMonotonic
  <1> HIDE DEF U
  <1>7. x \o msg \in Seq(U) /\ (x \o msg) \o d = x \o (msg \o d)
    BY SMTT(30), <1>6, ConcatProperties, ConcatAssociative
  <1>8. IsContext(md_ctx') /\ Holds(md_ctx', x \o msg')
    <2> DEFINE m == x \o msg
    <2>1. m \in Seq(U) /\ Holds(md_ctx, m)
      BY <1>5, <1>7
    <2> HIDE DEF m
    <2>2. IsContext(SHA256_Update(md_ctx, d)) /\ Holds(SHA256_Update(md_ctx, d), m \o d)
      BY <1>4, <1>6, <2>1, UpdateHolds
    <2> QED  BY <1>2, <1>7, <2>2 DEF m
  <1>9. HmacTypes'
    <2>1. msg \o d \in Seq(MsgBytes)
      BY <1>1, <1>4, ConcatProperties
    <2> QED  BY <1>2, <1>8, <2>1 DEF HmacInv, HmacTypes
  <1>10. ContextHolds' /\ DigestRight'
    BY <1>2, <1>5, <1>8 DEF ContextHolds, DigestRight, x
  <1> QED  BY <1>9, <1>10 DEF HmacInv

(* HMAC_Final: the digest is that of the outer pad and the inner digest. *)
LEMMA FinalKeeps ==
    ASSUME HmacInv, Final
    PROVE  HmacInv'
  <1> DEFINE x == Xor("0x36", PaddedKey(key))
             y == Xor("0x5c", PaddedKey(key))
             d == Digest(SHA256_Final(md_ctx).h)
             e == SHA256_Update(o_ctx, d)
  <1>1. /\ phase = "feeding" /\ phase' = "done" /\ md_ctx' = SHA256_Final(e) /\ md' = Digest(md_ctx'.h)
        /\ i_ctx' = i_ctx /\ o_ctx' = o_ctx /\ round' = round /\ key' = key /\ msg' = msg
    BY DEF Final
  <1>2. HmacTypes /\ Holds(md_ctx, x \o msg) /\ Holds(i_ctx, x) /\ Holds(o_ctx, y)
    BY <1>1 DEF HmacInv, ContextHolds
  <1>3. PICK T : x \in Seq(T)
    BY FixedSizes
  <1>4. PICK U : y \in Seq(U)
    BY FixedSizes
  <1>5. PICK V : d \in Seq(V)
    BY FixedSizes
  <1> HIDE DEF x, y
  <1>6. d = Hash(x \o msg)
    <2> DEFINE W == T \cup MsgBytes
               m == x \o msg
    <2>1. x \in Seq(W) /\ msg \in Seq(W)
      <3>1. T \subseteq W /\ MsgBytes \subseteq W
        OBVIOUS
      <3> HIDE DEF W
      <3> QED  BY <1>2, <1>3, <3>1, SeqMonotonic DEF HmacTypes
    <2> HIDE DEF W
    <2>2. m \in Seq(W) /\ Holds(md_ctx, m) /\ IsContext(md_ctx)
      BY <1>2, <2>1, ConcatProperties DEF HmacTypes
    <2> HIDE DEF m
    <2>3. d = Hash(m)
      BY <2>2, FinalHashes
    <2> QED  BY <2>3 DEF m
  <1> HIDE DEF d
  <1>7. IsContext(e) /\ Holds(e, y \o d)
    BY <1>2, <1>4, <1>5, PieceHolds DEF HmacTypes
  <1> HIDE DEF e
  <1>8. IsContext(SHA256_Final(e)) /\ Digest(SHA256_Final(e).h) = Hash(y \o d)
    <2> DEFINE W == U \cup V
               m == y \o d
    <2>1. y \in Seq(W) /\ d \in Seq(W)
      <3>1. U \subseteq W /\ V \subseteq W
        OBVIOUS
      <3> HIDE DEF W
      <3> QED  BY <1>4, <1>5, <3>1, SeqMonotonic
    <2> HIDE DEF W
    <2>2. m \in Seq(W) /\ Holds(e, m)
      BY <1>7, <2>1, ConcatProperties
    <2> HIDE DEF m
    <2>3. IsContext(SHA256_Final(e)) /\ Digest(SHA256_Final(e).h) = Hash(m)
      BY <1>7, <2>2, FinalHashes
    <2> QED  BY <2>3 DEF m
  <1>9. HmacTypes'
    BY <1>1, <1>2, <1>8 DEF HmacTypes
  <1>10. ContextHolds'
    BY <1>1, <1>2 DEF ContextHolds, x, y
  <1>11. DigestRight'
    BY <1>1, <1>6, <1>8 DEF DigestRight, HMAC, x, y
  <1> QED  BY <1>9, <1>10, <1>11 DEF HmacInv

(* HMAC_cleanup: the contexts are cleared and nothing more is claimed of them. *)
LEMMA CleanupKeeps ==
    ASSUME HmacInv, Cleanup
    PROVE  HmacInv'
  <1> DEFINE z == [Uninitialised EXCEPT !.data = Zeros]
  <1>1. /\ md_ctx' = z /\ i_ctx' = z /\ o_ctx' = z /\ phase' = "new" /\ round' = 0
        /\ key' = << >> /\ msg' = << >>
    BY DEF Cleanup
  <1>2. IsContext(z)
    BY DEF Uninitialised, IsContext
  <1>3. << >> \in Seq(KeyBytes) /\ << >> \in Seq(MsgBytes)
    BY EmptySeq
  <1> HIDE DEF z
  <1>4. HmacTypes'
    BY <1>1, <1>2, <1>3 DEF HmacTypes
  <1> QED  BY <1>1, <1>4 DEF HmacInv, ContextHolds, DigestRight

(* Every function of hmac.c preserves it. *)
LEMMA HmacStep == HmacInv /\ [Next]_vars => HmacInv'
  <1> SUFFICES ASSUME HmacInv, [Next]_vars PROVE HmacInv'
    OBVIOUS
  <1>0. \A k \in {MaxKey, MaxPiece} : k \in Nat
    BY HmacAssumption
  <1>1. ASSUME NEW n \in 0 .. MaxKey, InitKey(KeyOf(n)) PROVE HmacInv'
    <2>1. n \in Nat
      BY <1>0
    <2> QED  BY <1>1, <2>1, InitKeyKeeps
  <1>2. ASSUME NEW n \in 0 .. MaxPiece, Update(Piece(n)) PROVE HmacInv'
    <2>1. n \in Nat
      BY <1>0
    <2> QED  BY <1>2, <2>1, UpdateKeeps
  <1>3. CASE InitNull
    BY <1>3, InitNullKeeps
  <1>4. CASE Final
    BY <1>4, FinalKeeps
  <1>5. CASE Cleanup
    BY <1>5, CleanupKeeps
  <1>6. CASE UNCHANGED vars
    BY <1>6 DEF HmacInv, HmacTypes, ContextHolds, DigestRight, vars, ctxs
  <1> QED  BY <1>1, <1>2, <1>3, <1>4, <1>5, <1>6 DEF Next

(* However the message was cut into pieces, the context holds exactly the
   inner pad and the bytes fed, and the two prepared contexts are those of
   the key (hmac.c, sha.c: SHA256_Update and the buffer). *)
THEOREM ContextIsExact == Spec => []ContextHolds
  <1>1. HmacInv => ContextHolds
    BY DEF HmacInv
  <1> QED  BY <1>1, HmacInit, HmacStep, PTL DEF Spec

(* The digest returned is the HMAC of RFC 2104 of the message, for the first
   message under a key and for those that follow a null key. *)
THEOREM DigestIsHmac == Spec => []DigestRight
  <1>1. HmacInv => DigestRight
    BY DEF HmacInv
  <1> QED  BY <1>1, HmacInit, HmacStep, PTL DEF Spec
=============================================================================
