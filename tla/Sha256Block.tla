---------------------------- MODULE Sha256Block ----------------------------
(***************************************************************************)
(* sha256_block_data_order of components/Crypto/src/sha.c: the compression *)
(* of one block, with a message schedule that rolls through 16 words and   *)
(* working variables of type long, wider than the 32 bits of a SHA word.   *)
(* A word is the set of the positions of its one bits.                     *)
(***************************************************************************)
EXTENDS Naturals, Sequences, SequencesExt

CONSTANTS
    RegBits,  \* bits of an unsigned long
    K256,     \* the table of round constants
    Inputs    \* pairs of a chaining value (8 words) and a block (16 words)

Word  == SUBSET (0 .. 31)
Reg   == 0 .. RegBits - 1
Names == {"a", "b", "c", "d", "e", "f", "g", "h"}

ASSUME BlockAssumption ==
    /\ RegBits >= 32
    /\ K256 \in [0 .. 63 -> Word]
    /\ Inputs \subseteq [chain : [Names -> Word], block : [0 .. 15 -> Word]]

VARIABLES
    i,      \* the round
    X,      \* the last 16 words of the schedule
    reg,    \* the working variables a .. h
    input,  \* the chaining value and the block
    out     \* ctx->h

blockVars == <<i, X, reg, input, out>>

XorBits(x, y) == (x \ y) \cup (y \ x)

(* Sum of bit sets, modulo 2^n *)
Plus(n, x, y) ==
    LET carry[k \in 0 .. n] ==
            IF k = 0 THEN FALSE
            ELSE IF k - 1 \in x /\ k - 1 \in y THEN TRUE
            ELSE (k - 1 \in x \/ k - 1 \in y) /\ carry[k - 1]
    IN  {k \in 0 .. n - 1 : (k \in x) # ((k \in y) # carry[k])}

a ++ b == Plus(RegBits, a, b)

Low(x)    == x \cap (0 .. 31)   \* assignment to a SHA_LONG
Shl(x, n) == {k + n : k \in x} \cap Reg
Shr(x, n) == {k - n : k \in {j \in x : j >= n}}

ROTATE(x, n) == Shl(x, n) \cup Shr(Low(x), 32 - n)

Sigma0(x) == XorBits(ROTATE(x, 30), XorBits(ROTATE(x, 19), ROTATE(x, 10)))
Sigma1(x) == XorBits(ROTATE(x, 26), XorBits(ROTATE(x, 21), ROTATE(x, 7)))
sigma0(x) == XorBits(ROTATE(x, 25), XorBits(ROTATE(x, 14), Shr(x, 3)))
sigma1(x) == XorBits(ROTATE(x, 15), XorBits(ROTATE(x, 13), Shr(x, 10)))

Ch(x, y, z)  == XorBits(x \cap y, (Reg \ x) \cap z)
Maj(x, y, z) == XorBits(x \cap y, XorBits(x \cap z, y \cap z))

BlockInit ==
    /\ input \in Inputs
    /\ i = 0
    /\ X = [k \in 0 .. 15 |-> {}]
    /\ reg = input.chain
    /\ out = input.chain

(* One round with T1 so far holding the schedule word. *)
Mix(w) ==
    LET T1 == w ++ reg.h ++ Sigma1(reg.e) ++ Ch(reg.e, reg.f, reg.g) ++ K256[i]
        T2 == Sigma0(reg.a) ++ Maj(reg.a, reg.b, reg.c)
    IN  /\ reg' = [a |-> T1 ++ T2, b |-> reg.a, c |-> reg.b, d |-> reg.c,
                   e |-> reg.d ++ T1, f |-> reg.e, g |-> reg.f, h |-> reg.g]
        /\ i' = i + 1
        /\ UNCHANGED <<input, out>>

FirstRound ==
    /\ i < 16
    /\ X' = [X EXCEPT ![i] = input.block[i]]
    /\ Mix(input.block[i])

(* Variant: the window is read one place late. *)
LaterRoundShifted ==
    /\ i \in 16 .. 63
    /\ LET T1 == X[i % 16] ++ sigma0(X[(i + 1) % 16]) ++ sigma1(X[(i + 15) % 16]) ++ X[(i + 9) % 16]
       IN  /\ X' = [X EXCEPT ![i % 16] = Low(T1)]
           /\ Mix(T1)

LaterRound ==
    /\ i \in 16 .. 63
    /\ LET T1 == X[i % 16] ++ sigma0(X[(i + 1) % 16]) ++ sigma1(X[(i + 14) % 16]) ++ X[(i + 9) % 16]
       IN  /\ X' = [X EXCEPT ![i % 16] = Low(T1)]
           /\ Mix(T1)

AddChain ==
    /\ i = 64
    /\ out' = [n \in Names |-> Low(out[n] ++ reg[n])]
    /\ i' = 65
    /\ UNCHANGED <<X, reg, input>>

BlockNext == FirstRound \/ LaterRound \/ AddChain \/ (i = 65 /\ UNCHANGED blockVars)

BlockSpec == BlockInit /\ [][BlockNext]_blockVars

----------------------------------------------------------------------------
(* FIPS 180-4: rotations to the right, 32-bit words, a schedule of 64 words. *)
a \uplus b == Plus(32, a, b)
RotR(x, n)  == {(k + 32 - n) % 32 : k \in x}
Xor3(x, y, z) == XorBits(x, XorBits(y, z))

Schedule(block) ==
    FoldLeft(LAMBDA W, t : Append(W, Xor3(RotR(W[t-1], 17), RotR(W[t-1], 19), Shr(W[t-1], 10)) \uplus W[t-6]
                                     \uplus Xor3(RotR(W[t-14], 7), RotR(W[t-14], 18), Shr(W[t-14], 3)) \uplus W[t-15]),
             [t \in 1 .. 16 |-> block[t - 1]], [t \in 1 .. 48 |-> t + 15])

Step(v, w, k) ==
    LET T1 == v.h \uplus Xor3(RotR(v.e, 6), RotR(v.e, 11), RotR(v.e, 25)) \uplus XorBits(v.e \cap v.f, v.g \ v.e) \uplus k \uplus w
        T2 == Xor3(RotR(v.a, 2), RotR(v.a, 13), RotR(v.a, 22))
              \uplus {n \in v.a \cup v.b \cup v.c : n \in v.a \cap v.b \/ n \in v.c \cap (v.a \cup v.b)}
    IN  [a |-> T1 \uplus T2, b |-> v.a, c |-> v.b, d |-> v.c, e |-> v.d \uplus T1, f |-> v.e, g |-> v.f, h |-> v.g]

(* The working variables after 0, 1, .. 64 rounds. *)
Rounds(in) ==
    LET W == Schedule(in.block)
    IN  FoldLeft(LAMBDA vs, t : Append(vs, Step(Last(vs), W[t], K256[t - 1])), <<in.chain>>, [t \in 1 .. 64 |-> t])

Standard == [in \in Inputs |-> [W |-> Schedule(in.block), v |-> Rounds(in)]]

(* Bits above the 32nd, which sums and left shifts leave in the registers,
   never reach the low words: those are the standard's after every round. *)
RegistersRight == i <= 64 => \A n \in Names : Low(reg[n]) = Standard[input].v[i + 1][n]

(* The rolling window holds the latest words of the standard's schedule. *)
WindowRight == \A t \in 0 .. 63 : t < i /\ i <= t + 16 => X[t % 16] = Standard[input].W[t + 1]

(* The chaining value handed to the next block is the standard's. *)
ChainRight == i = 65 => \A n \in Names : out[n] = input.chain[n] \uplus Standard[input].v[65][n]

(* All three: registers wider than a word and a schedule that overwrites
   itself compute what FIPS 180-4 says, round by round. *)
CompressionRight == RegistersRight /\ WindowRight /\ ChainRight
=============================================================================
