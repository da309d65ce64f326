------------------------------- MODULE Sha256 -------------------------------
(***************************************************************************)
(* The streaming half of components/Crypto/src/sha.c: how SHA256_Update    *)
(* and SHA256_Final cut a message that arrives in pieces into blocks, and  *)
(* keep its length in two words.                                           *)
(*                                                                         *)
(* The compression function is left free: the state h of a context is the  *)
(* sequence of blocks compressed into it, so two digests are equal exactly *)
(* when the same blocks went in, in the same order.  Bytes are opaque.     *)
(***************************************************************************)
EXTENDS Naturals, Sequences

CONSTANTS
    CBlock,        \* SHA_CBLOCK, the bytes of a block (64)
    WordBytes,     \* the bytes of a SHA_LONG (4)
    EighthWord,    \* an eighth of the values of a SHA_LONG (2^29)
    DigestLength   \* SHA256_DIGEST_LENGTH (32)

ASSUME ShaAssumption ==
    /\ CBlock \in Nat /\ WordBytes \in Nat /\ EighthWord \in Nat /\ DigestLength \in Nat
    /\ 0 < WordBytes /\ 2 * WordBytes < CBlock
    /\ 0 < EighthWord
    /\ DigestLength <= CBlock

WordMod == 8 * EighthWord
Room    == CBlock - 2 * WordBytes  \* where the length starts in the last block

Zero   == <<"0x00">>
Marker == <<"0x80">>
Zeros  == [i \in 1 .. CBlock |-> Zero]

(* HOST_l2c: a word, as bytes; and the digest of a state, likewise. *)
WordAsBytes(w) == [i \in 1 .. WordBytes |-> <<"word", w, i>>]
Digest(h)      == [i \in 1 .. DigestLength |-> <<"digest", h, i>>]

(* memcpy of d to offset n of a block *)
Write(block, n, d) == [i \in 1 .. CBlock |-> IF n < i /\ i <= n + Len(d) THEN d[i - n] ELSE block[i]]

----------------------------------------------------------------------------
(* SHA256_CTX and its functions. *)

(* SHA256_Init leaves the buffer as it finds it. *)
SHA256_Init(c) == [c EXCEPT !.h = <<>>, !.Nl = 0, !.Nh = 0, !.num = 0]

(* Variant: no carry into the upper word. *)
AddLengthNoCarry(c, len) ==
    [c EXCEPT !.Nl = (c.Nl + 8 * len) % WordMod, !.Nh = (c.Nh + len \div EighthWord) % WordMod]

SHA256_addlength(c, len) ==
    LET l     == (c.Nl + 8 * len) % WordMod
        carry == IF l < c.Nl THEN 1 ELSE 0
    IN  [c EXCEPT !.Nl = l, !.Nh = (c.Nh + carry + len \div EighthWord) % WordMod]

Compress(c, block) == [c EXCEPT !.h = Append(@, block)]

(* The while loop: whole blocks are compressed from d itself, what is left
   over is buffered. *)
WholeBlocks(d) == [i \in 1 .. Len(d) \div CBlock |-> SubSeq(d, (i - 1) * CBlock + 1, i * CBlock)]
LeftOver(d)    == SubSeq(d, CBlock * (Len(d) \div CBlock) + 1, Len(d))

Absorb(c, d) ==
    [c EXCEPT !.h = @ \o WholeBlocks(d), !.num = Len(LeftOver(d)), !.data = Write(@, 0, LeftOver(d))]

SHA256_Update(c0, d) ==
    LET c == SHA256_addlength(c0, Len(d))
        fragment == CBlock - c.num
    IN  IF c.num = 0 THEN Absorb(c, d)
        ELSE IF Len(d) < fragment
        THEN [c EXCEPT !.data = Write(@, c.num, d), !.num = @ + Len(d)]
        ELSE LET full == Compress(c, Write(c.data, c.num, SubSeq(d, 1, fragment)))
             IN  Absorb([full EXCEPT !.data = Zeros], SubSeq(d, fragment + 1, Len(d)))

(* SHA256_Final: marker, zeros, length; a block more when the length does not
   fit behind the marker.  The digest is that of the state it leaves. *)
SHA256_Final(c) ==
    LET marked == [i \in 1 .. CBlock |->
                      IF i <= c.num THEN c.data[i] ELSE IF i = c.num + 1 THEN Marker ELSE Zero]
        length == WordAsBytes(c.Nh) \o WordAsBytes(c.Nl)
        closed == IF c.num + 1 > Room
                  THEN Compress(Compress(c, marked), Write(Zeros, Room, length))
                  ELSE Compress(c, Write(marked, Room, length))
    IN  [closed EXCEPT !.num = 0, !.data = Zeros]

----------------------------------------------------------------------------
(* The hash of a whole message, as the standard defines it. *)
Padding(n) == (CBlock - ((n + 1 + 2 * WordBytes) % CBlock)) % CBlock

Padded(m) ==
    m \o <<Marker>> \o [i \in 1 .. Padding(Len(m)) |-> Zero]
      \o WordAsBytes(((8 * Len(m)) \div WordMod) % WordMod) \o WordAsBytes((8 * Len(m)) % WordMod)

Hash(m) == Digest(WholeBlocks(Padded(m)))

(* c has taken in exactly the bytes m: whole blocks are compressed, the rest
   is buffered, there is room for one byte more ("there is always room for
   one", sha.c:207), and the count is that of m. *)
Holds(c, m) ==
    /\ c.num = Len(m) % CBlock
    /\ c.h = WholeBlocks(m)
    /\ SubSeq(c.data, 1, c.num) = LeftOver(m)
    /\ c.Nl = (8 * Len(m)) % WordMod
    /\ c.Nh = ((8 * Len(m)) \div WordMod) % WordMod
=============================================================================
