-------------------------------- MODULE Hmac --------------------------------
(***************************************************************************)
(* HMAC-SHA256 of components/Crypto/src/hmac.c: an HMAC_CTX that is keyed  *)
(* once and used for several messages, each fed in pieces.  HMAC and HMAC2 *)
(* are its users; they feed one piece per message, and HMAC2 runs a second *)
(* message under the same key by passing a null key.                       *)
(***************************************************************************)
EXTENDS Sha256

CONSTANTS
    MaxKey,    \* longest key
    MaxPiece,  \* longest piece of a message
    MaxMsg,    \* longest message
    MaxRounds  \* messages under one key

ASSUME HmacAssumption == {MaxKey, MaxPiece, MaxMsg, MaxRounds} \subseteq Nat

VARIABLES
    md_ctx, i_ctx, o_ctx,  \* HMAC_CTX
    phase,  \* where the caller is: "new", "feeding" or "done"
    round,  \* the messages begun under this key
    key,    \* history: the key
    msg,    \* history: the bytes of the message so far
    md      \* the digest returned last

ctxs == <<md_ctx, i_ctx, o_ctx>>
vars == <<ctxs, phase, round, key, msg, md>>

(* A context in an uninitialised local variable; SHA256_Init sets all of it
   but the buffer. *)
Uninitialised == [h |-> <<>>, Nl |-> 0, Nh |-> 0, num |-> 0, data |-> [i \in 1 .. CBlock |-> <<"stale">>]]

Init ==
    /\ md_ctx = Uninitialised /\ i_ctx = Uninitialised /\ o_ctx = Uninitialised
    /\ phase = "new" /\ round = 0
    /\ key = <<>> /\ msg = <<>> /\ md = <<>>

(* The key, hashed if longer than a block, filled up with zeros, and combined
   with the inner or outer pad byte. *)
Fill(k) == Write(Zeros, 0, k)
Xor(pad, block) == [i \in 1 .. CBlock |-> <<pad, block[i]>>]

KeyBlock(c, k) ==
    IF CBlock < Len(k) THEN Fill(Digest(SHA256_Final(SHA256_Update(SHA256_Init(c), k)).h)) ELSE Fill(k)

(* HMAC_Init with a key *)
InitKey(k) ==
    /\ phase = "new"
    /\ i_ctx' = SHA256_Update(SHA256_Init(i_ctx), Xor("0x36", KeyBlock(md_ctx, k)))
    /\ o_ctx' = SHA256_Update(SHA256_Init(o_ctx), Xor("0x5c", KeyBlock(md_ctx, k)))
    /\ md_ctx' = i_ctx'
    /\ phase' = "feeding" /\ round' = 1
    /\ key' = k /\ msg' = <<>>
    /\ UNCHANGED md

(* Variant: the second message goes on in the used context. *)
InitNullKeepsContext ==
    /\ phase = "done" /\ round < MaxRounds
    /\ phase' = "feeding" /\ round' = round + 1
    /\ msg' = <<>>
    /\ UNCHANGED <<ctxs, key, md>>

(* HMAC_Init with a null key: "only performs memcpy" *)
InitNull ==
    /\ phase = "done" /\ round < MaxRounds
    /\ md_ctx' = i_ctx
    /\ phase' = "feeding" /\ round' = round + 1
    /\ msg' = <<>>
    /\ UNCHANGED <<i_ctx, o_ctx, key, md>>

(* HMAC_Update *)
Update(d) ==
    /\ phase = "feeding"
    /\ md_ctx' = SHA256_Update(md_ctx, d)
    /\ msg' = msg \o d
    /\ UNCHANGED <<i_ctx, o_ctx, phase, round, key, md>>

(* HMAC_Final *)
Final ==
    /\ phase = "feeding"
    /\ md_ctx' = SHA256_Final(SHA256_Update(o_ctx, Digest(SHA256_Final(md_ctx).h)))
    /\ md' = Digest(md_ctx'.h)
    /\ phase' = "done"
    /\ UNCHANGED <<i_ctx, o_ctx, round, key, msg>>

(* HMAC_cleanup: memset of the context *)
Cleanup ==
    /\ phase = "done"
    /\ \E z \in {[Uninitialised EXCEPT !.data = Zeros]} : md_ctx' = z /\ i_ctx' = z /\ o_ctx' = z
    /\ phase' = "new" /\ round' = 0
    /\ key' = <<>> /\ msg' = <<>>
    /\ UNCHANGED md

(* The bytes that may come: every one different from all others. *)
Piece(n)  == [i \in 1 .. n |-> <<"msg", round, Len(msg) + i>>]
KeyOf(n)  == [i \in 1 .. n |-> <<"key", i>>]

Next ==
    \/ \E n \in 0 .. MaxKey : InitKey(KeyOf(n))
    \/ InitNull
    \/ \E n \in 0 .. MaxPiece : Len(msg) + n <= MaxMsg /\ Update(Piece(n))
    \/ Final
    \/ Cleanup

Spec == Init /\ [][Next]_vars

----------------------------------------------------------------------------
(* RFC 2104 *)
PaddedKey(k) == Fill(IF CBlock < Len(k) THEN Hash(k) ELSE k)
HMAC(k, m)   == Hash(Xor("0x5c", PaddedKey(k)) \o Hash(Xor("0x36", PaddedKey(k)) \o m))

(* However the message was cut into pieces, and whatever the buffer held
   before, the context holds exactly the inner pad and the bytes fed, and the
   two precomputed contexts are those of the key. *)
ContextHolds ==
    /\ phase = "feeding" => Holds(md_ctx, Xor("0x36", PaddedKey(key)) \o msg)
    /\ phase # "new" => /\ Holds(i_ctx, Xor("0x36", PaddedKey(key)))
                        /\ Holds(o_ctx, Xor("0x5c", PaddedKey(key)))

(* The digest returned is the HMAC of the message, in the first round and in
   every later one. *)
DigestRight == phase = "done" => md = HMAC(key, msg)
=============================================================================
