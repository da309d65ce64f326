------------------------------- MODULE MCHash -------------------------------
(***************************************************************************)
(* The two halves of the hash, which share no state: HMAC over a free      *)
(* compression function, with blocks of four bytes, the last two of them   *)
(* for the length, counted in words of 16 values; and the compression      *)
(* function itself, on 64-bit registers and three inputs with bits         *)
(* everywhere.  A behaviour is one of the one half or of the other.        *)
(***************************************************************************)
EXTENDS Hmac, Sha256Block

Pattern(n, m) == {k \in 0 .. 31 : ((k * k + n * k + m * m + n) % 7) \in {0, 2, 3}}

Table == [k \in 0 .. 63 |-> Pattern(k, 5)]

MCInput(s) ==
    [chain |-> [n \in Names |-> CASE n \in {"a", "d"} -> Pattern(1, s)
                                  [] n \in {"b", "e"} -> Pattern(3, s)
                                  [] n = "g" -> {}
                                  [] OTHER -> 0 .. 31],
     block |-> [k \in 0 .. 15 |-> IF s = 0 THEN 0 .. 31 ELSE Pattern(s, k)]]

MCInputs == {MCInput(s) : s \in 0 .. 2}

HashInit == Init /\ BlockInit

HashNext ==
    \/ md_ctx = Uninitialised /\ BlockNext /\ UNCHANGED vars
    \/ i = 0 /\ input = MCInput(0) /\ Next /\ UNCHANGED blockVars

HashSpec == HashInit /\ [][HashNext]_<<vars, blockVars>>
=============================================================================
