--------------------------- MODULE SigningDevice ---------------------------
(***************************************************************************)
(* The signing device of hello-camkes-1: components modtx and signtx, each *)
(* with a control thread, and modchk and crypto, connected by              *)
(* signing_device.camkes over seL4RPCCall.  The connector and the kernel   *)
(* are CamkesRpc; this module supplies what the components compute, as the *)
(* value of its constant Body, and how they are wired.                     *)
(*                                                                         *)
(* A string is abstracted to what the components tell apart: the two texts *)
(* that enter the device, the names of the components, and for an HMAC     *)
(* where it comes from: computed by crypto ("computed"), received from the *)
(* network ("received"), or the placeholder modchk passes on.              *)
(***************************************************************************)
EXTENDS CamkesRpc, SequencesExt

Controls   == {"modtx", "signtx"}
Interfaces == {"modchk_iface", "crypto_iface", "modtx_iface", "signtx_iface"}

(* Who may call whom: connections conn1 .. conn8. *)
Connections ==
    {<<"modtx", "modchk_iface">>, <<"modtx", "crypto_iface">>,
     <<"crypto_iface", "modtx_iface">>, <<"crypto_iface", "signtx_iface">>,
     <<"signtx", "crypto_iface">>, <<"signtx", "modchk_iface">>,
     <<"modchk_iface", "modtx_iface">>, <<"modchk_iface", "signtx_iface">>}

Texts   == {"hello", "untrusted"}
Sources == {"modtx", "signtx", "modchk", "crypto"}
Hmacs   == {"computed", "received", "placeholder"}

(* ModchkIface, CryptoIface, ModtxIface and SigntxIface *)
Verify(text, source, id) == [method |-> "verify", text |-> text, source |-> source, id |-> id]
Sign(text, id) == [method |-> "sign", text |-> text, id |-> id]
VerifySignature(text, id, hmac) == [method |-> "verify", text |-> text, id |-> id, hmac |-> hmac]
PrintMod(text, source, id, isValid) ==
    [method |-> "print", text |-> text, source |-> source, id |-> id, isValid |-> isValid]
PrintSign(text, source, id, isValid, hmac) ==
    [method |-> "print_sign", text |-> text, source |-> source, id |-> id, isValid |-> isValid, hmac |-> hmac]

Ids == {1, 2}
Requests ==
    {Verify(x, s, i) : x \in Texts, s \in Controls, i \in Ids}
    \cup {Sign(x, i) : x \in Texts, i \in Ids}
    \cup {VerifySignature(x, i, h) : x \in Texts, i \in Ids, h \in Hmacs}
    \cup {PrintMod(x, s, i, 1) : x \in Texts, s \in Sources, i \in Ids}
    \cup {PrintSign(x, s, i, 1, h) : x \in Texts, s \in Sources, i \in Ids, h \in Hmacs}

ToIface(s, m) == [to |-> s, msg |-> m]

----------------------------------------------------------------------------
(* The components. *)

(* modtx.c, signtx.c: run *)
ModtxRun ==
    <<ToIface("modchk_iface", Verify("hello", "modtx", 1)),
      ToIface("crypto_iface", Sign("hello", 1))>>

SigntxRun ==
    <<ToIface("modchk_iface", Verify("untrusted", "signtx", 2)),
      ToIface("crypto_iface", VerifySignature("untrusted", 2, "received"))>>

(* Variant: strcmp's result taken for a truth value. *)
ModchkVerifySwapped(m) ==
    IF m.source # "signtx"
    THEN <<ToIface("modtx_iface", PrintMod(m.text, "modchk", m.id, 1))>>
    ELSE <<ToIface("signtx_iface", PrintSign(m.text, "modchk", m.id, 1, "placeholder"))>>

(* modchk_iface_verify: forward to the side the message did not come from. *)
ModchkVerify(m) ==
    IF m.source = "signtx"
    THEN <<ToIface("modtx_iface", PrintMod(m.text, "modchk", m.id, 1))>>
    ELSE <<ToIface("signtx_iface", PrintSign(m.text, "modchk", m.id, 1, "placeholder"))>>

(* crypto_iface_sign and crypto_iface_verify *)
CryptoSign(m)   == <<ToIface("signtx_iface", PrintSign(m.text, "crypto", m.id, 1, "computed"))>>
CryptoVerify(m) == <<ToIface("modtx_iface", PrintMod(m.text, "crypto", m.id, 1))>>

Calls(t, m) ==
    CASE t = "modtx"        -> ModtxRun
      [] t = "signtx"       -> SigntxRun
      [] t = "modchk_iface" -> ModchkVerify(m)
      [] t = "crypto_iface" -> IF m.method = "sign" THEN CryptoSign(m) ELSE CryptoVerify(m)
      [] OTHER -> <<>>   \* modtx_iface and signtx_iface print

(* The methods of each interface that somebody calls (print_mod of SigntxIface
   is called by nobody); control threads run without a request. *)
Accepts ==
    [t \in Controls \cup Interfaces |->
        CASE t \in Controls -> {NoMsg}
          [] t = "modchk_iface" -> {m \in Requests : m.method = "verify" /\ "source" \in DOMAIN m}
          [] t = "crypto_iface" -> {m \in Requests : m.method \in {"sign", "verify"} /\ "source" \notin DOMAIN m}
          [] t = "modtx_iface"  -> {m \in Requests : m.method = "print"}
          [] t = "signtx_iface" -> {m \in Requests : m.method = "print_sign"}]

DeviceBody ==
    [t \in Controls \cup Interfaces |->
        [m \in MaybeMsg |-> IF m \in Accepts[t] THEN Calls(t, m) ELSE <<>>]]

(* hmac[64] of crypto_iface_sign is filled by HMAC2 to its last byte and has
   no terminator: the stub's strnlen runs on into the stack and may or may not
   find a zero byte within the IPC buffer. *)
Unterminated == {m \in Requests : m.method = "print_sign" /\ m.hmac = "computed"}

ASSUME DeviceAssumption ==
    /\ Clients = Controls /\ Servers = Interfaces
    /\ Msgs = Requests \cup {Ack}
    /\ Body = DeviceBody

(* Components call along their connections only, and only methods the callee's
   interface has. *)
ASSUME WellWired ==
    \A t \in Threads : \A m \in Accepts[t] : \A i \in DOMAIN DeviceBody[t][m] :
        LET c == DeviceBody[t][m][i]
        IN  <<t, c.to>> \in Connections /\ c.msg \in Accepts[c.to]

----------------------------------------------------------------------------
(* What each side is meant to show: of the other side's message, the verdict
   of modchk and then that of crypto. *)
Shown ==
    [s \in {"modtx_iface", "signtx_iface"} |->
        IF s = "signtx_iface"
        THEN <<PrintSign("hello", "modchk", 1, 1, "placeholder"),
               PrintSign("hello", "crypto", 1, 1, "computed")>>
        ELSE <<PrintMod("untrusted", "modchk", 2, 1),
               PrintMod("untrusted", "crypto", 2, 1)>>]

Sink == [c \in Controls |-> IF c = "modtx" THEN "signtx_iface" ELSE "modtx_iface"]

(* Each side is shown the other side's message and never its own, the verdict
   of modchk before the verdict of crypto, nothing twice: whatever the
   interleaving of the two control threads at the shared modchk and crypto. *)
VerdictsInOrder ==
    \A s \in DOMAIN Shown : IsPrefix(served[s], Shown[s])

(* Of the first n verdicts of a side, those that are shown even if a stub
   discards what it cannot marshal. *)
SurelyShown(s, n) == Cardinality({i \in 1 .. n : Shown[s][i] \notin Oversized})

(* When a run() has moved past a call, its effect at the far side has
   happened: the nested call chain is synchronous, so a control thread that
   made n calls has n verdicts shown, but for the one that is too long to be
   marshalled, and no more than one in progress. *)
RunIsSynchronous ==
    \A c \in Controls :
        /\ Len(served[Sink[c]]) >= SurelyShown(Sink[c], step[c] - 1)
        /\ Len(served[Sink[c]]) <= step[c]

(* A text shown as valid by crypto was verified: "//verify the signature"
   (signtx.c:20), of a message whose HMAC crypto could not have computed. *)
ValidMeansVerified ==
    \A i \in DOMAIN served["modtx_iface"] :
        LET m == served["modtx_iface"][i]
        IN  m.source = "crypto" /\ m.isValid = 1 =>
                \E j \in DOMAIN served["crypto_iface"] :
                    served["crypto_iface"][j] = VerifySignature(m.text, m.id, "computed")
=============================================================================
