---------------------------- MODULE MCCamkesRpc ----------------------------
(***************************************************************************)
(* Two clients and three interfaces.  relay forwards its request, store    *)
(* makes two calls for one request, log makes none; so a server is called  *)
(* while it waits, a reply capability is saved once for two nested calls,  *)
(* and requests queue up on every endpoint.                                *)
(***************************************************************************)
EXTENDS CamkesRpc

To(s, m) == [to |-> s, msg |-> m]

MCBody ==
    [t \in Threads |-> [m \in MaybeMsg |->
        CASE m = NoMsg /\ t \notin Clients -> <<>>
          [] t = "c1" -> <<To("relay", "a"), To("log", "a")>>
          [] t = "c2" -> <<To("store", "b"), To("relay", "b")>>
          [] t = "relay" -> <<To("log", m)>>
          [] t = "store" -> <<To("log", "b"), To("relay", "b")>>
          [] OTHER -> <<>>]]
=============================================================================
