-------------------------- MODULE MCSigningDevice --------------------------
(* The device as wired: its constants have one instance only. *)
EXTENDS SigningDevice

CONSTANT Printed  \* the empty response

DeviceMsgs == Requests \cup {Printed}
=============================================================================
