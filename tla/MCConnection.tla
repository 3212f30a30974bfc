--------------------------- MODULE MCConnection ---------------------------
(***************************************************************************)
(* Connection for TLC: the server's two messages, one more without a body  *)
(* and one with.  One payload is enough: nothing looks into it, and two    *)
(* messages with a body that change places do so around their headers.     *)
(***************************************************************************)
EXTENDS Connection

CONSTANT hello

AllIds == {"ServerAccept", "ClientAccepted", "check", "action"}
WithBody == {"action"}
OnePayload == {hello}
=============================================================================
