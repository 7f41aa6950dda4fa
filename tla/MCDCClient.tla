---------------------------- MODULE MCDCClient ----------------------------
(* A small instance of DCClient. *)
EXTENDS DCClient

CONSTANTS P1, P2, C1, C2

TwoParams == {P1, P2}
TwoKinds ==
  P1 :> [read |-> TRUE, ack |-> TRUE] @@
  P2 :> [read |-> FALSE, ack |-> FALSE]
OneConn == <<C1>>
===========================================================================
