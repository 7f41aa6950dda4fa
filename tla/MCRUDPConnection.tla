------------------------- MODULE MCRUDPConnection -------------------------
(* One client host and one server host for TLC. *)
EXTENDS RUDPConnection

CONSTANTS C, S

MCHosts == {C, S}
MCClients == {C}
===========================================================================
