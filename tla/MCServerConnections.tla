------------------------ MODULE MCServerConnections ------------------------
(* A small instance of ServerConnections. *)
EXTENDS ServerConnections

CONSTANTS A, B

FromAB == [m \in Messages |-> IF m % 2 = 1 THEN A ELSE B]
ToAB   == [m \in Messages |-> IF m % 2 = 1 THEN B ELSE A]
===========================================================================
