-------------------------- MODULE MCRUDPTransfer --------------------------
(* Two sockets for TLC; MaxBytesA and MaxBytesB bound what each end writes. *)
EXTENDS RUDPTransfer

CONSTANTS A, B, MaxBytesA, MaxBytesB

MCEnds == {A, B}
MCOther == (A :> B) @@ (B :> A)
MCMaxBytes == (A :> MaxBytesA) @@ (B :> MaxBytesB)
===========================================================================
