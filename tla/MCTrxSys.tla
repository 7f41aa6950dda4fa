------------------------------ MODULE MCTrxSys ------------------------------
(* Small instances of TrxSys. *)
EXTENDS TrxSys

Symmetry == Permutations(Trx)
=============================================================================
