----------------------------- MODULE MCLockSys -----------------------------
(* Small instances of LockSys. *)
EXTENDS LockSys, TLC

Symmetry == Permutations(Trx)
===========================================================================
