---------------------------- MODULE MCProofStore ----------------------------
(***************************************************************************)
(* ProofStore for TLC: CALs and transactions are interchangeable.          *)
(***************************************************************************)
EXTENDS ProofStore, TLC

Interchangeable == Permutations(Cals) \cup Permutations(Txs)
=============================================================================
