----------------------------- MODULE MCConfirm -----------------------------
(***************************************************************************)
(* Confirm for the runs that check safety only: Bitcoin transactions are   *)
(* interchangeable, and so are CALs when Roots treats them alike.          *)
(***************************************************************************)
EXTENDS Confirm, TLC

Symmetry == Permutations(Txs) \cup Permutations(Cals)
=============================================================================
