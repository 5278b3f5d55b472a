------------------------------ MODULE MCGcipPm ------------------------------
(* Bounded instance of the GCIP power manager. *)
EXTENDS GcipPm, TLC

HolderSymmetry == Permutations(Holder)
=============================================================================
