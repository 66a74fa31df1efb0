----------------------------- MODULE MCWarehouse -----------------------------
(***************************************************************************)
(* Two keys, so that a batch can hold one of them, both, or a delete.      *)
(***************************************************************************)
EXTENDS Warehouse, TLC

\* The keys are interchangeable.
KeySymmetry == Permutations(Keys)

=============================================================================
