------------------------------ MODULE MCSchema ------------------------------
(***************************************************************************)
(* Small instances of SchemaEvolution for TLC.                             *)
(***************************************************************************)
EXTENDS SchemaEvolution, TLC

ColSymmetry == Permutations(Cols)

=============================================================================
