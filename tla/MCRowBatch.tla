----------------------------- MODULE MCRowBatch -----------------------------
(***************************************************************************)
(* Small instances of RowBatch for TLC.                                    *)
(***************************************************************************)
EXTENDS RowBatch, TLC

KeySymmetry == Permutations(Keys)

=============================================================================
