--------------------------- MODULE MCColumnTypes ---------------------------
(***************************************************************************)
(* Every destination with every kind of field; batches of three values, so *)
(* that a NULL, a placeholder and a value can meet in any order, and one   *)
(* failing flush, so that the batch grows after its types were merged.     *)
(***************************************************************************)
EXTENDS ColumnTypes

=============================================================================
