------------------------------ MODULE MCPubSub ------------------------------
(***************************************************************************)
(* Two ordering keys; the first message of the second key is skipped.      *)
(***************************************************************************)
EXTENDS PubSub

OneSkipped == {[key |-> "b", off |-> 1]}

=============================================================================
