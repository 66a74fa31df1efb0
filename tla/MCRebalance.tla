----------------------------- MODULE MCRebalance -----------------------------
(***************************************************************************)
(* Small deployments of PipelineRebalance for TLC.                         *)
(***************************************************************************)
EXTENDS PipelineRebalance

Row(t, k, n) == [kind |-> "row", table |-> t, pk |-> k, op |-> "upsert", ts |-> n]
Del(t, k, n) == [kind |-> "row", table |-> t, pk |-> k, op |-> "delete", ts |-> n]
Skip(t, n) == [kind |-> "skip", table |-> t, pk |-> 0, op |-> "upsert", ts |-> n]

MCTopicOf == [p1 |-> "topic1", p2 |-> "topic1"]
MCPartNum == [p1 |-> 0, p2 |-> 1]

\* Two versions of key 1 around a skipped message, and a row of key 2.
UpdateLog == [p1 |-> <<Row("users", 1, 1), Skip("users", 2), Row("users", 1, 3)>>,
              p2 |-> <<Row("users", 2, 1)>>]

\* A key that is created and deleted.
DeleteLog == [p1 |-> <<Row("users", 1, 1), Del("users", 1, 2)>>,
              p2 |-> <<Row("users", 2, 1)>>]

=============================================================================
