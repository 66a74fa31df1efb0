----------------------------- MODULE MCPipeline -----------------------------
(***************************************************************************)
(* Small deployments of Pipeline for TLC.  Partition, topic and table      *)
(* names are strings; keys are small numbers.                              *)
(***************************************************************************)
EXTENDS Pipeline

Row(t, k, n) == [kind |-> "row", table |-> t, pk |-> k, op |-> "upsert", ts |-> n]
Del(t, k, n) == [kind |-> "row", table |-> t, pk |-> k, op |-> "delete", ts |-> n]
Skip(t, n) == [kind |-> "skip", table |-> t, pk |-> 0, op |-> "upsert", ts |-> n]

\* One topic with two partitions, feeding one table: key 1 is created, deleted
\* and created again around a skipped message; key 2 lives in the other partition.
OneTopicOf == [p1 |-> "topic1", p2 |-> "topic1"]
OnePartNum == [p1 |-> 0, p2 |-> 1]
OneLog == [p1 |-> <<Row("users", 1, 1), Skip("users", 2), Del("users", 1, 3), Row("users", 1, 4)>>,
           p2 |-> <<Row("users", 2, 1), Row("users", 2, 1)>>]

\* Two topics with a partition number 0 each, feeding a table each.
TwoTopicOf == [p1 |-> "topic1", p2 |-> "topic2"]
TwoPartNum == [p1 |-> 0, p2 |-> 0]
TwoLog == [p1 |-> <<Row("users", 1, 1), Del("users", 1, 2)>>,
           p2 |-> <<Skip("orders", 1), Row("orders", 1, 2)>>]

\* One topic whose messages belong to two tables.
SharedTopicOf == [p1 |-> "topic1"]
SharedPartNum == [p1 |-> 0]
SharedLog == [p1 |-> <<Row("users", 1, 1), Row("orders", 1, 2), Row("orders", 2, 3)>>]

\* Two topics, say of two schemas, whose tables have the same name.
SameTableLog == [p1 |-> <<Row("users", 1, 1)>>, p2 |-> <<Row("users", 2, 1)>>]

=============================================================================
