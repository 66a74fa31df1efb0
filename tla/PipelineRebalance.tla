-------------------------- MODULE PipelineRebalance --------------------------
(***************************************************************************)
(* The replication pipeline while its consumer group rebalances.           *)
(*                                                                         *)
(* A kafka.Reader that loses its generation (another member joins, a       *)
(* heartbeat is missed during a long flush) is assigned its partitions     *)
(* again and reads on from the offsets the broker holds.  Nothing in       *)
(* kafka.go hears of it: the in-memory database keeps the rows and the     *)
(* last messages it has, and the same messages are delivered once more.    *)
(***************************************************************************)
EXTENDS Pipeline

CONSTANT MaxRebalances   \* bound on the rebalances of one behaviour

ASSUME RebalanceAssumption == MaxRebalances \in Nat

VARIABLE rebalances

rebalanceVars == <<vars, rebalances>>

RebalanceInit == Init /\ rebalances = 0

\* The reader of topic c starts a new generation.
Rebalance(c) ==
  /\ rebalances < MaxRebalances
  /\ rebalances' = rebalances + 1
  /\ position' = [p \in Parts |-> IF TopicOf[p] = c THEN ResumePosition[p] ELSE position[p]]
  /\ UNCHANGED <<committed, inflight, cpc, ppc, memoryVars, flushVars, dest, crashes>>

RebalanceNext ==
  \/ Next /\ UNCHANGED rebalances
  \/ \E c \in Topics : Rebalance(c)

RebalanceSpec == RebalanceInit /\ [][RebalanceNext]_rebalanceVars

=============================================================================
