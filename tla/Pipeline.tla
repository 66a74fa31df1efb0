------------------------------ MODULE Pipeline ------------------------------
(***************************************************************************)
(* The replication pipeline of Transfer: one goroutine per Kafka topic     *)
(* (processes/consumer/kafka.go) turns messages into rows of an in-memory  *)
(* database (models/memory.go, models/event/event.go); size-triggered      *)
(* flushes of the consumers and the time-triggered flush of the pool       *)
(* (processes/pool/writes.go) write a table's buffer to the destination,   *)
(* commit the offsets of its last messages and wipe the buffer             *)
(* (processes/consumer/flush.go, configs.go).  The process may crash at    *)
(* any step and restarts from the offsets the broker holds.                *)
(*                                                                         *)
(* A row is represented by the identity of the message that produced it:   *)
(* the destination "holds m" when its row for m's key is what m made of it *)
(* (for a delete: the row is absent).                                      *)
(***************************************************************************)
EXTENDS Naturals, Sequences, FiniteSets

CONSTANTS
  Topics,         \* configured topics; each has one consumer goroutine
  Parts,          \* topic-partitions
  Tables,         \* destination table names (evt.Table)
  Pool,           \* the goroutine of StartPool
  Nobody,         \* an unlocked mutex
  TopicOf,        \* Parts -> Topics
  PartNum,        \* Parts -> partition number, the key of PartitionsToLastMessage
  Log,            \* Parts -> sequence of messages the broker holds
  Mode,           \* config.Mode: "replication" or "history"
  IdempotentKey,  \* whether the topic has an idempotentKey
  BufferRows,     \* cfg.BufferRows
  MaxCrashes      \* bound on the crashes of one behaviour

Callers == Topics \cup {Pool}

\* A message either becomes a row of a table ("row") or is one the consumer
\* passes over ("skip"): a tombstone, an undecodable key or value, an operation
\* in skippedOperations, an invalid event.  ts is the value of the idempotentKey
\* column: the row's own column for an upsert, the execution time for a delete.
Messages ==
  [kind: {"row", "skip"}, table: Tables, pk: Nat, op: {"upsert", "delete"}, ts: Nat]

ASSUME PipelineAssumption ==
  /\ Pool \notin Topics
  /\ Nobody \notin Callers
  /\ TopicOf \in [Parts -> Topics]
  /\ PartNum \in [Parts -> Nat]
  /\ Log \in [Parts -> Seq(Messages)]
  /\ Mode \in {"replication", "history"}
  /\ IdempotentKey \in BOOLEAN
  /\ BufferRows \in Nat
  /\ MaxCrashes \in Nat

\* Message identities; offsets count from 1.
Ids == UNION {[part: {p}, off: 1..Len(Log[p])] : p \in Parts}

Msg(m) == Log[m.part][m.off]
TableOf(m) == Msg(m).table

\* The "optimal set-up" of the repository's README: "One Kafka topic per table",
\* and "The partition key should be the primary key for the table".
OneTablePerTopic ==
  \A m, r \in Ids : TopicOf[m.part] = TopicOf[r.part] => TableOf(m) = TableOf(r)

KeyInOnePartition ==
  \A m, r \in Ids : TableOf(m) = TableOf(r) /\ Msg(m).pk = Msg(r).pk => m.part = r.part

\* Values of the idempotency column do not run backwards within a partition.
ClockFollowsLog ==
  \A m, r \in Ids : m.part = r.part /\ m.off <= r.off => Msg(m).ts <= Msg(r).ts

-----------------------------------------------------------------------------
VARIABLES
  committed,  \* broker: per partition, number of messages acknowledged
  position,   \* kafka reader: per partition, offset of the next message
  inflight,   \* per topic, the message its goroutine is processing, if any
  cpc,        \* per topic, where its goroutine is: "fetch", "process", "flush"
  ppc,        \* where the pool's goroutine is: "idle", "flush"
  known,      \* tables present in DatabaseData.tableData
  rows,       \* per table, TableData.rowsData or rows; {} when TableData is nil
  last,       \* per table, the messages in PartitionsToLastMessage
  recent,     \* per table, lastFlushTime is within the flush cooldown
  worker,     \* per Flush caller and table, the flush goroutine's state
  lock,       \* per table, who holds TableData.Mutex for a flush
  step,       \* per table, what the holder does next: "merge" or "commit"
  pending,    \* per table, messages commitOffset has yet to commit
  dest,       \* messages whose effect the destination holds
  crashes

consumerVars == <<position, inflight, cpc>>
memoryVars == <<known, rows, last, recent>>
flushVars == <<worker, lock, step, pending>>
vars == <<committed, consumerVars, ppc, memoryVars, flushVars, dest, crashes>>

NoWorkers == [f \in Callers |-> [t \in Tables |-> "none"]]

\* What a process that has just started has in memory.
FreshProcess ==
  /\ inflight' = [c \in Topics |-> {}]
  /\ cpc' = [c \in Topics |-> "fetch"]
  /\ ppc' = "idle"
  /\ known' = {}
  /\ rows' = [t \in Tables |-> {}]
  /\ last' = [t \in Tables |-> {}]
  /\ recent' = [t \in Tables |-> FALSE]
  /\ worker' = NoWorkers
  /\ lock' = [t \in Tables |-> Nobody]
  /\ step' = [t \in Tables |-> "merge"]
  /\ pending' = [t \in Tables |-> {}]

Init ==
  /\ committed = [p \in Parts |-> 0]
  /\ position = [p \in Parts |-> 1]
  /\ inflight = [c \in Topics |-> {}]
  /\ cpc = [c \in Topics |-> "fetch"]
  /\ ppc = "idle"
  /\ known = {}
  /\ rows = [t \in Tables |-> {}]
  /\ last = [t \in Tables |-> {}]
  /\ recent = [t \in Tables |-> FALSE]
  /\ worker = NoWorkers
  /\ lock = [t \in Tables |-> Nobody]
  /\ step = [t \in Tables |-> "merge"]
  /\ pending = [t \in Tables |-> {}]
  /\ dest = {}
  /\ crashes = 0

-----------------------------------------------------------------------------
\* The row identity: rowsData is keyed by primary key, while history mode only
\* ever appends.
SameKey(m, r) ==
  /\ TableOf(m) = TableOf(r)
  /\ IF Mode = "history" THEN m = r ELSE Msg(m).pk = Msg(r).pk

\* Faulty variants of InsertRow: the first row of a key wins; rowsData is used in
\* history mode too.
InsertRowOnce(buffer, m) == buffer \cup (IF \E r \in buffer : SameKey(r, m) THEN {} ELSE {m})
InsertRowByKey(buffer, m) == {r \in buffer : Msg(r).pk # Msg(m).pk} \cup {m}

\* TableData.InsertRow: a row replaces the buffered row of the same key.
InsertRow(buffer, m) == {r \in buffer : ~SameKey(r, m)} \cup {m}

\* Save keeps only the newest message per partition number.
LastMessages(msgs, m) == {r \in msgs : PartNum[r.part] # PartNum[m.part]} \cup {m}

\* Faulty variant of Stale: the MERGE statement lacks the idempotency clause.
StaleIgnored(m, r) == FALSE

\* The update clause of MERGE asks for "cc.key >= c.key", so a matched row that is
\* newer stays.  DELETE (the topic has no softDelete) is not guarded, and an absent
\* row matches nothing.
Stale(m, r) ==
  /\ IdempotentKey
  /\ SameKey(m, r)
  /\ Msg(m).op = "upsert" /\ Msg(r).op = "upsert"
  /\ Msg(m).ts > Msg(r).ts

\* Faulty variant of Merged: the statement inserts but never updates.
MergedWithoutUpdate(R) == dest \cup {r \in R : ~\E m \in dest : SameKey(m, r)}

\* The destination after the staged rows R were merged or appended.
Merged(R) ==
  LET fresh == {r \in R : ~\E m \in dest : Stale(m, r)}
  IN  {m \in dest : ~\E r \in fresh : SameKey(m, r)} \cup fresh

\* What a failing Merge or Append may have written: the merge is one statement or
\* one transaction, so all or nothing; an append is loaded in chunks.
WrittenOnError(t) == IF Mode = "history" THEN SUBSET rows[t] ELSE {{}, rows[t]}

\* Faulty variant of CommittedAfter: one offset too low.
CommittedBefore(m) == [committed EXCEPT ![m.part] = m.off - 1]

\* The offsets the broker holds once it took message m (CommitMessages overwrites).
CommittedAfter(m) == [committed EXCEPT ![m.part] = m.off]

\* Faulty variants of ResumePosition: one message too early, the start of the log.
ResumeTooEarly == [p \in Parts |-> committed[p]]
ResumeFromStart == [p \in Parts |-> 1]

\* Where a new reader of the consumer group starts.
ResumePosition == [p \in Parts |-> committed[p] + 1]

\* Faulty variant of Unlocked: the table's mutex is not taken.
AlwaysUnlocked(t) == TRUE

\* TableData.Mutex is free.
Unlocked(t) == lock[t] = Nobody

\* TableData.Wipe of table t, applied to a per-table variable.
Wiped(f, t) == [f EXCEPT ![t] = {}]

-----------------------------------------------------------------------------
\* kafkaConsumer.FetchMessage
FetchMessage(c, p) ==
  /\ cpc[c] = "fetch"
  /\ TopicOf[p] = c
  /\ position[p] <= Len(Log[p])
  /\ inflight' = [inflight EXCEPT ![c] = {[part |-> p, off |-> position[p]]}]
  /\ position' = [position EXCEPT ![p] = @ + 1]
  /\ cpc' = [cpc EXCEPT ![c] = "process"]
  /\ UNCHANGED <<committed, ppc, memoryVars, flushVars, dest, crashes>>

\* Every way out of the loop body and of process() that stores nothing: the
\* tombstone check, the lookup and decoding errors, ShouldSkip, IsValid.
SkipMessage(c) ==
  /\ cpc[c] = "process"
  /\ \A m \in inflight[c] : Msg(m).kind = "skip"
  /\ inflight' = [inflight EXCEPT ![c] = {}]
  /\ cpc' = [cpc EXCEPT ![c] = "fetch"]
  /\ UNCHANGED <<committed, position, ppc, memoryVars, flushVars, dest, crashes>>

\* Event.Save under the table's mutex, then process() calls Flush for this table
\* when ShouldFlush says so: by row count, or by approxSize, which is left open.
Save(c) ==
  /\ cpc[c] = "process"
  /\ \E m \in inflight[c], oversize \in BOOLEAN :
       LET t == TableOf(m)
           buffer == InsertRow(rows[t], m)
           flush == Cardinality(buffer) > BufferRows \/ oversize
       IN  /\ Msg(m).kind = "row"
           /\ Unlocked(t)
           /\ known' = known \cup {t}
           /\ rows' = [rows EXCEPT ![t] = buffer]
           /\ last' = [last EXCEPT ![t] = LastMessages(@, m)]
           /\ cpc' = [cpc EXCEPT ![c] = IF flush THEN "flush" ELSE "fetch"]
           /\ worker' = IF flush THEN [worker EXCEPT ![c][t] = "wait"] ELSE worker
  /\ inflight' = [inflight EXCEPT ![c] = {}]
  /\ UNCHANGED <<committed, position, ppc, recent, lock, step, pending, dest, crashes>>

-----------------------------------------------------------------------------
\* StartPool: the ticker fires and Flush starts a goroutine for every known table.
PoolTick ==
  /\ ppc = "idle"
  /\ ppc' = "flush"
  /\ worker' = [worker EXCEPT ![Pool] = [t \in Tables |-> IF t \in known THEN "check" ELSE "none"]]
  /\ UNCHANGED <<committed, consumerVars, memoryVars, lock, step, pending, dest, crashes>>

\* ShouldSkipFlush, read without the mutex and only by the pool's goroutines.
CheckCooldown(t) ==
  /\ worker[Pool][t] = "check"
  /\ worker' = [worker EXCEPT ![Pool][t] = IF recent[t] THEN "done" ELSE "wait"]
  /\ UNCHANGED <<committed, consumerVars, ppc, memoryVars, lock, step, pending, dest, crashes>>

\* The cooldown after the last successful flush runs out.
CooldownElapses(t) ==
  /\ recent[t]
  /\ recent' = [recent EXCEPT ![t] = FALSE]
  /\ UNCHANGED <<committed, consumerVars, ppc, known, rows, last, flushVars, dest, crashes>>

\* _tableData.Lock(), then either Empty() and out again, or on to the merge.
LockTable(f, t) ==
  /\ worker[f][t] = "wait"
  /\ Unlocked(t)
  /\ IF rows[t] = {}
     THEN /\ worker' = [worker EXCEPT ![f][t] = "done"]
          /\ UNCHANGED <<lock, step>>
     ELSE /\ worker' = [worker EXCEPT ![f][t] = "busy"]
          /\ lock' = [lock EXCEPT ![t] = f]
          /\ step' = [step EXCEPT ![t] = "merge"]
  /\ UNCHANGED <<committed, consumerVars, ppc, memoryVars, pending, dest, crashes>>

\* Unlock and wg.Done of the goroutine that holds table t.
Release(t) ==
  /\ worker' = [worker EXCEPT ![lock[t]][t] = "done"]
  /\ lock' = [lock EXCEPT ![t] = Nobody]

\* dest.Merge or dest.Append returns nil; commitOffset starts its iteration.
MergeSucceeds(t) ==
  /\ lock[t] # Nobody
  /\ step[t] = "merge"
  /\ dest' = Merged(rows[t])
  /\ step' = [step EXCEPT ![t] = "commit"]
  /\ pending' = [pending EXCEPT ![t] = last[t]]
  /\ UNCHANGED <<committed, consumerVars, ppc, memoryVars, worker, lock, crashes>>

\* It returns an error: the buffer stays, the goroutine sleeps and leaves.
MergeFails(t) ==
  /\ lock[t] # Nobody
  /\ step[t] = "merge"
  /\ \E R \in WrittenOnError(t) : dest' = Merged(R)
  /\ Release(t)
  /\ UNCHANGED <<committed, consumerVars, ppc, memoryVars, step, pending, crashes>>

\* CommitMessages for one message of the iteration, in any (map) order.
CommitMessage(t, m) ==
  /\ lock[t] # Nobody
  /\ step[t] = "commit"
  /\ m \in pending[t]
  /\ committed' = CommittedAfter(m)
  /\ pending' = [pending EXCEPT ![t] = @ \ {m}]
  /\ UNCHANGED <<consumerVars, ppc, memoryVars, worker, lock, step, dest, crashes>>

\* CommitMessages fails, before or after the broker took the offset; commitOffset
\* returns at once and the buffer is not wiped.
CommitFails(t, m) ==
  /\ lock[t] # Nobody
  /\ step[t] = "commit"
  /\ m \in pending[t]
  /\ \/ UNCHANGED committed
     \/ committed' = CommittedAfter(m)
  /\ pending' = [pending EXCEPT ![t] = {}]
  /\ Release(t)
  /\ UNCHANGED <<consumerVars, ppc, memoryVars, step, dest, crashes>>

\* inMemDB.ClearTableConfig -> Wipe, once everything is committed.
ClearTableConfig(t) ==
  /\ lock[t] # Nobody
  /\ step[t] = "commit"
  /\ pending[t] = {}
  /\ rows' = Wiped(rows, t)
  /\ last' = Wiped(last, t)
  /\ recent' = [recent EXCEPT ![t] = TRUE]
  /\ Release(t)
  /\ UNCHANGED <<committed, consumerVars, ppc, known, step, pending, dest, crashes>>

\* wg.Wait() returns: Flush hands control back to its caller.
FlushReturns(f) ==
  /\ \A t \in Tables : worker[f][t] \in {"none", "done"}
  /\ \/ f = Pool /\ ppc = "flush" /\ ppc' = "idle" /\ UNCHANGED cpc
     \/ f # Pool /\ cpc[f] = "flush" /\ cpc' = [cpc EXCEPT ![f] = "fetch"] /\ UNCHANGED ppc
  /\ worker' = [worker EXCEPT ![f] = [t \in Tables |-> "none"]]
  /\ UNCHANGED <<committed, position, inflight, memoryVars, lock, step, pending, dest, crashes>>

-----------------------------------------------------------------------------
\* The process dies (a panic, a kill, the runtime's "concurrent map iteration and
\* map write") and a new one reads on from the committed offsets.
Crash ==
  /\ crashes < MaxCrashes
  /\ crashes' = crashes + 1
  /\ position' = ResumePosition
  /\ FreshProcess
  /\ UNCHANGED <<committed, dest>>

Next ==
  \/ \E c \in Topics : \/ \E p \in Parts : FetchMessage(c, p)
                       \/ SkipMessage(c)
                       \/ Save(c)
  \/ PoolTick
  \/ \E t \in Tables : \/ CheckCooldown(t)
                       \/ CooldownElapses(t)
                       \/ MergeSucceeds(t)
                       \/ MergeFails(t)
                       \/ \E m \in pending[t] : CommitMessage(t, m) \/ CommitFails(t, m)
                       \/ ClearTableConfig(t)
  \/ \E f \in Callers : \/ \E t \in Tables : LockTable(f, t)
                        \/ FlushReturns(f)
  \/ Crash

Spec == Init /\ [][Next]_vars

\* Every goroutine keeps running and the ticker keeps firing.
Progress ==
  /\ \A c \in Topics : /\ \A p \in Parts : WF_vars(FetchMessage(c, p))
                       /\ WF_vars(SkipMessage(c))
                       /\ WF_vars(Save(c))
  /\ WF_vars(PoolTick)
  /\ \A t \in Tables : /\ WF_vars(CheckCooldown(t))
                       /\ WF_vars(CooldownElapses(t))
                       /\ WF_vars(MergeSucceeds(t))
                       /\ WF_vars(\E m \in pending[t] : CommitMessage(t, m))
                       /\ WF_vars(ClearTableConfig(t))
  /\ \A f \in Callers : /\ \A t \in Tables : WF_vars(LockTable(f, t))
                        /\ WF_vars(FlushReturns(f))

\* An outage of the destination or of the broker ends.
Failure(t) == MergeFails(t) \/ \E m \in pending[t] : CommitFails(t, m)
OutagesEnd == <>[][\A t \in Tables : ~Failure(t)]_vars

Fairness == Progress /\ OutagesEnd

FairSpec == Spec /\ Fairness

-----------------------------------------------------------------------------
\* The shape of every variable.
TypeOK ==
  /\ committed \in [Parts -> Nat]
  /\ position \in [Parts -> Nat \ {0}]
  /\ inflight \in [Topics -> SUBSET Ids]
  /\ cpc \in [Topics -> {"fetch", "process", "flush"}]
  /\ ppc \in {"idle", "flush"}
  /\ known \in SUBSET Tables
  /\ rows \in [Tables -> SUBSET Ids]
  /\ last \in [Tables -> SUBSET Ids]
  /\ recent \in [Tables -> BOOLEAN]
  /\ worker \in [Callers -> [Tables -> {"none", "check", "wait", "busy", "done"}]]
  /\ lock \in [Tables -> Callers \cup {Nobody}]
  /\ step \in [Tables -> {"merge", "commit"}]
  /\ pending \in [Tables -> SUBSET Ids]
  /\ dest \in SUBSET Ids
  /\ crashes \in 0..MaxCrashes

\* m's effect on its row has been superseded by r, or r is m itself.
Covers(r, m) == r.part = m.part /\ r.off >= m.off /\ SameKey(r, m)

\* No acknowledged change is missing from the destination: for every message whose
\* offset the broker considers consumed, the destination holds that row or a later
\* version of it (flush.go commits only after Merge/Append succeeded).
CommittedIsDurable ==
  \A m \in Ids : Msg(m).kind = "row" /\ m.off <= committed[m.part] =>
    \E r \in dest : Covers(r, m)

\* Nothing the running process has taken from Kafka is dropped before it is
\* committed: every processed row is still buffered or already in the destination,
\* whichever way flushes, failures and saves interleave.
NothingDropped ==
  \A m \in Ids :
    Msg(m).kind = "row" /\ m.off < position[m.part] /\ m \notin inflight[TopicOf[m.part]] =>
      \E r \in rows[TableOf(m)] \cup dest : Covers(r, m)

\* Flushing never moves a partition's committed offset backwards, whatever was
\* retried or replayed.
CommitsOnlyAdvance ==
  [][\A p \in Parts : committed'[p] >= committed[p]]_committed

\* The row changes of the log, those the destination reflects, those the broker will
\* not deliver again.
RowChanges == {m \in Ids : Msg(m).kind = "row"}
Reflected == {m \in RowChanges : \E r \in dest : Covers(r, m)}
Acknowledged == {m \in RowChanges : m.off <= committed[m.part]}

D == INSTANCE Delivery
       WITH Changes <- RowChanges, reflected <- Reflected, acknowledged <- Acknowledged

\* The pipeline implements Delivery: consumers, pool, flushes, failures and restarts
\* together only ever write without undoing an acknowledged change, or acknowledge what
\* has been written, and never both in one step.
Delivers == D!Spec

\* Every row message is committed in the end, once crashes stop.
EventuallyCommitted ==
  \A m \in Ids : Msg(m).kind = "row" => <>[](committed[m.part] >= m.off)

=============================================================================
