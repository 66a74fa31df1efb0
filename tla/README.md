# A TLA+ model of Artie Transfer

Transfer reads change events (Debezium) from Kafka or Google Pub/Sub, buffers them per table in memory, and
writes each table's buffer to a data warehouse in batches.  This directory holds TLA+
modules of its core, TLC configurations that check them on small instances, and TLAPS
proofs of the most important properties for every value of the constants.

Paths below are relative to the repository's root, which `PROJECT.json` calls `src/`.

## The system

| Component | State | Operations | Talks to |
|---|---|---|---|
| Kafka consumer, `processes/consumer/kafka.go` | one `kafka.Reader` per topic | fetch, skip tombstones, process | `process()`, broker |
| Processing, `process.go`, `configs.go` | topic map (constant) | decode, skip, save, start a flush | events, Flush |
| Events, `models/event/event.go` | none | `ToMemoryEvent`, `IsValid`, `Save` | in-memory database |
| In-memory database, `models/memory.go` | map table -> `TableData` with a mutex and `lastFlushTime` | get or create, wipe, `ShouldSkipFlush` | consumers, pool |
| Buffered table, `lib/optimization/table_data.go` | rows by key (or list), columns, last message per partition, flags | `InsertRow`, `ShouldFlush`, `MergeColumnsFromDestination` | Save, Merge |
| Flush, `processes/consumer/flush.go` | a goroutine per table | lock, merge/append, commit, wipe | destination, broker |
| Pool, `processes/pool/writes.go` | a ticker | flush every table that is not cooling down | Flush |
| Merge, `clients/shared/merge.go`, `lib/destination/dml` | none | diff, DDL, stage, backfill, merge statement(s) | warehouse, `DwhTableConfig` |
| Schema, `lib/destination/ddl`, `lib/destination/types` | cached columns, columns to delete, `createTable` | `AlterTable`, `MutateInMemoryColumns`, `ShouldDeleteColumn`, audit | warehouse |
| Clients, `clients/{snowflake,bigquery,redshift,mssql,s3}` | connections | staging, statements, retries, sweep | warehouse |
| Backfill, `clients/shared/utils.go` | a column's comment, its cached mark | `UPDATE`, `COMMENT` | warehouse |
| Types, `lib/debezium`, `lib/typing` | the kind of every buffered column | infer, map to and from the destination's types, cast | Save, Merge, clients |
| Pub/Sub, `processes/consumer/pubsub.go` | outstanding messages | receive, ack on flush | `process()` |

The consumers, the pool and the flush goroutines run concurrently.  They share the table
map, each table's mutex, and the destination.  What is hard here:

* a row may be saved, flushed, committed and wiped by different goroutines;
* the offset is committed after the write, so a crash between them means a replay, and a
  write whose answer is lost is repeated;
* a partition's offset covers *all* earlier messages of the partition, while a flush
  covers one table;
* after a rebalance old messages arrive again on top of newer rows;
* a batch folds all events of a key into one row although some values are only
  placeholders for "unchanged" (Postgres TOAST);
* DDL is applied statement by statement, against a cached idea of the table;
* a merge is a dozen statements, each of which may fail, get lost or be repeated, around a
  temporary table that others may sweep away;
* a column's type is guessed from the first value of a batch and reconciled with what the
  destination says about it, before the next value arrives.

`PROJECT.json` lists these and the other hazards at their lines, each with the properties
that would catch it.

## Modules

| Module | Models | Used by |
|---|---|---|
| `Delivery` | abstract: what Transfer promises of the changes it acknowledges | `Pipeline` |
| `Pipeline` | consumers, in-memory database, Flush, pool, commits, crash and restart | `MCPipeline`, `PipelineRebalance`, `PipelineProofs` |
| `PipelineRebalance` | `Pipeline` with a consumer group that rebalances | `MCRebalance`, `RebalanceProofs` |
| `PubSub` | the subscriber, its slots and acks, leases, with the same buffer and flush | `MCPubSub`, `PubSubProofs` |
| `RowBatch` | folding of change events and the merge statements, against the source table | `MCRowBatch`, `RowBatchProofs` |
| `SchemaEvolution` | `Diff`, `AlterTable`, the cached `DwhTableConfig`, dropped columns, failing DDL, restart | `MCSchema`, `SchemaProofs` |
| `Warehouse` | one merge statement by statement: temporary table, backfill, merge or transaction, drop, sweep, re-authentication | `MCWarehouse`, `WarehouseProofs` |
| `ColumnTypes` | a column's type and its values from Debezium to the temporary table or file, on five destinations | `MCColumnTypes`, `ColumnTypesProofs` |
| `PipelineProofs`, `RebalanceProofs`, `PubSubProofs`, `RowBatchProofs`, `SchemaProofs`, `WarehouseProofs`, `ColumnTypesProofs` | theorems | tlapm |
| `MCPipeline`, `MCRebalance`, `MCPubSub`, `MCRowBatch`, `MCSchema`, `MCWarehouse`, `MCColumnTypes` | values for the constants, symmetry | TLC |

A definition that a comment calls a *faulty variant* is not part of a specification: it is
the same definition with a plausible mistake, and replacing the original by it must make
the property fail that `PROJECT.json` names ("mutants").

### Delivery

The destination reflects a set of changes and the queue considers a set of them delivered.
Writes may add and remove the effect of changes that are not acknowledged, since a replay
passes through old versions of rows; a change may be acknowledged only while it is
reflected, and from then on it stays both.  `Pipeline!Delivers` maps `reflected` to the
row messages some row of the destination covers (itself or a later version of its key) and
`acknowledged` to the row messages at or below the committed offset of their partition.
`PubSub` keeps the first half of the promise (`AckedIsDurable`) and not the second: ordered
delivery makes the service send an acked message again when an earlier one of its key is
redelivered.

### Pipeline

A row is represented by the identity of the message that produced it (partition and
offset), because the properties only ask which change a row reflects.  The destination
`dest` is the set of messages whose effect it holds: a merge of `m` replaces the message
of the same key, so `dest` holds one message per key in replication mode (also after a
delete: the row is absent *because of* that message) and all of them in history mode.

| Variable | Code |
|---|---|
| `committed` | the consumer group's offsets at the broker |
| `position`, `inflight`, `cpc` | a `kafka.Reader`, the message its goroutine holds, where that goroutine is |
| `ppc` | the goroutine of `StartPool` |
| `known`, `rows`, `last`, `recent` | `DatabaseData.tableData`, `rowsData`/`rows`, `PartitionsToLastMessage`, `ShouldSkipFlush` |
| `worker`, `lock`, `step`, `pending` | flush goroutines by caller and table, `TableData.Mutex`, progress of its holder, messages `commitOffset` has left |

`FetchMessage`, `SkipMessage` and `Save` are the loop of a consumer.  Every path that
stores nothing (tombstone, unknown topic, undecodable key or value, skipped operation,
invalid event) is `SkipMessage`; which messages take it is part of the log.  `Save` inserts
the row, replaces the partition's last message and decides on a flush; the size criterion
(`approxSize`) is left open.  `PoolTick`, `CheckCooldown`, `LockTable`, `MergeSucceeds`,
`MergeFails`, `CommitMessage`, `CommitFails`, `ClearTableConfig`, `FlushReturns` are the
steps of `Flush`; every point at which it may be interrupted by another goroutine or fail
is a step of its own.  A failing merge has been applied or not; a failing append may have
loaded any part of its rows; a failing commit may or may not have reached the broker.
`Crash` can happen at any step: it stands for a kill, a panic, and also for the runtime
aborting on the unsynchronised iteration in `flush.go:49`.

The row-level idempotency clause (`cc.key >= c.key`) is `Stale`.  A topic with
`softDelete` is not distinguished here; `RowBatch` does that.

### RowBatch

One table whose columns all exist in the destination.  `source` is the truth, `log` the events
of each key after its committed offset and `position` how many of them the process has read.
`Create`, `Update` and `Delete` change the source and append the event; an update may carry the
placeholder for columns it did not change.  `Save` reads the next event: `GetData`, `FilledFrom`
and `Flagged` are the row, `InsertRow` and the TOAST part of `Event.Save`.  `Updated` is the
`CASE` expression of `UpdateQuery`; `GetStatement` and `GetParts` are what the statements of
`dml/merge.go` do to one row.  A merge fails with or without effect (`MergeFails`), commits fail
after any of them (`CommitFails`), and `Crash` starts again at the committed offsets, over a
destination that may have merged more.  The kind of statement and of deletes are variables
that `Init` chooses, so one run covers all four.

* Each key is a partition of its own; nothing here depends on an order between keys.
* The placeholders are those that `Event.Save` recognises (`event.go:174-185`): a string, or a
  map with the placeholder as a key.  In an array or in the bytes of a decimal it is an
  ordinary value to the code.
* The idempotency clause, and rows delivered again on top of a live buffer after a rebalance,
  are the subject of `PipelineRebalance`, which has no placeholders.

### SchemaEvolution

One table in replication mode.  The environment emits events that mention any set of
columns, with values for some of them (a delete has none): `typed` are the columns of the
batch whose kind is not `Invalid`.  `StartMerge` reads the configuration (cache or
`DESCRIBE`) and diffs; the two `AlterTable` calls are the steps `add` and `mark`/`drop`;
staging enters its columns into the same configuration; the merge statement needs all typed
columns.  A failing statement may have been applied (`LostAnswers`).  `inDoubt` is a
history variable that records the two failures the cache does not survive.

### PubSub

One subscription with ordering keys that feeds one table.  `next`, `attempt` and `acked` are
the service; `outstanding` and `queue` the client library, which hands out at most
`BufferRows + 1` messages and runs one callback per ordering key; `buffer`, `kept`, `lock`
and `step` the table and its flush.  `SkipMessage` is every way out of `process()` without a
row: the message is neither acked nor nacked.  It keeps its slot for good, since the library
gives a slot back only on `Ack` or `Nack`; its lease runs out for certain (`Abandoned`), without
counting as a fault, and the redelivered copy takes another slot.
A flush acks *all* kept copies (`CommitOffset`); an ack reports nothing, so it may be lost,
and it is ignored when a redelivery has replaced its identifier.

### Warehouse

The source table has got a column with a default and the target has rows from before.  A batch
knows the column's kind (`typed`) once it has a value for it, or a NULL with
`createAllColumnsIfAvailable`; until then `AlterTable` and the backfill skip the column and the
batch is merged without it.  `pc` follows `Merge` from `AlterTable` to the deferred drop.  Every
statement may fail with or without effect; a load may be repeated (Redshift's `COPY` by `Exec`,
BigQuery's `Put` by its client library); Snowflake's token may expire anywhere, after which
`Store.Merge` runs `Merge` again, at most `MaxRetries` times in all (10 in the code, 2 in the
run); BigQuery's quota errors restart `BackfillColumn`.  Redshift's parts run in the transaction
`tx`, which sees rows that readers do not.  `Crash` at any point leads to `Sweep`, and
`OthersSweep` is another deployment, or BigQuery's own expiry, at any time.  What the merge does
to other columns is `RowBatch`'s subject.

* A temporary table's name is the flush's random suffix and an expiry time in seconds.  A
  retry after re-authentication keeps the suffix, so in the same second it finds the table of
  the first attempt, as `Created` says, and loads into it once more.
* `merged`, `early` and `doubled` are history variables: whether a batch with the column has been
  acknowledged, which keys had a NULL acknowledged before there was a column, and which
  keys were in a batch that a merge without `SELECT DISTINCT` found more than once in its table.
* MSSQL has no backfill, so `ColumnMatchesSource` leaves it out.
* A failing part of Redshift's transaction returns without `Rollback`: the effects do not
  become visible, but the connection stays busy, which is not modelled.
* A Redshift `Append` loads through a staging table that only the sweep removes; the
  `Append` path is not part of this module.

### ColumnTypes

One column.  A value is its Go type and what the code looks at (whether a text is JSON, a
date, ...); a kind is `KindDetails` with the details that matter.  `Save` infers the kind,
`StartFlush` adds the column, caches it, and merges the types
(`MergeColumnsFromDestination`); `Staged` says that every value, cast by the destination's
client, is accepted by the column of the temporary table or file.  What columns accept
(`Accepts`), what `MERGE` converts (`Assignable`) and how a warehouse describes a column
(`Described`) are external.  Blanks in a type's name are underscores here.  Left out: lengths of strings (`OptionalStringPrecision`,
Redshift's marker for exceeded values, MSSQL's 900-character keys), time formats other than
by whether there is one, schemaless fields that change their type, and placeholders in
decimals and arrays.  Times arrive as numbers or as texts; some of either do not parse: a year
after 9999, or a time of day that no layout of `lib/typing/ext/parse.go` gives back exactly.

## Runs

| Run | Shows | Bounds and why they suffice |
|---|---|---|
| `pipeline_replication` | `CommittedIsDurable`, `NothingDropped`, `CommitsOnlyAdvance`, `Delivers` (refinement), `TypeOK` | one topic, two partitions, one table; a key is created, deleted and re-created around a skipped message, another key lives in the second partition with equal timestamps; one crash; `BufferRows` 1, so both size and timer flushes happen |
| `pipeline_two_topics` | the two invariants in history mode, where an append may be half done, with concurrent tables, and `EventuallyCommitted` under fairness | two topics with partition number 0 each, two tables, one crash |
| `rebalance_idempotent` | `CommittedIsDurable` and `NothingDropped` with redelivery on top of a live buffer | two versions of a key, one rebalance, one crash |
| `pubsub` | `AckedIsDurable`, `OnlySkippedLeak`, `TypeOK`, and `EventuallyAcked` under fairness | two ordering keys of two messages, the first of one key skipped, `BufferRows` 2 (three slots): slots run out; crashes, lost acks and expired leases of rows are bounded by `MaxFaults` 2, the expired leases of skipped messages only by the slots |
| `rowbatch` | `BatchEqualsSource`, `PlaceholderIsTransient`, `TypeOK` | two keys (symmetric), one column, two values and NULL, all four combinations of statement and delete, at most two uncommitted events of a key; no bound on the length of a behaviour, on failures or on crashes.  Keys share the column's flags and the flag for hard deletes; columns do not meet, and the proof is for any number of them |
| `schema_evolution` | `MergeFindsItsColumns`, `DropsAreJustified`, `TypeOK` | two columns, three events, clock 0..2 with padding 1, one fault (it also passes with two): enough to mark a column, take the mark back, drop a column and add it again |
| `warehouse` | `ColumnMatchesSource`, `OneRowPerKey`, `MergeIsAtomic`, `LiveTempSurvives`, `LeftoversAreSwept`, `TypeOK` | two keys (symmetric), two flushes of at most two attempts, two faults, a clock past one TTL: a failed flush, its retry and a restart between any two statements |
| `column_types` | `StagingNeverSticks`, `TempFitsTarget`, `TypeOK` | every field and destination, up to three different values in a batch, one failing flush, any number of restarts |

The pipeline rests on four properties: an acknowledged change is in the destination
(`CommittedIsDurable`), nothing read is lost before that (`NothingDropped`), offsets do not
go back (`CommitsOnlyAdvance`), and everything is acknowledged in the end
(`EventuallyCommitted`).  `BatchEqualsSource` says that what a reader would see after the
next merge is exactly the source's row, in *every* state in which the events of the key are
read, also when they are read a second time.  `PlaceholderIsTransient` says that a placeholder
is in the destination only where an event not yet merged will overwrite it.  `DropsAreJustified` says a column
is only dropped when the stream has not mentioned it in a row change for the whole padding.
`ColumnMatchesSource` says that backfilled, merged and re-merged rows end up with the
source's values, NULLs included.

### Disagreements

Four runs are expected to fail; each shows that the code does not do what a comment or the
README of the repository says.

* `pipeline_shared_topic`: one topic carries two tables.  `Save` remembers the last message
  of a partition *per table* (`event.go:222`); flushing one table commits an offset past
  rows of the other table that exist in memory only.  A crash loses them.
* `pipeline_same_table`: two topics whose tables have the same name share one `TableData`
  (`memory.go:63`) whose last messages are keyed by partition number only, so one topic's
  offset is overwritten and never committed (and would be committed through the other
  topic's reader).
* `rebalance_deletes`: with `idempotentKey`, a redelivered insert of a deleted row is
  inserted again, because there is no row left to compare with.  (Without `idempotentKey`,
  that is `IdempotentKey = FALSE` in `Rebalance_idempotent.cfg`, redelivered rows also
  overwrite newer acknowledged ones, and a crash before the newer messages are replayed
  makes this permanent.)
* `schema_retry`: the second of two `DROP COLUMN` fails once.  The cache still has both
  columns, so each retry drops the first one again, fails, and the table is not merged
  until the process is restarted.

### Known exceptions

Four modules name what their properties leave out, as narrowly as the code allows; without
the exception TLC shows a counterexample for each.

* `RowBatch!PlaceholderIsTransient` instead of "never": an update with a placeholder and a hard
  delete are merged, the process dies before the commit (`flush.go:105`), and the replayed update
  is flushed before the delete is read again.  It finds no row, and the placeholder is inserted as
  the column's value, although `columns.go:25` says "We have stripped this out".  The value is gone
  when the replay is through, which is what the property says.
* `PubSub!Clogged`: a message that `process()` passes over is never acked (`pubsub.go:103-107`).
  Each redelivery takes another of the slots that "should be the same as our buffer rows so we
  don't limit our processing throughput" (`pubsub.go:51`), until none is left and the subscription
  stalls.  No fault is needed: with the expiry of abandoned leases made fair and `MaxFaults` 0, TLC
  finds that every behaviour with a skipped message ends so.
* `Warehouse!Overwritten`: a NULL is acknowledged by a batch without the column (`typing.go:104`,
  `ddl.go:95`), and the batch that adds the column backfills it over that NULL (`utils.go:45`),
  although `table_data.go:318` promises not to "miss batch updates where the whole column in the
  batch is NULL".  Those NULLs, and only those, may show the default.
* `doubled` in `Warehouse!OneRowPerKey`: only the keys of a batch that is in its temporary table
  more than once, and is read from there without `SELECT DISTINCT`, may get several rows.  Either
  Snowflake's token expires before the `MERGE`, the drop fails with it, and the retry
  (`writes.go:45`) in the same second loads the same temporary table again; or BigQuery's client
  library repeats a `Put`, whose rows are streamed with `NoDedupeID`
  (`clients/bigquery/merge.go:25`).
* `ColumnTypes!Unparsed`: a time after the year 9999 is refused by `IsValid`
  (`lib/debezium/types.go:240`), `GetData` keeps the number, and no client can cast it; the
  batch fails for ever.  Alone in its batch it even makes the column a float.  A time that comes
  as a text and fits no layout (`lib/typing/ext/parse.go:49-87`) is taken for a string
  (`lib/typing/typing.go:138-156`) and does the same.
* `ColumnTypes!UnmarshalledMap`: `castColVal` of BigQuery prints a map with `fmt.Sprint`
  instead of marshalling it (`clients/bigquery/cast.go:55`).
* `ColumnTypes!NilDetails`: a `NUMERIC` column of BigQuery that somebody else created has no
  decimal details.  A batch in which the column is NULL throughout takes the kind over
  (`lib/optimization/table_data.go:319`), and creating the temporary table dereferences the
  nil pointer (`lib/typing/decimal/base.go:10`).
* `ColumnTypes!StaleInteger`: `NUMERIC(p, 0)` is described as an integer.  A batch of NULLs
  takes it over, the flush fails, and the decimals that follow are cast as integers although
  `table_data.go` protects decimals from just that.
* `ColumnTypes!NoFormat`: with `createAllColumnsIfAvailable`, a NULL in the first row gives a
  date column a kind without a format, and the Parquet file gets empty dates
  (`lib/parquetutil/parse_values.go:33`).

### Fairness

`EventuallyCommitted` assumes weak fairness of every goroutine step: the Go scheduler runs
every runnable goroutine, `sync.Mutex` hands over to waiters (starvation mode), and the
ticker keeps firing.  Weak fairness of `LockTable` and `Save` is enough because the holder
of a mutex always releases it and the pool does not hold it between ticks.  `OutagesEnd`
says that merges and commits do not fail for ever; the code retries them without limit.
Crashes are bounded by `MaxCrashes`.  For `EventuallyMerged` the faults are bounded by
`MaxFaults`, and the consumer and the flush goroutine are weakly fair.

`EventuallyAcked` makes the same assumptions of the callbacks, the pool and the mutex, and two of
the service: it keeps delivering, and it redelivers a message whose ack was lost (`Forgotten`).
Leases of messages that wait for a callback or a flush expire only as faults.  The lease of a
skipped message (`Abandoned`) may run out any number of times, also never: were it fair, every
behaviour with a skipped message would end with `Clogged` and the property would say nothing of
the rows.

## Proofs

`PipelineProofs` proves, for any numbers of topics, partitions, tables, messages and
crashes:

* `TypeCorrect`: `Spec => []TypeOK`, with no assumption beyond `PipelineAssumption`;
* `AcknowledgedRowsAreDurable`, `NoRowIsDropped`, `OffsetsOnlyAdvance`, from three facts
  about the deployment: `OneTablePerTopic`, `KeyInOnePartition` and `ClockFollowsLog` (the
  set-up the repository's README recommends; without the first, `pipeline_shared_topic`
  fails);
* `PipelineDelivers`: under the same facts `Spec => Delivers`.  The initial states map to
  `Delivery!Init`; a step that changes the destination maps to `Write`, for which `IInv` gives
  that acknowledged changes stay covered, a commit maps to `Acknowledge`, and every other
  step changes neither set.

The properties are not inductive.  The strengthening `IInv` adds, to the properties
themselves, what the parts of the pipeline owe each other:

* `ReaderInv`: the committed offset is behind the position; a message in flight is the only
  one of its partition, the last one fetched from it, and not yet acknowledged;
* `BufferInv`: a buffered row was seen, belongs to the table, and is the newest version seen
  of its key;
* `OffsetInv`: only the holder of a table's mutex, while it commits, has messages pending,
  and they are among the last messages; a last message was seen, belongs to the table, is at
  or after the committed offset, and there is one per partition;
* `FlushInv`: while the holder of a table's mutex is committing, every buffered row is in
  the destination or superseded there.

Each action has a lemma; lemmas on `Covers` and `Merged` (merging keeps and covers what it
should) are shared.

`RebalanceProofs` proves `ReplayDurable` (`RebalanceSpec => []CommittedIsDurable`) and
`ReplayDropsNothing` (`RebalanceSpec => []NothingDropped`), for any number of rebalances and
crashes, under `OneTablePerTopic`, `KeyInOnePartition` and `ReplayIsHarmless`: the topic is in
history mode, or it has an idempotency key, its rows are not deleted (`NoDeletes`) and the key
grows strictly from one version of a row to the next (`VersionsOrdered`).  `UpdateLog` of
`MCRebalance` satisfies them.  Each of these three is needed: `rebalance_deletes` shows it for deletes,
`IdempotentKey = FALSE` for the key, and with two versions of equal time TLC finds the older one
merged over the acknowledged newer one, since the clause is `>=` (`merge.go:91`).  `IInv` does
not survive a rebalance: the buffer may hold an older version than the reader has passed,
commits go back (so `CommitsOnlyAdvance` and `Delivers` fail) and a message in flight may be
acknowledged.  `ReplayInv` says instead what the destination and the buffers cover:

* `ReplayReaderInv`: what precedes a message in flight is kept, and if the reader went back
  behind that message, everything before the reader's offset has landed;
* `ReplayOffsetInv`: everything up to an offset that is going to be committed is kept; a
  replayed row that pushes a newer one out of the buffer pushes its offset out, too;
* `ReplayBufferInv`, and `FlushInv` as above.

`PubSubProofs` proves `TypeCorrect`, `AckedStaysDurable` (`Spec => []AckedIsDurable`) and
`SlotsReturnToService` (`Spec => []OnlySkippedLeak`) from `PubSubAssumption`: any ordering
keys, messages, buffer size and number of faults.  Neither property is inductive by itself: a
redelivery puts older versions of acked changes on their way again, so the invariant orders
the copies of a key by attempt and offset, the order in which the service hands them out.

* `QueueInv`: the callbacks of a key wait in that order, behind what was handed out;
* `FlushInv`: who holds the mutex is in `Flush`, and at the commit the destination holds
  what is buffered (`Save` needs the same mutex);
* `KeptInv`: kept copies precede those still in callbacks, and the buffered row is no
  older than a kept copy whose ack still counts;
* `AckInv`: neither the buffer nor a waiting copy is older than an acked message of its key,
  and the service delivers only later ones; it is why a stale copy cannot settle over an acked row;
* `SlotInv`: `OnlySkippedLeak`, and a callback in `Flush` has its message kept or already acked.

Most steps only let a queue stay or lose its head (`Quiet`), so one lemma serves them
all; deliveries, expired leases and crashes have their own.  That a restart resumes inside the
log needs the least element of a set of offsets, from the well-foundedness of `<` on `Nat`.

`RowBatchProofs` proves `TypeCorrect`, `FoldingIsFaithful` (`[]BatchEqualsSource`) and
`PlaceholdersDoNotStay` (`[]PlaceholderIsTransient`) for any keys, columns and values, any length of
the log, both kinds of statements and of deletes.  With replays the destination may be ahead of
what is buffered, so the invariant speaks, key by key, of what the events still to be read make of
it, and its parts relate

* the log to the source: the last event of a key is the source's row, and a placeholder stands
  for the value of the event before it;
* the log to the destination: a value that a placeholder stands for is in the destination's row,
  or that row is still to be written over from the log;
* the buffered row to the event it was folded from: each column is the event's value or a flagged
  placeholder for a value the destination has, unless a later event, merged already, took the row
  away; a buffered delete has set the flag for hard deletes where it is needed;
* a placeholder in the destination to what will overwrite it, which needs that soft deletes
  never take a row away.

`SchemaProofs` proves `TypeCorrect`, `MergeFinds` (`Spec => []MergeFindsItsColumns`) and
`DropsJustified` (`Spec => DropsAreJustified`) from `SchemaAssumption` alone: any columns,
any padding, any numbers of events, failures and restarts.  Its invariant says, in parts:

* `BatchInv`: the batch has every column of the events read and not acknowledged, and
  claims other operations only if one of them is a row change; no event is from the future;
* `TableInv`: the cache asks for `CREATE` unless it has seen the table;
* `CacheInv`: unless a `DROP` or a `CREATE` is in doubt, the cache claims only columns the
  table has, or whose `DROP` has gone through in the `AlterTable` call in progress;
* `MergeInv`: what each stage of `Merge` leaves to the next, in particular that columns about
  to be dropped are still to be dropped when the call is over and the cache is updated;
* `MarkInv`: since a column was marked no acknowledged row change has mentioned it, and
  after the audit the batch mentions no marked column.

`MarkInv` is what makes `DropsAreJustified` hold across batches: the mark lies a padding
after the clock, so events before the mark cannot count, and a merge that acknowledges a
column has taken its mark back first.

`WarehouseProofs` proves `TypeCorrect`, `ColumnIsFaithful` (`[]ColumnMatchesSource`), `OneRow`
(`[]OneRowPerKey`), `MergesAreAtomic` (`MergeIsAtomic`), `TempsSurvive` (`[]LiveTempSurvives`)
and `LeftoversSwept` (`[]LeftoversAreSwept`) from `WarehouseAssumption` alone: any keys,
numbers of flushes and faults, any TTL.  `OneRowPerKey` and `LiveTempSurvives` are parts of the
invariant; the others need

* `LoadInv`: a table found under the current name holds copies of the batch and nothing else once
  it is loaded, more than one only for Redshift's `SELECT DISTINCT` or if the keys are
  recorded in `doubled`;
* `TxInv`: what Redshift's transaction has done so far, so that its commit shows the whole
  batch at once;
* `BackfillInv`: what is cached goes with the column that is there, the mark in memory and the
  column's comment come after the `UPDATE`, a merge finds the column marked or missing, and a row
  the batch does not touch shows the source's value or is still to be backfilled, a NULL of the
  source being safe from a further backfill unless it is recorded in `early` (`Settled`);
* `LeftoverInv`: no two temporary tables have the same name, and every table but the one in use
  is paid for by a fault of its own;
* `SweepInv`: no table is left that had expired at the last sweep (BigQuery, which expires
  tables itself, excepted), because a name made later expires later.

A step that changes the target is the backfill, a merge or Redshift's commit; `TargetStep`
says so once, and both `MergesAreAtomic` and the invariance of `OneRowPerKey` use it.

`ColumnTypesProofs` proves `TypeCorrect`, `StagingSucceeds` (`[]StagingNeverSticks`) and
`TempFits` (`[]TempFitsTarget`) without assumptions: batches of any size, any number of
failing flushes.  TLC goes through every field and destination, and the proof does not depend
on that list being finite: fields fall into three classes, each with an invariant that relates
the buffered values, the kind in memory, the cached kind and the destination's column.

* `ColumnInv`: what is cached goes with the column that is there;
* `PlainInv`: kinds without details; the kind in memory is the field's own or the one the
  warehouse describes its type with (`Reread`: MSSQL reads an object back as text);
* `TimeInv`: a time comes back without its format; a number or a text that did not parse makes
  the column one only while it is buffered or after it has made the destination's column one;
* `DecimalInv`: the field, every value, the kind, the cached kind and the column are all numbers
  or all texts to the warehouse (`IsNumber`), and an integer stands for a decimal only
  over NULLs, or after a failing flush (the defect `StaleInteger`).

The lemmas under it are about the two directions of the type mapping: what creating a column
and describing it gives (`PlainReread`, `TimeReread`, `DecimalReread`), and that every client
casts a value into what the column takes (`PlainAccepted`, `TimeAccepted`,
`DecimalAccepted`).

Every invariant and action property of the runs is stated by a theorem.  Only model-checked:
liveness (`EventuallyCommitted`, `EventuallyAcked`), because fairness and ENABLED are outside
the prover.

## Not modelled

* Name escaping, JSON and BSON decoding, the bytes of decimals and geometries, file uploads,
  connections, telemetry and logging: no state the properties speak about.
* Configuration and its validation: the models take valid values as constants.
* Real time: the cooldown is "over" or not (`Pipeline`), and `SchemaEvolution` and `Warehouse`
  have a small clock.  How long a row can stay buffered when the pool's ticker and the
  cooldown have the same period, and how long retries wait, is left out.
* `PrimaryKeyValue` concatenates `name=value` pairs without a separator (`event.go:116`); the
  models identify rows by their keys, so a collision of two composite keys is left out.
* BigQuery's partition settings.  Two consequences can be read off the code: `DistinctDates`
  fails when a buffered row lacks the partition column, as every delete does
  (`table_data.go:240`), and the filter `DATE(c.field) IN (...)` holds the dates of the new
  rows only, so a row that changes its date is inserted beside its old version.
* Placeholders that `Event.Save` does not recognise (arrays, decimals).
* A default that the source sets for a column later on: the backfill of that moment fills
  every NULL the target has, including NULLs written on purpose.
* The `Append` path beyond its write: its staging and its schema changes.

## Plan

1. The `Append` path of schema evolution and staging, with the same properties.
2. BigQuery's partition settings in `RowBatch`.
3. Keys (`lib/debezium/keys.go`, `PrimaryKeyValue`) and the validation of configurations.
