------------------------------ MODULE Warehouse ------------------------------
(***************************************************************************)
(* What one Merge does to the data warehouse, statement by statement:      *)
(* clients/shared/merge.go with the PrepareTemporaryTable, Merge and Sweep *)
(* of the four warehouse clients, the backfill of a new column             *)
(* (clients/shared/utils.go) and the retries of lib/db/db.go.  The source  *)
(* table has got a column with a default value; the target table has rows  *)
(* from before.  Merge adds the column once a batch knows its kind, loads  *)
(* the batch into a temporary table, backfills the older rows, records     *)
(* that in the column's comment, merges the batch and drops the temporary  *)
(* table.                                                                  *)
(*                                                                         *)
(* Statements fail with or without effect, a load is repeated because its  *)
(* answer was lost, Snowflake's token expires and its Merge starts over,   *)
(* the process dies between two statements, and another deployment sweeps  *)
(* the same schema.                                                        *)
(***************************************************************************)
EXTENDS Naturals, FiniteSets

CONSTANTS
  Keys,       \* primary keys
  TTL,        \* constants.TemporaryTableTTL
  MaxRetries, \* maxRetries of the Snowflake client
  MaxTime,    \* bound on the clock
  MaxFlushes, \* bound on the calls of Flush
  MaxFaults   \* bound on failing statements, repeated loads and crashes

ASSUME WarehouseAssumption ==
  /\ TTL \in Nat /\ MaxRetries \in Nat \ {0}
  /\ MaxTime \in Nat /\ MaxFlushes \in Nat /\ MaxFaults \in Nat

Kinds == {"snowflake", "bigquery", "redshift", "mssql"}

\* The new column in a row; a row that does not exist is "absent".
Rows == {"absent", "null", "default", "set"}

\* The target table: per key, how many rows there are and the column in them.
Tables == [Keys -> [n: Nat, v: Rows]]

\* A temporary table's name: the suffix of the flush and the expiry time; and how many
\* copies of the batch it holds.
Names == [suffix: Nat, expiry: Nat]
Temps == [name: Names, copies: Nat]

VARIABLES
  kind,      \* Label() of the destination
  createAll, \* the setting createAllColumnsIfAvailable
  now,       \* wall clock, in the seconds of TempTableSuffix
  source,    \* per key, the source table's row
  batch,     \* per key, the buffered row; "none" when there is none
  typed,     \* the batch knows the new column's kind, which is Invalid otherwise
  target,    \* the rows of the target table; NULL also stands for a missing column
  exists,    \* the target table has the column
  comment,   \* the column's comment in the warehouse says {"backfilled": true}
  config,    \* the cached DwhTableConfig: "none", "missing", "column" or "backfilled"
  temps,     \* the temporary tables of the schema
  suffix,    \* temporaryTableSuffix; fresh for every flush
  name,      \* temporaryTableName of the current Merge
  tries,     \* attempts of this flush at Merge
  pc,        \* where the process is
  result,    \* what Merge is about to return: "ok", "error", "auth"
  tx,        \* the target as Redshift's transaction sees it; reset with the flush
  merged,    \* history: a batch with the new column has been acknowledged
  early,     \* history: keys whose NULL was acknowledged by a merge without the column
  doubled,   \* history: keys of a batch that was twice in a table read without DISTINCT
  swept,     \* when this process had swept the schema
  faults

settings == <<kind, createAll>>
bufferVars == <<source, batch, typed>>
warehouseVars == <<target, exists, comment, temps>>
flushVars == <<suffix, name, tries, pc, result, tx>>
history == <<merged, early, doubled>>
vars == <<settings, now, bufferVars, warehouseVars, config, flushVars, history, swept, faults>>

NoBatch == [k \in Keys |-> "none"]
NoName == [suffix |-> 0, expiry |-> 0]

\* The column was added to the source with a default, which its rows now have; the
\* target got those rows before.
Init ==
  /\ kind \in Kinds
  /\ createAll \in BOOLEAN
  /\ now = 0
  /\ source \in [Keys -> {"absent", "default"}]
  /\ batch = NoBatch
  /\ typed = FALSE
  /\ target = [k \in Keys |-> IF source[k] = "absent" THEN [n |-> 0, v |-> "absent"]
                                                      ELSE [n |-> 1, v |-> "null"]]
  /\ exists = FALSE
  /\ comment = FALSE
  /\ config = "none"
  /\ temps = {}
  /\ suffix = 0
  /\ name = NoName
  /\ tries = 0
  /\ pc = "idle"
  /\ result = "ok"
  /\ tx = target
  /\ merged = FALSE
  /\ early = {}
  /\ doubled = {}
  /\ swept = 0
  /\ faults = 0

-----------------------------------------------------------------------------
Fault == faults < MaxFaults /\ faults' = faults + 1

Current == {t \in temps : t.name = name}

\* Faulty variant of ShouldDeleteFromName: every temporary table goes.
AlwaysDelete(t) == TRUE

\* ddl.ShouldDeleteFromName: the time in the name has passed.
ShouldDeleteFromName(t) == now > t.name.expiry

Unexpired == {t \in temps : ~ShouldDeleteFromName(t)}

Tick ==
  /\ now < MaxTime
  /\ now' = now + 1
  /\ UNCHANGED <<settings, bufferVars, warehouseVars, config, flushVars, history, swept, faults>>

\* A change of the source reaches the buffer; Merge holds the table's mutex.  ParseValue
\* finds no kind in a NULL, unless the columns of the schema are all to be created; a
\* deletion carries no value.
Save(k, v) ==
  /\ pc = "idle"
  /\ suffix < MaxFlushes
  /\ source' = [source EXCEPT ![k] = v]
  /\ batch' = [batch EXCEPT ![k] = v]
  /\ typed' = (typed \/ v = "set" \/ (v = "null" /\ createAll))
  /\ UNCHANGED <<settings, now, warehouseVars, config, flushVars, history, swept, faults>>

\* ResetTempTableSuffix, then Merge.
StartFlush ==
  /\ pc = "idle"
  /\ batch # NoBatch
  /\ suffix < MaxFlushes
  /\ suffix' = suffix + 1
  /\ tries' = 1
  /\ pc' = "alter"
  /\ UNCHANGED <<settings, now, bufferVars, warehouseVars, config, name, result, tx, history, swept, faults>>

\* Faulty variant of GetTableConfig: the comment is cached as it was read.
GetTableConfigRaw ==
  CASE config # "none" -> config
    [] config = "none" /\ ~exists -> "missing"
    [] OTHER -> IF comment THEN "comment" ELSE "column"

\* GetTableConfig describes the table unless its configuration is cached.
GetTableConfig ==
  CASE config # "none" -> config
    [] config = "none" /\ ~exists -> "missing"
    [] OTHER -> IF comment THEN "backfilled" ELSE "column"

\* Diff finds the column in the batch alone, and AlterTable does not skip it as Invalid.
AddsColumn == GetTableConfig = "missing" /\ typed

\* GetTableConfig, then AlterTable, which takes a column that already exists for added.
\* The temporary table's name is made from the flush's suffix and the clock.
AlterTable ==
  /\ pc = "alter"
  /\ exists' = (exists \/ AddsColumn)
  /\ config' = IF AddsColumn THEN "column" ELSE GetTableConfig
  /\ name' = [suffix |-> suffix, expiry |-> now + TTL]
  /\ pc' = "create"
  /\ UNCHANGED <<settings, now, bufferVars, target, comment, temps, suffix, tries, result, tx, history, swept, faults>>

\* The table cannot be described, or ALTER TABLE fails, with or without effect.  Merge
\* returns the error before it has registered the drop.
AlterFails ==
  /\ pc = "alter"
  /\ Fault
  /\ \/ UNCHANGED <<config, exists>>
     \/ config' = GetTableConfig /\ UNCHANGED exists
     \/ AddsColumn /\ config' = GetTableConfig /\ exists' = TRUE
  /\ pc' = "return"
  /\ result' = "error"
  /\ UNCHANGED <<settings, now, bufferVars, target, comment, temps, suffix, name, tries, tx, history, swept>>

\* CREATE TABLE IF NOT EXISTS; MSSQL's "already an object named" is not an error.
Created == IF Current = {} THEN temps \cup {[name |-> name, copies |-> 0]} ELSE temps

CreateTemporaryTable ==
  /\ pc = "create"
  /\ temps' = Created
  /\ pc' = "load"
  /\ UNCHANGED <<settings, now, bufferVars, target, comment, exists, config, suffix, name, tries, result, tx, history, swept, faults>>

\* The temporary table after c copies of the batch were loaded.
Loaded(c) == (temps \ Current) \cup {[t EXCEPT !.copies = @ + c] : t \in Current}

\* A load whose answer was lost is repeated: Exec repeats Redshift's COPY, and BigQuery's
\* Put its rows, which have no insert ID (NoDedupeID).  Snowflake has purged the file by
\* then, and MSSQL's bulk copy runs in a transaction.
Repeatable == kind \in {"redshift", "bigquery"}

\* The keys that a merge of c more copies would read several times; Redshift's merge has
\* a SELECT DISTINCT.
Doubled(c) ==
  {k \in Keys : kind # "redshift" /\ batch[k] # "none" /\ \E t \in Current : t.copies + c > 1}

Load ==
  /\ pc = "load"
  /\ Current # {}
  /\ \/ temps' = Loaded(1) /\ doubled' = doubled \cup Doubled(1) /\ UNCHANGED faults
     \/ Repeatable /\ Fault /\ temps' = Loaded(2) /\ doubled' = doubled \cup Doubled(2)
  /\ pc' = "backfill"
  /\ UNCHANGED <<settings, now, bufferVars, target, comment, exists, config, suffix, name, tries, result, tx, merged, early, swept>>

\* Creating or loading fails, with or without effect: the temporary table stays, as the
\* drop is only deferred once PrepareTemporaryTable has returned.
PrepareFails ==
  /\ \/ /\ pc \in {"create", "load"}
        /\ Fault
        /\ temps' \in {temps, IF pc = "create" THEN Created ELSE Loaded(1)}
     \/ pc = "load" /\ Current = {} /\ UNCHANGED <<temps, faults>>
  /\ pc' = "return"
  /\ result' = "error"
  /\ UNCHANGED <<settings, now, bufferVars, target, comment, exists, config, suffix, name, tries, tx, history, swept>>

-----------------------------------------------------------------------------
\* Faulty variant of ShouldBackfill: whatever was recorded.
AlwaysBackfill == kind # "mssql" /\ config # "missing"

\* The column has a default, a kind and no mark; there is no backfill for MSSQL.
ShouldBackfill == kind # "mssql" /\ config = "column"

\* UPDATE target SET col = default WHERE col IS NULL
BackfilledRows == [k \in Keys |-> IF target[k].v = "null" THEN [target[k] EXCEPT !.v = "default"] ELSE target[k]]

Backfill ==
  /\ pc = "backfill"
  /\ ShouldBackfill
  /\ target' = BackfilledRows
  /\ pc' = "comment"
  /\ UNCHANGED <<settings, now, bufferVars, exists, comment, config, temps, suffix, name, tries, result, tx, history, swept, faults>>

\* BackfillColumn had nothing to do or is through, and UpsertColumn marks the cached
\* column; a column of the Invalid kind is skipped.
MarkBackfilled ==
  /\ config' = IF config = "missing" THEN config ELSE "backfilled"
  /\ pc' = IF kind = "redshift" THEN "insert" ELSE "merge"
  /\ tx' = target

SkipBackfill ==
  /\ pc = "backfill"
  /\ ~ShouldBackfill
  /\ MarkBackfilled
  /\ UNCHANGED <<settings, now, bufferVars, warehouseVars, suffix, name, tries, result, history, swept, faults>>

\* COMMENT ON COLUMN, or its BigQuery form.
CommentOnColumn ==
  /\ pc = "comment"
  /\ comment' = TRUE
  /\ MarkBackfilled
  /\ UNCHANGED <<settings, now, bufferVars, target, exists, temps, suffix, name, tries, result, history, swept, faults>>

\* BigQuery's table quota: BackfillColumn starts over.
RetryBackfill ==
  /\ kind = "bigquery"
  /\ pc = "comment"
  /\ Fault
  /\ pc' = "backfill"
  /\ comment' \in {comment, TRUE}
  /\ UNCHANGED <<settings, now, bufferVars, target, exists, temps, config, suffix, name, tries, result, tx, history, swept>>

\* Merge is over, and its deferred drop comes next.
Leave(r) == pc' = "drop" /\ result' = r

\* UPDATE or COMMENT fails, with or without effect.
BackfillFails ==
  /\ \/ pc = "backfill" /\ ShouldBackfill /\ target' \in {target, BackfilledRows} /\ UNCHANGED comment
     \/ pc = "comment" /\ comment' \in {comment, TRUE} /\ UNCHANGED target
  /\ Fault
  /\ Leave("error")
  /\ UNCHANGED <<settings, now, bufferVars, exists, temps, config, suffix, name, tries, tx, history, swept>>

-----------------------------------------------------------------------------
\* Faulty variant of Copies: without SELECT DISTINCT.
CopiesLoaded == {t.copies : t \in Current}

\* How often the subquery of the merge returns a row of the batch: SubQueryDedupe.
Copies == {IF kind = "redshift" THEN 1 ELSE t.copies : t \in Current}

\* The three effects of a merge on the rows of a table.
Upserts == {k \in Keys : batch[k] \notin {"none", "absent"}}
Deletes == {k \in Keys : batch[k] = "absent"}
InsertedInto(rows, keys, c) ==
  [k \in Keys |-> IF k \in keys /\ rows[k].n = 0
                  THEN [n |-> c, v |-> IF k \in Deletes THEN "null" ELSE batch[k]] ELSE rows[k]]
UpdatedIn(rows) ==
  [k \in Keys |-> IF k \in Upserts /\ rows[k].n > 0
                  THEN [rows[k] EXCEPT !.v = batch[k]] ELSE rows[k]]
DeletedFrom(rows) ==
  [k \in Keys |-> IF k \in Deletes THEN [n |-> 0, v |-> "absent"] ELSE rows[k]]

ContainsHardDeletes == Deletes # {}

\* What one MERGE makes of the target: WHEN MATCHED it deletes or updates, and it
\* inserts what is not marked as deleted.
MergedRows(c) == DeletedFrom(InsertedInto(UpdatedIn(target), Upserts, c))

\* MERGE refuses to update or delete a row that several rows of the subquery match.
Ambiguous(c) == c > 1 /\ \E k \in Keys : batch[k] # "none" /\ target[k].n > 0

\* One MERGE statement: Snowflake, BigQuery, MSSQL.
Merge ==
  /\ pc = "merge"
  /\ \E c \in Copies :
       IF Ambiguous(c)
       THEN Leave("error") /\ UNCHANGED target
       ELSE Leave("ok") /\ target' = MergedRows(c)
  /\ UNCHANGED <<settings, now, bufferVars, exists, comment, config, temps, suffix, name, tries, tx, history, swept, faults>>

\* Faulty variant of AfterPart: the part is executed outside of the transaction.
AfterPartAutocommit(rows) == rows

\* The target after one part of Redshift's transaction.
AfterPart(rows) == target

\* tx.Exec of one part: INSERT, of deleted rows too, UPDATE and, if there are hard
\* deletes, DELETE.
MergePart ==
  /\ \/ pc = "insert" /\ pc' = "update" /\ \E c \in Copies : tx' = InsertedInto(tx, Upserts \cup Deletes, c)
     \/ /\ pc = "update"
        /\ Copies # {}
        /\ tx' = UpdatedIn(tx)
        /\ pc' = IF ContainsHardDeletes THEN "delete" ELSE "commit"
     \/ pc = "delete" /\ Copies # {} /\ tx' = DeletedFrom(tx) /\ pc' = "commit"
  /\ target' = AfterPart(tx')
  /\ UNCHANGED <<settings, now, bufferVars, exists, comment, config, temps, suffix, name, tries, result, history, swept, faults>>

CommitTx ==
  /\ pc = "commit"
  /\ target' = tx
  /\ Leave("ok")
  /\ UNCHANGED <<settings, now, bufferVars, exists, comment, config, temps, suffix, name, tries, tx, history, swept, faults>>

\* The warehouse reports an error: a MERGE or a COMMIT may have taken effect, a part of
\* the transaction has not, and the transaction is left without a Rollback.  Or the
\* temporary table is gone.
MergeFails ==
  /\ \/ pc = "merge" /\ Fault /\ \E c \in Copies :
          target' \in {target} \cup (IF Ambiguous(c) THEN {} ELSE {MergedRows(c)})
     \/ pc \in {"insert", "update", "delete"} /\ Fault /\ UNCHANGED target
     \/ pc = "commit" /\ Fault /\ target' \in {target, tx}
     \/ pc \in {"merge", "insert", "update", "delete"} /\ Current = {} /\ UNCHANGED <<target, faults>>
  /\ Leave("error")
  /\ UNCHANGED <<settings, now, bufferVars, exists, comment, config, temps, suffix, name, tries, tx, history, swept>>

\* Snowflake's "Authentication token has expired": the statement was not executed.
AuthExpires ==
  /\ kind = "snowflake"
  /\ pc \in {"alter", "create", "load", "backfill", "comment", "merge"}
  /\ pc = "backfill" => ShouldBackfill
  /\ Fault
  /\ UNCHANGED config \/ (pc = "alter" /\ config' = GetTableConfig)
  /\ result' = "auth"
  /\ pc' = IF pc \in {"alter", "create", "load"} THEN "return" ELSE "drop"
  /\ UNCHANGED <<settings, now, bufferVars, warehouseVars, suffix, name, tries, tx, history, swept>>

-----------------------------------------------------------------------------
\* Faulty variant of Dropped: the deferred drop is missing.
DroppedNothing == temps

\* DROP TABLE IF EXISTS
Dropped == temps \ Current

\* The deferred DropTemporaryTable; with an expired token it fails like the rest.
DropTemporaryTable ==
  /\ pc = "drop"
  /\ result # "auth"
  /\ temps' = Dropped
  /\ pc' = "return"
  /\ UNCHANGED <<settings, now, bufferVars, target, comment, exists, config, suffix, name, tries, result, tx, history, swept, faults>>

DropFails ==
  /\ pc = "drop"
  /\ IF result = "auth" THEN UNCHANGED faults ELSE Fault
  /\ pc' = "return"
  /\ UNCHANGED <<settings, now, bufferVars, warehouseVars, config, suffix, name, tries, result, tx, history, swept>>

\* Store.Merge of Snowflake calls Merge again after reestablishConnection, up to
\* maxRetries times in all.  The suffix is that of the flush, so an attempt in the same
\* second finds the temporary table of the last one.
Reauthenticate ==
  /\ pc = "return"
  /\ result = "auth"
  /\ tries < MaxRetries
  /\ tries' = tries + 1
  /\ result' = "ok"
  /\ pc' = "alter"
  /\ UNCHANGED <<settings, now, bufferVars, warehouseVars, config, suffix, name, tx, history, swept, faults>>

\* Flush acknowledges and wipes a merged batch, and keeps it after an error.
FlushReturns ==
  /\ pc = "return"
  /\ result = "auth" => tries >= MaxRetries
  /\ \/ /\ result = "ok"
        /\ batch' = NoBatch
        /\ typed' = FALSE
        /\ merged' = (merged \/ config # "missing")
        /\ early' = {k \in Keys : IF batch[k] = "none" THEN k \in early
                                   ELSE config = "missing" /\ batch[k] = "null"}
     \/ result # "ok" /\ UNCHANGED <<batch, typed, merged, early>>
  /\ pc' = "idle"
  /\ result' = "ok"
  /\ name' = NoName
  /\ tx' = target
  /\ tries' = 0
  /\ UNCHANGED <<settings, now, source, warehouseVars, config, suffix, doubled, swept, faults>>

\* The process dies.  The queue delivers the changes of the batch again.
Crash ==
  /\ pc # "sweep"
  /\ Fault
  /\ pc' = "sweep"
  /\ config' = "none"
  /\ result' = "ok"
  /\ name' = NoName
  /\ tx' = target
  /\ tries' = 0
  /\ UNCHANGED <<settings, now, bufferVars, warehouseVars, suffix, history, swept>>

\* DataWarehouse(): Sweep before anything is consumed; BigQuery's tables carry an
\* expiration_timestamp instead.
Sweep ==
  /\ pc = "sweep"
  /\ temps' = IF kind = "bigquery" THEN temps ELSE Unexpired
  /\ swept' = now
  /\ pc' = "idle"
  /\ UNCHANGED <<settings, now, bufferVars, target, comment, exists, config, suffix, name, tries, result, tx, history, faults>>

\* Another deployment starts and sweeps the schema, or BigQuery expires its tables.
OthersSweep ==
  /\ Unexpired # temps
  /\ temps' = Unexpired
  /\ UNCHANGED <<settings, now, bufferVars, target, comment, exists, config, flushVars, history, swept, faults>>

Next ==
  \/ Tick
  \/ \E k \in Keys, v \in {"absent", "null", "set"} : Save(k, v)
  \/ StartFlush \/ AlterTable \/ AlterFails
  \/ CreateTemporaryTable \/ Load \/ PrepareFails
  \/ Backfill \/ SkipBackfill \/ CommentOnColumn \/ RetryBackfill \/ BackfillFails
  \/ Merge \/ MergePart \/ CommitTx \/ MergeFails \/ AuthExpires
  \/ DropTemporaryTable \/ DropFails \/ Reauthenticate \/ FlushReturns
  \/ Crash \/ Sweep \/ OthersSweep

Spec == Init /\ [][Next]_vars

-----------------------------------------------------------------------------
\* The shape of every variable.
TypeOK ==
  /\ kind \in Kinds
  /\ createAll \in BOOLEAN
  /\ now \in Nat
  /\ source \in [Keys -> Rows]
  /\ batch \in [Keys -> Rows \cup {"none"}]
  /\ typed \in BOOLEAN
  /\ target \in Tables
  /\ exists \in BOOLEAN
  /\ comment \in BOOLEAN
  /\ config \in {"none", "missing", "column", "backfilled"}
  /\ temps \subseteq Temps
  /\ suffix \in Nat
  /\ name \in Names
  /\ tries \in Nat
  /\ pc \in {"idle", "alter", "create", "load", "backfill", "comment", "merge", "insert",
             "update", "delete", "commit", "drop", "return", "sweep"}
  /\ result \in {"ok", "error", "auth"}
  /\ tx \in Tables
  /\ merged \in BOOLEAN
  /\ early \subseteq Keys
  /\ doubled \subseteq Keys
  /\ swept \in Nat
  /\ faults \in Nat

\* A NULL that was acknowledged before the target had the column cannot be told from a
\* row of before, and the backfill gives it the default.
Overwritten(k) == k \in early /\ source[k] = "null" /\ target[k].v = "default"

\* Once a batch with the column is acknowledged, the target shows what the source shows
\* whenever nothing is buffered: rows from before have the default, a NULL merged into
\* the column is never backfilled, whichever statement failed or was repeated and however
\* often the process restarted between ALTER, UPDATE, COMMENT and MERGE.  The one
\* exception is a NULL acknowledged before there was a column to write it to.
ColumnMatchesSource ==
  kind # "mssql" /\ merged /\ pc = "idle" /\ batch = NoBatch =>
    \A k \in Keys : target[k].v = source[k] \/ Overwritten(k)

\* No key has two rows in the target, although a load may be repeated and a merge may run
\* again for the same batch, after failures, crashes and expired tokens.  The exception
\* are the keys of a batch that a MERGE without SELECT DISTINCT found twice in its
\* temporary table: BigQuery's Put repeats rows without an insert ID, and Snowflake's
\* retry loads them into the table of the attempt before.
OneRowPerKey ==
  \A k \in Keys \ doubled : target[k].n = IF target[k].v = "absent" THEN 0 ELSE 1

\* A reader of the target never sees part of a batch: rows change by the backfill alone,
\* or by the whole batch (Redshift's parts run in one transaction).
MergeIsAtomic ==
  [][\/ target' = BackfilledRows
     \/ \A k \in Keys : target'[k].v = IF batch[k] = "none" THEN target[k].v ELSE batch[k]]_target

\* Sweeping never takes a temporary table away from a flush before its TTL has passed.
LiveTempSurvives ==
  pc \in {"backfill", "comment", "merge", "insert", "update", "delete", "commit"} /\ now <= name.expiry =>
    Current # {}

\* Temporary tables do not pile up: only a fault leaves one behind, and none that had
\* expired when the process started outlives its start.
LeftoversAreSwept ==
  /\ Cardinality({t \in temps : t.name # name}) <= faults
  /\ kind # "bigquery" /\ pc # "sweep" => \A t \in temps : t.name.expiry >= swept

=============================================================================
