--------------------------- MODULE SchemaEvolution ---------------------------
(***************************************************************************)
(* How one destination table follows the columns of its source table in    *)
(* replication mode: the schema part of clients/shared/merge.go with       *)
(* lib/typing/columns/diff.go, lib/destination/ddl/ddl.go and the cached   *)
(* DwhTableConfig (lib/destination/types/table_config.go).                 *)
(*                                                                         *)
(* Merge compares the columns of the batch with the columns it remembers   *)
(* of the destination, adds the missing ones one ALTER TABLE at a time,    *)
(* drops those that have been missing from the stream for longer than a    *)
(* padding, and only updates what it remembers when every statement of an  *)
(* AlterTable call went through.  Statements fail, answers get lost, the   *)
(* process dies, and the next Merge starts from whatever was left.         *)
(*                                                                         *)
(* The primary key, which every event carries, is not among Cols.          *)
(***************************************************************************)
EXTENDS Naturals, Sequences

CONSTANTS
  Cols,                \* columns other than the primary key
  DropDeletedColumns,  \* TopicConfig.DropDeletedColumns
  Padding,             \* constants.DeletionConfidencePadding
  LostAnswers,         \* whether a statement can be applied and still report an error
  MaxTime,             \* bound on the clock
  MaxEvents,           \* bound on the change events
  MaxFaults            \* bound on failing statements and crashes together

ASSUME SchemaAssumption ==
  /\ DropDeletedColumns \in BOOLEAN
  /\ LostAnswers \in BOOLEAN
  /\ Padding \in Nat \ {0}
  /\ MaxTime \in Nat /\ MaxEvents \in Nat /\ MaxFaults \in Nat

\* A change event: the columns it mentions (its schema, or the fields of a document),
\* those of them with a value whose type ParseValue can tell, and its execution time.
\* The event of a delete has no values.
Events ==
  {e \in [op: {"upsert", "delete"}, cols: SUBSET Cols, typed: SUBSET Cols, ts: Nat] :
     e.typed \subseteq (IF e.op = "delete" THEN {} ELSE e.cols)}

VARIABLES
  now,      \* wall clock
  log,      \* the change events so far
  read,     \* how many of them were saved into the batch or before
  done,     \* how many of them are merged and acknowledged
  batch,    \* TableData: in-memory columns, those whose kind is not Invalid,
            \* containOtherOperations, LatestCDCTs
  dest,     \* the destination table: whether it exists, and its columns
  cache,    \* the DwhTableConfig of the table, if known
  pc,       \* where Merge is
  todo,     \* columns the current AlterTable call has yet to alter
  extra,    \* srcKeysMissing of the current Merge
  inDoubt,  \* a DROP failed, or the answer to CREATE was lost, in this process
  faults

streamVars == <<now, log>>
mergeVars == <<pc, todo, extra>>
vars == <<streamVars, read, done, batch, dest, cache, mergeVars, inDoubt, faults>>

\* A TableData, as far as columns go, and a destination table.
Batches == [cols: SUBSET Cols, typed: SUBSET Cols, other: BOOLEAN, ts: Nat]
Tables == [exists: BOOLEAN, cols: SUBSET Cols]

EmptyBatch == [cols |-> {}, typed |-> {}, other |-> FALSE, ts |-> 0]

\* A DwhTableConfig.
Configs == [known: BOOLEAN, cols: SUBSET Cols, create: BOOLEAN, marks: [Cols -> Nat]]

\* No table in the ConfigMap.  A mark of 0 stands for no entry in columnsToDelete.
NoMarks == [c \in Cols |-> 0]
Unknown == [known |-> FALSE, cols |-> {}, create |-> FALSE, marks |-> NoMarks]

\* Transfer starts with no table, or with one an earlier deployment has filled.
Init ==
  /\ now = 0
  /\ log = <<>>
  /\ read = 0
  /\ done = 0
  /\ batch = EmptyBatch
  /\ dest \in {[exists |-> FALSE, cols |-> {}], [exists |-> TRUE, cols |-> Cols]}
  /\ cache = Unknown
  /\ pc = "idle"
  /\ todo = {}
  /\ extra = {}
  /\ inDoubt = FALSE
  /\ faults = 0

-----------------------------------------------------------------------------
\* NewDwhTableConfig over what DESCRIBE returns.
Described ==
  [known |-> TRUE, cols |-> dest.cols, create |-> ~dest.exists, marks |-> NoMarks]

\* GetTableConfig: the cached configuration, or one made from the destination.
GetTableConfig == IF cache.known THEN cache ELSE Described

\* Diff, and AlterTable's ShouldSkip: a column of unknown type is not added.
TargetKeysMissing(cfg) == batch.typed \ cfg.cols

\* Diff: a column the batch mentions is not missing, whatever its type.
SrcKeysMissing(cfg) == cfg.cols \ batch.cols

\* MutateInMemoryColumns(false, Add, S)
MutatedByAdd(cfg, S) ==
  [cfg EXCEPT !.cols = @ \cup S,
              !.create = FALSE,
              !.marks = [c \in Cols |-> IF c \in S THEN 0 ELSE @[c]]]

\* Faulty variant of MutatedByDelete: the columns stay in the cache.
MutatedMarksOnly(cfg, S) ==
  [cfg EXCEPT !.marks = [c \in Cols |-> IF c \in S THEN 0 ELSE @[c]]]

\* MutateInMemoryColumns(false, Delete, S)
MutatedByDelete(cfg, S) ==
  [cfg EXCEPT !.cols = @ \ S,
              !.marks = [c \in Cols |-> IF c \in S THEN 0 ELSE @[c]]]

\* AuditColumnsToDelete: a column that is back in the stream loses its mark.
Audited(cfg) ==
  IF DropDeletedColumns
  THEN [cfg EXCEPT !.marks = [c \in Cols |-> IF c \in extra THEN @[c] ELSE 0]]
  ELSE cfg

\* ShouldDeleteColumn, its verdict and its mark for a column it sees first.
MayDelete == batch.other /\ DropDeletedColumns
ShouldDelete(cfg, c) == MayDelete /\ cfg.marks[c] # 0 /\ batch.ts > cfg.marks[c]

\* Faulty variant of Marked: without the padding.
MarkedAtOnce(cfg) ==
  [cfg EXCEPT !.marks =
     [c \in Cols |-> IF c \in extra /\ MayDelete /\ @[c] = 0 THEN now ELSE @[c]]]

Marked(cfg) ==
  [cfg EXCEPT !.marks =
     [c \in Cols |-> IF c \in extra /\ MayDelete /\ @[c] = 0 THEN now + Padding ELSE @[c]]]

ToDelete(cfg) == {c \in extra : ShouldDelete(cfg, c)}

\* Faulty variant of ResumeOffset: one event too early.
ResumeTooEarly == done - 1

\* Where the reader starts after a restart.
ResumeOffset == done

-----------------------------------------------------------------------------
Tick ==
  /\ now < MaxTime
  /\ now' = now + 1
  /\ UNCHANGED <<log, read, done, batch, dest, cache, mergeVars, inDoubt, faults>>

\* A change event with the columns S the source has at the time, T of them not NULL.
Emit(op, S, T) ==
  /\ Len(log) < MaxEvents
  /\ op = "delete" => T = {}
  /\ log' = Append(log, [op |-> op, cols |-> S, typed |-> T, ts |-> now])
  /\ UNCHANGED <<now, read, done, batch, dest, cache, mergeVars, inDoubt, faults>>

\* Event.Save: the batch accumulates columns; Merge holds the table's mutex.
Save ==
  /\ pc = "idle"
  /\ read < Len(log)
  /\ LET e == log[read + 1]
     IN  batch' = [cols |-> batch.cols \cup e.cols,
                   typed |-> batch.typed \cup e.typed,
                   other |-> batch.other \/ e.op = "upsert",
                   ts |-> e.ts]
  /\ read' = read + 1
  /\ UNCHANGED <<streamVars, done, dest, cache, mergeVars, inDoubt, faults>>

-----------------------------------------------------------------------------
\* Merge up to the first AlterTable: the table's configuration and the diff.
StartMerge ==
  /\ pc = "idle"
  /\ done < read
  /\ cache' = GetTableConfig
  /\ todo' = TargetKeysMissing(GetTableConfig)
  /\ extra' = SrcKeysMissing(GetTableConfig)
  /\ pc' = "add"
  /\ UNCHANGED <<streamVars, read, done, batch, dest, inDoubt, faults>>

\* Merge returns an error; the batch stays.
Abort ==
  /\ pc' = "idle"
  /\ todo' = {}
  /\ extra' = {}
  /\ UNCHANGED <<streamVars, read, done>>

\* A statement that fails may have been applied all the same.
Fails(applied) ==
  /\ faults < MaxFaults
  /\ faults' = faults + 1
  /\ dest' \in {dest} \cup (IF LostAnswers THEN {applied} ELSE {})

\* CREATE TABLE IF NOT EXISTS does nothing to a table that is there.
Created == IF dest.exists THEN dest ELSE [exists |-> TRUE, cols |-> todo]

CreateTable ==
  /\ pc = "add"
  /\ cache.create
  /\ dest' = Created
  /\ cache' = MutatedByAdd(cache, todo)
  /\ todo' = {}
  /\ pc' = "mark"
  /\ UNCHANGED <<streamVars, read, done, batch, extra, inDoubt, faults>>

CreateFails ==
  /\ pc = "add"
  /\ cache.create
  /\ Fails(Created)
  /\ inDoubt' = (inDoubt \/ dest' # dest)
  /\ Abort
  /\ UNCHANGED <<batch, cache>>

\* ALTER TABLE ... ADD COLUMN; "already exists" is not an error.
WithColumn(c) == [dest EXCEPT !.cols = @ \cup {c}]

AddColumn(c) ==
  /\ pc = "add"
  /\ ~cache.create
  /\ c \in todo
  /\ dest' = WithColumn(c)
  /\ todo' = todo \ {c}
  /\ UNCHANGED <<streamVars, read, done, batch, cache, pc, extra, inDoubt, faults>>

AddFails(c) ==
  /\ pc = "add"
  /\ ~cache.create
  /\ c \in todo
  /\ Fails(WithColumn(c))
  /\ Abort
  /\ UNCHANGED <<batch, cache, inDoubt>>

\* All columns are added and the cache learns of them.
ColumnsAdded ==
  /\ pc = "add"
  /\ ~cache.create
  /\ todo = {}
  /\ cache' = MutatedByAdd(cache, TargetKeysMissing(cache))
  /\ pc' = "mark"
  /\ UNCHANGED <<streamVars, read, done, batch, dest, todo, extra, inDoubt, faults>>

\* The second AlterTable call asks ShouldDeleteColumn about every extra column.
MarkColumns ==
  /\ pc = "mark"
  /\ todo' = ToDelete(cache)
  /\ cache' = Marked(cache)
  /\ pc' = "drop"
  /\ UNCHANGED <<streamVars, read, done, batch, dest, extra, inDoubt, faults>>

\* ALTER TABLE ... DROP COLUMN; a column that is not there is an error.
WithoutColumn(c) == [dest EXCEPT !.cols = @ \ {c}]

DropColumn(c) ==
  /\ pc = "drop"
  /\ c \in todo \cap dest.cols
  /\ dest' = WithoutColumn(c)
  /\ todo' = todo \ {c}
  /\ UNCHANGED <<streamVars, read, done, batch, cache, pc, extra, inDoubt, faults>>

DropFails(c) ==
  /\ pc = "drop"
  /\ c \in todo
  /\ \/ c \in dest.cols /\ Fails(WithoutColumn(c))
     \/ c \notin dest.cols /\ UNCHANGED <<dest, faults>>
  /\ inDoubt' = TRUE
  /\ Abort
  /\ UNCHANGED <<batch, cache>>

\* MergeColumnsFromDestination: columns of the batch take the destination's type.
Retyped(destCols) == [batch EXCEPT !.typed = @ \cup (batch.cols \cap destCols)]

\* The cache learns of the dropped columns, then come the audit and the types.
ColumnsDropped ==
  /\ pc = "drop"
  /\ todo = {}
  /\ cache' = Audited(MutatedByDelete(cache, ToDelete(cache)))
  /\ batch' = Retyped(cache'.cols)
  /\ pc' = "stage"
  /\ UNCHANGED <<streamVars, read, done, dest, todo, extra, inDoubt, faults>>

\* PrepareTemporaryTable creates the temporary table with the typed columns of the batch
\* and enters them in the configuration of the real one.
PrepareTemporaryTable ==
  /\ pc = "stage"
  /\ cache' = MutatedByAdd(cache, batch.typed)
  /\ pc' = "merge"
  /\ UNCHANGED <<streamVars, read, done, batch, dest, todo, extra, inDoubt, faults>>

\* The merge statement names every typed column of the batch; Flush then acknowledges
\* the batch and wipes it.
MergeRows ==
  /\ pc = "merge"
  /\ batch.typed \subseteq dest.cols
  /\ pc' = "idle"
  /\ extra' = {}
  /\ done' = read
  /\ batch' = EmptyBatch
  /\ UNCHANGED <<streamVars, read, dest, cache, todo, inDoubt, faults>>

\* Staging or merging reports an error, or names a column that does not exist.
MergeFails ==
  /\ \/ pc \in {"stage", "merge"} /\ Fails(dest)
     \/ pc = "merge" /\ ~(batch.typed \subseteq dest.cols) /\ UNCHANGED <<dest, faults>>
  /\ Abort
  /\ UNCHANGED <<batch, cache, inDoubt>>

\* The process dies; the next one knows nothing of the table and reads on from what
\* was acknowledged.
Crash ==
  /\ faults < MaxFaults
  /\ faults' = faults + 1
  /\ read' = ResumeOffset
  /\ batch' = EmptyBatch
  /\ cache' = Unknown
  /\ pc' = "idle"
  /\ todo' = {}
  /\ extra' = {}
  /\ inDoubt' = FALSE
  /\ UNCHANGED <<streamVars, done, dest>>

\* The stream has ended and everything is merged.
Quiet ==
  /\ done = MaxEvents
  /\ UNCHANGED vars

\* What the flush goroutine does next, unless a statement fails on it.
MergeStep ==
  \/ StartMerge
  \/ CreateTable
  \/ \E c \in Cols : AddColumn(c) \/ DropColumn(c)
  \/ ColumnsAdded
  \/ MarkColumns
  \/ ColumnsDropped
  \/ PrepareTemporaryTable
  \/ MergeRows

FailingStep ==
  \/ CreateFails
  \/ \E c \in Cols : AddFails(c) \/ DropFails(c)
  \/ MergeFails

Next ==
  \/ Tick
  \/ \E op \in {"upsert", "delete"}, S \in SUBSET Cols : \E T \in SUBSET S : Emit(op, S, T)
  \/ Save
  \/ MergeStep
  \/ FailingStep
  \/ Crash
  \/ Quiet

Spec == Init /\ [][Next]_vars

\* The consumer keeps reading and a flush in progress goes on.
FairSpec == Spec /\ WF_vars(Save) /\ WF_vars(MergeStep \/ FailingStep)

-----------------------------------------------------------------------------
\* The shape of every variable; a batch lies between what is acknowledged and what
\* was produced.
TypeOK ==
  /\ now \in Nat
  /\ log \in Seq(Events)
  /\ done \in Nat /\ read \in Nat /\ done <= read /\ read <= Len(log)
  /\ batch \in Batches
  /\ dest \in Tables
  /\ cache \in Configs
  /\ pc \in {"idle", "add", "mark", "drop", "stage", "merge"}
  /\ todo \in SUBSET Cols
  /\ extra \in SUBSET Cols
  /\ inDoubt \in BOOLEAN
  /\ faults \in Nat

\* The merge statement only names columns the destination has, however ALTER TABLE
\* statements were interrupted and repeated.  The exceptions, until the process is
\* restarted: a DROP COLUMN that failed, and a CREATE TABLE whose answer was lost.
MergeFindsItsColumns == pc = "merge" /\ ~inDoubt => batch.typed \subseteq dest.cols

\* A column is dropped only when no row change of the last Padding mentioned it, and
\* there was a row change without it (ShouldDeleteColumn, AuditColumnsToDelete).
Upserts == {i \in 1..read : log[i].op = "upsert"}
Unused(c) ==
  /\ \E i \in Upserts : c \notin log[i].cols /\ \A j \in Upserts : j >= i => c \notin log[j].cols
  /\ \A i \in Upserts : log[i].ts + Padding >= batch.ts => c \notin log[i].cols
DropsAreJustified == [][\A c \in dest.cols \ dest'.cols : Unused(c)]_dest

\* Every change is merged in the end, once statements stop failing and without having
\* to restart the process.
EventuallyMerged == \A i \in 1..MaxEvents : [](Len(log) >= i => <>(done >= i))

=============================================================================
