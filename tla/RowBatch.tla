------------------------------ MODULE RowBatch ------------------------------
(***************************************************************************)
(* What batches do to the rows of a table in replication mode.             *)
(* Change events are folded into one row per primary key while they wait   *)
(* in memory (TableData.InsertRow), with Postgres' "unavailable" TOAST     *)
(* placeholders filled in from the row before; the flush then applies the  *)
(* folded rows with the statements of lib/destination/dml/merge.go and     *)
(* commits the offsets.  A process that dies starts again at the committed *)
(* offsets and reads the events after them a second time, over a           *)
(* destination that may have merged them already.  The module keeps the    *)
(* source table beside the buffer and the destination, so that folding and *)
(* merging can be compared with what really happened.                      *)
(*                                                                         *)
(* Every key has a partition of its own: Kafka orders the events of a key  *)
(* and nothing here depends on an order between keys.  The placeholders    *)
(* are those Event.Save recognises (a string, or a map with the            *)
(* placeholder for a key); in an array or a decimal it is an ordinary      *)
(* value to Save.                                                          *)
(***************************************************************************)
EXTENDS Naturals, Sequences

CONSTANTS
  Keys,        \* primary keys
  Cols,        \* columns other than the primary key
  Values,      \* column values
  Null,        \* SQL NULL
  Toast,       \* constants.ToastUnavailableValuePlaceholder
  Missing,     \* a column that a buffered row does not mention
  NoRow,       \* no row of that key
  MaxLog       \* bound on the uncommitted events of a key

Fields == Values \cup {Null}
SourceRows == [Cols -> Fields]
BufferRow == [deleted: BOOLEAN, val: [Cols -> Fields \cup {Toast, Missing}]]
DestRows == [deleted: BOOLEAN, val: [Cols -> Fields \cup {Toast}]]

\* A change event: the source row after it, and the columns it left alone and shows
\* only a placeholder for.
Events == [v: SourceRows \cup {NoRow}, T: SUBSET Cols]

ASSUME RowBatchAssumption ==
  /\ Null \notin Values
  /\ Toast \notin Fields
  /\ Missing \notin Fields \cup {Toast}
  /\ NoRow \notin [Cols -> Fields \cup {Toast}]
  /\ NoRow \notin SourceRows \cup BufferRow \cup DestRows
  /\ MaxLog \in Nat

VARIABLES
  softDelete,   \* TopicConfig.SoftDelete
  statement,    \* "merge": one MERGE statement; "parts": Redshift's INSERT, UPDATE, DELETE
  source,       \* the source table
  log,          \* the events of each key after its committed offset
  position,     \* how many of them the process has read
  buffer,       \* TableData.rowsData
  toastCol,     \* Column.ToastColumn of the in-memory columns
  hardDeletes,  \* TableData.containsHardDeletes
  dest          \* the destination table; "deleted" is its __artie_delete column

\* The configuration is read once, when the process starts.
configVars == <<softDelete, statement>>
vars == <<configVars, source, log, position, buffer, toastCol, hardDeletes, dest>>

NoFlags == [c \in Cols |-> FALSE]

Init ==
  /\ softDelete \in BOOLEAN
  /\ statement \in {"merge", "parts"}
  /\ source = [k \in Keys |-> NoRow]
  /\ log = [k \in Keys |-> <<>>]
  /\ position = [k \in Keys |-> 0]
  /\ buffer = [k \in Keys |-> NoRow]
  /\ toastCol = NoFlags
  /\ hardDeletes = FALSE
  /\ dest = [k \in Keys |-> NoRow]

-----------------------------------------------------------------------------
\* The row GetData makes of a delete: the marker and the key, nothing else.
DeletedRow == [deleted |-> TRUE, val |-> [c \in Cols |-> Missing]]

\* Faulty variant of FilledFrom: a placeholder stays in the folded row.
NotFilled(row, prev) == row

\* InsertRow: a placeholder takes the value the buffered row has for that column.
FilledFrom(row, prev) ==
  [row EXCEPT !.val = [c \in Cols |->
     IF row.val[c] = Toast /\ prev # NoRow /\ prev.val[c] # Missing
     THEN prev.val[c] ELSE row.val[c]]]

\* Faulty variant of Flagged: the column is not marked as a TOAST column.
NotFlagged(row) == toastCol

\* Event.Save marks the columns in which it meets a placeholder.
Flagged(row) == [c \in Cols |-> toastCol[c] \/ row.val[c] = Toast]

\* The row GetData makes of an event.
GetData(e) ==
  IF e.v = NoRow THEN DeletedRow
  ELSE [deleted |-> FALSE, val |-> [c \in Cols |-> IF c \in e.T THEN Toast ELSE e.v[c]]]

\* The next event of key k is read: Event.Save and TableData.InsertRow.  The folded
\* row replaces the old one, and a delete of a topic without softDelete is remembered.
Save(k) ==
  /\ position[k] < Len(log[k])
  /\ LET row == GetData(log[k][position[k] + 1])
     IN  /\ buffer' = [buffer EXCEPT ![k] = FilledFrom(row, @)]
         /\ toastCol' = Flagged(row)
         /\ hardDeletes' = (hardDeletes \/ (row.deleted /\ ~softDelete))
  /\ position' = [position EXCEPT ![k] = @ + 1]
  /\ UNCHANGED <<configVars, source, log, dest>>

-----------------------------------------------------------------------------
\* Faulty variant of Staged: absent columns are staged as they are.
StagedRaw(row) == row.val

\* A staged row: the temporary table has NULL where the row has no value.
Staged(row) == [c \in Cols |-> IF row.val[c] = Missing THEN Null ELSE row.val[c]]

\* Columns.UpdateQuery: a TOAST column keeps its value when the staged value is the
\* placeholder.
Updated(cc, c) ==
  [x \in Cols |-> IF toastCol[x] /\ Staged(cc)[x] = Toast THEN c.val[x] ELSE Staged(cc)[x]]

\* The __artie_delete column exists only with soft deletes.
Marker(cc) == cc.deleted /\ softDelete

Inserted(cc) == [deleted |-> Marker(cc), val |-> Staged(cc)]
UpdatedRow(cc, c) == [deleted |-> Marker(cc), val |-> Updated(cc, c)]

\* GetStatement and GetMSSQLStatement: what MERGE makes of the destination's row c,
\* given the staged row cc of the same key.
GetStatement(cc, c) ==
  CASE c = NoRow /\ cc.deleted                 -> NoRow
    [] c = NoRow /\ ~cc.deleted                -> Inserted(cc)
    [] c # NoRow /\ cc.deleted /\ ~softDelete  -> NoRow
    [] OTHER                                   -> UpdatedRow(cc, c)

\* Faulty variant of GetParts: no DELETE statement.
GetPartsWithoutDelete(cc, c) == UpdatedRow(cc, IF c = NoRow THEN Inserted(cc) ELSE c)

\* GetParts: INSERT what is not there, UPDATE what is, then DELETE if the batch
\* contains hard deletes.
GetParts(cc, c) ==
  LET inserted == IF c = NoRow THEN Inserted(cc) ELSE c
      updated == IF softDelete \/ ~cc.deleted THEN UpdatedRow(cc, inserted) ELSE inserted
  IN  IF ~softDelete /\ hardDeletes /\ cc.deleted THEN NoRow ELSE updated

\* The destination's row of key k after the batch is merged.
MergedRow(k) ==
  CASE buffer[k] = NoRow                          -> dest[k]
    [] buffer[k] # NoRow /\ statement = "parts"   -> GetParts(buffer[k], dest[k])
    [] buffer[k] # NoRow /\ statement = "merge"   -> GetStatement(buffer[k], dest[k])

Merged == [k \in Keys |-> MergedRow(k)]

-----------------------------------------------------------------------------
\* The source changes row k to v (NoRow: deletes it); T are the columns the event has
\* a placeholder for.
Emit(k, v, T) ==
  /\ Len(log[k]) < MaxLog
  /\ source' = [source EXCEPT ![k] = v]
  /\ log' = [log EXCEPT ![k] = Append(@, [v |-> v, T |-> T])]
  /\ UNCHANGED <<configVars, position, buffer, toastCol, hardDeletes, dest>>

\* The source inserts a row (or Debezium snapshots it).
Create(k, v) == source[k] = NoRow /\ Emit(k, v, {})

\* The source updates a row; of the columns it left alone, those in T hold values
\* stored out of line and the event has the placeholder for them.
Update(k, v, T) ==
  /\ source[k] # NoRow
  /\ \A c \in T : v[c] \in Values /\ source[k][c] = v[c]
  /\ Emit(k, v, T)

\* The source deletes a row.
Delete(k) == source[k] # NoRow /\ Emit(k, NoRow, {})

-----------------------------------------------------------------------------
\* The memory of a process that has no batch.
Wiped ==
  /\ buffer' = [k \in Keys |-> NoRow]
  /\ toastCol' = NoFlags
  /\ hardDeletes' = FALSE

\* commitOffset of the last messages of the keys K.
Committed(K) ==
  /\ log' = [k \in Keys |-> IF k \in K THEN SubSeq(log[k], position[k] + 1, Len(log[k])) ELSE log[k]]
  /\ position' = [k \in Keys |-> IF k \in K THEN 0 ELSE position[k]]

\* The batch is merged, its offsets are committed and the buffer is wiped.
FlushSucceeds ==
  /\ dest' = Merged
  /\ Committed(Keys)
  /\ Wiped
  /\ UNCHANGED <<configVars, source>>

\* shared.Merge reports an error, with the merge done or not; the buffer is kept and
\* merged again later.
MergeFails ==
  /\ dest' \in {dest, Merged}
  /\ UNCHANGED <<configVars, source, log, position, buffer, toastCol, hardDeletes>>

\* The batch is merged and a commit fails after those of the keys K, or reports an
\* error for an offset the broker took; the buffer is kept.
CommitFails(K) ==
  /\ dest' = Merged
  /\ Committed(K)
  /\ UNCHANGED <<configVars, source, buffer, toastCol, hardDeletes>>

\* The process dies and starts again at the committed offsets.
Crash ==
  /\ Wiped
  /\ position' = [k \in Keys |-> 0]
  /\ UNCHANGED <<configVars, source, log, dest>>

Next ==
  \/ \E k \in Keys : \/ \E v \in SourceRows : Create(k, v) \/ \E T \in SUBSET Cols : Update(k, v, T)
                     \/ Delete(k)
                     \/ Save(k)
  \/ FlushSucceeds
  \/ MergeFails
  \/ \E K \in SUBSET Keys : CommitFails(K)
  \/ Crash

Spec == Init /\ [][Next]_vars

-----------------------------------------------------------------------------
\* The shape of every variable.
TypeOK ==
  /\ softDelete \in BOOLEAN
  /\ statement \in {"merge", "parts"}
  /\ source \in [Keys -> SourceRows \cup {NoRow}]
  /\ log \in [Keys -> Seq(Events)]
  /\ \A k \in Keys : Len(log[k]) <= MaxLog /\ position[k] \in 0..Len(log[k])
  /\ position \in [Keys -> Nat]
  /\ buffer \in [Keys -> BufferRow \cup {NoRow}]
  /\ toastCol \in [Cols -> BOOLEAN]
  /\ hardDeletes \in BOOLEAN
  /\ dest \in [Keys -> DestRows \cup {NoRow}]

\* What a reader of the destination sees of a row.
Live(row) == IF row = NoRow THEN NoRow ELSE IF row.deleted THEN NoRow ELSE row.val

\* Folding and merging give the source's row as soon as its events are read, however
\* creates, updates, placeholders and deletes of a key fell into batches, however often
\* a batch is merged again after an error, and however much of what was merged is read
\* and merged a second time after a crash (InsertRow, UpdateQuery, the merge
\* statements, flush.go's order of merge and commit).
BatchEqualsSource ==
  \A k \in Keys : position[k] = Len(log[k]) => Live(MergedRow(k)) = source[k]

\* Column c of key k is still to be overwritten: by the buffered row, or by an event
\* that is not read yet.
Overwritten(k, c) ==
  \/ buffer[k] # NoRow /\ buffer[k].val[c] # Toast
  \/ \E i \in position[k] + 1 .. Len(log[k]) : c \notin log[k][i].T

\* A TOAST placeholder reaches the destination only without soft deletes, and only in a
\* column that what is buffered or still to be read overwrites: one that a replayed
\* update brings back for a row whose deletion was merged before the crash
\* (Event.Save, UpdateQuery, flush.go).
PlaceholderIsTransient ==
  \A k \in Keys, c \in Cols :
    dest[k] # NoRow /\ dest[k].val[c] = Toast => ~softDelete /\ Overwritten(k, c)

=============================================================================
