--------------------------- MODULE WarehouseProofs ---------------------------
(***************************************************************************)
(* Proofs about Warehouse, for any primary keys, any TTL and any number of *)
(* flushes, failing statements, repeated loads, retries and crashes.       *)
(***************************************************************************)
EXTENDS Warehouse, FiniteSetTheorems, TLAPS

\* Where Merge has its configuration and its temporary table's name.
Named == {"create", "load", "backfill", "comment", "merge", "insert", "update", "delete", "commit"}
Transaction == {"insert", "update", "delete", "commit"}
Merging == {"merge"} \cup Transaction
Late == {"backfill", "comment"} \cup Merging

\* How often the batch is in the flush's temporary table: a table read without DISTINCT
\* holds it once, or its keys are known to be doubled.
LoadInv ==
  pc \in Late => \A t \in Current :
    /\ t.copies >= 1
    /\ kind = "redshift" \/ t.copies = 1 \/ \A k \in Keys : batch[k] # "none" => k \in doubled

\* What Redshift's transaction has made of the target.
TxInv ==
  /\ pc \in Transaction => kind = "redshift"
  /\ pc = "merge" => kind # "redshift"
  /\ pc = "insert" => tx = target
  /\ pc \in {"update", "delete", "commit"} => \A k \in Keys :
       IF batch[k] = "none" THEN tx[k] = target[k]
       ELSE tx[k].n = IF pc = "commit" /\ k \in Deletes THEN 0
                      ELSE IF target[k].n = 0 THEN 1 ELSE target[k].n
  /\ pc \in {"delete", "commit"} => \A k \in Upserts : tx[k].v = batch[k]
  /\ pc = "commit" => \A k \in Deletes : tx[k].v = "absent"

\* A row the batch does not touch shows the source's value, is still to be backfilled, or
\* was backfilled over an early NULL; and every other NULL is safe from a backfill.
Settled(k) ==
  /\ \/ target[k].v = source[k]
     \/ target[k].v = "null" /\ source[k] = "default" /\ ~comment /\ pc # "comment"
     \/ Overwritten(k)
  /\ source[k] = "null" => k \in early \/ (comment /\ config # "column")

\* The cached configuration and the warehouse: a column that is known is there, and one
\* that is not known has no comment.
ConfigInv ==
  /\ comment => exists
  /\ config \in {"column", "backfilled"} => exists
  /\ config = "missing" => ~comment
  /\ pc \in Named => config # "none"
  /\ pc = "comment" => config = "column"
  /\ pc \in Merging => config \in {"missing", "backfilled"}
  /\ pc \in {"drop", "return"} /\ result = "ok" => config \in {"missing", "backfilled"}

\* What was not backfilled yet can be told from what was: a merge finds the column
\* marked or missing, and the mark and the comment come after the UPDATE.
BackfillInv ==
  /\ ConfigInv
  /\ pc \in {"drop", "return"} /\ result = "ok" =>
       \A k \in Keys : batch[k] # "none" => target[k].v = batch[k]
  /\ \A k \in Keys : batch[k] # "none" => batch[k] = source[k]
  /\ kind # "mssql" =>
       /\ config = "backfilled" \/ merged => comment
       /\ \A k \in Keys : batch[k] = "none" => Settled(k)

Leftovers == {t \in temps : t.name # name}

\* Outside of an attempt every temporary table was paid for by a fault.
Paid == pc \in {"idle", "alter", "create", "return", "sweep"} \/ (pc = "drop" /\ result = "auth")

\* A name is that of one table, and every table but the one in use was paid for by a fault.
LeftoverInv ==
  /\ IsFiniteSet(temps)
  /\ \A t, u \in temps : t.name = u.name => t = u
  /\ Cardinality(Leftovers) <= faults
  /\ Paid => Cardinality(temps) <= faults

\* A name made after the sweep expires after the sweep.
SweepInv ==
  /\ swept <= now
  /\ pc = "create" => swept <= name.expiry
  /\ kind # "bigquery" /\ pc # "sweep" => \A t \in temps : t.name.expiry >= swept

IInv ==
  /\ TypeOK
  /\ LoadInv
  /\ TxInv
  /\ BackfillInv
  /\ LeftoverInv
  /\ SweepInv
  /\ OneRowPerKey
  /\ LiveTempSurvives

-----------------------------------------------------------------------------
\* What a temporary table is made of.
LEMMA TempFacts ==
  ASSUME NEW t \in Temps
  PROVE  /\ t.name \in Names /\ t.copies \in Nat
         /\ t.name.suffix \in Nat /\ t.name.expiry \in Nat
BY DEF Temps, Names

\* What a row of the target is made of.
LEMMA RowFacts ==
  ASSUME NEW rows \in Tables, NEW k \in Keys
  PROVE  rows[k] \in [n: Nat, v: Rows] /\ rows[k].n \in Nat /\ rows[k].v \in Rows
BY DEF Tables

\* A loaded table is still one of the schema's tables, under its name.
LEMMA LoadedFacts ==
  ASSUME TypeOK, NEW c \in Nat
  PROVE  /\ Loaded(c) \subseteq Temps
         /\ \A u \in Loaded(c) : u.name # name => u \in temps
         /\ \A u \in Loaded(c) : u.name = name => \E t \in Current : u = [t EXCEPT !.copies = t.copies + c]
                                                                   /\ u.copies = t.copies + c
         /\ \A t \in temps : t.name # name => t \in Loaded(c)
         /\ Current # {} => \E u \in Loaded(c) : u.name = name
<1>1. ASSUME NEW t \in temps
      PROVE  LET u == [t EXCEPT !.copies = t.copies + c]
             IN  u \in Temps /\ u.name = t.name /\ u.copies = t.copies + c
  BY DEF TypeOK, Temps
<1> QED
  BY <1>1 DEF Loaded, Current, TypeOK

\* A created table is empty and bears the flush's name.
LEMMA CreatedFacts ==
  ASSUME TypeOK
  PROVE  /\ Created \subseteq Temps
         /\ \A u \in Created : u \in temps \/ (Current = {} /\ u.name = name /\ u.copies = 0)
         /\ temps \subseteq Created
<1>1. [name |-> name, copies |-> 0] \in Temps
  BY DEF TypeOK, Temps
<1> QED
  BY <1>1 DEF Created, TypeOK

\* The UPDATE of a backfill leaves a table of rows.
LEMMA BackfilledType ==
  ASSUME TypeOK
  PROVE  BackfilledRows \in Tables
BY DEF TypeOK, BackfilledRows, Tables, Rows

\* So does inserting rows of the batch,
LEMMA InsertedType ==
  ASSUME TypeOK, NEW rows \in Tables, NEW c \in Nat, NEW keys \in SUBSET (Upserts \cup Deletes)
  PROVE  InsertedInto(rows, keys, c) \in Tables
<1> SUFFICES ASSUME NEW k \in Keys
             PROVE  InsertedInto(rows, keys, c)[k] \in [n: Nat, v: Rows]
  BY DEF InsertedInto, Tables
<1>1. k \in keys => (IF k \in Deletes THEN "null" ELSE batch[k]) \in Rows
  BY DEF Upserts, Deletes, TypeOK, Rows
<1>2. k \in keys => [n |-> c, v |-> IF k \in Deletes THEN "null" ELSE batch[k]] \in [n: Nat, v: Rows]
  BY <1>1
<1> QED
  BY <1>2, RowFacts DEF InsertedInto

\* updating with them,
LEMMA UpdatedType ==
  ASSUME TypeOK, NEW rows \in Tables
  PROVE  UpdatedIn(rows) \in Tables
<1> SUFFICES ASSUME NEW k \in Keys
             PROVE  UpdatedIn(rows)[k] \in [n: Nat, v: Rows]
  BY DEF UpdatedIn, Tables
<1>1. k \in Upserts => batch[k] \in Rows
  BY DEF Upserts, TypeOK, Rows
<1>2. k \in Upserts => [rows[k] EXCEPT !.v = batch[k]] \in [n: Nat, v: Rows]
  BY <1>1, RowFacts
<1> QED
  BY <1>2, RowFacts DEF UpdatedIn

\* and deleting.
LEMMA DeletedType ==
  ASSUME NEW rows \in Tables
  PROVE  DeletedFrom(rows) \in Tables
BY DEF DeletedFrom, Tables, Rows

\* The subquery of a merge returns a row of the batch a number of times.
LEMMA CopiesType ==
  ASSUME TypeOK
  PROVE  Copies \subseteq Nat
BY TempFacts DEF TypeOK, Copies, Current

\* One MERGE statement leaves a table of rows.
LEMMA MergedType ==
  ASSUME TypeOK, NEW c \in Nat
  PROVE  MergedRows(c) \in Tables
<1>1. UpdatedIn(target) \in Tables
  BY UpdatedType DEF TypeOK
<1>2. InsertedInto(UpdatedIn(target), Upserts, c) \in Tables
  BY <1>1, InsertedType
<1> QED
  BY <1>2, DeletedType DEF MergedRows

\* What GetTableConfig returns: what is cached, or what the table is found to be.
LEMMA ConfigType ==
  ASSUME TypeOK
  PROVE  /\ GetTableConfig \in {"missing", "column", "backfilled"}
         /\ config # "none" => GetTableConfig = config
         /\ config = "none" => /\ GetTableConfig = "missing" <=> ~exists
                               /\ GetTableConfig = "backfilled" => comment
                               /\ GetTableConfig = "column" => ~comment
<1>1. CASE config # "none"
  BY <1>1 DEF TypeOK, GetTableConfig
<1>2. CASE config = "none" /\ ~exists
  BY <1>2 DEF GetTableConfig
<1>3. CASE config = "none" /\ exists
  BY <1>3 DEF GetTableConfig
<1> QED
  BY <1>1, <1>2, <1>3

\* Every step keeps the shape of the variables.
LEMMA TypeStep ==
  ASSUME TypeOK, [Next]_vars
  PROVE  TypeOK'
<1> USE WarehouseAssumption
<1> USE DEF settings, bufferVars, warehouseVars, flushVars, history, Fault
<1>1. CASE UNCHANGED vars
  BY <1>1 DEF TypeOK, vars
<1>2. CASE Tick
  BY <1>2 DEF TypeOK, Tick
<1>3. ASSUME NEW k \in Keys, NEW v \in {"absent", "null", "set"}, Save(k, v) PROVE TypeOK'
  <2>1. source' \in [Keys -> Rows] /\ batch' \in [Keys -> Rows \cup {"none"}]
    BY <1>3 DEF TypeOK, Save, Rows
  <2>2. typed' \in BOOLEAN
    BY <1>3, Zenon DEF Save
  <2> QED
    BY <1>3, <2>1, <2>2 DEF TypeOK, Save
<1>4. CASE StartFlush
  BY <1>4 DEF TypeOK, StartFlush
<1>5. CASE AlterTable
  <2>1. [suffix |-> suffix, expiry |-> now + TTL] \in Names
    BY DEF TypeOK, Names
  <2>2. config' \in {"none", "missing", "column", "backfilled"}
    BY <1>5, ConfigType DEF AlterTable
  <2>3. exists' \in BOOLEAN
    BY <1>5, Zenon DEF AlterTable
  <2> QED
    BY <1>5, <2>1, <2>2, <2>3 DEF TypeOK, AlterTable
<1>6. CASE AlterFails
  <2>1. config' \in {"none", "missing", "column", "backfilled"}
    BY <1>6, ConfigType DEF TypeOK, AlterFails
  <2>2. exists' \in BOOLEAN
    BY <1>6, Zenon DEF TypeOK, AlterFails
  <2> QED
    BY <1>6, <2>1, <2>2 DEF TypeOK, AlterFails
<1>7. CASE CreateTemporaryTable
  BY <1>7, CreatedFacts DEF TypeOK, CreateTemporaryTable
<1>8. CASE Load
  <2>1. temps' \subseteq Temps
    BY <1>8, LoadedFacts DEF Load
  <2>2. faults' \in Nat /\ doubled' \subseteq Keys
    BY <1>8 DEF TypeOK, Load, Doubled
  <2> QED
    BY <1>8, <2>1, <2>2 DEF TypeOK, Load
<1>9. CASE PrepareFails
  <2>1. temps' \subseteq Temps
    BY <1>9, LoadedFacts, CreatedFacts DEF TypeOK, PrepareFails
  <2>2. faults' \in Nat
    BY <1>9 DEF TypeOK, PrepareFails
  <2> QED
    BY <1>9, <2>1, <2>2 DEF TypeOK, PrepareFails
<1>10. CASE Backfill
  BY <1>10, BackfilledType DEF TypeOK, Backfill
<1>11. CASE SkipBackfill
  BY <1>11 DEF TypeOK, SkipBackfill, MarkBackfilled
<1>12. CASE CommentOnColumn
  <2>1. comment' \in BOOLEAN
    BY <1>12 DEF CommentOnColumn
  <2> QED
    BY <1>12, <2>1 DEF TypeOK, CommentOnColumn, MarkBackfilled
<1>13. CASE RetryBackfill
  <2>1. comment' \in BOOLEAN
    BY <1>13, Zenon DEF TypeOK, RetryBackfill
  <2> QED
    BY <1>13, <2>1 DEF TypeOK, RetryBackfill
<1>14. CASE BackfillFails
  <2>1. target' \in Tables /\ comment' \in BOOLEAN
    BY <1>14, BackfilledType DEF TypeOK, BackfillFails
  <2> QED
    BY <1>14, <2>1 DEF TypeOK, BackfillFails, Leave
<1>15. CASE Merge
  <2>1. target' \in Tables
    BY <1>15, MergedType, CopiesType DEF TypeOK, Merge
  <2>2. pc' = "drop" /\ result' \in {"ok", "error"}
    BY <1>15 DEF Merge, Leave
  <2> QED
    BY <1>15, <2>1, <2>2 DEF TypeOK, Merge
<1>16. CASE MergePart
  <2>1. tx' \in Tables
    BY <1>16, CopiesType, InsertedType, UpdatedType, DeletedType DEF TypeOK, MergePart
  <2>2. target' = target /\ pc' \in {"update", "delete", "commit"}
    BY <1>16 DEF MergePart, AfterPart
  <2> QED
    BY <1>16, <2>1, <2>2 DEF TypeOK, MergePart
<1>17. CASE CommitTx
  BY <1>17 DEF TypeOK, CommitTx, Leave
<1>18. CASE MergeFails
  <2>1. target' \in Tables
    BY <1>18, MergedType, CopiesType DEF TypeOK, MergeFails
  <2>2. faults' \in Nat
    BY <1>18 DEF TypeOK, MergeFails
  <2> QED
    BY <1>18, <2>1, <2>2 DEF TypeOK, MergeFails, Leave
<1>19. CASE AuthExpires
  <2>1. config' \in {"none", "missing", "column", "backfilled"}
    BY <1>19, ConfigType DEF TypeOK, AuthExpires
  <2> QED
    BY <1>19, <2>1 DEF TypeOK, AuthExpires
<1>20. CASE DropTemporaryTable
  BY <1>20 DEF TypeOK, DropTemporaryTable, Dropped
<1>21. CASE DropFails
  BY <1>21 DEF TypeOK, DropFails
<1>22. CASE Reauthenticate
  BY <1>22 DEF TypeOK, Reauthenticate
<1>23. CASE FlushReturns
  <2>1. NoName \in Names /\ NoBatch \in [Keys -> Rows \cup {"none"}]
    BY DEF NoName, Names, NoBatch
  <2>2. batch' \in [Keys -> Rows \cup {"none"}] /\ early' \subseteq Keys
    BY <1>23, <2>1 DEF TypeOK, FlushReturns
  <2>3. typed' \in BOOLEAN /\ merged' \in BOOLEAN
    BY <1>23, Zenon DEF TypeOK, FlushReturns
  <2> QED
    BY <1>23, <2>1, <2>2, <2>3 DEF TypeOK, FlushReturns
<1>24. CASE Crash
  <2>1. NoName \in Names
    BY DEF NoName, Names
  <2> QED
    BY <1>24, <2>1 DEF TypeOK, Crash
<1>25. CASE Sweep
  BY <1>25 DEF TypeOK, Sweep, Unexpired
<1>26. CASE OthersSweep
  BY <1>26 DEF TypeOK, OthersSweep, Unexpired
<1> QED
  BY <1>1, <1>2, <1>3, <1>4, <1>5, <1>6, <1>7, <1>8, <1>9, <1>10, <1>11, <1>12, <1>13, <1>14,
     <1>15, <1>16, <1>17, <1>18, <1>19, <1>20, <1>21, <1>22, <1>23, <1>24, <1>25, <1>26 DEF Next

-----------------------------------------------------------------------------
\* The steps of a flush that neither choose a name nor create a table nor end it.
Inside ==
  \/ UNCHANGED vars
  \/ Tick
  \/ \E k \in Keys, v \in {"absent", "null", "set"} : Save(k, v)
  \/ AlterFails \/ Load
  \/ Backfill \/ SkipBackfill \/ CommentOnColumn \/ RetryBackfill \/ BackfillFails
  \/ Merge \/ MergePart \/ CommitTx \/ MergeFails \/ AuthExpires
  \/ DropTemporaryTable \/ DropFails
  \/ OthersSweep
  \/ PrepareFails /\ pc = "load"

\* They bring up no new name.
LEMMA InsideFacts ==
  ASSUME TypeOK, Inside
  PROVE  /\ name' = name /\ now' >= now
         /\ \A u \in temps' : \E t \in temps : u.name = t.name
         /\ pc' = "create" => pc = "create"
         /\ pc = "sweep" => pc' = "sweep"
<1> USE DEF bufferVars, warehouseVars, flushVars
<1>1. now \in Nat
  BY DEF TypeOK
<1>2. CASE UNCHANGED vars
  BY <1>1, <1>2 DEF vars
<1>3. CASE Tick
  BY <1>1, <1>3 DEF Tick
<1>4. ASSUME NEW k \in Keys, NEW v \in {"absent", "null", "set"}, Save(k, v)
      PROVE  pc = "idle" /\ pc' = "idle" /\ UNCHANGED <<name, now, temps>>
  BY <1>4 DEF Save
<1>5. CASE AlterFails
  BY <1>1, <1>5 DEF AlterFails
<1>6. CASE Load \/ (PrepareFails /\ pc = "load")
  <2>1. \E c \in {0, 1, 2} : temps' = temps \/ temps' = Loaded(c)
    BY <1>6 DEF Load, PrepareFails
  <2>2. \A u \in temps' : \E t \in temps : u.name = t.name
    <3>1. PICK c \in {0, 1, 2} : temps' = temps \/ temps' = Loaded(c)
      BY <2>1
    <3>2. ASSUME NEW u \in Loaded(c) PROVE \E t \in temps : u.name = t.name
      <4>1. CASE u.name # name
        BY <4>1, LoadedFacts
      <4>2. CASE u.name = name
        <5>1. Current # {}
          BY <4>2, LoadedFacts
        <5> QED
          BY <4>2, <5>1 DEF Current
      <4> QED
        BY <4>1, <4>2
    <3> QED
      BY <3>1, <3>2
  <2> QED
    BY <1>1, <1>6, <2>2 DEF Load, PrepareFails
<1>7. CASE Backfill \/ SkipBackfill \/ CommentOnColumn \/ RetryBackfill \/ BackfillFails
  <2>1. pc \in {"backfill", "comment"} /\ pc' \in {"backfill", "comment", "merge", "insert", "drop"}
    BY <1>7 DEF Backfill, SkipBackfill, CommentOnColumn, RetryBackfill, BackfillFails, MarkBackfilled, Leave
  <2>2. UNCHANGED <<name, now, temps>>
    BY <1>7 DEF Backfill, SkipBackfill, CommentOnColumn, RetryBackfill, BackfillFails
  <2> QED
    BY <1>1, <2>1, <2>2
<1>8. CASE Merge \/ MergePart \/ CommitTx \/ MergeFails \/ AuthExpires
  <2>1. pc # "sweep" /\ pc' \in {"update", "delete", "commit", "drop", "return"}
    BY <1>8 DEF Merge, MergePart, CommitTx, MergeFails, AuthExpires, Leave
  <2>2. UNCHANGED <<name, now, temps>>
    BY <1>8 DEF Merge, MergePart, CommitTx, MergeFails, AuthExpires
  <2> QED
    BY <1>1, <2>1, <2>2
<1>9. CASE DropTemporaryTable \/ DropFails
  BY <1>1, <1>9 DEF DropTemporaryTable, DropFails, Dropped
<1>10. CASE OthersSweep
  BY <1>1, <1>10 DEF OthersSweep, Unexpired
<1> QED
  BY <1>1, <1>2, <1>3, <1>4, <1>5, <1>6, <1>7, <1>8, <1>9, <1>10 DEF Inside

\* What the other steps are.
LEMMA Steps ==
  ASSUME [Next]_vars
  PROVE  \/ Inside
         \/ StartFlush \/ AlterTable \/ CreateTemporaryTable
         \/ PrepareFails /\ pc = "create"
         \/ Reauthenticate \/ FlushReturns \/ Crash \/ Sweep
BY DEF Next, Inside, PrepareFails

\* The destination stays the same, and faults and doubled keys only add up.
LEMMA Monotone ==
  ASSUME TypeOK, [Next]_vars
  PROVE  kind' = kind /\ faults' >= faults /\ doubled \subseteq doubled'
<1> USE DEF Fault, settings, history
<1>1. faults \in Nat
  BY DEF TypeOK
<1>2. CASE UNCHANGED vars
  BY <1>1, <1>2 DEF vars
<1>3. CASE \/ Tick \/ StartFlush \/ AlterTable \/ AlterFails \/ CreateTemporaryTable \/ Load \/ PrepareFails
           \/ \E k \in Keys, v \in {"absent", "null", "set"} : Save(k, v)
  BY <1>1, <1>3 DEF Tick, StartFlush, AlterTable, AlterFails, CreateTemporaryTable, Load, PrepareFails, Save
<1>4. CASE Backfill \/ SkipBackfill \/ CommentOnColumn \/ RetryBackfill \/ BackfillFails
  <2>1. kind' = kind /\ doubled' = doubled /\ (faults' = faults \/ faults' = faults + 1)
    BY <1>4, Zenon DEF Backfill, SkipBackfill, CommentOnColumn, RetryBackfill, BackfillFails
  <2> QED
    BY <1>1, <2>1
<1>5. CASE Merge \/ MergePart \/ CommitTx \/ MergeFails \/ AuthExpires
  BY <1>1, <1>5 DEF Merge, MergePart, CommitTx, MergeFails, AuthExpires
<1>6. CASE DropTemporaryTable \/ DropFails \/ Reauthenticate \/ FlushReturns \/ Crash \/ Sweep \/ OthersSweep
  BY <1>1, <1>6 DEF DropTemporaryTable, DropFails, Reauthenticate, FlushReturns, Crash, Sweep, OthersSweep
<1> QED
  BY <1>2, <1>3, <1>4, <1>5, <1>6 DEF Next

\* A step inside a flush that is no load leaves its temporary table alone, unless it
\* ends the flush or the table has expired.
LEMMA TableStays ==
  ASSUME TypeOK, Inside, ~Load
  PROVE  pc' \in Late => pc \in Late /\ temps' \in {temps, Unexpired} /\ batch' = batch
<1> USE DEF bufferVars, warehouseVars, flushVars, Late, Merging, Transaction
<1>1. CASE UNCHANGED vars
  BY <1>1 DEF vars
<1>2. CASE Tick
  BY <1>2 DEF Tick
<1>3. ASSUME NEW k \in Keys, NEW v \in {"absent", "null", "set"}, Save(k, v)
      PROVE  pc' = "idle"
  BY <1>3 DEF Save
<1>4. CASE AlterFails \/ PrepareFails
  BY <1>4 DEF AlterFails, PrepareFails
<1>5. CASE Backfill \/ SkipBackfill \/ CommentOnColumn \/ RetryBackfill \/ BackfillFails
  <2>1. pc \in {"backfill", "comment"} /\ pc' \in {"backfill", "comment", "merge", "insert", "drop"}
    BY <1>5 DEF Backfill, SkipBackfill, CommentOnColumn, RetryBackfill, BackfillFails, MarkBackfilled, Leave
  <2>2. temps' = temps /\ batch' = batch
    BY <1>5 DEF Backfill, SkipBackfill, CommentOnColumn, RetryBackfill, BackfillFails
  <2> QED
    BY <2>1, <2>2
<1>6. CASE Merge \/ CommitTx \/ MergeFails \/ AuthExpires
  <2>1. pc' \in {"drop", "return"}
    BY <1>6 DEF Merge, CommitTx, MergeFails, AuthExpires, Leave
  <2> QED
    BY <2>1
<1>7. CASE MergePart
  <2>1. pc \in {"insert", "update", "delete"} /\ pc' \in {"update", "delete", "commit"}
        /\ temps' = temps /\ batch' = batch
    BY <1>7 DEF MergePart
  <2> QED
    BY <2>1
<1>8. CASE DropTemporaryTable \/ DropFails
  BY <1>8 DEF DropTemporaryTable, DropFails
<1>9. CASE OthersSweep
  BY <1>9 DEF OthersSweep
<1> QED
  BY <1>1, <1>2, <1>3, <1>4, <1>5, <1>6, <1>7, <1>8, <1>9 DEF Inside

\* Every step keeps count of the copies of the batch in the flush's temporary table.
LEMMA LoadStep ==
  ASSUME IInv, TypeOK', [Next]_vars
  PROVE  LoadInv'
<1> USE DEF IInv
<1>1. kind' = kind /\ doubled \subseteq doubled'
  BY Monotone
<1>2. CASE Inside /\ ~Load
  <2>1. SUFFICES ASSUME pc' \in Late PROVE LoadInv'
    BY DEF LoadInv
  <2>2. name' = name /\ pc \in Late /\ temps' \in {temps, Unexpired} /\ batch' = batch
    BY <1>2, <2>1, InsideFacts, TableStays
  <2>3. Current' \subseteq Current
    BY <2>2 DEF Current, Unexpired
  <2> QED
    BY <1>1, <2>2, <2>3 DEF LoadInv
<1>3. CASE Load
  <2>1. pc = "load" /\ pc' = "backfill" /\ name' = name /\ batch' = batch
    BY <1>3 DEF Load, bufferVars
  <2>2. PICK c \in {1, 2} : temps' = Loaded(c) /\ doubled' = doubled \cup Doubled(c)
    BY <1>3 DEF Load
  <2>3. ASSUME NEW u \in Current'
        PROVE  /\ u.copies >= 1
               /\ kind = "redshift" \/ u.copies = 1 \/ \A k \in Keys : batch[k] # "none" => k \in doubled'
    <3>1. u \in Loaded(c) /\ u.name = name
      BY <2>1, <2>2 DEF Current
    <3>2. PICK t \in Current : u.copies = t.copies + c
      BY <3>1, LoadedFacts
    <3>3. t.copies \in Nat
      BY TempFacts DEF TypeOK, Current
    <3>4. ASSUME kind # "redshift", u.copies # 1, NEW k \in Keys, batch[k] # "none" PROVE k \in Doubled(c)
      <4>1. t.copies + c > 1
        BY <3>2, <3>3, <3>4
      <4> QED
        BY <3>4, <4>1 DEF Doubled
    <3> QED
      BY <2>2, <3>2, <3>3, <3>4
  <2> QED
    BY <1>1, <2>1, <2>3 DEF LoadInv
<1>4. CASE \/ AlterTable \/ CreateTemporaryTable \/ StartFlush \/ PrepareFails \/ Reauthenticate \/ FlushReturns
           \/ Crash \/ Sweep
  <2>1. pc' \in {"alter", "create", "load", "return", "idle", "sweep"}
    BY <1>4 DEF AlterTable, CreateTemporaryTable, StartFlush, PrepareFails, Reauthenticate, FlushReturns,
                Crash, Sweep
  <2> QED
    BY <2>1 DEF LoadInv, Late, Merging, Transaction
<1> QED
  BY <1>2, <1>3, <1>4, Steps

\* No step takes the temporary table away from a flush before it has expired.
LEMMA LiveStep ==
  ASSUME IInv, TypeOK', [Next]_vars
  PROVE  LiveTempSurvives'
<1> USE DEF IInv
<1>1. SUFFICES ASSUME pc' \in Late, now' <= name'.expiry
               PROVE  Current' # {}
  BY DEF LiveTempSurvives, Late, Merging, Transaction
<1>2. CASE Load
  <2>1. name' = name
    BY <1>2 DEF Load
  <2>2. PICK c \in {1, 2} : temps' = Loaded(c) /\ Current # {}
    BY <1>2 DEF Load
  <2>3. PICK u \in Loaded(c) : u.name = name
    BY <2>2, LoadedFacts
  <2> QED
    BY <2>1, <2>2, <2>3 DEF Current
<1>3. CASE Inside /\ ~Load
  <2>1. name' = name /\ now' >= now /\ pc \in Late /\ temps' \in {temps, Unexpired}
    BY <1>1, <1>3, InsideFacts, TableStays
  <2>2. now \in Nat /\ now' \in Nat /\ name.expiry \in Nat
    BY DEF TypeOK, Names
  <2>3. now <= name.expiry
    BY <1>1, <2>1, <2>2
  <2>4. PICK t \in temps : t.name = name
    BY <2>1, <2>3 DEF LiveTempSurvives, Late, Merging, Transaction, Current
  <2>5. t \in Unexpired
    BY <2>2, <2>3, <2>4 DEF Unexpired, ShouldDeleteFromName
  <2> QED
    BY <2>1, <2>4, <2>5 DEF Current
<1>4. CASE StartFlush \/ AlterTable \/ CreateTemporaryTable \/ PrepareFails \/ Reauthenticate \/ FlushReturns
           \/ Crash \/ Sweep
  <2>1. pc' \in {"alter", "create", "load", "return", "idle", "sweep"}
    BY <1>4 DEF StartFlush, AlterTable, CreateTemporaryTable, PrepareFails, Reauthenticate, FlushReturns,
                Crash, Sweep
  <2> QED
    BY <1>1, <2>1 DEF Late, Merging, Transaction
<1> QED
  BY <1>2, <1>3, <1>4, Steps

-----------------------------------------------------------------------------
\* What the parts of a merge make of a row.
LEMMA InsertedFacts ==
  ASSUME TypeOK, NEW rows \in Tables, NEW c \in Nat, NEW k \in Keys, NEW keys \in SUBSET Keys
  PROVE  /\ k \notin keys \/ rows[k].n # 0 => InsertedInto(rows, keys, c)[k] = rows[k]
         /\ k \in keys /\ rows[k].n = 0 =>
              /\ InsertedInto(rows, keys, c)[k].n = c
              /\ k \notin Deletes => InsertedInto(rows, keys, c)[k].v = batch[k]
BY DEF InsertedInto

\* What the UPDATE of the batch does to one row.
LEMMA UpdatedFacts ==
  ASSUME TypeOK, NEW rows \in Tables, NEW k \in Keys
  PROVE  /\ UpdatedIn(rows)[k].n = rows[k].n
         /\ k \notin Upserts => UpdatedIn(rows)[k] = rows[k]
         /\ k \in Upserts /\ rows[k].n > 0 => UpdatedIn(rows)[k].v = batch[k]
BY RowFacts DEF UpdatedIn

\* What the DELETE of the batch does to one row.
LEMMA DeletedFacts ==
  ASSUME NEW rows, NEW k \in Keys
  PROVE  /\ k \notin Deletes => DeletedFrom(rows)[k] = rows[k]
         /\ k \in Deletes => DeletedFrom(rows)[k].n = 0 /\ DeletedFrom(rows)[k].v = "absent"
BY DEF DeletedFrom

\* What one MERGE makes of a row.
LEMMA MergedFacts ==
  ASSUME TypeOK, NEW c \in Nat, NEW k \in Keys
  PROVE  /\ batch[k] = "none" => MergedRows(c)[k] = target[k]
         /\ batch[k] = "absent" => MergedRows(c)[k].n = 0 /\ MergedRows(c)[k].v = "absent"
         /\ batch[k] \notin {"none", "absent"} =>
              /\ MergedRows(c)[k].v = batch[k]
              /\ MergedRows(c)[k].n = IF target[k].n = 0 THEN c ELSE target[k].n
<1> DEFINE updated == UpdatedIn(target)
           inserted == InsertedInto(updated, Upserts, c)
<1>1. target \in Tables /\ updated \in Tables /\ Upserts \in SUBSET Keys
  BY UpdatedType DEF TypeOK, Upserts
<1>2. target[k].n \in Nat
  BY <1>1, RowFacts
<1>3. /\ updated[k].n = target[k].n
      /\ k \notin Upserts => updated[k] = target[k]
      /\ k \in Upserts /\ target[k].n > 0 => updated[k].v = batch[k]
  BY <1>1, UpdatedFacts
<1>4. MergedRows(c) = DeletedFrom(inserted)
  BY DEF MergedRows
<1>5. k \in Upserts <=> batch[k] \notin {"none", "absent"}
  BY DEF Upserts
<1>6. k \in Deletes <=> batch[k] = "absent"
  BY DEF Deletes
<1> HIDE DEF updated
<1>7. /\ k \notin Upserts => inserted[k] = target[k]
      /\ k \in Upserts => /\ inserted[k].v = batch[k]
                          /\ inserted[k].n = IF target[k].n = 0 THEN c ELSE target[k].n
  BY <1>1, <1>2, <1>3, <1>5, <1>6, InsertedFacts
<1> HIDE DEF inserted
<1> QED
  BY <1>4, <1>5, <1>6, <1>7, DeletedFacts

\* Every step keeps what Redshift's transaction owes to its commit.
LEMMA TxStep ==
  ASSUME IInv, TypeOK', [Next]_vars
  PROVE  TxInv'
<1> USE DEF IInv, settings, bufferVars
<1>1. CASE pc' \notin Merging
  BY <1>1 DEF TxInv, Merging, Transaction
<1>2. CASE UNCHANGED <<pc, tx, target, batch, kind>>
  BY <1>2 DEF TxInv, Upserts, Deletes
<1>3. CASE SkipBackfill \/ CommentOnColumn
  <2>1. kind' = kind /\ target' = target /\ tx' = target
    BY <1>3 DEF SkipBackfill, CommentOnColumn, MarkBackfilled, warehouseVars
  <2>2. pc' = IF kind = "redshift" THEN "insert" ELSE "merge"
    BY <1>3 DEF SkipBackfill, CommentOnColumn, MarkBackfilled
  <2> QED
    BY <2>1, <2>2 DEF TxInv, Transaction
<1>4. CASE MergePart
  <2>1. target' = target /\ batch' = batch /\ kind' = kind /\ pc \in {"insert", "update", "delete"}
    BY <1>4 DEF MergePart, AfterPart
  <2>2. kind = "redshift" /\ tx \in Tables /\ target \in Tables
    BY <2>1 DEF TxInv, Transaction, TypeOK
  <2>3. Copies \subseteq {1}
    BY <2>2 DEF Copies
  <2>4. Upserts' = Upserts /\ Deletes' = Deletes
    BY <2>1 DEF Upserts, Deletes
  <2>5. \A k \in Keys : /\ tx[k].n \in Nat /\ target[k].n \in Nat
                        /\ k \in Upserts <=> batch[k] \notin {"none", "absent"}
                        /\ k \in Deletes <=> batch[k] = "absent"
    BY <2>2, RowFacts DEF Upserts, Deletes
  <2>6. CASE pc = "insert"
    <3>1. pc' = "update" /\ tx' = InsertedInto(tx, Upserts \cup Deletes, 1) /\ tx = target
      BY <1>4, <2>3, <2>6 DEF MergePart, TxInv
    <3>2. Upserts \cup Deletes \in SUBSET Keys
      BY DEF Upserts, Deletes
    <3>3. ASSUME NEW k \in Keys
          PROVE  IF batch[k] = "none" THEN tx'[k] = target[k]
                 ELSE tx'[k].n = IF target[k].n = 0 THEN 1 ELSE target[k].n
      BY <2>2, <2>5, <3>1, <3>2, InsertedFacts
    <3> QED
      BY <2>1, <2>2, <3>1, <3>3 DEF TxInv, Transaction
  <2>7. CASE pc = "update"
    <3>1. /\ tx' = UpdatedIn(tx)
          /\ pc' = IF ContainsHardDeletes THEN "delete" ELSE "commit"
      BY <1>4, <2>7 DEF MergePart
    <3>2. \A k \in Keys : IF batch[k] = "none" THEN tx[k] = target[k]
                          ELSE tx[k].n = IF target[k].n = 0 THEN 1 ELSE target[k].n
      BY <2>7 DEF TxInv
    <3>3. ASSUME NEW k \in Keys
          PROVE  /\ IF batch[k] = "none" THEN tx'[k] = target[k]
                    ELSE tx'[k].n = IF target[k].n = 0 THEN 1 ELSE target[k].n
                 /\ k \in Upserts => tx'[k].v = batch[k]
      <4>1. /\ tx'[k].n = tx[k].n
            /\ k \notin Upserts => tx'[k] = tx[k]
            /\ k \in Upserts /\ tx[k].n > 0 => tx'[k].v = batch[k]
        BY <2>2, <3>1, UpdatedFacts
      <4> QED
        BY <2>5, <3>2, <4>1
    <3>4. pc' = "commit" => Deletes = {}
      BY <3>1 DEF ContainsHardDeletes
    <3>5. pc' \in {"delete", "commit"} /\ Upserts \subseteq Keys
      BY <3>1 DEF Upserts
    <3> QED
      BY <2>1, <2>2, <2>4, <3>3, <3>4, <3>5 DEF TxInv, Transaction
  <2>8. CASE pc = "delete"
    <3>1. tx' = DeletedFrom(tx) /\ pc' = "commit"
      BY <1>4, <2>8 DEF MergePart
    <3>2. /\ \A k \in Keys : IF batch[k] = "none" THEN tx[k] = target[k]
                             ELSE tx[k].n = IF target[k].n = 0 THEN 1 ELSE target[k].n
          /\ \A k \in Upserts : tx[k].v = batch[k]
      BY <2>8 DEF TxInv
    <3>3. ASSUME NEW k \in Keys
          PROVE  /\ IF batch[k] = "none" THEN tx'[k] = target[k]
                    ELSE tx'[k].n = IF k \in Deletes THEN 0 ELSE IF target[k].n = 0 THEN 1 ELSE target[k].n
                 /\ k \in Upserts => tx'[k].v = batch[k]
                 /\ k \in Deletes => tx'[k].v = "absent"
      <4>1. /\ k \notin Deletes => tx'[k] = tx[k]
            /\ k \in Deletes => tx'[k].n = 0 /\ tx'[k].v = "absent"
        BY <3>1, DeletedFacts
      <4> QED
        BY <2>5, <3>2, <4>1
    <3>4. Upserts \subseteq Keys /\ Deletes \subseteq Keys
      BY DEF Upserts, Deletes
    <3> QED
      BY <2>1, <2>2, <2>4, <3>1, <3>3, <3>4 DEF TxInv, Transaction
  <2> QED
    BY <2>1, <2>6, <2>7, <2>8
<1>5. CASE Tick \/ OthersSweep \/ UNCHANGED vars
  BY <1>2, <1>5 DEF Tick, OthersSweep, vars, warehouseVars, flushVars
<1>6. CASE \/ StartFlush \/ AlterTable \/ CreateTemporaryTable \/ Load \/ Reauthenticate \/ FlushReturns \/ Crash \/ Sweep
           \/ AlterFails \/ PrepareFails \/ Backfill \/ RetryBackfill \/ BackfillFails
  <2>1. pc' \notin Merging
    BY <1>6 DEF StartFlush, AlterTable, CreateTemporaryTable, Load, Reauthenticate, FlushReturns, Crash, Sweep,
                AlterFails, PrepareFails, Backfill, RetryBackfill, BackfillFails, Leave, Merging, Transaction
  <2> QED
    BY <1>1, <2>1
<1>7. CASE Merge \/ CommitTx \/ MergeFails \/ AuthExpires \/ DropTemporaryTable \/ DropFails
  <2>1. pc' \notin Merging
    BY <1>7 DEF Merge, CommitTx, MergeFails, AuthExpires, DropTemporaryTable, DropFails, Leave, Merging, Transaction
  <2> QED
    BY <1>1, <2>1
<1>8. ASSUME NEW k \in Keys, NEW v \in {"absent", "null", "set"}, Save(k, v) PROVE TxInv'
  <2>1. pc' \notin Merging
    BY <1>8 DEF Save, flushVars, Merging, Transaction
  <2> QED
    BY <1>1, <2>1
<1> QED
  BY <1>3, <1>4, <1>5, <1>6, <1>7, <1>8 DEF Next

-----------------------------------------------------------------------------
\* The whole batch was applied to the target.
Applied ==
  \E c \in Nat :
    /\ c = 1 \/ \A k \in Keys : batch[k] # "none" => k \in doubled
    /\ \A k \in Keys :
         /\ batch[k] = "none" => target'[k] = target[k]
         /\ batch[k] = "absent" => target'[k].n = 0 /\ target'[k].v = "absent"
         /\ batch[k] \notin {"none", "absent"} =>
              /\ target'[k].v = batch[k]
              /\ target'[k].n = IF target[k].n = 0 THEN c ELSE target[k].n

\* A merge reads each row of the batch once, unless its keys are doubled.
LEMMA CopiesFacts ==
  ASSUME IInv, pc \in Merging, NEW c \in Copies
  PROVE  c \in Nat /\ (c = 1 \/ \A k \in Keys : batch[k] # "none" => k \in doubled)
<1> USE DEF IInv
<1>1. c \in Nat
  BY CopiesType
<1>2. PICK t \in Current : c = IF kind = "redshift" THEN 1 ELSE t.copies
  BY DEF Copies
<1>3. kind = "redshift" \/ t.copies = 1 \/ \A k \in Keys : batch[k] # "none" => k \in doubled
  BY DEF LoadInv, Late
<1> QED
  BY <1>1, <1>2, <1>3

\* One MERGE applies the whole batch,
LEMMA MergeApplies ==
  ASSUME IInv, NEW c \in Copies, pc = "merge", target' = MergedRows(c)
  PROVE  Applied
<1>1. c \in Nat /\ (c = 1 \/ \A k \in Keys : batch[k] # "none" => k \in doubled)
  BY CopiesFacts DEF Merging
<1> QED
  BY <1>1, MergedFacts DEF Applied, IInv

\* and so does the commit of Redshift's three parts.
LEMMA CommitApplies ==
  ASSUME IInv, pc = "commit", target' = tx
  PROVE  Applied
<1>1. ASSUME NEW k \in Keys
      PROVE  /\ batch[k] = "none" => tx[k] = target[k]
             /\ batch[k] = "absent" => tx[k].n = 0 /\ tx[k].v = "absent"
             /\ batch[k] \notin {"none", "absent"} =>
                  /\ tx[k].v = batch[k]
                  /\ tx[k].n = IF target[k].n = 0 THEN 1 ELSE target[k].n
  BY DEF IInv, TxInv, Upserts, Deletes
<1> QED
  BY <1>1 DEF Applied

\* The target changes in two ways only.
LEMMA TargetStep ==
  ASSUME IInv, [Next]_vars
  PROVE  \/ target' = target
         \/ /\ target' = BackfilledRows /\ pc = "backfill" /\ pc' \in {"comment", "drop"}
            /\ kind # "mssql" /\ config = "column"
            /\ pc' = "drop" => result' = "error"
            /\ UNCHANGED <<source, batch, exists, comment, config, merged, early>>
         \/ /\ Applied /\ pc \in {"merge", "commit"} /\ pc' = "drop"
            /\ UNCHANGED <<source, batch, exists, comment, config, merged, early>>
<1> USE DEF IInv, bufferVars, history
<1>1. CASE Backfill \/ BackfillFails
  BY <1>1 DEF Backfill, BackfillFails, ShouldBackfill, Leave
<1>2. ASSUME NEW c \in Copies, pc = "merge", target' = MergedRows(c) PROVE Applied
  BY <1>2, MergeApplies
<1>3. ASSUME pc = "commit", target' = tx PROVE Applied
  BY <1>3, CommitApplies
<1>4. CASE Merge
  BY <1>2, <1>4 DEF Merge, Leave
<1>5. CASE CommitTx
  BY <1>3, <1>5 DEF CommitTx, Leave
<1>6. CASE MergeFails
  BY <1>2, <1>3, <1>6 DEF MergeFails, Leave
<1>7. CASE \/ MergePart \/ UNCHANGED vars
           \/ \E k \in Keys, v \in {"absent", "null", "set"} : Save(k, v)
  BY <1>7 DEF MergePart, AfterPart, vars, Save, warehouseVars
<1>8. CASE \/ Tick \/ StartFlush \/ AlterTable \/ AlterFails \/ CreateTemporaryTable \/ Load \/ PrepareFails
           \/ SkipBackfill \/ CommentOnColumn \/ RetryBackfill
  BY <1>8 DEF Tick, StartFlush, AlterTable, AlterFails, CreateTemporaryTable, Load, PrepareFails,
              SkipBackfill, CommentOnColumn, RetryBackfill, warehouseVars
<1>9. CASE \/ AuthExpires \/ DropTemporaryTable \/ DropFails \/ Reauthenticate \/ FlushReturns
           \/ Crash \/ Sweep \/ OthersSweep
  BY <1>9 DEF AuthExpires, DropTemporaryTable, DropFails, Reauthenticate, FlushReturns, Crash, Sweep, OthersSweep,
              warehouseVars
<1> QED
  BY <1>1, <1>4, <1>5, <1>6, <1>7, <1>8, <1>9 DEF Next

\* What the backfill does to one row.
LEMMA BackfilledFacts ==
  ASSUME TypeOK, NEW k \in Keys
  PROVE  /\ BackfilledRows[k].n = target[k].n
         /\ BackfilledRows[k].v = IF target[k].v = "null" THEN "default" ELSE target[k].v
BY RowFacts DEF TypeOK, BackfilledRows

\* No step gives a key a second row, unless its batch was loaded twice.
LEMMA OneRowStep ==
  ASSUME IInv, TypeOK', [Next]_vars
  PROVE  OneRowPerKey'
<1> USE DEF IInv
<1>1. SUFFICES ASSUME NEW k \in Keys \ doubled
               PROVE  target'[k].n = IF target'[k].v = "absent" THEN 0 ELSE 1
  BY Monotone DEF OneRowPerKey
<1>2. target[k].n = IF target[k].v = "absent" THEN 0 ELSE 1
  BY DEF OneRowPerKey
<1>3. CASE target' = target
  BY <1>2, <1>3
<1>4. CASE target' = BackfilledRows
  BY <1>2, <1>4, BackfilledFacts
<1>5. CASE Applied
  BY <1>2, <1>5 DEF Applied
<1> QED
  BY <1>3, <1>4, <1>5, TargetStep

\* Steps that leave the rows, the configuration and the mark alone.
LEMMA BackfillFrame ==
  ASSUME BackfillInv, UNCHANGED <<kind, source, batch, target, exists, comment, config, merged, early>>,
         pc' \in Named => pc \in Named,
         pc' \in Merging => pc \in Merging,
         pc' = "comment" => pc = "comment",
         pc' \in {"drop", "return"} /\ result' = "ok" => pc \in {"drop", "return"} /\ result = "ok"
  PROVE  BackfillInv'
<1>1. \A k \in Keys : Settled(k) => Settled(k)'
  BY DEF Settled, Overwritten
<1>2. ConfigInv'
  BY DEF BackfillInv, ConfigInv
<1> QED
  BY <1>1, <1>2 DEF BackfillInv

\* Describing the table, and adding the column, put no NULL at risk that was not.
LEMMA DescribedFrame ==
  ASSUME TypeOK, BackfillInv, UNCHANGED <<kind, source, batch, target, comment, merged, early>>,
         \/ config' = config /\ exists' = exists
         \/ config' = GetTableConfig /\ (exists => exists')
         \/ config' = "column" /\ GetTableConfig = "missing" /\ exists',
         pc = "alter", pc' \in {"create", "return"},
         pc' = "create" => config' # "none",
         pc' = "return" => result' # "ok"
  PROVE  BackfillInv'
<1> USE DEF Named, Merging, Transaction
<1>1. /\ comment => exists'
      /\ config' \in {"column", "backfilled"} => exists'
      /\ config' = "missing" => ~comment
      /\ config' = "column" => config = "column" \/ ~comment
      /\ config' = "backfilled" => config = "backfilled" \/ comment
  <2>1. (comment => exists) /\ (config \in {"column", "backfilled"} => exists) /\ (config = "missing" => ~comment)
    BY DEF BackfillInv, ConfigInv
  <2>2. GetTableConfig = "missing" => ~comment
    BY <2>1, ConfigType
  <2>3. CASE config' = config /\ exists' = exists
    BY <2>1, <2>3
  <2>4. CASE config' = GetTableConfig /\ (exists => exists')
    BY <2>1, <2>2, <2>4, ConfigType
  <2>5. CASE config' = "column" /\ GetTableConfig = "missing" /\ exists'
    BY <2>2, <2>5
  <2> QED
    BY <2>3, <2>4, <2>5
<1>2. ConfigInv'
  BY <1>1 DEF ConfigInv
<1>3. \A k \in Keys : Settled(k) => Settled(k)'
  BY <1>1 DEF Settled, Overwritten
<1> QED
  BY <1>1, <1>2, <1>3 DEF BackfillInv

\* Every step keeps the backfill, its mark and its comment in their order.
LEMMA BackfillStep ==
  ASSUME IInv, TypeOK', [Next]_vars
  PROVE  BackfillInv'
<1> USE DEF IInv, Named, Merging, Transaction, settings, bufferVars, history
<1>1. CASE UNCHANGED vars \/ Tick \/ StartFlush \/ OthersSweep
  BY <1>1, BackfillFrame DEF vars, Tick, StartFlush, OthersSweep, warehouseVars, flushVars
<1>2. CASE CreateTemporaryTable \/ Load \/ PrepareFails
  BY <1>2, BackfillFrame DEF CreateTemporaryTable, Load, PrepareFails
<1>3. CASE MergePart
  BY <1>3, BackfillFrame DEF MergePart, AfterPart
<1>4. CASE (AuthExpires /\ pc # "alter") \/ DropTemporaryTable \/ DropFails \/ Reauthenticate \/ Sweep
  BY <1>4, BackfillFrame DEF AuthExpires, DropTemporaryTable, DropFails, Reauthenticate, Sweep, warehouseVars
<1>5. ASSUME NEW k \in Keys, NEW v \in {"absent", "null", "set"}, Save(k, v) PROVE BackfillInv'
  <2>1. /\ pc = "idle" /\ pc' = "idle"
        /\ UNCHANGED <<kind, target, exists, comment, config, merged, early>>
        /\ source' = [source EXCEPT ![k] = v] /\ batch' = [batch EXCEPT ![k] = v]
    BY <1>5 DEF Save, warehouseVars, flushVars
  <2>2. /\ source'[k] = v /\ batch'[k] = v
        /\ \A j \in Keys \ {k} : source'[j] = source[j] /\ batch'[j] = batch[j]
    BY <2>1 DEF TypeOK
  <2>3. ASSUME NEW j \in Keys \ {k}, Settled(j) PROVE Settled(j)'
    BY <2>1, <2>2, <2>3 DEF Settled, Overwritten
  <2>4. v # "none"
    OBVIOUS
  <2>5. ConfigInv'
    BY <2>1 DEF BackfillInv, ConfigInv
  <2> QED
    BY <2>1, <2>2, <2>3, <2>4, <2>5 DEF BackfillInv
<1>6. CASE AlterTable
  <2>1. /\ pc = "alter" /\ pc' = "create"
        /\ UNCHANGED <<kind, source, batch, target, comment, merged, early>>
    BY <1>6 DEF AlterTable
  <2>2. \/ config' = GetTableConfig /\ (exists => exists')
        \/ config' = "column" /\ GetTableConfig = "missing" /\ exists'
    BY <1>6 DEF AlterTable, AddsColumn
  <2>3. config' # "none"
    BY <2>2, ConfigType
  <2> QED
    BY <2>1, <2>2, <2>3, DescribedFrame
<1>7. CASE AlterFails \/ (AuthExpires /\ pc = "alter")
  <2>1. /\ pc = "alter" /\ pc' = "return" /\ result' # "ok"
        /\ UNCHANGED <<kind, source, batch, target, comment, merged, early>>
    BY <1>7 DEF AlterFails, AuthExpires, warehouseVars
  <2>2. \/ config' = config /\ exists' = exists
        \/ config' = GetTableConfig /\ (exists => exists')
    BY <1>7 DEF AlterFails, AuthExpires, warehouseVars
  <2> QED
    BY <2>1, <2>2, DescribedFrame
<1>8. CASE SkipBackfill
  <2>1. /\ pc = "backfill" /\ pc' \in {"insert", "merge"}
        /\ config' = IF config = "missing" THEN config ELSE "backfilled"
        /\ UNCHANGED <<kind, source, batch, target, exists, comment, merged, early>>
        /\ kind = "mssql" \/ config # "column"
    BY <1>8 DEF SkipBackfill, ShouldBackfill, MarkBackfilled, warehouseVars
  <2>2. config \in {"missing", "column", "backfilled"}
    BY <2>1 DEF TypeOK, BackfillInv, ConfigInv
  <2>3. ConfigInv'
    BY <2>1, <2>2 DEF BackfillInv, ConfigInv
  <2>4. kind # "mssql" => config' = config
    BY <2>1, <2>2
  <2>5. kind # "mssql" => \A k \in Keys : Settled(k) => Settled(k)'
    BY <2>1, <2>4 DEF Settled, Overwritten
  <2> QED
    BY <2>1, <2>3, <2>4, <2>5 DEF BackfillInv
<1>9. CASE CommentOnColumn
  <2>1. /\ pc = "comment" /\ pc' \in {"insert", "merge"} /\ comment' /\ config = "column" /\ config' = "backfilled"
        /\ UNCHANGED <<kind, source, batch, target, exists, merged, early>>
    BY <1>9 DEF CommentOnColumn, MarkBackfilled, BackfillInv, ConfigInv
  <2>2. \A k \in Keys : Settled(k) => Settled(k)'
    BY <2>1 DEF Settled, Overwritten
  <2>3. ConfigInv'
    BY <2>1 DEF BackfillInv, ConfigInv
  <2> QED
    BY <2>1, <2>2, <2>3 DEF BackfillInv
<1>10. CASE RetryBackfill \/ (BackfillFails /\ pc = "comment")
  <2>1. /\ pc = "comment" /\ pc' \in {"backfill", "drop"}
        /\ pc' = "drop" => result' = "error"
        /\ UNCHANGED <<kind, source, batch, target, exists, config, merged, early>>
    BY <1>10 DEF RetryBackfill, BackfillFails, Leave
  <2>2. comment => comment'
    BY <1>10, Zenon DEF RetryBackfill, BackfillFails
  <2>3. config = "column" /\ exists
    BY <2>1 DEF BackfillInv, ConfigInv
  <2>4. \A k \in Keys : Settled(k) => Settled(k)'
    BY <2>1, <2>2 DEF Settled, Overwritten
  <2>5. ConfigInv'
    BY <2>1, <2>3 DEF ConfigInv
  <2> QED
    BY <2>1, <2>2, <2>4, <2>5 DEF BackfillInv
<1>11. ASSUME target' = BackfilledRows, pc = "backfill", pc' \in {"comment", "drop"},
              pc' = "drop" => result' = "error", kind' = kind, kind # "mssql", config = "column",
              UNCHANGED <<source, batch, exists, comment, config, merged, early>>
       PROVE  BackfillInv'
  <2>1. ASSUME NEW k \in Keys, Settled(k) PROVE Settled(k)'
    <3>1. source[k] = "null" => k \in early
      BY <1>11, <2>1 DEF Settled
    <3>2. target'[k].v = IF target[k].v = "null" THEN "default" ELSE target[k].v
      BY <1>11, BackfilledFacts
    <3>3. target'[k].v = source[k] \/ (k \in early /\ source[k] = "null" /\ target'[k].v = "default")
      BY <2>1, <3>1, <3>2 DEF Settled, Overwritten
    <3> QED
      BY <1>11, <3>1, <3>3 DEF Settled, Overwritten
  <2>2. ConfigInv'
    BY <1>11 DEF BackfillInv, ConfigInv
  <2> QED
    BY <1>11, <2>1, <2>2 DEF BackfillInv
<1>12. ASSUME Applied, pc \in {"merge", "commit"}, pc' = "drop", kind' = kind,
              UNCHANGED <<source, batch, exists, comment, config, merged, early>>
       PROVE  BackfillInv'
  <2>1. \A k \in Keys : IF batch[k] = "none" THEN target'[k] = target[k] ELSE target'[k].v = batch[k]
    BY <1>12 DEF Applied
  <2>2. ASSUME NEW k \in Keys, batch[k] = "none", Settled(k) PROVE Settled(k)'
    BY <1>12, <2>1, <2>2 DEF Settled, Overwritten
  <2>3. ConfigInv'
    BY <1>12 DEF BackfillInv, ConfigInv
  <2> QED
    BY <1>12, <2>1, <2>2, <2>3 DEF BackfillInv
<1>13. CASE Backfill \/ (BackfillFails /\ pc = "backfill")
  <2>1. /\ pc = "backfill" /\ pc' \in {"comment", "drop"}
        /\ kind' = kind /\ kind # "mssql" /\ config = "column"
        /\ pc' = "drop" => result' = "error"
        /\ UNCHANGED <<source, batch, exists, config, merged, early>>
    BY <1>13 DEF Backfill, BackfillFails, Leave, ShouldBackfill
  <2>2. comment' = comment
    BY <1>13, Zenon DEF Backfill, BackfillFails
  <2>3. target' = BackfilledRows \/ (target' = target /\ pc' = "drop")
    BY <1>13 DEF Backfill, BackfillFails, Leave
  <2>4. CASE target' = target /\ pc' = "drop"
    BY <2>1, <2>2, <2>4, BackfillFrame
  <2> QED
    BY <1>11, <2>1, <2>2, <2>3, <2>4
<1>14. CASE Merge \/ CommitTx \/ MergeFails
  <2>1. pc' = "drop" /\ UNCHANGED <<kind, source, batch, exists, comment, config, merged, early>>
    BY <1>14 DEF Merge, CommitTx, MergeFails, Leave
  <2>2. CASE Applied /\ pc \in {"merge", "commit"}
    BY <1>12, <2>1, <2>2
  <2>3. CASE target' = target /\ result' = "error"
    BY <2>1, <2>3, BackfillFrame
  <2>4. ASSUME NEW c \in Copies, pc = "merge", target' = MergedRows(c) PROVE Applied
    BY <2>4, MergeApplies
  <2>5. ASSUME pc = "commit", target' = tx PROVE Applied
    BY <2>5, CommitApplies
  <2> QED
    BY <1>14, <2>2, <2>3, <2>4, <2>5 DEF Merge, CommitTx, MergeFails, Leave
<1>15. CASE FlushReturns
  <2>1. pc = "return" /\ pc' = "idle" /\ UNCHANGED <<kind, source, target, exists, comment, config>>
    BY <1>15 DEF FlushReturns, warehouseVars
  <2>2. CASE result = "ok"
    <3>1. /\ \A k \in Keys : batch'[k] = "none"
          /\ merged' => merged \/ config # "missing"
          /\ \A k \in Keys : k \in early' <=> IF batch[k] = "none" THEN k \in early
                                               ELSE config = "missing" /\ batch[k] = "null"
      BY <1>15, <2>2 DEF FlushReturns, NoBatch
    <3>2. /\ config \in {"missing", "backfilled"}
          /\ \A k \in Keys : batch[k] # "none" => target[k].v = batch[k] /\ batch[k] = source[k]
      BY <2>1, <2>2 DEF BackfillInv, ConfigInv
    <3>3. kind # "mssql" /\ config # "missing" => comment
      BY <3>2 DEF BackfillInv
    <3>4. ASSUME NEW k \in Keys, kind # "mssql" PROVE Settled(k)'
      <4>1. CASE batch[k] = "none"
        BY <2>1, <3>1, <3>4, <4>1 DEF BackfillInv, Settled, Overwritten
      <4>2. CASE batch[k] # "none"
        BY <2>1, <3>1, <3>2, <3>3, <3>4, <4>2 DEF Settled
      <4> QED
        BY <4>1, <4>2
    <3>5. ConfigInv'
      BY <2>1 DEF BackfillInv, ConfigInv
    <3>6. kind # "mssql" /\ (config = "backfilled" \/ merged') => comment
      BY <3>1, <3>3 DEF BackfillInv
    <3> QED
      BY <2>1, <3>1, <3>4, <3>5, <3>6 DEF BackfillInv
  <2>3. CASE result # "ok"
    BY <1>15, <2>1, <2>3, BackfillFrame DEF FlushReturns
  <2> QED
    BY <2>2, <2>3
<1>16. CASE Crash
  <2>1. /\ pc' = "sweep" /\ config' = "none"
        /\ UNCHANGED <<kind, source, batch, target, exists, comment, merged, early>>
    BY <1>16 DEF Crash, warehouseVars
  <2>2. \A k \in Keys : Settled(k) => Settled(k)'
    BY <2>1 DEF Settled, Overwritten
  <2>3. ConfigInv'
    BY <2>1 DEF BackfillInv, ConfigInv
  <2> QED
    BY <2>1, <2>2, <2>3 DEF BackfillInv
<1>17. BackfillFails => pc \in {"backfill", "comment"}
  BY DEF BackfillFails
<1> QED
  BY <1>1, <1>2, <1>3, <1>4, <1>5, <1>6, <1>7, <1>8, <1>9, <1>10, <1>13, <1>14, <1>15, <1>16, <1>17 DEF Next

-----------------------------------------------------------------------------
\* A set with at most one element outside of a finite part.
LEMMA OneMore ==
  ASSUME NEW S, NEW L, IsFiniteSet(L), L \subseteq S, \A t, u \in S \ L : t = u
  PROVE  IsFiniteSet(S) /\ Cardinality(S) <= Cardinality(L) + 1
<1>1. Cardinality(L) \in Nat
  BY FS_CardinalityType
<1>2. CASE S \ L = {}
  <2>1. S = L
    BY <1>2
  <2> QED
    BY <1>1, <2>1
<1>3. CASE S \ L # {}
  <2>1. PICK x : x \in S \ L
    BY <1>3
  <2>2. S = L \cup {x}
    BY <2>1
  <2>3. IsFiniteSet(L \cup {x}) /\ Cardinality(L \cup {x}) = IF x \in L THEN Cardinality(L) ELSE Cardinality(L) + 1
    BY FS_AddElement, Zenon
  <2> QED
    BY <1>1, <2>1, <2>2, <2>3
<1> QED
  BY <1>2, <1>3

\* How many temporary tables there are.
LEMMA LeftoverFacts ==
  ASSUME TypeOK, LeftoverInv
  PROVE  /\ IsFiniteSet(Leftovers) /\ Cardinality(Leftovers) \in Nat /\ Cardinality(temps) \in Nat
         /\ Cardinality(Leftovers) <= Cardinality(temps)
         /\ faults \in Nat
         /\ Cardinality(temps) <= faults + 1
<1>1. Leftovers \subseteq temps
  BY DEF Leftovers
<1>2. /\ IsFiniteSet(Leftovers) /\ Cardinality(Leftovers) \in Nat /\ Cardinality(temps) \in Nat
      /\ Cardinality(Leftovers) <= Cardinality(temps)
  BY <1>1, FS_Subset, FS_CardinalityType DEF LeftoverInv
<1>3. faults \in Nat
  BY DEF TypeOK
<1>4. \A t, u \in temps \ Leftovers : t = u
  BY DEF LeftoverInv, Leftovers
<1>5. Cardinality(temps) <= Cardinality(Leftovers) + 1
  BY <1>1, <1>2, <1>4, OneMore
<1> QED
  BY <1>2, <1>3, <1>5 DEF LeftoverInv

\* A step that adds no table: a fault pays for the one in use, or it is gone.
LEMMA LeftoverFrame ==
  ASSUME IInv, TypeOK', temps' \subseteq temps, name' = name, faults' >= faults,
         Paid' => Paid \/ faults' = faults + 1 \/ Current' = {}
  PROVE  LeftoverInv'
<1> USE DEF IInv
<1>1. faults' \in Nat
  BY DEF TypeOK
<1>2. Leftovers' \subseteq Leftovers /\ Current' \subseteq Current
  BY DEF Leftovers, Current
<1>3. /\ IsFiniteSet(temps') /\ Cardinality(temps') \in Nat /\ Cardinality(temps') <= Cardinality(temps)
  BY FS_Subset, FS_CardinalityType DEF LeftoverInv
<1>4. Cardinality(Leftovers') \in Nat /\ Cardinality(Leftovers') <= Cardinality(Leftovers)
  BY <1>2, LeftoverFacts, FS_Subset, FS_CardinalityType
<1>5. Current' = {} => temps' = Leftovers'
  BY DEF Current, Leftovers
<1>6. Cardinality(Leftovers') <= faults'
  BY <1>1, <1>4, LeftoverFacts DEF LeftoverInv
<1>7. Paid' => Cardinality(temps') <= faults'
  BY <1>1, <1>3, <1>5, <1>6, LeftoverFacts DEF LeftoverInv
<1> QED
  BY <1>2, <1>3, <1>6, <1>7 DEF LeftoverInv

\* Only a fault leaves a temporary table behind.
LEMMA LeftoverStep ==
  ASSUME IInv, TypeOK', [Next]_vars
  PROVE  LeftoverInv'
<1> USE DEF IInv
<1>1. faults' >= faults /\ faults' \in Nat
  BY Monotone DEF TypeOK
<1> USE DEF warehouseVars, flushVars, Fault, Merging, Transaction
<1>2. CASE UNCHANGED vars \/ Tick \/ OthersSweep
  <2>1. UNCHANGED <<name, pc, result>> /\ temps' \subseteq temps
    BY <1>2 DEF vars, Tick, OthersSweep, Unexpired
  <2> QED
    BY <1>1, <2>1, LeftoverFrame DEF Paid
<1>3. ASSUME NEW k \in Keys, NEW v \in {"absent", "null", "set"}, Save(k, v) PROVE LeftoverInv'
  BY <1>1, <1>3, LeftoverFrame DEF Save, Paid
<1>4. CASE StartFlush \/ AlterFails \/ Reauthenticate
  BY <1>1, <1>4, LeftoverFrame DEF StartFlush, AlterFails, Reauthenticate, Paid
<1>5. CASE Backfill \/ SkipBackfill \/ CommentOnColumn \/ RetryBackfill \/ BackfillFails
  <2>1. pc \in {"backfill", "comment"} /\ pc' \in {"backfill", "comment", "merge", "insert", "drop"}
        /\ (pc' = "drop" => result' = "error")
    BY <1>5 DEF Backfill, SkipBackfill, CommentOnColumn, RetryBackfill, BackfillFails, MarkBackfilled, Leave
  <2>2. temps' = temps /\ name' = name
    BY <1>5 DEF Backfill, SkipBackfill, CommentOnColumn, RetryBackfill, BackfillFails
  <2> QED
    BY <1>1, <2>1, <2>2, LeftoverFrame DEF Paid
<1>6. CASE Merge \/ MergePart \/ CommitTx \/ MergeFails
  <2>1. pc \in Merging /\ pc' \in {"update", "delete", "commit", "drop"}
        /\ (pc' = "drop" => result' \in {"ok", "error"})
    BY <1>6 DEF Merge, MergePart, CommitTx, MergeFails, Leave
  <2>2. temps' = temps /\ name' = name
    BY <1>6 DEF Merge, MergePart, CommitTx, MergeFails
  <2> QED
    BY <1>1, <2>1, <2>2, LeftoverFrame DEF Paid
<1>7. CASE AuthExpires
  <2>1. faults' = faults + 1 /\ temps' = temps /\ name' = name
    BY <1>7 DEF AuthExpires
  <2> QED
    BY <1>1, <2>1, LeftoverFrame
<1>8. CASE DropTemporaryTable
  <2>1. temps' = temps \ Current /\ name' = name /\ pc' = "return"
    BY <1>8 DEF DropTemporaryTable, Dropped
  <2>2. temps' \subseteq temps /\ Current' = {}
    BY <2>1 DEF Current
  <2> QED
    BY <1>1, <2>1, <2>2, LeftoverFrame
<1>9. CASE DropFails
  BY <1>1, <1>9, LeftoverFrame DEF DropFails, Paid
<1>10. CASE Sweep
  BY <1>1, <1>10, LeftoverFrame DEF Sweep, Unexpired, Paid
<1>11. CASE FlushReturns \/ Crash \/ AlterTable
  <2>1. temps' = temps /\ pc' \in {"idle", "sweep", "create"}
        /\ (pc \in {"return", "alter"} \/ faults' = faults + 1)
    BY <1>11 DEF FlushReturns, Crash, AlterTable
  <2>2. Cardinality(temps) <= faults'
    BY <1>1, <2>1, LeftoverFacts DEF LeftoverInv, Paid
  <2>3. Leftovers' \subseteq temps
    BY <2>1 DEF Leftovers
  <2>4. Cardinality(Leftovers') \in Nat /\ Cardinality(Leftovers') <= Cardinality(temps)
    BY <2>3, FS_Subset, FS_CardinalityType DEF LeftoverInv
  <2>5. Cardinality(Leftovers') <= faults'
    BY <1>1, <2>2, <2>4, LeftoverFacts
  <2> QED
    BY <2>1, <2>2, <2>5 DEF LeftoverInv
<1>12. CASE CreateTemporaryTable \/ (PrepareFails /\ pc = "create")
  <2>1. pc = "create" /\ name' = name
        /\ (pc' = "load" \/ (pc' = "return" /\ faults' = faults + 1))
    BY <1>12 DEF CreateTemporaryTable, PrepareFails
  <2>2. Cardinality(temps) <= faults
    BY <2>1 DEF LeftoverInv, Paid
  <2>3. CASE Current # {}
    <3>1. temps' = temps
      BY <1>12, <2>3 DEF CreateTemporaryTable, PrepareFails, Created
    <3> QED
      BY <1>1, <2>1, <3>1, LeftoverFrame DEF Paid
  <2>4. CASE Current = {}
    <3> DEFINE new == [name |-> name, copies |-> 0]
               all == temps \cup {new}
    <3>1. temps' \subseteq all
      BY <1>12, <2>4 DEF CreateTemporaryTable, PrepareFails, Created
    <3>2. IsFiniteSet(all) /\ Cardinality(all) <= Cardinality(temps) + 1
      BY OneMore DEF LeftoverInv
    <3>3. new.name = name
      OBVIOUS
    <3>4. \A t \in temps : t.name # name
      BY <2>4 DEF Current
    <3>5. Leftovers' \subseteq temps /\ \A t, u \in temps' : t.name = u.name => t = u
      BY <2>1, <3>1, <3>3, <3>4 DEF Leftovers, LeftoverInv
    <3> HIDE DEF new, all
    <3>6. IsFiniteSet(temps') /\ Cardinality(temps') <= Cardinality(all)
          /\ Cardinality(temps') \in Nat /\ Cardinality(all) \in Nat
      BY <3>1, <3>2, FS_Subset, FS_CardinalityType
    <3>7. Cardinality(Leftovers') \in Nat /\ Cardinality(Leftovers') <= Cardinality(temps)
      BY <3>5, FS_Subset, FS_CardinalityType DEF LeftoverInv
    <3>8. Cardinality(Leftovers') <= faults'
      BY <1>1, <2>2, <3>7, LeftoverFacts
    <3>9. Paid' => Cardinality(temps') <= faults'
      BY <1>1, <2>1, <2>2, <3>2, <3>6, LeftoverFacts DEF Paid
    <3> QED
      BY <3>5, <3>6, <3>8, <3>9 DEF LeftoverInv
  <2> QED
    BY <2>3, <2>4
<1>13. ASSUME NEW c \in {1, 2}, temps' = Loaded(c), name' = name, pc = "load",
              pc' = "backfill" \/ faults' = faults + 1
       PROVE  LeftoverInv'
  <2>1. Leftovers' = Leftovers
    BY <1>13, LoadedFacts DEF Leftovers
  <2>2. \A t, u \in Current : t = u
    BY DEF LeftoverInv, Current
  <2>3. ASSUME NEW t \in temps', NEW u \in temps', t.name = u.name PROVE t = u
    <3>1. CASE t.name # name
      BY <1>13, <2>3, <3>1, LoadedFacts DEF LeftoverInv
    <3>2. CASE t.name = name
      <4>1. PICK x \in Current : t = [x EXCEPT !.copies = x.copies + c]
        BY <1>13, <3>2, LoadedFacts
      <4>2. PICK y \in Current : u = [y EXCEPT !.copies = y.copies + c]
        <5>1. u \in Loaded(c) /\ u.name = name
          BY <1>13, <2>3, <3>2
        <5> QED
          BY <5>1, LoadedFacts
      <4>3. x = y
        BY <2>2
      <4> QED
        BY <4>1, <4>2, <4>3
    <3> QED
      BY <3>1, <3>2
  <2>4. Leftovers' \subseteq temps' /\ \A t, u \in temps' \ Leftovers' : t = u
    BY <2>3 DEF Leftovers
  <2>5. IsFiniteSet(temps') /\ Cardinality(temps') <= Cardinality(Leftovers') + 1
    BY <2>1, <2>4, LeftoverFacts, OneMore
  <2>6. Cardinality(Leftovers') <= faults'
    BY <1>1, <2>1, LeftoverFacts DEF LeftoverInv
  <2>7. Cardinality(temps') \in Nat
    BY <2>5, FS_CardinalityType
  <2>8. Paid' => Cardinality(temps') <= faults'
    BY <1>13, <2>1, <2>5, <2>7, LeftoverFacts DEF LeftoverInv, Paid
  <2> QED
    BY <2>3, <2>5, <2>6, <2>8 DEF LeftoverInv
<1>14. CASE Load
  BY <1>13, <1>14 DEF Load
<1>15. CASE PrepareFails /\ pc = "load"
  <2>1. name' = name /\ pc' = "return"
    BY <1>15 DEF PrepareFails
  <2>2. \/ temps' = Loaded(1) /\ faults' = faults + 1
        \/ temps' = temps /\ (faults' = faults + 1 \/ Current = {})
    BY <1>15 DEF PrepareFails
  <2>3. CASE temps' = Loaded(1) /\ faults' = faults + 1
    BY <1>13, <1>15, <2>1, <2>3
  <2>4. CASE temps' = temps /\ (faults' = faults + 1 \/ Current = {})
    BY <1>1, <2>1, <2>4, LeftoverFrame DEF Current
  <2> QED
    BY <2>2, <2>3, <2>4
<1>16. PrepareFails => pc \in {"create", "load"}
  BY DEF PrepareFails
<1> QED
  BY <1>2, <1>3, <1>4, <1>5, <1>6, <1>7, <1>8, <1>9, <1>10, <1>11, <1>12, <1>14, <1>15, <1>16 DEF Next

\* What had expired when the process started is gone, and nothing older comes back.
LEMMA SweepStep ==
  ASSUME IInv, TypeOK', [Next]_vars
  PROVE  SweepInv'
<1> USE WarehouseAssumption DEF IInv
<1>1. /\ now \in Nat /\ now' \in Nat /\ swept \in Nat /\ swept' \in Nat /\ kind' = kind
      /\ name.expiry \in Nat /\ \A t \in temps : t.name.expiry \in Nat
      /\ \A t \in temps' : t.name.expiry \in Nat
  BY TempFacts, Monotone DEF TypeOK, Names
<1>2. ~Sweep => swept' = swept
  <2>1. CASE \/ UNCHANGED vars \/ Tick \/ StartFlush \/ AlterTable \/ AlterFails \/ CreateTemporaryTable
             \/ Load \/ PrepareFails \/ \E k \in Keys, v \in {"absent", "null", "set"} : Save(k, v)
    BY <2>1 DEF vars, Tick, StartFlush, AlterTable, AlterFails, CreateTemporaryTable, Load, PrepareFails, Save
  <2>2. CASE \/ Backfill \/ SkipBackfill \/ CommentOnColumn \/ RetryBackfill \/ BackfillFails
             \/ Merge \/ MergePart \/ CommitTx \/ MergeFails \/ AuthExpires
    BY <2>2 DEF Backfill, SkipBackfill, CommentOnColumn, RetryBackfill, BackfillFails, Merge, MergePart, CommitTx,
                MergeFails, AuthExpires
  <2>3. CASE \/ DropTemporaryTable \/ DropFails \/ Reauthenticate \/ FlushReturns \/ Crash \/ OthersSweep
    BY <2>3 DEF DropTemporaryTable, DropFails, Reauthenticate, FlushReturns, Crash, OthersSweep
  <2> QED
    BY <2>1, <2>2, <2>3 DEF Next
<1>3. CASE Inside
  <2>1. /\ name' = name /\ now' >= now
        /\ \A u \in temps' : \E t \in temps : u.name = t.name
        /\ pc' = "create" => pc = "create"
        /\ pc = "sweep" => pc' = "sweep"
    BY <1>3, InsideFacts
  <2>2. swept' = swept
    <3>1. CASE ~Sweep
      BY <1>2, <3>1
    <3>2. CASE Sweep
      BY <2>1, <3>2 DEF Sweep
    <3> QED
      BY <3>1, <3>2
  <2>3. kind' # "bigquery" /\ pc' # "sweep" => \A u \in temps' : u.name.expiry >= swept'
    BY <1>1, <2>1, <2>2 DEF SweepInv
  <2>4. swept' <= now' /\ (pc' = "create" => swept' <= name'.expiry)
    BY <1>1, <2>1, <2>2 DEF SweepInv
  <2> QED
    BY <2>3, <2>4 DEF SweepInv
<1>4. CASE StartFlush \/ Reauthenticate \/ FlushReturns \/ Crash
  <2>1. UNCHANGED <<temps, now, swept>> /\ pc' # "create" /\ (pc # "sweep" \/ pc' = "sweep")
    BY <1>4 DEF StartFlush, Reauthenticate, FlushReturns, Crash, warehouseVars
  <2> QED
    BY <1>1, <2>1 DEF SweepInv
<1>5. CASE AlterTable
  <2>1. UNCHANGED <<temps, now, swept>> /\ pc' = "create" /\ pc = "alter" /\ name'.expiry = now + TTL
    BY <1>5 DEF AlterTable, warehouseVars
  <2> QED
    BY <1>1, <2>1 DEF SweepInv
<1>6. CASE CreateTemporaryTable \/ (PrepareFails /\ pc = "create")
  <2>1. UNCHANGED <<name, now, swept>> /\ pc = "create" /\ pc' \in {"load", "return"}
    BY <1>6 DEF CreateTemporaryTable, PrepareFails
  <2>2. \A u \in temps' : u \in temps \/ u.name = name
    BY <1>6, CreatedFacts DEF CreateTemporaryTable, PrepareFails
  <2> QED
    BY <1>1, <2>1, <2>2 DEF SweepInv
<1>7. CASE Sweep
  <2>1. pc' = "idle" /\ swept' = now /\ now' = now /\ (kind # "bigquery" => temps' = Unexpired)
    BY <1>7 DEF Sweep
  <2> QED
    BY <1>1, <2>1 DEF SweepInv, Unexpired, ShouldDeleteFromName
<1> QED
  BY <1>3, <1>4, <1>5, <1>6, <1>7, Steps

-----------------------------------------------------------------------------
\* A target without the new column, and nothing buffered.
LEMMA InitIInv ==
  ASSUME Init
  PROVE  IInv
<1> USE DEF Init
<1>1. \A k \in Keys : source[k] \in {"absent", "default"}
  OBVIOUS
<1>2. ASSUME NEW k \in Keys
      PROVE  /\ target[k] \in [n: Nat, v: Rows]
             /\ target[k].n = IF target[k].v = "absent" THEN 0 ELSE 1
             /\ \/ target[k].v = source[k]
                \/ target[k].v = "null" /\ source[k] = "default"
  BY <1>1 DEF Rows
<1>3. target \in Tables
  BY <1>2 DEF Tables
<1>4. TypeOK
  BY <1>3 DEF TypeOK, Rows, NoBatch, NoName, Names
<1>5. LoadInv /\ TxInv /\ LiveTempSurvives
  BY DEF LoadInv, TxInv, LiveTempSurvives, Late, Merging, Transaction
<1>6. BackfillInv
  <2>1. \A k \in Keys : Settled(k)
    BY <1>1, <1>2 DEF Settled
  <2>2. ConfigInv
    BY DEF ConfigInv, Named, Merging, Transaction
  <2> QED
    BY <2>1, <2>2 DEF BackfillInv, NoBatch
<1>7. LeftoverInv
  <2>1. Leftovers = {}
    BY DEF Leftovers
  <2> QED
    BY <2>1, FS_EmptySet DEF LeftoverInv
<1>8. SweepInv
  BY DEF SweepInv
<1>9. OneRowPerKey
  BY <1>2 DEF OneRowPerKey
<1> QED
  BY <1>4, <1>5, <1>6, <1>7, <1>8, <1>9 DEF IInv

\* IInv is inductive: it holds in every state of a Merge, whichever statements fail or
\* are repeated and wherever the process dies.
THEOREM Invariance == Spec => []IInv
<1>1. Init => IInv
  BY InitIInv
<1>2. IInv /\ [Next]_vars => IInv'
  <2> SUFFICES ASSUME IInv, [Next]_vars PROVE IInv'
    OBVIOUS
  <2>1. TypeOK'
    BY TypeStep DEF IInv
  <2>2. LoadInv' /\ TxInv' /\ BackfillInv'
    BY <2>1, LoadStep, TxStep, BackfillStep
  <2>3. LeftoverInv' /\ SweepInv' /\ OneRowPerKey' /\ LiveTempSurvives'
    BY <2>1, LeftoverStep, SweepStep, OneRowStep, LiveStep
  <2> QED
    BY <2>1, <2>2, <2>3 DEF IInv
<1> QED
  BY <1>1, <1>2, PTL DEF Spec

\* Every variable keeps its shape (clients/shared/merge.go and the four clients).
THEOREM TypeCorrect == Spec => []TypeOK
<1>1. IInv => TypeOK
  BY DEF IInv
<1> QED
  BY <1>1, Invariance, PTL

\* The new column ends up as the source has it: old rows have the default, and a NULL
\* merged into the column is never backfilled (BackfillColumn and the mark in the column's
\* comment); only a NULL acknowledged before AlterTable added the column may be.
THEOREM ColumnIsFaithful == Spec => []ColumnMatchesSource
<1>1. IInv => ColumnMatchesSource
  <2> SUFFICES ASSUME IInv, kind # "mssql", merged, pc = "idle", batch = NoBatch, NEW k \in Keys
               PROVE  target[k].v = source[k] \/ Overwritten(k)
    BY DEF ColumnMatchesSource
  <2>1. batch[k] = "none"
    BY DEF NoBatch
  <2>2. comment /\ Settled(k)
    BY <2>1 DEF IInv, BackfillInv
  <2> QED
    BY <2>2 DEF Settled
<1> QED
  BY <1>1, Invariance, PTL

\* However often a batch is loaded or merged again, a key has one row, unless a MERGE
\* without SELECT DISTINCT found its batch twice in the temporary table (SubQueryDedupe,
\* NoDedupeID, the suffix that Snowflake's retries share).
THEOREM OneRow == Spec => []OneRowPerKey
<1>1. IInv => OneRowPerKey
  BY DEF IInv
<1> QED
  BY <1>1, Invariance, PTL

\* A reader of the target sees the backfill or a whole batch, never a part of one.
THEOREM MergesAreAtomic == Spec => MergeIsAtomic
<1> DEFINE Whole == \/ target' = BackfilledRows
                    \/ \A k \in Keys : target'[k].v = IF batch[k] = "none" THEN target[k].v ELSE batch[k]
<1>1. IInv /\ [Next]_vars => [Whole]_target
  <2> SUFFICES ASSUME IInv, [Next]_vars, target' # target, target' # BackfilledRows
               PROVE  \A k \in Keys : target'[k].v = IF batch[k] = "none" THEN target[k].v ELSE batch[k]
    OBVIOUS
  <2>1. Applied
    BY TargetStep
  <2> QED
    BY <2>1 DEF Applied
<1> QED
  BY <1>1, Invariance, PTL DEF Spec, MergeIsAtomic

\* A sweep, this process's or another's, takes no temporary table whose TTL has not
\* passed (ShouldDeleteFromName).
THEOREM TempsSurvive == Spec => []LiveTempSurvives
<1>1. IInv => LiveTempSurvives
  BY DEF IInv
<1> QED
  BY <1>1, Invariance, PTL

\* There are never more forgotten temporary tables than faults, and none that had
\* expired when the process started (the deferred drop of Merge and Sweep).
THEOREM LeftoversSwept == Spec => []LeftoversAreSwept
<1>1. IInv => LeftoversAreSwept
  BY DEF IInv, LeftoverInv, SweepInv, Leftovers, LeftoversAreSwept
<1> QED
  BY <1>1, Invariance, PTL

=============================================================================
