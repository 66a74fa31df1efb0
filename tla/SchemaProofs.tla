---------------------------- MODULE SchemaProofs ----------------------------
(***************************************************************************)
(* Proofs about SchemaEvolution, for any columns, any stream of events and *)
(* any number of failing statements and restarts.                          *)
(***************************************************************************)
EXTENDS SchemaEvolution, TLAPS

\* The batch is what was read and not yet acknowledged.
BatchInv ==
  /\ batch.typed \subseteq batch.cols
  /\ \A i \in (done + 1)..read : log[i].cols \subseteq batch.cols
  /\ batch.other => \E i \in (done + 1)..read : log[i].op = "upsert"
  /\ \A i \in 1..Len(log) : log[i].ts <= now

\* A table that does not exist has no columns, and the cache only asks for CREATE as
\* long as it has not seen the table.
TableInv ==
  /\ ~dest.exists => dest.cols = {}
  /\ cache.known /\ ~cache.create => dest.exists

\* Unless a DROP or a CREATE is in doubt, the cache only claims columns the table
\* has, or whose DROP has just gone through.
CacheInv ==
  cache.known /\ ~inDoubt =>
    /\ cache.create => ~dest.exists
    /\ cache.cols \subseteq dest.cols \cup (IF pc = "drop" THEN ToDelete(cache) \ todo ELSE {})

\* What each part of Merge leaves to the next.
MergeInv ==
  /\ pc # "idle" => cache.known
  /\ pc = "add" => /\ extra = SrcKeysMissing(cache)
                   /\ cache.create => todo = TargetKeysMissing(cache)
                   /\ TargetKeysMissing(cache) \subseteq todo \cup dest.cols
  /\ pc \in {"mark", "drop", "stage", "merge"} => ~cache.create /\ batch.typed \subseteq cache.cols
  /\ pc \in {"mark", "drop"} => extra \cap batch.cols = {}
  /\ pc = "drop" => todo \subseteq ToDelete(cache)

\* Since a column was marked no acknowledged row change has mentioned it; once the
\* audit is over the batch does not mention it either.
MarkInv ==
  /\ ~DropDeletedColumns => \A c \in Cols : cache.marks[c] = 0
  /\ \A c \in Cols : cache.marks[c] # 0 =>
       \A i \in 1..done : log[i].op = "upsert" /\ log[i].ts + Padding > cache.marks[c] =>
         c \notin log[i].cols
  /\ pc \in {"stage", "merge"} => \A c \in batch.cols : cache.marks[c] = 0

IInv ==
  /\ TypeOK
  /\ BatchInv
  /\ TableInv
  /\ CacheInv
  /\ MergeInv
  /\ MarkInv

-----------------------------------------------------------------------------
\* What the helpers on a DwhTableConfig return.
LEMMA EmptyFacts ==
  /\ EmptyBatch \in Batches
  /\ EmptyBatch.cols = {} /\ EmptyBatch.typed = {} /\ ~EmptyBatch.other
BY DEF EmptyBatch, Batches

LEMMA UnknownFacts ==
  /\ Unknown \in Configs
  /\ ~Unknown.known
  /\ \A c \in Cols : Unknown.marks[c] = 0
BY DEF Unknown, Configs, NoMarks

LEMMA DescribedFacts ==
  ASSUME TypeOK
  PROVE  /\ Described \in Configs
         /\ Described.known
         /\ Described.cols = dest.cols
         /\ Described.create = ~dest.exists
         /\ \A c \in Cols : Described.marks[c] = 0
BY DEF Described, Configs, NoMarks, TypeOK, Tables

LEMMA AddFacts ==
  ASSUME NEW cfg \in Configs, NEW S \in SUBSET Cols
  PROVE  /\ MutatedByAdd(cfg, S) \in Configs
         /\ MutatedByAdd(cfg, S).known = cfg.known
         /\ MutatedByAdd(cfg, S).cols = cfg.cols \cup S
         /\ MutatedByAdd(cfg, S).create = FALSE
         /\ \A c \in Cols : MutatedByAdd(cfg, S).marks[c] \in {0, cfg.marks[c]}
BY DEF MutatedByAdd, Configs

LEMMA DeleteFacts ==
  ASSUME NEW cfg \in Configs, NEW S \in SUBSET Cols
  PROVE  /\ MutatedByDelete(cfg, S) \in Configs
         /\ MutatedByDelete(cfg, S).known = cfg.known
         /\ MutatedByDelete(cfg, S).cols = cfg.cols \ S
         /\ MutatedByDelete(cfg, S).create = cfg.create
         /\ \A c \in Cols : MutatedByDelete(cfg, S).marks[c] \in {0, cfg.marks[c]}
BY DEF MutatedByDelete, Configs

LEMMA AuditFacts ==
  ASSUME NEW cfg \in Configs
  PROVE  /\ Audited(cfg) \in Configs
         /\ Audited(cfg).known = cfg.known
         /\ Audited(cfg).cols = cfg.cols
         /\ Audited(cfg).create = cfg.create
         /\ \A c \in Cols : Audited(cfg).marks[c] \in {0, cfg.marks[c]}
         /\ DropDeletedColumns => \A c \in Cols \ extra : Audited(cfg).marks[c] = 0
BY DEF Audited, Configs

LEMMA MarkFacts ==
  ASSUME TypeOK, NEW cfg \in Configs
  PROVE  /\ Marked(cfg) \in Configs
         /\ Marked(cfg).known = cfg.known
         /\ Marked(cfg).cols = cfg.cols
         /\ Marked(cfg).create = cfg.create
         /\ \A c \in Cols : \/ Marked(cfg).marks[c] = cfg.marks[c]
                            \/ /\ cfg.marks[c] = 0
                               /\ Marked(cfg).marks[c] = now + Padding
                               /\ DropDeletedColumns
<1> DEFINE m == [c \in Cols |-> IF c \in extra /\ MayDelete /\ cfg.marks[c] = 0
                               THEN now + Padding ELSE cfg.marks[c]]
<1>1. now + Padding \in Nat
  BY SchemaAssumption DEF TypeOK
<1>2. m \in [Cols -> Nat]
  BY <1>1 DEF Configs
<1>3. Marked(cfg) = [cfg EXCEPT !.marks = m]
  BY DEF Marked
<1>4. MayDelete => DropDeletedColumns
  BY DEF MayDelete
<1>5. Marked(cfg).marks = m
  BY <1>3 DEF Configs
<1>6. \A c \in Cols : \/ m[c] = cfg.marks[c]
                      \/ cfg.marks[c] = 0 /\ m[c] = now + Padding /\ DropDeletedColumns
  BY <1>4
<1> HIDE DEF m
<1> QED
  BY <1>2, <1>3, <1>5, <1>6 DEF Configs

LEMMA RetypedFacts ==
  ASSUME TypeOK, NEW X
  PROVE  /\ Retyped(X) \in Batches
         /\ Retyped(X).cols = batch.cols
         /\ Retyped(X).typed = batch.typed \cup (batch.cols \cap X)
         /\ Retyped(X).other = batch.other
         /\ Retyped(X).ts = batch.ts
BY DEF Retyped, Batches, TypeOK

LEMMA EventFacts ==
  ASSUME TypeOK, NEW i \in 1..Len(log)
  PROVE  /\ log[i] \in Events
         /\ log[i].cols \in SUBSET Cols /\ log[i].typed \in SUBSET Cols /\ log[i].ts \in Nat
         /\ log[i].typed \subseteq log[i].cols
         /\ log[i].op \in {"upsert", "delete"}
BY DEF TypeOK, Events

-----------------------------------------------------------------------------
\* The type invariant is inductive.
LEMMA TypeInit == Init => TypeOK
<1> SUFFICES ASSUME Init PROVE TypeOK
  OBVIOUS
<1>1. log \in Seq(Events) /\ Len(log) = 0
  BY DEF Init
<1>2. cache \in Configs
  BY UnknownFacts DEF Init
<1>3. batch \in Batches
  BY EmptyFacts DEF Init
<1>4. dest \in Tables
  <2>1. [exists |-> FALSE, cols |-> {}] \in Tables
    BY DEF Tables
  <2>2. [exists |-> TRUE, cols |-> Cols] \in Tables
    BY DEF Tables
  <2> QED
    BY <2>1, <2>2, Zenon DEF Init
<1>5. /\ now \in Nat /\ faults \in Nat
      /\ done \in Nat /\ read \in Nat /\ done <= read /\ read <= Len(log)
  BY <1>1 DEF Init
<1>6. /\ pc \in {"idle", "add", "mark", "drop", "stage", "merge"}
      /\ todo \in SUBSET Cols /\ extra \in SUBSET Cols /\ inDoubt \in BOOLEAN
  BY Zenon DEF Init
<1> QED
  BY <1>1, <1>2, <1>3, <1>4, <1>5, <1>6 DEF TypeOK

LEMMA TypeStep ==
  ASSUME TypeOK, [Next]_vars
  PROVE  TypeOK'
<1> USE SchemaAssumption DEF TypeOK, streamVars, mergeVars
<1>1. CASE Tick
  BY <1>1 DEF Tick
<1>2. ASSUME NEW op \in {"upsert", "delete"}, NEW S \in SUBSET Cols, NEW T \in SUBSET S, Emit(op, S, T)
      PROVE  TypeOK'
  <2> DEFINE e == [op |-> op, cols |-> S, typed |-> T, ts |-> now]
  <2>1. e \in Events
    BY <1>2 DEF Emit, Events
  <2>2. log' \in Seq(Events) /\ Len(log') = Len(log) + 1
    BY <1>2, <2>1 DEF Emit
  <2> QED
    BY <1>2, <2>2 DEF Emit
<1>3. CASE Save
  <2>1. read + 1 \in 1..Len(log)
    BY <1>3 DEF Save
  <2>2. /\ log[read + 1].cols \in SUBSET Cols
        /\ log[read + 1].typed \in SUBSET Cols
        /\ log[read + 1].ts \in Nat
    BY <2>1, EventFacts
  <2> QED
    BY <1>3, <2>1, <2>2 DEF Save, Batches
<1>4. CASE StartMerge
  BY <1>4, DescribedFacts DEF StartMerge, GetTableConfig, TargetKeysMissing, SrcKeysMissing, Configs, Batches
<1>5. CASE CreateTable
  <2>1. cache' \in Configs
    BY <1>5, AddFacts DEF CreateTable
  <2> QED
    BY <1>5, <2>1 DEF CreateTable, Created, Tables
<1>6. ASSUME NEW c \in Cols, AddColumn(c)
      PROVE  TypeOK'
  BY <1>6 DEF AddColumn, WithColumn, Tables
<1>7. ASSUME NEW c \in Cols, DropColumn(c)
      PROVE  TypeOK'
  BY <1>7 DEF DropColumn, WithoutColumn, Tables
<1>8. CASE ColumnsAdded
  <2>1. cache' \in Configs
    BY <1>8, AddFacts DEF ColumnsAdded, TargetKeysMissing, Batches
  <2> QED
    BY <1>8, <2>1 DEF ColumnsAdded
<1>9. CASE MarkColumns
  <2>1. cache' \in Configs
    BY <1>9, MarkFacts DEF MarkColumns
  <2> QED
    BY <1>9, <2>1 DEF MarkColumns, ToDelete
<1>10. CASE ColumnsDropped
  <2>1. ToDelete(cache) \in SUBSET Cols
    BY DEF ToDelete
  <2>2. cache' \in Configs
    BY <1>10, <2>1, DeleteFacts, AuditFacts DEF ColumnsDropped
  <2>3. batch' \in Batches
    BY <1>10, RetypedFacts DEF ColumnsDropped
  <2> QED
    BY <1>10, <2>2, <2>3 DEF ColumnsDropped
<1>11. CASE PrepareTemporaryTable
  <2>1. batch.typed \in SUBSET Cols
    BY DEF Batches
  <2>2. cache' \in Configs
    BY <1>11, <2>1, AddFacts DEF PrepareTemporaryTable
  <2> QED
    BY <1>11, <2>2 DEF PrepareTemporaryTable
<1>12. CASE MergeRows
  BY <1>12, EmptyFacts DEF MergeRows
<1>13. CASE CreateFails
  <2>1. Created \in Tables
    BY DEF Created, Tables
  <2>2. dest' \in {dest, Created}
    BY <1>13, Zenon DEF CreateFails, Fails
  <2>3. inDoubt' \in BOOLEAN
    BY <1>13, Zenon DEF CreateFails
  <2> QED
    BY <1>13, <2>1, <2>2, <2>3 DEF CreateFails, Fails, Abort
<1>14. ASSUME NEW c \in Cols, AddFails(c)
       PROVE  TypeOK'
  BY <1>14 DEF AddFails, Fails, Abort, WithColumn, Tables
<1>15. ASSUME NEW c \in Cols, DropFails(c)
       PROVE  TypeOK'
  <2>1. dest' \in {dest, WithoutColumn(c)}
    BY <1>15, Zenon DEF DropFails, Fails
  <2>2. WithoutColumn(c) \in Tables
    BY DEF WithoutColumn, Tables
  <2> QED
    BY <1>15, <2>1, <2>2 DEF DropFails, Fails, Abort
<1>16. CASE MergeFails
  BY <1>16 DEF MergeFails, Fails, Abort
<1>17. CASE Crash
  <2>1. cache' \in Configs /\ batch' \in Batches
    BY <1>17, UnknownFacts, EmptyFacts, Zenon DEF Crash
  <2>2. inDoubt' \in BOOLEAN
    BY <1>17, Zenon DEF Crash
  <2> QED
    BY <1>17, <2>1, <2>2 DEF Crash, ResumeOffset
<1>18. CASE UNCHANGED vars
  BY <1>18 DEF vars
<1> QED
  BY <1>1, <1>2, <1>3, <1>4, <1>5, <1>6, <1>7, <1>8, <1>9, <1>10, <1>11, <1>12, <1>13, <1>14,
     <1>15, <1>16, <1>17, <1>18 DEF Next, MergeStep, FailingStep, Quiet

\* Every variable of SchemaEvolution keeps its type, and the batch stays between what
\* is acknowledged and what was produced.
THEOREM TypeCorrect == Spec => []TypeOK
BY TypeInit, TypeStep, PTL DEF Spec

-----------------------------------------------------------------------------
\* An invariant has to be shown for the actions that can disturb it, and the others
\* leave everything it mentions alone.
LEMMA BatchStep ==
  ASSUME TypeOK, TypeOK', BatchInv, [Next]_vars
  PROVE  BatchInv'
<1> USE SchemaAssumption DEF BatchInv, streamVars, mergeVars
<1>1. CASE Tick
  <2>1. \A i \in 1..Len(log) : log[i].ts \in Nat
    BY EventFacts
  <2>2. now' = now + 1 /\ UNCHANGED <<log, read, done, batch>>
    BY <1>1 DEF Tick
  <2>3. \A i \in 1..Len(log) : log[i].ts <= now + 1
    BY <2>1 DEF TypeOK
  <2> QED
    BY <2>2, <2>3
<1>2. ASSUME NEW op \in {"upsert", "delete"}, NEW S \in SUBSET Cols, NEW T \in SUBSET S, Emit(op, S, T)
      PROVE  BatchInv'
  <2> DEFINE e == [op |-> op, cols |-> S, typed |-> T, ts |-> now]
  <2>1. e \in Events /\ e.ts = now
    BY <1>2 DEF Emit, Events, TypeOK
  <2>2. /\ Len(log') = Len(log) + 1
        /\ \A i \in 1..Len(log) : log'[i] = log[i]
        /\ log'[Len(log) + 1] = e
    BY <1>2, <2>1 DEF Emit, TypeOK
  <2>3. UNCHANGED <<now, read, done, batch>>
    BY <1>2 DEF Emit
  <2> HIDE DEF e
  <2>4. \A i \in (done + 1)..read : i \in 1..Len(log) /\ log'[i] = log[i]
    BY <2>2 DEF TypeOK
  <2>5. \A i \in 1..Len(log') : log'[i].ts <= now
    BY <2>1, <2>2 DEF TypeOK
  <2> QED
    BY <2>3, <2>4, <2>5
<1>3. CASE Save
  <2>1. read + 1 \in 1..Len(log)
    BY <1>3 DEF Save, TypeOK
  <2>2. log[read + 1].typed \subseteq log[read + 1].cols
    BY <2>1, EventFacts
  <2>3. /\ batch'.cols = batch.cols \cup log[read + 1].cols
        /\ batch'.typed = batch.typed \cup log[read + 1].typed
        /\ batch'.other = (batch.other \/ log[read + 1].op = "upsert")
        /\ read' = read + 1
        /\ UNCHANGED <<now, log, done>>
    BY <1>3 DEF Save
  <2>4. /\ \A i \in (done + 1)..(read + 1) : i \in (done + 1)..read \/ i = read + 1
        /\ \A i \in (done + 1)..read : i \in (done + 1)..(read + 1)
        /\ read + 1 \in (done + 1)..(read + 1)
    BY DEF TypeOK
  <2> QED
    BY <2>2, <2>3, <2>4
<1>4. CASE ColumnsDropped
  <2>1. /\ batch'.cols = batch.cols
        /\ batch'.typed \subseteq batch.typed \cup batch.cols
        /\ batch'.other = batch.other
    <3>1. PICK X : batch' = Retyped(X)
      BY <1>4, Zenon DEF ColumnsDropped
    <3> QED
      BY <3>1, RetypedFacts
  <2>2. UNCHANGED <<now, log, done, read>>
    BY <1>4, Zenon DEF ColumnsDropped
  <2> QED
    BY <2>1, <2>2
<1>5. CASE MergeRows
  <2>1. (done + 1)..read = {} \/ done' = read
    BY <1>5 DEF MergeRows
  <2> QED
    BY <1>5, EmptyFacts DEF MergeRows, TypeOK
<1>6. CASE Crash
  BY <1>6, EmptyFacts DEF Crash, ResumeOffset, TypeOK
<1>7. CASE UNCHANGED <<now, log, done, read, batch>>
  BY <1>7
<1> QED
  BY <1>1, <1>2, <1>3, <1>4, <1>5, <1>6, <1>7 DEF Next, MergeStep, FailingStep, Quiet, vars,
     StartMerge, CreateTable, AddColumn, DropColumn, ColumnsAdded, MarkColumns,
     PrepareTemporaryTable, CreateFails, AddFails, DropFails, MergeFails, Abort

\* What statements do to the table.
LEMMA TableFacts ==
  ASSUME TypeOK, TableInv
  PROVE  /\ Created.exists
         /\ ~dest.exists => Created.cols = todo
         /\ dest.exists => Created = dest
         /\ dest.cols \subseteq Created.cols
         /\ \A c \in Cols :
              /\ WithColumn(c).exists = dest.exists
              /\ WithColumn(c).cols = dest.cols \cup {c}
              /\ WithoutColumn(c).exists = dest.exists
              /\ WithoutColumn(c).cols = dest.cols \ {c}
BY DEF TypeOK, TableInv, Tables, Created, WithColumn, WithoutColumn

\* What a failing statement leaves behind.
LEMMA FailFacts ==
  ASSUME NEW applied, Fails(applied)
  PROVE  dest' = dest \/ dest' = applied
BY Zenon DEF Fails

\* The configuration Merge works with.
LEMMA ConfigFacts ==
  ASSUME TypeOK, TableInv, CacheInv
  PROVE  /\ GetTableConfig \in Configs
         /\ GetTableConfig.known
         /\ ~GetTableConfig.create => dest.exists
         /\ ~inDoubt /\ pc = "idle" => /\ GetTableConfig.create => ~dest.exists
                                       /\ GetTableConfig.cols \subseteq dest.cols
         /\ \A c \in Cols : GetTableConfig.marks[c] \in {0, cache.marks[c]}
<1>1. CASE cache.known
  <2>1. GetTableConfig = cache
    BY <1>1 DEF GetTableConfig
  <2> QED
    BY <1>1, <2>1 DEF TypeOK, TableInv, CacheInv
<1>2. CASE ~cache.known
  <2>1. GetTableConfig = Described
    BY <1>2 DEF GetTableConfig
  <2> QED
    BY <2>1, DescribedFacts
<1> QED
  BY <1>1, <1>2

-----------------------------------------------------------------------------
\* The table and the cached configuration.
LEMMA TableStep ==
  ASSUME IInv, TypeOK', [Next]_vars
  PROVE  TableInv'
<1> USE DEF IInv, TableInv, streamVars, mergeVars
<1>0. cache \in Configs /\ todo \in SUBSET Cols /\ batch.typed \in SUBSET Cols
  BY DEF TypeOK, Batches
<1>1. CASE StartMerge
  BY <1>1, ConfigFacts DEF StartMerge
<1>2. CASE CreateTable
  BY <1>2, TableFacts DEF CreateTable
<1>3. ASSUME NEW c \in Cols, AddColumn(c) \/ DropColumn(c)
      PROVE  TableInv'
  <2>1. pc = "add" \/ pc = "drop"
    BY <1>3 DEF AddColumn, DropColumn
  <2>2. ~cache.create
    BY <1>3, <2>1 DEF AddColumn, DropColumn, MergeInv
  <2>3. dest.exists
    BY <2>1, <2>2 DEF MergeInv
  <2> QED
    BY <1>3, <2>3, TableFacts DEF AddColumn, DropColumn
<1>4. CASE ColumnsAdded
  <2>1. /\ cache'.known = cache.known
        /\ dest' = dest
        /\ ~cache.create
    BY <1>0, <1>4, AddFacts DEF ColumnsAdded, TargetKeysMissing
  <2> QED
    BY <2>1
<1>5. CASE MarkColumns
  BY <1>0, <1>5, MarkFacts DEF MarkColumns
<1>6. CASE ColumnsDropped
  <2>1. ToDelete(cache) \in SUBSET Cols
    BY DEF ToDelete, TypeOK
  <2>2. cache'.known = cache.known /\ cache'.create = cache.create
    BY <1>0, <1>6, <2>1, DeleteFacts, AuditFacts DEF ColumnsDropped
  <2> QED
    BY <1>6, <2>2 DEF ColumnsDropped
<1>7. CASE PrepareTemporaryTable
  <2>1. ~cache.create
    BY <1>7 DEF PrepareTemporaryTable, MergeInv
  <2> QED
    BY <1>0, <1>7, <2>1, AddFacts DEF PrepareTemporaryTable
<1>8. CASE CreateFails
  <2>1. dest' = dest \/ dest' = Created
    BY <1>8, FailFacts DEF CreateFails
  <2> QED
    BY <1>8, <2>1, TableFacts DEF CreateFails
<1>9. ASSUME NEW c \in Cols, AddFails(c)
      PROVE  TableInv'
  <2>1. dest' = dest \/ dest' = WithColumn(c)
    BY <1>9, FailFacts DEF AddFails
  <2>2. dest.exists
    BY <1>9 DEF AddFails, MergeInv
  <2> QED
    BY <1>9, <2>1, <2>2, TableFacts DEF AddFails
<1>10. ASSUME NEW c \in Cols, DropFails(c)
       PROVE  TableInv'
  <2>1. dest' = dest \/ dest' = WithoutColumn(c)
    BY <1>10, FailFacts DEF DropFails
  <2> QED
    BY <1>10, <2>1, TableFacts DEF DropFails
<1>11. CASE MergeFails
  <2>1. dest' = dest
    BY <1>11, FailFacts DEF MergeFails
  <2> QED
    BY <1>11, <2>1 DEF MergeFails
<1>12. CASE Crash
  BY <1>12, UnknownFacts DEF Crash
<1>13. CASE UNCHANGED <<dest, cache>>
  BY <1>13
<1> QED
  BY <1>1, <1>2, <1>3, <1>4, <1>5, <1>6, <1>7, <1>8, <1>9, <1>10, <1>11, <1>12, <1>13
     DEF Next, MergeStep, FailingStep, Quiet, vars, Tick, Emit, Save, MergeRows

LEMMA CacheStep ==
  ASSUME IInv, TypeOK', [Next]_vars
  PROVE  CacheInv'
<1> USE DEF IInv, CacheInv, streamVars, mergeVars
<1>0. /\ cache \in Configs /\ todo \in SUBSET Cols /\ batch.typed \in SUBSET Cols
      /\ ToDelete(cache) \in SUBSET Cols
  BY DEF TypeOK, Batches, ToDelete
<1>1. CASE Tick \/ \E op \in {"upsert", "delete"}, S \in SUBSET Cols : \E T \in SUBSET S : Emit(op, S, T)
  BY <1>1 DEF Tick, Emit, ToDelete, ShouldDelete, MayDelete
<1>2. CASE Save
  BY <1>2 DEF Save
<1>3. CASE StartMerge
  BY <1>3, ConfigFacts DEF StartMerge
<1>4. CASE CreateTable
  <2>1. /\ cache'.cols = cache.cols \cup todo
        /\ ~cache'.create
        /\ inDoubt' = inDoubt
    BY <1>0, <1>4, AddFacts DEF CreateTable
  <2>2. ASSUME ~inDoubt
        PROVE  cache'.cols \subseteq dest'.cols
    <3>1. ~dest.exists /\ cache.cols \subseteq dest.cols /\ dest.cols = {}
      BY <1>4, <2>2 DEF CreateTable, MergeInv, TableInv
    <3> QED
      BY <1>4, <2>1, <3>1, TableFacts DEF CreateTable
  <2> QED
    BY <1>4, <2>1, <2>2 DEF CreateTable
<1>5. CASE CreateFails
  BY <1>5 DEF CreateFails, Abort
<1>6. ASSUME NEW c \in Cols, AddColumn(c)
      PROVE  CacheInv'
  BY <1>6, TableFacts DEF AddColumn
<1>7. ASSUME NEW c \in Cols, AddFails(c)
      PROVE  CacheInv'
  <2>1. dest' = dest \/ dest' = WithColumn(c)
    BY <1>7, FailFacts DEF AddFails
  <2> QED
    BY <1>7, <2>1, TableFacts DEF AddFails, Abort
<1>8. CASE ColumnsAdded
  <2>1. TargetKeysMissing(cache) \subseteq dest.cols /\ TargetKeysMissing(cache) \in SUBSET Cols
    BY <1>0, <1>8 DEF ColumnsAdded, MergeInv, TargetKeysMissing
  <2>2. /\ cache'.cols = cache.cols \cup TargetKeysMissing(cache)
        /\ ~cache'.create
        /\ cache'.known = cache.known
    BY <1>0, <1>8, <2>1, AddFacts DEF ColumnsAdded
  <2> QED
    BY <1>8, <2>1, <2>2 DEF ColumnsAdded
<1>9. CASE MarkColumns
  BY <1>0, <1>9, MarkFacts DEF MarkColumns
<1>10. ASSUME NEW c \in Cols, DropColumn(c)
       PROVE  CacheInv'
  <2>1. ToDelete(cache)' = ToDelete(cache)
    BY <1>10 DEF DropColumn, ToDelete, ShouldDelete, MayDelete
  <2>2. c \in ToDelete(cache)
    BY <1>10 DEF DropColumn, MergeInv
  <2> QED
    BY <1>10, <2>1, <2>2, TableFacts DEF DropColumn
<1>11. ASSUME NEW c \in Cols, DropFails(c)
       PROVE  CacheInv'
  BY <1>11 DEF DropFails
<1>12. CASE ColumnsDropped
  <2>1. /\ cache'.known = cache.known /\ cache'.create = cache.create
        /\ cache'.cols = cache.cols \ ToDelete(cache)
    BY <1>0, <1>12, DeleteFacts, AuditFacts DEF ColumnsDropped
  <2> QED
    BY <1>12, <2>1 DEF ColumnsDropped
<1>13. CASE PrepareTemporaryTable
  <2>1. batch.typed \subseteq cache.cols
    BY <1>13 DEF PrepareTemporaryTable, MergeInv
  <2>2. /\ cache'.cols = cache.cols \cup batch.typed
        /\ ~cache'.create
        /\ cache'.known = cache.known
    BY <1>0, <1>13, AddFacts DEF PrepareTemporaryTable
  <2> QED
    BY <1>13, <2>1, <2>2 DEF PrepareTemporaryTable
<1>14. CASE MergeRows
  BY <1>14 DEF MergeRows
<1>15. CASE MergeFails
  <2>1. dest' = dest
    BY <1>15, FailFacts DEF MergeFails
  <2> QED
    BY <1>15, <2>1 DEF MergeFails, Abort
<1>16. CASE Crash
  BY <1>16, UnknownFacts DEF Crash
<1>17. CASE UNCHANGED vars
  BY <1>17 DEF vars, ToDelete, ShouldDelete, MayDelete
<1> QED
  BY <1>1, <1>2, <1>3, <1>4, <1>5, <1>6, <1>7, <1>8, <1>9, <1>10, <1>11, <1>12, <1>13, <1>14,
     <1>15, <1>16, <1>17 DEF Next, MergeStep, FailingStep, Quiet

\* What Merge has established at each of its stages.
LEMMA MergeInvStep ==
  ASSUME IInv, TypeOK', [Next]_vars
  PROVE  MergeInv'
<1> USE DEF IInv, MergeInv, streamVars, mergeVars
<1>0. /\ cache \in Configs /\ todo \in SUBSET Cols /\ batch.typed \in SUBSET Cols
      /\ ToDelete(cache) \in SUBSET Cols
  BY DEF TypeOK, Batches, ToDelete
<1>1. CASE Tick \/ \E op \in {"upsert", "delete"}, S \in SUBSET Cols : \E T \in SUBSET S : Emit(op, S, T)
  BY <1>1 DEF Tick, Emit, SrcKeysMissing, TargetKeysMissing, ToDelete, ShouldDelete, MayDelete
<1>2. CASE pc' = "idle"
  BY <1>2
<1>3. CASE StartMerge
  BY <1>3, ConfigFacts DEF StartMerge, SrcKeysMissing, TargetKeysMissing
<1>4. CASE CreateTable
  <2>1. /\ cache'.cols = cache.cols \cup todo
        /\ ~cache'.create
        /\ cache'.known
    BY <1>0, <1>4, AddFacts DEF CreateTable
  <2> QED
    BY <1>4, <2>1 DEF CreateTable, SrcKeysMissing, TargetKeysMissing
<1>5. ASSUME NEW c \in Cols, AddColumn(c)
      PROVE  MergeInv'
  BY <1>5, TableFacts DEF AddColumn, SrcKeysMissing, TargetKeysMissing
<1>6. CASE ColumnsAdded
  <2>1. TargetKeysMissing(cache) \in SUBSET Cols
    BY <1>0 DEF TargetKeysMissing
  <2>2. /\ cache'.cols = cache.cols \cup TargetKeysMissing(cache)
        /\ ~cache'.create
        /\ cache'.known
    BY <1>0, <1>6, <2>1, AddFacts DEF ColumnsAdded
  <2> QED
    BY <1>6, <2>2 DEF ColumnsAdded, SrcKeysMissing, TargetKeysMissing
<1>7. CASE MarkColumns
  <2>1. /\ cache'.known /\ ~cache'.create
        /\ cache'.cols = cache.cols
        /\ \A c \in Cols : cache.marks[c] # 0 => cache'.marks[c] = cache.marks[c]
    BY <1>0, <1>7, MarkFacts DEF MarkColumns
  <2>2. todo' \subseteq ToDelete(cache)'
    BY <1>7, <2>1 DEF MarkColumns, ToDelete, ShouldDelete, MayDelete, TypeOK
  <2> QED
    BY <1>7, <2>1, <2>2 DEF MarkColumns
<1>8. ASSUME NEW c \in Cols, DropColumn(c)
      PROVE  MergeInv'
  BY <1>8 DEF DropColumn, ToDelete, ShouldDelete, MayDelete
<1>9. CASE ColumnsDropped
  <2>1. /\ cache'.known /\ ~cache'.create
        /\ cache'.cols = cache.cols \ ToDelete(cache)
    BY <1>0, <1>9, DeleteFacts, AuditFacts DEF ColumnsDropped
  <2>2. batch'.typed = batch.typed \cup (batch.cols \cap cache'.cols)
    BY <1>9, RetypedFacts DEF ColumnsDropped
  <2>3. batch.typed \cap ToDelete(cache) = {}
    BY <1>9 DEF ColumnsDropped, ToDelete, BatchInv
  <2> QED
    BY <1>9, <2>1, <2>2, <2>3 DEF ColumnsDropped
<1>10. CASE PrepareTemporaryTable
  <2>1. /\ cache'.cols = cache.cols \cup batch.typed
        /\ ~cache'.create
        /\ cache'.known
    BY <1>0, <1>10, AddFacts DEF PrepareTemporaryTable
  <2> QED
    BY <1>10, <2>1 DEF PrepareTemporaryTable
<1>11. CASE UNCHANGED vars
  BY <1>11 DEF vars, SrcKeysMissing, TargetKeysMissing, ToDelete, ShouldDelete, MayDelete
<1> QED
  BY <1>1, <1>2, <1>3, <1>4, <1>5, <1>6, <1>7, <1>8, <1>9, <1>10, <1>11
     DEF Next, MergeStep, FailingStep, Quiet, Save, CreateFails, AddFails, DropFails, MergeRows,
         MergeFails, Abort, Crash

\* A step that acknowledges nothing and sets no mark keeps MarkInv.
LEMMA MarksShrink ==
  ASSUME MarkInv, UNCHANGED <<log, done>>,
         \A c \in Cols : cache'.marks[c] \in {0, cache.marks[c]},
         pc' \in {"stage", "merge"} => \A c \in batch'.cols : cache'.marks[c] = 0
  PROVE  MarkInv'
BY DEF MarkInv

LEMMA MarkStep ==
  ASSUME IInv, TypeOK', [Next]_vars
  PROVE  MarkInv'
<1> USE SchemaAssumption DEF IInv, streamVars, mergeVars
<1>0. /\ cache \in Configs /\ todo \in SUBSET Cols
      /\ batch.typed \in SUBSET Cols /\ batch.cols \in SUBSET Cols
      /\ ToDelete(cache) \in SUBSET Cols /\ TargetKeysMissing(cache) \in SUBSET Cols
      /\ \A c \in Cols : cache.marks[c] \in Nat
  BY DEF TypeOK, Batches, Configs, ToDelete, TargetKeysMissing
<1>1. ASSUME NEW op \in {"upsert", "delete"}, NEW S \in SUBSET Cols, NEW T \in SUBSET S, Emit(op, S, T)
      PROVE  MarkInv'
  <2>1. \A i \in 1..done : log'[i] = log[i]
    BY <1>1 DEF Emit, TypeOK
  <2> QED
    BY <1>1, <2>1 DEF Emit, MarkInv
<1>2. CASE StartMerge
  <2>1. \A c \in Cols : cache'.marks[c] \in {0, cache.marks[c]}
    BY <1>2, ConfigFacts DEF StartMerge
  <2> QED
    BY <1>2, <2>1, MarksShrink DEF StartMerge
<1>3. CASE CreateTable \/ ColumnsAdded
  <2>1. \A c \in Cols : cache'.marks[c] \in {0, cache.marks[c]}
    BY <1>0, <1>3, AddFacts DEF CreateTable, ColumnsAdded
  <2> QED
    BY <1>3, <2>1, MarksShrink DEF CreateTable, ColumnsAdded
<1>4. CASE MarkColumns
  <2>1. \A c \in Cols : \/ cache'.marks[c] = cache.marks[c]
                        \/ cache'.marks[c] = now + Padding /\ DropDeletedColumns
    BY <1>0, <1>4, MarkFacts DEF MarkColumns
  <2>2. \A i \in 1..done : i \in 1..Len(log) /\ log[i].ts \in Nat /\ log[i].ts <= now
    BY EventFacts DEF TypeOK, BatchInv
  <2>3. \A i \in 1..done : ~(log[i].ts + Padding > now + Padding)
    BY <2>2 DEF TypeOK
  <2>4. ~DropDeletedColumns => \A c \in Cols : cache'.marks[c] = 0
    BY <2>1 DEF MarkInv
  <2>5. ASSUME NEW c \in Cols, cache'.marks[c] # 0, NEW i \in 1..done,
               log[i].op = "upsert", log[i].ts + Padding > cache'.marks[c]
        PROVE  c \notin log[i].cols
    <3>1. cache'.marks[c] = cache.marks[c]
      BY <2>1, <2>3, <2>5
    <3> QED
      BY <2>5, <3>1 DEF MarkInv
  <2> QED
    BY <1>4, <2>4, <2>5 DEF MarkColumns, MarkInv
<1>5. CASE ColumnsDropped
  <2>1. MutatedByDelete(cache, ToDelete(cache)) \in Configs
    BY <1>0, DeleteFacts
  <2>2. /\ \A c \in Cols : cache'.marks[c] \in {0, cache.marks[c]}
        /\ DropDeletedColumns => \A c \in Cols \ extra : cache'.marks[c] = 0
    BY <1>0, <1>5, <2>1, DeleteFacts, AuditFacts DEF ColumnsDropped
  <2>3. batch'.cols = batch.cols
    <3>1. PICK X : batch' = Retyped(X)
      BY <1>5, Zenon DEF ColumnsDropped
    <3> QED
      BY <3>1, RetypedFacts
  <2>4. batch.cols \cap extra = {}
    BY <1>5 DEF ColumnsDropped, MergeInv
  <2>5. \A c \in batch'.cols : cache'.marks[c] = 0
    BY <1>0, <2>2, <2>3, <2>4 DEF MarkInv
  <2> QED
    BY <1>5, <2>2, <2>5, MarksShrink DEF ColumnsDropped
<1>6. CASE PrepareTemporaryTable
  <2>1. \A c \in Cols : cache'.marks[c] \in {0, cache.marks[c]}
    BY <1>0, <1>6, AddFacts DEF PrepareTemporaryTable
  <2>2. \A c \in batch'.cols : cache'.marks[c] = 0
    BY <1>0, <1>6, <2>1 DEF PrepareTemporaryTable, MarkInv
  <2> QED
    BY <1>6, <2>1, <2>2, MarksShrink DEF PrepareTemporaryTable
<1>7. CASE MergeRows
  <2>1. ASSUME NEW c \in Cols, cache.marks[c] # 0, NEW i \in 1..read,
               log[i].op = "upsert", log[i].ts + Padding > cache.marks[c]
        PROVE  c \notin log[i].cols
    <3>1. c \notin batch.cols
      BY <1>7, <2>1 DEF MergeRows, MarkInv
    <3>2. CASE i \in 1..done
      BY <2>1, <3>2 DEF MarkInv
    <3>3. CASE i \in (done + 1)..read
      BY <3>1, <3>3 DEF BatchInv
    <3> QED
      BY <3>2, <3>3 DEF TypeOK
  <2> QED
    BY <1>7, <2>1 DEF MergeRows, MarkInv
<1>8. CASE Crash
  <2>1. \A c \in Cols : cache'.marks[c] \in {0, cache.marks[c]}
    BY <1>8, UnknownFacts DEF Crash
  <2> QED
    BY <1>8, <2>1, MarksShrink DEF Crash
<1>9. CASE UNCHANGED <<log, done, cache>> /\ (pc' \notin {"stage", "merge"} \/ UNCHANGED <<pc, batch>>)
  BY <1>9 DEF MarkInv
<1> QED
  BY <1>1, <1>2, <1>3, <1>4, <1>5, <1>6, <1>7, <1>8, <1>9
     DEF Next, MergeStep, FailingStep, Quiet, vars, Tick, Save, AddColumn, DropColumn,
         CreateFails, AddFails, DropFails, MergeFails, Abort

-----------------------------------------------------------------------------
LEMMA InvInit == Init => IInv
<1> SUFFICES ASSUME Init PROVE IInv
  OBVIOUS
<1>1. TypeOK
  BY TypeInit
<1>2. /\ ~cache.known /\ \A c \in Cols : cache.marks[c] = 0
      /\ pc = "idle"
  BY UnknownFacts DEF Init
<1>3. BatchInv
  BY EmptyFacts DEF Init, BatchInv
<1>4. TableInv
  <2>1. dest.exists \/ dest.cols = {}
    BY DEF Init
  <2> QED
    BY <1>2, <2>1 DEF TableInv
<1>5. CacheInv /\ MergeInv /\ MarkInv
  BY <1>2 DEF CacheInv, MergeInv, MarkInv
<1> QED
  BY <1>1, <1>3, <1>4, <1>5 DEF IInv

LEMMA InvStep ==
  ASSUME IInv, [Next]_vars
  PROVE  IInv'
<1>1. TypeOK'
  BY TypeStep DEF IInv
<1> QED
  BY <1>1, BatchStep, TableStep, CacheStep, MergeInvStep, MarkStep DEF IInv

\* The merge statement never names a column the destination lacks, unless a DROP failed
\* or the answer to CREATE was lost since the process started.
THEOREM MergeFinds == Spec => []MergeFindsItsColumns
<1>1. IInv => MergeFindsItsColumns
  BY DEF IInv, MergeInv, CacheInv, MergeFindsItsColumns
<1> QED
  BY <1>1, InvInit, InvStep, PTL DEF Spec

\* The statements that take a column away are the two forms of DROP.
LEMMA OnlyDropsTakeColumns ==
  ASSUME IInv, [Next]_vars, NEW c \in dest.cols \ dest'.cols
  PROVE  pc = "drop" /\ c \in todo
<1> USE DEF IInv
<1>0. dest.cols \in SUBSET Cols
  BY DEF TypeOK, Tables
<1>1. CASE CreateTable
  BY <1>1, TableFacts DEF CreateTable
<1>2. CASE CreateFails
  <2>1. dest' = dest \/ dest' = Created
    BY <1>2, FailFacts DEF CreateFails
  <2> QED
    BY <2>1, TableFacts
<1>3. ASSUME NEW d \in Cols, AddColumn(d)
      PROVE  FALSE
  BY <1>3, TableFacts DEF AddColumn
<1>4. ASSUME NEW d \in Cols, AddFails(d)
      PROVE  FALSE
  <2>1. dest' = dest \/ dest' = WithColumn(d)
    BY <1>4, FailFacts DEF AddFails
  <2> QED
    BY <2>1, TableFacts
<1>5. ASSUME NEW d \in Cols, DropColumn(d)
      PROVE  pc = "drop" /\ c \in todo
  BY <1>5, TableFacts DEF DropColumn
<1>6. ASSUME NEW d \in Cols, DropFails(d)
      PROVE  pc = "drop" /\ c \in todo
  <2>1. dest' = dest \/ dest' = WithoutColumn(d)
    BY <1>6, FailFacts DEF DropFails
  <2> QED
    BY <1>6, <2>1, TableFacts DEF DropFails
<1>7. CASE MergeFails
  <2>1. dest' = dest
    BY <1>7, FailFacts DEF MergeFails
  <2> QED
    BY <2>1
<1>8. CASE UNCHANGED dest
  BY <1>8
<1> QED
  BY <1>1, <1>2, <1>3, <1>4, <1>5, <1>6, <1>7, <1>8
     DEF Next, MergeStep, FailingStep, Quiet, vars, streamVars, mergeVars, Tick, Emit, Save,
         StartMerge, ColumnsAdded, MarkColumns, ColumnsDropped, PrepareTemporaryTable, MergeRows, Crash

LEMMA ToDeleteIsUnused ==
  ASSUME IInv, pc = "drop", NEW c \in todo
  PROVE  Unused(c)
<1> USE SchemaAssumption DEF IInv
<1>1. /\ c \in Cols /\ c \notin batch.cols
      /\ batch.other
      /\ cache.marks[c] # 0 /\ cache.marks[c] \in Nat /\ batch.ts \in Nat
      /\ batch.ts > cache.marks[c]
  BY DEF MergeInv, ToDelete, ShouldDelete, MayDelete, TypeOK, Batches, Configs
<1>2. \A j \in (done + 1)..read : c \notin log[j].cols
  BY <1>1 DEF BatchInv
<1>3. PICK i \in (done + 1)..read : log[i].op = "upsert"
  BY <1>1 DEF BatchInv
<1>4. i \in Upserts /\ \A j \in Upserts : j >= i => j \in (done + 1)..read
  BY <1>3 DEF Upserts, TypeOK
<1>5. ASSUME NEW j \in Upserts, log[j].ts + Padding >= batch.ts
      PROVE  c \notin log[j].cols
  <2>1. j \in 1..Len(log)
    BY DEF Upserts, TypeOK
  <2>2. log[j].ts \in Nat
    BY <2>1, EventFacts
  <2>3. CASE j \in (done + 1)..read
    BY <1>2, <2>3
  <2>4. CASE j \in 1..done
    BY <1>1, <1>5, <2>2, <2>4 DEF Upserts, MarkInv
  <2> QED
    BY <2>3, <2>4 DEF Upserts, TypeOK
<1> QED
  BY <1>2, <1>4, <1>5 DEF Unused

\* A column is only dropped when row changes of the batch do without it and none of the
\* last Padding mentioned it, for any interleaving of merges, failures and restarts.
THEOREM DropsJustified == Spec => DropsAreJustified
<1>1. IInv /\ [Next]_vars => [\A c \in dest.cols \ dest'.cols : Unused(c)]_dest
  BY OnlyDropsTakeColumns, ToDeleteIsUnused
<1> QED
  BY <1>1, InvInit, InvStep, PTL DEF Spec, DropsAreJustified

=============================================================================
