--------------------------- MODULE PipelineProofs ---------------------------
(***************************************************************************)
(* Proofs about Pipeline, for every set of topics, partitions and tables,  *)
(* every log and every bound.                                              *)
(***************************************************************************)
EXTENDS Pipeline, TLAPS

\* What a message identity is made of.
LEMMA IdsType ==
  ASSUME NEW m \in Ids
  PROVE  /\ m.part \in Parts
         /\ m.off \in Nat \ {0}
         /\ m.off <= Len(Log[m.part])
         /\ Msg(m) \in Messages
         /\ TableOf(m) \in Tables
         /\ m = [part |-> m.part, off |-> m.off]
<1>1. PICK p \in Parts : m \in [part: {p}, off: 1..Len(Log[p])]
  BY DEF Ids
<1>2. m.part = p /\ m.off \in 1..Len(Log[p]) /\ m = [part |-> m.part, off |-> m.off]
  BY <1>1
<1>3. Log[p] \in Seq(Messages) /\ Len(Log[p]) \in Nat
  BY PipelineAssumption
<1>4. Log[p][m.off] \in Messages
  BY <1>2, <1>3
<1> QED
  BY <1>2, <1>3, <1>4 DEF Msg, TableOf, Messages

\* An offset inside a partition's log identifies a message.
LEMMA FetchedId ==
  ASSUME NEW p \in Parts, NEW n \in Nat \ {0}, n <= Len(Log[p])
  PROVE  [part |-> p, off |-> n] \in Ids
<1>1. Len(Log[p]) \in Nat
  BY PipelineAssumption
<1>2. [part |-> p, off |-> n] \in [part: {p}, off: 1..Len(Log[p])]
  BY <1>1
<1> QED
  BY <1>2 DEF Ids

-----------------------------------------------------------------------------
\* Every variable keeps its type through every action of the pipeline.
LEMMA TypeStep ==
  ASSUME TypeOK, [Next]_vars
  PROVE  TypeOK'
<1> USE DEF consumerVars, memoryVars, flushVars, CommittedAfter, ResumePosition, Unlocked, Wiped
<1>1. ASSUME NEW c \in Topics, NEW p \in Parts, FetchMessage(c, p)
      PROVE  TypeOK'
  <2>1. [part |-> p, off |-> position[p]] \in Ids
    BY <1>1, FetchedId DEF FetchMessage, TypeOK
  <2> QED
    BY <1>1, <2>1 DEF FetchMessage, TypeOK
<1>2. ASSUME NEW c \in Topics, SkipMessage(c)
      PROVE  TypeOK'
  BY <1>2 DEF SkipMessage, TypeOK
<1>3. ASSUME NEW c \in Topics, Save(c)
      PROVE  TypeOK'
  <2>1. PICK m \in inflight[c], oversize \in BOOLEAN :
          LET t == TableOf(m)
              buffer == InsertRow(rows[t], m)
              flush == Cardinality(buffer) > BufferRows \/ oversize
          IN  /\ known' = known \cup {t}
              /\ rows' = [rows EXCEPT ![t] = buffer]
              /\ last' = [last EXCEPT ![t] = LastMessages(@, m)]
              /\ cpc' = [cpc EXCEPT ![c] = IF flush THEN "flush" ELSE "fetch"]
              /\ worker' = IF flush THEN [worker EXCEPT ![c][t] = "wait"] ELSE worker
    BY <1>3 DEF Save
  <2>2. m \in Ids /\ TableOf(m) \in Tables /\ c \in Callers
    BY IdsType DEF TypeOK, Callers
  <2>3. InsertRow(rows[TableOf(m)], m) \in SUBSET Ids
    BY <2>2 DEF TypeOK, InsertRow
  <2>4. LastMessages(last[TableOf(m)], m) \in SUBSET Ids
    BY <2>2 DEF TypeOK, LastMessages
  <2>5. rows' \in [Tables -> SUBSET Ids] /\ last' \in [Tables -> SUBSET Ids]
    BY <2>1, <2>2, <2>3, <2>4 DEF TypeOK
  <2>6. cpc' \in [Topics -> {"fetch", "process", "flush"}] /\ known' \in SUBSET Tables
    BY <2>1, <2>2 DEF TypeOK
  <2>7. worker' \in [Callers -> [Tables -> {"none", "check", "wait", "busy", "done"}]]
    BY <2>1, <2>2 DEF TypeOK
  <2> QED
    BY <1>3, <2>5, <2>6, <2>7 DEF Save, TypeOK
<1>4. ASSUME PoolTick
      PROVE  TypeOK'
  BY <1>4 DEF PoolTick, TypeOK, Callers
<1>5. ASSUME NEW t \in Tables, CheckCooldown(t)
      PROVE  TypeOK'
  BY <1>5 DEF CheckCooldown, TypeOK, Callers
<1>6. ASSUME NEW t \in Tables, CooldownElapses(t)
      PROVE  TypeOK'
  BY <1>6 DEF CooldownElapses, TypeOK
<1>7. ASSUME NEW t \in Tables, lock[t] # Nobody, Release(t)
      PROVE  /\ worker' \in [Callers -> [Tables -> {"none", "check", "wait", "busy", "done"}]]
             /\ lock' \in [Tables -> Callers \cup {Nobody}]
  BY <1>7 DEF Release, TypeOK
<1>8. ASSUME NEW R \in SUBSET Ids
      PROVE  Merged(R) \in SUBSET Ids
  BY DEF Merged, TypeOK
<1>9. ASSUME NEW t \in Tables, MergeSucceeds(t)
      PROVE  TypeOK'
  <2>1. dest' \in SUBSET Ids
    BY <1>8, <1>9 DEF MergeSucceeds, TypeOK
  <2> QED
    BY <1>9, <2>1 DEF MergeSucceeds, TypeOK
<1>10. ASSUME NEW t \in Tables, MergeFails(t)
       PROVE  TypeOK'
  <2>1. dest' \in SUBSET Ids
    <3>1. PICK R \in WrittenOnError(t) : dest' = Merged(R)
      BY <1>10 DEF MergeFails
    <3>2. R \in SUBSET Ids
      BY DEF WrittenOnError, TypeOK
    <3> QED
      BY <1>8, <3>1, <3>2
  <2> QED
    BY <1>7, <1>10, <2>1 DEF MergeFails, TypeOK
<1>11. ASSUME NEW t \in Tables, NEW m \in pending[t], CommitMessage(t, m)
       PROVE  TypeOK'
  <2>1. m \in Ids /\ m.part \in Parts /\ m.off \in Nat
    BY IdsType DEF TypeOK
  <2> QED
    BY <1>11, <2>1 DEF CommitMessage, TypeOK
<1>12. ASSUME NEW t \in Tables, NEW m \in pending[t], CommitFails(t, m)
       PROVE  TypeOK'
  <2>1. m \in Ids /\ m.part \in Parts /\ m.off \in Nat
    BY IdsType DEF TypeOK
  <2>2. committed' \in [Parts -> Nat]
    BY <1>12, <2>1 DEF CommitFails, TypeOK
  <2> QED
    BY <1>7, <1>12, <2>2 DEF CommitFails, TypeOK
<1>13. ASSUME NEW t \in Tables, ClearTableConfig(t)
       PROVE  TypeOK'
  BY <1>7, <1>13 DEF ClearTableConfig, TypeOK
<1>14. ASSUME NEW f \in Callers, NEW t \in Tables, LockTable(f, t)
       PROVE  TypeOK'
  <2>1. CASE rows[t] = {}
    <3>1. worker' = [worker EXCEPT ![f][t] = "done"] /\ UNCHANGED <<lock, step>>
      BY <1>14, <2>1 DEF LockTable
    <3> QED
      BY <1>14, <3>1 DEF LockTable, TypeOK
  <2>2. CASE rows[t] # {}
    <3>1. /\ worker' = [worker EXCEPT ![f][t] = "busy"]
          /\ lock' = [lock EXCEPT ![t] = f]
          /\ step' = [step EXCEPT ![t] = "merge"]
      BY <1>14, <2>2 DEF LockTable
    <3> QED
      BY <1>14, <3>1 DEF LockTable, TypeOK
  <2> QED
    BY <2>1, <2>2
<1>15. ASSUME NEW f \in Callers, FlushReturns(f)
       PROVE  TypeOK'
  BY <1>15 DEF FlushReturns, TypeOK, Callers
<1>16. ASSUME Crash
       PROVE  TypeOK'
  BY <1>16, PipelineAssumption DEF Crash, FreshProcess, NoWorkers, TypeOK
<1>17. ASSUME UNCHANGED vars
       PROVE  TypeOK'
  BY <1>17 DEF vars, TypeOK
<1> QED
  BY <1>1, <1>2, <1>3, <1>4, <1>5, <1>6, <1>9, <1>10, <1>11, <1>12, <1>13, <1>14,
     <1>15, <1>16, <1>17 DEF Next

\* Every variable always has its type, whatever the deployment.
THEOREM TypeCorrect == Spec => []TypeOK
<1>1. Init => TypeOK
  BY PipelineAssumption DEF Init, TypeOK, NoWorkers
<1>2. TypeOK /\ [Next]_vars => TypeOK'
  BY TypeStep
<1> QED
  BY <1>1, <1>2, PTL DEF Spec

-----------------------------------------------------------------------------
(***************************************************************************)
(* The inductive invariant behind CommittedIsDurable.                      *)
(***************************************************************************)

IsRow(m) == Msg(m).kind = "row"

\* The messages the consumers are done with since the last commit or before it.
Seen == {m \in Ids : m.off < position[m.part] /\ m \notin inflight[TopicOf[m.part]]}

\* A topic's goroutine holds at most the message it fetched last, and that one is
\* not yet committed.
ReaderInv ==
  /\ \A p \in Parts : committed[p] < position[p]
  /\ \A c \in Topics :
       /\ cpc[c] # "process" => inflight[c] = {}
       /\ \A m, r \in inflight[c] : m = r
       /\ \A m \in inflight[c] : /\ TopicOf[m.part] = c
                                 /\ position[m.part] = m.off + 1
                                 /\ committed[m.part] < m.off

\* A buffered row is the newest version of its key the process has seen.
BufferInv ==
  \A t \in Tables : \A r \in rows[t] :
    /\ r \in Seen /\ IsRow(r) /\ TableOf(r) = t
    /\ \A o \in Seen : IsRow(o) /\ SameKey(r, o) => o.off <= r.off

\* The offsets a table will commit: one per partition, all of messages of that
\* table the process is done with, none behind the broker's; and only the flush
\* that holds the table's mutex commits.
OffsetInv ==
  \A t \in Tables :
    /\ pending[t] \subseteq last[t]
    /\ pending[t] # {} => lock[t] # Nobody /\ step[t] = "commit"
    /\ \A m \in last[t] : m \in Seen /\ TableOf(m) = t /\ committed[m.part] <= m.off
    /\ \A m, r \in last[t] : m.part = r.part => m = r

\* While offsets are being committed the whole buffer is in the destination.
FlushInv ==
  \A t \in Tables : lock[t] # Nobody /\ step[t] = "commit" =>
    \A r \in rows[t] : \E d \in dest : Covers(d, r)

IInv ==
  /\ TypeOK
  /\ ReaderInv
  /\ BufferInv
  /\ OffsetInv
  /\ FlushInv
  /\ NothingDropped
  /\ CommittedIsDurable

-----------------------------------------------------------------------------
\* SameKey and Covers on message identities, when a key lives in one partition.
LEMMA SameKeyFacts ==
  ASSUME KeyInOnePartition, NEW m \in Ids, NEW r \in Ids, SameKey(m, r)
  PROVE  SameKey(r, m) /\ TableOf(m) = TableOf(r) /\ m.part = r.part
  BY DEF KeyInOnePartition, SameKey

LEMMA SameKeyTransitive ==
  ASSUME NEW m, NEW r, NEW o, SameKey(m, r), SameKey(r, o)
  PROVE  SameKey(m, o)
  BY DEF SameKey

LEMMA CoversFacts ==
  ASSUME KeyInOnePartition, NEW m \in Ids, NEW r \in Ids, SameKey(m, r), r.off <= m.off
  PROVE  Covers(m, r)
  BY SameKeyFacts, IdsType DEF Covers

LEMMA CoversTransitive ==
  ASSUME NEW m \in Ids, NEW r \in Ids, NEW o \in Ids, Covers(m, r), Covers(r, o)
  PROVE  Covers(m, o)
  BY SameKeyTransitive, IdsType DEF Covers

LEMMA CoversReflexive ==
  ASSUME NEW m \in Ids
  PROVE  SameKey(m, m) /\ Covers(m, m)
  BY IdsType DEF Covers, SameKey

\* Merging part of a buffer whose rows are the newest seen of their keys takes
\* nothing away: what the destination covered it still covers.
LEMMA MergeKeeps ==
  ASSUME KeyInOnePartition, IInv,
         NEW t \in Tables, NEW R \in SUBSET rows[t],
         NEW o \in Seen, IsRow(o), \E d \in dest : Covers(d, o)
  PROVE  \E d \in Merged(R) : Covers(d, o)
<1> DEFINE fresh == {r \in R : ~\E m \in dest : Stale(m, r)}
<1>1. Merged(R) = {m \in dest : ~\E r \in fresh : SameKey(m, r)} \cup fresh
  BY DEF Merged
<1>2. PICK d \in dest : Covers(d, o)
  OBVIOUS
<1>3. CASE ~\E r \in fresh : SameKey(d, r)
  BY <1>1, <1>2, <1>3
<1>4. CASE \E r \in fresh : SameKey(d, r)
  <2>1. PICK r \in fresh : SameKey(d, r)
    BY <1>4
  <2>2. r \in Ids /\ d \in Ids /\ o \in Ids /\ r \in rows[t]
    BY <2>1 DEF IInv, TypeOK, Seen
  <2>3. SameKey(r, o)
    BY <1>2, <2>1, <2>2, SameKeyFacts, SameKeyTransitive DEF Covers
  <2>4. o.off <= r.off
    BY <2>2, <2>3 DEF IInv, BufferInv
  <2>5. Covers(r, o)
    BY <2>2, <2>3, <2>4, CoversFacts
  <2> QED
    BY <1>1, <2>1, <2>5
<1> QED
  BY <1>3, <1>4

\* Merging the whole buffer leaves each of its rows, or a newer one, in the
\* destination; the idempotency clause only ever skips rows that are superseded.
LEMMA MergeCovers ==
  ASSUME KeyInOnePartition, ClockFollowsLog, IInv,
         NEW t \in Tables, NEW r \in rows[t]
  PROVE  \E d \in Merged(rows[t]) : Covers(d, r)
<1> DEFINE fresh == {x \in rows[t] : ~\E m \in dest : Stale(m, x)}
<1>1. Merged(rows[t]) = {m \in dest : ~\E x \in fresh : SameKey(m, x)} \cup fresh
  BY DEF Merged
<1>2. r \in Ids /\ r \in Seen /\ IsRow(r)
  BY DEF IInv, TypeOK, BufferInv
<1>3. CASE r \in fresh
  BY <1>1, <1>2, <1>3, CoversReflexive
<1>4. CASE r \notin fresh
  <2>1. PICK m \in dest : Stale(m, r)
    BY <1>4
  <2>2. m \in Ids /\ SameKey(m, r) /\ Msg(m).ts > Msg(r).ts
    BY <2>1 DEF Stale, IInv, TypeOK
  <2>3. m.part = r.part
    BY <1>2, <2>2, SameKeyFacts
  <2>4. Msg(m).ts \in Nat /\ Msg(r).ts \in Nat /\ m.off \in Nat /\ r.off \in Nat
    BY <1>2, <2>2, IdsType DEF Messages
  <2>5. r.off <= m.off
    BY <1>2, <2>2, <2>3, <2>4 DEF ClockFollowsLog
  <2>6. Covers(m, r)
    BY <1>2, <2>2, <2>5, CoversFacts
  <2> QED
    BY <1>2, <2>6, MergeKeeps
<1> QED
  BY <1>3, <1>4

\* A destination that still covers what it covered before is enough for every
\* action that changes nothing else the invariant speaks of.
LEMMA DestStep ==
  ASSUME IInv, TypeOK',
         UNCHANGED <<committed, position, inflight, cpc, rows, last>>,
         \A t \in Tables : pending'[t] \subseteq last[t],
         \A t \in Tables : pending'[t] # {} => lock'[t] # Nobody /\ step'[t] = "commit",
         \A o \in Seen : IsRow(o) /\ (\E d \in dest : Covers(d, o)) => \E d \in dest' : Covers(d, o),
         \A t \in Tables : lock'[t] # Nobody /\ step'[t] = "commit" =>
           \A r \in rows[t] : \E d \in dest' : Covers(d, r)
  PROVE  IInv'
<1>1. Seen' = Seen
  BY DEF Seen
<1>2. ReaderInv'
  BY DEF IInv, ReaderInv
<1>3. BufferInv'
  BY <1>1 DEF IInv, BufferInv
<1>4. OffsetInv'
  BY <1>1 DEF IInv, OffsetInv
<1>5. FlushInv'
  BY DEF FlushInv
<1>6. NothingDropped'
  <2> SUFFICES ASSUME NEW o \in Ids, IsRow(o), o.off < position[o.part],
                      o \notin inflight[TopicOf[o.part]]
               PROVE  \E r \in rows[TableOf(o)] \cup dest' : Covers(r, o)
    BY DEF NothingDropped, IsRow
  <2>1. o \in Seen
    BY DEF Seen
  <2>2. PICK r \in rows[TableOf(o)] \cup dest : Covers(r, o)
    BY DEF IInv, NothingDropped, IsRow
  <2> QED
    BY <2>1, <2>2
<1>7. CommittedIsDurable'
  <2> SUFFICES ASSUME NEW o \in Ids, IsRow(o), o.off <= committed[o.part]
               PROVE  \E r \in dest' : Covers(r, o)
    BY DEF CommittedIsDurable, IsRow
  <2>1. o.part \in Parts /\ o.off \in Nat /\ TopicOf[o.part] \in Topics
    BY IdsType, PipelineAssumption
  <2>2. o.off < position[o.part]
    BY <2>1 DEF IInv, ReaderInv, TypeOK
  <2>3. o \notin inflight[TopicOf[o.part]]
    BY <2>1 DEF IInv, ReaderInv, TypeOK
  <2>4. \E d \in dest : Covers(d, o)
    BY DEF IInv, CommittedIsDurable, IsRow
  <2> QED
    BY <2>2, <2>3, <2>4 DEF Seen
<1> QED
  BY <1>2, <1>3, <1>4, <1>5, <1>6, <1>7 DEF IInv

\* The readers' steps: fetching a message and passing over one leave the seen rows
\* and everything else alone.
LEMMA FetchStep ==
  ASSUME IInv, TypeOK', NEW c \in Topics, NEW p \in Parts, FetchMessage(c, p)
  PROVE  IInv'
<1> DEFINE n == [part |-> p, off |-> position[p]]
<1>0. UNCHANGED <<committed, rows, last, lock, step, pending, dest>>
  BY DEF FetchMessage, memoryVars, flushVars
<1>1. /\ inflight[c] = {} /\ TopicOf[p] = c /\ position[p] \in Nat \ {0}
      /\ inflight' = [inflight EXCEPT ![c] = {n}]
      /\ position' = [position EXCEPT ![p] = position[p] + 1]
      /\ cpc' = [cpc EXCEPT ![c] = "process"]
  BY DEF FetchMessage, IInv, ReaderInv, TypeOK
<1>2. committed[p] \in Nat /\ committed[p] < position[p]
  BY DEF IInv, ReaderInv, TypeOK
<1>3. Seen' = Seen
  <2>1. ASSUME NEW m \in Ids
        PROVE  (m \in Seen') <=> (m \in Seen)
    <3>1. m.part \in Parts /\ m.off \in Nat /\ m = [part |-> m.part, off |-> m.off]
          /\ TopicOf[m.part] \in Topics /\ position[m.part] \in Nat
      BY IdsType, PipelineAssumption DEF IInv, TypeOK
    <3>2. CASE m.part = p
      <4>1. m \in Seen <=> m.off < position[p]
        BY <1>1, <3>2 DEF Seen
      <4>2. m \in Seen' <=> m.off < position[p] + 1 /\ m # n
        BY <1>1, <3>1, <3>2 DEF Seen, IInv, TypeOK
      <4>3. m = n <=> m.off = position[p]
        BY <3>1, <3>2
      <4> QED
        BY <1>1, <3>1, <4>1, <4>2, <4>3
    <3>3. CASE m.part # p
      <4>1. position'[m.part] = position[m.part]
        BY <1>1, <3>1, <3>3 DEF IInv, TypeOK
      <4>2. m # n
        BY <3>3
      <4>3. m \in inflight'[TopicOf[m.part]] <=> m \in inflight[TopicOf[m.part]]
        BY <1>1, <3>1, <4>2 DEF IInv, TypeOK
      <4> QED
        BY <4>1, <4>3 DEF Seen
    <3> QED
      BY <3>2, <3>3
  <2> QED
    BY <2>1 DEF Seen
<1>4. ReaderInv'
  <2>1. ASSUME NEW q \in Parts
        PROVE  committed'[q] < position'[q]
    BY <1>0, <1>1, <1>2 DEF IInv, ReaderInv, TypeOK
  <2>2. ASSUME NEW d \in Topics
        PROVE  /\ cpc'[d] # "process" => inflight'[d] = {}
               /\ \A m, r \in inflight'[d] : m = r
               /\ \A m \in inflight'[d] : /\ TopicOf[m.part] = d
                                          /\ position'[m.part] = m.off + 1
                                          /\ committed'[m.part] < m.off
    <3>1. CASE d = c
      <4>1. cpc'[d] = "process" /\ inflight'[d] = {n}
        BY <1>1, <3>1 DEF IInv, TypeOK
      <4> QED
        BY <1>0, <1>1, <1>2, <3>1, <4>1 DEF IInv, TypeOK
    <3>2. CASE d # c
      <4>1. cpc'[d] = cpc[d] /\ inflight'[d] = inflight[d]
        BY <1>1, <3>2 DEF IInv, TypeOK
      <4>2. \A m \in inflight[d] : m.part \in Parts /\ m.part # p
        BY <1>1, <3>2, IdsType DEF IInv, ReaderInv, TypeOK
      <4> QED
        BY <1>0, <1>1, <4>1, <4>2 DEF IInv, ReaderInv, TypeOK
    <3> QED
      BY <3>1, <3>2
  <2> QED
    BY <2>1, <2>2 DEF ReaderInv
<1>5. BufferInv' /\ OffsetInv' /\ FlushInv'
  BY <1>0, <1>3 DEF IInv, BufferInv, OffsetInv, FlushInv
<1>6. NothingDropped'
  BY <1>0, <1>3 DEF IInv, NothingDropped, Seen
<1>7. CommittedIsDurable'
  BY <1>0 DEF IInv, CommittedIsDurable
<1> QED
  BY <1>4, <1>5, <1>6, <1>7 DEF IInv

\* A goroutine that is done with its message has seen it.
LEMMA DoneWithMessage ==
  ASSUME IInv, NEW c \in Topics, UNCHANGED position,
         inflight' = [inflight EXCEPT ![c] = {}]
  PROVE  Seen' = Seen \cup inflight[c]
<1>1. ASSUME NEW m \in Ids
      PROVE  (m \in Seen') <=> (m \in Seen \/ m \in inflight[c])
  <2>1. m.part \in Parts /\ TopicOf[m.part] \in Topics /\ m.off \in Nat
    BY IdsType, PipelineAssumption
  <2>2. m \in inflight[c] => m.off < position[m.part] /\ TopicOf[m.part] = c
    BY <2>1 DEF IInv, ReaderInv, TypeOK
  <2>3. inflight'[TopicOf[m.part]] = IF TopicOf[m.part] = c THEN {} ELSE inflight[TopicOf[m.part]]
    BY <2>1 DEF IInv, TypeOK
  <2> QED
    BY <2>2, <2>3 DEF Seen
<1> QED
  BY <1>1 DEF Seen, IInv, TypeOK

\* and ReaderInv survives.
LEMMA DoneReaderInv ==
  ASSUME IInv, NEW c \in Topics, UNCHANGED <<position, committed>>,
         inflight' = [inflight EXCEPT ![c] = {}],
         \E w \in {"fetch", "flush"} : cpc' = [cpc EXCEPT ![c] = w]
  PROVE  ReaderInv'
<1>1. ASSUME NEW d \in Topics
      PROVE  /\ d = c => inflight'[d] = {}
             /\ d # c => inflight'[d] = inflight[d] /\ cpc'[d] = cpc[d]
  BY DEF IInv, TypeOK
<1> QED
  BY <1>1 DEF IInv, ReaderInv

LEMMA SkipStep ==
  ASSUME IInv, TypeOK', NEW c \in Topics, SkipMessage(c)
  PROVE  IInv'
<1>1. /\ UNCHANGED <<committed, position, rows, last, lock, step, pending, dest>>
      /\ inflight' = [inflight EXCEPT ![c] = {}]
      /\ cpc' = [cpc EXCEPT ![c] = "fetch"]
  BY DEF SkipMessage, memoryVars, flushVars
<1>2. \A m \in inflight[c] : ~IsRow(m)
  BY DEF SkipMessage, IsRow
<1>3. Seen' = Seen \cup inflight[c]
  BY <1>1, DoneWithMessage
<1>4. ReaderInv'
  BY <1>1, DoneReaderInv
<1>5. BufferInv'
  BY <1>1, <1>2, <1>3 DEF IInv, BufferInv
<1>6. OffsetInv' /\ FlushInv'
  BY <1>1, <1>3 DEF IInv, OffsetInv, FlushInv
<1>7. NothingDropped'
  <2> SUFFICES ASSUME NEW o \in Ids, IsRow(o), o \in Seen'
               PROVE  \E r \in rows[TableOf(o)] \cup dest : Covers(r, o)
    BY <1>1 DEF NothingDropped, IsRow, Seen
  <2>1. o \in Seen
    BY <1>2, <1>3
  <2> QED
    BY <2>1 DEF IInv, NothingDropped, IsRow, Seen
<1>8. CommittedIsDurable'
  BY <1>1 DEF IInv, CommittedIsDurable
<1> QED
  BY <1>4, <1>5, <1>6, <1>7, <1>8 DEF IInv

\* Event.Save: the new row supersedes the buffered row of its key.
LEMMA SaveStep ==
  ASSUME KeyInOnePartition, IInv, TypeOK', NEW c \in Topics, Save(c)
  PROVE  IInv'
<1>1. PICK m \in inflight[c], oversize \in BOOLEAN :
        LET t == TableOf(m)
            buffer == InsertRow(rows[t], m)
            flush == Cardinality(buffer) > BufferRows \/ oversize
        IN  /\ Msg(m).kind = "row"
            /\ lock[t] = Nobody
            /\ rows' = [rows EXCEPT ![t] = buffer]
            /\ last' = [last EXCEPT ![t] = LastMessages(@, m)]
            /\ cpc' = [cpc EXCEPT ![c] = IF flush THEN "flush" ELSE "fetch"]
  BY DEF Save, Unlocked
<1> DEFINE T == TableOf(m)
<1>2. /\ UNCHANGED <<committed, position, lock, step, pending, dest>>
      /\ inflight' = [inflight EXCEPT ![c] = {}]
  BY DEF Save
<1>3. m \in Ids /\ T \in Tables /\ m.part \in Parts /\ m.off \in Nat \ {0}
  BY IdsType DEF IInv, TypeOK
<1>4. /\ TopicOf[m.part] = c /\ position[m.part] = m.off + 1 /\ committed[m.part] < m.off
      /\ inflight[c] = {m}
  BY DEF IInv, ReaderInv
<1>5. Seen' = Seen \cup {m}
  BY <1>2, <1>4, DoneWithMessage
<1>6. ReaderInv'
  BY <1>1, <1>2, DoneReaderInv
<1>7. rows'[T] = {r \in rows[T] : ~SameKey(r, m)} \cup {m}
  BY <1>1, <1>3 DEF InsertRow, IInv, TypeOK
<1>8. last'[T] = {r \in last[T] : PartNum[r.part] # PartNum[m.part]} \cup {m}
  BY <1>1, <1>3 DEF LastMessages, IInv, TypeOK
<1>9. \A t \in Tables : t # T => rows'[t] = rows[t] /\ last'[t] = last[t]
  BY <1>1, <1>3 DEF IInv, TypeOK
<1>10. \A o \in Seen : o \in Ids /\ (o.part = m.part => o.off <= m.off)
  BY <1>3, <1>4, IdsType DEF Seen
<1>11. BufferInv'
  <2> SUFFICES ASSUME NEW t \in Tables, NEW r \in rows'[t]
               PROVE  /\ r \in Seen' /\ IsRow(r) /\ TableOf(r) = t
                      /\ \A o \in Seen' : IsRow(o) /\ SameKey(r, o) => o.off <= r.off
    BY DEF BufferInv
  <2>1. CASE r = m
    <3>1. t = T
      <4>1. t # T => m \notin rows[t]
        BY DEF IInv, BufferInv
      <4> QED
        BY <1>9, <2>1, <4>1
    <3>2. \A o \in Seen' : SameKey(m, o) => o.off <= m.off
      BY <1>3, <1>5, <1>10, SameKeyFacts
    <3> QED
      BY <1>1, <1>5, <2>1, <3>1, <3>2 DEF IsRow
  <2>2. CASE r # m
    <3>1. r \in rows[t] /\ (t = T => ~SameKey(r, m)) /\ r \in Ids
      BY <1>7, <1>9, <2>2 DEF IInv, TypeOK
    <3>2. r \in Seen /\ IsRow(r) /\ TableOf(r) = t
      BY <3>1 DEF IInv, BufferInv
    <3>3. ~SameKey(r, m)
      BY <1>3, <3>1, <3>2, SameKeyFacts
    <3> QED
      BY <1>5, <3>1, <3>2, <3>3 DEF IInv, BufferInv
  <2> QED
    BY <2>1, <2>2
<1>12. OffsetInv'
  <2>1. ASSUME NEW t \in Tables, t # T
        PROVE  /\ pending'[t] \subseteq last'[t]
               /\ pending'[t] # {} => lock'[t] # Nobody /\ step'[t] = "commit"
               /\ \A r \in last'[t] : r \in Seen' /\ TableOf(r) = t /\ committed'[r.part] <= r.off
               /\ \A r, o \in last'[t] : r.part = o.part => r = o
    BY <1>2, <1>5, <1>9, <2>1 DEF IInv, OffsetInv
  <2>2. pending'[T] = {}
    BY <1>1, <1>2, <1>3 DEF IInv, OffsetInv
  <2>3. \A r \in last'[T] : r \in Seen' /\ TableOf(r) = T /\ committed'[r.part] <= r.off
    BY <1>2, <1>3, <1>4, <1>5, <1>8 DEF IInv, OffsetInv, TypeOK
  <2>4. ASSUME NEW r \in last'[T], NEW o \in last'[T], r.part = o.part
        PROVE  r = o
    <3>1. CASE r = m \/ o = m
      BY <1>8, <2>4, <3>1
    <3>2. CASE r # m /\ o # m
      BY <1>3, <1>8, <2>4, <3>2 DEF IInv, OffsetInv
    <3> QED
      BY <3>1, <3>2
  <2> QED
    BY <2>1, <2>2, <2>3, <2>4 DEF OffsetInv
<1>13. FlushInv'
  BY <1>1, <1>2, <1>9 DEF IInv, FlushInv
<1>14. NothingDropped'
  <2> SUFFICES ASSUME NEW o \in Ids, IsRow(o), o \in Seen'
               PROVE  \E r \in rows'[TableOf(o)] \cup dest' : Covers(r, o)
    BY DEF NothingDropped, IsRow, Seen
  <2>1. CASE o = m
    BY <1>3, <1>7, <2>1, CoversReflexive
  <2>2. CASE o # m
    <3>1. PICK r \in rows[TableOf(o)] \cup dest : Covers(r, o)
      BY <1>5, <2>2 DEF IInv, NothingDropped, IsRow, Seen
    <3>2. CASE r \in rows'[TableOf(o)] \cup dest
      BY <1>2, <3>1, <3>2
    <3>3. CASE r \notin rows'[TableOf(o)] \cup dest
      <4>1. TableOf(o) = T /\ SameKey(r, m) /\ r \in Ids /\ r \in Seen
        BY <1>7, <1>9, <3>1, <3>3, IdsType DEF IInv, TypeOK, BufferInv
      <4>2. SameKey(m, r) /\ m.part = r.part
        BY <1>3, <4>1, SameKeyFacts
      <4>3. Covers(m, r)
        BY <1>3, <1>10, <4>1, <4>2, CoversFacts
      <4>4. Covers(m, o)
        BY <1>3, <3>1, <4>1, <4>3, CoversTransitive
      <4> QED
        BY <1>7, <4>1, <4>4
    <3> QED
      BY <3>2, <3>3
  <2> QED
    BY <2>1, <2>2
<1>15. CommittedIsDurable'
  BY <1>2 DEF IInv, CommittedIsDurable
<1> QED
  BY <1>6, <1>11, <1>12, <1>13, <1>14, <1>15 DEF IInv

-----------------------------------------------------------------------------
\* dest.Merge or dest.Append succeeded: the buffer is in the destination.
LEMMA MergeSucceedsStep ==
  ASSUME KeyInOnePartition, ClockFollowsLog, IInv, TypeOK',
         NEW t \in Tables, MergeSucceeds(t)
  PROVE  IInv'
<1>1. /\ UNCHANGED <<committed, position, inflight, cpc, rows, last, lock>>
      /\ lock[t] # Nobody /\ step' = [step EXCEPT ![t] = "commit"]
      /\ dest' = Merged(rows[t]) /\ pending' = [pending EXCEPT ![t] = last[t]]
  BY DEF MergeSucceeds, consumerVars, memoryVars
<1>2. \A u \in Tables : pending'[u] \subseteq last[u]
  BY <1>1 DEF IInv, OffsetInv, TypeOK
<1>3. \A u \in Tables : pending'[u] # {} => lock'[u] # Nobody /\ step'[u] = "commit"
  BY <1>1 DEF IInv, OffsetInv, TypeOK
<1>4. \A o \in Seen : IsRow(o) /\ (\E d \in dest : Covers(d, o)) => \E d \in dest' : Covers(d, o)
  BY <1>1, MergeKeeps
<1>5. ASSUME NEW u \in Tables, lock'[u] # Nobody, step'[u] = "commit", NEW r \in rows[u]
      PROVE  \E d \in dest' : Covers(d, r)
  <2>1. CASE u = t
    BY <1>1, <2>1, MergeCovers
  <2>2. CASE u # t
    <3>1. \E d \in dest : Covers(d, r)
      BY <1>1, <1>5, <2>2 DEF IInv, FlushInv, TypeOK
    <3> QED
      BY <1>4, <3>1 DEF IInv, BufferInv
  <2> QED
    BY <2>1, <2>2
<1> QED
  BY <1>1, <1>2, <1>3, <1>4, <1>5, DestStep

\* It failed, with or without an effect: the buffer stays.
LEMMA MergeFailsStep ==
  ASSUME KeyInOnePartition, IInv, TypeOK', NEW t \in Tables, MergeFails(t)
  PROVE  IInv'
<1>1. /\ UNCHANGED <<committed, position, inflight, cpc, rows, last, step, pending>>
      /\ step[t] = "merge" /\ lock' = [lock EXCEPT ![t] = Nobody]
  BY DEF MergeFails, Release, consumerVars, memoryVars
<1>2. PICK R \in WrittenOnError(t) : dest' = Merged(R)
  BY DEF MergeFails
<1>3. R \in SUBSET rows[t]
  BY DEF WrittenOnError
<1>4. \A o \in Seen : IsRow(o) /\ (\E d \in dest : Covers(d, o)) => \E d \in dest' : Covers(d, o)
  BY <1>2, <1>3, MergeKeeps
<1>5. \A u \in Tables : u # t => lock'[u] = lock[u]
  BY <1>1 DEF IInv, TypeOK
<1>6. pending[t] = {} /\ lock'[t] = Nobody
  BY <1>1 DEF IInv, OffsetInv, TypeOK
<1>7. \A u \in Tables : pending'[u] # {} => lock'[u] # Nobody /\ step'[u] = "commit"
  BY <1>1, <1>5, <1>6 DEF IInv, OffsetInv
<1>8. \A u \in Tables : pending'[u] \subseteq last[u]
  BY <1>1 DEF IInv, OffsetInv
<1>9. ASSUME NEW u \in Tables, lock'[u] # Nobody, step'[u] = "commit", NEW r \in rows[u]
      PROVE  \E d \in dest' : Covers(d, r)
  BY <1>1, <1>4, <1>5, <1>6, <1>9 DEF IInv, FlushInv, BufferInv
<1> QED
  BY <1>1, <1>4, <1>7, <1>8, <1>9, DestStep

\* When an offset of a table is committed, everything up to it is in the
\* destination: its topic holds rows of that table only, all of them seen, and the
\* ones still buffered were merged by this very flush.
LEMMA CommitIsDurable ==
  ASSUME OneTablePerTopic, IInv,
         NEW t \in Tables, lock[t] # Nobody, step[t] = "commit", NEW m \in pending[t],
         NEW o \in Ids, IsRow(o), o.part = m.part, o.off <= m.off
  PROVE  \E d \in dest : Covers(d, o)
<1>1. m \in last[t] /\ m \in Seen /\ m \in Ids /\ TableOf(m) = t
  BY DEF IInv, OffsetInv, TypeOK
<1>2. TableOf(o) = t
  BY <1>1 DEF OneTablePerTopic
<1>3. /\ m.off \in Nat /\ o.off \in Nat /\ m.part \in Parts /\ TopicOf[m.part] \in Topics
      /\ m = [part |-> m.part, off |-> m.off] /\ o = [part |-> o.part, off |-> o.off]
      /\ position[m.part] \in Nat
  BY <1>1, IdsType, PipelineAssumption DEF IInv, TypeOK
<1>4. o \in Seen
  <2>1. o.off < position[o.part]
    BY <1>1, <1>3 DEF Seen
  <2>2. ASSUME o \in inflight[TopicOf[o.part]]
        PROVE  FALSE
    <3>1. position[m.part] = o.off + 1
      BY <1>3, <2>2 DEF IInv, ReaderInv
    <3>2. m.off = o.off
      BY <1>1, <1>3, <3>1 DEF Seen
    <3> QED
      BY <1>1, <1>3, <2>2, <3>2 DEF Seen
  <2> QED
    BY <2>1, <2>2 DEF Seen
<1>5. PICK r \in rows[t] \cup dest : Covers(r, o)
  BY <1>2, <1>4 DEF IInv, NothingDropped, Seen, IsRow
<1>6. CASE r \in rows[t]
  <2>1. PICK d \in dest : Covers(d, r)
    BY <1>6 DEF IInv, FlushInv
  <2> QED
    BY <1>5, <1>6, <2>1, CoversTransitive DEF IInv, TypeOK
<1> QED
  BY <1>5, <1>6

\* The broker takes the offset of message m, which table t was about to commit.
LEMMA CommittedStep ==
  ASSUME OneTablePerTopic, IInv, TypeOK',
         NEW t \in Tables, lock[t] # Nobody, step[t] = "commit", NEW m \in pending[t],
         committed' = [committed EXCEPT ![m.part] = m.off],
         UNCHANGED <<position, inflight, cpc, rows, last, step, dest>>,
         \A u \in Tables : pending'[u] \subseteq pending[u],
         \A u \in Tables : pending'[u] # {} => lock'[u] = lock[u],
         \A u \in Tables : lock'[u] \in {lock[u], Nobody}
  PROVE  IInv'
<1>1. /\ m \in last[t] /\ m \in Seen /\ m \in Ids /\ TableOf(m) = t
      /\ m.part \in Parts /\ m.off \in Nat /\ TopicOf[m.part] \in Topics
      /\ position[m.part] \in Nat
  BY IdsType, PipelineAssumption DEF IInv, OffsetInv, TypeOK
<1>2. committed'[m.part] = m.off /\ \A p \in Parts : p # m.part => committed'[p] = committed[p]
  BY <1>1 DEF IInv, TypeOK
<1>3. Seen' = Seen
  BY DEF Seen
<1>4. ReaderInv'
  <2>1. \A p \in Parts : committed'[p] < position'[p]
    BY <1>1, <1>2 DEF IInv, ReaderInv, Seen
  <2>2. ASSUME NEW c \in Topics, NEW n \in inflight[c]
        PROVE  committed'[n.part] < n.off
    <3>1. /\ n \in Ids /\ n.part \in Parts /\ n.off \in Nat /\ TopicOf[n.part] = c
          /\ position[n.part] = n.off + 1 /\ committed[n.part] < n.off
          /\ n = [part |-> n.part, off |-> n.off] /\ m = [part |-> m.part, off |-> m.off]
      BY <1>1, IdsType DEF IInv, ReaderInv, TypeOK
    <3>2. CASE n.part = m.part
      <4>1. m.off < n.off + 1 /\ m # n
        BY <1>1, <3>1, <3>2 DEF Seen
      <4>2. m.off # n.off
        BY <3>1, <3>2, <4>1
      <4> QED
        BY <1>1, <1>2, <3>1, <3>2, <4>1, <4>2
    <3>3. CASE n.part # m.part
      BY <1>2, <3>1, <3>3
    <3> QED
      BY <3>2, <3>3
  <2> QED
    BY <2>1, <2>2 DEF IInv, ReaderInv
<1>5. BufferInv' /\ FlushInv' /\ NothingDropped'
  BY <1>3 DEF IInv, BufferInv, FlushInv, NothingDropped, Seen
<1>6. OffsetInv'
  <2>1. ASSUME NEW u \in Tables, NEW r \in last[u]
        PROVE  committed'[r.part] <= r.off
    <3>1. r \in Ids /\ r.part \in Parts /\ r.off \in Nat /\ TableOf(r) = u /\ committed[r.part] <= r.off
      BY IdsType DEF IInv, OffsetInv, TypeOK
    <3>2. CASE r.part = m.part
      <4>1. u = t
        BY <1>1, <3>1, <3>2 DEF OneTablePerTopic
      <4>2. r = m
        BY <1>1, <3>2, <4>1 DEF IInv, OffsetInv
      <4> QED
        BY <1>1, <1>2, <4>2
    <3>3. CASE r.part # m.part
      BY <1>2, <3>1, <3>3
    <3> QED
      BY <3>2, <3>3
  <2>2. \A u \in Tables : pending'[u] \subseteq last'[u]
    BY DEF IInv, OffsetInv
  <2>3. \A u \in Tables : pending'[u] # {} => lock'[u] # Nobody /\ step'[u] = "commit"
    BY DEF IInv, OffsetInv
  <2> QED
    BY <1>3, <2>1, <2>2, <2>3 DEF IInv, OffsetInv
<1>7. CommittedIsDurable'
  <2> SUFFICES ASSUME NEW o \in Ids, IsRow(o), o.off <= committed'[o.part]
               PROVE  \E r \in dest : Covers(r, o)
    BY DEF CommittedIsDurable, IsRow
  <2>1. CASE o.part = m.part
    BY <1>2, <2>1, CommitIsDurable
  <2>2. CASE o.part # m.part
    BY <1>2, <2>2, IdsType DEF IInv, CommittedIsDurable, IsRow
  <2> QED
    BY <2>1, <2>2
<1> QED
  BY <1>4, <1>5, <1>6, <1>7 DEF IInv

\* commitOffset, message by message.
LEMMA CommitMessageStep ==
  ASSUME OneTablePerTopic, IInv, TypeOK',
         NEW t \in Tables, NEW m \in pending[t], CommitMessage(t, m)
  PROVE  IInv'
<1>1. /\ lock[t] # Nobody /\ step[t] = "commit"
      /\ committed' = [committed EXCEPT ![m.part] = m.off]
      /\ pending' = [pending EXCEPT ![t] = @ \ {m}]
      /\ UNCHANGED <<position, inflight, cpc, rows, last, lock, step, dest>>
  BY DEF CommitMessage, CommittedAfter, consumerVars, memoryVars
<1>2. \A u \in Tables : pending'[u] \subseteq pending[u]
  BY <1>1 DEF IInv, TypeOK
<1> QED
  BY <1>1, <1>2, CommittedStep

LEMMA CommitFailsStep ==
  ASSUME OneTablePerTopic, IInv, TypeOK',
         NEW t \in Tables, NEW m \in pending[t], CommitFails(t, m)
  PROVE  IInv'
<1>1. /\ lock[t] # Nobody /\ step[t] = "commit"
      /\ pending' = [pending EXCEPT ![t] = {}]
      /\ lock' = [lock EXCEPT ![t] = Nobody]
      /\ UNCHANGED <<position, inflight, cpc, rows, last, step, dest>>
  BY DEF CommitFails, Release, consumerVars, memoryVars
<1>2. pending'[t] = {} /\ lock'[t] = Nobody
  BY <1>1 DEF IInv, TypeOK
<1>3. \A u \in Tables : u # t => pending'[u] = pending[u] /\ lock'[u] = lock[u]
  BY <1>1 DEF IInv, TypeOK
<1>4. CASE UNCHANGED committed
  <2>1. \A u \in Tables : pending'[u] \subseteq last[u]
    BY <1>2, <1>3 DEF IInv, OffsetInv
  <2>2. \A u \in Tables : pending'[u] # {} => lock'[u] # Nobody /\ step'[u] = "commit"
    BY <1>1, <1>2, <1>3 DEF IInv, OffsetInv
  <2>3. \A u \in Tables : lock'[u] # Nobody /\ step'[u] = "commit" =>
          \A r \in rows[u] : \E d \in dest' : Covers(d, r)
    BY <1>1, <1>2, <1>3 DEF IInv, FlushInv
  <2> QED
    BY <1>1, <1>4, <2>1, <2>2, <2>3, DestStep
<1>5. CASE committed' = [committed EXCEPT ![m.part] = m.off]
  <2>1. \A u \in Tables : pending'[u] \subseteq pending[u]
    BY <1>2, <1>3
  <2>2. \A u \in Tables : pending'[u] # {} => lock'[u] = lock[u]
    BY <1>2, <1>3
  <2>3. \A u \in Tables : lock'[u] \in {lock[u], Nobody}
    BY <1>2, <1>3
  <2> QED
    BY <1>1, <1>5, <2>1, <2>2, <2>3, CommittedStep
<1> QED
  BY <1>4, <1>5 DEF CommitFails, CommittedAfter

\* Wiping a buffer after its flush drops nothing: the destination has it.
LEMMA ClearStep ==
  ASSUME IInv, TypeOK', NEW t \in Tables, ClearTableConfig(t)
  PROVE  IInv'
<1>1. /\ lock[t] # Nobody /\ step[t] = "commit" /\ pending[t] = {}
      /\ rows' = [rows EXCEPT ![t] = {}] /\ last' = [last EXCEPT ![t] = {}]
      /\ lock' = [lock EXCEPT ![t] = Nobody]
      /\ UNCHANGED <<committed, position, inflight, cpc, step, pending, dest>>
  BY DEF ClearTableConfig, Wiped, Release, consumerVars
<1>2. rows'[t] = {} /\ last'[t] = {} /\ lock'[t] = Nobody
  BY <1>1 DEF IInv, TypeOK
<1>3. \A u \in Tables : u # t => rows'[u] = rows[u] /\ last'[u] = last[u] /\ lock'[u] = lock[u]
  BY <1>1 DEF IInv, TypeOK
<1>4. Seen' = Seen
  BY <1>1 DEF Seen
<1>5. ReaderInv' /\ CommittedIsDurable'
  BY <1>1 DEF IInv, ReaderInv, CommittedIsDurable
<1>6. BufferInv'
  <2> SUFFICES ASSUME NEW u \in Tables, NEW r \in rows'[u]
               PROVE  /\ r \in Seen' /\ IsRow(r) /\ TableOf(r) = u
                      /\ \A o \in Seen' : IsRow(o) /\ SameKey(r, o) => o.off <= r.off
    BY DEF BufferInv
  <2>1. r \in rows[u]
    BY <1>2, <1>3
  <2> QED
    BY <1>4, <2>1 DEF IInv, BufferInv
<1>7. OffsetInv'
  <2> SUFFICES ASSUME NEW u \in Tables
               PROVE  /\ pending'[u] \subseteq last'[u]
                      /\ pending'[u] # {} => lock'[u] # Nobody /\ step'[u] = "commit"
                      /\ \A m \in last'[u] : m \in Seen' /\ TableOf(m) = u /\ committed'[m.part] <= m.off
                      /\ \A m, r \in last'[u] : m.part = r.part => m = r
    BY DEF OffsetInv
  <2>1. CASE u = t
    BY <1>1, <1>2, <2>1
  <2>2. CASE u # t
    BY <1>1, <1>3, <1>4, <2>2 DEF IInv, OffsetInv
  <2> QED
    BY <2>1, <2>2
<1>8. FlushInv'
  BY <1>1, <1>2, <1>3 DEF IInv, FlushInv
<1>9. NothingDropped'
  <2> SUFFICES ASSUME NEW o \in Ids, IsRow(o), o \in Seen
               PROVE  \E r \in rows'[TableOf(o)] \cup dest : Covers(r, o)
    BY <1>1 DEF NothingDropped, IsRow, Seen
  <2>1. PICK r \in rows[TableOf(o)] \cup dest : Covers(r, o)
    BY DEF IInv, NothingDropped, IsRow, Seen
  <2>2. CASE r \in dest
    BY <2>1, <2>2
  <2>3. CASE r \in rows[TableOf(o)] /\ TableOf(o) # t
    BY <1>3, <2>1, <2>3, IdsType
  <2>4. CASE r \in rows[TableOf(o)] /\ TableOf(o) = t
    <3>1. PICK d \in dest : Covers(d, r)
      BY <1>1, <2>4 DEF IInv, FlushInv
    <3> QED
      BY <2>1, <2>4, <3>1, CoversTransitive DEF IInv, TypeOK
  <2> QED
    BY <2>1, <2>2, <2>3, <2>4
<1> QED
  BY <1>5, <1>6, <1>7, <1>8, <1>9 DEF IInv

\* Taking a table's mutex, and the steps that touch nothing the invariant reads.
LEMMA LockStep ==
  ASSUME IInv, TypeOK', NEW f \in Callers, NEW t \in Tables, LockTable(f, t)
  PROVE  IInv'
<1>1. /\ lock[t] = Nobody
      /\ UNCHANGED <<committed, position, inflight, cpc, rows, last, pending, dest>>
  BY DEF LockTable, Unlocked, consumerVars, memoryVars
<1>2. pending[t] = {}
  BY <1>1 DEF IInv, OffsetInv
<1>3. \/ UNCHANGED <<lock, step>>
      \/ lock' = [lock EXCEPT ![t] = f] /\ step' = [step EXCEPT ![t] = "merge"]
  BY DEF LockTable
<1>4. \A u \in Tables : \/ lock'[u] = lock[u] /\ step'[u] = step[u]
                        \/ u = t /\ step'[u] = "merge"
  BY <1>3 DEF IInv, TypeOK
<1>5. \A u \in Tables : pending'[u] \subseteq last[u]
  BY <1>1 DEF IInv, OffsetInv
<1>6. \A u \in Tables : pending'[u] # {} => lock'[u] # Nobody /\ step'[u] = "commit"
  BY <1>1, <1>2, <1>4 DEF IInv, OffsetInv
<1>7. \A u \in Tables : lock'[u] # Nobody /\ step'[u] = "commit" =>
        \A r \in rows[u] : \E d \in dest' : Covers(d, r)
  BY <1>1, <1>4 DEF IInv, FlushInv
<1> QED
  BY <1>1, <1>5, <1>6, <1>7, DestStep

LEMMA QuietStep ==
  ASSUME IInv, TypeOK',
         UNCHANGED <<committed, position, inflight, rows, last, lock, step, pending, dest>>,
         \A c \in Topics : cpc'[c] = cpc[c] \/ cpc[c] # "process"
  PROVE  IInv'
<1>1. Seen' = Seen
  BY DEF Seen
<1>2. ReaderInv'
  BY DEF IInv, ReaderInv
<1>3. BufferInv' /\ OffsetInv' /\ FlushInv'
  BY <1>1 DEF IInv, BufferInv, OffsetInv, FlushInv
<1>4. NothingDropped' /\ CommittedIsDurable'
  BY DEF IInv, NothingDropped, CommittedIsDurable
<1> QED
  BY <1>2, <1>3, <1>4 DEF IInv

\* A crash forgets the buffers and reads on after the committed offsets, where
\* the destination has everything.
LEMMA CrashStep ==
  ASSUME IInv, TypeOK', Crash
  PROVE  IInv'
<1>1. /\ position' = [p \in Parts |-> committed[p] + 1]
      /\ inflight' = [c \in Topics |-> {}] /\ cpc' = [c \in Topics |-> "fetch"]
      /\ rows' = [t \in Tables |-> {}] /\ last' = [t \in Tables |-> {}]
      /\ lock' = [t \in Tables |-> Nobody] /\ pending' = [t \in Tables |-> {}]
      /\ UNCHANGED <<committed, dest>>
  BY DEF Crash, ResumePosition, FreshProcess
<1>2. ReaderInv'
  BY <1>1 DEF IInv, TypeOK, ReaderInv
<1>3. BufferInv' /\ OffsetInv' /\ FlushInv'
  BY <1>1 DEF BufferInv, OffsetInv, FlushInv
<1>4. CommittedIsDurable'
  BY <1>1 DEF IInv, CommittedIsDurable
<1>5. NothingDropped'
  <2> SUFFICES ASSUME NEW o \in Ids, IsRow(o), o.off < position'[o.part]
               PROVE  \E r \in dest : Covers(r, o)
    BY <1>1 DEF NothingDropped, IsRow
  <2>1. o.off <= committed[o.part]
    BY <1>1, IdsType DEF IInv, TypeOK
  <2> QED
    BY <2>1 DEF IInv, CommittedIsDurable, IsRow
<1> QED
  BY <1>2, <1>3, <1>4, <1>5 DEF IInv

-----------------------------------------------------------------------------
\* The invariant holds initially and every step of the pipeline preserves it, in
\* the deployment the README recommends.
LEMMA InvInit ==
  ASSUME Init
  PROVE  IInv
<1>1. TypeOK
  BY PipelineAssumption DEF Init, TypeOK, NoWorkers
<1>2. ReaderInv /\ BufferInv /\ OffsetInv /\ FlushInv
  BY DEF Init, ReaderInv, BufferInv, OffsetInv, FlushInv
<1>3. NothingDropped /\ CommittedIsDurable
  BY IdsType DEF Init, NothingDropped, CommittedIsDurable
<1> QED
  BY <1>1, <1>2, <1>3 DEF IInv

LEMMA InvStep ==
  ASSUME OneTablePerTopic, KeyInOnePartition, ClockFollowsLog, IInv, [Next]_vars
  PROVE  IInv'
<1>1. TypeOK'
  BY TypeStep DEF IInv
<1>2. ASSUME NEW c \in Topics, NEW p \in Parts, FetchMessage(c, p)
      PROVE  IInv'
  BY <1>1, <1>2, FetchStep
<1>3. ASSUME NEW c \in Topics, SkipMessage(c) \/ Save(c)
      PROVE  IInv'
  BY <1>1, <1>3, SkipStep, SaveStep
<1>4. ASSUME PoolTick \/ UNCHANGED vars
      PROVE  IInv'
  BY <1>1, <1>4, QuietStep DEF PoolTick, vars, consumerVars, memoryVars, flushVars
<1>5. ASSUME NEW t \in Tables, CheckCooldown(t) \/ CooldownElapses(t)
      PROVE  IInv'
  BY <1>1, <1>5, QuietStep
     DEF CheckCooldown, CooldownElapses, consumerVars, memoryVars, flushVars
<1>6. ASSUME NEW t \in Tables, MergeSucceeds(t) \/ MergeFails(t) \/ ClearTableConfig(t)
      PROVE  IInv'
  BY <1>1, <1>6, MergeSucceedsStep, MergeFailsStep, ClearStep
<1>7. ASSUME NEW t \in Tables, NEW m \in pending[t], CommitMessage(t, m) \/ CommitFails(t, m)
      PROVE  IInv'
  BY <1>1, <1>7, CommitMessageStep, CommitFailsStep
<1>8. ASSUME NEW f \in Callers, NEW t \in Tables, LockTable(f, t)
      PROVE  IInv'
  BY <1>1, <1>8, LockStep
<1>9. ASSUME NEW f \in Callers, FlushReturns(f)
      PROVE  IInv'
  <2>1. UNCHANGED <<committed, position, inflight, rows, last, lock, step, pending, dest>>
    BY <1>9 DEF FlushReturns, memoryVars
  <2>2. \A c \in Topics : cpc'[c] = cpc[c] \/ cpc[c] # "process"
    BY <1>9 DEF FlushReturns, IInv, TypeOK
  <2> QED
    BY <1>1, <2>1, <2>2, QuietStep
<1>10. ASSUME Crash
       PROVE  IInv'
  BY <1>1, <1>10, CrashStep
<1> QED
  BY <1>2, <1>3, <1>4, <1>5, <1>6, <1>7, <1>8, <1>9, <1>10 DEF Next

\* With one topic per table, a key in one partition and execution times that follow
\* the log, no crash, failure or interleaving loses an acknowledged row: the
\* destination covers everything up to the committed offsets (flush.go, configs.go).
THEOREM AcknowledgedRowsAreDurable ==
  ASSUME OneTablePerTopic, KeyInOnePartition, ClockFollowsLog
  PROVE  Spec => []CommittedIsDurable
<1>1. Init => IInv
  BY InvInit
<1>2. IInv /\ [Next]_vars => IInv'
  BY InvStep
<1>3. IInv => CommittedIsDurable
  BY DEF IInv
<1> QED
  BY <1>1, <1>2, <1>3, PTL DEF Spec

\* In the same deployment a running process drops nothing it took from Kafka: every
\* row is still buffered or already in the destination (event.go, memory.go).
THEOREM NoRowIsDropped ==
  ASSUME OneTablePerTopic, KeyInOnePartition, ClockFollowsLog
  PROVE  Spec => []NothingDropped
<1>1. Init => IInv
  BY InvInit
<1>2. IInv /\ [Next]_vars => IInv'
  BY InvStep
<1>3. IInv => NothingDropped
  BY DEF IInv
<1> QED
  BY <1>1, <1>2, <1>3, PTL DEF Spec

\* One step commits at most one message, and only one at or after the committed offset.
LEMMA CommitsAdvance ==
  ASSUME IInv, [Next]_vars, NEW p \in Parts
  PROVE  committed'[p] >= committed[p]
<1>1. CASE committed' = committed
  BY <1>1 DEF IInv, TypeOK
<1>2. CASE committed' # committed
  <2>0. PICK t \in Tables : \E m \in pending[t] : committed' = [committed EXCEPT ![m.part] = m.off]
    BY <1>2 DEF Next, vars, FetchMessage, SkipMessage, Save, PoolTick, CheckCooldown,
           CooldownElapses, MergeSucceeds, MergeFails, CommitMessage, CommitFails,
           ClearTableConfig, LockTable, FlushReturns, Crash, CommittedAfter
  <2>1. PICK m \in pending[t] : committed' = [committed EXCEPT ![m.part] = m.off]
    BY <2>0
  <2>2. m.part \in Parts /\ m.off \in Nat /\ committed[m.part] <= m.off
    BY IdsType DEF IInv, OffsetInv, TypeOK
  <2>3. committed[p] \in Nat /\ committed[m.part] \in Nat
    BY <2>2 DEF IInv, TypeOK
  <2> QED
    BY <2>1, <2>2, <2>3 DEF IInv, TypeOK
<1> QED
  BY <1>1, <1>2

\* In the same deployment no flush moves a committed offset backwards, however many
\* messages were replayed after a crash (configs.go, commitOffset).
THEOREM OffsetsOnlyAdvance ==
  ASSUME OneTablePerTopic, KeyInOnePartition, ClockFollowsLog
  PROVE  Spec => CommitsOnlyAdvance
<1>1. Init => IInv
  BY InvInit
<1>2. IInv /\ [Next]_vars => IInv'
  BY InvStep
<1>3. IInv /\ [Next]_vars => [\A p \in Parts : committed'[p] >= committed[p]]_committed
  BY CommitsAdvance
<1> QED
  BY <1>1, <1>2, <1>3, PTL DEF Spec, CommitsOnlyAdvance

-----------------------------------------------------------------------------
\* No step both writes to the destination and commits an offset.
LEMMA WritesOrCommits ==
  ASSUME [Next]_vars
  PROVE  dest' = dest \/ committed' = committed
BY DEF Next, vars, FetchMessage, SkipMessage, Save, PoolTick, CheckCooldown,
       CooldownElapses, MergeSucceeds, MergeFails, CommitMessage, CommitFails,
       ClearTableConfig, LockTable, FlushReturns, Crash, FreshProcess

\* A step of the pipeline is a step of Delivery or leaves its variables alone.
LEMMA DeliveryStep ==
  ASSUME IInv, IInv', [Next]_vars
  PROVE  [D!Next]_(D!vars)
<1>1. Acknowledged' \subseteq Reflected'
  <2> SUFFICES ASSUME NEW m \in RowChanges, m.off <= committed'[m.part]
               PROVE  \E r \in dest' : Covers(r, m)
    BY DEF Acknowledged, Reflected
  <2> QED
    BY DEF IInv, CommittedIsDurable, RowChanges
<1>2. Acknowledged \subseteq Acknowledged'
  <2> SUFFICES ASSUME NEW m \in RowChanges, m.off <= committed[m.part]
               PROVE  m.off <= committed'[m.part]
    BY DEF Acknowledged
  <2>1. m.part \in Parts /\ m.off \in Nat
    BY IdsType DEF RowChanges
  <2>2. committed[m.part] \in Nat /\ committed'[m.part] \in Nat
    BY <2>1 DEF IInv, TypeOK
  <2>3. committed'[m.part] >= committed[m.part]
    BY <2>1, CommitsAdvance
  <2> QED
    BY <2>1, <2>2, <2>3
<1>3. Reflected' \in SUBSET RowChanges
  BY DEF Reflected
<1>4. CASE committed' = committed
  <2>1. Acknowledged' = Acknowledged
    BY <1>4 DEF Acknowledged
  <2>2. D!Write
    BY <1>1, <1>3, <2>1 DEF D!Write
  <2> QED
    BY <2>2 DEF D!Next
<1>5. CASE dest' = dest
  <2>1. Reflected' = Reflected
    BY <1>5 DEF Reflected
  <2>2. D!Acknowledge
    BY <1>1, <1>2, <2>1 DEF D!Acknowledge
  <2> QED
    BY <2>2 DEF D!Next
<1> QED
  BY <1>4, <1>5, WritesOrCommits

\* In the same deployment the pipeline implements Delivery: nothing is acknowledged that
\* the destination does not reflect, and neither is ever taken back (flush.go: commit after
\* the write; event.go: one last message per partition).
THEOREM PipelineDelivers ==
  ASSUME OneTablePerTopic, KeyInOnePartition, ClockFollowsLog
  PROVE  Spec => Delivers
<1>1. Init => IInv
  BY InvInit
<1>2. IInv /\ [Next]_vars => IInv'
  BY InvStep
<1>3. Init => D!Init
  <2> SUFFICES ASSUME Init
               PROVE  Reflected = {} /\ Acknowledged = {}
    BY DEF D!Init
  <2>1. Reflected = {}
    BY DEF Init, Reflected
  <2>2. ASSUME NEW m \in Ids
        PROVE  ~(m.off <= committed[m.part])
    BY IdsType DEF Init
  <2> QED
    BY <2>1, <2>2 DEF Acknowledged, RowChanges
<1>4. IInv /\ IInv' /\ [Next]_vars => [D!Next]_(D!vars)
  BY DeliveryStep
<1> QED
  BY <1>1, <1>2, <1>3, <1>4, PTL DEF Spec, Delivers, D!Spec

=============================================================================
