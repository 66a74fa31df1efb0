--------------------------- MODULE RebalanceProofs ---------------------------
(***************************************************************************)
(* Proofs about PipelineRebalance: when replayed messages do no harm, for  *)
(* every set of topics, partitions and tables, every log and any number of *)
(* rebalances and crashes.                                                 *)
(***************************************************************************)
EXTENDS PipelineRebalance, PipelineProofs

\* The idempotency column grows strictly from one version of a row to the next: the
\* update clause is ">=", so with a tie a replayed older version would win.
VersionsOrdered ==
  \A m, r \in Ids :
    IsRow(m) /\ IsRow(r) /\ SameKey(m, r) /\ m.off < r.off => Msg(m).ts < Msg(r).ts

\* DELETE has no idempotency clause.
NoDeletes == \A m \in Ids : IsRow(m) => Msg(m).op = "upsert"

\* What makes a second delivery harmless: rows are only appended, or the idempotency
\* clause tells every older version from a newer one.
ReplayIsHarmless == Mode = "history" \/ (IdempotentKey /\ NoDeletes /\ VersionsOrdered)

\* The destination has m or a later version; the destination or the buffer has.
Landed(m) == \E d \in dest : Covers(d, m)
Kept(m) == \E r \in rows[TableOf(m)] \cup dest : Covers(r, m)

\* The reader may have gone back behind the message in flight, but then only to offsets
\* the destination is complete up to; and what precedes that message is not lost.
ReplayReaderInv ==
  \A c \in Topics :
    /\ cpc[c] # "process" => inflight[c] = {}
    /\ \A m, r \in inflight[c] : m = r
    /\ \A m \in inflight[c] :
         /\ TopicOf[m.part] = c
         /\ \A o \in Ids : IsRow(o) /\ o.part = m.part /\ o.off < m.off => Kept(o)
         /\ \/ position[m.part] = m.off + 1
            \/ \A o \in Ids : IsRow(o) /\ o.part = m.part /\ o.off < position[m.part] => Landed(o)

\* Buffers and the destination hold row changes, each in its own table's buffer.
ReplayBufferInv ==
  /\ \A t \in Tables : \A r \in rows[t] : IsRow(r) /\ TableOf(r) = t
  /\ \A d \in dest : IsRow(d)

\* Everything up to an offset that a table is going to commit is kept, although the
\* offset may lie behind or ahead of the reader and of what the broker holds.
ReplayOffsetInv ==
  \A t \in Tables :
    /\ pending[t] \subseteq last[t]
    /\ pending[t] # {} => lock[t] # Nobody /\ step[t] = "commit"
    /\ \A m \in last[t] :
         /\ TableOf(m) = t
         /\ \A o \in Ids : IsRow(o) /\ o.part = m.part /\ o.off <= m.off => Kept(o)

ReplayInv ==
  /\ TypeOK
  /\ ReplayReaderInv
  /\ ReplayBufferInv
  /\ ReplayOffsetInv
  /\ FlushInv
  /\ NothingDropped
  /\ CommittedIsDurable

-----------------------------------------------------------------------------
\* A version the destination's row beats on the idempotency column is an older one.
LEMMA StaleIsOlder ==
  ASSUME KeyInOnePartition, ReplayIsHarmless, ReplayInv,
         NEW t \in Tables, NEW r \in rows[t], NEW d \in dest, Stale(d, r)
  PROVE  Covers(d, r)
<1>1. r \in Ids /\ d \in Ids /\ SameKey(d, r) /\ Msg(d).ts > Msg(r).ts /\ IsRow(r) /\ IsRow(d)
  BY DEF Stale, ReplayInv, TypeOK, ReplayBufferInv
<1>2. Msg(d).ts \in Nat /\ Msg(r).ts \in Nat /\ d.off \in Nat /\ r.off \in Nat
  BY <1>1, IdsType DEF Messages
<1>3. r.off <= d.off
  <2>1. CASE Mode = "history"
    BY <1>1, <1>2, <2>1 DEF SameKey
  <2>2. CASE VersionsOrdered
    BY <1>1, <1>2, <2>2 DEF VersionsOrdered
  <2> QED
    BY <2>1, <2>2 DEF ReplayIsHarmless
<1> QED
  BY <1>1, <1>3, CoversFacts

\* A version that replaces the destination's row is not an older one.
LEMMA FreshIsNewer ==
  ASSUME KeyInOnePartition, ReplayIsHarmless, ReplayInv,
         NEW t \in Tables, NEW r \in rows[t], NEW d \in dest, SameKey(d, r), ~Stale(d, r)
  PROVE  Covers(r, d)
<1>1. r \in Ids /\ d \in Ids /\ SameKey(r, d) /\ IsRow(r) /\ IsRow(d)
  BY SameKeyFacts DEF ReplayInv, TypeOK, ReplayBufferInv
<1>2. Msg(d).ts \in Nat /\ Msg(r).ts \in Nat /\ d.off \in Nat /\ r.off \in Nat
  BY <1>1, IdsType DEF Messages
<1>3. d.off <= r.off
  <2>1. CASE Mode = "history"
    BY <1>1, <1>2, <2>1 DEF SameKey
  <2>2. CASE IdempotentKey /\ NoDeletes /\ VersionsOrdered
    <3>1. Msg(d).ts <= Msg(r).ts
      BY <1>1, <1>2, <2>2 DEF Stale, NoDeletes
    <3>2. r.off < d.off => Msg(r).ts < Msg(d).ts
      BY <1>1, <2>2 DEF VersionsOrdered
    <3> QED
      BY <1>2, <3>1, <3>2
  <2> QED
    BY <2>1, <2>2 DEF ReplayIsHarmless
<1> QED
  BY <1>1, <1>3, CoversFacts

\* Merging any part of a buffer takes nothing away from the destination, even when the
\* buffer holds replayed versions.
LEMMA ReplayMergeKeeps ==
  ASSUME KeyInOnePartition, ReplayIsHarmless, ReplayInv,
         NEW t \in Tables, NEW R \in SUBSET rows[t],
         NEW o \in Ids, NEW d \in dest, Covers(d, o)
  PROVE  \E x \in Merged(R) : Covers(x, o)
<1> DEFINE fresh == {r \in R : ~\E m \in dest : Stale(m, r)}
<1>1. Merged(R) = {m \in dest : ~\E r \in fresh : SameKey(m, r)} \cup fresh
  BY DEF Merged
<1>2. CASE ~\E r \in fresh : SameKey(d, r)
  BY <1>1, <1>2
<1>3. CASE \E r \in fresh : SameKey(d, r)
  <2>1. PICK r \in fresh : SameKey(d, r)
    BY <1>3
  <2>2. r \in rows[t] /\ ~Stale(d, r) /\ r \in Ids /\ d \in Ids
    BY <2>1 DEF ReplayInv, TypeOK
  <2>3. Covers(r, d)
    BY <2>1, <2>2, FreshIsNewer
  <2>4. Covers(r, o)
    BY <2>2, <2>3, CoversTransitive
  <2> QED
    BY <1>1, <2>1, <2>4
<1> QED
  BY <1>2, <1>3

\* Merging the whole buffer leaves each of its rows, or a newer one, in the destination.
LEMMA ReplayMergeCovers ==
  ASSUME KeyInOnePartition, ReplayIsHarmless, ReplayInv,
         NEW t \in Tables, NEW r \in rows[t]
  PROVE  \E x \in Merged(rows[t]) : Covers(x, r)
<1> DEFINE fresh == {x \in rows[t] : ~\E m \in dest : Stale(m, x)}
<1>1. Merged(rows[t]) = {m \in dest : ~\E x \in fresh : SameKey(m, x)} \cup fresh
  BY DEF Merged
<1>2. r \in Ids
  BY DEF ReplayInv, TypeOK
<1>3. CASE r \in fresh
  BY <1>1, <1>2, <1>3, CoversReflexive
<1>4. CASE r \notin fresh
  <2>1. PICK m \in dest : Stale(m, r)
    BY <1>4
  <2>2. Covers(m, r)
    BY <2>1, StaleIsOlder
  <2> QED
    BY <1>2, <2>2, ReplayMergeKeeps
<1> QED
  BY <1>3, <1>4

-----------------------------------------------------------------------------
\* Steps that do not touch the readers: enough that what was kept is kept, what landed
\* has landed, and nothing is acknowledged that had not landed.
LEMMA ReplayFrame ==
  ASSUME ReplayInv, TypeOK', UNCHANGED <<position, inflight>>,
         \A c \in Topics : cpc'[c] # "process" => cpc[c] # "process",
         \A o \in Ids : IsRow(o) /\ Kept(o) => Kept(o)',
         \A o \in Ids : IsRow(o) /\ Landed(o) => Landed(o)',
         \A o \in Ids : IsRow(o) /\ o.off <= committed'[o.part] => Landed(o),
         \A t \in Tables : last'[t] \subseteq last[t] /\ pending'[t] \subseteq last'[t],
         \A t \in Tables : pending'[t] # {} => lock'[t] # Nobody /\ step'[t] = "commit",
         ReplayBufferInv', FlushInv'
  PROVE  ReplayInv'
<1>1. ReplayReaderInv'
  BY DEF ReplayInv, ReplayReaderInv
<1>2. ReplayOffsetInv'
  BY DEF ReplayInv, ReplayOffsetInv
<1>3. NothingDropped'
  <2> SUFFICES ASSUME NEW o \in Ids, IsRow(o), o.off < position[o.part],
                      o \notin inflight[TopicOf[o.part]]
               PROVE  Kept(o)'
    BY DEF NothingDropped, IsRow, Kept
  <2>1. Kept(o)
    BY DEF ReplayInv, NothingDropped, IsRow, Kept
  <2> QED
    BY <2>1
<1>4. CommittedIsDurable'
  <2> SUFFICES ASSUME NEW o \in Ids, IsRow(o), o.off <= committed'[o.part]
               PROVE  Landed(o)'
    BY DEF CommittedIsDurable, IsRow, Landed
  <2> QED
    OBVIOUS
<1> QED
  BY <1>1, <1>2, <1>3, <1>4 DEF ReplayInv

\* What the broker holds has landed.
LEMMA AcknowledgedLanded ==
  ASSUME ReplayInv, NEW o \in Ids, IsRow(o), o.off <= committed[o.part]
  PROVE  Landed(o)
  BY DEF ReplayInv, CommittedIsDurable, IsRow, Landed

\* Steps of the pool, of the cooldown and of the flush goroutines that write nothing.
LEMMA ReplayQuiet ==
  ASSUME ReplayInv, TypeOK', UNCHANGED <<position, inflight, committed, rows, last, dest>>,
         \A c \in Topics : cpc'[c] # "process" => cpc[c] # "process",
         \A t \in Tables : \/ pending'[t] = {}
                           \/ pending'[t] = pending[t] /\ lock'[t] = lock[t] /\ step'[t] = step[t],
         \A t \in Tables : lock'[t] = Nobody \/ step'[t] = "merge"
                           \/ (lock'[t] = lock[t] /\ step'[t] = step[t])
  PROVE  ReplayInv'
<1>1. \A o \in Ids : (Kept(o)' <=> Kept(o)) /\ (Landed(o)' <=> Landed(o))
  BY DEF Kept, Landed
<1>2. \A o \in Ids : IsRow(o) /\ o.off <= committed'[o.part] => Landed(o)
  BY AcknowledgedLanded
<1>3. \A t \in Tables : last'[t] \subseteq last[t] /\ pending'[t] \subseteq last'[t]
  BY DEF ReplayInv, ReplayOffsetInv
<1>4. \A t \in Tables : pending'[t] # {} => lock'[t] # Nobody /\ step'[t] = "commit"
  BY DEF ReplayInv, ReplayOffsetInv
<1>5. ReplayBufferInv' /\ FlushInv'
  BY DEF ReplayInv, ReplayBufferInv, FlushInv
<1> QED
  BY <1>1, <1>2, <1>3, <1>4, <1>5, ReplayFrame

-----------------------------------------------------------------------------
\* The reader goes back to the offsets the broker holds: the destination is complete up
\* to them.
LEMMA RebalanceStep ==
  ASSUME ReplayInv, NEW c \in Topics, Rebalance(c)
  PROVE  ReplayInv'
<1>1. /\ UNCHANGED <<committed, inflight, cpc, ppc, known, rows, last, recent, worker, lock,
                     step, pending, dest, crashes>>
      /\ position' = [p \in Parts |-> IF TopicOf[p] = c THEN committed[p] + 1 ELSE position[p]]
  BY DEF Rebalance, memoryVars, flushVars, ResumePosition
<1>2. TypeOK'
  BY <1>1 DEF ReplayInv, TypeOK
<1>3. \A o \in Ids : (Kept(o)' <=> Kept(o)) /\ (Landed(o)' <=> Landed(o))
  BY <1>1 DEF Kept, Landed
<1>4. ASSUME NEW o \in Ids, IsRow(o), o.off < position'[o.part]
      PROVE  position'[o.part] = position[o.part] \/ Landed(o)
  <2>1. o.part \in Parts /\ o.off \in Nat /\ committed[o.part] \in Nat
    BY IdsType DEF ReplayInv, TypeOK
  <2>2. position'[o.part] = position[o.part] \/ o.off <= committed[o.part]
    BY <1>1, <1>4, <2>1
  <2> QED
    BY <1>4, <2>2, AcknowledgedLanded
<1>5. ReplayReaderInv'
  <2> SUFFICES ASSUME NEW d \in Topics, NEW m \in inflight[d]
               PROVE  \/ position'[m.part] = m.off + 1
                      \/ \A o \in Ids : IsRow(o) /\ o.part = m.part /\ o.off < position'[m.part] => Landed(o)
    BY <1>1, <1>3 DEF ReplayInv, ReplayReaderInv
  <2>1. CASE position'[m.part] = position[m.part]
    BY <2>1 DEF ReplayInv, ReplayReaderInv
  <2>2. CASE position'[m.part] # position[m.part]
    BY <1>4, <2>2
  <2> QED
    BY <2>1, <2>2
<1>6. ReplayBufferInv' /\ ReplayOffsetInv' /\ FlushInv'
  BY <1>1, <1>3 DEF ReplayInv, ReplayBufferInv, ReplayOffsetInv, FlushInv
<1>7. NothingDropped'
  <2> SUFFICES ASSUME NEW o \in Ids, IsRow(o), o.off < position'[o.part],
                      o \notin inflight[TopicOf[o.part]]
               PROVE  Kept(o)
    BY <1>1, <1>3 DEF NothingDropped, IsRow, Kept
  <2>1. CASE position'[o.part] = position[o.part]
    BY <2>1 DEF ReplayInv, NothingDropped, IsRow, Kept
  <2>2. CASE Landed(o)
    BY <2>2 DEF Landed, Kept
  <2> QED
    BY <1>4, <2>1, <2>2
<1>8. CommittedIsDurable'
  BY <1>1 DEF ReplayInv, CommittedIsDurable
<1> QED
  BY <1>2, <1>5, <1>6, <1>7, <1>8 DEF ReplayInv

\* kafkaConsumer.FetchMessage: what precedes the new message is kept.
LEMMA ReplayFetch ==
  ASSUME ReplayInv, TypeOK', NEW c \in Topics, NEW p \in Parts, FetchMessage(c, p)
  PROVE  ReplayInv'
<1> DEFINE n == [part |-> p, off |-> position[p]]
<1>1. UNCHANGED <<committed, rows, last, lock, step, pending, dest>>
  BY DEF FetchMessage, memoryVars, flushVars
<1>2. /\ inflight[c] = {} /\ TopicOf[p] = c /\ position[p] \in Nat \ {0}
      /\ inflight' = [inflight EXCEPT ![c] = {n}]
      /\ position' = [position EXCEPT ![p] = position[p] + 1]
      /\ cpc' = [cpc EXCEPT ![c] = "process"]
  BY DEF FetchMessage, ReplayInv, ReplayReaderInv, TypeOK
<1>3. \A o \in Ids : (Kept(o)' <=> Kept(o)) /\ (Landed(o)' <=> Landed(o))
  BY <1>1 DEF Kept, Landed
<1>4. \A o \in Ids : IsRow(o) /\ o.part = p /\ o.off < position[p] => Kept(o)
  BY <1>2 DEF ReplayInv, NothingDropped, IsRow, Kept
<1>5. ReplayReaderInv'
  <2> SUFFICES ASSUME NEW d \in Topics
               PROVE  /\ cpc'[d] # "process" => inflight'[d] = {}
                      /\ \A m, r \in inflight'[d] : m = r
                      /\ \A m \in inflight'[d] :
                           /\ TopicOf[m.part] = d
                           /\ \A o \in Ids : IsRow(o) /\ o.part = m.part /\ o.off < m.off => Kept(o)
                           /\ \/ position'[m.part] = m.off + 1
                              \/ \A o \in Ids : IsRow(o) /\ o.part = m.part
                                                /\ o.off < position'[m.part] => Landed(o)
    BY <1>3 DEF ReplayReaderInv
  <2>1. CASE d = c
    <3>1. cpc'[d] = "process" /\ inflight'[d] = {n} /\ position'[p] = position[p] + 1
      BY <1>2, <2>1 DEF ReplayInv, TypeOK
    <3>2. n.part = p /\ n.off = position[p]
      OBVIOUS
    <3> HIDE DEF n
    <3> QED
      BY <1>2, <1>4, <2>1, <3>1, <3>2
  <2>2. CASE d # c
    <3>1. cpc'[d] = cpc[d] /\ inflight'[d] = inflight[d]
      BY <1>2, <2>2 DEF ReplayInv, TypeOK
    <3>2. \A m \in inflight[d] : TopicOf[m.part] = d
      BY DEF ReplayInv, ReplayReaderInv
    <3>3. \A m \in inflight[d] : m.part \in Parts
      BY IdsType DEF ReplayInv, TypeOK
    <3>4. \A m \in inflight[d] : position'[m.part] = position[m.part]
      BY <1>2, <2>2, <3>2, <3>3 DEF ReplayInv, TypeOK
    <3> QED
      BY <3>1, <3>4 DEF ReplayInv, ReplayReaderInv
  <2> QED
    BY <2>1, <2>2
<1>6. ReplayBufferInv' /\ ReplayOffsetInv' /\ FlushInv'
  BY <1>1, <1>3 DEF ReplayInv, ReplayBufferInv, ReplayOffsetInv, FlushInv
<1>7. NothingDropped'
  <2> SUFFICES ASSUME NEW o \in Ids, IsRow(o), o.off < position'[o.part],
                      o \notin inflight'[TopicOf[o.part]]
               PROVE  Kept(o)
    BY <1>3 DEF NothingDropped, IsRow, Kept
  <2>1. o.part \in Parts /\ o.off \in Nat /\ o = [part |-> o.part, off |-> o.off]
        /\ TopicOf[o.part] \in Topics
    BY IdsType, PipelineAssumption
  <2>2. CASE o.part = p
    <3>1. o # n /\ o.off < position[p] + 1
      BY <1>2, <2>1, <2>2 DEF ReplayInv, TypeOK
    <3>2. o.off < position[p]
      BY <1>2, <2>1, <2>2, <3>1
    <3> QED
      BY <1>4, <2>2, <3>2
  <2>3. CASE o.part # p
    <3>1. position'[o.part] = position[o.part]
      BY <1>2, <2>1, <2>3 DEF ReplayInv, TypeOK
    <3>2. o \notin inflight[TopicOf[o.part]]
      BY <1>2, <2>1 DEF ReplayInv, TypeOK
    <3> QED
      BY <3>1, <3>2 DEF ReplayInv, NothingDropped, IsRow, Kept
  <2> QED
    BY <2>2, <2>3
<1>8. CommittedIsDurable'
  BY <1>1 DEF ReplayInv, CommittedIsDurable
<1> QED
  BY <1>5, <1>6, <1>7, <1>8 DEF ReplayInv

\* What a goroutine that is done with its message leaves of ReplayReaderInv.
LEMMA ReplayDone ==
  ASSUME ReplayInv, NEW c \in Topics, UNCHANGED <<position, dest>>,
         inflight' = [inflight EXCEPT ![c] = {}],
         \E w \in {"fetch", "flush"} : cpc' = [cpc EXCEPT ![c] = w],
         \A o \in Ids : IsRow(o) /\ Kept(o) /\ TopicOf[o.part] # c => Kept(o)'
  PROVE  ReplayReaderInv'
<1>1. ASSUME NEW d \in Topics
      PROVE  /\ d = c => inflight'[d] = {}
             /\ d # c => inflight'[d] = inflight[d] /\ cpc'[d] = cpc[d]
  BY DEF ReplayInv, TypeOK
<1>2. \A o \in Ids : Landed(o)' <=> Landed(o)
  BY DEF Landed
<1> SUFFICES ASSUME NEW d \in Topics, d # c, NEW m \in inflight[d]
             PROVE  /\ TopicOf[m.part] = d
                    /\ \A o \in Ids : IsRow(o) /\ o.part = m.part /\ o.off < m.off => Kept(o)'
                    /\ \/ position[m.part] = m.off + 1
                       \/ \A o \in Ids : IsRow(o) /\ o.part = m.part
                                         /\ o.off < position[m.part] => Landed(o)'
  BY <1>1 DEF ReplayInv, ReplayReaderInv
<1>3. /\ TopicOf[m.part] = d
      /\ \A o \in Ids : IsRow(o) /\ o.part = m.part /\ o.off < m.off => Kept(o)
      /\ \/ position[m.part] = m.off + 1
         \/ \A o \in Ids : IsRow(o) /\ o.part = m.part /\ o.off < position[m.part] => Landed(o)
  BY DEF ReplayInv, ReplayReaderInv
<1> QED
  BY <1>2, <1>3

\* Passing over a message loses nothing: it is no row change.
LEMMA ReplaySkip ==
  ASSUME ReplayInv, TypeOK', NEW c \in Topics, SkipMessage(c)
  PROVE  ReplayInv'
<1>1. /\ UNCHANGED <<committed, position, rows, last, lock, step, pending, dest>>
      /\ inflight' = [inflight EXCEPT ![c] = {}]
      /\ cpc' = [cpc EXCEPT ![c] = "fetch"]
  BY DEF SkipMessage, memoryVars, flushVars
<1>2. \A m \in inflight[c] : ~IsRow(m)
  BY DEF SkipMessage, IsRow
<1>3. \A o \in Ids : Kept(o)' <=> Kept(o)
  BY <1>1 DEF Kept
<1>4. ReplayReaderInv'
  BY <1>1, <1>3, ReplayDone
<1>5. ReplayBufferInv' /\ ReplayOffsetInv' /\ FlushInv'
  BY <1>1, <1>3 DEF ReplayInv, ReplayBufferInv, ReplayOffsetInv, FlushInv
<1>6. NothingDropped'
  <2> SUFFICES ASSUME NEW o \in Ids, IsRow(o), o.off < position[o.part],
                      o \notin inflight'[TopicOf[o.part]]
               PROVE  Kept(o)
    BY <1>1, <1>3 DEF NothingDropped, IsRow, Kept
  <2>1. TopicOf[o.part] \in Topics
    BY IdsType, PipelineAssumption
  <2>2. o \notin inflight[TopicOf[o.part]]
    BY <1>1, <1>2, <2>1 DEF ReplayInv, TypeOK
  <2> QED
    BY <2>2 DEF ReplayInv, NothingDropped, IsRow, Kept
<1>7. CommittedIsDurable'
  BY <1>1 DEF ReplayInv, CommittedIsDurable
<1> QED
  BY <1>4, <1>5, <1>6, <1>7 DEF ReplayInv

\* InsertRow loses what the replaced row stood for only beyond the saved message.
LEMMA SaveKeeps ==
  ASSUME KeyInOnePartition, ReplayInv, UNCHANGED dest,
         NEW m \in Ids, rows' = [rows EXCEPT ![TableOf(m)] = InsertRow(rows[TableOf(m)], m)],
         NEW o \in Ids, o = m \/ Kept(o), o.part = m.part => o.off <= m.off
  PROVE  Kept(o)'
<1>1. TableOf(m) \in Tables /\ TableOf(o) \in Tables
  BY IdsType
<1>2. rows'[TableOf(m)] = {r \in rows[TableOf(m)] : ~SameKey(r, m)} \cup {m}
  BY <1>1 DEF InsertRow, ReplayInv, TypeOK
<1>3. TableOf(o) # TableOf(m) => rows'[TableOf(o)] = rows[TableOf(o)]
  BY <1>1 DEF ReplayInv, TypeOK
<1>4. CASE SameKey(m, o)
  <2>1. Covers(m, o) /\ TableOf(o) = TableOf(m)
    BY <1>4, SameKeyFacts, CoversFacts
  <2> QED
    BY <1>2, <2>1 DEF Kept
<1>5. CASE ~SameKey(m, o)
  <2>1. PICK r \in rows[TableOf(o)] \cup dest : Covers(r, o)
    BY <1>5, CoversReflexive DEF Kept
  <2>2. r \in Ids /\ SameKey(r, o)
    BY <1>1, <2>1 DEF ReplayInv, TypeOK, Covers
  <2>3. ~SameKey(r, m)
    BY <1>5, <2>2, SameKeyFacts, SameKeyTransitive
  <2>4. r \in rows'[TableOf(o)] \cup dest'
    BY <1>2, <1>3, <2>1, <2>3
  <2> QED
    BY <2>1, <2>4 DEF Kept
<1> QED
  BY <1>4, <1>5

\* Event.Save, of a new message or of a replayed one.
LEMMA ReplaySave ==
  ASSUME OneTablePerTopic, KeyInOnePartition, ReplayInv, TypeOK', NEW c \in Topics, Save(c)
  PROVE  ReplayInv'
<1>1. PICK m \in inflight[c], oversize \in BOOLEAN :
        LET t == TableOf(m)
            buffer == InsertRow(rows[t], m)
            flush == Cardinality(buffer) > BufferRows \/ oversize
        IN  /\ Msg(m).kind = "row"
            /\ lock[t] = Nobody
            /\ rows' = [rows EXCEPT ![t] = buffer]
            /\ last' = [last EXCEPT ![t] = LastMessages(@, m)]
            /\ cpc' = [cpc EXCEPT ![c] = IF flush THEN "flush" ELSE "fetch"]
  BY DEF Save, Unlocked
<1> DEFINE T == TableOf(m)
<1>2. /\ UNCHANGED <<committed, position, lock, step, pending, dest>>
      /\ inflight' = [inflight EXCEPT ![c] = {}]
  BY DEF Save
<1>3. m \in Ids /\ T \in Tables /\ m.part \in Parts /\ m.off \in Nat \ {0} /\ IsRow(m)
  BY <1>1, IdsType DEF ReplayInv, TypeOK, IsRow
<1>4. /\ TopicOf[m.part] = c /\ inflight[c] = {m}
      /\ \A o \in Ids : IsRow(o) /\ o.part = m.part /\ o.off < m.off => Kept(o)
      /\ \/ position[m.part] = m.off + 1
         \/ \A o \in Ids : IsRow(o) /\ o.part = m.part /\ o.off < position[m.part] => Landed(o)
  BY DEF ReplayInv, ReplayReaderInv
<1>5. rows'[T] = {r \in rows[T] : ~SameKey(r, m)} \cup {m}
  BY <1>1, <1>3 DEF InsertRow, ReplayInv, TypeOK
<1>6. last'[T] = {r \in last[T] : PartNum[r.part] # PartNum[m.part]} \cup {m}
  BY <1>1, <1>3 DEF LastMessages, ReplayInv, TypeOK
<1>7. \A t \in Tables : t # T => rows'[t] = rows[t] /\ last'[t] = last[t]
  BY <1>1, <1>3 DEF ReplayInv, TypeOK
<1>8. \A o \in Ids : Kept(o) /\ o.part # m.part => Kept(o)'
  BY <1>1, <1>2, <1>3, SaveKeeps
<1>9. ASSUME NEW o \in Ids, IsRow(o), o.part = m.part, o.off <= m.off
      PROVE  Kept(o)'
  <2>1. o.off \in Nat /\ (o.off = m.off => o = m)
    BY <1>3, <1>9, IdsType
  <2>2. o = m \/ Kept(o)
    BY <1>3, <1>4, <1>9, <2>1
  <2> QED
    BY <1>1, <1>2, <1>3, <1>9, <2>2, SaveKeeps
<1>10. ReplayReaderInv'
  <2>1. \A o \in Ids : IsRow(o) /\ Kept(o) /\ TopicOf[o.part] # c => Kept(o)'
    BY <1>4, <1>8
  <2> QED
    BY <1>1, <1>2, <2>1, ReplayDone
<1>11. ReplayBufferInv'
  <2>1. ASSUME NEW t \in Tables, NEW r \in rows'[t]
        PROVE  IsRow(r) /\ TableOf(r) = t
    BY <1>3, <1>5, <1>7 DEF ReplayInv, ReplayBufferInv
  <2> QED
    BY <1>2, <2>1 DEF ReplayInv, ReplayBufferInv
<1>12. ReplayOffsetInv'
  <2>1. ASSUME NEW t \in Tables
        PROVE  pending'[t] \subseteq last'[t] /\ (pending'[t] # {} => lock'[t] # Nobody /\ step'[t] = "commit")
    BY <1>1, <1>2, <1>7 DEF ReplayInv, ReplayOffsetInv
  <2>2. ASSUME NEW t \in Tables, NEW r \in last'[t]
        PROVE  /\ TableOf(r) = t
               /\ \A o \in Ids : IsRow(o) /\ o.part = r.part /\ o.off <= r.off => Kept(o)'
    <3>1. CASE t = T /\ r = m
      BY <1>9, <3>1
    <3>2. CASE ~(t = T /\ r = m)
      <4>1. r \in last[t] /\ (t = T => r.part # m.part) /\ r \in Ids
        BY <1>6, <1>7, <3>2 DEF ReplayInv, TypeOK
      <4>2. /\ TableOf(r) = t
            /\ \A o \in Ids : IsRow(o) /\ o.part = r.part /\ o.off <= r.off => Kept(o)
        BY <4>1 DEF ReplayInv, ReplayOffsetInv
      <4>3. r.part # m.part
        BY <1>3, <4>1, <4>2 DEF OneTablePerTopic
      <4> QED
        BY <1>8, <4>2, <4>3
    <3> QED
      BY <3>1, <3>2
  <2> QED
    BY <2>1, <2>2 DEF ReplayOffsetInv
<1>13. FlushInv'
  BY <1>1, <1>2, <1>7 DEF ReplayInv, FlushInv
<1>14. NothingDropped'
  <2> SUFFICES ASSUME NEW o \in Ids, IsRow(o), o.off < position[o.part],
                      o \notin inflight'[TopicOf[o.part]]
               PROVE  Kept(o)'
    BY <1>2 DEF NothingDropped, IsRow, Kept
  <2>1. o.part \in Parts /\ o.off \in Nat /\ TopicOf[o.part] \in Topics
    BY IdsType, PipelineAssumption
  <2>2. CASE o.part # m.part
    <3>1. o \notin inflight[TopicOf[o.part]]
      BY <1>2, <1>4, <2>1, <2>2 DEF ReplayInv, TypeOK
    <3>2. Kept(o)
      BY <3>1 DEF ReplayInv, NothingDropped, IsRow, Kept
    <3> QED
      BY <1>8, <2>2, <3>2
  <2>3. CASE o.part = m.part /\ position[m.part] = m.off + 1
    BY <1>3, <1>9, <2>1, <2>3
  <2>4. CASE o.part = m.part /\ position[m.part] # m.off + 1
    BY <1>2, <1>4, <2>4 DEF Landed, Kept
  <2> QED
    BY <2>2, <2>3, <2>4
<1>15. CommittedIsDurable'
  BY <1>2 DEF ReplayInv, CommittedIsDurable
<1> QED
  BY <1>10, <1>11, <1>12, <1>13, <1>14, <1>15 DEF ReplayInv

-----------------------------------------------------------------------------
\* A merge of part of a buffer, whether it reports success or not.
LEMMA MergedFacts ==
  ASSUME KeyInOnePartition, ReplayIsHarmless, ReplayInv, UNCHANGED rows,
         NEW t \in Tables, NEW R \in SUBSET rows[t], dest' = Merged(R)
  PROVE  /\ \A o \in Ids : Landed(o) => Landed(o)'
         /\ \A o \in Ids : Kept(o) => Kept(o)'
         /\ ReplayBufferInv'
<1>1. \A o \in Ids : Landed(o) => Landed(o)'
  BY ReplayMergeKeeps DEF Landed
<1>2. \A o \in Ids : Kept(o) => Kept(o)'
  BY <1>1 DEF Landed, Kept
<1>3. \A d \in dest' : d \in dest \/ d \in rows[t]
  BY DEF Merged
<1>4. ReplayBufferInv'
  BY <1>3 DEF ReplayInv, ReplayBufferInv
<1> QED
  BY <1>1, <1>2, <1>4

\* dest.Merge or dest.Append succeeded: the buffer is in the destination.
LEMMA ReplayMergeSucceeds ==
  ASSUME KeyInOnePartition, ReplayIsHarmless, ReplayInv, TypeOK',
         NEW t \in Tables, MergeSucceeds(t)
  PROVE  ReplayInv'
<1>1. /\ UNCHANGED <<committed, position, inflight, cpc, rows, last, lock>>
      /\ lock[t] # Nobody /\ step' = [step EXCEPT ![t] = "commit"]
      /\ dest' = Merged(rows[t]) /\ pending' = [pending EXCEPT ![t] = last[t]]
  BY DEF MergeSucceeds, consumerVars, memoryVars
<1>2. /\ \A o \in Ids : Landed(o) => Landed(o)'
      /\ \A o \in Ids : Kept(o) => Kept(o)'
      /\ ReplayBufferInv'
  BY <1>1, MergedFacts
<1>3. \A u \in Tables : /\ u # t => pending'[u] = pending[u] /\ step'[u] = step[u]
                        /\ u = t => pending'[u] = last[u] /\ step'[u] = "commit"
  BY <1>1 DEF ReplayInv, TypeOK
<1>4. FlushInv'
  <2> SUFFICES ASSUME NEW u \in Tables, lock[u] # Nobody, step'[u] = "commit", NEW r \in rows[u]
               PROVE  Landed(r)'
    BY <1>1 DEF FlushInv, Landed
  <2>1. CASE u = t
    BY <1>1, <2>1, ReplayMergeCovers DEF Landed
  <2>2. CASE u # t
    <3>1. r \in Ids /\ Landed(r)
      BY <1>3, <2>2 DEF ReplayInv, TypeOK, FlushInv, Landed
    <3> QED
      BY <1>2, <3>1
  <2> QED
    BY <2>1, <2>2
<1>5. \A u \in Tables : /\ last'[u] \subseteq last[u] /\ pending'[u] \subseteq last'[u]
                        /\ pending'[u] # {} => lock'[u] # Nobody /\ step'[u] = "commit"
  BY <1>1, <1>3 DEF ReplayInv, ReplayOffsetInv
<1>6. \A o \in Ids : IsRow(o) /\ o.off <= committed'[o.part] => Landed(o)
  BY <1>1, AcknowledgedLanded
<1> QED
  BY <1>1, <1>2, <1>4, <1>5, <1>6, ReplayFrame

\* It failed after writing nothing, part of an append or the whole merge.
LEMMA ReplayMergeFails ==
  ASSUME KeyInOnePartition, ReplayIsHarmless, ReplayInv, TypeOK',
         NEW t \in Tables, MergeFails(t)
  PROVE  ReplayInv'
<1>1. /\ UNCHANGED <<committed, position, inflight, cpc, rows, last, step, pending>>
      /\ lock[t] # Nobody /\ step[t] = "merge" /\ lock' = [lock EXCEPT ![t] = Nobody]
  BY DEF MergeFails, Release, consumerVars, memoryVars
<1>2. PICK R \in SUBSET rows[t] : dest' = Merged(R)
  BY DEF MergeFails, WrittenOnError
<1>3. /\ \A o \in Ids : Landed(o) => Landed(o)'
      /\ \A o \in Ids : Kept(o) => Kept(o)'
      /\ ReplayBufferInv'
  BY <1>1, <1>2, MergedFacts
<1>4. \A u \in Tables : lock'[u] = IF u = t THEN Nobody ELSE lock[u]
  BY <1>1 DEF ReplayInv, TypeOK
<1>5. FlushInv'
  <2> SUFFICES ASSUME NEW u \in Tables, lock'[u] # Nobody, step[u] = "commit", NEW r \in rows[u]
               PROVE  Landed(r)'
    BY <1>1 DEF FlushInv, Landed
  <2>1. r \in Ids /\ Landed(r)
    BY <1>4 DEF ReplayInv, TypeOK, FlushInv, Landed
  <2> QED
    BY <1>3, <2>1
<1>6. \A u \in Tables : /\ last'[u] \subseteq last[u] /\ pending'[u] \subseteq last'[u]
                        /\ pending'[u] # {} => lock'[u] # Nobody /\ step'[u] = "commit"
  BY <1>1, <1>4 DEF ReplayInv, ReplayOffsetInv
<1>7. \A o \in Ids : IsRow(o) /\ o.off <= committed'[o.part] => Landed(o)
  BY <1>1, AcknowledgedLanded
<1> QED
  BY <1>1, <1>3, <1>5, <1>6, <1>7, ReplayFrame

\* While a table's offsets are committed, everything that is kept for it has landed.
LEMMA CommitLanded ==
  ASSUME ReplayInv, NEW t \in Tables, lock[t] # Nobody, step[t] = "commit",
         NEW o \in Ids, TableOf(o) = t, Kept(o)
  PROVE  Landed(o)
<1>1. PICK r \in rows[t] \cup dest : Covers(r, o)
  BY DEF Kept
<1>2. CASE r \in dest
  BY <1>1, <1>2 DEF Landed
<1>3. CASE r \in rows[t]
  <2>1. PICK d \in dest : Covers(d, r)
    BY <1>3 DEF ReplayInv, FlushInv
  <2>2. d \in Ids /\ r \in Ids
    BY <1>3 DEF ReplayInv, TypeOK
  <2>3. Covers(d, o)
    BY <1>1, <2>1, <2>2, CoversTransitive
  <2> QED
    BY <2>3 DEF Landed
<1> QED
  BY <1>2, <1>3

\* Whatever offset the broker takes, ahead of or behind the one it had, the destination
\* is complete up to it.
LEMMA CommittedLanded ==
  ASSUME OneTablePerTopic, ReplayInv, NEW t \in Tables, lock[t] # Nobody, step[t] = "commit",
         NEW m \in pending[t], committed' = CommittedAfter(m),
         NEW o \in Ids, IsRow(o), o.off <= committed'[o.part]
  PROVE  Landed(o)
<1>1. m \in Ids /\ m \in last[t] /\ TableOf(m) = t /\ m.part \in Parts /\ o.part \in Parts
  BY IdsType DEF ReplayInv, TypeOK, ReplayOffsetInv
<1>2. committed'[o.part] = IF o.part = m.part THEN m.off ELSE committed[o.part]
  BY <1>1 DEF CommittedAfter, ReplayInv, TypeOK
<1>3. CASE o.part # m.part
  BY <1>2, <1>3, AcknowledgedLanded
<1>4. CASE o.part = m.part
  <2>1. Kept(o)
    BY <1>1, <1>2, <1>4 DEF ReplayInv, ReplayOffsetInv
  <2>2. TableOf(o) = t
    BY <1>1, <1>4 DEF OneTablePerTopic
  <2> QED
    BY <2>1, <2>2, CommitLanded
<1> QED
  BY <1>3, <1>4

\* CommitMessages of one message of the iteration, successful or not.
LEMMA ReplayCommit ==
  ASSUME OneTablePerTopic, ReplayInv, TypeOK', NEW t \in Tables, NEW m \in pending[t],
         CommitMessage(t, m) \/ CommitFails(t, m)
  PROVE  ReplayInv'
<1>1. /\ UNCHANGED <<position, inflight, cpc, rows, last, step, dest>>
      /\ lock[t] # Nobody /\ step[t] = "commit"
      /\ committed' = CommittedAfter(m) \/ UNCHANGED committed
      /\ \/ pending' = [pending EXCEPT ![t] = @ \ {m}] /\ UNCHANGED lock
         \/ pending' = [pending EXCEPT ![t] = {}] /\ lock' = [lock EXCEPT ![t] = Nobody]
  BY DEF CommitMessage, CommitFails, Release, consumerVars, memoryVars
<1>2. \A o \in Ids : (Kept(o)' <=> Kept(o)) /\ (Landed(o)' <=> Landed(o))
  BY <1>1 DEF Kept, Landed
<1>3. \A o \in Ids : IsRow(o) /\ o.off <= committed'[o.part] => Landed(o)
  BY <1>1, CommittedLanded, AcknowledgedLanded
<1>4. ASSUME NEW u \in Tables
      PROVE  /\ pending'[u] \subseteq pending[u]
             /\ lock'[u] = lock[u] \/ (lock'[u] = Nobody /\ pending'[u] = {})
  <2>1. pending \in [Tables -> SUBSET Ids] /\ lock \in [Tables -> Callers \cup {Nobody}]
    BY DEF ReplayInv, TypeOK
  <2>2. CASE pending' = [pending EXCEPT ![t] = @ \ {m}] /\ UNCHANGED lock
    BY <2>1, <2>2
  <2>3. CASE pending' = [pending EXCEPT ![t] = {}] /\ lock' = [lock EXCEPT ![t] = Nobody]
    BY <2>1, <2>3
  <2> QED
    BY <1>1, <2>2, <2>3
<1>5. \A u \in Tables : /\ last'[u] \subseteq last[u] /\ pending'[u] \subseteq last'[u]
                        /\ pending'[u] # {} => lock'[u] # Nobody /\ step'[u] = "commit"
  BY <1>1, <1>4 DEF ReplayInv, ReplayOffsetInv
<1>6. ReplayBufferInv' /\ FlushInv'
  BY <1>1, <1>4 DEF ReplayInv, ReplayBufferInv, FlushInv
<1> QED
  BY <1>1, <1>2, <1>3, <1>5, <1>6, ReplayFrame

\* Wipe takes only what the destination covers.
LEMMA ReplayClear ==
  ASSUME ReplayInv, TypeOK', NEW t \in Tables, ClearTableConfig(t)
  PROVE  ReplayInv'
<1>1. /\ UNCHANGED <<committed, position, inflight, cpc, step, pending, dest>>
      /\ lock[t] # Nobody /\ step[t] = "commit" /\ pending[t] = {}
      /\ rows' = [rows EXCEPT ![t] = {}] /\ last' = [last EXCEPT ![t] = {}]
      /\ lock' = [lock EXCEPT ![t] = Nobody]
  BY DEF ClearTableConfig, Release, Wiped, consumerVars
<1>2. \A u \in Tables : /\ u # t => rows'[u] = rows[u] /\ last'[u] = last[u] /\ lock'[u] = lock[u]
                        /\ u = t => rows'[u] = {} /\ last'[u] = {} /\ lock'[u] = Nobody
  BY <1>1 DEF ReplayInv, TypeOK
<1>3. \A o \in Ids : Landed(o) => Landed(o)'
  BY <1>1 DEF Landed
<1>4. ASSUME NEW o \in Ids, Kept(o)
      PROVE  Kept(o)'
  <2>1. CASE TableOf(o) = t
    <3>1. Landed(o)
      BY <1>1, <1>4, <2>1, CommitLanded
    <3> QED
      BY <1>1, <3>1 DEF Landed, Kept
  <2>2. CASE TableOf(o) # t
    <3>1. rows'[TableOf(o)] = rows[TableOf(o)]
      BY <1>2, <2>2, IdsType
    <3> QED
      BY <1>1, <1>4, <3>1 DEF Kept
  <2> QED
    BY <2>1, <2>2
<1>5. \A u \in Tables : /\ last'[u] \subseteq last[u] /\ pending'[u] \subseteq last'[u]
                        /\ pending'[u] # {} => lock'[u] # Nobody /\ step'[u] = "commit"
  BY <1>1, <1>2 DEF ReplayInv, ReplayOffsetInv
<1>6. ReplayBufferInv' /\ FlushInv'
  BY <1>1, <1>2 DEF ReplayInv, ReplayBufferInv, FlushInv
<1>7. \A o \in Ids : IsRow(o) /\ o.off <= committed'[o.part] => Landed(o)
  BY <1>1, AcknowledgedLanded
<1> QED
  BY <1>1, <1>3, <1>4, <1>5, <1>6, <1>7, ReplayFrame

\* The buffers are lost, but the new process starts right after what has landed.
LEMMA ReplayCrash ==
  ASSUME ReplayInv, TypeOK', Crash
  PROVE  ReplayInv'
<1>1. /\ UNCHANGED <<committed, dest>>
      /\ position' = [p \in Parts |-> committed[p] + 1]
      /\ inflight' = [c \in Topics |-> {}]
      /\ cpc' = [c \in Topics |-> "fetch"]
      /\ rows' = [t \in Tables |-> {}]
      /\ last' = [t \in Tables |-> {}]
      /\ lock' = [t \in Tables |-> Nobody]
      /\ pending' = [t \in Tables |-> {}]
  BY DEF Crash, FreshProcess, ResumePosition
<1>2. ReplayReaderInv' /\ ReplayOffsetInv' /\ FlushInv'
  BY <1>1 DEF ReplayReaderInv, ReplayOffsetInv, FlushInv
<1>3. ReplayBufferInv'
  BY <1>1 DEF ReplayInv, ReplayBufferInv
<1>4. CommittedIsDurable'
  BY <1>1 DEF ReplayInv, CommittedIsDurable
<1>5. NothingDropped'
  <2> SUFFICES ASSUME NEW o \in Ids, IsRow(o), o.off < position'[o.part]
               PROVE  \E d \in dest' : Covers(d, o)
    BY DEF NothingDropped, IsRow
  <2>1. o.part \in Parts /\ o.off \in Nat /\ committed[o.part] \in Nat
    BY IdsType DEF ReplayInv, TypeOK
  <2>2. o.off <= committed[o.part]
    BY <1>1, <2>1
  <2> QED
    BY <1>1, <2>2, AcknowledgedLanded DEF Landed
<1> QED
  BY <1>2, <1>3, <1>4, <1>5 DEF ReplayInv

\* The steps that neither read, write nor acknowledge anything.
LEMMA ReplayQuietSteps ==
  ASSUME ReplayInv, TypeOK',
         \/ PoolTick
         \/ \E t \in Tables : CheckCooldown(t) \/ CooldownElapses(t)
         \/ \E f \in Callers, t \in Tables : LockTable(f, t)
         \/ \E f \in Callers : FlushReturns(f)
         \/ UNCHANGED vars
  PROVE  ReplayInv'
<1>1. ASSUME \/ PoolTick
             \/ \E t \in Tables : CheckCooldown(t) \/ CooldownElapses(t)
             \/ UNCHANGED vars
      PROVE  UNCHANGED <<position, inflight, cpc, committed, rows, last, dest, lock, step, pending>>
  BY <1>1 DEF PoolTick, CheckCooldown, CooldownElapses, vars, consumerVars, memoryVars, flushVars
<1>2. ASSUME NEW f \in Callers, NEW t \in Tables, LockTable(f, t)
      PROVE  ReplayInv'
  <2>1. /\ UNCHANGED <<position, inflight, cpc, committed, rows, last, dest, pending>>
        /\ lock[t] = Nobody
        /\ \/ UNCHANGED <<lock, step>>
           \/ lock' = [lock EXCEPT ![t] = f] /\ step' = [step EXCEPT ![t] = "merge"]
    BY <1>2 DEF LockTable, Unlocked, consumerVars, memoryVars
  <2>2. \A u \in Tables : \/ lock'[u] = lock[u] /\ step'[u] = step[u]
                          \/ u = t /\ step'[u] = "merge"
    BY <2>1 DEF ReplayInv, TypeOK
  <2>3. pending[t] = {}
    BY <2>1 DEF ReplayInv, ReplayOffsetInv
  <2> QED
    BY <2>1, <2>2, <2>3, ReplayQuiet
<1>3. ASSUME NEW f \in Callers, FlushReturns(f)
      PROVE  ReplayInv'
  <2>1. /\ UNCHANGED <<position, inflight, committed, rows, last, dest, lock, step, pending>>
        /\ \/ UNCHANGED cpc
           \/ cpc[f] = "flush" /\ cpc' = [cpc EXCEPT ![f] = "fetch"]
    BY <1>3 DEF FlushReturns, memoryVars
  <2>2. \A c \in Topics : cpc'[c] # "process" => cpc[c] # "process"
    BY <2>1 DEF ReplayInv, TypeOK
  <2> QED
    BY <2>1, <2>2, ReplayQuiet
<1> QED
  BY <1>1, <1>2, <1>3, ReplayQuiet

-----------------------------------------------------------------------------
\* Under the hypotheses the inductive invariant of replays always holds, whatever is
\* delivered again and again.
THEOREM ReplayInvariance ==
  ASSUME OneTablePerTopic, KeyInOnePartition, ReplayIsHarmless
  PROVE  RebalanceSpec => []ReplayInv
<1>1. RebalanceInit => ReplayInv
  <2> SUFFICES ASSUME Init
               PROVE  ReplayInv
    BY DEF RebalanceInit
  <2>1. TypeOK
    BY PipelineAssumption DEF Init, TypeOK, NoWorkers
  <2>2. ReplayReaderInv /\ ReplayBufferInv /\ ReplayOffsetInv /\ FlushInv
    BY DEF Init, ReplayReaderInv, ReplayBufferInv, ReplayOffsetInv, FlushInv
  <2>3. ASSUME NEW m \in Ids
        PROVE  ~(m.off < position[m.part]) /\ ~(m.off <= committed[m.part])
    BY IdsType DEF Init
  <2> QED
    BY <2>1, <2>2, <2>3 DEF ReplayInv, NothingDropped, CommittedIsDurable
<1>2. ReplayInv /\ [RebalanceNext]_rebalanceVars => ReplayInv'
  <2> SUFFICES ASSUME ReplayInv, [RebalanceNext]_rebalanceVars
               PROVE  ReplayInv'
    OBVIOUS
  <2>1. CASE \E c \in Topics : Rebalance(c)
    BY <2>1, RebalanceStep
  <2>2. CASE [Next]_vars
    <3>1. TypeOK'
      BY <2>2, TypeStep DEF ReplayInv
    <3>2. ASSUME NEW c \in Topics, (\E p \in Parts : FetchMessage(c, p)) \/ SkipMessage(c) \/ Save(c)
          PROVE  ReplayInv'
      BY <3>1, <3>2, ReplayFetch, ReplaySkip, ReplaySave
    <3>3. ASSUME NEW t \in Tables,
                 \/ MergeSucceeds(t) \/ MergeFails(t) \/ ClearTableConfig(t)
                 \/ \E m \in pending[t] : CommitMessage(t, m) \/ CommitFails(t, m)
          PROVE  ReplayInv'
      BY <3>1, <3>3, ReplayMergeSucceeds, ReplayMergeFails, ReplayClear, ReplayCommit
    <3> QED
      BY <2>2, <3>1, <3>2, <3>3, ReplayCrash, ReplayQuietSteps DEF Next
  <2> QED
    BY <2>1, <2>2 DEF RebalanceNext, rebalanceVars
<1> QED
  BY <1>1, <1>2, PTL DEF RebalanceSpec

\* kafka.go, flush.go and merge.go, with a reader whose group rebalances as often as it
\* likes: no acknowledged change is missing from the destination, although committed
\* offsets may go back and older versions are merged again.
THEOREM ReplayDurable ==
  ASSUME OneTablePerTopic, KeyInOnePartition, ReplayIsHarmless
  PROVE  RebalanceSpec => []CommittedIsDurable
<1>1. ReplayInv => CommittedIsDurable
  BY DEF ReplayInv
<1> QED
  BY <1>1, ReplayInvariance, PTL

\* Event.Save and Wipe under the same rebalances: every row change before the reader's
\* offset is buffered, in flight or written.
THEOREM ReplayDropsNothing ==
  ASSUME OneTablePerTopic, KeyInOnePartition, ReplayIsHarmless
  PROVE  RebalanceSpec => []NothingDropped
<1>1. ReplayInv => NothingDropped
  BY DEF ReplayInv
<1> QED
  BY <1>1, ReplayInvariance, PTL

=============================================================================
