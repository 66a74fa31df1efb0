------------------------------- MODULE PubSub -------------------------------
(***************************************************************************)
(* The Pub/Sub subscriber (processes/consumer/pubsub.go) with the buffer   *)
(* and the flush it shares with the Kafka consumer, for one subscription   *)
(* that feeds one table.  Pub/Sub has no offsets: every message has to be  *)
(* acked by itself, so Save keeps all of them and commitOffset acks each.  *)
(*                                                                         *)
(* The client library hands out at most MaxOutstandingMessages messages    *)
(* that were neither acked nor nacked, runs the callbacks of one ordering  *)
(* key one after the other and those of different keys concurrently.  The  *)
(* service redelivers an unacked message, and every later message of its   *)
(* ordering key with it, under new ack identifiers.                        *)
(***************************************************************************)
EXTENDS Naturals, Sequences, FiniteSets, FiniteSetsExt

CONSTANTS
  Keys,        \* ordering keys; msg.Key(), so also the primary keys
  Length,      \* messages published per ordering key
  Skipped,     \* messages process() passes over or rejects
  BufferRows,  \* cfg.BufferRows
  Pool,        \* the goroutine of StartPool
  Nobody,      \* an unlocked mutex
  MaxFaults    \* bound on crashes, lost acks and leases that run out before a flush

Messages == [key: Keys, off: 1..Length]

ASSUME PubSubAssumption ==
  /\ Length \in Nat
  /\ Skipped \subseteq Messages
  /\ BufferRows \in Nat
  /\ Pool \notin Keys
  /\ Nobody \notin Keys \cup {Pool}
  /\ MaxFaults \in Nat

\* One delivery of a message; the attempt stands for the ack identifier.
Copies == [key: Keys, off: 1..Length, attempt: Nat]
MessageOf(c) == [key |-> c.key, off |-> c.off]

\* sub.ReceiveSettings.MaxOutstandingMessages
Slots == BufferRows + 1

-----------------------------------------------------------------------------
VARIABLES
  next,         \* service: per key, offset of the next message to deliver
  attempt,      \* service: per key, which delivery of its messages is current
  acked,        \* service: acked messages
  outstanding,  \* library: delivered copies neither acked nor nacked
  queue,        \* library: per key, copies whose callback has not returned
  cpc,          \* per key, where its callback is: "idle", "process", "flush"
  ppc,          \* where the pool's goroutine is: "idle", "flush"
  buffer,       \* per key, offset of the buffered row; 0 when there is none
  kept,         \* PartitionsToLastMessage["no_partition"]
  lock,         \* who holds the table's mutex for a flush
  step,         \* what the holder does next: "merge" or "commit"
  dest,         \* per key, the version the destination holds; 0 when none
  faults

serviceVars == <<next, attempt, acked>>
libraryVars == <<outstanding, queue>>
memoryVars == <<buffer, kept>>
flushVars == <<lock, step>>
vars == <<serviceVars, libraryVars, cpc, ppc, memoryVars, flushVars, dest, faults>>

EmptyBuffer == [k \in Keys |-> 0]

Init ==
  /\ next = [k \in Keys |-> 1]
  /\ attempt = [k \in Keys |-> 0]
  /\ acked = {}
  /\ outstanding = {}
  /\ queue = [k \in Keys |-> << >>]
  /\ cpc = [k \in Keys |-> "idle"]
  /\ ppc = "idle"
  /\ buffer = EmptyBuffer
  /\ kept = {}
  /\ lock = Nobody
  /\ step = "merge"
  /\ dest = EmptyBuffer
  /\ faults = 0

-----------------------------------------------------------------------------
\* Faulty variants of Kept: the rule for Kafka, where the newest message is enough; the
\* message without its handle.
KeptNewest(msgs, c) == {c}
KeptWithoutAttempt(msgs, c) == msgs \cup {MessageOf(c)}

\* Save: "GCP pub/sub REQUIRES us to ack every single message".
Kept(msgs, c) == msgs \cup {c}

\* The service ignores an ack whose identifier a redelivery has replaced.
Acked(copies) == acked \cup {MessageOf(c) : c \in {d \in copies : d.attempt = attempt[d.key]}}

\* Messages of key k from offset i on are to be delivered again.
From(k, i) == {m \in Messages : m.key = k /\ m.off >= i}

\* The library gets a message: it takes a slot and waits for its key's callback.
Deliver(k) ==
  LET c == [key |-> k, off |-> next[k], attempt |-> attempt[k]]
  IN  /\ next[k] <= Length
      /\ Cardinality(outstanding) < Slots
      /\ next' = [next EXCEPT ![k] = @ + 1]
      /\ outstanding' = outstanding \cup {c}
      /\ queue' = [queue EXCEPT ![k] = Append(@, c)]
      /\ UNCHANGED <<attempt, acked, cpc, ppc, memoryVars, flushVars, dest, faults>>

\* The callback starts with the oldest message of its key.
StartCallback(k) ==
  /\ cpc[k] = "idle"
  /\ queue[k] # << >>
  /\ cpc' = [cpc EXCEPT ![k] = "process"]
  /\ UNCHANGED <<serviceVars, libraryVars, ppc, memoryVars, flushVars, dest, faults>>

\* process() returns without a row, or with an error that is logged: the callback
\* returns and the message is neither acked nor nacked.
SkipMessage(k) ==
  /\ cpc[k] = "process"
  /\ MessageOf(Head(queue[k])) \in Skipped
  /\ queue' = [queue EXCEPT ![k] = Tail(@)]
  /\ cpc' = [cpc EXCEPT ![k] = "idle"]
  /\ UNCHANGED <<serviceVars, outstanding, ppc, memoryVars, flushVars, dest, faults>>

\* Event.Save under the table's mutex; then process() calls Flush when ShouldFlush
\* says so, by row count or by approxSize, which is left open.
Save(k) ==
  /\ cpc[k] = "process"
  /\ lock = Nobody
  /\ LET c == Head(queue[k])
     IN  /\ MessageOf(c) \notin Skipped
         /\ buffer' = [buffer EXCEPT ![k] = c.off]
         /\ kept' = Kept(kept, c)
  /\ \E oversize \in BOOLEAN :
       IF Cardinality({r \in Keys : buffer'[r] # 0}) > BufferRows \/ oversize
       THEN /\ cpc' = [cpc EXCEPT ![k] = "flush"]
            /\ UNCHANGED queue
       ELSE /\ cpc' = [cpc EXCEPT ![k] = "idle"]
            /\ queue' = [queue EXCEPT ![k] = Tail(@)]
  /\ UNCHANGED <<serviceVars, outstanding, ppc, flushVars, dest, faults>>

\* The ticker of StartPool fires and the table is not in its cooldown.
PoolTick ==
  /\ ppc = "idle"
  /\ ppc' = "flush"
  /\ UNCHANGED <<serviceVars, libraryVars, cpc, memoryVars, flushVars, dest, faults>>

Flushing(f) == IF f = Pool THEN ppc = "flush" ELSE cpc[f] = "flush"

\* Flush gives control back to its caller; a callback returns with it.
FlushReturns(f) ==
  IF f = Pool
  THEN /\ ppc' = "idle"
       /\ UNCHANGED <<cpc, queue>>
  ELSE /\ cpc' = [cpc EXCEPT ![f] = "idle"]
       /\ queue' = [queue EXCEPT ![f] = Tail(@)]
       /\ UNCHANGED ppc

\* Faulty variant of Empty: a buffer of one message is not worth a flush.
NearlyEmpty == Cardinality(kept) < 2

\* TableData.Empty
Empty == kept = {}

\* _tableData.Lock(), then either Empty() and out again, or on to the merge.
LockTable(f) ==
  /\ Flushing(f)
  /\ lock = Nobody
  /\ IF Empty
     THEN /\ FlushReturns(f)
          /\ UNCHANGED flushVars
     ELSE /\ lock' = f
          /\ step' = "merge"
          /\ UNCHANGED <<cpc, queue, ppc>>
  /\ UNCHANGED <<serviceVars, outstanding, memoryVars, dest, faults>>

\* The destination after the buffered rows were merged.
Merged == [k \in Keys |-> IF buffer[k] = 0 THEN dest[k] ELSE buffer[k]]

\* dest.Merge returns nil.
MergeSucceeds ==
  /\ lock # Nobody
  /\ step = "merge"
  /\ dest' = Merged
  /\ step' = "commit"
  /\ UNCHANGED <<serviceVars, libraryVars, cpc, ppc, memoryVars, lock, faults>>

\* Faulty variant of MergeFails: the error is logged and the messages are acked.
MergeFailsAndCommits ==
  /\ lock # Nobody
  /\ step = "merge"
  /\ dest' \in {dest, Merged}
  /\ step' = "commit"
  /\ UNCHANGED <<serviceVars, libraryVars, cpc, ppc, memoryVars, lock, faults>>

\* It returns an error, with or without having written: nothing is acked or wiped.
MergeFails ==
  /\ lock # Nobody
  /\ step = "merge"
  /\ dest' \in {dest, Merged}
  /\ lock' = Nobody
  /\ FlushReturns(lock)
  /\ UNCHANGED <<serviceVars, outstanding, memoryVars, step, faults>>

\* commitOffset acks every kept message and ClearTableConfig wipes the table.  Ack
\* reports nothing: it frees the slot whether or not the service takes it.
CommitOffset ==
  /\ lock # Nobody
  /\ step = "commit"
  /\ \/ acked' = Acked(kept) /\ UNCHANGED faults
     \/ /\ faults < MaxFaults
        /\ faults' = faults + 1
        /\ \E taken \in SUBSET kept : acked' = Acked(taken)
  /\ outstanding' = outstanding \ kept
  /\ kept' = {}
  /\ buffer' = EmptyBuffer
  /\ lock' = Nobody
  /\ FlushReturns(lock)
  /\ UNCHANGED <<next, attempt, step, dest>>

-----------------------------------------------------------------------------
\* The service has delivered message m and is waiting for its ack.
Awaited(m) == m.off < next[m.key] /\ m \notin acked

\* The delivery of message m that the service is waiting for.
Current(m) == [key |-> m.key, off |-> m.off, attempt |-> attempt[m.key]]

\* The process no longer holds the awaited delivery: its ack was lost.
Forgotten(m) == Current(m) \notin outstanding

\* The process holds it and will never ack it: its callback returned without a row.
Abandoned(m) ==
  /\ Current(m) \in outstanding \ kept
  /\ \A i \in 1..Len(queue[m.key]) : queue[m.key][i] # Current(m)

\* The service also redelivers what follows m under its ordering key.
Redelivered(m) == acked \ From(m.key, m.off)

\* The lease of a delivered message runs out.  The library extends the lease of what it
\* holds for an hour, which a row waits for its flush only in an outage: a fault.  For
\* a message that nobody will ack it runs out for certain, and after every redelivery
\* again.  The slot of the old copy is not given back: only Ack and Nack do that.
LeaseExpires(m) ==
  /\ Awaited(m)
  /\ IF Forgotten(m) \/ Abandoned(m) THEN UNCHANGED faults
     ELSE faults < MaxFaults /\ faults' = faults + 1
  /\ acked' = Redelivered(m)
  /\ next' = [next EXCEPT ![m.key] = m.off]
  /\ attempt' = [attempt EXCEPT ![m.key] = @ + 1]
  /\ UNCHANGED <<libraryVars, cpc, ppc, memoryVars, flushVars, dest>>

\* Where the service resumes key k for a new process: its oldest unacked message.
FirstUnacked(k) == Min({next[k]} \cup {m.off : m \in {m \in Messages : m.key = k /\ m \notin acked}})

\* The process dies; a new one receives everything that is not acked.
Crash ==
  /\ faults < MaxFaults
  /\ faults' = faults + 1
  /\ next' = [k \in Keys |-> FirstUnacked(k)]
  /\ attempt' = [k \in Keys |-> attempt[k] + 1]
  /\ acked' = acked \ UNION {From(k, FirstUnacked(k)) : k \in Keys}
  /\ outstanding' = {}
  /\ queue' = [k \in Keys |-> << >>]
  /\ cpc' = [k \in Keys |-> "idle"]
  /\ ppc' = "idle"
  /\ buffer' = EmptyBuffer
  /\ kept' = {}
  /\ lock' = Nobody
  /\ step' = "merge"
  /\ UNCHANGED dest

Next ==
  \/ \E k \in Keys : Deliver(k) \/ StartCallback(k) \/ SkipMessage(k) \/ Save(k)
  \/ PoolTick
  \/ \E f \in Keys \cup {Pool} : LockTable(f)
  \/ MergeSucceeds \/ MergeFails \/ CommitOffset
  \/ \E m \in Messages : LeaseExpires(m)
  \/ Crash

Spec == Init /\ [][Next]_vars

\* Callbacks and the pool keep running, the service keeps delivering and redelivers
\* what was forgotten; outages of the destination end.  Leases of abandoned messages may
\* run out any number of times and at any time, also never: what holds does not depend
\* on how long they are.
Fairness ==
  /\ \A k \in Keys : /\ WF_vars(Deliver(k))
                     /\ WF_vars(StartCallback(k))
                     /\ WF_vars(SkipMessage(k))
                     /\ WF_vars(Save(k))
  /\ WF_vars(PoolTick)
  /\ \A f \in Keys \cup {Pool} : WF_vars(LockTable(f))
  /\ WF_vars(MergeSucceeds)
  /\ WF_vars(CommitOffset)
  /\ \A m \in Messages : WF_vars(Forgotten(m) /\ LeaseExpires(m))
  /\ <>[][~MergeFails]_vars

FairSpec == Spec /\ Fairness

-----------------------------------------------------------------------------
\* The shape of every variable.
TypeOK ==
  /\ next \in [Keys -> 1..(Length + 1)]
  /\ attempt \in [Keys -> Nat]
  /\ acked \subseteq Messages
  /\ outstanding \subseteq Copies
  /\ queue \in [Keys -> Seq(Copies)]
  /\ cpc \in [Keys -> {"idle", "process", "flush"}]
  /\ ppc \in {"idle", "flush"}
  /\ buffer \in [Keys -> 0..Length]
  /\ kept \subseteq Copies
  /\ lock \in Keys \cup {Pool, Nobody}
  /\ step \in {"merge", "commit"}
  /\ dest \in [Keys -> 0..Length]
  /\ faults \in 0..MaxFaults

\* A change the service will not send again is in the destination, in its own or in a
\* later version: configs.go acks only what flush.go has merged, and an older version
\* that a redelivery brings back cannot settle over an acked newer one.
AckedIsDurable == \A m \in acked : dest[m.key] >= m.off

\* Only messages without a row leak: every other message that occupies one of the
\* MaxOutstandingMessages slots is in a callback or among those the next flush acks.
OnlySkippedLeak ==
  \A c \in outstanding :
    \/ MessageOf(c) \in Skipped
    \/ c \in kept
    \/ \E i \in 1..Len(queue[c.key]) : queue[c.key][i] = c

\* Every slot is taken by a delivery whose callback returned without a row.
Clogged ==
  Cardinality({c \in outstanding : /\ MessageOf(c) \in Skipped
                                   /\ \A i \in 1..Len(queue[c.key]) : queue[c.key][i] # c}) = Slots

\* Every row message is acked for good in the end, although slots, callbacks and the
\* mutex all wait on the same flush, and whatever is delivered again.  One thing only can
\* stop it: redelivered copies of messages that pubsub.go neither acks nor nacks come to
\* fill every slot, of which it says that they "should be the same as our buffer rows so
\* we don't limit our processing throughput".
EventuallyAcked == <>[]Clogged \/ \A m \in Messages \ Skipped : <>[](m \in acked)

=============================================================================
