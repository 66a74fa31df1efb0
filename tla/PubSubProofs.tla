---------------------------- MODULE PubSubProofs ----------------------------
(***************************************************************************)
(* Proofs about PubSub, for any ordering keys, any number of messages, any *)
(* set of skipped ones, any buffer size and any number of faults.          *)
(***************************************************************************)
EXTENDS PubSub, WellFoundedInduction, TLAPS

\* Copy c of a key was handed out no later than copy d of it.
NoLater(c, d) ==
  \/ c.attempt < d.attempt
  \/ c.attempt = d.attempt /\ c.off <= d.off

\* The service has handed out copy c.
HandedOut(c) ==
  \/ c.attempt < attempt[c.key]
  \/ c.attempt = attempt[c.key] /\ c.off < next[c.key]

\* The callbacks of a key wait in the order in which the service handed out the copies.
QueueInv ==
  \A k \in Keys :
    /\ \A i \in 1..Len(queue[k]) : queue[k][i].key = k /\ HandedOut(queue[k][i])
    /\ \A i, j \in 1..Len(queue[k]) : i <= j => NoLater(queue[k][i], queue[k][j])
    /\ cpc[k] # "idle" => queue[k] # << >>

\* Who holds the mutex is in Flush, and commits what it has merged.
FlushInv ==
  /\ lock \in Keys => cpc[lock] = "flush"
  /\ lock # Nobody /\ step = "commit" =>
       \A k \in Keys : buffer[k] # 0 => dest[k] = buffer[k]

\* A kept copy precedes the copies still in callbacks, and the buffered row is not
\* older than a kept copy whose ack the service would still take.
KeptInv ==
  \A c \in kept :
    /\ HandedOut(c)
    /\ \A i \in 1..Len(queue[c.key]) : NoLater(c, queue[c.key][i])
    /\ c.attempt = attempt[c.key] => c.off <= buffer[c.key]

\* Nothing older than an acked message is on its way to the destination.
AckInv ==
  \A m \in acked :
    /\ m.off < next[m.key]
    /\ m.off <= dest[m.key]
    /\ buffer[m.key] # 0 => m.off <= buffer[m.key]
    /\ \A i \in 1..Len(queue[m.key]) : m.off <= queue[m.key][i].off

\* A callback that flushes has saved its message, or a flush has already acked it.
SlotInv ==
  /\ OnlySkippedLeak
  /\ \A k \in Keys : cpc[k] = "flush" => Head(queue[k]) \in kept \/ Head(queue[k]) \notin outstanding

IInv ==
  /\ TypeOK
  /\ QueueInv
  /\ FlushInv
  /\ KeptInv
  /\ AckInv
  /\ SlotInv

-----------------------------------------------------------------------------
\* What a copy is made of.
LEMMA CopyFacts ==
  ASSUME NEW c \in Copies
  PROVE  /\ c.key \in Keys
         /\ c.off \in Nat /\ 1 <= c.off /\ c.off <= Length
         /\ c.attempt \in Nat
         /\ MessageOf(c) \in Messages
         /\ MessageOf(c).key = c.key /\ MessageOf(c).off = c.off
BY PubSubAssumption DEF Copies, Messages, MessageOf

\* What a message is made of.
LEMMA MessageFacts ==
  ASSUME NEW m \in Messages
  PROVE  m.key \in Keys /\ m.off \in Nat /\ 1 <= m.off /\ m.off <= Length
BY PubSubAssumption DEF Messages

\* A queue without its oldest copy.
LEMMA TailFacts ==
  ASSUME NEW q \in Seq(Copies), q # << >>
  PROVE  /\ Head(q) \in Copies
         /\ Head(q) = q[1] /\ 1 \in 1..Len(q)
         /\ Tail(q) \in Seq(Copies)
         /\ \A i \in 1..Len(Tail(q)) : i + 1 \in 1..Len(q) /\ Tail(q)[i] = q[i + 1]
         /\ \A i \in 1..Len(q) : i # 1 => i - 1 \in 1..Len(Tail(q)) /\ Tail(q)[i - 1] = q[i]
OBVIOUS

\* A queue with a new copy at its end.
LEMMA AppendFacts ==
  ASSUME NEW q \in Seq(Copies), NEW c \in Copies
  PROVE  /\ Append(q, c) \in Seq(Copies)
         /\ Len(Append(q, c)) = Len(q) + 1
         /\ \A i \in 1..Len(q) : i \in 1..Len(Append(q, c)) /\ Append(q, c)[i] = q[i]
         /\ Append(q, c)[Len(q) + 1] = c
OBVIOUS

\* The service resumes a key at one of its offsets, or past the last of them.
LEMMA FirstUnackedType ==
  ASSUME TypeOK, NEW k \in Keys
  PROVE  FirstUnacked(k) \in 1..(Length + 1)
<1> DEFINE S == {next[k]} \cup {m.off : m \in {m \in Messages : m.key = k /\ m \notin acked}}
<1>1. S \subseteq 1..(Length + 1)
  <2>1. next[k] \in 1..(Length + 1)
    BY DEF TypeOK
  <2>2. \A m \in Messages : m.off \in 1..(Length + 1)
    BY MessageFacts, PubSubAssumption
  <2> QED
    BY <2>1, <2>2
<1>2. S \subseteq Nat /\ S # {}
  BY <1>1, PubSubAssumption
<1>3. \E x \in S : \A y \in S : x <= y
  <2> DEFINE R == {ss \in Nat \X Nat : ss[1] < ss[2]}
  <2>1. IsWellFoundedOn(R, Nat)
    BY NatLessThanWellFounded, Zenon DEF OpToRel
  <2>2. PICK x \in S : \A y \in S : ~(<<y, x>> \in R)
    <3> HIDE DEF S, R
    <3> QED
      BY <1>2, <2>1, WFMin, Zenon
  <2>3. ASSUME NEW y \in S PROVE x <= y
    <3>1. x \in Nat /\ y \in Nat
      BY <1>2
    <3>2. y < x => <<y, x>> \in R
      BY <3>1
    <3> QED
      BY <2>2, <3>1, <3>2
  <2> QED
    BY <2>3
<1>4. FirstUnacked(k) = Min(S)
  BY DEF FirstUnacked
<1>5. Min(S) \in S
  <2> HIDE DEF S
  <2> QED
    BY <1>3, Zenon DEF Min
<1> QED
  BY <1>1, <1>4, <1>5

-----------------------------------------------------------------------------
\* A flush that returns leaves a queue of copies behind.
LEMMA ReturnType ==
  ASSUME TypeOK, QueueInv, NEW f \in Keys \cup {Pool}, FlushReturns(f),
         f \in Keys => cpc[f] = "flush"
  PROVE  /\ queue' \in [Keys -> Seq(Copies)]
         /\ cpc' \in [Keys -> {"idle", "process", "flush"}]
         /\ ppc' \in {"idle", "flush"}
<1>1. CASE f = Pool
  BY <1>1 DEF FlushReturns, TypeOK
<1>2. CASE f \in Keys
  <2>1. f # Pool /\ queue[f] # << >> /\ queue[f] \in Seq(Copies)
    BY <1>2, PubSubAssumption DEF TypeOK, QueueInv
  <2>2. Tail(queue[f]) \in Seq(Copies)
    BY <2>1, TailFacts
  <2> QED
    BY <1>2, <2>1, <2>2 DEF FlushReturns, TypeOK
<1> QED
  BY <1>1, <1>2

\* After Save a callback goes on to the flush, or it returns.
LEMMA SaveReturns ==
  ASSUME NEW k \in Keys, Save(k)
  PROVE  \/ cpc' = [cpc EXCEPT ![k] = "flush"] /\ queue' = queue
         \/ cpc' = [cpc EXCEPT ![k] = "idle"] /\ queue' = [queue EXCEPT ![k] = Tail(queue[k])]
BY Zenon DEF Save

\* What is merged and what is acked have their types.
LEMMA MergedType ==
  ASSUME TypeOK
  PROVE  Merged \in [Keys -> 0..Length]
BY DEF TypeOK, Merged

LEMMA AckedType ==
  ASSUME TypeOK, NEW C \in SUBSET Copies
  PROVE  Acked(C) \subseteq Messages
BY CopyFacts DEF TypeOK, Acked

\* Every step keeps the shape of the variables.
LEMMA TypeStep ==
  ASSUME TypeOK, QueueInv, FlushInv, [Next]_vars
  PROVE  TypeOK'
<1> USE PubSubAssumption
<1>1. CASE UNCHANGED vars
  BY <1>1 DEF TypeOK, vars, serviceVars, libraryVars, memoryVars, flushVars
<1>2. ASSUME NEW k \in Keys, Deliver(k) PROVE TypeOK'
  <2> DEFINE c == [key |-> k, off |-> next[k], attempt |-> attempt[k]]
  <2>1. next[k] \in 1..Length /\ attempt[k] \in Nat
    BY <1>2 DEF Deliver, TypeOK
  <2>2. c \in Copies
    BY <2>1 DEF Copies
  <2>3. queue[k] \in Seq(Copies)
    BY DEF TypeOK
  <2>4. Append(queue[k], c) \in Seq(Copies)
    BY <2>2, <2>3
  <2>5. outstanding' = outstanding \cup {c} /\ queue' = [queue EXCEPT ![k] = Append(@, c)]
    BY <1>2 DEF Deliver
  <2>6. outstanding' \subseteq Copies
    BY <2>2, <2>5 DEF TypeOK
  <2>7. queue' \in [Keys -> Seq(Copies)]
    BY <2>4, <2>5 DEF TypeOK
  <2>8. next' \in [Keys -> 1..(Length + 1)]
    BY <1>2, <2>1 DEF Deliver, TypeOK
  <2> QED
    BY <1>2, <2>6, <2>7, <2>8 DEF TypeOK, Deliver, memoryVars, flushVars
<1>3. ASSUME NEW k \in Keys, StartCallback(k) PROVE TypeOK'
  BY <1>3 DEF TypeOK, StartCallback, serviceVars, libraryVars, memoryVars, flushVars
<1>4. ASSUME NEW k \in Keys, SkipMessage(k) PROVE TypeOK'
  <2>1. queue[k] \in Seq(Copies) /\ queue[k] # << >>
    BY <1>4 DEF TypeOK, QueueInv, SkipMessage
  <2>2. Tail(queue[k]) \in Seq(Copies)
    BY <2>1, TailFacts
  <2> QED
    BY <1>4, <2>2 DEF TypeOK, SkipMessage, serviceVars, memoryVars, flushVars
<1>5. ASSUME NEW k \in Keys, Save(k) PROVE TypeOK'
  <2> DEFINE c == Head(queue[k])
  <2>1. queue[k] \in Seq(Copies) /\ queue[k] # << >>
    BY <1>5 DEF TypeOK, QueueInv, Save
  <2>2. Tail(queue[k]) \in Seq(Copies) /\ c \in Copies
    BY <2>1, TailFacts
  <2>3. c.off \in 0..Length
    BY <2>2, CopyFacts
  <2>4. buffer' = [buffer EXCEPT ![k] = c.off] /\ kept' = kept \cup {c}
    BY <1>5 DEF Save, Kept
  <2>5. buffer' \in [Keys -> 0..Length] /\ kept' \subseteq Copies
    BY <2>2, <2>3, <2>4 DEF TypeOK
  <2>6. /\ cpc' \in [Keys -> {"idle", "process", "flush"}]
        /\ queue' \in [Keys -> Seq(Copies)]
    <3>1. CASE cpc' = [cpc EXCEPT ![k] = "flush"] /\ queue' = queue
      BY <3>1 DEF TypeOK
    <3>2. CASE cpc' = [cpc EXCEPT ![k] = "idle"] /\ queue' = [queue EXCEPT ![k] = Tail(queue[k])]
      BY <2>2, <3>2 DEF TypeOK
    <3> QED
      BY <1>5, <3>1, <3>2, SaveReturns
  <2> QED
    BY <1>5, <2>5, <2>6 DEF TypeOK, Save, serviceVars, flushVars
<1>6. CASE PoolTick
  BY <1>6 DEF TypeOK, PoolTick, serviceVars, libraryVars, memoryVars, flushVars
<1>7. ASSUME NEW f \in Keys \cup {Pool}, LockTable(f) PROVE TypeOK'
  <2>1. f \in Keys => cpc[f] = "flush"
    BY <1>7 DEF LockTable, Flushing
  <2>2. CASE Empty
    <3>1. FlushReturns(f)
      BY <1>7, <2>2 DEF LockTable
    <3> QED
      BY <1>7, <2>1, <2>2, <3>1, ReturnType DEF TypeOK, LockTable, serviceVars, memoryVars, flushVars
  <2>3. CASE ~Empty
    BY <1>7, <2>3 DEF TypeOK, LockTable, serviceVars, memoryVars, flushVars
  <2> QED
    BY <2>2, <2>3
<1>8. CASE MergeSucceeds
  BY <1>8, MergedType DEF TypeOK, MergeSucceeds, serviceVars, libraryVars, memoryVars
<1>9. CASE MergeFails
  <2>1. lock \in Keys \cup {Pool} /\ (lock \in Keys => cpc[lock] = "flush") /\ FlushReturns(lock)
    BY <1>9 DEF TypeOK, MergeFails, FlushInv
  <2> QED
    BY <1>9, <2>1, ReturnType, MergedType DEF TypeOK, MergeFails, serviceVars, memoryVars
<1>10. CASE CommitOffset
  <2>1. lock \in Keys \cup {Pool} /\ (lock \in Keys => cpc[lock] = "flush") /\ FlushReturns(lock)
    BY <1>10 DEF TypeOK, CommitOffset, FlushInv
  <2>2. kept \in SUBSET Copies
    BY DEF TypeOK
  <2>3. acked' \subseteq Messages
    BY <1>10, <2>2, AckedType DEF CommitOffset
  <2>4. faults' \in 0..MaxFaults
    BY <1>10 DEF TypeOK, CommitOffset
  <2>5. outstanding' \subseteq Copies /\ kept' \subseteq Copies /\ buffer' \in [Keys -> 0..Length]
    BY <1>10 DEF TypeOK, CommitOffset, EmptyBuffer
  <2> QED
    BY <1>10, <2>1, <2>3, <2>4, <2>5, ReturnType DEF TypeOK, CommitOffset
<1>11. ASSUME NEW m \in Messages, LeaseExpires(m) PROVE TypeOK'
  <2>1. PICK k \in Keys, n \in 1..(Length + 1) : k = m.key /\ n = m.off
    BY MessageFacts
  <2>2. next' = [next EXCEPT ![k] = n] /\ attempt' = [attempt EXCEPT ![k] = attempt[k] + 1]
    BY <1>11, <2>1 DEF LeaseExpires
  <2>3. next' \in [Keys -> 1..(Length + 1)] /\ attempt' \in [Keys -> Nat]
    BY <2>2 DEF TypeOK
  <2>4. acked' \subseteq Messages
    BY <1>11 DEF TypeOK, LeaseExpires, Redelivered
  <2>5. faults' \in 0..MaxFaults
    BY <1>11 DEF TypeOK, LeaseExpires
  <2> QED
    BY <1>11, <2>3, <2>4, <2>5 DEF TypeOK, LeaseExpires, libraryVars, memoryVars, flushVars
<1>12. CASE Crash
  <2>1. next' \in [Keys -> 1..(Length + 1)]
    BY <1>12, FirstUnackedType DEF Crash
  <2>2. attempt' \in [Keys -> Nat]
    BY <1>12 DEF TypeOK, Crash
  <2>3. acked' \subseteq Messages
    BY <1>12 DEF TypeOK, Crash
  <2>4. << >> \in Seq(Copies)
    OBVIOUS
  <2>5. queue' \in [Keys -> Seq(Copies)]
    BY <1>12, <2>4 DEF Crash
  <2>6. faults' \in 0..MaxFaults
    BY <1>12 DEF TypeOK, Crash
  <2> QED
    BY <1>12, <2>1, <2>2, <2>3, <2>5, <2>6 DEF TypeOK, Crash, EmptyBuffer
<1> QED
  BY <1>1, <1>2, <1>3, <1>4, <1>5, <1>6, <1>7, <1>8, <1>9, <1>10, <1>11, <1>12 DEF Next

-----------------------------------------------------------------------------
\* A step that hands out no copy: a queue stays or loses its oldest copy, and does not
\* become empty under a running callback.
Quiet ==
  /\ UNCHANGED <<next, attempt>>
  /\ \A k \in Keys : cpc'[k] # "idle" => queue'[k] # << >>
  /\ \A k \in Keys : \E d \in {0, 1} :
       /\ Len(queue[k]) = Len(queue'[k]) + d
       /\ \A i \in 1..Len(queue'[k]) : queue'[k][i] = queue[k][i + d]

\* The two ways to be quiet: no queue changes, or one callback returns.
LEMMA QuietWhenUnchanged ==
  ASSUME TypeOK, QueueInv, UNCHANGED <<next, attempt, queue>>,
         \A k \in Keys : cpc'[k] # "idle" => cpc[k] # "idle" \/ queue[k] # << >>
  PROVE  Quiet
<1>1. \A k \in Keys : Len(queue[k]) \in Nat
  BY DEF TypeOK
<1>2. \A k \in Keys : Len(queue[k]) = Len(queue[k]) + 0
                      /\ \A i \in 1..Len(queue[k]) : queue[k][i] = queue[k][i + 0]
  BY <1>1
<1> QED
  BY <1>2 DEF Quiet, QueueInv

LEMMA QuietWhenReturning ==
  ASSUME TypeOK, QueueInv, NEW k \in Keys, UNCHANGED <<next, attempt>>, queue[k] # << >>,
         cpc' = [cpc EXCEPT ![k] = "idle"], queue' = [queue EXCEPT ![k] = Tail(queue[k])]
  PROVE  Quiet
<1>1. \A j \in Keys : queue[j] \in Seq(Copies) /\ Len(queue[j]) \in Nat
  BY DEF TypeOK
<1>2. /\ Len(queue[k]) = Len(Tail(queue[k])) + 1
      /\ \A i \in 1..Len(Tail(queue[k])) : Tail(queue[k])[i] = queue[k][i + 1]
  BY <1>1
<1>3. queue'[k] = Tail(queue[k]) /\ cpc'[k] = "idle"
  BY DEF TypeOK
<1>4. ASSUME NEW j \in Keys, j # k
      PROVE  queue'[j] = queue[j] /\ cpc'[j] = cpc[j]
  BY <1>4 DEF TypeOK
<1>5. ASSUME NEW j \in Keys
      PROVE  /\ cpc'[j] # "idle" => queue'[j] # << >>
             /\ \E d \in {0, 1} :
                  /\ Len(queue[j]) = Len(queue'[j]) + d
                  /\ \A i \in 1..Len(queue'[j]) : queue'[j][i] = queue[j][i + d]
  <2>1. CASE j = k
    BY <1>2, <1>3, <2>1
  <2>2. CASE j # k
    <3>1. Len(queue[j]) = Len(queue[j]) + 0 /\ \A i \in 1..Len(queue[j]) : queue[j][i] = queue[j][i + 0]
      BY <1>1
    <3> QED
      BY <1>4, <2>2, <3>1 DEF QueueInv
  <2> QED
    BY <2>1, <2>2
<1> QED
  BY <1>5 DEF Quiet

\* Whoever returns from Flush, the step is quiet.
LEMMA QuietReturn ==
  ASSUME TypeOK, QueueInv, NEW f \in Keys \cup {Pool}, FlushReturns(f),
         f \in Keys => cpc[f] = "flush", UNCHANGED <<next, attempt>>
  PROVE  Quiet
<1>1. CASE f = Pool
  BY <1>1, QuietWhenUnchanged DEF FlushReturns
<1>2. CASE f \in Keys
  <2>1. f # Pool /\ queue[f] # << >>
    BY <1>2, PubSubAssumption DEF QueueInv
  <2> QED
    BY <1>2, <2>1, QuietWhenReturning DEF FlushReturns
<1> QED
  BY <1>1, <1>2

\* Every step but a delivery, an expired lease and a crash is quiet.
LEMMA QuietStep ==
  ASSUME TypeOK, QueueInv, FlushInv,
         \/ UNCHANGED vars
         \/ \E k \in Keys : StartCallback(k) \/ SkipMessage(k) \/ Save(k)
         \/ PoolTick
         \/ \E f \in Keys \cup {Pool} : LockTable(f)
         \/ MergeSucceeds \/ MergeFails \/ CommitOffset
  PROVE  Quiet
<1>1. CASE UNCHANGED vars
  BY <1>1, QuietWhenUnchanged DEF vars, serviceVars, libraryVars
<1>2. ASSUME NEW k \in Keys, StartCallback(k) PROVE Quiet
  <2>1. \A j \in Keys : cpc'[j] # "idle" => cpc[j] # "idle" \/ queue[j] # << >>
    BY <1>2 DEF StartCallback, TypeOK
  <2> QED
    BY <1>2, <2>1, QuietWhenUnchanged DEF StartCallback, serviceVars, libraryVars
<1>3. ASSUME NEW k \in Keys, SkipMessage(k) PROVE Quiet
  <2>1. queue[k] # << >>
    BY <1>3 DEF SkipMessage, QueueInv
  <2> QED
    BY <1>3, <2>1, QuietWhenReturning DEF SkipMessage, serviceVars
<1>4. ASSUME NEW k \in Keys, Save(k) PROVE Quiet
  <2>1. queue[k] # << >> /\ cpc[k] = "process" /\ UNCHANGED <<next, attempt>>
    BY <1>4 DEF Save, QueueInv, serviceVars
  <2>2. CASE cpc' = [cpc EXCEPT ![k] = "flush"] /\ queue' = queue
    <3>1. \A j \in Keys : cpc'[j] # "idle" => cpc[j] # "idle" \/ queue[j] # << >>
      BY <2>1, <2>2 DEF TypeOK
    <3> QED
      BY <2>1, <2>2, <3>1, QuietWhenUnchanged
  <2>3. CASE cpc' = [cpc EXCEPT ![k] = "idle"] /\ queue' = [queue EXCEPT ![k] = Tail(queue[k])]
    BY <2>1, <2>3, QuietWhenReturning
  <2> QED
    BY <1>4, <2>2, <2>3, SaveReturns
<1>5. CASE PoolTick
  BY <1>5, QuietWhenUnchanged DEF PoolTick, serviceVars, libraryVars
<1>6. ASSUME NEW f \in Keys \cup {Pool}, LockTable(f) PROVE Quiet
  <2>1. (f \in Keys => cpc[f] = "flush") /\ UNCHANGED <<next, attempt>>
    BY <1>6, PubSubAssumption DEF LockTable, Flushing, serviceVars
  <2>2. FlushReturns(f) \/ UNCHANGED <<cpc, queue>>
    BY <1>6 DEF LockTable
  <2> QED
    BY <2>1, <2>2, QuietReturn, QuietWhenUnchanged
<1>7. CASE MergeSucceeds
  BY <1>7, QuietWhenUnchanged DEF MergeSucceeds, serviceVars, libraryVars
<1>8. CASE MergeFails \/ CommitOffset
  <2>1. lock \in Keys \cup {Pool} /\ FlushReturns(lock) /\ (lock \in Keys => cpc[lock] = "flush")
    BY <1>8 DEF MergeFails, CommitOffset, TypeOK, FlushInv
  <2>2. UNCHANGED <<next, attempt>>
    BY <1>8 DEF MergeFails, CommitOffset, serviceVars
  <2> QED
    BY <2>1, <2>2, QuietReturn
<1> QED
  BY <1>1, <1>2, <1>3, <1>4, <1>5, <1>6, <1>7, <1>8

\* The elements of the queues.
LEMMA QueueFacts ==
  ASSUME TypeOK, NEW k \in Keys
  PROVE  /\ queue[k] \in Seq(Copies) /\ Len(queue[k]) \in Nat
         /\ \A i \in 1..Len(queue[k]) : /\ queue[k][i] \in Copies
                                        /\ queue[k][i].off \in Nat /\ queue[k][i].attempt \in Nat
         /\ next[k] \in Nat /\ attempt[k] \in Nat
<1>1. queue[k] \in Seq(Copies)
  BY DEF TypeOK
<1>2. Len(queue[k]) \in Nat /\ \A i \in 1..Len(queue[k]) : queue[k][i] \in Copies
  BY <1>1
<1> QED
  BY <1>1, <1>2, CopyFacts, PubSubAssumption DEF TypeOK

\* What a quiet step leaves of the queues.
LEMMA QuietQueues ==
  ASSUME TypeOK, TypeOK', Quiet, NEW k \in Keys
  PROVE  /\ \A i \in 1..Len(queue'[k]) : \E n \in 1..Len(queue[k]) : queue'[k][i] = queue[k][n]
         /\ \A i, j \in 1..Len(queue'[k]) : i <= j =>
              \E m, n \in 1..Len(queue[k]) :
                m <= n /\ queue'[k][i] = queue[k][m] /\ queue'[k][j] = queue[k][n]
<1>1. PICK d \in {0, 1} : /\ Len(queue[k]) = Len(queue'[k]) + d
                          /\ \A i \in 1..Len(queue'[k]) : queue'[k][i] = queue[k][i + d]
  BY DEF Quiet
<1>2. Len(queue'[k]) \in Nat /\ Len(queue[k]) \in Nat
  <2>1. queue'[k] \in Seq(Copies) /\ queue[k] \in Seq(Copies)
    BY DEF TypeOK
  <2> QED
    BY <2>1
<1>3. \A i \in 1..Len(queue'[k]) : i + d \in 1..Len(queue[k]) /\ queue'[k][i] = queue[k][i + d]
  BY <1>1, <1>2
<1>4. \A i, j \in 1..Len(queue'[k]) : i <= j => i + d <= j + d
  OBVIOUS
<1> QED
  BY <1>3, <1>4

\* What a delivery does to the queues.
LEMMA DeliverFacts ==
  ASSUME TypeOK, NEW k \in Keys, Deliver(k)
  PROVE  \E c \in Copies :
           /\ c.key = k /\ c.off = next[k] /\ c.attempt = attempt[k]
           /\ outstanding' = outstanding \cup {c}
           /\ next' = [next EXCEPT ![k] = next[k] + 1] /\ attempt' = attempt
           /\ Len(queue'[k]) = Len(queue[k]) + 1
           /\ queue'[k][Len(queue[k]) + 1] = c
           /\ \A i \in 1..Len(queue[k]) : queue'[k][i] = queue[k][i]
           /\ \A j \in Keys \ {k} : queue'[j] = queue[j]
<1> DEFINE c == [key |-> k, off |-> next[k], attempt |-> attempt[k]]
<1>1. next[k] \in 1..Length /\ attempt[k] \in Nat
  BY PubSubAssumption DEF Deliver, TypeOK
<1>2. c \in Copies /\ c.key = k /\ c.off = next[k] /\ c.attempt = attempt[k]
  BY <1>1 DEF Copies
<1>3. /\ outstanding' = outstanding \cup {c} /\ queue' = [queue EXCEPT ![k] = Append(queue[k], c)]
      /\ next' = [next EXCEPT ![k] = next[k] + 1] /\ attempt' = attempt
  BY DEF Deliver
<1> HIDE DEF c
<1>4. queue'[k] = Append(queue[k], c) /\ \A j \in Keys \ {k} : queue'[j] = queue[j]
  BY <1>3 DEF TypeOK
<1>5. queue[k] \in Seq(Copies)
  BY DEF TypeOK
<1> QED
  BY <1>2, <1>3, <1>4, <1>5, AppendFacts

\* What an expired lease does: it starts a new attempt, and the queues stay.
LEMMA LeaseFacts ==
  ASSUME TypeOK, NEW m \in Messages, LeaseExpires(m)
  PROVE  \E k \in Keys, n \in Nat :
           /\ k = m.key /\ n = m.off /\ n < next[k]
           /\ next' = [next EXCEPT ![k] = n] /\ attempt' = [attempt EXCEPT ![k] = attempt[k] + 1]
           /\ acked' = {x \in acked : ~(x.key = k /\ x.off >= n)}
           /\ UNCHANGED <<outstanding, queue, cpc, buffer, kept, lock, step, dest>>
<1>1. PICK k \in Keys, n \in Nat : k = m.key /\ n = m.off
  BY MessageFacts
<1>2. /\ n < next[k]
      /\ next' = [next EXCEPT ![k] = n] /\ attempt' = [attempt EXCEPT ![k] = attempt[k] + 1]
  BY <1>1 DEF LeaseExpires, Awaited
<1>3. acked' = {x \in acked : ~(x.key = k /\ x.off >= n)}
  BY <1>1 DEF LeaseExpires, Redelivered, From, TypeOK
<1>4. UNCHANGED <<outstanding, queue, cpc, buffer, kept, lock, step, dest>>
  BY DEF LeaseExpires, libraryVars, memoryVars, flushVars
<1> QED
  BY <1>1, <1>2, <1>3, <1>4

\* A copy that was handed out stays so, whatever the service does next.
LEMMA HandedOutStays ==
  ASSUME TypeOK, TypeOK', NEW c \in Copies, HandedOut(c),
         \/ UNCHANGED <<next, attempt>>
         \/ \E k \in Keys : Deliver(k)
         \/ \E m \in Messages : LeaseExpires(m)
  PROVE  HandedOut(c)'
<1>1. c.key \in Keys /\ c.off \in Nat /\ c.attempt \in Nat
  BY CopyFacts
<1>2. next[c.key] \in Nat /\ attempt[c.key] \in Nat
  BY <1>1, QueueFacts
<1>3. CASE UNCHANGED <<next, attempt>>
  BY <1>3 DEF HandedOut
<1>4. ASSUME NEW k \in Keys, Deliver(k) PROVE HandedOut(c)'
  <2>1. next' = [next EXCEPT ![k] = next[k] + 1] /\ attempt' = attempt
    BY <1>4 DEF Deliver
  <2>2. next'[c.key] = next[c.key] \/ next'[c.key] = next[c.key] + 1
    BY <1>1, <2>1 DEF TypeOK
  <2> QED
    BY <1>1, <1>2, <2>1, <2>2 DEF HandedOut
<1>5. ASSUME NEW m \in Messages, LeaseExpires(m) PROVE HandedOut(c)'
  <2>1. PICK k \in Keys, n \in Nat :
          next' = [next EXCEPT ![k] = n] /\ attempt' = [attempt EXCEPT ![k] = attempt[k] + 1]
    BY <1>5, LeaseFacts
  <2>2. \/ next'[c.key] = next[c.key] /\ attempt'[c.key] = attempt[c.key]
        \/ attempt'[c.key] = attempt[c.key] + 1
    BY <1>1, <2>1 DEF TypeOK
  <2> QED
    BY <1>1, <1>2, <2>2 DEF HandedOut
<1> QED
  BY <1>3, <1>4, <1>5

-----------------------------------------------------------------------------
\* Every step keeps the callbacks of a key in order.
LEMMA QueueStep ==
  ASSUME IInv, TypeOK', [Next]_vars
  PROVE  QueueInv'
<1> USE DEF IInv
<1>1. ASSUME Quiet PROVE QueueInv'
  <2> SUFFICES ASSUME NEW k \in Keys
               PROVE  /\ \A i \in 1..Len(queue'[k]) : queue'[k][i].key = k /\ HandedOut(queue[k][i])'
                      /\ \A i, j \in 1..Len(queue'[k]) : i <= j => NoLater(queue'[k][i], queue'[k][j])
                      /\ cpc'[k] # "idle" => queue'[k] # << >>
    BY DEF QueueInv, NoLater
  <2>1. ASSUME NEW i \in 1..Len(queue'[k])
        PROVE  queue'[k][i].key = k /\ HandedOut(queue[k][i])'
    <3>1. PICK n \in 1..Len(queue[k]) : queue'[k][i] = queue[k][n]
      BY <1>1, QuietQueues
    <3> QED
      BY <1>1, <3>1 DEF Quiet, QueueInv, HandedOut
  <2>2. ASSUME NEW i \in 1..Len(queue'[k]), NEW j \in 1..Len(queue'[k]), i <= j
        PROVE  NoLater(queue'[k][i], queue'[k][j])
    <3>1. PICK m \in 1..Len(queue[k]), n \in 1..Len(queue[k]) :
            m <= n /\ queue'[k][i] = queue[k][m] /\ queue'[k][j] = queue[k][n]
      BY <1>1, <2>2, QuietQueues
    <3> QED
      BY <3>1 DEF QueueInv
  <2> QED
    BY <1>1, <2>1, <2>2 DEF Quiet
<1>2. ASSUME NEW k \in Keys, Deliver(k) PROVE QueueInv'
  <2>1. PICK c \in Copies :
          /\ c.key = k /\ c.off = next[k] /\ c.attempt = attempt[k]
          /\ next' = [next EXCEPT ![k] = next[k] + 1] /\ attempt' = attempt
          /\ Len(queue'[k]) = Len(queue[k]) + 1
          /\ queue'[k][Len(queue[k]) + 1] = c
          /\ \A i \in 1..Len(queue[k]) : queue'[k][i] = queue[k][i]
          /\ \A j \in Keys \ {k} : queue'[j] = queue[j]
    BY <1>2, DeliverFacts
  <2>2. HandedOut(c)'
    <3>1. next'[k] = next[k] + 1 /\ next[k] \in Nat
      BY <2>1, PubSubAssumption DEF TypeOK
    <3> QED
      BY <2>1, <3>1 DEF HandedOut
  <2>3. \A d \in Copies : HandedOut(d) => HandedOut(d)'
    BY <1>2, HandedOutStays
  <2>4. ASSUME NEW j \in Keys \ {k}
        PROVE  /\ \A i \in 1..Len(queue'[j]) : queue'[j][i].key = j /\ HandedOut(queue[j][i])'
               /\ \A i, n \in 1..Len(queue'[j]) : i <= n => NoLater(queue'[j][i], queue'[j][n])
               /\ cpc'[j] # "idle" => queue'[j] # << >>
    <3>1. queue'[j] = queue[j] /\ cpc' = cpc
      BY <1>2, <2>1 DEF Deliver
    <3>2. \A i \in 1..Len(queue[j]) : queue[j][i] \in Copies
      BY QueueFacts
    <3>3. \A i \in 1..Len(queue[j]) : HandedOut(queue[j][i])
      BY DEF QueueInv
    <3>4. \A i \in 1..Len(queue'[j]) : HandedOut(queue[j][i])'
      <4> SUFFICES ASSUME NEW i \in 1..Len(queue[j]) PROVE HandedOut(queue[j][i])'
        BY <3>1
      <4>1. PICK d \in Copies : d = queue[j][i]
        BY <3>2
      <4>2. HandedOut(d)'
        BY <2>3, <3>3, <4>1
      <4> QED
        BY <3>1, <4>1, <4>2 DEF HandedOut
    <3> QED
      BY <3>1, <3>4 DEF QueueInv
  <2>5. Len(queue[k]) \in Nat
    BY QueueFacts
  <2>6. ASSUME NEW i \in 1..Len(queue'[k])
        PROVE  queue'[k][i].key = k /\ HandedOut(queue[k][i])'
    <3>1. CASE i \in 1..Len(queue[k])
      <4>1. PICK d \in Copies : d = queue[k][i]
        BY <3>1, QueueFacts
      <4>2. d.key = k /\ HandedOut(d)
        BY <3>1, <4>1 DEF QueueInv
      <4>3. HandedOut(d)'
        BY <2>3, <4>2
      <4>4. queue'[k][i] = d
        BY <2>1, <3>1, <4>1
      <4> QED
        BY <4>2, <4>3, <4>4 DEF HandedOut
    <3>2. CASE i = Len(queue[k]) + 1
      BY <2>1, <2>2, <3>2 DEF HandedOut
    <3> QED
      BY <2>1, <2>5, <3>1, <3>2
  <2>7. ASSUME NEW i \in 1..Len(queue'[k]), NEW j \in 1..Len(queue'[k]), i <= j
        PROVE  NoLater(queue'[k][i], queue'[k][j])
    <3>1. CASE j \in 1..Len(queue[k])
      <4>1. i \in 1..Len(queue[k])
        BY <2>5, <2>7, <3>1
      <4> QED
        BY <2>1, <2>7, <3>1, <4>1 DEF QueueInv
    <3>2. CASE j = Len(queue[k]) + 1 /\ i \in 1..Len(queue[k])
      <4>1. HandedOut(queue[k][i]) /\ queue[k][i].key = k
        BY <3>2 DEF QueueInv
      <4>2. queue[k][i].off \in Nat /\ queue[k][i].attempt \in Nat /\ next[k] \in Nat /\ attempt[k] \in Nat
        BY <3>2, QueueFacts
      <4>3. queue'[k][i] = queue[k][i] /\ queue'[k][j] = c
        BY <2>1, <3>2
      <4> QED
        BY <2>1, <4>1, <4>2, <4>3 DEF HandedOut, NoLater
    <3>3. CASE i = Len(queue[k]) + 1 /\ j = Len(queue[k]) + 1
      BY <2>1, <3>3, CopyFacts DEF NoLater
    <3> QED
      BY <2>1, <2>5, <2>7, <3>1, <3>2, <3>3
  <2>8. queue'[k] # << >>
    BY <2>1, <2>5
  <2> QED
    BY <2>4, <2>6, <2>7, <2>8 DEF QueueInv, NoLater
<1>3. ASSUME NEW m \in Messages, LeaseExpires(m) PROVE QueueInv'
  <2>1. queue' = queue /\ cpc' = cpc
    BY <1>3 DEF LeaseExpires, libraryVars
  <2>2. ASSUME NEW k \in Keys, NEW i \in 1..Len(queue[k])
        PROVE  HandedOut(queue[k][i])'
    <3>1. PICK d \in Copies : d = queue[k][i]
      BY QueueFacts
    <3>2. HandedOut(d)'
      BY <1>3, <3>1, HandedOutStays DEF QueueInv
    <3> QED
      BY <2>1, <3>1, <3>2 DEF HandedOut
  <2> QED
    BY <2>1, <2>2 DEF QueueInv, NoLater
<1>4. CASE Crash
  <2>1. \A k \in Keys : queue'[k] = << >> /\ cpc'[k] = "idle"
    BY <1>4 DEF Crash
  <2> QED
    BY <2>1 DEF QueueInv
<1> QED
  BY <1>1, <1>2, <1>3, <1>4, QuietStep DEF Next

\* Every step leaves the mutex with a goroutine that is in Flush.
LEMMA FlushStep ==
  ASSUME IInv, [Next]_vars
  PROVE  FlushInv'
<1> USE PubSubAssumption DEF IInv
<1>1. CASE UNCHANGED vars
  BY <1>1 DEF FlushInv, vars, memoryVars, flushVars
<1>2. ASSUME NEW k \in Keys, Deliver(k) PROVE FlushInv'
  BY <1>2 DEF FlushInv, Deliver, memoryVars, flushVars
<1>3. ASSUME NEW k \in Keys, StartCallback(k) \/ SkipMessage(k) PROVE FlushInv'
  <2>1. cpc[k] # "flush" /\ UNCHANGED <<lock, step, buffer, dest>>
    BY <1>3 DEF StartCallback, SkipMessage, memoryVars, flushVars
  <2>2. \A j \in Keys \ {k} : cpc'[j] = cpc[j]
    BY <1>3 DEF StartCallback, SkipMessage, TypeOK
  <2> QED
    BY <2>1, <2>2 DEF FlushInv
<1>4. ASSUME NEW k \in Keys, Save(k) PROVE FlushInv'
  BY <1>4 DEF FlushInv, Save, flushVars
<1>5. CASE PoolTick
  BY <1>5 DEF FlushInv, PoolTick, memoryVars, flushVars
<1>6. ASSUME NEW f \in Keys \cup {Pool}, LockTable(f) PROVE FlushInv'
  <2>1. CASE Empty
    BY <1>6, <2>1 DEF FlushInv, LockTable, flushVars
  <2>2. CASE ~Empty
    BY <1>6, <2>2 DEF FlushInv, LockTable, Flushing
  <2> QED
    BY <2>1, <2>2
<1>7. CASE MergeSucceeds
  BY <1>7 DEF FlushInv, MergeSucceeds, Merged, memoryVars
<1>8. CASE MergeFails \/ CommitOffset \/ Crash
  <2>1. lock' = Nobody
    BY <1>8 DEF MergeFails, CommitOffset, Crash
  <2> QED
    BY <2>1 DEF FlushInv
<1>9. ASSUME NEW m \in Messages, LeaseExpires(m) PROVE FlushInv'
  BY <1>9 DEF FlushInv, LeaseExpires, memoryVars, flushVars
<1> QED
  BY <1>1, <1>2, <1>3, <1>4, <1>5, <1>6, <1>7, <1>8, <1>9 DEF Next

\* The oldest copy in a callback, and what Save does with it.
LEMMA SaveFacts ==
  ASSUME TypeOK, QueueInv, NEW k \in Keys, Save(k)
  PROVE  \E c \in Copies :
           /\ queue[k] # << >> /\ c = Head(queue[k]) /\ c = queue[k][1] /\ 1 \in 1..Len(queue[k])
           /\ c.key = k /\ HandedOut(c)
           /\ \A i \in 1..Len(queue[k]) : NoLater(c, queue[k][i])
           /\ buffer' = [buffer EXCEPT ![k] = c.off]
           /\ kept' = kept \cup {c}
           /\ UNCHANGED <<acked, dest, outstanding, next, attempt>>
<1>1. queue[k] # << >> /\ queue[k] \in Seq(Copies)
  BY DEF Save, QueueInv, TypeOK
<1>2. PICK c \in Copies : c = Head(queue[k]) /\ c = queue[k][1] /\ 1 \in 1..Len(queue[k])
  BY <1>1, TailFacts
<1>3. c.key = k /\ HandedOut(c) /\ \A i \in 1..Len(queue[k]) : NoLater(c, queue[k][i])
  BY <1>2 DEF QueueInv
<1>4. /\ buffer' = [buffer EXCEPT ![k] = c.off]
      /\ kept' = kept \cup {c}
      /\ UNCHANGED <<acked, dest, outstanding, next, attempt>>
  BY <1>2 DEF Save, Kept, serviceVars
<1> QED
  BY <1>1, <1>2, <1>3, <1>4

\* Every step keeps what commitOffset will ack behind the open callbacks.
LEMMA KeptStep ==
  ASSUME IInv, TypeOK', [Next]_vars
  PROVE  KeptInv'
<1> USE DEF IInv
<1>1. kept \subseteq Copies /\ \A c \in kept : c.key \in Keys /\ c.off \in Nat /\ c.attempt \in Nat
  BY CopyFacts DEF TypeOK
<1>2. ASSUME Quiet, NEW c \in kept
      PROVE  HandedOut(c)' /\ \A i \in 1..Len(queue'[c.key]) : NoLater(c, queue'[c.key][i])
  <2>1. HandedOut(c)'
    BY <1>2 DEF Quiet, KeptInv, HandedOut
  <2>2. ASSUME NEW i \in 1..Len(queue'[c.key]) PROVE NoLater(c, queue'[c.key][i])
    <3>1. PICK n \in 1..Len(queue[c.key]) : queue'[c.key][i] = queue[c.key][n]
      BY <1>1, <1>2, QuietQueues
    <3> QED
      BY <3>1 DEF KeptInv
  <2> QED
    BY <2>1, <2>2
<1>3. ASSUME Quiet, UNCHANGED <<kept, buffer>> PROVE KeptInv'
  <2>1. \A c \in kept : c.attempt = attempt'[c.key] => c.off <= buffer'[c.key]
    BY <1>3 DEF Quiet, KeptInv
  <2> QED
    BY <1>2, <1>3, <2>1 DEF KeptInv, NoLater
<1>4. ASSUME NEW k \in Keys, Save(k) PROVE KeptInv'
  <2>1. Quiet
    BY <1>4, QuietStep
  <2>2. PICK c \in Copies :
          /\ c = queue[k][1] /\ 1 \in 1..Len(queue[k])
          /\ c.key = k /\ HandedOut(c)
          /\ \A i \in 1..Len(queue[k]) : NoLater(c, queue[k][i])
          /\ buffer' = [buffer EXCEPT ![k] = c.off]
          /\ kept' = kept \cup {c}
          /\ UNCHANGED <<next, attempt>>
    BY <1>4, SaveFacts
  <2>3. c.off \in Nat /\ c.attempt \in Nat /\ next[k] \in Nat /\ attempt[k] \in Nat
    BY CopyFacts, QueueFacts
  <2>4. buffer'[k] = c.off /\ \A j \in Keys \ {k} : buffer'[j] = buffer[j]
    BY <2>2 DEF TypeOK
  <2>5. HandedOut(c)' /\ c.off <= buffer'[k]
    BY <2>2, <2>3, <2>4 DEF HandedOut
  <2>6. ASSUME NEW i \in 1..Len(queue'[k]) PROVE NoLater(c, queue'[k][i])
    <3>1. PICK n \in 1..Len(queue[k]) : queue'[k][i] = queue[k][n]
      BY <2>1, QuietQueues
    <3> QED
      BY <2>2, <3>1
  <2>7. ASSUME NEW d \in kept, d.attempt = attempt[d.key] PROVE d.off <= buffer'[d.key]
    <3>1. CASE d.key # k
      BY <1>1, <2>4, <2>7, <3>1 DEF KeptInv
    <3>2. CASE d.key = k
      <4>1. NoLater(d, c)
        BY <2>2, <3>2 DEF KeptInv
      <4>2. c.attempt <= attempt[k]
        BY <2>2, <2>3 DEF HandedOut
      <4>3. d.off <= c.off
        BY <1>1, <2>3, <2>7, <3>2, <4>1, <4>2 DEF NoLater
      <4> QED
        BY <2>4, <3>2, <4>3
    <3> QED
      BY <3>1, <3>2
  <2>8. SUFFICES ASSUME NEW d \in kept'
                 PROVE  /\ HandedOut(d)'
                        /\ \A i \in 1..Len(queue'[d.key]) : NoLater(d, queue'[d.key][i])
                        /\ d.attempt = attempt'[d.key] => d.off <= buffer'[d.key]
    BY DEF KeptInv, NoLater
  <2>9. CASE d = c
    BY <2>2, <2>5, <2>6, <2>9
  <2>10. CASE d \in kept
    BY <1>2, <2>1, <2>2, <2>7, <2>10
  <2> QED
    BY <2>2, <2>9, <2>10
<1>5. ASSUME NEW k \in Keys, Deliver(k) PROVE KeptInv'
  <2>1. kept' = kept /\ buffer' = buffer
    BY <1>5 DEF Deliver, memoryVars
  <2>2. PICK c \in Copies :
          /\ c.key = k /\ c.off = next[k] /\ c.attempt = attempt[k]
          /\ attempt' = attempt
          /\ Len(queue'[k]) = Len(queue[k]) + 1
          /\ queue'[k][Len(queue[k]) + 1] = c
          /\ \A i \in 1..Len(queue[k]) : queue'[k][i] = queue[k][i]
          /\ \A j \in Keys \ {k} : queue'[j] = queue[j]
    BY <1>5, DeliverFacts
  <2>3. \A d \in kept : HandedOut(d)'
    BY <1>1, <1>5, HandedOutStays DEF KeptInv
  <2>4. ASSUME NEW d \in kept, NEW i \in 1..Len(queue'[d.key]) PROVE NoLater(d, queue'[d.key][i])
    <3>1. CASE d.key # k
      BY <1>1, <2>2, <3>1 DEF KeptInv
    <3>2. CASE d.key = k /\ i \in 1..Len(queue[k])
      BY <2>2, <3>2 DEF KeptInv
    <3>3. CASE d.key = k /\ i = Len(queue[k]) + 1
      <4>1. HandedOut(d) /\ next[k] \in Nat /\ attempt[k] \in Nat
        BY QueueFacts DEF KeptInv
      <4>2. NoLater(d, c)
        BY <1>1, <2>2, <3>3, <4>1 DEF HandedOut, NoLater
      <4> QED
        BY <2>2, <3>3, <4>2
    <3>4. Len(queue[k]) \in Nat
      BY QueueFacts
    <3> QED
      BY <2>2, <3>1, <3>2, <3>3, <3>4
  <2> QED
    BY <2>1, <2>2, <2>3, <2>4 DEF KeptInv, NoLater
<1>6. ASSUME NEW m \in Messages, LeaseExpires(m) PROVE KeptInv'
  <2>1. PICK k \in Keys, n \in Nat :
          /\ attempt' = [attempt EXCEPT ![k] = attempt[k] + 1]
          /\ UNCHANGED <<queue, buffer, kept>>
    BY <1>6, LeaseFacts
  <2>2. \A d \in kept : HandedOut(d)'
    BY <1>1, <1>6, HandedOutStays DEF KeptInv
  <2>3. ASSUME NEW d \in kept, d.attempt = attempt'[d.key] PROVE d.off <= buffer'[d.key]
    <3>1. attempt[d.key] \in Nat
      BY <1>1, QueueFacts
    <3>2. attempt'[d.key] = attempt[d.key] \/ attempt'[d.key] = attempt[d.key] + 1
      BY <1>1, <2>1 DEF TypeOK
    <3>3. d.attempt <= attempt[d.key]
      BY <1>1, <3>1 DEF KeptInv, HandedOut
    <3> QED
      BY <1>1, <2>1, <2>3, <3>1, <3>2, <3>3 DEF KeptInv
  <2> QED
    BY <2>1, <2>2, <2>3 DEF KeptInv, NoLater
<1>7. CASE CommitOffset \/ Crash
  BY <1>7 DEF KeptInv, CommitOffset, Crash
<1>8. CASE UNCHANGED vars
  BY <1>3, <1>8, QuietStep DEF vars, memoryVars
<1>9. ASSUME NEW k \in Keys, StartCallback(k) \/ SkipMessage(k) PROVE KeptInv'
  BY <1>3, <1>9, QuietStep DEF StartCallback, SkipMessage, memoryVars
<1>10. CASE PoolTick \/ MergeSucceeds \/ MergeFails
  BY <1>3, <1>10, QuietStep DEF PoolTick, MergeSucceeds, MergeFails, memoryVars
<1>11. ASSUME NEW f \in Keys \cup {Pool}, LockTable(f) PROVE KeptInv'
  BY <1>3, <1>11, QuietStep DEF LockTable, memoryVars
<1> QED
  BY <1>4, <1>5, <1>6, <1>7, <1>8, <1>9, <1>10, <1>11 DEF Next

\* The messages an ack settles are those of copies from the current attempt.
LEMMA AckedFacts ==
  ASSUME TypeOK, NEW C \in SUBSET kept, NEW m \in Acked(C), m \notin acked
  PROVE  \E c \in kept : c.attempt = attempt[c.key] /\ c.key = m.key /\ c.off = m.off
<1>1. PICK c \in C : c.attempt = attempt[c.key] /\ m = MessageOf(c)
  BY DEF Acked
<1>2. c \in Copies
  BY DEF TypeOK
<1> QED
  BY <1>1, <1>2, CopyFacts

\* Every step keeps older copies away from acked messages.
LEMMA AckStep ==
  ASSUME IInv, TypeOK', [Next]_vars
  PROVE  AckInv'
<1> USE DEF IInv
<1>1. ASSUME NEW m \in Messages PROVE m.key \in Keys /\ m.off \in Nat
  BY MessageFacts
<1>2. acked \subseteq Messages
  BY DEF TypeOK
<1>3. ASSUME Quiet, NEW m \in acked
      PROVE  /\ m.off < next'[m.key]
             /\ \A i \in 1..Len(queue'[m.key]) : m.off <= queue'[m.key][i].off
  <2>1. ASSUME NEW i \in 1..Len(queue'[m.key]) PROVE m.off <= queue'[m.key][i].off
    <3>1. PICK n \in 1..Len(queue[m.key]) : queue'[m.key][i] = queue[m.key][n]
      BY <1>1, <1>2, <1>3, QuietQueues
    <3> QED
      BY <3>1 DEF AckInv
  <2> QED
    BY <1>3, <2>1 DEF Quiet, AckInv
<1>4. ASSUME Quiet, UNCHANGED <<acked, buffer>>, dest' \in {dest, Merged} PROVE AckInv'
  <2>1. \A m \in acked : m.off <= dest'[m.key]
    BY <1>1, <1>2, <1>4 DEF AckInv, Merged
  <2> QED
    BY <1>3, <1>4, <2>1 DEF AckInv
<1>5. ASSUME NEW k \in Keys, Save(k) PROVE AckInv'
  <2>1. Quiet
    BY <1>5, QuietStep
  <2>2. PICK c \in Copies :
          /\ c = queue[k][1] /\ 1 \in 1..Len(queue[k])
          /\ buffer' = [buffer EXCEPT ![k] = c.off]
          /\ UNCHANGED <<acked, dest>>
    BY <1>5, SaveFacts
  <2>3. buffer'[k] = c.off /\ \A j \in Keys \ {k} : buffer'[j] = buffer[j]
    BY <2>2 DEF TypeOK
  <2>4. ASSUME NEW m \in acked, buffer'[m.key] # 0 PROVE m.off <= buffer'[m.key]
    <3>1. CASE m.key = k
      BY <2>2, <2>3, <3>1 DEF AckInv
    <3>2. CASE m.key # k
      BY <1>1, <1>2, <2>3, <2>4, <3>2 DEF AckInv
    <3> QED
      BY <3>1, <3>2
  <2> QED
    BY <1>3, <2>1, <2>2, <2>4 DEF AckInv
<1>6. CASE CommitOffset
  <2>1. Quiet
    BY <1>6, QuietStep
  <2>2. PICK C \in SUBSET kept : acked' = Acked(C)
    BY <1>6 DEF CommitOffset
  <2>3. lock # Nobody /\ step = "commit" /\ dest' = dest /\ buffer' = [k \in Keys |-> 0]
    BY <1>6 DEF CommitOffset, EmptyBuffer
  <2>4. ASSUME NEW m \in acked', m \notin acked
        PROVE  /\ m.off < next'[m.key]
               /\ m.off <= dest'[m.key]
               /\ \A i \in 1..Len(queue'[m.key]) : m.off <= queue'[m.key][i].off
    <3>1. PICK c \in kept : c.attempt = attempt[c.key] /\ c.key = m.key /\ c.off = m.off
      BY <2>2, <2>4, AckedFacts
    <3>2. c \in Copies
      BY DEF TypeOK
    <3>3. /\ c.key \in Keys /\ c.off \in Nat /\ 1 <= c.off /\ c.attempt \in Nat
          /\ next[c.key] \in Nat /\ attempt[c.key] \in Nat
      BY <3>2, CopyFacts, QueueFacts
    <3>4. c.off < next[c.key] /\ next' = next
      BY <2>1, <3>1, <3>3 DEF KeptInv, HandedOut, Quiet
    <3>5. c.off <= buffer[c.key] /\ buffer[c.key] \in Nat
      <4>1. c.off <= buffer[c.key]
        BY <3>1 DEF KeptInv
      <4>2. buffer[c.key] \in Nat
        BY <3>3, PubSubAssumption DEF TypeOK
      <4> QED
        BY <4>1, <4>2
    <3>6. dest[c.key] = buffer[c.key]
      BY <2>3, <3>3, <3>5 DEF FlushInv
    <3>7. ASSUME NEW i \in 1..Len(queue'[c.key]) PROVE c.off <= queue'[c.key][i].off
      <4>1. PICK n \in 1..Len(queue[c.key]) : queue'[c.key][i] = queue[c.key][n]
        BY <2>1, <3>3, QuietQueues
      <4>2. NoLater(c, queue[c.key][n])
        BY DEF KeptInv
      <4>3. /\ queue[c.key][n].key = c.key /\ HandedOut(queue[c.key][n])
            /\ queue[c.key][n].off \in Nat /\ queue[c.key][n].attempt \in Nat
        BY <3>3, QueueFacts DEF QueueInv
      <4>4. queue[c.key][n].attempt <= attempt[c.key]
        BY <3>3, <4>3 DEF HandedOut
      <4> QED
        BY <3>1, <3>3, <4>1, <4>2, <4>3, <4>4 DEF NoLater
    <3> QED
      BY <2>3, <3>1, <3>4, <3>5, <3>6, <3>7
  <2>5. \A m \in acked' : m.key \in Keys
    BY <1>1 DEF TypeOK
  <2> QED
    BY <1>3, <2>1, <2>3, <2>4, <2>5 DEF AckInv
<1>7. ASSUME NEW k \in Keys, Deliver(k) PROVE AckInv'
  <2>1. acked' = acked /\ buffer' = buffer /\ dest' = dest
    BY <1>7 DEF Deliver, memoryVars
  <2>2. PICK c \in Copies :
          /\ c.key = k /\ c.off = next[k]
          /\ next' = [next EXCEPT ![k] = next[k] + 1]
          /\ Len(queue'[k]) = Len(queue[k]) + 1
          /\ queue'[k][Len(queue[k]) + 1] = c
          /\ \A i \in 1..Len(queue[k]) : queue'[k][i] = queue[k][i]
          /\ \A j \in Keys \ {k} : queue'[j] = queue[j]
    BY <1>7, DeliverFacts
  <2>3. ASSUME NEW m \in acked
        PROVE  /\ m.off < next'[m.key]
               /\ \A i \in 1..Len(queue'[m.key]) : m.off <= queue'[m.key][i].off
    <3>1. m.key \in Keys /\ m.off \in Nat /\ m.off < next[m.key]
      BY <1>1, <1>2 DEF AckInv
    <3>2. next[k] \in Nat /\ Len(queue[k]) \in Nat
      BY QueueFacts
    <3>3. CASE m.key # k
      BY <2>2, <3>1, <3>3 DEF AckInv, TypeOK
    <3>4. CASE m.key = k
      <4>1. next'[k] = next[k] + 1
        BY <2>2 DEF TypeOK
      <4>2. \A i \in 1..Len(queue[k]) : m.off <= queue'[k][i].off
        BY <2>2, <3>4 DEF AckInv
      <4>3. m.off <= queue'[k][Len(queue[k]) + 1].off
        BY <2>2, <3>1, <3>2, <3>4
      <4>4. \A i \in 1..Len(queue'[k]) : m.off <= queue'[k][i].off
        <5>1. \A i \in 1..Len(queue'[k]) : i \in 1..Len(queue[k]) \/ i = Len(queue[k]) + 1
          BY <2>2, <3>2
        <5> QED
          BY <4>2, <4>3, <5>1
      <4>5. m.off < next'[k]
        BY <3>1, <3>2, <3>4, <4>1
      <4> QED
        BY <3>4, <4>4, <4>5
    <3> QED
      BY <3>3, <3>4
  <2> QED
    BY <2>1, <2>3 DEF AckInv
<1>8. ASSUME NEW m \in Messages, LeaseExpires(m) PROVE AckInv'
  <2>1. PICK k \in Keys, n \in Nat :
          /\ next' = [next EXCEPT ![k] = n]
          /\ acked' = {x \in acked : ~(x.key = k /\ x.off >= n)}
          /\ UNCHANGED <<queue, buffer, dest>>
    BY <1>8, LeaseFacts
  <2>2. ASSUME NEW x \in acked' PROVE x.off < next'[x.key]
    <3>1. x \in acked /\ x.key \in Keys /\ x.off \in Nat /\ ~(x.key = k /\ x.off >= n)
      BY <1>1, <1>2, <2>1
    <3>2. next'[k] = n /\ \A j \in Keys \ {k} : next'[j] = next[j]
      BY <2>1 DEF TypeOK
    <3> QED
      BY <3>1, <3>2 DEF AckInv
  <2> QED
    BY <2>1, <2>2 DEF AckInv
<1>9. CASE Crash
  <2>1. /\ acked' \subseteq acked /\ dest' = dest
        /\ \A k \in Keys : queue'[k] = << >> /\ buffer'[k] = 0 /\ next'[k] = FirstUnacked(k)
    BY <1>9 DEF Crash, EmptyBuffer
  <2>2. ASSUME NEW x \in acked' PROVE x.off < next'[x.key] /\ x.key \in Keys
    <3>1. x \in Messages /\ x.key \in Keys /\ x.off \in Nat
      BY <1>1, <1>2, <2>1
    <3>2. x \notin From(x.key, FirstUnacked(x.key))
      BY <1>9, <3>1 DEF Crash
    <3>3. ~(x.off >= FirstUnacked(x.key))
      BY <3>1, <3>2 DEF From
    <3>4. FirstUnacked(x.key) \in Nat
      BY <3>1, FirstUnackedType, PubSubAssumption
    <3> QED
      BY <2>1, <3>1, <3>3, <3>4
  <2> QED
    BY <2>1, <2>2 DEF AckInv
<1>10. CASE UNCHANGED vars
  BY <1>4, <1>10, QuietStep DEF vars, serviceVars, memoryVars
<1>11. ASSUME NEW k \in Keys, StartCallback(k) \/ SkipMessage(k) PROVE AckInv'
  BY <1>4, <1>11, QuietStep DEF StartCallback, SkipMessage, serviceVars, memoryVars
<1>12. CASE PoolTick \/ MergeSucceeds \/ MergeFails
  BY <1>4, <1>12, QuietStep DEF PoolTick, MergeSucceeds, MergeFails, serviceVars, memoryVars
<1>13. ASSUME NEW f \in Keys \cup {Pool}, LockTable(f) PROVE AckInv'
  BY <1>4, <1>13, QuietStep DEF LockTable, serviceVars, memoryVars
<1> QED
  BY <1>5, <1>6, <1>7, <1>8, <1>9, <1>10, <1>11, <1>12, <1>13 DEF Next

-----------------------------------------------------------------------------
\* No slot is taken, and a kept copy is let go only together with its slot.
KeepsSlots == outstanding' \subseteq outstanding /\ kept \cap outstanding' \subseteq kept'

\* Slots stay accounted for: no queue changes, or one callback returns.
LEMMA SlotsWhenUnchanged ==
  ASSUME SlotInv, KeepsSlots, queue' = queue,
         \A k \in Keys : cpc'[k] = "flush" => cpc[k] = "flush" \/ Head(queue[k]) \in kept'
  PROVE  SlotInv'
BY DEF SlotInv, OnlySkippedLeak, KeepsSlots, MessageOf

LEMMA SlotsWhenReturning ==
  ASSUME TypeOK, QueueInv, SlotInv, KeepsSlots, NEW k \in Keys, queue[k] # << >>,
         cpc' = [cpc EXCEPT ![k] = "idle"], queue' = [queue EXCEPT ![k] = Tail(queue[k])],
         \/ MessageOf(Head(queue[k])) \in Skipped
         \/ Head(queue[k]) \in kept'
         \/ Head(queue[k]) \notin outstanding'
  PROVE  SlotInv'
<1>1. /\ queue'[k] = Tail(queue[k]) /\ cpc'[k] = "idle"
      /\ \A j \in Keys \ {k} : queue'[j] = queue[j] /\ cpc'[j] = cpc[j]
  BY DEF TypeOK
<1>2. queue[k] \in Seq(Copies)
  BY DEF TypeOK
<1>3. ASSUME NEW c \in outstanding', MessageOf(c) \notin Skipped, c \notin kept'
      PROVE  \E i \in 1..Len(queue'[c.key]) : queue'[c.key][i] = c
  <2>1. c \in outstanding /\ c \notin kept
    BY <1>3 DEF KeepsSlots
  <2>2. PICK i \in 1..Len(queue[c.key]) : queue[c.key][i] = c
    BY <1>3, <2>1 DEF SlotInv, OnlySkippedLeak
  <2>3. c.key \in Keys
    BY <2>1, CopyFacts DEF TypeOK
  <2>4. CASE c.key # k
    BY <1>1, <2>2, <2>3, <2>4
  <2>5. CASE c.key = k
    <3>1. c # Head(queue[k])
      BY <1>3
    <3>2. i # 1
      <4>1. Head(queue[k]) = queue[k][1]
        BY <1>2, TailFacts
      <4> QED
        BY <2>2, <2>5, <3>1, <4>1
    <3>3. i \in 1..Len(queue[k]) /\ queue[k][i] = c
      BY <2>2, <2>5
    <3>4. i - 1 \in 1..Len(Tail(queue[k])) /\ Tail(queue[k])[i - 1] = c
      BY <1>2, <3>2, <3>3, TailFacts
    <3> QED
      BY <1>1, <2>5, <3>4
  <2> QED
    BY <2>4, <2>5
<1>4. OnlySkippedLeak'
  BY <1>3 DEF OnlySkippedLeak, MessageOf
<1>5. \A j \in Keys : cpc'[j] = "flush" => Head(queue'[j]) \in kept' \/ Head(queue'[j]) \notin outstanding'
  BY <1>1 DEF SlotInv, KeepsSlots
<1> QED
  BY <1>4, <1>5 DEF SlotInv

\* Whoever returns from Flush, its slot is accounted for.
LEMMA SlotsReturn ==
  ASSUME TypeOK, QueueInv, SlotInv, KeepsSlots, NEW f \in Keys \cup {Pool}, FlushReturns(f),
         f \in Keys => cpc[f] = "flush"
  PROVE  SlotInv'
<1>1. CASE f = Pool
  BY <1>1, SlotsWhenUnchanged DEF FlushReturns
<1>2. CASE f \in Keys
  <2>1. f # Pool /\ queue[f] # << >>
    BY <1>2, PubSubAssumption DEF QueueInv
  <2>2. Head(queue[f]) \in kept' \/ Head(queue[f]) \notin outstanding'
    BY <1>2 DEF SlotInv, KeepsSlots
  <2> QED
    BY <1>2, <2>1, <2>2, SlotsWhenReturning DEF FlushReturns
<1> QED
  BY <1>1, <1>2

\* Every step accounts for the slots.
LEMMA SlotStep ==
  ASSUME IInv, [Next]_vars
  PROVE  SlotInv'
<1> USE DEF IInv
<1>1. CASE UNCHANGED vars
  BY <1>1, SlotsWhenUnchanged DEF KeepsSlots, vars, libraryVars, memoryVars
<1>2. ASSUME NEW k \in Keys, Deliver(k) PROVE SlotInv'
  <2>1. kept' = kept /\ cpc' = cpc
    BY <1>2 DEF Deliver, memoryVars
  <2>2. PICK c \in Copies :
          /\ c.key = k /\ c.off = next[k] /\ c.attempt = attempt[k]
          /\ outstanding' = outstanding \cup {c}
          /\ Len(queue'[k]) = Len(queue[k]) + 1
          /\ queue'[k][Len(queue[k]) + 1] = c
          /\ \A i \in 1..Len(queue[k]) : queue'[k][i] = queue[k][i]
          /\ \A j \in Keys \ {k} : queue'[j] = queue[j]
    BY <1>2, DeliverFacts
  <2>3. Len(queue[k]) \in Nat /\ next[k] \in Nat /\ attempt[k] \in Nat
    BY QueueFacts
  <2>4. ASSUME NEW d \in outstanding', MessageOf(d) \notin Skipped, d \notin kept'
        PROVE  \E i \in 1..Len(queue'[d.key]) : queue'[d.key][i] = d
    <3>1. CASE d = c
      BY <2>2, <2>3, <3>1
    <3>2. CASE d \in outstanding
      <4>1. PICK i \in 1..Len(queue[d.key]) : queue[d.key][i] = d
        BY <2>1, <2>4, <3>2 DEF SlotInv, OnlySkippedLeak
      <4>2. d.key \in Keys
        BY <3>2, CopyFacts DEF TypeOK
      <4>3. i \in 1..Len(queue'[d.key]) /\ queue'[d.key][i] = queue[d.key][i]
        BY <2>2, <2>3, <4>1, <4>2
      <4> QED
        BY <4>1, <4>3
    <3> QED
      BY <2>2, <3>1, <3>2
  <2>5. ASSUME NEW j \in Keys, cpc[j] = "flush"
        PROVE  Head(queue'[j]) = Head(queue[j]) /\ Head(queue[j]) # c
    <3>1. queue[j] # << >> /\ queue[j] \in Seq(Copies)
      BY <2>5 DEF QueueInv, TypeOK
    <3>2. Head(queue[j]) = queue[j][1] /\ 1 \in 1..Len(queue[j])
      BY <3>1, TailFacts
    <3>3. queue[j][1].key = j /\ HandedOut(queue[j][1])
      BY <3>2 DEF QueueInv
    <3>4. Head(queue[j]) # c
      BY <2>2, <2>3, <3>2, <3>3 DEF HandedOut
    <3>5. Head(queue'[j]) = Head(queue[j])
      <4>1. CASE j # k
        BY <2>2, <4>1
      <4>2. CASE j = k
        <5>1. Head(queue'[k]) = queue'[k][1]
          OBVIOUS
        <5> QED
          BY <2>2, <3>2, <4>2, <5>1
      <4> QED
        BY <4>1, <4>2
    <3> QED
      BY <3>4, <3>5
  <2>6. OnlySkippedLeak'
    BY <2>4 DEF OnlySkippedLeak, MessageOf
  <2> QED
    BY <2>1, <2>2, <2>5, <2>6 DEF SlotInv
<1>3. ASSUME NEW k \in Keys, StartCallback(k) PROVE SlotInv'
  <2>1. \A j \in Keys : cpc'[j] = "flush" => cpc[j] = "flush"
    BY <1>3 DEF StartCallback, TypeOK
  <2> QED
    BY <1>3, <2>1, SlotsWhenUnchanged DEF KeepsSlots, StartCallback, libraryVars, memoryVars
<1>4. ASSUME NEW k \in Keys, SkipMessage(k) PROVE SlotInv'
  <2>1. queue[k] # << >>
    BY <1>4 DEF SkipMessage, QueueInv
  <2> QED
    BY <1>4, <2>1, SlotsWhenReturning DEF KeepsSlots, SkipMessage, memoryVars
<1>5. ASSUME NEW k \in Keys, Save(k) PROVE SlotInv'
  <2>1. queue[k] # << >> /\ Head(queue[k]) \in kept' /\ KeepsSlots
    BY <1>5, SaveFacts DEF KeepsSlots
  <2>2. CASE cpc' = [cpc EXCEPT ![k] = "flush"] /\ queue' = queue
    <3>1. \A j \in Keys : cpc'[j] = "flush" => cpc[j] = "flush" \/ Head(queue[j]) \in kept'
      BY <2>1, <2>2 DEF TypeOK
    <3> QED
      BY <2>1, <2>2, <3>1, SlotsWhenUnchanged
  <2>3. CASE cpc' = [cpc EXCEPT ![k] = "idle"] /\ queue' = [queue EXCEPT ![k] = Tail(queue[k])]
    BY <2>1, <2>3, SlotsWhenReturning
  <2> QED
    BY <1>5, <2>2, <2>3, SaveReturns
<1>6. CASE PoolTick \/ MergeSucceeds
  BY <1>6, SlotsWhenUnchanged DEF KeepsSlots, PoolTick, MergeSucceeds, libraryVars, memoryVars
<1>7. ASSUME NEW f \in Keys \cup {Pool}, LockTable(f) PROVE SlotInv'
  <2>1. (f \in Keys => cpc[f] = "flush") /\ KeepsSlots
    BY <1>7, PubSubAssumption DEF LockTable, Flushing, KeepsSlots, memoryVars
  <2>2. FlushReturns(f) \/ UNCHANGED <<cpc, queue>>
    BY <1>7 DEF LockTable
  <2> QED
    BY <2>1, <2>2, SlotsReturn, SlotsWhenUnchanged
<1>8. CASE MergeFails \/ CommitOffset
  <2>1. lock \in Keys \cup {Pool} /\ FlushReturns(lock) /\ (lock \in Keys => cpc[lock] = "flush")
    BY <1>8 DEF MergeFails, CommitOffset, TypeOK, FlushInv
  <2>2. KeepsSlots
    BY <1>8 DEF MergeFails, CommitOffset, KeepsSlots, memoryVars
  <2> QED
    BY <2>1, <2>2, SlotsReturn
<1>9. ASSUME NEW m \in Messages, LeaseExpires(m) PROVE SlotInv'
  BY <1>9, SlotsWhenUnchanged DEF KeepsSlots, LeaseExpires, libraryVars, memoryVars
<1>10. CASE Crash
  BY <1>10 DEF Crash, SlotInv, OnlySkippedLeak
<1> QED
  BY <1>1, <1>2, <1>3, <1>4, <1>5, <1>6, <1>7, <1>8, <1>9, <1>10 DEF Next

-----------------------------------------------------------------------------
\* A new process starts in the invariant.
LEMMA InitIInv == Init => IInv
<1> SUFFICES ASSUME Init PROVE IInv
  OBVIOUS
<1>1. \A k \in Keys : queue[k] = << >> /\ cpc[k] = "idle"
  BY DEF Init
<1>2. TypeOK
  <2>1. << >> \in Seq(Copies)
    OBVIOUS
  <2>2. queue \in [Keys -> Seq(Copies)]
    BY <2>1 DEF Init
  <2> QED
    BY <2>2, PubSubAssumption DEF Init, TypeOK, EmptyBuffer
<1>3. QueueInv
  BY <1>1 DEF QueueInv
<1>4. FlushInv /\ KeptInv /\ AckInv
  BY PubSubAssumption DEF Init, FlushInv, KeptInv, AckInv
<1>5. SlotInv
  BY <1>1 DEF Init, SlotInv, OnlySkippedLeak
<1> QED
  BY <1>2, <1>3, <1>4, <1>5 DEF IInv

\* The inductive invariant: copies of a key are saved in the order in which the
\* service handed them out, and no acked message has an older copy on its way.
THEOREM Invariance == Spec => []IInv
<1>1. IInv /\ [Next]_vars => IInv'
  <2> SUFFICES ASSUME IInv, [Next]_vars PROVE IInv'
    OBVIOUS
  <2>1. TypeOK'
    BY TypeStep DEF IInv
  <2> QED
    BY <2>1, QueueStep, FlushStep, KeptStep, AckStep, SlotStep DEF IInv
<1> QED
  BY <1>1, InitIInv, PTL DEF Spec

\* Every variable of the subscriber keeps its shape.
THEOREM TypeCorrect == Spec => []TypeOK
BY Invariance, PTL DEF IInv

\* What subscriber and service consider done (commitOffset acks it, the service does not
\* send it again) is in the destination in its own or in a later version, whatever
\* leases expire, acks get lost, merges fail and processes die.
THEOREM AckedStaysDurable == Spec => []AckedIsDurable
<1>1. IInv => AckedIsDurable
  <2> SUFFICES ASSUME IInv, NEW m \in acked PROVE dest[m.key] >= m.off
    BY DEF AckedIsDurable
  <2>1. m.off <= dest[m.key]
    BY DEF IInv, AckInv
  <2> QED
    BY <2>1
<1> QED
  BY <1>1, Invariance, PTL

\* A slot of MaxOutstandingMessages is lost for good only to a message that process()
\* passes over or rejects: any other copy is in a callback or acked by the next flush.
THEOREM SlotsReturnToService == Spec => []OnlySkippedLeak
<1>1. IInv => OnlySkippedLeak
  BY DEF IInv, SlotInv
<1> QED
  BY <1>1, Invariance, PTL

=============================================================================
