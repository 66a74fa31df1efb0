--------------------------- MODULE RowBatchProofs ---------------------------
(***************************************************************************)
(* Proofs about RowBatch, for every set of keys, columns and values, with  *)
(* and without soft deletes, for MERGE and for Redshift's statements.      *)
(*                                                                         *)
(* The invariant is stated for one key at a time, over its log L, the      *)
(* position p in it, its source row s, buffered row b and destination row  *)
(* d, and is carried through the pieces a flush is made of: the merge, the *)
(* commit that cuts the log, and the wipe of the buffer.                   *)
(***************************************************************************)
EXTENDS RowBatch, TLAPS

\* Every event of the log after the i-th leaves column c alone.
Kept(L, c, i) == \A j \in (i + 1)..Len(L) : c \in L[j].T

\* The log ends in the source's row, a column that is left alone from some event on has
\* the value it had there, and only an existing row has columns to leave alone.
LogGood(L, s) ==
  /\ Len(L) > 0 => L[Len(L)].v = s
  /\ \A i \in 1..Len(L) : L[i].v = NoRow => L[i].T = {}
  /\ \A i \in 1..Len(L) : i < Len(L) /\ L[i].v = NoRow => L[i + 1].T = {}
  /\ \A i \in 1..Len(L), c \in Cols :
       Kept(L, c, i) /\ s # NoRow => L[i].v # NoRow /\ L[i].v[c] = s[c]

\* The flags of the batch cover the buffered row.
BufGood(sd, b, tc, hd) ==
  /\ b # NoRow /\ b.deleted => (sd \/ hd) /\ \A c \in Cols : b.val[c] = Missing
  /\ b # NoRow /\ ~b.deleted => \A c \in Cols : b.val[c] # Missing /\ (b.val[c] = Toast => tc[c])

\* At the end of the log the buffered row is deleted exactly if the source's is, and
\* with nothing left to replay the destination is the source's row already.
PosGood(L, p, s, b, d) ==
  /\ b = NoRow => p = 0
  /\ b # NoRow /\ p = Len(L) => (b.deleted <=> s = NoRow)
  /\ Len(L) = 0 => Live(d) = s

\* A column that all events after p leave alone has the source's value: in the buffered
\* row, or in the destination under a placeholder or with nothing buffered.
CurGood(L, p, s, b, d) ==
  \A c \in Cols : Kept(L, c, p) /\ s # NoRow =>
    /\ b = NoRow => d # NoRow /\ d.val[c] = s[c]
    /\ b # NoRow => /\ ~b.deleted
                    /\ \/ b.val[c] = s[c]
                       \/ b.val[c] = Toast /\ d # NoRow /\ d.val[c] = s[c]

\* With soft deletes a row that is not in the destination is never about to be
\* inserted with a placeholder, by the batch or by a replay.
SoftGood(sd, L, p, b, d) ==
  /\ ~sd /\ d # NoRow => ~d.deleted
  /\ sd /\ d # NoRow => \A c \in Cols : d.val[c] # Toast
  /\ sd /\ d = NoRow =>
       /\ Len(L) > 0 => L[1].T = {}
       /\ b # NoRow => \A c \in Cols : b.val[c] # Toast
       /\ b # NoRow /\ b.deleted /\ p < Len(L) => L[p + 1].T = {}

Typed(L, p, s, b, d) ==
  /\ L \in Seq(Events)
  /\ p \in 0..Len(L)
  /\ s \in SourceRows \cup {NoRow}
  /\ b \in BufferRow \cup {NoRow}
  /\ d \in DestRows \cup {NoRow}

Good(sd, L, p, s, b, d, tc, hd) ==
  /\ Typed(L, p, s, b, d)
  /\ LogGood(L, s)
  /\ BufGood(sd, b, tc, hd)
  /\ PosGood(L, p, s, b, d)
  /\ CurGood(L, p, s, b, d)
  /\ CurGood(L, 0, s, NoRow, d)
  /\ SoftGood(sd, L, p, b, d)

KeyInv(k) ==
  Good(softDelete, log[k], position[k], source[k], buffer[k], dest[k], toastCol, hardDeletes)

IInv ==
  /\ TypeOK
  /\ \A k \in Keys : KeyInv(k)

-----------------------------------------------------------------------------
\* What merging a buffered row leaves in the destination.
LEMMA MergedFacts ==
  ASSUME NEW k \in Keys,
         buffer[k] \in BufferRow \cup {NoRow}, dest[k] \in DestRows \cup {NoRow},
         toastCol \in [Cols -> BOOLEAN], softDelete \in BOOLEAN, hardDeletes \in BOOLEAN,
         statement \in {"merge", "parts"},
         BufGood(softDelete, buffer[k], toastCol, hardDeletes)
  PROVE  /\ MergedRow(k) \in DestRows \cup {NoRow}
         /\ buffer[k] = NoRow => MergedRow(k) = dest[k]
         /\ buffer[k] # NoRow /\ buffer[k].deleted =>
              /\ Live(MergedRow(k)) = NoRow
              /\ MergedRow(k) # NoRow => MergedRow(k).deleted /\ softDelete
              /\ MergedRow(k) # NoRow => \A c \in Cols : MergedRow(k).val[c] # Toast
              /\ softDelete /\ MergedRow(k) = NoRow => dest[k] = NoRow
         /\ buffer[k] # NoRow /\ ~buffer[k].deleted =>
              /\ MergedRow(k) # NoRow /\ ~MergedRow(k).deleted
              /\ \A c \in Cols : MergedRow(k).val[c] =
                   IF buffer[k].val[c] = Toast /\ dest[k] # NoRow THEN dest[k].val[c] ELSE buffer[k].val[c]
<1> DEFINE b == buffer[k]
           d == dest[k]
<1>1. CASE b = NoRow
  <2>1. MergedRow(k) = d
    BY <1>1 DEF MergedRow
  <2> QED
    BY <1>1, <2>1
<1>2. CASE b # NoRow /\ b.deleted
  <2> DEFINE nulls == [x \in Cols |-> Null]
             R == [deleted |-> TRUE, val |-> nulls]
  <2>1. (softDelete \/ hardDeletes) /\ \A x \in Cols : b.val[x] = Missing
    BY <1>2 DEF BufGood
  <2>2. Staged(b) = nulls
    BY <2>1 DEF Staged
  <2>3. \A r : Updated(b, r) = nulls
    BY <2>2, RowBatchAssumption DEF Updated, Fields
  <2>4. CASE ~softDelete
    <3>1. GetStatement(b, d) = NoRow
      BY <1>2, <2>4 DEF GetStatement
    <3>2. GetParts(b, d) = NoRow
      BY <1>2, <2>1, <2>4 DEF GetParts
    <3>3. MergedRow(k) = NoRow
      BY <1>2, <3>1, <3>2 DEF MergedRow
    <3> QED
      BY <1>2, <2>4, <3>3 DEF Live
  <2>5. CASE softDelete
    <3>1. Inserted(b) = R /\ \A r : UpdatedRow(b, r) = R
      BY <1>2, <2>2, <2>3, <2>5 DEF Inserted, UpdatedRow, Marker
    <3>2. GetStatement(b, d) = R \/ (GetStatement(b, d) = NoRow /\ d = NoRow)
      BY <1>2, <2>5, <3>1 DEF GetStatement
    <3>3. GetParts(b, d) = R
      BY <2>5, <3>1 DEF GetParts
    <3>4. MergedRow(k) = R \/ (MergedRow(k) = NoRow /\ d = NoRow)
      BY <1>2, <3>2, <3>3 DEF MergedRow
    <3>5. R \in DestRows /\ R.deleted /\ \A x \in Cols : R.val[x] # Toast
      BY RowBatchAssumption DEF DestRows, Fields
    <3>6. R # NoRow
      BY <3>5, RowBatchAssumption
    <3>7. Live(MergedRow(k)) = NoRow
      BY <3>4, <3>5 DEF Live
    <3> HIDE DEF R
    <3> QED
      BY <1>2, <2>5, <3>4, <3>5, <3>6, <3>7
  <2> QED
    BY <2>4, <2>5
<1>3. CASE b # NoRow /\ ~b.deleted
  <2> DEFINE w == [x \in Cols |-> IF b.val[x] = Toast /\ d # NoRow THEN d.val[x] ELSE b.val[x]]
             R == [deleted |-> FALSE, val |-> w]
  <2>1. /\ b \in BufferRow /\ b.val \in [Cols -> Fields \cup {Toast, Missing}]
        /\ \A x \in Cols : b.val[x] # Missing /\ (b.val[x] = Toast => toastCol[x])
    BY <1>3 DEF BufGood, BufferRow
  <2>2. Staged(b) = b.val
    BY <2>1 DEF Staged
  <2>3. Marker(b) = FALSE
    BY <1>3 DEF Marker
  <2>4. ASSUME d = NoRow
        PROVE  MergedRow(k) = R
    <3>1. b.val = w
      BY <2>1, <2>4
    <3>2. Inserted(b) = R
      BY <2>2, <2>3, <3>1 DEF Inserted
    <3>3. \A r : r.val = w => Updated(b, r) = w
      BY <2>1, <2>2, <3>1 DEF Updated
    <3>4. \A r : r.val = w => UpdatedRow(b, r) = R
      BY <2>3, <3>3 DEF UpdatedRow
    <3>5. UpdatedRow(b, R) = R
      BY <3>4
    <3> HIDE DEF R, w
    <3>6. GetStatement(b, d) = R
      BY <1>3, <2>4, <3>2 DEF GetStatement
    <3>7. GetParts(b, d) = R
      BY <1>3, <2>4, <3>2, <3>5 DEF GetParts
    <3> QED
      BY <1>3, <3>6, <3>7 DEF MergedRow
  <2>5. ASSUME d # NoRow
        PROVE  MergedRow(k) = R
    <3>1. Updated(b, d) = w
      BY <2>1, <2>2, <2>5 DEF Updated
    <3>2. UpdatedRow(b, d) = R
      BY <2>3, <3>1 DEF UpdatedRow
    <3>3. GetStatement(b, d) = R
      BY <1>3, <2>5, <3>2 DEF GetStatement
    <3>4. GetParts(b, d) = R
      BY <1>3, <2>5, <3>2 DEF GetParts
    <3> QED
      BY <1>3, <3>3, <3>4 DEF MergedRow
  <2>6. R \in DestRows /\ R.deleted = FALSE /\ R.val = w
    <3>1. \A x \in Cols : w[x] \in Fields \cup {Toast}
      BY <2>1 DEF DestRows
    <3> QED
      BY <3>1 DEF DestRows
  <2>7. R # NoRow
    BY <2>6, RowBatchAssumption
  <2>8. MergedRow(k) = R
    BY <2>4, <2>5
  <2>9. \A x \in Cols : w[x] = IF b.val[x] = Toast /\ d # NoRow THEN d.val[x] ELSE b.val[x]
    OBVIOUS
  <2> HIDE DEF R, w
  <2> QED
    BY <1>3, <2>6, <2>7, <2>8, <2>9
<1> QED
  BY <1>1, <1>2, <1>3

\* At the end of the log the merged row is the source's.
LEMMA MergedIsSource ==
  ASSUME TypeOK, NEW k \in Keys, KeyInv(k), position[k] = Len(log[k])
  PROVE  Live(MergedRow(k)) = source[k]
<1> DEFINE b == buffer[k]
           s == source[k]
           m == MergedRow(k)
<1>1. /\ Typed(log[k], position[k], s, b, dest[k])
      /\ BufGood(softDelete, b, toastCol, hardDeletes)
      /\ PosGood(log[k], position[k], s, b, dest[k])
      /\ CurGood(log[k], position[k], s, b, dest[k])
  BY DEF KeyInv, Good
<1>2. /\ m \in DestRows \cup {NoRow}
      /\ b = NoRow => m = dest[k]
      /\ b # NoRow /\ b.deleted => Live(m) = NoRow
      /\ b # NoRow /\ ~b.deleted =>
              /\ m # NoRow /\ ~m.deleted
              /\ \A c \in Cols : m.val[c] =
                   IF b.val[c] = Toast /\ dest[k] # NoRow THEN dest[k].val[c] ELSE b.val[c]
  BY <1>1, MergedFacts DEF TypeOK, Typed
<1>3. CASE b = NoRow
  BY <1>1, <1>2, <1>3 DEF PosGood
<1>4. CASE b # NoRow /\ b.deleted
  BY <1>1, <1>2, <1>4 DEF PosGood
<1>5. CASE b # NoRow /\ ~b.deleted
  <2>1. s # NoRow /\ s \in SourceRows
    BY <1>1, <1>5 DEF PosGood, Typed
  <2>2. \A c \in Cols : Kept(log[k], c, position[k])
    BY <1>1 DEF Kept, Typed
  <2>3. \A c \in Cols : s[c] # Toast
    BY <2>1, RowBatchAssumption DEF SourceRows
  <2>4. \A c \in Cols : m.val[c] = s[c]
    BY <1>1, <1>2, <1>5, <2>1, <2>2, <2>3 DEF CurGood
  <2>5. m.val = s
    BY <1>2, <1>5, <2>1, <2>4 DEF DestRows, SourceRows
  <2> QED
    BY <1>2, <1>5, <2>5 DEF Live
<1> QED
  BY <1>3, <1>4, <1>5

\* The merge keeps the invariant of a key, with the buffer as it is.
LEMMA MergeKeeps ==
  ASSUME TypeOK, NEW k \in Keys, KeyInv(k)
  PROVE  Good(softDelete, log[k], position[k], source[k], buffer[k], MergedRow(k), toastCol, hardDeletes)
<1> DEFINE L == log[k]
           p == position[k]
           s == source[k]
           b == buffer[k]
           d == dest[k]
           m == MergedRow(k)
<1>1. /\ Typed(L, p, s, b, d) /\ LogGood(L, s)
      /\ BufGood(softDelete, b, toastCol, hardDeletes)
      /\ PosGood(L, p, s, b, d) /\ CurGood(L, p, s, b, d)
      /\ CurGood(L, 0, s, NoRow, d) /\ SoftGood(softDelete, L, p, b, d)
  BY DEF KeyInv, Good
<1>2. /\ m \in DestRows \cup {NoRow}
      /\ b = NoRow => m = d
      /\ b # NoRow /\ b.deleted =>
              /\ Live(m) = NoRow
              /\ m # NoRow => m.deleted /\ softDelete
              /\ m # NoRow => \A c \in Cols : m.val[c] # Toast
              /\ softDelete /\ m = NoRow => d = NoRow
      /\ b # NoRow /\ ~b.deleted =>
              /\ m # NoRow /\ ~m.deleted
              /\ \A c \in Cols : m.val[c] =
                   IF b.val[c] = Toast /\ d # NoRow THEN d.val[c] ELSE b.val[c]
  BY <1>1, MergedFacts DEF TypeOK, Typed
<1>3. p = Len(L) => Live(m) = s
  BY MergedIsSource
<1> HIDE DEF L, p, s, b, d, m
<1>4. Typed(L, p, s, b, m)
  BY <1>1, <1>2 DEF Typed
<1>5. PosGood(L, p, s, b, m)
  <2>1. p \in 0..Len(L) /\ Len(L) \in Nat
    BY <1>1 DEF Typed
  <2> QED
    BY <1>1, <1>3, <2>1 DEF PosGood
<1>6. ASSUME NEW c \in Cols, Kept(L, c, p), s # NoRow
      PROVE  m # NoRow /\ m.val[c] = s[c]
  <2>1. s[c] # Toast
    BY <1>1, <1>6, RowBatchAssumption DEF Typed, SourceRows
  <2>2. CASE b = NoRow
    BY <1>1, <1>2, <1>6, <2>2 DEF CurGood
  <2>3. CASE b # NoRow
    <3>1. ~b.deleted /\ (b.val[c] = s[c] \/ (b.val[c] = Toast /\ d # NoRow /\ d.val[c] = s[c]))
      BY <1>1, <1>6, <2>3 DEF CurGood
    <3> QED
      BY <1>2, <2>1, <2>3, <3>1
  <2> QED
    BY <2>2, <2>3
<1>7. CurGood(L, p, s, b, m)
  BY <1>1, <1>6 DEF CurGood
<1>8. CurGood(L, 0, s, NoRow, m)
  <2>1. ASSUME NEW c \in Cols, Kept(L, c, 0), s # NoRow
        PROVE  m # NoRow /\ m.val[c] = s[c]
    <3>1. Kept(L, c, p)
      BY <1>1, <2>1 DEF Kept, Typed
    <3> QED
      BY <1>6, <2>1, <3>1
  <2> QED
    BY <2>1 DEF CurGood
<1>9. SoftGood(softDelete, L, p, b, m)
  <2>1. ~softDelete /\ m # NoRow => ~m.deleted
    BY <1>1, <1>2 DEF SoftGood
  <2>2. softDelete /\ m # NoRow => \A c \in Cols : m.val[c] # Toast
    BY <1>1, <1>2 DEF SoftGood
  <2>3. softDelete /\ m = NoRow => d = NoRow
    BY <1>2
  <2> QED
    BY <1>1, <2>1, <2>2, <2>3 DEF SoftGood
<1> QED
  BY <1>1, <1>4, <1>5, <1>7, <1>8, <1>9 DEF Good, L, p, s, b, d, m

\* Cutting the committed events off the log keeps the invariant of a key, if the
\* destination has what the buffer has.
LEMMA CommitKeeps ==
  ASSUME TypeOK, NEW k \in Keys, KeyInv(k)
  PROVE  Good(softDelete, SubSeq(log[k], position[k] + 1, Len(log[k])), 0, source[k], buffer[k],
              MergedRow(k), toastCol, hardDeletes)
<1> DEFINE L == log[k]
           p == position[k]
           s == source[k]
           b == buffer[k]
           m == MergedRow(k)
           N == SubSeq(L, p + 1, Len(L))
<1>1. Good(softDelete, L, p, s, b, m, toastCol, hardDeletes)
  BY MergeKeeps
<1>2. p = Len(L) => Live(m) = s
  BY MergedIsSource
<1>3. softDelete /\ m = NoRow => b = NoRow \/ b.deleted
  BY MergedFacts DEF KeyInv, Good, TypeOK, Typed
<1>m. /\ b # NoRow /\ ~b.deleted =>
              /\ m # NoRow
              /\ \A c \in Cols : b.val[c] # Toast => m.val[c] = b.val[c]
      /\ buffer[k] \in BufferRow \cup {NoRow}
  BY MergedFacts DEF KeyInv, Good, TypeOK, Typed
<1> HIDE DEF L, p, s, b, m, N
<1>4. /\ L \in Seq(Events) /\ Len(L) \in Nat /\ p \in 0..Len(L)
      /\ Typed(L, p, s, b, m) /\ LogGood(L, s) /\ BufGood(softDelete, b, toastCol, hardDeletes)
      /\ PosGood(L, p, s, b, m) /\ CurGood(L, p, s, b, m) /\ SoftGood(softDelete, L, p, b, m)
  BY <1>1 DEF Good, Typed
<1>5. /\ N \in Seq(Events) /\ Len(N) = Len(L) - p
      /\ \A i \in 1..Len(N) : N[i] = L[p + i]
  BY <1>4 DEF N
<1>6. ASSUME NEW c \in Cols, NEW i \in 0..Len(N), Kept(N, c, i)
      PROVE  Kept(L, c, p + i)
  <2>1. ASSUME NEW j \in (p + i + 1)..Len(L)
        PROVE  c \in L[j].T
    <3>1. j - p \in (i + 1)..Len(N) /\ j - p \in 1..Len(N) /\ p + (j - p) = j
      BY <1>4, <1>5
    <3> QED
      BY <1>5, <1>6, <3>1 DEF Kept
  <2> QED
    BY <2>1 DEF Kept
<1>7. Typed(N, 0, s, b, m)
  BY <1>4, <1>5 DEF Typed
<1>8. LogGood(N, s)
  <2>1. Len(N) > 0 => N[Len(N)].v = s
    BY <1>4, <1>5 DEF LogGood
  <2>2. ASSUME NEW i \in 1..Len(N)
        PROVE  /\ p + i \in 1..Len(L) /\ N[i] = L[p + i] /\ (i < Len(N) => p + i < Len(L) /\ N[i + 1] = L[p + i + 1])
               /\ i \in 0..Len(N)
    BY <1>4, <1>5
  <2>3. \A i \in 1..Len(N) : N[i].v = NoRow => N[i].T = {}
    BY <1>4, <2>2 DEF LogGood
  <2>4. ASSUME NEW i \in 1..Len(N), i < Len(N), N[i].v = NoRow
        PROVE  N[i + 1].T = {}
    <3>1. p + i \in 1..Len(L) /\ p + i < Len(L) /\ L[p + i].v = NoRow /\ N[i + 1] = L[p + i + 1]
      BY <2>2, <2>4
    <3>2. L[(p + i) + 1].T = {}
      BY <1>4, <3>1 DEF LogGood
    <3> QED
      BY <3>1, <3>2
  <2>5. \A i \in 1..Len(N), c \in Cols :
          Kept(N, c, i) /\ s # NoRow => N[i].v # NoRow /\ N[i].v[c] = s[c]
    BY <1>4, <1>6, <2>2 DEF LogGood
  <2> QED
    BY <2>1, <2>3, <2>4, <2>5 DEF LogGood
<1>9. PosGood(N, 0, s, b, m)
  BY <1>2, <1>4, <1>5 DEF PosGood
<1>10. \A c \in Cols : Kept(N, c, 0) => Kept(L, c, p)
  BY <1>4, <1>5, <1>6
<1>11. CurGood(N, 0, s, b, m)
  BY <1>4, <1>10 DEF CurGood
<1>12. CurGood(N, 0, s, NoRow, m)
  <2>1. ASSUME NEW c \in Cols, Kept(N, c, 0), s # NoRow
        PROVE  m # NoRow /\ m.val[c] = s[c]
    <3>1. Kept(L, c, p)
      BY <1>10, <2>1
    <3>2. s[c] # Toast
      BY <1>4, <2>1, RowBatchAssumption DEF Typed, SourceRows
    <3>3. /\ b = NoRow => m # NoRow /\ m.val[c] = s[c]
          /\ b # NoRow => ~b.deleted /\ (b.val[c] = s[c] \/ (b.val[c] = Toast /\ m # NoRow /\ m.val[c] = s[c]))
      BY <1>4, <2>1, <3>1 DEF CurGood
    <3> QED
      BY <1>m, <3>2, <3>3 DEF b, m
  <2> QED
    BY <2>1 DEF CurGood
<1>13. SoftGood(softDelete, N, 0, b, m)
  <2>1. ASSUME softDelete, m = NoRow, Len(N) > 0
        PROVE  N[1].T = {}
    <3>1. N[1] = L[p + 1] /\ p < Len(L)
      BY <1>4, <1>5, <2>1
    <3>2. CASE b = NoRow
      BY <1>4, <2>1, <3>1, <3>2 DEF PosGood, SoftGood
    <3>3. CASE b # NoRow
      BY <1>3, <1>4, <2>1, <3>1, <3>3 DEF SoftGood
    <3> QED
      BY <3>2, <3>3
  <2>2. softDelete /\ m = NoRow => /\ Len(N) > 0 => N[1].T = {}
                                   /\ b # NoRow => \A c \in Cols : b.val[c] # Toast
                                   /\ b # NoRow /\ b.deleted /\ 0 < Len(N) => N[0 + 1].T = {}
    BY <1>4, <2>1 DEF SoftGood
  <2> QED
    BY <1>4, <2>2 DEF SoftGood
<1> QED
  BY <1>4, <1>7, <1>8, <1>9, <1>11, <1>12, <1>13 DEF Good, L, p, s, b, m, N

\* A process without a batch that reads its log from the start.
LEMMA WipedKeeps ==
  ASSUME NEW sd, NEW L, NEW p, NEW s, NEW b, NEW d, NEW tc, NEW hd,
         Good(sd, L, p, s, b, d, tc, hd), NEW tc2, NEW hd2
  PROVE  Good(sd, L, 0, s, NoRow, d, tc2, hd2)
<1>1. /\ Typed(L, p, s, b, d) /\ LogGood(L, s) /\ PosGood(L, p, s, b, d)
      /\ CurGood(L, 0, s, NoRow, d) /\ SoftGood(sd, L, p, b, d)
  BY DEF Good
<1>2. Typed(L, 0, s, NoRow, d)
  BY <1>1 DEF Typed
<1>3. BufGood(sd, NoRow, tc2, hd2)
  BY DEF BufGood
<1>4. PosGood(L, 0, s, NoRow, d)
  BY <1>1 DEF PosGood
<1>5. SoftGood(sd, L, 0, NoRow, d)
  BY <1>1 DEF SoftGood
<1> QED
  BY <1>1, <1>2, <1>3, <1>4, <1>5 DEF Good

\* The source changes a row: an event is appended to the log of its key.
LEMMA EmitKeeps ==
  ASSUME NEW sd, NEW L, NEW p, NEW s, NEW b, NEW d, NEW tc, NEW hd,
         Good(sd, L, p, s, b, d, tc, hd),
         NEW v \in SourceRows \cup {NoRow}, NEW T \in SUBSET Cols,
         v = NoRow \/ s = NoRow => T = {},
         v # NoRow /\ s # NoRow => \A c \in T : s[c] = v[c]
  PROVE  Good(sd, Append(L, [v |-> v, T |-> T]), p, v, b, d, tc, hd)
<1> DEFINE e == [v |-> v, T |-> T]
           N == Append(L, e)
<1>1. /\ Typed(L, p, s, b, d) /\ LogGood(L, s) /\ BufGood(sd, b, tc, hd)
      /\ PosGood(L, p, s, b, d) /\ CurGood(L, p, s, b, d)
      /\ CurGood(L, 0, s, NoRow, d) /\ SoftGood(sd, L, p, b, d)
  BY DEF Good
<1>2. e \in Events /\ e.v = v /\ e.T = T
  BY DEF Events
<1> HIDE DEF e
<1>3. /\ L \in Seq(Events) /\ Len(L) \in Nat /\ p \in 0..Len(L)
      /\ N \in Seq(Events) /\ Len(N) = Len(L) + 1 /\ N[Len(L) + 1] = e
      /\ \A i \in 1..Len(L) : N[i] = L[i]
  BY <1>1, <1>2 DEF Typed
<1> HIDE DEF N
<1>4. ASSUME NEW c \in Cols, NEW i \in 0..Len(L), Kept(N, c, i)
      PROVE  c \in T /\ Kept(L, c, i) /\ v # NoRow /\ s # NoRow /\ s[c] = v[c]
  <2>1. c \in N[Len(L) + 1].T
    BY <1>3, <1>4 DEF Kept
  <2>2. Kept(L, c, i)
    BY <1>3, <1>4 DEF Kept
  <2> QED
    BY <1>2, <1>3, <2>1, <2>2
<1>5. Typed(N, p, v, b, d)
  BY <1>1, <1>3 DEF Typed
<1>6. LogGood(N, v)
  <2>1. N[Len(N)].v = v
    BY <1>2, <1>3
  <2>2. \A i \in 1..Len(N) : N[i].v = NoRow => N[i].T = {}
    BY <1>1, <1>2, <1>3 DEF LogGood
  <2>3. ASSUME NEW i \in 1..Len(N), i < Len(N), N[i].v = NoRow
        PROVE  N[i + 1].T = {}
    <3>1. i \in 1..Len(L) /\ L[i].v = NoRow
      BY <1>3, <2>3
    <3>2. CASE i < Len(L)
      BY <1>1, <1>3, <3>1, <3>2 DEF LogGood
    <3>3. CASE i = Len(L)
      BY <1>1, <1>2, <1>3, <3>1, <3>3 DEF LogGood
    <3> QED
      BY <1>3, <3>1, <3>2, <3>3
  <2>4. ASSUME NEW i \in 1..Len(N), NEW c \in Cols, Kept(N, c, i), v # NoRow
        PROVE  N[i].v # NoRow /\ N[i].v[c] = v[c]
    <3>1. CASE i \in 1..Len(L)
      <4>1. Kept(L, c, i) /\ s # NoRow /\ s[c] = v[c]
        BY <1>3, <1>4, <2>4, <3>1
      <4>2. L[i].v # NoRow /\ L[i].v[c] = s[c]
        BY <1>1, <3>1, <4>1 DEF LogGood
      <4> QED
        BY <1>3, <3>1, <4>1, <4>2
    <3>2. CASE i = Len(L) + 1
      BY <1>2, <1>3, <2>4, <3>2
    <3> QED
      BY <1>3, <3>1, <3>2
  <2> QED
    BY <2>1, <2>2, <2>3, <2>4 DEF LogGood
<1>7. PosGood(N, p, v, b, d)
  BY <1>1, <1>3 DEF PosGood
<1>8. CurGood(N, p, v, b, d) /\ CurGood(N, 0, v, NoRow, d)
  BY <1>1, <1>3, <1>4 DEF CurGood
<1>9. SoftGood(sd, N, p, b, d)
  <2>1. ASSUME sd, d = NoRow
        PROVE  N[1].T = {}
    <3>1. CASE Len(L) > 0
      BY <1>1, <1>3, <2>1, <3>1 DEF SoftGood
    <3>2. CASE Len(L) = 0
      <4>1. s = NoRow
        BY <1>1, <2>1, <3>2 DEF PosGood, Live
      <4> QED
        BY <1>2, <1>3, <3>2, <4>1
    <3> QED
      BY <1>3, <3>1, <3>2
  <2>2. ASSUME sd, d = NoRow, b # NoRow, b.deleted
        PROVE  N[p + 1].T = {}
    <3>1. CASE p < Len(L)
      BY <1>1, <1>3, <2>2, <3>1 DEF SoftGood
    <3>2. CASE p = Len(L)
      <4>1. s = NoRow
        BY <1>1, <2>2, <3>2 DEF PosGood
      <4> QED
        BY <1>2, <1>3, <3>2, <4>1
    <3> QED
      BY <1>3, <3>1, <3>2
  <2> QED
    BY <1>1, <2>1, <2>2 DEF SoftGood
<1> QED
  BY <1>1, <1>5, <1>6, <1>7, <1>8, <1>9 DEF Good, N, e

\* The next event of a key is read and folded into its buffered row.
LEMMA SaveKeeps ==
  ASSUME NEW sd, NEW L, NEW p, NEW s, NEW b, NEW d, NEW tc, NEW hd,
         Good(sd, L, p, s, b, d, tc, hd), p < Len(L), NEW tc2, NEW hd2,
         \A c \in Cols : tc[c] => tc2[c],
         \A c \in Cols : GetData(L[p + 1]).val[c] = Toast => tc2[c],
         hd => hd2,
         GetData(L[p + 1]).deleted => sd \/ hd2
  PROVE  Good(sd, L, p + 1, s, FilledFrom(GetData(L[p + 1]), b), d, tc2, hd2)
<1> DEFINE e == L[p + 1]
           row == GetData(e)
           n == FilledFrom(row, b)
<1>1. /\ Typed(L, p, s, b, d) /\ LogGood(L, s) /\ BufGood(sd, b, tc, hd)
      /\ PosGood(L, p, s, b, d) /\ CurGood(L, p, s, b, d)
      /\ CurGood(L, 0, s, NoRow, d) /\ SoftGood(sd, L, p, b, d)
  BY DEF Good
<1>2. /\ L \in Seq(Events) /\ Len(L) \in Nat /\ p \in 0..Len(L) /\ p + 1 \in 1..Len(L)
      /\ e \in Events /\ b \in BufferRow \cup {NoRow}
  BY <1>1 DEF Typed
<1>3. /\ e.v \in SourceRows \cup {NoRow} /\ e.T \in SUBSET Cols
      /\ e.v = NoRow => e.T = {}
  BY <1>1, <1>2 DEF Events, LogGood
<1>4. /\ row \in BufferRow
      /\ e.v = NoRow => row.deleted /\ \A c \in Cols : row.val[c] = Missing
      /\ e.v # NoRow => ~row.deleted /\ \A c \in Cols : row.val[c] = IF c \in e.T THEN Toast ELSE e.v[c]
  <2>1. CASE e.v = NoRow
    BY <2>1 DEF GetData, DeletedRow, BufferRow
  <2>2. CASE e.v # NoRow
    BY <1>3, <2>2 DEF GetData, BufferRow, SourceRows
  <2> QED
    BY <2>1, <2>2
<1>5. /\ n.deleted = row.deleted
      /\ n.val = [c \in Cols |-> IF row.val[c] = Toast /\ b # NoRow /\ b.val[c] # Missing
                                THEN b.val[c] ELSE row.val[c]]
  BY <1>4 DEF FilledFrom, BufferRow
<1>6. n \in BufferRow /\ n # NoRow
  <2>1. n = [row EXCEPT !.val = n.val]
    BY <1>5 DEF FilledFrom
  <2>2. n.val \in [Cols -> Fields \cup {Toast, Missing}]
    BY <1>2, <1>4, <1>5 DEF BufferRow
  <2>3. n \in BufferRow
    BY <1>4, <2>1, <2>2 DEF BufferRow
  <2> QED
    BY <2>3, RowBatchAssumption
<1>7. /\ e.v = NoRow => n.deleted /\ \A c \in Cols : n.val[c] = Missing
      /\ e.v # NoRow => ~n.deleted
      /\ \A c \in Cols : e.v # NoRow /\ c \notin e.T => n.val[c] = e.v[c]
      /\ \A c \in Cols : e.v # NoRow /\ c \in e.T =>
            n.val[c] = IF b # NoRow /\ b.val[c] # Missing THEN b.val[c] ELSE Toast
      /\ \A c \in Cols : e.v # NoRow => e.v[c] # Toast /\ e.v[c] # Missing
  <2>1. \A c \in Cols : e.v # NoRow => e.v[c] # Toast /\ e.v[c] # Missing
    BY <1>3, RowBatchAssumption DEF SourceRows
  <2> QED
    BY <1>4, <1>5, <2>1, RowBatchAssumption
<1> HIDE DEF n, row, e
<1>8. Typed(L, p + 1, s, n, d)
  BY <1>1, <1>2, <1>6 DEF Typed
<1>9. BufGood(sd, n, tc2, hd2)
  <2>1. n.deleted => sd \/ hd2
    BY <1>5 DEF row, e
  <2>2. ASSUME e.v # NoRow, NEW c \in Cols
        PROVE  n.val[c] # Missing /\ (n.val[c] = Toast => tc2[c])
    <3>1. c \in e.T => tc2[c]
      BY <1>4, <2>2 DEF row, e
    <3>2. b # NoRow /\ b.val[c] = Toast /\ b.val[c] # Missing => tc[c]
      BY <1>1, RowBatchAssumption DEF BufGood
    <3> QED
      BY <1>7, <2>2, <3>1, <3>2, RowBatchAssumption
  <2> QED
    BY <1>7, <2>1, <2>2 DEF BufGood
<1>10. PosGood(L, p + 1, s, n, d)
  <2>1. p + 1 = Len(L) => e.v = s
    BY <1>1, <1>2 DEF LogGood, e
  <2> QED
    BY <1>1, <1>2, <1>6, <1>7, <2>1 DEF PosGood
<1>11. CurGood(L, p + 1, s, n, d)
  <2>1. ASSUME NEW c \in Cols, Kept(L, c, p + 1), s # NoRow
        PROVE  ~n.deleted /\ (n.val[c] = s[c] \/ (n.val[c] = Toast /\ d # NoRow /\ d.val[c] = s[c]))
    <3>1. e.v # NoRow /\ e.v[c] = s[c]
      BY <1>1, <1>2, <2>1 DEF LogGood, e
    <3>2. CASE c \notin e.T
      BY <1>7, <3>1, <3>2
    <3>3. CASE c \in e.T
      <4>1. Kept(L, c, p)
        BY <1>2, <2>1, <3>3 DEF Kept, e
      <4>2. /\ b = NoRow => d # NoRow /\ d.val[c] = s[c]
            /\ b # NoRow => b.val[c] = s[c] \/ (b.val[c] = Toast /\ d # NoRow /\ d.val[c] = s[c])
        BY <1>1, <2>1, <4>1 DEF CurGood
      <4>3. s[c] # Missing /\ Toast # Missing
        BY <1>7, <3>1, RowBatchAssumption
      <4> QED
        BY <1>7, <3>1, <3>3, <4>2, <4>3
    <3> QED
      BY <3>2, <3>3
  <2> QED
    BY <1>6, <2>1 DEF CurGood
<1>12. SoftGood(sd, L, p + 1, n, d)
  <2>1. ASSUME sd, d = NoRow, NEW c \in Cols
        PROVE  n.val[c] # Toast
    <3>1. CASE e.v = NoRow
      BY <1>7, <3>1, RowBatchAssumption
    <3>2. CASE e.v # NoRow /\ c \notin e.T
      BY <1>7, <3>2
    <3>3. CASE e.v # NoRow /\ c \in e.T
      <4>1. b # NoRow
        BY <1>1, <1>2, <2>1, <3>3 DEF PosGood, SoftGood, e
      <4>2. ~b.deleted
        BY <1>1, <1>2, <2>1, <3>3, <4>1 DEF SoftGood, e
      <4>3. b.val[c] # Missing
        BY <1>1, <4>1, <4>2 DEF BufGood
      <4>4. b.val[c] # Toast
        BY <1>1, <2>1, <4>1 DEF SoftGood
      <4> QED
        BY <1>7, <3>3, <4>1, <4>3, <4>4
    <3> QED
      BY <3>1, <3>2, <3>3
  <2>2. ASSUME n.deleted, p + 1 < Len(L)
        PROVE  L[(p + 1) + 1].T = {}
    <3>1. L[p + 1].v = NoRow
      BY <1>7, <2>2 DEF e
    <3> QED
      BY <1>1, <1>2, <2>2, <3>1 DEF LogGood
  <2> QED
    BY <1>1, <2>1, <2>2 DEF SoftGood
<1> QED
  BY <1>1, <1>8, <1>9, <1>10, <1>11, <1>12 DEF Good, n, row, e

\* The flags of a batch only grow while rows are added to it.
LEMMA FlagsKeep ==
  ASSUME NEW sd, NEW L, NEW p, NEW s, NEW b, NEW d, NEW tc, NEW hd,
         Good(sd, L, p, s, b, d, tc, hd), NEW tc2, NEW hd2,
         \A c \in Cols : tc[c] => tc2[c], hd => hd2
  PROVE  Good(sd, L, p, s, b, d, tc2, hd2)
<1>1. BufGood(sd, b, tc2, hd2)
  BY DEF Good, BufGood
<1> QED
  BY <1>1 DEF Good

-----------------------------------------------------------------------------
\* The tables have their types when the values of every key have theirs.
LEMMA TypeFromKeys ==
  ASSUME NEW src, NEW lg, NEW pos, NEW buf, NEW dst,
         src = [k \in Keys |-> src[k]], lg = [k \in Keys |-> lg[k]], pos = [k \in Keys |-> pos[k]],
         buf = [k \in Keys |-> buf[k]], dst = [k \in Keys |-> dst[k]],
         \A k \in Keys : Typed(lg[k], pos[k], src[k], buf[k], dst[k])
  PROVE  /\ src \in [Keys -> SourceRows \cup {NoRow}]
         /\ lg \in [Keys -> Seq(Events)]
         /\ \A k \in Keys : pos[k] \in 0..Len(lg[k])
         /\ pos \in [Keys -> Nat]
         /\ buf \in [Keys -> BufferRow \cup {NoRow}]
         /\ dst \in [Keys -> DestRows \cup {NoRow}]
<1>1. ASSUME NEW k \in Keys
      PROVE  /\ src[k] \in SourceRows \cup {NoRow} /\ lg[k] \in Seq(Events)
             /\ pos[k] \in 0..Len(lg[k]) /\ pos[k] \in Nat
             /\ buf[k] \in BufferRow \cup {NoRow} /\ dst[k] \in DestRows \cup {NoRow}
  <2>1. /\ src[k] \in SourceRows \cup {NoRow} /\ lg[k] \in Seq(Events)
        /\ pos[k] \in 0..Len(lg[k])
        /\ buf[k] \in BufferRow \cup {NoRow} /\ dst[k] \in DestRows \cup {NoRow}
    BY Zenon DEF Typed
  <2>2. pos[k] \in Nat
    BY <2>1
  <2> QED
    BY <2>1, <2>2
<1>2. src \in [Keys -> SourceRows \cup {NoRow}]
  BY <1>1
<1>3. lg \in [Keys -> Seq(Events)]
  BY <1>1
<1>4. pos \in [Keys -> Nat]
  BY <1>1
<1>5. buf \in [Keys -> BufferRow \cup {NoRow}]
  BY <1>1
<1>6. dst \in [Keys -> DestRows \cup {NoRow}]
  BY <1>1
<1> QED
  BY <1>1, <1>2, <1>3, <1>4, <1>5, <1>6

\* What a step leaves is the invariant, once it is each key's.
LEMMA FromKeys ==
  ASSUME softDelete' \in BOOLEAN, statement' \in {"merge", "parts"},
         toastCol' \in [Cols -> BOOLEAN], hardDeletes' \in BOOLEAN,
         source' = [k \in Keys |-> source'[k]], log' = [k \in Keys |-> log'[k]],
         position' = [k \in Keys |-> position'[k]], buffer' = [k \in Keys |-> buffer'[k]],
         dest' = [k \in Keys |-> dest'[k]],
         \A k \in Keys : Len(log'[k]) <= MaxLog,
         \A k \in Keys : Good(softDelete', log'[k], position'[k], source'[k], buffer'[k], dest'[k],
                              toastCol', hardDeletes')
  PROVE  IInv'
<1>1. \A k \in Keys : Typed(log'[k], position'[k], source'[k], buffer'[k], dest'[k])
  BY DEF Good
<1>2. TypeOK'
  BY <1>1, TypeFromKeys DEF TypeOK
<1> QED
  BY <1>2 DEF IInv, KeyInv

LEMMA InvInit ==
  ASSUME Init
  PROVE  IInv
<1>1. /\ source = [k \in Keys |-> NoRow] /\ log = [k \in Keys |-> << >>]
      /\ position = [k \in Keys |-> 0] /\ buffer = [k \in Keys |-> NoRow]
      /\ dest = [k \in Keys |-> NoRow]
  BY DEF Init
<1>2. TypeOK
  <2>1. \A k \in Keys : Len(log[k]) = 0 /\ log[k] = << >> /\ position[k] = 0
    BY <1>1
  <2>2. log \in [Keys -> Seq(Events)]
    BY <1>1
  <2>3. \A k \in Keys : Len(log[k]) <= MaxLog /\ position[k] \in 0..Len(log[k])
    <3>1. MaxLog \in Nat
      BY RowBatchAssumption
    <3>2. 0 <= MaxLog /\ 0 \in 0..0
      BY <3>1
    <3> QED
      BY <2>1, <3>2, Zenon
  <2>4. toastCol \in [Cols -> BOOLEAN] /\ position \in [Keys -> Nat]
    BY DEF Init, NoFlags
  <2> QED
    BY <2>2, <2>3, <2>4 DEF Init, TypeOK
<1>3. ASSUME NEW k \in Keys
      PROVE  KeyInv(k)
  <2>1. /\ source[k] = NoRow /\ log[k] = << >> /\ position[k] = 0 /\ buffer[k] = NoRow /\ dest[k] = NoRow
        /\ Len(log[k]) = 0 /\ log[k] \in Seq(Events)
    BY <1>1
  <2>2. Typed(log[k], position[k], source[k], buffer[k], dest[k])
    BY <2>1 DEF Typed
  <2>3. LogGood(log[k], source[k])
    BY <2>1 DEF LogGood
  <2>4. BufGood(softDelete, buffer[k], toastCol, hardDeletes)
    BY <2>1 DEF BufGood
  <2>5. PosGood(log[k], position[k], source[k], buffer[k], dest[k])
    BY <2>1 DEF PosGood, Live
  <2>6. CurGood(log[k], position[k], source[k], buffer[k], dest[k]) /\ CurGood(log[k], 0, source[k], NoRow, dest[k])
    BY <2>1 DEF CurGood
  <2>7. SoftGood(softDelete, log[k], position[k], buffer[k], dest[k])
    BY <2>1 DEF SoftGood
  <2> QED
    BY <2>2, <2>3, <2>4, <2>5, <2>6, <2>7 DEF KeyInv, Good
<1> QED
  BY <1>2, <1>3 DEF IInv

\* The variables are functions on the keys.
LEMMA Functions ==
  ASSUME TypeOK
  PROVE  /\ source = [k \in Keys |-> source[k]] /\ log = [k \in Keys |-> log[k]]
         /\ position = [k \in Keys |-> position[k]] /\ buffer = [k \in Keys |-> buffer[k]]
         /\ dest = [k \in Keys |-> dest[k]]
  BY DEF TypeOK

LEMMA EmitStep ==
  ASSUME IInv, NEW k \in Keys, NEW v \in SourceRows \cup {NoRow}, NEW T \in SUBSET Cols, Emit(k, v, T),
         v = NoRow \/ source[k] = NoRow => T = {},
         v # NoRow /\ source[k] # NoRow => \A c \in T : source[k][c] = v[c]
  PROVE  IInv'
<1> DEFINE e == [v |-> v, T |-> T]
<1>1. /\ TypeOK /\ softDelete' = softDelete /\ statement' = statement
      /\ UNCHANGED <<position, buffer, toastCol, hardDeletes, dest>>
      /\ source' = [source EXCEPT ![k] = v] /\ log' = [log EXCEPT ![k] = Append(@, e)]
      /\ Len(log[k]) < MaxLog
  BY DEF Emit, IInv, configVars
<1>2. /\ source'[k] = v /\ log'[k] = Append(log[k], e)
      /\ \A j \in Keys : j # k => source'[j] = source[j] /\ log'[j] = log[j]
      /\ source' = [j \in Keys |-> source'[j]] /\ log' = [j \in Keys |-> log'[j]]
  BY <1>1 DEF TypeOK
<1>3. KeyInv(k)
  BY DEF IInv
<1>4. Good(softDelete, Append(log[k], e), position[k], v, buffer[k], dest[k], toastCol, hardDeletes)
  BY <1>3, EmitKeeps DEF KeyInv
<1>5. e \in Events /\ log[k] \in Seq(Events)
  BY <1>1 DEF TypeOK, Events
<1>6. Len(log'[k]) = Len(log[k]) + 1
  BY <1>2, <1>5
<1> HIDE DEF e
<1>7. ASSUME NEW j \in Keys
      PROVE  /\ Good(softDelete', log'[j], position'[j], source'[j], buffer'[j], dest'[j], toastCol', hardDeletes')
             /\ Len(log'[j]) <= MaxLog
  <2>1. CASE j = k
    BY <1>1, <1>2, <1>4, <1>5, <1>6, <2>1, RowBatchAssumption
  <2>2. CASE j # k
    <3>1. KeyInv(j) /\ Len(log[j]) <= MaxLog
      BY DEF IInv, TypeOK
    <3> QED
      BY <1>1, <1>2, <2>2, <3>1 DEF KeyInv
  <2> QED
    BY <2>1, <2>2
<1>8. /\ position' = [j \in Keys |-> position'[j]] /\ buffer' = [j \in Keys |-> buffer'[j]]
      /\ dest' = [j \in Keys |-> dest'[j]]
  BY <1>1, Functions
<1>9. /\ softDelete' \in BOOLEAN /\ statement' \in {"merge", "parts"}
      /\ toastCol' \in [Cols -> BOOLEAN] /\ hardDeletes' \in BOOLEAN
  BY <1>1 DEF TypeOK
<1> QED
  BY <1>2, <1>7, <1>8, <1>9, FromKeys

LEMMA SaveStep ==
  ASSUME IInv, NEW k \in Keys, Save(k)
  PROVE  IInv'
<1> DEFINE row == GetData(log[k][position[k] + 1])
<1>1. /\ TypeOK /\ position[k] < Len(log[k]) /\ softDelete' = softDelete /\ statement' = statement
      /\ UNCHANGED <<source, log, dest>>
      /\ buffer' = [buffer EXCEPT ![k] = FilledFrom(row, buffer[k])]
      /\ toastCol' = Flagged(row)
      /\ hardDeletes' = (hardDeletes \/ (row.deleted /\ ~softDelete))
      /\ position' = [position EXCEPT ![k] = @ + 1]
  BY DEF Save, IInv, configVars
<1> HIDE DEF row
<1>2. /\ buffer'[k] = FilledFrom(row, buffer[k]) /\ position'[k] = position[k] + 1
      /\ \A j \in Keys : j # k => buffer'[j] = buffer[j] /\ position'[j] = position[j]
      /\ buffer' = [j \in Keys |-> buffer'[j]] /\ position' = [j \in Keys |-> position'[j]]
  BY <1>1 DEF TypeOK
<1>3. /\ \A c \in Cols : toastCol[c] => toastCol'[c]
      /\ \A c \in Cols : row.val[c] = Toast => toastCol'[c]
      /\ hardDeletes => hardDeletes'
      /\ row.deleted => softDelete \/ hardDeletes'
  BY <1>1 DEF Flagged, TypeOK
<1>4. ASSUME NEW j \in Keys
      PROVE  Good(softDelete', log'[j], position'[j], source'[j], buffer'[j], dest'[j], toastCol', hardDeletes')
  <2>1. KeyInv(j)
    BY DEF IInv
  <2>2. CASE j = k
    <3>0. /\ Good(softDelete, log[k], position[k], source[k], buffer[k], dest[k], toastCol, hardDeletes)
          /\ row = GetData(log[k][position[k] + 1])
          /\ position[k] < Len(log[k])
      BY <1>1, <2>1, <2>2 DEF KeyInv, row
    <3>1. Good(softDelete, log[k], position[k] + 1, source[k], FilledFrom(row, buffer[k]), dest[k],
               toastCol', hardDeletes')
      BY <1>3, <3>0, SaveKeeps DEF row
    <3> QED
      BY <1>1, <1>2, <2>2, <3>1
  <2>3. CASE j # k
    <3>1. Good(softDelete, log[j], position[j], source[j], buffer[j], dest[j], toastCol', hardDeletes')
      BY <1>3, <2>1, FlagsKeep DEF KeyInv
    <3> QED
      BY <1>1, <1>2, <2>3, <3>1
  <2> QED
    BY <2>2, <2>3
<1>5. /\ source' = [j \in Keys |-> source'[j]] /\ log' = [j \in Keys |-> log'[j]]
      /\ dest' = [j \in Keys |-> dest'[j]]
  BY <1>1, Functions
<1>6. /\ softDelete' \in BOOLEAN /\ statement' \in {"merge", "parts"}
      /\ toastCol' \in [Cols -> BOOLEAN]
      /\ \A j \in Keys : Len(log'[j]) <= MaxLog
  BY <1>1 DEF TypeOK, Flagged
<1>7. hardDeletes' \in BOOLEAN
  BY <1>1 DEF TypeOK
<1> QED
  BY <1>2, <1>4, <1>5, <1>6, <1>7, FromKeys

\* What is left of a log that is cut is no longer than the log.
LEMMA CutLength ==
  ASSUME NEW L \in Seq(Events), NEW p \in 0..Len(L)
  PROVE  Len(SubSeq(L, p + 1, Len(L))) <= Len(L)
<1>1. Len(L) \in Nat
  OBVIOUS
<1>2. Len(SubSeq(L, p + 1, Len(L))) = Len(L) - p
  BY <1>1
<1> QED
  BY <1>1, <1>2

\* The merge with the offsets of the keys K committed, and the buffer kept or wiped.
LEMMA FlushStep ==
  ASSUME IInv, NEW K \in SUBSET Keys, dest' = Merged, Committed(K),
         softDelete' = softDelete, statement' = statement, source' = source,
         \/ UNCHANGED <<buffer, toastCol, hardDeletes>>
         \/ Wiped /\ K = Keys
  PROVE  IInv'
<1>1. /\ TypeOK
      /\ log' = [j \in Keys |-> IF j \in K THEN SubSeq(log[j], position[j] + 1, Len(log[j])) ELSE log[j]]
      /\ position' = [j \in Keys |-> IF j \in K THEN 0 ELSE position[j]]
      /\ dest' = [j \in Keys |-> MergedRow(j)]
  BY DEF IInv, Committed, Merged
<1>2. ASSUME NEW j \in Keys
      PROVE  /\ Good(softDelete', log'[j], position'[j], source'[j], buffer'[j], dest'[j], toastCol', hardDeletes')
             /\ Len(log'[j]) <= MaxLog
  <2> DEFINE m == MergedRow(j)
  <2>1. KeyInv(j) /\ Len(log[j]) <= MaxLog /\ Len(log[j]) \in Nat /\ dest'[j] = m
        /\ log[j] \in Seq(Events) /\ position[j] \in 0..Len(log[j])
    BY <1>1 DEF IInv, TypeOK
  <2>2. Good(softDelete, log[j], position[j], source[j], buffer[j], m, toastCol, hardDeletes)
    BY <1>1, <2>1, MergeKeeps
  <2>3. Good(softDelete, SubSeq(log[j], position[j] + 1, Len(log[j])), 0, source[j], buffer[j],
             m, toastCol, hardDeletes)
    BY <1>1, <2>1, CommitKeeps
  <2> HIDE DEF m
  <2>4. Good(softDelete, log'[j], position'[j], source[j], buffer[j], m, toastCol, hardDeletes)
    BY <1>1, <2>2, <2>3
  <2>5. Len(log'[j]) <= MaxLog
    <3>1. Len(SubSeq(log[j], position[j] + 1, Len(log[j]))) <= Len(log[j])
      BY <2>1, CutLength
    <3>2. CASE j \in K
      <4>1. log'[j] = SubSeq(log[j], position[j] + 1, Len(log[j]))
        BY <1>1, <3>2
      <4>2. Len(log'[j]) \in Nat
        BY <2>1, <4>1
      <4> QED
        BY <2>1, <3>1, <4>1, <4>2, RowBatchAssumption
    <3>3. CASE j \notin K
      BY <1>1, <2>1, <3>3
    <3> QED
      BY <3>2, <3>3
  <2>6. CASE UNCHANGED <<buffer, toastCol, hardDeletes>>
    BY <2>1, <2>4, <2>5, <2>6
  <2>7. CASE Wiped /\ K = Keys
    <3>1. Good(softDelete, log'[j], 0, source[j], NoRow, m, toastCol', hardDeletes')
      BY <2>4, WipedKeeps
    <3>2. buffer'[j] = NoRow /\ position'[j] = 0
      BY <1>1, <2>7 DEF Wiped
    <3> QED
      BY <2>1, <2>5, <3>1, <3>2
  <2> QED
    BY <2>6, <2>7
<1>3. /\ log' = [j \in Keys |-> log'[j]] /\ position' = [j \in Keys |-> position'[j]]
      /\ dest' = [j \in Keys |-> dest'[j]]
  BY <1>1
<1>4. source' = [j \in Keys |-> source'[j]] /\ buffer' = [j \in Keys |-> buffer'[j]]
  BY <1>1, Functions DEF Wiped
<1>5. /\ softDelete' \in BOOLEAN /\ statement' \in {"merge", "parts"}
      /\ toastCol' \in [Cols -> BOOLEAN]
  BY <1>1 DEF TypeOK, Wiped, NoFlags
<1>6. hardDeletes' \in BOOLEAN
  BY <1>1 DEF TypeOK, Wiped
<1> QED
  BY <1>2, <1>3, <1>4, <1>5, <1>6, FromKeys

LEMMA CrashStep ==
  ASSUME IInv, Crash
  PROVE  IInv'
<1>1. /\ TypeOK /\ softDelete' = softDelete /\ statement' = statement
      /\ UNCHANGED <<source, log, dest>>
      /\ position' = [k \in Keys |-> 0] /\ buffer' = [k \in Keys |-> NoRow]
      /\ toastCol' = NoFlags /\ hardDeletes' = FALSE
  BY DEF Crash, Wiped, IInv, configVars
<1>2. ASSUME NEW j \in Keys
      PROVE  Good(softDelete', log'[j], position'[j], source'[j], buffer'[j], dest'[j], toastCol', hardDeletes')
  <2>1. Good(softDelete, log[j], position[j], source[j], buffer[j], dest[j], toastCol, hardDeletes)
    BY DEF IInv, KeyInv
  <2>2. Good(softDelete, log[j], 0, source[j], NoRow, dest[j], toastCol', hardDeletes')
    BY <2>1, WipedKeeps
  <2>3. position'[j] = 0 /\ buffer'[j] = NoRow
    BY <1>1
  <2> QED
    BY <1>1, <2>2, <2>3
<1>3. /\ source' = [j \in Keys |-> source'[j]] /\ log' = [j \in Keys |-> log'[j]]
      /\ dest' = [j \in Keys |-> dest'[j]]
  BY <1>1, Functions
<1>4. position' = [j \in Keys |-> position'[j]] /\ buffer' = [j \in Keys |-> buffer'[j]]
  BY <1>1
<1>5. /\ softDelete' \in BOOLEAN /\ statement' \in {"merge", "parts"}
      /\ toastCol' \in [Cols -> BOOLEAN] /\ hardDeletes' \in BOOLEAN
      /\ \A j \in Keys : Len(log'[j]) <= MaxLog
  BY <1>1 DEF TypeOK, NoFlags
<1> QED
  BY <1>2, <1>3, <1>4, <1>5, FromKeys

LEMMA UnchangedStep ==
  ASSUME IInv, UNCHANGED vars
  PROVE  IInv'
  BY DEF IInv, TypeOK, KeyInv, vars, configVars

LEMMA InvStep ==
  ASSUME IInv, [Next]_vars
  PROVE  IInv'
<1>1. ASSUME NEW k \in Keys, NEW v \in SourceRows, Create(k, v)
      PROVE  IInv'
  BY <1>1, EmitStep DEF Create
<1>2. ASSUME NEW k \in Keys, NEW v \in SourceRows, NEW T \in SUBSET Cols, Update(k, v, T)
      PROVE  IInv'
  <2>1. v # NoRow
    BY RowBatchAssumption
  <2> QED
    BY <1>2, <2>1, EmitStep DEF Update
<1>3. ASSUME NEW k \in Keys, Delete(k)
      PROVE  IInv'
  <2>1. Emit(k, NoRow, {}) /\ source[k] # NoRow
    BY <1>3 DEF Delete
  <2> QED
    BY <2>1, EmitStep
<1>4. ASSUME FlushSucceeds
      PROVE  IInv'
  BY <1>4, FlushStep DEF FlushSucceeds, configVars
<1>5. ASSUME NEW K \in SUBSET Keys, CommitFails(K)
      PROVE  IInv'
  BY <1>5, FlushStep DEF CommitFails, configVars
<1>6. ASSUME MergeFails
      PROVE  IInv'
  <2>1. CASE dest' = dest
    BY <1>6, <2>1, UnchangedStep DEF MergeFails, vars
  <2>2. CASE dest' = Merged
    <3>1. UNCHANGED <<log, position>> /\ log = [k \in Keys |-> log[k]] /\ position = [k \in Keys |-> position[k]]
      BY <1>6, Functions DEF MergeFails, IInv
    <3>2. Committed({})
      BY <3>1 DEF Committed
    <3> QED
      BY <1>6, <2>2, <3>2, FlushStep DEF MergeFails, configVars
  <2> QED
    BY <1>6, <2>1, <2>2 DEF MergeFails
<1> QED
  BY <1>1, <1>2, <1>3, <1>4, <1>5, <1>6, SaveStep, CrashStep, UnchangedStep DEF Next

\* The invariant gives both properties.
LEMMA InvGives ==
  ASSUME IInv
  PROVE  TypeOK /\ BatchEqualsSource /\ PlaceholderIsTransient
<1>1. TypeOK
  BY DEF IInv
<1>2. BatchEqualsSource
  BY MergedIsSource DEF IInv, BatchEqualsSource
<1>3. ASSUME NEW k \in Keys, NEW c \in Cols, dest[k] # NoRow, dest[k].val[c] = Toast
      PROVE  ~softDelete /\ Overwritten(k, c)
  <2> DEFINE L == log[k]
             p == position[k]
             s == source[k]
             b == buffer[k]
             d == dest[k]
  <2>1. /\ Typed(L, p, s, b, d) /\ LogGood(L, s) /\ BufGood(softDelete, b, toastCol, hardDeletes)
        /\ PosGood(L, p, s, b, d) /\ CurGood(L, p, s, b, d) /\ SoftGood(softDelete, L, p, b, d)
    BY DEF IInv, KeyInv, Good
  <2>2. ~softDelete
    BY <1>3, <2>1 DEF SoftGood
  <2>3. SUFFICES ASSUME ~Overwritten(k, c) PROVE FALSE
    BY <2>2
  <2>4. Kept(L, c, p) /\ (b = NoRow \/ b.val[c] = Toast)
    BY <2>3 DEF Overwritten, Kept
  <2>5. CASE s # NoRow
    <3>1. s[c] # Toast
      BY <2>1, <2>5, RowBatchAssumption DEF Typed, SourceRows
    <3> QED
      BY <1>3, <2>1, <2>4, <2>5, <3>1 DEF CurGood
  <2>6. CASE s = NoRow
    <3>1. L \in Seq(Events) /\ Len(L) \in Nat /\ p \in 0..Len(L)
      BY <2>1 DEF Typed
    <3>2. p = Len(L)
      <4>1. ASSUME p < Len(L) PROVE FALSE
        <5>1. Len(L) \in (p + 1)..Len(L) /\ Len(L) \in 1..Len(L)
          BY <3>1, <4>1
        <5>2. c \in L[Len(L)].T
          BY <2>4, <5>1 DEF Kept
        <5>3. L[Len(L)].T = {}
          BY <2>1, <2>6, <3>1, <5>1 DEF LogGood
        <5> QED
          BY <5>2, <5>3
      <4> QED
        BY <3>1, <4>1
    <3>3. CASE b # NoRow
      <4>1. b.deleted /\ b.val[c] = Missing
        BY <2>1, <2>6, <3>2, <3>3 DEF PosGood, BufGood
      <4> QED
        BY <2>4, <3>3, <4>1, RowBatchAssumption
    <3>4. CASE b = NoRow
      <4>1. Live(d) = NoRow
        BY <2>1, <2>6, <3>2, <3>4 DEF PosGood
      <4>2. ~d.deleted /\ d \in DestRows
        BY <1>3, <2>1, <2>2 DEF SoftGood, Typed
      <4>3. d.val = NoRow
        BY <1>3, <4>1, <4>2 DEF Live
      <4>4. d.val \in [Cols -> Fields \cup {Toast}]
        BY <4>2 DEF DestRows
      <4> QED
        BY <4>3, <4>4, RowBatchAssumption
    <3> QED
      BY <3>3, <3>4
  <2> QED
    BY <2>5, <2>6
<1> QED
  BY <1>1, <1>2, <1>3 DEF PlaceholderIsTransient

-----------------------------------------------------------------------------
\* Folding events into one row per key and merging the batch is what the source did, as
\* soon as its events are read: for every table, every batching, every retried merge and
\* every replay after a crash between the merge and the commit, with hard or soft
\* deletes, by MERGE or by Redshift's statements.
THEOREM FoldingIsFaithful == Spec => []BatchEqualsSource
<1>1. Init => IInv
  BY InvInit
<1>2. IInv /\ [Next]_vars => IInv'
  BY InvStep
<1>3. IInv => BatchEqualsSource
  BY InvGives
<1> QED
  BY <1>1, <1>2, <1>3, PTL DEF Spec

\* Every variable of the batch model keeps its type: the log and the reader's position
\* in it, the folded rows, and the rows of the destination, in which a placeholder may
\* stand (InsertRow, GetStatement, GetParts, commitOffset).
THEOREM TypeCorrect == Spec => []TypeOK
<1>1. Init => IInv
  BY InvInit
<1>2. IInv /\ [Next]_vars => IInv'
  BY InvStep
<1>3. IInv => TypeOK
  BY InvGives
<1> QED
  BY <1>1, <1>2, <1>3, PTL DEF Spec

\* With soft deletes no TOAST placeholder is ever written to the destination; without
\* them one that a replay brings back is overwritten by what is buffered or still to be
\* read (UpdateQuery, InsertRow, flush.go).
THEOREM PlaceholdersDoNotStay == Spec => []PlaceholderIsTransient
<1>1. Init => IInv
  BY InvInit
<1>2. IInv /\ [Next]_vars => IInv'
  BY InvStep
<1>3. IInv => PlaceholderIsTransient
  BY InvGives
<1> QED
  BY <1>1, <1>2, <1>3, PTL DEF Spec

=============================================================================
