--------------------------- MODULE UsdScanProofs ---------------------------
(***************************************************************************)
(* Proofs about UsdScan, for any number of threads, files, prims and rows. *)
(*                                                                         *)
(* The inductive invariant SInv says who holds the mutex, that the shared  *)
(* counters agree, and for each thread how its morsel, its buffered rows   *)
(* and their times fit together (LocalOK).                                 *)
(*                                                                         *)
(* OInv adds what the order of the answer rests on: the rows of each       *)
(* thread's buffer and of each batch (FillOK, Collected), and where the    *)
(* batches are in the files (PlacesOK, FilesOK).  With it, each step is    *)
(* one of UsdScanOrder or leaves the answer as it is.                      *)
(***************************************************************************)
EXTENDS UsdScan, SequenceTheorems, TLAPS

\* A thread inside UsdScanGlobalState::Next has nothing buffered
Between(l) ==
    /\ l.size = 0 /\ l.next_prim = 0 /\ l.time_index = 0 /\ l.row_offset = 0
    /\ l.rows = <<>> /\ l.row_times = <<>>

\* The morsel is a run of prims of a file, of which l.batch is one of n batches
MorselOK(b, l, n) ==
    /\ l.next_prim <= l.size
    /\ l.size > 0 => /\ l.file \in FileIndex /\ l.batch < n
                     /\ l.first >= 1 /\ l.first + l.size <= PrimCount(l.file) + 1
                     /\ b.unit = "PRIM"
    /\ l.begun = l.file

\* The buffered rows are of the morsel's file, and were computed without a refused
\* file only if that is on record
RowsOK(b, l, n, ref) ==
    /\ l.row_offset <= Len(l.rows)
    /\ l.rows # <<>> => l.file \in FileIndex /\ l.batch < n
    /\ \A i \in DOMAIN l.rows :
         /\ l.rows[i].file = l.file
         /\ l.rows[i].stage = l.file
         /\ <<l.file, l.rows[i].prim>> \in Clips /\ ~b.clips_allowed => ref[l.file]

\* The times of the rows, and the time the producer is set to
TimesOK(b, l) ==
    /\ b.times = 0 => /\ l.time = 0 /\ l.time_index = 0
                      /\ \A i \in DOMAIN l.rows : l.rows[i].time = 0
    /\ b.times > 0 => /\ l.time_index < b.times
                      /\ l.next_prim > 0 => l.time = l.time_index + 1
                      /\ Len(l.row_times) = Len(l.rows)
                      /\ \A i \in DOMAIN l.rows : l.row_times[i] = l.rows[i].time

LocalOK(b, l, n, ref) ==
    /\ l.pc \in {"next", "locked", "opening"} => Between(l)
    /\ MorselOK(b, l, n)
    /\ RowsOK(b, l, n, ref)
    /\ TimesOK(b, l)

MutexOK == \A t \in Threads : local[t].pc \in {"locked", "opening"} <=> lock = t

CountersOK ==
    /\ current_file = next_file
    /\ next_batch_index = Len(batches)
    /\ stage # 0 => /\ stage = current_file /\ position <= PrimCount(stage)
                    /\ bind.unit = "PRIM"
    /\ \A t \in Threads : local[t].pc = "opening" => stage = 0 /\ current_file > 0

LocalsOK == \A t \in Threads : LocalOK(bind, local[t], Len(batches), refused)

\* What DuckDB has collected: each row labelled with its time, and none of them
\* computed without a refused file
BatchOK(b, rows) ==
    \A i \in DOMAIN rows :
        /\ rows[i].time = rows[i].at
        /\ ~(<<rows[i].file, rows[i].prim>> \in Clips /\ ~b.clips_allowed)

BatchesOK == \A n \in DOMAIN batches : BatchOK(bind, batches[n].rows)

SInv == TypeOK /\ MutexOK /\ CountersOK /\ LocalsOK /\ BatchesOK

-----------------------------------------------------------------------------
(* The rows a producer makes *)

LEMMA PrimCountType == \A f \in FileIndex : PrimCount(f) \in Nat
BY ScanAssumption DEF PrimCount

LEMMA RowCountType ==
    ASSUME NEW f \in FileIndex, NEW p \in 0 .. PrimCount(f)
    PROVE  RowCount(f, p) \in Nat
<1>1. Rows[f] \in Seq(Nat) /\ StageRows[f] \in Nat
  BY ScanAssumption
<1>2. CASE p = 0
  BY <1>1, <1>2 DEF RowCount
<1>3. CASE p # 0
  <2>1. p \in 1 .. Len(Rows[f])
    BY <1>1, <1>3 DEF PrimCount
  <2> QED BY <1>1, <1>3, <2>1 DEF RowCount
<1> QED BY <1>2, <1>3

LEMMA PrimRowsType ==
    ASSUME NEW l \in LocalType, NEW f \in FileIndex, NEW p \in 0 .. PrimCount(f)
    PROVE  /\ PrimRows(l, f, p) \in Seq(Row)
           /\ Len(PrimRows(l, f, p)) \in Nat
           /\ DOMAIN PrimRows(l, f, p) = 1 .. Len(PrimRows(l, f, p))
           /\ \A i \in DOMAIN PrimRows(l, f, p) :
                PrimRows(l, f, p)[i] = [file |-> f, prim |-> p, row |-> i,
                                        stage |-> l.begun, time |-> l.time]
<1>1. RowCount(f, p) \in Nat /\ p \in Nat
  BY RowCountType, PrimCountType
<1>2. \A n \in 1 .. RowCount(f, p) :
        [file |-> f, prim |-> p, row |-> n, stage |-> l.begun, time |-> l.time] \in Row
  BY <1>1 DEF LocalType, Row
<1>3. PrimRows(l, f, p) \in [1 .. RowCount(f, p) -> Row]
  BY <1>2 DEF PrimRows
<1>4. PrimRows(l, f, p) \in Seq(Row) /\ DOMAIN PrimRows(l, f, p) = 1 .. RowCount(f, p)
  BY <1>1, <1>3
<1>5. \A i \in 1 .. RowCount(f, p) :
        PrimRows(l, f, p)[i] = [file |-> f, prim |-> p, row |-> i,
                                stage |-> l.begun, time |-> l.time]
  BY DEF PrimRows
<1>6. Len(PrimRows(l, f, p)) = RowCount(f, p)
  BY <1>1, <1>4
<1> QED BY <1>1, <1>4, <1>5, <1>6

\* Concatenation and resizing of sequences
LEMMA ConcatFacts ==
    ASSUME NEW S, NEW s \in Seq(S), NEW u \in Seq(S)
    PROVE  /\ s \o u \in Seq(S) /\ Len(s \o u) = Len(s) + Len(u)
           /\ \A i \in 1 .. Len(s \o u) :
                \/ i \in 1 .. Len(s) /\ (s \o u)[i] = s[i]
                \/ /\ i > Len(s)
                   /\ i - Len(s) \in 1 .. Len(u) /\ (s \o u)[i] = u[i - Len(s)]
<1>1. /\ Len(s) \in Nat /\ Len(u) \in Nat
      /\ s \o u \in Seq(S) /\ Len(s \o u) = Len(s) + Len(u)
  OBVIOUS
<1>2. ASSUME NEW i \in 1 .. Len(s \o u), i <= Len(s)
      PROVE  i \in 1 .. Len(s) /\ (s \o u)[i] = s[i]
  BY <1>1, <1>2
<1>3. ASSUME NEW i \in 1 .. Len(s \o u), i > Len(s)
      PROVE  i - Len(s) \in 1 .. Len(u) /\ (s \o u)[i] = u[i - Len(s)]
  BY <1>1, <1>3
<1>4. \A i \in 1 .. Len(s \o u) : i <= Len(s) \/ i > Len(s)
  BY <1>1
<1> QED BY <1>1, <1>2, <1>3, <1>4

LEMMA ResizeFacts ==
    ASSUME NEW S, NEW s \in Seq(S), NEW n \in Nat, NEW v \in S
    PROVE  /\ Resize(s, n, v) \in Seq(S) /\ Len(Resize(s, n, v)) = n
           /\ \A i \in 1 .. n : Resize(s, n, v)[i] = IF i <= Len(s) THEN s[i] ELSE v
<1>1. \A i \in 1 .. n : (IF i <= Len(s) THEN s[i] ELSE v) \in S
  OBVIOUS
<1>2. Resize(s, n, v) \in [1 .. n -> S]
  BY <1>1 DEF Resize
<1>3. Resize(s, n, v) \in Seq(S) /\ Len(Resize(s, n, v)) = n
  BY <1>2
<1>4. \A i \in 1 .. n : Resize(s, n, v)[i] = IF i <= Len(s) THEN s[i] ELSE v
  BY DEF Resize
<1> QED BY <1>3, <1>4

\* Typed changes of a thread's local state
LEMMA LocalUpdate ==
    ASSUME NEW l \in LocalType
    PROVE  /\ \A i \in Nat : [l EXCEPT !.row_offset = i] \in LocalType
           /\ \A i \in Nat : [l EXCEPT !.next_prim = i] \in LocalType
           /\ \A i, j \in Nat : [l EXCEPT !.time_index = i, !.next_prim = j] \in LocalType
           /\ \A i \in 0 .. MaxTimes : [l EXCEPT !.time = i] \in LocalType
           /\ \A rs \in Seq(Row), ts \in Seq(0 .. MaxTimes) :
                [l EXCEPT !.rows = rs, !.row_times = ts] \in LocalType
<1>1. ASSUME NEW i \in Nat PROVE [l EXCEPT !.row_offset = i] \in LocalType
  BY DEF LocalType
<1>2. ASSUME NEW i \in Nat PROVE [l EXCEPT !.next_prim = i] \in LocalType
  BY DEF LocalType
<1>3. ASSUME NEW i \in Nat, NEW j \in Nat
      PROVE  [l EXCEPT !.time_index = i, !.next_prim = j] \in LocalType
  BY DEF LocalType
<1>4. ASSUME NEW i \in 0 .. MaxTimes PROVE [l EXCEPT !.time = i] \in LocalType
  BY DEF LocalType
<1>5. ASSUME NEW rs \in Seq(Row), NEW ts \in Seq(0 .. MaxTimes)
      PROVE  [l EXCEPT !.rows = rs, !.row_times = ts] \in LocalType
  BY DEF LocalType
<1> QED BY <1>1, <1>2, <1>3, <1>4, <1>5

LEMMA ClearedType == ASSUME NEW l \in LocalType PROVE Cleared(l) \in LocalType
<1>1. ASSUME NEW rs \in Seq(Row), NEW ts \in Seq(0 .. MaxTimes)
      PROVE  [l EXCEPT !.pc = "next", !.size = 0, !.next_prim = 0, !.time_index = 0,
                       !.rows = rs, !.row_times = ts, !.row_offset = 0] \in LocalType
  BY <1>1 DEF LocalType
<1>2. <<>> \in Seq(Row) /\ <<>> \in Seq(0 .. MaxTimes)
  OBVIOUS
<1> QED BY <1>1, <1>2 DEF Cleared

LEMMA NoMorselType ==
    ASSUME NEW pc \in {"fill", "failed"}
    PROVE  /\ [NoMorsel EXCEPT !.pc = pc] \in LocalType
           /\ [NoMorsel EXCEPT !.pc = pc] =
                [pc |-> pc, file |-> 0, batch |-> 0, first |-> 0, size |-> 0,
                 next_prim |-> 0, time_index |-> 0, rows |-> <<>>, row_times |-> <<>>,
                 row_offset |-> 0, begun |-> 0, time |-> 0]
<1>1. [NoMorsel EXCEPT !.pc = pc] =
        [pc |-> pc, file |-> 0, batch |-> 0, first |-> 0, size |-> 0,
         next_prim |-> 0, time_index |-> 0, rows |-> <<>>, row_times |-> <<>>,
         row_offset |-> 0, begun |-> 0, time |-> 0]
  BY DEF NoMorsel
<1>2. MaxTimes \in Nat /\ FileCount \in Nat
  BY ScanAssumption
<1>3. ASSUME NEW rs \in Seq(Row), NEW ts \in Seq(0 .. MaxTimes)
      PROVE  [pc |-> pc, file |-> 0, batch |-> 0, first |-> 0, size |-> 0,
              next_prim |-> 0, time_index |-> 0, rows |-> rs, row_times |-> ts,
              row_offset |-> 0, begun |-> 0, time |-> 0] \in LocalType
  BY <1>2 DEF LocalType
<1>4. <<>> \in Seq(Row) /\ <<>> \in Seq(0 .. MaxTimes)
  OBVIOUS
<1> QED BY <1>1, <1>3, <1>4

LEMMA DealtType ==
    ASSUME NEW l \in LocalType, NEW f \in 0 .. FileCount, NEW g \in 0 .. FileCount,
           NEW n \in Nat, NEW first \in Nat, NEW size \in Nat
    PROVE  [l EXCEPT !.pc = "fill", !.file = f, !.batch = n, !.first = first,
                     !.size = size, !.begun = g] \in LocalType
BY DEF LocalType

-----------------------------------------------------------------------------
(* Steps of one thread *)

\* A local state that fits n batches and the refusals ref still fits when there
\* are more of them
LEMMA LocalMonotone ==
    ASSUME NEW b \in BindType, NEW l \in LocalType, NEW n \in Nat, NEW m \in Nat, n <= m,
           NEW ref \in [FileIndex -> BOOLEAN], NEW more \in [FileIndex -> BOOLEAN],
           \A f \in FileIndex : ref[f] => more[f], LocalOK(b, l, n, ref)
    PROVE  LocalOK(b, l, m, more)
<1>1. MorselOK(b, l, m)
  BY DEF LocalOK, MorselOK, LocalType
<1>2. RowsOK(b, l, m, more)
  <2>1. RowsOK(b, l, n, ref)
    BY DEF LocalOK
  <2>2. l.rows # <<>> => l.file \in FileIndex /\ l.batch < m
    BY <2>1 DEF RowsOK, LocalType
  <2>3. ASSUME NEW i \in DOMAIN l.rows
        PROVE  l.file \in FileIndex
    BY <2>1 DEF RowsOK, LocalType
  <2> QED BY <2>1, <2>2, <2>3 DEF RowsOK
<1> QED BY <1>1, <1>2 DEF LocalOK

\* A thread's step to the local state l, which may add batches and refusals
LEMMA LocalsStep ==
    ASSUME SInv, NEW t \in Threads, NEW l \in LocalType, Becomes(t, l),
           bind' = bind, refused' \in [FileIndex -> BOOLEAN],
           \A f \in FileIndex : refused[f] => refused'[f],
           batches' \in Seq(BatchType), Len(batches) <= Len(batches'),
           LocalOK(bind, l, Len(batches'), refused')
    PROVE  local' \in [Threads -> LocalType] /\ LocalsOK'
<1>1. /\ local \in [Threads -> LocalType] /\ refused \in [FileIndex -> BOOLEAN]
      /\ batches \in Seq(BatchType) /\ LocalsOK /\ bind \in BindType
  BY DEF SInv, TypeOK
<1>2. local' = [local EXCEPT ![t] = l]
  BY DEF Becomes
<1>3. ASSUME NEW u \in Threads PROVE LocalOK(bind, local'[u], Len(batches'), refused')
  <2>1. CASE u = t
    BY <1>1, <1>2, <2>1
  <2>2. CASE u # t
    <3>1. local'[u] = local[u] /\ local[u] \in LocalType
      BY <1>1, <1>2, <2>2
    <3>2. LocalOK(bind, local[u], Len(batches), refused)
      BY <1>1 DEF LocalsOK
    <3>3. Len(batches) \in Nat /\ Len(batches') \in Nat
      BY <1>1
    <3> QED BY <1>1, <3>1, <3>2, <3>3, LocalMonotone
  <2> QED BY <2>1, <2>2
<1> QED BY <1>1, <1>2, <1>3 DEF LocalsOK

\* A thread's step between two positions in which it holds the mutex as `lock' says
LEMMA MutexStep ==
    ASSUME SInv, NEW t \in Threads, NEW l \in LocalType, Becomes(t, l),
           \/ /\ lock' = lock
              /\ l.pc \in {"locked", "opening"} <=> local[t].pc \in {"locked", "opening"}
           \/ lock = NoThread /\ lock' = t /\ l.pc \in {"locked", "opening"}
           \/ lock = t /\ lock' = NoThread /\ l.pc \notin {"locked", "opening"}
    PROVE  MutexOK' /\ lock' \in Threads \cup {NoThread}
<1>1. local' = [local EXCEPT ![t] = l] /\ local \in [Threads -> LocalType]
      /\ MutexOK /\ lock \in Threads \cup {NoThread}
  BY DEF SInv, TypeOK, Becomes
<1>2. \A u \in Threads : local'[u] = IF u = t THEN l ELSE local[u]
  BY <1>1
<1>3. NoThread \notin Threads
  BY ScanAssumption
<1> QED BY <1>1, <1>2, <1>3 DEF MutexOK

LEMMA SInvInit == Init => SInv
<1> SUFFICES ASSUME Init PROVE SInv
  OBVIOUS
<1>1. NoMorsel \in LocalType
  BY ScanAssumption DEF NoMorsel, LocalType
<1>2. LocalOK(bind, NoMorsel, 0, refused)
  BY ScanAssumption DEF Init, BindType, NoMorsel, LocalOK, Between, MorselOK, RowsOK, TimesOK
<1>3. TypeOK
  BY <1>1, ScanAssumption DEF Init, TypeOK
<1>4. MutexOK
  BY ScanAssumption DEF Init, MutexOK, NoMorsel
<1>5. CountersOK
  BY DEF Init, CountersOK, NoMorsel
<1>6. LocalsOK
  BY <1>2 DEF Init, LocalsOK
<1>7. BatchesOK
  BY DEF Init, BatchesOK
<1> QED BY <1>3, <1>4, <1>5, <1>6, <1>7 DEF SInv

-----------------------------------------------------------------------------
(* AddPrim *)

\* SetTime leaves the producer at the time of the thread's time_index
LEMMA TimedOK ==
    ASSUME bind \in BindType, NEW l \in LocalType, NEW n \in Nat, NEW ref,
           LocalOK(bind, l, n, ref), l.pc = "fill", l.size > 0
    PROVE  /\ Timed(l) \in LocalType
           /\ LocalOK(bind, Timed(l), n, ref)
           /\ Timed(l).pc = l.pc /\ Timed(l).file = l.file
           /\ Timed(l).next_prim = l.next_prim /\ Timed(l).size = l.size
           /\ TimeCount > 0 => Timed(l).time = Timed(l).time_index + 1
<1>1. TimeCount \in Nat /\ TimeCount <= MaxTimes /\ MaxTimes \in Nat
  BY ScanAssumption DEF BindType, TimeCount
<1>2. CASE TimeCount > 0 /\ l.next_prim = 0
  <2> DEFINE m == [l EXCEPT !.time = l.time_index + 1]
  <2>1. Timed(l) = m
    BY <1>2 DEF Timed
  <2>2. l.time_index < TimeCount /\ l.time_index \in Nat
    BY <1>2 DEF LocalOK, TimesOK, TimeCount, LocalType
  <2>3. m \in LocalType
    <3>1. l.time_index + 1 \in 0 .. MaxTimes
      BY <1>1, <2>2
    <3> QED BY <3>1, LocalUpdate
  <2>4. /\ m.pc = l.pc /\ m.file = l.file /\ m.next_prim = l.next_prim /\ m.size = l.size
        /\ m.time = m.time_index + 1 /\ m.rows = l.rows /\ m.row_times = l.row_times
        /\ m.time_index = l.time_index /\ m.begun = l.begun /\ m.batch = l.batch
        /\ m.first = l.first /\ m.row_offset = l.row_offset
    BY DEF LocalType
  <2>5. LocalOK(bind, m, n, ref)
    BY <1>2, <2>4 DEF LocalOK, MorselOK, RowsOK, TimesOK, TimeCount
  <2> QED BY <2>1, <2>3, <2>4, <2>5
<1>3. CASE ~(TimeCount > 0 /\ l.next_prim = 0)
  <2>1. Timed(l) = l
    BY <1>3 DEF Timed
  <2>2. TimeCount > 0 => l.time = l.time_index + 1
    BY <1>1, <1>3 DEF LocalOK, TimesOK, LocalType, TimeCount
  <2> QED BY <2>1, <2>2
<1> QED BY <1>2, <1>3

\* The rows of one more prim follow those already buffered
LEMMA RowsAppended ==
    ASSUME NEW l \in LocalType, l.file \in FileIndex, NEW p \in 0 .. PrimCount(l.file)
    PROVE  LET rows == l.rows \o PrimRows(l, l.file, p)
           IN  /\ rows \in Seq(Row)
               /\ Len(l.rows) <= Len(rows)
               /\ \A i \in 1 .. Len(rows) :
                    \/ i \in 1 .. Len(l.rows) /\ rows[i] = l.rows[i]
                    \/ /\ i > Len(l.rows)
                       /\ rows[i].file = l.file /\ rows[i].prim = p
                       /\ rows[i].stage = l.begun /\ rows[i].time = l.time
<1> DEFINE made == PrimRows(l, l.file, p)
           rows == l.rows \o made
<1>1. /\ made \in Seq(Row) /\ Len(made) \in Nat /\ DOMAIN made = 1 .. Len(made)
      /\ \A i \in DOMAIN made : made[i] = [file |-> l.file, prim |-> p, row |-> i,
                                           stage |-> l.begun, time |-> l.time]
  BY PrimRowsType
<1>2. l.rows \in Seq(Row) /\ Len(l.rows) \in Nat
  BY DEF LocalType
<1> HIDE DEF made
<1>3. /\ rows \in Seq(Row) /\ Len(rows) = Len(l.rows) + Len(made)
      /\ \A i \in 1 .. Len(rows) :
           \/ i \in 1 .. Len(l.rows) /\ rows[i] = l.rows[i]
           \/ /\ i > Len(l.rows)
              /\ i - Len(l.rows) \in 1 .. Len(made) /\ rows[i] = made[i - Len(l.rows)]
  BY <1>1, <1>2, ConcatFacts
<1> HIDE DEF rows
<1>4. ASSUME NEW i \in 1 .. Len(rows)
      PROVE  \/ i \in 1 .. Len(l.rows) /\ rows[i] = l.rows[i]
             \/ /\ i > Len(l.rows)
                /\ rows[i].file = l.file /\ rows[i].prim = p
                /\ rows[i].stage = l.begun /\ rows[i].time = l.time
  <2>1. CASE i \in 1 .. Len(l.rows) /\ rows[i] = l.rows[i]
    BY <2>1
  <2>2. CASE /\ i > Len(l.rows)
             /\ i - Len(l.rows) \in 1 .. Len(made) /\ rows[i] = made[i - Len(l.rows)]
    <3> DEFINE k == i - Len(l.rows)
    <3>1. k \in DOMAIN made /\ rows[i] = made[k]
      BY <1>1, <2>2
    <3> HIDE DEF k
    <3>2. made[k] = [file |-> l.file, prim |-> p, row |-> k, stage |-> l.begun,
                     time |-> l.time]
      BY <1>1, <3>1
    <3> QED BY <2>2, <3>1, <3>2
  <2> QED BY <1>3, <2>1, <2>2
<1>5. Len(l.rows) <= Len(rows)
  BY <1>1, <1>2, <1>3
<1> QED BY <1>3, <1>4, <1>5 DEF rows, made

\* A buffer that grew by rows of one more prim of the morsel's file, made at the
\* producer's time, is still in order
LEMMA BufferOK ==
    ASSUME bind \in BindType, NEW l \in LocalType, NEW n \in Nat,
           NEW ref \in [FileIndex -> BOOLEAN], NEW more \in [FileIndex -> BOOLEAN],
           \A f \in FileIndex : ref[f] => more[f],
           LocalOK(bind, l, n, ref), l.pc = "fill", l.file \in FileIndex, l.batch < n,
           NEW p, Refuses(l.file, p) => more[l.file],
           TimeCount > 0 => l.time = l.time_index + 1,
           NEW rows \in Seq(Row), Len(l.rows) <= Len(rows),
           \A i \in 1 .. Len(rows) :
               \/ i \in 1 .. Len(l.rows) /\ rows[i] = l.rows[i]
               \/ /\ i > Len(l.rows)
                  /\ rows[i].file = l.file /\ rows[i].prim = p
                  /\ rows[i].stage = l.begun /\ rows[i].time = l.time,
           NEW times \in Seq(0 .. MaxTimes),
           TimeCount > 0 => /\ Len(times) = Len(rows)
                            /\ \A i \in 1 .. Len(rows) :
                                 times[i] = IF i <= Len(l.row_times) THEN l.row_times[i]
                                            ELSE l.time_index + 1
    PROVE  /\ [l EXCEPT !.rows = rows, !.row_times = times] \in LocalType
           /\ LocalOK(bind, [l EXCEPT !.rows = rows, !.row_times = times], n, more)
<1> DEFINE m == [l EXCEPT !.rows = rows, !.row_times = times]
<1>1. TimeCount \in Nat
  BY ScanAssumption DEF BindType, TimeCount
<1>2. /\ Len(l.rows) \in Nat /\ Len(rows) \in Nat /\ l.row_offset \in Nat
      /\ DOMAIN l.rows = 1 .. Len(l.rows) /\ DOMAIN rows = 1 .. Len(rows)
  BY DEF LocalType
<1>3. m \in LocalType
  BY LocalUpdate
<1>4. /\ m.pc = l.pc /\ m.file = l.file /\ m.next_prim = l.next_prim /\ m.size = l.size
      /\ m.time = l.time /\ m.rows = rows /\ m.row_times = times
      /\ m.time_index = l.time_index /\ m.begun = l.begun /\ m.batch = l.batch
      /\ m.first = l.first /\ m.row_offset = l.row_offset
  BY DEF LocalType
<1> HIDE DEF m
<1>5. MorselOK(bind, m, n)
  BY <1>4 DEF LocalOK, MorselOK
<1>6. RowsOK(bind, m, n, more)
  <2>1. RowsOK(bind, l, n, ref) /\ l.begun = l.file
    BY DEF LocalOK, MorselOK
  <2>2. m.row_offset <= Len(m.rows)
    BY <1>2, <1>4, <2>1 DEF RowsOK
  <2>3. ASSUME NEW i \in 1 .. Len(rows)
        PROVE  /\ rows[i].file = l.file /\ rows[i].stage = l.file
               /\ <<l.file, rows[i].prim>> \in Clips /\ ~bind.clips_allowed => more[l.file]
    <3>1. CASE i \in 1 .. Len(l.rows) /\ rows[i] = l.rows[i]
      BY <1>2, <2>1, <3>1 DEF RowsOK
    <3>2. CASE /\ rows[i].file = l.file /\ rows[i].prim = p
               /\ rows[i].stage = l.begun /\ rows[i].time = l.time
      BY <2>1, <3>2 DEF Refuses
    <3> QED BY <3>1, <3>2
  <2> QED BY <1>2, <1>4, <2>2, <2>3 DEF RowsOK
<1>7. TimesOK(bind, m)
  <2>1. TimesOK(bind, l)
    BY DEF LocalOK
  <2>2. CASE TimeCount = 0
    <3>1. l.time = 0 /\ l.time_index = 0 /\ \A i \in 1 .. Len(l.rows) : l.rows[i].time = 0
      BY <1>2, <2>1, <2>2 DEF TimesOK, TimeCount
    <3>2. \A i \in 1 .. Len(rows) : rows[i].time = 0
      BY <3>1
    <3> QED BY <1>2, <1>4, <2>2, <3>1, <3>2 DEF TimesOK, TimeCount
  <2>3. CASE TimeCount > 0
    <3>1. /\ l.time_index < TimeCount /\ Len(l.row_times) = Len(l.rows)
          /\ \A i \in 1 .. Len(l.rows) : l.row_times[i] = l.rows[i].time
      BY <1>2, <2>1, <2>3 DEF TimesOK, TimeCount
    <3>2. ASSUME NEW i \in 1 .. Len(rows) PROVE times[i] = rows[i].time
      BY <1>2, <2>3, <3>1
    <3> QED BY <1>2, <1>4, <2>3, <3>1, <3>2 DEF TimesOK, TimeCount
  <2> QED BY <1>1, <2>2, <2>3
<1>8. LocalOK(bind, m, n, more)
  BY <1>4, <1>5, <1>6, <1>7 DEF LocalOK
<1> QED BY <1>3, <1>8 DEF m

LEMMA AdvanceOK ==
    ASSUME bind \in BindType, NEW l \in LocalType, NEW n \in Nat, NEW ref,
           LocalOK(bind, l, n, ref), l.pc = "fill", l.next_prim < l.size,
           TimeCount > 0 => l.time = l.time_index + 1
    PROVE  Advance(l) \in LocalType /\ Advance(l).pc = "fill"
           /\ LocalOK(bind, Advance(l), n, ref)
<1>1. TimeCount \in Nat /\ l.time_index \in Nat /\ l.next_prim \in Nat /\ l.size \in Nat
  BY ScanAssumption DEF BindType, TimeCount, LocalType
<1>2. CASE l.next_prim + 1 = l.size /\ l.time_index + 1 < TimeCount
  <2> DEFINE m == [l EXCEPT !.time_index = @ + 1, !.next_prim = 0]
  <2>1. Advance(l) = m
    BY <1>2 DEF Advance
  <2>2. m \in LocalType
    <3>1. l.time_index + 1 \in Nat /\ 0 \in Nat
      BY <1>1
    <3> QED BY <3>1, LocalUpdate
  <2>3. /\ m.pc = l.pc /\ m.file = l.file /\ m.next_prim = 0 /\ m.size = l.size
        /\ m.time = l.time /\ m.rows = l.rows /\ m.row_times = l.row_times
        /\ m.time_index = l.time_index + 1 /\ m.begun = l.begun /\ m.batch = l.batch
        /\ m.first = l.first /\ m.row_offset = l.row_offset
    BY DEF LocalType
  <2> HIDE DEF m
  <2>4. MorselOK(bind, m, n) /\ RowsOK(bind, m, n, ref)
    BY <1>1, <2>3 DEF LocalOK, MorselOK, RowsOK
  <2>5. TimesOK(bind, m)
    BY <1>1, <1>2, <2>3 DEF LocalOK, TimesOK, TimeCount
  <2>6. LocalOK(bind, m, n, ref)
    BY <2>3, <2>4, <2>5 DEF LocalOK
  <2> QED BY <2>1, <2>2, <2>3, <2>6 DEF m
<1>3. CASE ~(l.next_prim + 1 = l.size /\ l.time_index + 1 < TimeCount)
  <2> DEFINE m == [l EXCEPT !.next_prim = @ + 1]
  <2>1. Advance(l) = m
    BY <1>3 DEF Advance
  <2>2. m \in LocalType
    <3>1. l.next_prim + 1 \in Nat
      BY <1>1
    <3> QED BY <3>1, LocalUpdate
  <2>3. /\ m.pc = l.pc /\ m.file = l.file /\ m.next_prim = l.next_prim + 1
        /\ m.size = l.size /\ m.time = l.time /\ m.rows = l.rows
        /\ m.row_times = l.row_times /\ m.time_index = l.time_index
        /\ m.begun = l.begun /\ m.batch = l.batch
        /\ m.first = l.first /\ m.row_offset = l.row_offset
    BY DEF LocalType
  <2>4. LocalOK(bind, m, n, ref)
    BY <1>1, <2>3, SMTT(30) DEF LocalOK, MorselOK, RowsOK, TimesOK, TimeCount
  <2> QED BY <2>1, <2>2, <2>3, <2>4
<1> QED BY <1>2, <1>3

\* What SInv says of a thread
LEMMA ThreadFacts ==
    ASSUME SInv, NEW t \in Threads
    PROVE  /\ local[t] \in LocalType /\ LocalOK(bind, local[t], Len(batches), refused)
           /\ bind \in BindType /\ refused \in [FileIndex -> BOOLEAN]
           /\ batches \in Seq(BatchType) /\ Len(batches) \in Nat
           /\ local \in [Threads -> LocalType]
<1>1. TypeOK /\ LocalsOK
  BY DEF SInv
<1> QED BY <1>1 DEF TypeOK, LocalsOK

\* A step that changes neither the global state nor the mutex's holder
LEMMA LocalStep ==
    ASSUME SInv, NEW t \in Threads, NEW l \in LocalType, Becomes(t, l),
           UNCHANGED <<bind, lock, global, skipped>>,
           l.pc \in {"locked", "opening"} <=> local[t].pc \in {"locked", "opening"},
           l.pc = "opening" => local[t].pc = "opening",
           refused' \in [FileIndex -> BOOLEAN],
           \A f \in FileIndex : refused[f] => refused'[f],
           batches' \in Seq(BatchType), Len(batches') = Len(batches), BatchesOK',
           LocalOK(bind, l, Len(batches'), refused')
    PROVE  SInv'
<1>1. TypeOK /\ CountersOK /\ Len(batches) \in Nat
  BY ThreadFacts DEF SInv
<1>2. local' \in [Threads -> LocalType] /\ LocalsOK'
  BY <1>1, LocalsStep
<1>3. MutexOK' /\ lock' \in Threads \cup {NoThread}
  BY MutexStep
<1>4. TypeOK'
  BY <1>1, <1>2, <1>3 DEF TypeOK, global
<1>5. \A u \in Threads : local'[u].pc = "opening" => local[u].pc = "opening"
  BY <1>1 DEF Becomes, TypeOK
<1>6. CountersOK'
  BY <1>1, <1>5 DEF CountersOK, global, PrimCount
<1> QED BY <1>2, <1>3, <1>4, <1>6 DEF SInv

LEMMA AddPrimStep ==
    ASSUME SInv, NEW t \in Threads, AddPrim(t)
    PROVE  SInv'
<1> DEFINE l == Timed(local[t])
           p == l.first + l.next_prim
           rows == l.rows \o PrimRows(l, l.file, p)
           times == IF TimeCount = 0 THEN <<>>
                    ELSE Resize(l.row_times, Len(rows), l.time_index + 1)
           kept == [l EXCEPT !.rows = rows, !.row_times = times]
<1>1. /\ l.pc = "fill" /\ Fillable(l)
      /\ Becomes(t, Advance(kept))
      /\ refused' = [refused EXCEPT ![l.file] = @ \/ Refuses(l.file, p)]
      /\ UNCHANGED <<bind, lock, global, skipped, batches>>
  BY DEF AddPrim
<1>2. /\ local[t] \in LocalType /\ LocalOK(bind, local[t], Len(batches), refused)
      /\ bind \in BindType /\ refused \in [FileIndex -> BOOLEAN]
      /\ batches \in Seq(BatchType) /\ Len(batches) \in Nat
  BY ThreadFacts
<1>3. local[t].pc = "fill" /\ local[t].next_prim < local[t].size /\ local[t].size > 0
  <2>1. local[t].pc = l.pc /\ local[t].next_prim = l.next_prim /\ local[t].size = l.size
    BY <1>2 DEF Timed, LocalType
  <2>2. l.next_prim < l.size
    BY <1>1 DEF Fillable
  <2> QED BY <1>1, <1>2, <2>1, <2>2, SMTT(30) DEF LocalType
<1>4. /\ l \in LocalType /\ LocalOK(bind, l, Len(batches), refused)
      /\ l.pc = "fill" /\ l.next_prim < l.size /\ l.size > 0
      /\ TimeCount > 0 => l.time = l.time_index + 1
  <2>1. /\ l \in LocalType /\ LocalOK(bind, l, Len(batches), refused)
        /\ l.pc = local[t].pc
        /\ l.next_prim = local[t].next_prim /\ l.size = local[t].size
        /\ TimeCount > 0 => l.time = l.time_index + 1
    BY <1>2, <1>3, TimedOK
  <2> QED BY <1>3, <2>1
<1>5. /\ l.file \in FileIndex /\ l.batch < Len(batches)
      /\ p \in 1 .. PrimCount(l.file)
  <2>1. /\ l.file \in FileIndex /\ l.batch < Len(batches)
        /\ l.first >= 1 /\ l.first + l.size <= PrimCount(l.file) + 1
    BY <1>4 DEF LocalOK, MorselOK
  <2>2. l.first \in Nat /\ l.next_prim \in Nat /\ l.size \in Nat /\ PrimCount(l.file) \in Nat
    BY <1>4, <2>1, PrimCountType DEF LocalType
  <2> QED BY <1>4, <2>1, <2>2
<1> HIDE DEF l
<1>6. /\ refused' \in [FileIndex -> BOOLEAN]
      /\ \A f \in FileIndex : refused[f] => refused'[f]
      /\ Refuses(l.file, p) => refused'[l.file]
  <2> DEFINE r == Refuses(l.file, p)
  <2>1. r \in BOOLEAN
    BY DEF Refuses
  <2>2. refused' = [refused EXCEPT ![l.file] = refused[l.file] \/ r]
    BY <1>1
  <2> HIDE DEF r
  <2>3. refused' \in [FileIndex -> BOOLEAN]
    BY <1>2, <2>2
  <2>4. \A f \in FileIndex : refused[f] => refused'[f]
    BY <1>2, <2>2
  <2>5. r => refused'[l.file]
    BY <1>2, <1>5, <2>2
  <2> QED BY <2>3, <2>4, <2>5 DEF r
<1>7. kept \in LocalType /\ LocalOK(bind, kept, Len(batches), refused')
  <2>1. p \in 0 .. PrimCount(l.file)
    BY <1>5
  <2> HIDE DEF p
  <2> DEFINE rs == rows
             ts == times
  <2>2. /\ rs \in Seq(Row) /\ Len(l.rows) <= Len(rs)
        /\ \A i \in 1 .. Len(rs) :
             \/ i \in 1 .. Len(l.rows) /\ rs[i] = l.rows[i]
             \/ /\ i > Len(l.rows)
                /\ rs[i].file = l.file /\ rs[i].prim = p
                /\ rs[i].stage = l.begun /\ rs[i].time = l.time
    <3>1. l \in LocalType /\ l.file \in FileIndex
      BY <1>4, <1>5
    <3> QED BY <2>1, <3>1, RowsAppended
  <2> HIDE DEF rs
  <2>3. /\ ts \in Seq(0 .. MaxTimes)
        /\ TimeCount > 0 =>
             /\ Len(ts) = Len(rs)
             /\ \A i \in 1 .. Len(rs) : ts[i] = IF i <= Len(l.row_times) THEN l.row_times[i]
                                                ELSE l.time_index + 1
    <3>1. CASE TimeCount = 0
      BY <3>1
    <3>2. CASE TimeCount # 0
      <4>1. /\ l.time_index < TimeCount /\ l.time_index \in Nat
            /\ l.row_times \in Seq(0 .. MaxTimes)
            /\ TimeCount \in Nat /\ TimeCount <= MaxTimes /\ MaxTimes \in Nat
        BY <1>2, <1>4, <3>2, ScanAssumption
        DEF BindType, LocalOK, TimesOK, TimeCount, LocalType
      <4>2. l.time_index + 1 \in 0 .. MaxTimes
        BY <4>1
      <4>3. ts = Resize(l.row_times, Len(rs), l.time_index + 1)
        BY <3>2 DEF rs
      <4> HIDE DEF ts
      <4> DEFINE S == 0 .. MaxTimes
      <4>4. l.row_times \in Seq(S) /\ l.time_index + 1 \in S /\ Len(rs) \in Nat
        <5> HIDE DEF rs, p
        <5> QED BY <2>2, <4>1, <4>2
      <4>5. /\ ts \in Seq(S) /\ Len(ts) = Len(rs)
            /\ \A i \in 1 .. Len(rs) : ts[i] = IF i <= Len(l.row_times) THEN l.row_times[i]
                                               ELSE l.time_index + 1
        <5> DEFINE old == l.row_times
                   v == l.time_index + 1
                   n == Len(rs)
        <5>1. old \in Seq(S) /\ v \in S /\ n \in Nat
          BY <4>4
        <5>2. ts = Resize(old, n, v)
          BY <4>3
        <5> HIDE DEF S, old, v, n
        <5>3. /\ Resize(old, n, v) \in Seq(S) /\ Len(Resize(old, n, v)) = n
              /\ \A i \in 1 .. n : Resize(old, n, v)[i] = IF i <= Len(old) THEN old[i] ELSE v
          BY <5>1, ResizeFacts, SMTT(30)
        <5>4. /\ ts \in Seq(S) /\ Len(ts) = n
              /\ \A i \in 1 .. n : ts[i] = IF i <= Len(old) THEN old[i] ELSE v
          BY <5>2, <5>3
        <5> QED BY <5>4 DEF old, v, n
      <4> QED BY <4>5
    <3> QED BY <3>1, <3>2
  <2> HIDE DEF ts
  <2>4. /\ [l EXCEPT !.rows = rs, !.row_times = ts] \in LocalType
        /\ LocalOK(bind, [l EXCEPT !.rows = rs, !.row_times = ts], Len(batches), refused')
    BY <1>2, <1>4, <1>5, <1>6, <2>2, <2>3, BufferOK
  <2> QED BY <2>4 DEF rs, ts
<1>8. /\ kept.pc = "fill" /\ kept.next_prim < kept.size
      /\ TimeCount > 0 => kept.time = kept.time_index + 1
  BY <1>4 DEF LocalType
<1> HIDE DEF kept
<1>9. /\ Advance(kept) \in LocalType /\ Advance(kept).pc = "fill"
      /\ LocalOK(bind, Advance(kept), Len(batches), refused')
  BY <1>2, <1>7, <1>8, AdvanceOK
<1>10. BatchesOK' /\ batches' \in Seq(BatchType) /\ Len(batches') = Len(batches)
  BY <1>1, <1>2 DEF SInv, BatchesOK
<1> QED BY <1>1, <1>3, <1>6, <1>9, <1>10, LocalStep

-----------------------------------------------------------------------------
(* Emit and Exhausted *)

LEMMA NoMorselOK ==
    ASSUME bind \in BindType, NEW n \in Nat, NEW ref, NEW pc \in {"fill", "failed"}
    PROVE  /\ [NoMorsel EXCEPT !.pc = pc] \in LocalType
           /\ [NoMorsel EXCEPT !.pc = pc].pc = pc
           /\ LocalOK(bind, [NoMorsel EXCEPT !.pc = pc], n, ref)
<1> DEFINE m == [NoMorsel EXCEPT !.pc = pc]
<1>1. m \in LocalType
  BY NoMorselType
<1>2. /\ m.pc = pc /\ m.file = 0 /\ m.size = 0 /\ m.next_prim = 0 /\ m.time_index = 0
      /\ m.rows = <<>> /\ m.row_times = <<>> /\ m.row_offset = 0 /\ m.begun = 0 /\ m.time = 0
  BY NoMorselType
<1> HIDE DEF m
<1>3. bind.times \in Nat
  BY ScanAssumption DEF BindType
<1>4. LocalOK(bind, m, n, ref)
  BY <1>2, <1>3 DEF LocalOK, MorselOK, RowsOK, TimesOK
<1> QED BY <1>1, <1>2, <1>4 DEF m

\* An exception leaves the mutex free and the thread without a morsel
LEMMA ThrowStep ==
    ASSUME SInv, NEW t \in Threads, Throw(t),
           local[t].pc = "fill" \/ local[t].pc = "opening",
           UNCHANGED <<bind, global, refused, skipped, batches>>
    PROVE  SInv'
<1> DEFINE l == [NoMorsel EXCEPT !.pc = "failed"]
<1>1. TypeOK /\ CountersOK /\ MutexOK /\ BatchesOK
  BY DEF SInv
<1>2. /\ local \in [Threads -> LocalType] /\ bind \in BindType
      /\ refused \in [FileIndex -> BOOLEAN]
      /\ batches \in Seq(BatchType) /\ Len(batches) \in Nat
  BY ThreadFacts
<1>3. l \in LocalType /\ l.pc = "failed" /\ LocalOK(bind, l, Len(batches), refused)
  BY <1>2, NoMorselOK
<1> HIDE DEF l
<1>4. Becomes(t, l) /\ lock' = IF lock = t THEN NoThread ELSE lock
  BY DEF Throw, l
<1>5. local' \in [Threads -> LocalType] /\ LocalsOK'
  BY <1>2, <1>3, <1>4, LocalsStep
<1>6. MutexOK' /\ lock' \in Threads \cup {NoThread}
  <2>1. local[t].pc \in {"locked", "opening"} <=> lock = t
    BY <1>1 DEF MutexOK
  <2>2. CASE lock = t
    BY <1>3, <1>4, <2>2, MutexStep
  <2>3. CASE lock # t
    BY <1>3, <1>4, <2>1, <2>3, MutexStep
  <2> QED BY <2>2, <2>3
<1>7. TypeOK'
  BY <1>1, <1>5, <1>6 DEF TypeOK, global
<1>8. \A u \in Threads : local'[u].pc = "opening" => local[u].pc = "opening"
  BY <1>2, <1>3, <1>4 DEF Becomes
<1>9. CountersOK'
  BY <1>1, <1>8 DEF CountersOK, global, PrimCount
<1>10. BatchesOK'
  BY <1>1 DEF BatchesOK
<1> QED BY <1>5, <1>6, <1>7, <1>9, <1>10 DEF SInv

LEMMA EmitStep ==
    ASSUME SInv, NEW t \in Threads, Emit(t)
    PROVE  SInv'
<1> DEFINE l == local[t]
           count == IF Available(l) < VectorSize THEN Available(l) ELSE VectorSize
           Label(i) == IF TimeCount = 0 THEN 0 ELSE l.row_times[l.row_offset + i]
           OutRowOf(r, a) == [file |-> r.file, prim |-> r.prim, row |-> r.row,
                              stage |-> r.stage, time |-> r.time, at |-> a]
           chunk == [i \in 1 .. count |-> OutRowOf(l.rows[l.row_offset + i], Label(i))]
           m == [l EXCEPT !.row_offset = @ + count]
           b == l.batch + 1
<1>1. /\ l.pc = "fill" /\ Available(l) > 0
      /\ UNCHANGED <<bind, global, refused, skipped>>
      /\ \/ Throw(t) /\ UNCHANGED batches
         \/ /\ ~ThrowIfRefused(l.file)
            /\ Becomes(t, m)
            /\ batches' = [batches EXCEPT ![b].rows = @ \o chunk]
            /\ UNCHANGED lock
  BY DEF Emit
<1>2. /\ l \in LocalType /\ LocalOK(bind, l, Len(batches), refused)
      /\ bind \in BindType /\ refused \in [FileIndex -> BOOLEAN]
      /\ batches \in Seq(BatchType) /\ Len(batches) \in Nat
  BY ThreadFacts
<1>3. CASE Throw(t) /\ UNCHANGED batches
  BY <1>1, <1>3, ThrowStep
<1>4. CASE /\ ~ThrowIfRefused(l.file)
           /\ Becomes(t, m)
           /\ batches' = [batches EXCEPT ![b].rows = @ \o chunk]
           /\ UNCHANGED lock
  <2>1. /\ l.rows \in Seq(Row) /\ Len(l.rows) \in Nat /\ DOMAIN l.rows = 1 .. Len(l.rows)
        /\ l.row_times \in Seq(0 .. MaxTimes) /\ l.row_offset \in Nat /\ l.batch \in Nat
    BY <1>2, SMTT(30) DEF LocalType
  <2>2. /\ Available(l) = Len(l.rows) - l.row_offset
        /\ count \in Nat /\ l.row_offset + count <= Len(l.rows) /\ count >= 1
    <3>1. Available(l) = Len(l.rows) - l.row_offset
      BY DEF Available
    <3>2. VectorSize \in Nat /\ VectorSize > 0
      BY ScanAssumption
    <3> HIDE DEF l
    <3>3. count = IF Available(l) < VectorSize THEN Available(l) ELSE VectorSize
      OBVIOUS
    <3> DEFINE a == Available(l)
               n == Len(l.rows)
               o == l.row_offset
    <3>4. n \in Nat /\ o \in Nat /\ a = n - o /\ a > 0
      BY <1>1, <2>1, <3>1
    <3>5. count = IF a < VectorSize THEN a ELSE VectorSize
      BY <3>3
    <3> HIDE DEF count, a, n, o
    <3>6. count \in Nat /\ o + count <= n /\ count >= 1
      BY <3>2, <3>4, <3>5
    <3> QED BY <3>1, <3>6 DEF n, o
  <2> HIDE DEF count
  <2>3. l.file \in FileIndex /\ l.batch < Len(batches)
    BY <1>2, <2>1, <2>2 DEF LocalOK, RowsOK
  <2>4. ASSUME NEW i \in 1 .. count
        PROVE  /\ l.row_offset + i \in DOMAIN l.rows
               /\ l.rows[l.row_offset + i] \in Row
               /\ Label(i) \in 0 .. MaxTimes
               /\ Label(i) = l.rows[l.row_offset + i].time
    <3>1. l.row_offset + i \in DOMAIN l.rows
      BY <2>1, <2>2
    <3>2. l.rows[l.row_offset + i] \in Row
      BY <2>1, <3>1
    <3>3. Label(i) = l.rows[l.row_offset + i].time
      <4>1. CASE TimeCount = 0
        BY <1>2, <3>1, <4>1 DEF LocalOK, TimesOK, TimeCount
      <4>2. CASE TimeCount # 0
        BY <1>2, <3>1, <4>2, ScanAssumption DEF LocalOK, TimesOK, TimeCount, BindType
      <4> QED BY <4>1, <4>2
    <3> QED BY <3>1, <3>2, <3>3 DEF Row
  <2> HIDE DEF Label
  <2>5. ASSUME NEW i \in 1 .. count
        PROVE  /\ chunk[i] \in OutRow
               /\ chunk[i].time = chunk[i].at
               /\ ~(<<chunk[i].file, chunk[i].prim>> \in Clips /\ ~bind.clips_allowed)
    <3> DEFINE r == l.rows[l.row_offset + i]
    <3>1. r \in Row /\ l.row_offset + i \in DOMAIN l.rows
          /\ Label(i) \in 0 .. MaxTimes /\ Label(i) = r.time
      BY <2>4
    <3>2. chunk[i] = [file |-> r.file, prim |-> r.prim, row |-> r.row, stage |-> r.stage,
                      time |-> r.time, at |-> Label(i)]
      OBVIOUS
    <3>3. r.file = l.file
          /\ (<<l.file, r.prim>> \in Clips /\ ~bind.clips_allowed => refused[l.file])
      BY <1>2, <3>1 DEF LocalOK, RowsOK
    <3>4. ~refused[l.file]
      BY <1>4 DEF ThrowIfRefused
    <3> HIDE DEF r, chunk
    <3>5. chunk[i] \in OutRow
      BY <3>1, <3>2 DEF Row, OutRow
    <3>6. chunk[i].time = r.time /\ chunk[i].at = r.time /\ chunk[i].file = r.file
          /\ chunk[i].prim = r.prim
      BY <3>1, <3>2
    <3> QED BY <3>3, <3>4, <3>5, <3>6
  <2>6. chunk \in Seq(OutRow) /\ Len(chunk) = count /\ DOMAIN chunk = 1 .. count
    <3>1. chunk \in [1 .. count -> OutRow]
      BY <2>5
    <3> QED BY <2>2, <3>1
  <2> HIDE DEF chunk
  <2>7. b \in 1 .. Len(batches) /\ batches[b] \in BatchType /\ batches[b].rows \in Seq(OutRow)
    <3>1. b \in 1 .. Len(batches)
      BY <1>2, <2>1, <2>3
    <3> HIDE DEF b
    <3>2. batches[b] \in BatchType
      BY <1>2, <3>1
    <3> QED BY <3>1, <3>2 DEF BatchType
  <2> DEFINE more == batches[b].rows \o chunk
             c == [batches[b] EXCEPT !.rows = more]
  <2>8. more \in Seq(OutRow)
    BY <2>6, <2>7
  <2>9. batches' = [batches EXCEPT ![b] = c]
    BY <1>4
  <2>10. BatchOK(bind, more)
    <3>1. BatchOK(bind, batches[b].rows)
      BY <2>7 DEF SInv, BatchesOK
    <3>2. ASSUME NEW i \in DOMAIN more
          PROVE  \/ i \in DOMAIN batches[b].rows /\ more[i] = batches[b].rows[i]
                 \/ \E j \in 1 .. count : more[i] = chunk[j]
      <4> DEFINE old == batches[b].rows
      <4>1. old \in Seq(OutRow)
        BY <2>7
      <4>2. more = old \o chunk
        OBVIOUS
      <4> HIDE DEF old
      <4>3. /\ DOMAIN more = 1 .. Len(more) /\ DOMAIN old = 1 .. Len(old)
            /\ \A j \in 1 .. Len(more) :
                 \/ j \in 1 .. Len(old) /\ more[j] = old[j]
                 \/ j - Len(old) \in 1 .. Len(chunk) /\ more[j] = chunk[j - Len(old)]
        BY <2>6, <2>8, <4>1, <4>2, ConcatFacts, SMTT(30)
      <4> HIDE DEF more
      <4> QED BY <2>6, <3>2, <4>3 DEF old
    <3> HIDE DEF more
    <3> QED BY <2>5, <3>1, <3>2 DEF BatchOK
  <2> HIDE DEF more
  <2>11. c \in BatchType /\ c.rows = more
    BY <2>7, <2>8 DEF BatchType
  <2> HIDE DEF c, b
  <2>12. /\ batches' \in Seq(BatchType) /\ Len(batches') = Len(batches)
         /\ \A n \in DOMAIN batches' :
              n \in DOMAIN batches /\ batches'[n] = IF n = b THEN c ELSE batches[n]
    BY <1>2, <2>7, <2>9, <2>11
  <2>13. BatchesOK'
    BY <1>1, <2>10, <2>11, <2>12 DEF SInv, BatchesOK
  <2>14. m \in LocalType
    <3>1. l.row_offset + count \in Nat
      BY <2>1, <2>2
    <3>2. l \in LocalType
      BY <1>2
    <3> QED BY <3>1, <3>2, LocalUpdate
  <2>15. /\ m.pc = "fill" /\ m.file = l.file /\ m.next_prim = l.next_prim
         /\ m.size = l.size /\ m.time = l.time /\ m.rows = l.rows
         /\ m.row_times = l.row_times /\ m.time_index = l.time_index
         /\ m.begun = l.begun /\ m.batch = l.batch
         /\ m.first = l.first /\ m.row_offset = l.row_offset + count
    BY <1>1, <1>2 DEF LocalType
  <2> HIDE DEF m
  <2>16. LocalOK(bind, m, Len(batches'), refused')
    BY <1>1, <1>2, <2>2, <2>12, <2>15, SMTT(30) DEF LocalOK, MorselOK, RowsOK, TimesOK
  <2> QED BY <1>1, <1>2, <1>4, <2>12, <2>13, <2>14, <2>15, <2>16, LocalStep
<1> QED BY <1>1, <1>3, <1>4

LEMMA ExhaustedStep ==
    ASSUME SInv, NEW t \in Threads, Exhausted(t)
    PROVE  SInv'
<1> DEFINE l == local[t]
           m == Cleared(l)
<1>1. /\ l.pc = "fill" /\ Becomes(t, m)
      /\ UNCHANGED <<bind, lock, global, refused, skipped, batches>>
  BY DEF Exhausted
<1>2. /\ l \in LocalType /\ LocalOK(bind, l, Len(batches), refused)
      /\ bind \in BindType /\ refused \in [FileIndex -> BOOLEAN]
      /\ batches \in Seq(BatchType) /\ Len(batches) \in Nat
  BY ThreadFacts
<1>3. m \in LocalType
  BY <1>2, ClearedType
<1>4. /\ m.pc = "next" /\ m.size = 0 /\ m.next_prim = 0 /\ m.time_index = 0
      /\ m.rows = <<>> /\ m.row_times = <<>> /\ m.row_offset = 0
      /\ m.begun = l.begun /\ m.file = l.file /\ m.time = l.time
  BY <1>2 DEF LocalType, Cleared
<1> HIDE DEF m
<1>5. LocalOK(bind, m, Len(batches), refused)
  <2>1. l.begun = l.file /\ (bind.times = 0 => l.time = 0) /\ bind.times \in Nat
    BY <1>2, ScanAssumption DEF LocalOK, MorselOK, TimesOK, BindType
  <2> QED BY <1>4, <2>1 DEF LocalOK, Between, MorselOK, RowsOK, TimesOK
<1>6. BatchesOK'
  BY <1>1 DEF SInv, BatchesOK
<1> QED BY <1>1, <1>2, <1>3, <1>4, <1>5, <1>6, LocalStep

-----------------------------------------------------------------------------
(* UsdScanGlobalState::Next *)

\* A thread that only moves to another step of Next, with nothing buffered
LEMMA GotoOK ==
    ASSUME SInv, NEW t \in Threads, Between(local[t]),
           NEW p \in {"next", "locked", "opening", "done"}
    PROVE  /\ [local[t] EXCEPT !.pc = p] \in LocalType
           /\ [local[t] EXCEPT !.pc = p].pc = p
           /\ LocalOK(bind, [local[t] EXCEPT !.pc = p], Len(batches), refused)
<1> DEFINE l == local[t]
           m == [l EXCEPT !.pc = p]
<1>1. l \in LocalType /\ LocalOK(bind, l, Len(batches), refused)
  BY ThreadFacts
<1>2. m \in LocalType
  BY <1>1 DEF LocalType
<1>3. /\ m.pc = p /\ m.file = l.file /\ m.next_prim = l.next_prim
      /\ m.size = l.size /\ m.time = l.time /\ m.rows = l.rows
      /\ m.row_times = l.row_times /\ m.time_index = l.time_index
      /\ m.begun = l.begun /\ m.batch = l.batch
      /\ m.first = l.first /\ m.row_offset = l.row_offset
  BY <1>1 DEF LocalType
<1> HIDE DEF m
<1>4. LocalOK(bind, m, Len(batches), refused)
  BY <1>1, <1>3 DEF LocalOK, Between, MorselOK, RowsOK, TimesOK
<1> QED BY <1>2, <1>3, <1>4 DEF m

\* ... while it takes, keeps or releases the mutex
LEMMA GotoStep ==
    ASSUME SInv, NEW t \in Threads, Between(local[t]),
           NEW p \in {"next", "locked", "opening", "done"}, Goto(t, p),
           \/ /\ lock' = lock
              /\ p \in {"locked", "opening"} <=> local[t].pc \in {"locked", "opening"}
           \/ lock = NoThread /\ lock' = t /\ p \in {"locked", "opening"}
           \/ lock = t /\ lock' = NoThread /\ p \notin {"locked", "opening"},
           UNCHANGED <<bind, refused, batches>>
    PROVE  /\ MutexOK' /\ LocalsOK' /\ BatchesOK'
           /\ local' \in [Threads -> LocalType] /\ lock' \in Threads \cup {NoThread}
           /\ local' = [local EXCEPT ![t] = [local[t] EXCEPT !.pc = p]]
           /\ \A u \in Threads : local'[u].pc = IF u = t THEN p ELSE local[u].pc
<1> DEFINE m == [local[t] EXCEPT !.pc = p]
<1>1. m \in LocalType /\ m.pc = p /\ LocalOK(bind, m, Len(batches), refused)
  BY GotoOK
<1>2. Becomes(t, m)
  BY DEF Goto
<1> HIDE DEF m
<1>3. /\ refused \in [FileIndex -> BOOLEAN] /\ batches \in Seq(BatchType)
      /\ Len(batches) \in Nat /\ local \in [Threads -> LocalType]
  BY ThreadFacts
<1>4. local' \in [Threads -> LocalType] /\ LocalsOK'
  BY <1>1, <1>2, <1>3, LocalsStep
<1>5. MutexOK' /\ lock' \in Threads \cup {NoThread}
  BY <1>1, <1>2, MutexStep
<1>6. BatchesOK'
  BY DEF SInv, BatchesOK
<1>7. local' = [local EXCEPT ![t] = m]
  BY <1>2 DEF Becomes
<1>8. \A u \in Threads : local'[u].pc = IF u = t THEN p ELSE local[u].pc
  BY <1>1, <1>3, <1>7
<1> QED BY <1>4, <1>5, <1>6, <1>7, <1>8 DEF m

\* A thread inside Next is the only one there, and has nothing buffered
LEMMA InsideNext ==
    ASSUME SInv, NEW t \in Threads, local[t].pc \in {"next", "locked", "opening"}
    PROVE  /\ Between(local[t])
           /\ local[t].pc # "next" =>
                lock = t /\ \A u \in Threads \ {t} : local[u].pc \notin {"locked", "opening"}
<1>1. LocalOK(bind, local[t], Len(batches), refused)
  BY ThreadFacts
<1> QED BY <1>1 DEF LocalOK, SInv, MutexOK

LEMMA AcquireStep ==
    ASSUME SInv, NEW t \in Threads, Acquire(t)
    PROVE  SInv'
<1>1. /\ local[t].pc = "next" /\ lock = NoThread /\ lock' = t /\ Goto(t, "locked")
      /\ UNCHANGED <<bind, global, refused, skipped, batches>>
  BY DEF Acquire
<1>2. Between(local[t])
  BY <1>1, InsideNext
<1>3. /\ MutexOK' /\ LocalsOK' /\ BatchesOK'
      /\ local' \in [Threads -> LocalType] /\ lock' \in Threads \cup {NoThread}
      /\ \A u \in Threads : local'[u].pc = IF u = t THEN "locked" ELSE local[u].pc
  BY <1>1, <1>2, GotoStep
<1>4. CountersOK'
  BY <1>1, <1>3 DEF SInv, CountersOK, global, PrimCount
<1>5. TypeOK'
  BY <1>1, <1>3 DEF SInv, TypeOK, global
<1> QED BY <1>3, <1>4, <1>5 DEF SInv

LEMMA NoMoreFilesStep ==
    ASSUME SInv, NEW t \in Threads, NoMoreFiles(t)
    PROVE  SInv'
<1>1. /\ local[t].pc = "locked" /\ lock' = NoThread /\ Goto(t, "done")
      /\ UNCHANGED <<bind, global, refused, skipped, batches>>
  BY DEF NoMoreFiles
<1>2. Between(local[t]) /\ lock = t
  BY <1>1, InsideNext
<1>3. /\ MutexOK' /\ LocalsOK' /\ BatchesOK'
      /\ local' \in [Threads -> LocalType] /\ lock' \in Threads \cup {NoThread}
      /\ \A u \in Threads : local'[u].pc = IF u = t THEN "done" ELSE local[u].pc
  BY <1>1, <1>2, GotoStep
<1>4. CountersOK'
  BY <1>1, <1>3 DEF SInv, CountersOK, global, PrimCount
<1>5. TypeOK'
  BY <1>1, <1>3 DEF SInv, TypeOK, global
<1> QED BY <1>3, <1>4, <1>5 DEF SInv

LEMMA StartFileStep ==
    ASSUME SInv, NEW t \in Threads, StartFile(t)
    PROVE  SInv'
<1>1. /\ local[t].pc = "locked" /\ stage = 0 /\ next_file < FileCount
      /\ next_file' = next_file + 1 /\ current_file' = next_file + 1
      /\ files_started' = next_file + 1 /\ Goto(t, "opening")
      /\ UNCHANGED <<bind, lock, stage, position, next_batch_index, refused, skipped, batches>>
  BY DEF StartFile
<1>2. Between(local[t])
  BY <1>1, InsideNext
<1>3. /\ MutexOK' /\ LocalsOK' /\ BatchesOK'
      /\ local' \in [Threads -> LocalType] /\ lock' \in Threads \cup {NoThread}
  BY <1>1, <1>2, GotoStep
<1>4. TypeOK'
  BY <1>1, <1>3, ScanAssumption DEF SInv, TypeOK
<1>5. CountersOK'
  <2>1. next_file \in Nat
    BY DEF SInv, TypeOK
  <2> QED BY <1>1, <2>1 DEF SInv, CountersOK
<1> QED BY <1>3, <1>4, <1>5 DEF SInv

LEMMA EndOfStageStep ==
    ASSUME SInv, NEW t \in Threads, EndOfStage(t)
    PROVE  SInv'
<1>1. /\ stage' = 0
      /\ UNCHANGED <<bind, lock, next_file, files_started, current_file, position,
                     next_batch_index, local, refused, skipped, batches>>
  BY DEF EndOfStage
<1>2. TypeOK'
  BY <1>1, ScanAssumption DEF SInv, TypeOK
<1> QED BY <1>1, <1>2 DEF SInv, MutexOK, CountersOK, LocalsOK, BatchesOK

LEMMA OpenFailsStep ==
    ASSUME SInv, NEW t \in Threads, OpenFails(t)
    PROVE  SInv'
<1>1. /\ local[t].pc = "opening"
      /\ UNCHANGED <<bind, global, refused, batches>>
      /\ \/ skipped' = skipped \cup {current_file} /\ Goto(t, "locked") /\ UNCHANGED lock
         \/ Throw(t) /\ UNCHANGED skipped
  BY DEF OpenFails
<1>2. CASE Throw(t) /\ UNCHANGED skipped
  BY <1>1, <1>2, ThrowStep
<1>3. CASE skipped' = skipped \cup {current_file} /\ Goto(t, "locked") /\ UNCHANGED lock
  <2>1. Between(local[t])
    BY <1>1, InsideNext
  <2>2. /\ MutexOK' /\ LocalsOK' /\ BatchesOK'
        /\ local' \in [Threads -> LocalType] /\ lock' \in Threads \cup {NoThread}
        /\ \A u \in Threads : local'[u].pc = IF u = t THEN "locked" ELSE local[u].pc
    BY <1>1, <1>3, <2>1, GotoStep
  <2>3. current_file \in FileIndex
    BY <1>1, ScanAssumption DEF SInv, TypeOK, CountersOK, FileIndex
  <2>4. TypeOK'
    BY <1>1, <1>3, <2>2, <2>3 DEF SInv, TypeOK, global
  <2>5. CountersOK'
    BY <1>1, <2>2 DEF SInv, CountersOK, global, PrimCount
  <2> QED BY <2>2, <2>4, <2>5 DEF SInv
<1> QED BY <1>1, <1>2, <1>3

\* What Deal leaves behind: one more batch, and its morsel with the thread
LEMMA DealOK ==
    ASSUME SInv, NEW t \in Threads, NEW f \in FileIndex, NEW first \in Nat, NEW size \in Nat,
           local[t].pc \in {"locked", "opening"}, bind' = bind, Deal(t, f, first, size),
           StageUnit => size = 0,
           ~StageUnit => size > 0 /\ first >= 1 /\ first + size <= PrimCount(f) + 1
    PROVE  /\ MutexOK' /\ LocalsOK' /\ BatchesOK'
           /\ local' \in [Threads -> LocalType] /\ lock' \in Threads \cup {NoThread}
           /\ refused' \in [FileIndex -> BOOLEAN] /\ batches' \in Seq(BatchType)
           /\ next_batch_index' = Len(batches') /\ next_batch_index' \in Nat
           /\ \A u \in Threads : local'[u].pc # "opening"
<1> DEFINE l == local[t]
           begun == IF NewStage(l, f) THEN f ELSE l.begun
           m == [l EXCEPT !.pc = "fill", !.file = f, !.batch = next_batch_index,
                          !.first = first, !.size = size, !.begun = begun]
           k == [m EXCEPT !.rows = PrimRows(m, f, 0)]
           fresh == [file |-> f, first |-> first, size |-> size, rows |-> <<>>]
<1>1. /\ next_batch_index' = next_batch_index + 1
      /\ lock' = NoThread
      /\ IF StageUnit
         THEN Becomes(t, k) /\ refused' = [refused EXCEPT ![f] = @ \/ Refuses(f, 0)]
         ELSE Becomes(t, m) /\ UNCHANGED refused
      /\ batches' = Append(batches, fresh)
  BY DEF Deal
<1>2. /\ l \in LocalType /\ LocalOK(bind, l, Len(batches), refused)
      /\ bind \in BindType /\ refused \in [FileIndex -> BOOLEAN]
      /\ batches \in Seq(BatchType) /\ Len(batches) \in Nat
      /\ local \in [Threads -> LocalType]
  BY ThreadFacts
<1>3. /\ Between(l) /\ lock = t
      /\ \A u \in Threads \ {t} : local[u].pc \notin {"locked", "opening"}
  BY InsideNext
<1>4. next_batch_index = Len(batches)
  BY DEF SInv, CountersOK
<1>5. begun = f
  BY <1>2 DEF NewStage, LocalOK, MorselOK
<1> HIDE DEF begun
<1>6. fresh \in BatchType
  BY DEF BatchType
<1>7. /\ batches' \in Seq(BatchType) /\ Len(batches') = Len(batches) + 1
      /\ \A n \in DOMAIN batches' :
           batches'[n] = IF n = Len(batches) + 1 THEN fresh ELSE batches[n]
      /\ \A n \in DOMAIN batches' : n # Len(batches) + 1 => n \in DOMAIN batches
  BY <1>1, <1>2, <1>6
<1>8. BatchesOK'
  <2>1. fresh.rows = <<>>
    OBVIOUS
  <2> HIDE DEF fresh
  <2> QED BY <1>7, <2>1, SMTT(30) DEF SInv, BatchesOK, BatchOK
<1>9. m \in LocalType
  <2>1. f \in 0 .. FileCount /\ begun \in 0 .. FileCount /\ next_batch_index \in Nat
    BY <1>2, <1>4, <1>5, ScanAssumption DEF FileIndex
  <2> QED BY <1>2, <2>1, DealtType
<1>10. /\ m.pc = "fill" /\ m.file = f /\ m.next_prim = 0 /\ m.size = size
       /\ m.time = l.time /\ m.rows = <<>> /\ m.row_times = <<>> /\ m.time_index = 0
       /\ m.begun = f /\ m.batch = Len(batches) /\ m.first = first /\ m.row_offset = 0
  BY <1>2, <1>3, <1>4, <1>5 DEF LocalType, Between
<1> HIDE DEF m
<1>11. LocalOK(bind, m, Len(batches) + 1, refused)
  <2>1. bind.times \in Nat /\ (bind.times = 0 => l.time = 0)
    BY <1>2, ScanAssumption DEF LocalOK, TimesOK, BindType
  <2>2. bind.unit # "STAGE" => bind.unit = "PRIM"
    BY <1>2 DEF BindType
  <2> QED BY <1>2, <1>10, <2>1, <2>2 DEF LocalOK, MorselOK, RowsOK, TimesOK, StageUnit
<1>12. /\ refused' \in [FileIndex -> BOOLEAN]
       /\ \A g \in FileIndex : refused[g] => refused'[g]
       /\ StageUnit /\ Refuses(f, 0) => refused'[f]
  <2> DEFINE r == Refuses(f, 0)
  <2>1. r \in BOOLEAN
    BY DEF Refuses
  <2>2. CASE StageUnit
    <3>1. refused' = [refused EXCEPT ![f] = refused[f] \/ r]
      BY <1>1, <2>2
    <3> HIDE DEF r
    <3>2. refused' \in [FileIndex -> BOOLEAN] /\ (r => refused'[f])
      BY <1>2, <3>1
    <3>3. \A g \in FileIndex : refused[g] => refused'[g]
      BY <1>2, <3>1
    <3> QED BY <3>2, <3>3 DEF r
  <2>3. CASE ~StageUnit
    BY <1>1, <1>2, <2>3
  <2> QED BY <2>2, <2>3
<1>13. PICK j \in LocalType : /\ Becomes(t, j) /\ j.pc = "fill"
                              /\ LocalOK(bind, j, Len(batches'), refused')
  <2>1. CASE StageUnit
    <3>1. TimeCount = 0
      BY <1>2, <2>1 DEF BindType, StageUnit, TimeCount
    <3> DEFINE rs == PrimRows(m, f, 0)
               ts == <<>>
    <3>2. 0 \in 0 .. PrimCount(f) /\ m.file = f
      BY <1>10, PrimCountType
    <3>3. /\ rs \in Seq(Row) /\ DOMAIN rs = 1 .. Len(rs) /\ Len(rs) \in Nat
          /\ \A i \in DOMAIN rs : rs[i] = [file |-> f, prim |-> 0, row |-> i,
                                           stage |-> m.begun, time |-> m.time]
      BY <1>9, <3>2, PrimRowsType
    <3> HIDE DEF rs
    <3>4. /\ Len(m.rows) <= Len(rs)
          /\ \A i \in 1 .. Len(rs) :
               /\ i > Len(m.rows)
               /\ rs[i].file = m.file /\ rs[i].prim = 0
               /\ rs[i].stage = m.begun /\ rs[i].time = m.time
      <4>1. Len(m.rows) = 0
        BY <1>10
      <4> QED BY <3>2, <3>3, <4>1
    <3>5. /\ [m EXCEPT !.rows = rs, !.row_times = ts] \in LocalType
          /\ LocalOK(bind, [m EXCEPT !.rows = rs, !.row_times = ts],
                     Len(batches) + 1, refused')
      <4>1. ts \in Seq(0 .. MaxTimes)
        OBVIOUS
      <4> HIDE DEF ts
      <4>2. /\ m.batch < Len(batches) + 1 /\ Len(batches) + 1 \in Nat
            /\ Refuses(m.file, 0) => refused'[m.file]
            /\ ~(TimeCount > 0)
        BY <1>2, <1>10, <1>12, <2>1, <3>1
      <4>3. /\ bind \in BindType /\ refused \in [FileIndex -> BOOLEAN]
            /\ refused' \in [FileIndex -> BOOLEAN]
            /\ \A g \in FileIndex : refused[g] => refused'[g]
            /\ m \in LocalType /\ m.pc = "fill" /\ m.file \in FileIndex
            /\ LocalOK(bind, m, Len(batches) + 1, refused)
        BY <1>2, <1>9, <1>10, <1>11, <1>12, <3>2
      <4> QED BY <3>3, <3>4, <4>1, <4>2, <4>3, BufferOK, ZenonT(40)
    <3>6. [m EXCEPT !.rows = rs, !.row_times = ts] = k
      BY <1>9, <1>10 DEF LocalType, rs
    <3>7. k.pc = "fill"
      BY <1>9, <1>10 DEF LocalType
    <3> HIDE DEF k
    <3> QED BY <1>1, <1>7, <2>1, <3>5, <3>6, <3>7
  <2>2. CASE ~StageUnit
    <3>1. Becomes(t, m) /\ refused' = refused
      BY <1>1, <2>2
    <3> QED BY <1>7, <1>9, <1>10, <1>11, <3>1
  <2> QED BY <2>1, <2>2
<1>14. local' \in [Threads -> LocalType] /\ LocalsOK'
  BY <1>2, <1>7, <1>12, <1>13, LocalsStep
<1>15. MutexOK' /\ lock' \in Threads \cup {NoThread}
  BY <1>1, <1>3, <1>13, MutexStep
<1>16. \A u \in Threads : local'[u].pc # "opening"
  BY <1>2, <1>3, <1>13 DEF Becomes
<1>17. next_batch_index' = Len(batches') /\ next_batch_index' \in Nat
  BY <1>1, <1>2, <1>4, <1>7
<1> QED BY <1>7, <1>8, <1>12, <1>14, <1>15, <1>16, <1>17

LEMMA OpenedStep ==
    ASSUME SInv, NEW t \in Threads, Opened(t)
    PROVE  SInv'
<1> DEFINE f == current_file
<1>1. /\ local[t].pc = "opening"
      /\ UNCHANGED <<bind, next_file, current_file, files_started, skipped>>
      /\ \/ StageUnit /\ Deal(t, f, 0, 0) /\ UNCHANGED <<stage, position>>
         \/ /\ ~StageUnit
            /\ stage' = IF PrimCount(f) = 0 THEN 0 ELSE f
            /\ position' = 0
            /\ Goto(t, "locked")
            /\ UNCHANGED <<lock, next_batch_index, refused, batches>>
  BY DEF Opened
<1>2. f \in FileIndex /\ stage = 0 /\ f = next_file
  BY <1>1, ScanAssumption DEF SInv, TypeOK, CountersOK, FileIndex
<1>3. TypeOK /\ CountersOK
  BY DEF SInv
<1>4. CASE StageUnit /\ Deal(t, f, 0, 0) /\ UNCHANGED <<stage, position>>
  <2>1. /\ MutexOK' /\ LocalsOK' /\ BatchesOK'
        /\ local' \in [Threads -> LocalType] /\ lock' \in Threads \cup {NoThread}
        /\ refused' \in [FileIndex -> BOOLEAN] /\ batches' \in Seq(BatchType)
        /\ next_batch_index' = Len(batches') /\ next_batch_index' \in Nat
        /\ \A u \in Threads : local'[u].pc # "opening"
    BY <1>1, <1>2, <1>4, DealOK
  <2>2. TypeOK'
    BY <1>1, <1>3, <1>4, <2>1 DEF TypeOK
  <2>3. CountersOK'
    BY <1>1, <1>2, <1>3, <1>4, <2>1 DEF CountersOK
  <2> QED BY <2>1, <2>2, <2>3 DEF SInv
<1>5. CASE /\ ~StageUnit
           /\ stage' = IF PrimCount(f) = 0 THEN 0 ELSE f
           /\ position' = 0
           /\ Goto(t, "locked")
           /\ UNCHANGED <<lock, next_batch_index, refused, batches>>
  <2>1. /\ Between(local[t])
        /\ \A u \in Threads \ {t} : local[u].pc \notin {"locked", "opening"}
    BY <1>1, InsideNext
  <2>2. /\ MutexOK' /\ LocalsOK' /\ BatchesOK'
        /\ local' \in [Threads -> LocalType] /\ lock' \in Threads \cup {NoThread}
        /\ \A u \in Threads : local'[u].pc = IF u = t THEN "locked" ELSE local[u].pc
    BY <1>1, <1>5, <2>1, GotoStep
  <2>3. stage' \in 0 .. FileCount
    BY <1>2, <1>5, ScanAssumption DEF FileIndex
  <2>4. TypeOK'
    BY <1>1, <1>3, <1>5, <2>2, <2>3 DEF TypeOK
  <2>5. \A u \in Threads : local'[u].pc # "opening"
    BY <2>1, <2>2
  <2>6. bind.unit = "PRIM"
    BY <1>3, <1>5 DEF TypeOK, BindType, StageUnit
  <2>7. PrimCount(f) \in Nat
    BY <1>2, PrimCountType
  <2>8. CountersOK'
    <3>1. stage' # 0 => stage' = current_file' /\ position' <= PrimCount(stage')
      BY <1>1, <1>5, <2>7 DEF PrimCount
    <3> QED BY <1>1, <1>3, <1>5, <2>5, <2>6, <3>1 DEF CountersOK, PrimCount
  <2> QED BY <2>2, <2>4, <2>8 DEF SInv
<1> QED BY <1>1, <1>4, <1>5

LEMMA TakeMorselStep ==
    ASSUME SInv, NEW t \in Threads, TakeMorsel(t)
    PROVE  SInv'
<1> DEFINE size == MorselPrims
<1>1. /\ local[t].pc = "locked" /\ stage # 0 /\ position < PrimCount(stage)
      /\ position' = position + size
      /\ Deal(t, current_file, position + 1, size)
      /\ UNCHANGED <<bind, next_file, files_started, current_file, stage, skipped>>
  BY DEF TakeMorsel
<1>2. TypeOK /\ CountersOK
  BY DEF SInv
<1>3. /\ stage = current_file /\ stage \in FileIndex /\ bind.unit = "PRIM" /\ ~StageUnit
      /\ position \in Nat
  BY <1>1, <1>2, ScanAssumption DEF TypeOK, CountersOK, FileIndex, StageUnit
<1>4. PrimCount(stage) \in Nat
  BY <1>3, PrimCountType
<1>5. size \in Nat /\ size > 0 /\ position + size <= PrimCount(stage)
  BY <1>1, <1>3, <1>4, ScanAssumption DEF MorselPrims, Least
<1> HIDE DEF size
<1>6. /\ MutexOK' /\ LocalsOK' /\ BatchesOK'
      /\ local' \in [Threads -> LocalType] /\ lock' \in Threads \cup {NoThread}
      /\ refused' \in [FileIndex -> BOOLEAN] /\ batches' \in Seq(BatchType)
      /\ next_batch_index' = Len(batches') /\ next_batch_index' \in Nat
      /\ \A u \in Threads : local'[u].pc # "opening"
  <2>1. position + 1 \in Nat /\ position + 1 >= 1 /\ position + 1 + size <= PrimCount(stage) + 1
    BY <1>3, <1>4, <1>5
  <2> QED BY <1>1, <1>3, <1>5, <2>1, DealOK
<1>7. TypeOK'
  BY <1>1, <1>2, <1>3, <1>5, <1>6 DEF TypeOK
<1>8. CountersOK'
  BY <1>1, <1>2, <1>3, <1>5, <1>6 DEF CountersOK, PrimCount
<1> QED BY <1>6, <1>7, <1>8 DEF SInv

LEMMA RefusedElsewhereStep ==
    ASSUME SInv, NEW f \in FileIndex, RefusedElsewhere(f)
    PROVE  SInv'
<1>1. /\ refused' = [refused EXCEPT ![f] = TRUE]
      /\ UNCHANGED <<bind, lock, global, local, skipped, batches>>
  BY DEF RefusedElsewhere
<1>2. TypeOK /\ MutexOK /\ CountersOK /\ LocalsOK /\ BatchesOK /\ Len(batches) \in Nat
  BY DEF SInv, TypeOK
<1>3. /\ refused \in [FileIndex -> BOOLEAN] /\ refused' \in [FileIndex -> BOOLEAN]
      /\ \A g \in FileIndex : refused[g] => refused'[g]
  BY <1>1, <1>2 DEF TypeOK
<1>4. TypeOK'
  BY <1>1, <1>2, <1>3 DEF TypeOK, global
<1>5. LocalsOK'
  <2>1. ASSUME NEW t \in Threads PROVE LocalOK(bind, local[t], Len(batches), refused')
    <3>1. /\ local[t] \in LocalType /\ LocalOK(bind, local[t], Len(batches), refused)
          /\ bind \in BindType
      BY ThreadFacts
    <3> QED BY <1>2, <1>3, <3>1, LocalMonotone
  <2> QED BY <1>1, <2>1 DEF LocalsOK
<1>6. MutexOK' /\ CountersOK' /\ BatchesOK'
  BY <1>1, <1>2 DEF MutexOK, CountersOK, BatchesOK, global, PrimCount
<1> QED BY <1>4, <1>5, <1>6 DEF SInv

-----------------------------------------------------------------------------
(* The theorems *)

LEMMA SInvStep == SInv /\ [Next]_vars => SInv'
<1> SUFFICES ASSUME SInv, [Next]_vars PROVE SInv'
  OBVIOUS
<1>1. ASSUME NEW t \in Threads, Step(t) PROVE SInv'
  BY <1>1, AddPrimStep, EmitStep, ExhaustedStep, AcquireStep, NoMoreFilesStep,
     StartFileStep, OpenedStep, OpenFailsStep, TakeMorselStep, EndOfStageStep DEF Step
<1>2. ASSUME NEW f \in FileIndex, RefusedElsewhere(f) PROVE SInv'
  BY <1>2, RefusedElsewhereStep
<1>3. ASSUME UNCHANGED vars PROVE SInv'
  <2>1. TypeOK' /\ MutexOK' /\ CountersOK' /\ LocalsOK' /\ BatchesOK'
    BY <1>3 DEF SInv, TypeOK, MutexOK, CountersOK, LocalsOK, BatchesOK, PrimCount, vars, global
  <2> QED BY <2>1 DEF SInv
<1> QED BY <1>1, <1>2, <1>3 DEF Next, Terminated

\* The shared state and each thread's buffer fit together throughout every scan.
THEOREM Invariance == Spec => []SInv
BY SInvInit, SInvStep, PTL DEF Spec

\* The shared counters, each thread's buffers and the rows collected keep their
\* types: Next never opens a file past the end of the list, nor deals a prim past
\* the end of a traversal.
THEOREM TypeCorrect == Spec => []TypeOK
<1>1. SInv => TypeOK
  BY DEF SInv
<1> QED BY <1>1, Invariance, PTL

\* The rows buffered are always of the stage the producer was last told of
\* (UsdScanFunction calls BeginStage when the morsel is of another stage).
THEOREM RowsBelongToStage == Spec => []RowsOutliveNoStage
<1>1. SInv => RowsOutliveNoStage
  BY DEF SInv, LocalsOK, LocalOK, RowsOK, RowsOutliveNoStage
<1> QED BY <1>1, Invariance, PTL

\* The "time" column shows the time that SetTime announced before the row was made.
THEOREM TimesAligned == Spec => []RowsShowTheirTime
<1>1. SInv => RowsShowTheirTime
  BY DEF SInv, BatchesOK, BatchOK, RowsShowTheirTime
<1> QED BY <1>1, Invariance, PTL

\* ThrowIfRefused, checked before each chunk, keeps every row that was computed
\* without a refused file from being returned.
THEOREM RefusedRowsKept == Spec => []NoRowsWithoutRefusedFiles
<1>1. SInv => NoRowsWithoutRefusedFiles
  BY DEF SInv, BatchesOK, BatchOK, NoRowsWithoutRefusedFiles, Refuses
<1> QED BY <1>1, Invariance, PTL

-----------------------------------------------------------------------------
(* The order of the answer: what the rows of each thread and batch are *)

\* The times at which rows are made, and the prims of morsel m: a thread's, or that
\* of a batch
RowTimes(b) == IF b.times = 0 THEN {0} ELSE 1 .. b.times
Prims(b, m) == IF b.unit = "STAGE" THEN {0} ELSE m.first .. m.first + m.size - 1
FilePrims(b, f) == IF b.unit = "STAGE" THEN {0} ELSE 1 .. PrimCount(f)

\* Of a morsel's rows, r comes before q
Precedes(r, q) ==
    \/ r.time < q.time
    \/ r.time = q.time /\ r.prim < q.prim
    \/ r.time = q.time /\ r.prim = q.prim /\ r.row < q.row

\* Row r is the n-th row of prim p at a time
IsRow(r, p, n, time) == r.prim = p /\ r.row = n /\ r.time = time

\* Rows of morsel m, in order
RowsOf(b, m, rows) ==
    /\ \A i \in DOMAIN rows : /\ rows[i].file = m.file /\ rows[i].prim \in Prims(b, m)
                              /\ rows[i].row \in 1 .. RowCount(m.file, rows[i].prim)
                              /\ rows[i].time \in RowTimes(b)
    /\ \A i, j \in DOMAIN rows : i < j => Precedes(rows[i], rows[j])

\* All rows of a morsel
Complete(b, m) ==
    \A p \in Prims(b, m) : \A n \in 1 .. RowCount(m.file, p), time \in RowTimes(b) :
        \E i \in DOMAIN m.rows : IsRow(m.rows[i], p, n, time)

\* The time at which thread l makes the rows of its next prim, and whether it has
\* made those of prim p at a time
Now(b, l) == IF b.times = 0 THEN 0 ELSE l.time_index + 1
Made(b, l, p, time) ==
    b.unit = "STAGE" \/ time < Now(b, l) \/ (time = Now(b, l) /\ p < l.first + l.next_prim)

\* A thread's buffer holds what it has made of its morsel, in order
FillOK(b, l) ==
    /\ RowsOf(b, l, l.rows)
    /\ \A i \in DOMAIN l.rows : Made(b, l, l.rows[i].prim, l.rows[i].time)
    /\ \A p \in Prims(b, l) : \A n \in 1 .. RowCount(l.file, p), time \in RowTimes(b) :
         Made(b, l, p, time) => \E i \in DOMAIN l.rows : IsRow(l.rows[i], p, n, time)
    /\ b.unit # "STAGE" => /\ l.size > 0
                           /\ l.next_prim = l.size => l.time_index + 1 >= b.times

\* Of these rows, those before row_offset are collected in the morsel's batch m
Collected(l, m) ==
    /\ m.file = l.file /\ m.first = l.first /\ m.size = l.size
    /\ Len(m.rows) = l.row_offset
    /\ \A i \in DOMAIN m.rows : /\ m.rows[i].file = l.rows[i].file
                                /\ IsRow(m.rows[i], l.rows[i].prim, l.rows[i].row, l.rows[i].time)

HasMorsel(l) == l.pc = "fill" /\ l.file # 0
Holds(t, n) == HasMorsel(local[t]) /\ local[t].batch + 1 = n
Opening == \E t \in Threads : local[t].pc = "opening"
Failed == \E t \in Threads : local[t].pc = "failed"

HolderOK(t) ==
    HasMorsel(local[t]) => /\ local[t].batch + 1 \in DOMAIN batches
                           /\ FillOK(bind, local[t])
                           /\ Collected(local[t], batches[local[t].batch + 1])

\* Threads with a morsel have batches of their own
HoldersOK ==
    /\ \A t \in Threads : HolderOK(t)
    /\ \A t, u \in Threads : HasMorsel(local[t]) /\ HasMorsel(local[u]) /\ t # u =>
         local[t].batch # local[u].batch

\* Each batch is in order, and complete, in the making or of a thread that failed
CollectedOK ==
    \A n \in DOMAIN batches :
        /\ RowsOf(bind, batches[n], batches[n].rows)
        /\ Complete(bind, batches[n]) \/ Failed \/ \E t \in Threads : Holds(t, n)

\* A batch is a run of prims of a file that was opened, and that were dealt
BatchPlaceOK(m) ==
    /\ m.file \in 1 .. current_file \ skipped
    /\ m.file = current_file => ~Opening /\ (stage = 0 \/ m.first + m.size <= position + 1)
    /\ bind.unit # "STAGE" =>
         /\ m.first >= 1 /\ m.first + m.size <= PrimCount(m.file) + 1
         /\ (m.first - 1) % MorselSize = 0 /\ m.size \in 1 .. MorselSize

\* Batches are in the order of the files and their traversals
PlacesOK ==
    /\ \A n \in DOMAIN batches : BatchPlaceOK(batches[n])
    /\ \A n, k \in DOMAIN batches : n < k =>
         \/ batches[n].file < batches[k].file
         \/ /\ bind.unit # "STAGE" /\ batches[n].file = batches[k].file
            /\ batches[n].first < batches[k].first

\* Prim p of file f was dealt
Dealt(f, p) == \E n \in DOMAIN batches : batches[n].file = f /\ p \in Prims(bind, batches[n])

\* Every prim that the traversals have passed was dealt
FilesOK ==
    /\ skipped \subseteq 1 .. current_file
    /\ Opening \/ stage # 0 => current_file \notin skipped
    /\ stage # 0 => /\ position % MorselSize = 0 \/ position = PrimCount(stage)
                    /\ \A p \in 1 .. position : Dealt(stage, p)
    /\ Failed \/ \A f \in 1 .. current_file \ skipped :
         (f = current_file => stage = 0 /\ ~Opening) => \A p \in FilePrims(bind, f) : Dealt(f, p)

OInv == HoldersOK /\ CollectedOK /\ PlacesOK /\ FilesOK

-----------------------------------------------------------------------------
(* What the steps leave alone *)

LEMMA OInit == Init => OInv
<1> SUFFICES ASSUME Init PROVE OInv
  OBVIOUS
<1>1. \A t \in Threads : local[t].pc = "fill" /\ local[t].file = 0
  BY DEF Init, NoMorsel
<1>2. batches = <<>> /\ current_file = 0 /\ stage = 0 /\ skipped = {}
  BY DEF Init
<1>3. HoldersOK /\ CollectedOK /\ PlacesOK
  BY <1>1, <1>2 DEF HoldersOK, HolderOK, HasMorsel, CollectedOK, PlacesOK
<1>4. FilesOK
  BY <1>1, <1>2 DEF FilesOK, Opening
<1> QED BY <1>3, <1>4 DEF OInv

\* A thread's step, as the other threads see it
LEMMA Others ==
    ASSUME SInv, NEW t \in Threads, NEW l, Becomes(t, l)
    PROVE  /\ local'[t] = l
           /\ \A u \in Threads : u # t => local'[u] = local[u]
<1>1. local \in [Threads -> LocalType] /\ local' = [local EXCEPT ![t] = l]
  BY DEF SInv, TypeOK, Becomes
<1> QED BY <1>1

\* A thread's step that leaves the other threads' batches alone
LEMMA HoldersMove ==
    ASSUME SInv, HoldersOK, NEW t \in Threads, NEW l, Becomes(t, l), bind' = bind,
           DOMAIN batches \subseteq DOMAIN batches',
           \A u \in Threads : u # t /\ HasMorsel(local[u]) =>
               batches'[local[u].batch + 1] = batches[local[u].batch + 1],
           HasMorsel(l) =>
               /\ l.batch + 1 \in DOMAIN batches' /\ FillOK(bind, l)
               /\ Collected(l, batches'[l.batch + 1])
               /\ \A u \in Threads : u # t /\ HasMorsel(local[u]) => local[u].batch # l.batch
    PROVE  HoldersOK'
<1>1. local'[t] = l /\ \A u \in Threads : u # t => local'[u] = local[u]
  BY Others
<1>2. ASSUME NEW u \in Threads, HasMorsel(local'[u])
      PROVE  /\ local'[u].batch + 1 \in DOMAIN batches' /\ FillOK(bind, local'[u])
             /\ Collected(local'[u], batches'[local'[u].batch + 1])
  <2>1. CASE u = t
    BY <1>1, <1>2, <2>1
  <2>2. CASE u # t
    <3>1. local'[u] = local[u] /\ HasMorsel(local[u])
      BY <1>1, <1>2, <2>2
    <3>2. /\ local[u].batch + 1 \in DOMAIN batches /\ FillOK(bind, local[u])
          /\ Collected(local[u], batches[local[u].batch + 1])
      BY <3>1 DEF HoldersOK, HolderOK
    <3>3. batches'[local[u].batch + 1] = batches[local[u].batch + 1]
      BY <2>2, <3>1
    <3> QED BY <3>1, <3>2, <3>3
  <2> QED BY <2>1, <2>2
<1>3. ASSUME NEW u \in Threads, NEW v \in Threads, HasMorsel(local'[u]), HasMorsel(local'[v]),
             u # v
      PROVE  local'[u].batch # local'[v].batch
  <2>1. CASE u # t /\ v # t
    BY <1>1, <1>3, <2>1 DEF HoldersOK
  <2>2. CASE u = t
    BY <1>1, <1>3, <2>2
  <2>3. CASE v = t
    BY <1>1, <1>3, <2>3
  <2> QED BY <2>1, <2>2, <2>3
<1>4. (\A u \in Threads : HolderOK(u))'
  BY <1>2 DEF HolderOK, HasMorsel
<1> QED BY <1>3, <1>4 DEF HoldersOK, HasMorsel

\* A thread without a morsel goes on, still without one
LEMMA IdleMove ==
    ASSUME SInv, HoldersOK, CollectedOK, NEW t \in Threads, NEW l, Becomes(t, l),
           UNCHANGED <<bind, batches>>, ~HasMorsel(local[t]), ~HasMorsel(l),
           local[t].pc # "failed"
    PROVE  HoldersOK' /\ CollectedOK'
<1>1. local'[t] = l /\ \A u \in Threads : u # t => local'[u] = local[u]
  BY Others
<1>2. HoldersOK'
  BY HoldersMove
<1>3. ASSUME NEW n \in DOMAIN batches
      PROVE  /\ RowsOf(bind, batches[n], batches[n].rows)
             /\ Complete(bind, batches[n]) \/ Failed' \/ \E u \in Threads : Holds(u, n)'
  <2>1. ASSUME Failed PROVE Failed'
    BY <1>1, <2>1 DEF Failed
  <2>2. ASSUME NEW u \in Threads, Holds(u, n) PROVE Holds(u, n)'
    BY <1>1, <2>2 DEF Holds, HasMorsel
  <2> QED BY <2>1, <2>2 DEF CollectedOK
<1> QED BY <1>2, <1>3 DEF CollectedOK

\* A thread throws
LEMMA ThrowMove ==
    ASSUME SInv, HoldersOK, CollectedOK, NEW t \in Threads, Throw(t),
           UNCHANGED <<bind, batches>>
    PROVE  HoldersOK' /\ CollectedOK' /\ Failed' /\ (Opening' => Opening)
<1> DEFINE l == [NoMorsel EXCEPT !.pc = "failed"]
<1>1. l.pc = "failed"
  BY NoMorselType
<1>2. Becomes(t, l)
  BY DEF Throw
<1> HIDE DEF l
<1>3. local'[t] = l /\ \A u \in Threads : u # t => local'[u] = local[u]
  BY <1>2, Others
<1>4. Failed' /\ (Opening' => Opening)
  BY <1>1, <1>3 DEF Failed, Opening
<1>5. HoldersOK'
  BY <1>1, <1>2, HoldersMove DEF HasMorsel
<1>6. CollectedOK'
  BY <1>4 DEF CollectedOK
<1> QED BY <1>4, <1>5, <1>6

\* A step inside one file, which leaves the morsels dealt alone
LEMMA PlacesKept ==
    ASSUME PlacesOK, FilesOK, UNCHANGED <<bind, global, skipped>>,
           DOMAIN batches' = DOMAIN batches,
           \A n \in DOMAIN batches :
               /\ batches'[n].file = batches[n].file /\ batches'[n].first = batches[n].first
               /\ batches'[n].size = batches[n].size,
           Opening' => Opening, Failed => Failed', Failed' \/ (Opening => Opening')
    PROVE  PlacesOK' /\ FilesOK'
<1>1. UNCHANGED <<current_file, stage, position>>
  BY DEF global
<1>2. PlacesOK'
  BY <1>1 DEF PlacesOK, BatchPlaceOK, PrimCount
<1>3. \A f, p : Dealt(f, p) => Dealt(f, p)'
  BY DEF Dealt, Prims
<1>4. skipped' \subseteq 1 .. current_file' /\ (Opening' \/ stage' # 0 => current_file' \notin skipped')
  BY <1>1 DEF FilesOK
<1>5. stage' # 0 => /\ position' % MorselSize = 0 \/ position' = PrimCount(stage)'
                    /\ \A p \in 1 .. position' : Dealt(stage, p)'
  BY <1>1, <1>3 DEF FilesOK, PrimCount, Dealt, Prims
<1>6. ASSUME ~Failed', NEW f \in 1 .. current_file' \ skipped',
             f = current_file' => stage' = 0 /\ ~Opening',
             NEW p \in FilePrims(bind', f)
      PROVE  Dealt(f, p)'
  BY <1>1, <1>3, <1>6 DEF FilesOK, FilePrims
<1> QED BY <1>2, <1>4, <1>5, <1>6 DEF FilesOK, FilePrims
-----------------------------------------------------------------------------
(* One more prim's rows *)

\* Which rows AddPrim appends
LEMMA RowsGrow ==
    ASSUME NEW l \in LocalType, l.file \in FileIndex, NEW p \in 0 .. PrimCount(l.file)
    PROVE  LET rows == l.rows \o PrimRows(l, l.file, p)
               n == Len(l.rows)
           IN  /\ rows \in Seq(Row) /\ Len(rows) = n + RowCount(l.file, p)
               /\ RowCount(l.file, p) \in Nat
               /\ \A i \in 1 .. n : rows[i] = l.rows[i]
               /\ \A k \in 1 .. RowCount(l.file, p) :
                    rows[n + k].file = l.file /\ IsRow(rows[n + k], p, k, l.time)
<1> DEFINE made == PrimRows(l, l.file, p)
           c == RowCount(l.file, p)
           old == l.rows
           rows == old \o made
<1>1. /\ made \in Seq(Row) /\ Len(made) \in Nat /\ DOMAIN made = 1 .. Len(made)
      /\ \A i \in DOMAIN made : made[i] = [file |-> l.file, prim |-> p, row |-> i,
                                           stage |-> l.begun, time |-> l.time]
  BY PrimRowsType
<1>2. c \in Nat /\ DOMAIN made = 1 .. c
  BY RowCountType DEF PrimRows
<1> HIDE DEF made, c
<1>3. Len(made) = c
  <2>1. made \in Seq(Row)
    BY <1>1
  <2> QED BY <1>2, <2>1
<1>4. \A k \in 1 .. c : made[k].file = l.file /\ IsRow(made[k], p, k, l.time)
  BY <1>1, <1>2 DEF IsRow
<1>5. old \in Seq(Row) /\ Len(old) \in Nat
  BY DEF LocalType
<1> HIDE DEF old
<1>6. /\ rows \in Seq(Row) /\ Len(rows) = Len(old) + c
      /\ \A i \in 1 .. Len(old) : rows[i] = old[i]
      /\ \A k \in 1 .. c : rows[Len(old) + k] = made[k]
  <2>1. made \in Seq(Row)
    BY <1>1
  <2>2. /\ rows \in Seq(Row) /\ Len(rows) = Len(old) + c
        /\ \A i \in 1 .. Len(old) : rows[i] = old[i]
    BY <1>3, <1>5, <2>1
  <2>3. ASSUME NEW k \in 1 .. c PROVE rows[Len(old) + k] = made[k]
    BY <1>2, <1>3, <1>5, <2>1
  <2> QED BY <2>2, <2>3
<1> HIDE DEF rows
<1>7. \A k \in 1 .. c : rows[Len(old) + k].file = l.file /\ IsRow(rows[Len(old) + k], p, k, l.time)
  BY <1>4, <1>6
<1> QED BY <1>2, <1>6, <1>7 DEF rows, made, old, c

\* SetTime changes no row
LEMMA TimedFill ==
    ASSUME NEW l \in LocalType, FillOK(bind, l)
    PROVE  /\ FillOK(bind, Timed(l))
           /\ Timed(l).pc = l.pc /\ Timed(l).file = l.file /\ Timed(l).batch = l.batch
           /\ Timed(l).first = l.first /\ Timed(l).size = l.size /\ Timed(l).rows = l.rows
           /\ Timed(l).row_offset = l.row_offset
<1> DEFINE m == Timed(l)
<1>1. /\ m.pc = l.pc /\ m.file = l.file /\ m.batch = l.batch
      /\ m.first = l.first /\ m.size = l.size /\ m.rows = l.rows
      /\ m.row_offset = l.row_offset /\ m.next_prim = l.next_prim
      /\ m.time_index = l.time_index
  BY DEF Timed, LocalType
<1> HIDE DEF m
<1>2. FillOK(bind, m)
  BY <1>1 DEF FillOK, RowsOf, Prims, Made, Now
<1> QED BY <1>1, <1>2 DEF m

\* The buffer after AddPrim: the rows of prim p follow those made before
LEMMA FillGrows ==
    ASSUME bind \in BindType, NEW l \in LocalType, bind.unit # "STAGE", FillOK(bind, l),
           l.file \in FileIndex, l.first >= 1, l.first + l.size <= PrimCount(l.file) + 1,
           l.next_prim < l.size, l.time_index < bind.times \/ bind.times = 0,
           l.time = Now(bind, l),
           NEW ts,
           NEW m, m = Advance([l EXCEPT !.rows = l.rows \o PrimRows(l, l.file, l.first + l.next_prim),
                                        !.row_times = ts])
    PROVE  /\ FillOK(bind, m)
           /\ m.pc = l.pc /\ m.file = l.file /\ m.batch = l.batch
           /\ m.first = l.first /\ m.size = l.size /\ m.row_offset = l.row_offset
           /\ Len(l.rows) <= Len(m.rows) /\ \A i \in 1 .. Len(l.rows) : m.rows[i] = l.rows[i]
<1> DEFINE p == l.first + l.next_prim
           rows == l.rows \o PrimRows(l, l.file, p)
           o == Len(l.rows)
           c == RowCount(l.file, p)
           now == Now(bind, l)
<1>1. /\ l.first \in Nat /\ l.size \in Nat /\ l.next_prim \in Nat /\ l.time_index \in Nat
      /\ o \in Nat /\ DOMAIN l.rows = 1 .. o /\ PrimCount(l.file) \in Nat
      /\ bind.times \in Nat
  BY PrimCountType, ScanAssumption DEF LocalType, BindType
<1>2. /\ p \in Nat /\ p >= 1 /\ p < l.first + l.size /\ p \in 0 .. PrimCount(l.file)
      /\ p \in Prims(bind, l)
  <2>1. /\ l.first \in Nat /\ l.size \in Nat /\ l.next_prim \in Nat /\ PrimCount(l.file) \in Nat
        /\ l.first >= 1 /\ l.next_prim < l.size /\ l.first + l.size <= PrimCount(l.file) + 1
    BY <1>1
  <2>2. p \in Nat /\ p >= l.first /\ p < l.first + l.size
    BY <2>1
  <2>3. p >= 1 /\ p \in 0 .. PrimCount(l.file) /\ p \in l.first .. l.first + l.size - 1
    <3> HIDE DEF p
    <3> QED BY <2>1, <2>2
  <2> QED BY <2>2, <2>3 DEF Prims
<1>3. /\ rows \in Seq(Row) /\ Len(rows) = o + c /\ c \in Nat
      /\ \A i \in 1 .. o : rows[i] = l.rows[i]
      /\ \A k \in 1 .. c : rows[o + k].file = l.file /\ IsRow(rows[o + k], p, k, l.time)
  <2> HIDE DEF p
  <2> QED BY <1>2, RowsGrow
<1>4. now \in RowTimes(bind) /\ now \in Nat
  BY <1>1 DEF Now, RowTimes
<1>5. /\ m.pc = l.pc /\ m.file = l.file /\ m.batch = l.batch
      /\ m.first = l.first /\ m.size = l.size /\ m.row_offset = l.row_offset
      /\ m.rows = rows
      /\ \/ /\ l.next_prim + 1 = l.size /\ l.time_index + 1 < bind.times
            /\ m.time_index = l.time_index + 1 /\ m.next_prim = 0
         \/ /\ ~(l.next_prim + 1 = l.size /\ l.time_index + 1 < bind.times)
            /\ m.time_index = l.time_index /\ m.next_prim = l.next_prim + 1
  BY DEF Advance, LocalType, TimeCount
<1> HIDE DEF rows, c
<1>6. ASSUME NEW q \in Prims(bind, l), NEW time \in RowTimes(bind)
      PROVE  Made(bind, m, q, time) <=> Made(bind, l, q, time) \/ (q = p /\ time = now)
  <2>1. q \in Nat /\ q >= l.first /\ q < l.first + l.size /\ time \in Nat
    BY <1>1 DEF Prims, RowTimes
  <2>2. CASE /\ l.next_prim + 1 = l.size /\ l.time_index + 1 < bind.times
             /\ m.time_index = l.time_index + 1 /\ m.next_prim = 0
    <3>1. Now(bind, m) = now + 1 /\ now = l.time_index + 1
      BY <1>1, <2>2 DEF Now
    <3> HIDE DEF now
    <3>2. Made(bind, m, q, time) <=> time <= now
      BY <1>1, <1>4, <1>5, <2>1, <2>2, <3>1 DEF Made
    <3>3. Made(bind, l, q, time) <=> time < now \/ (time = now /\ q < p)
      BY DEF Made, now
    <3>4. p = l.first + l.size - 1
      <4>1. l.first \in Nat /\ l.size \in Nat /\ l.next_prim \in Nat /\ l.next_prim + 1 = l.size
        BY <1>1, <2>2
      <4> QED BY <4>1
    <3>5. q = p \/ q < p
      BY <1>1, <2>1, <3>4
    <3>6. time <= now <=> time < now \/ time = now
      BY <1>4, <2>1
    <3>7. ~(time < now /\ time = now) /\ ~(q = p /\ q < p)
      BY <1>2, <1>4, <2>1
    <3> QED BY <3>2, <3>3, <3>5, <3>6, <3>7
  <2>3. CASE /\ ~(l.next_prim + 1 = l.size /\ l.time_index + 1 < bind.times)
             /\ m.time_index = l.time_index /\ m.next_prim = l.next_prim + 1
    <3>1. Now(bind, m) = now
      BY <2>3 DEF Now
    <3>2. Made(bind, m, q, time) <=> time < now \/ (time = now /\ q < l.first + (l.next_prim + 1))
      BY <1>5, <2>3, <3>1 DEF Made
    <3>3. Made(bind, l, q, time) <=> time < now \/ (time = now /\ q < p)
      BY DEF Made
    <3>4. q < l.first + (l.next_prim + 1) <=> q < p \/ q = p
      <4>1. l.first \in Nat /\ l.next_prim \in Nat /\ q \in Nat
        BY <1>1, <2>1
      <4> QED BY <4>1
    <3> HIDE DEF now, p
    <3> QED BY <3>2, <3>3, <3>4
  <2> QED BY <1>5, <2>2, <2>3
<1>7. Prims(bind, m) = Prims(bind, l)
  BY <1>5 DEF Prims
<1>8. ASSUME NEW i \in DOMAIN rows
      PROVE  \/ i \in 1 .. o /\ rows[i] = l.rows[i]
             \/ \E k \in 1 .. c : i = o + k
  <2>1. i \in 1 .. (o + c)
    BY <1>1, <1>3
  <2>2. CASE i <= o
    BY <1>1, <1>3, <2>1, <2>2
  <2>3. CASE i > o
    <3> HIDE DEF o
    <3>1. i - o \in 1 .. c /\ i = o + (i - o)
      <4>1. o \in Nat /\ c \in Nat
        BY <1>1, <1>3
      <4> QED BY <2>1, <2>3, <4>1
    <3> QED BY <3>1
  <2> QED BY <1>1, <2>1, <2>2, <2>3
<1>9. l.time = now
  OBVIOUS
<1> HIDE DEF now, p
<1>10. ASSUME NEW i \in DOMAIN rows
       PROVE  /\ rows[i].file = l.file /\ rows[i].prim \in Prims(bind, l)
              /\ rows[i].row \in 1 .. RowCount(l.file, rows[i].prim)
              /\ rows[i].time \in RowTimes(bind)
              /\ Made(bind, m, rows[i].prim, rows[i].time)
  <2>1. CASE i \in 1 .. o /\ rows[i] = l.rows[i]
    <3>1. /\ rows[i].file = l.file /\ rows[i].prim \in Prims(bind, l)
          /\ rows[i].row \in 1 .. RowCount(l.file, rows[i].prim)
          /\ rows[i].time \in RowTimes(bind)
          /\ Made(bind, l, rows[i].prim, rows[i].time)
      BY <1>1, <2>1 DEF FillOK, RowsOf
    <3> QED BY <1>6, <3>1
  <2>2. CASE \E k \in 1 .. c : i = o + k
    <3>1. PICK k \in 1 .. c : i = o + k
      BY <2>2
    <3>2. rows[i].file = l.file /\ rows[i].prim = p /\ rows[i].row = k /\ rows[i].time = now
      BY <1>3, <1>9, <3>1 DEF IsRow
    <3> QED BY <1>2, <1>4, <1>6, <3>2 DEF c
  <2> QED BY <1>8, <2>1, <2>2
<1>11. ASSUME NEW i \in DOMAIN rows, NEW j \in DOMAIN rows, i < j
       PROVE  Precedes(rows[i], rows[j])
  <2>1. DOMAIN rows = 1 .. (o + c)
    BY <1>3
  <2>2. CASE j \in 1 .. o /\ rows[j] = l.rows[j]
    <3>1. i \in 1 .. o
      BY <1>1, <1>3, <1>11, <2>1, <2>2
    <3> QED BY <1>1, <1>3, <1>11, <2>2, <3>1 DEF FillOK, RowsOf
  <2>3. CASE \E k \in 1 .. c : j = o + k
    <3>1. PICK k \in 1 .. c : j = o + k
      BY <2>3
    <3>2. rows[j].prim = p /\ rows[j].row = k /\ rows[j].time = now
      BY <1>3, <1>9, <3>1 DEF IsRow
    <3>3. CASE i \in 1 .. o /\ rows[i] = l.rows[i]
      <4>1. /\ Made(bind, l, rows[i].prim, rows[i].time)
            /\ rows[i].time \in RowTimes(bind)
        BY <1>1, <3>3 DEF FillOK, RowsOf
      <4>2. rows[i].time < now \/ (rows[i].time = now /\ rows[i].prim < p)
        BY <4>1 DEF Made, now, p
      <4> QED BY <3>2, <4>2 DEF Precedes
    <3>4. CASE \E h \in 1 .. c : i = o + h
      <4>1. PICK h \in 1 .. c : i = o + h
        BY <3>4
      <4>2. rows[i].prim = p /\ rows[i].row = h /\ rows[i].time = now
        BY <1>3, <1>9, <4>1 DEF IsRow
      <4>3. h < k
        BY <1>1, <1>3, <1>11, <3>1, <4>1
      <4> QED BY <3>2, <4>2, <4>3 DEF Precedes
    <3> QED BY <1>8, <3>3, <3>4
  <2> QED BY <1>8, <2>2, <2>3
<1>12. ASSUME NEW q \in Prims(bind, l), NEW n \in 1 .. RowCount(l.file, q),
              NEW time \in RowTimes(bind), Made(bind, m, q, time)
       PROVE  \E i \in DOMAIN rows : IsRow(rows[i], q, n, time)
  <2>1. DOMAIN rows = 1 .. (o + c)
    BY <1>3
  <2>2. CASE Made(bind, l, q, time)
    <3>1. PICK i \in DOMAIN l.rows : IsRow(l.rows[i], q, n, time)
      BY <1>12, <2>2 DEF FillOK
    <3>2. i \in 1 .. o /\ rows[i] = l.rows[i] /\ i \in DOMAIN rows
      BY <1>1, <1>3, <2>1, <3>1
    <3> QED BY <3>1, <3>2
  <2>3. CASE q = p /\ time = now
    <3>1. n \in 1 .. c
      BY <2>3 DEF c
    <3>2. IsRow(rows[o + n], p, n, now)
      BY <1>3, <1>9, <3>1
    <3>3. o \in Nat /\ c \in Nat
      BY <1>1, <1>3
    <3>4. o + n \in DOMAIN rows
      BY <2>1, <3>1, <3>3
    <3> QED BY <2>3, <3>2, <3>4
  <2> QED BY <1>6, <1>12, <2>2, <2>3
<1>13. m.size > 0 /\ (m.next_prim = m.size => m.time_index + 1 >= bind.times)
  BY <1>1, <1>5
<1>14. RowsOf(bind, m, m.rows)
  BY <1>5, <1>7, <1>10, <1>11 DEF RowsOf
<1>15. FillOK(bind, m)
  BY <1>5, <1>7, <1>10, <1>12, <1>13, <1>14 DEF FillOK
<1>16. o <= Len(rows)
  BY <1>1, <1>3
<1> QED BY <1>3, <1>5, <1>15, <1>16
-----------------------------------------------------------------------------
(* AddPrim, Emit and Exhausted keep the order *)

LEMMA AddPrimOrder ==
    ASSUME SInv, OInv, NEW t \in Threads, AddPrim(t)
    PROVE  OInv' /\ UNCHANGED <<bind, skipped, batches>>
           /\ local[t].pc = "fill" /\ local'[t].pc = "fill"
<1> DEFINE k == local[t]
           l == Timed(k)
           p == l.first + l.next_prim
           rows == l.rows \o PrimRows(l, l.file, p)
           ts == IF TimeCount = 0 THEN <<>>
                 ELSE Resize(l.row_times, Len(rows), l.time_index + 1)
           m == Advance([l EXCEPT !.rows = rows, !.row_times = ts])
<1>1. /\ l.pc = "fill" /\ Fillable(l) /\ Becomes(t, m)
      /\ UNCHANGED <<bind, lock, global, skipped, batches>>
  BY DEF AddPrim
<1>2. /\ k \in LocalType /\ LocalOK(bind, k, Len(batches), refused)
      /\ bind \in BindType /\ Len(batches) \in Nat /\ batches \in Seq(BatchType)
  BY ThreadFacts
<1>3. k.pc = "fill" /\ k.next_prim < k.size /\ k.size > 0
  <2>1. k.pc = l.pc /\ k.next_prim = l.next_prim /\ k.size = l.size
    BY <1>2 DEF Timed, LocalType
  <2>2. l.next_prim < l.size
    BY <1>1 DEF Fillable
  <2>3. k.size \in Nat /\ k.next_prim \in Nat
    BY <1>2 DEF LocalType
  <2> QED BY <1>1, <2>1, <2>2, <2>3
<1>4. /\ l \in LocalType /\ LocalOK(bind, l, Len(batches), refused)
      /\ l.pc = "fill" /\ l.next_prim < l.size /\ l.size > 0
      /\ TimeCount > 0 => l.time = l.time_index + 1
  <2>1. /\ l \in LocalType /\ LocalOK(bind, l, Len(batches), refused)
        /\ l.pc = k.pc
        /\ l.next_prim = k.next_prim /\ l.size = k.size
        /\ TimeCount > 0 => l.time = l.time_index + 1
    BY <1>2, <1>3, TimedOK
  <2> QED BY <1>3, <2>1
<1>5. /\ k.file \in FileIndex /\ HasMorsel(k)
  BY <1>2, <1>3, ScanAssumption DEF LocalOK, MorselOK, HasMorsel, FileIndex
<1>6. /\ k.batch + 1 \in DOMAIN batches /\ FillOK(bind, k)
      /\ Collected(k, batches[k.batch + 1])
      /\ \A u \in Threads : u # t /\ HasMorsel(local[u]) => local[u].batch # k.batch
  BY <1>5 DEF OInv, HoldersOK, HolderOK
<1>7. /\ FillOK(bind, l)
      /\ l.pc = k.pc /\ l.file = k.file /\ l.batch = k.batch
      /\ l.first = k.first /\ l.size = k.size /\ l.rows = k.rows
      /\ l.row_offset = k.row_offset
  BY <1>2, <1>6, TimedFill
<1> HIDE DEF l
<1>8. /\ bind.unit # "STAGE" /\ l.first >= 1 /\ l.first + l.size <= PrimCount(l.file) + 1
      /\ l.time_index < bind.times \/ bind.times = 0
      /\ l.time = Now(bind, l)
  <2>1. bind.times \in Nat
    BY <1>2, ScanAssumption DEF BindType
  <2> QED BY <1>4, <2>1 DEF LocalOK, MorselOK, TimesOK, Now, TimeCount
<1>9. m.pc = l.pc /\ m.file = l.file /\ m.batch = l.batch
      /\ m.first = l.first /\ m.size = l.size /\ m.row_offset = l.row_offset
      /\ Len(l.rows) <= Len(m.rows) /\ (\A i \in 1 .. Len(l.rows) : m.rows[i] = l.rows[i])
      /\ FillOK(bind, m)
  <2> HIDE DEF ts
  <2>1. l.file \in FileIndex
    BY <1>5, <1>7
  <2>2. m = Advance([l EXCEPT !.rows = l.rows \o PrimRows(l, l.file, l.first + l.next_prim),
                              !.row_times = ts])
    OBVIOUS
  <2>3. bind \in BindType /\ l \in LocalType /\ FillOK(bind, l) /\ l.next_prim < l.size
    BY <1>2, <1>4, <1>7
  <2> HIDE DEF m
  <2> QED BY <1>8, <2>1, <2>2, <2>3, FillGrows, ZenonT(40)
<1> HIDE DEF m
<1>10. Collected(m, batches[k.batch + 1])
  <2> DEFINE c == batches[k.batch + 1]
  <2>1. c.rows \in Seq(OutRow) /\ Len(c.rows) = k.row_offset
    <3> DEFINE n == k.batch + 1
    <3>1. n \in DOMAIN batches
      BY <1>6
    <3> HIDE DEF n
    <3>2. batches[n] \in BatchType
      BY <1>2, <3>1
    <3>3. batches[n].rows \in Seq(OutRow)
      BY <3>2 DEF BatchType
    <3> QED BY <1>6, <3>3 DEF Collected, n
  <2>2. k.row_offset <= Len(k.rows) /\ k.row_offset \in Nat /\ Len(k.rows) \in Nat
    BY <1>2 DEF LocalOK, RowsOK, LocalType
  <2>3. Collected(k, c)
    BY <1>6
  <2> HIDE DEF c, k
  <2>4. \A i \in DOMAIN c.rows : i \in 1 .. Len(l.rows) /\ m.rows[i] = k.rows[i]
    BY <1>7, <1>9, <2>1, <2>2
  <2>5. Collected(m, c)
    BY <1>7, <1>9, <2>3, <2>4 DEF Collected
  <2> QED BY <2>5 DEF c
<1>11. HoldersOK'
  BY <1>1, <1>6, <1>7, <1>9, <1>10, HoldersMove DEF OInv
<1>12. local'[t] = m /\ \A u \in Threads : u # t => local'[u] = local[u]
  BY <1>1, Others
<1>13. /\ Failed <=> Failed'
       /\ Opening <=> Opening'
       /\ \A u \in Threads : \A n : Holds(u, n) => Holds(u, n)'
  <2>1. m.pc = k.pc /\ m.batch = k.batch /\ m.file = k.file /\ k.pc = "fill"
    BY <1>3, <1>7, <1>9
  <2> QED BY <1>12, <2>1 DEF Failed, Opening, Holds, HasMorsel
<1>14. CollectedOK'
  BY <1>1, <1>13 DEF OInv, CollectedOK
<1>15. PlacesOK' /\ FilesOK'
  BY <1>1, <1>13, PlacesKept DEF OInv
<1>16. m.pc = "fill"
  BY <1>4, <1>9
<1> QED BY <1>1, <1>3, <1>11, <1>12, <1>14, <1>15, <1>16 DEF OInv

\* Rows collected of a buffer in order are in order ...
LEMMA CollectedRows ==
    ASSUME NEW l \in LocalType, FillOK(bind, l), l.row_offset <= Len(l.rows),
           NEW m \in BatchType, Collected(l, m)
    PROVE  RowsOf(bind, m, m.rows)
<1>1. /\ m.rows \in Seq(OutRow) /\ DOMAIN m.rows = 1 .. Len(m.rows)
      /\ Len(m.rows) = l.row_offset /\ DOMAIN l.rows = 1 .. Len(l.rows)
      /\ l.row_offset \in Nat /\ Len(l.rows) \in Nat
  BY DEF BatchType, LocalType, Collected
<1>2. \A i \in DOMAIN m.rows :
        /\ i \in DOMAIN l.rows
        /\ m.rows[i].file = l.rows[i].file /\ m.rows[i].prim = l.rows[i].prim
        /\ m.rows[i].row = l.rows[i].row /\ m.rows[i].time = l.rows[i].time
  BY <1>1 DEF Collected, IsRow
<1>3. m.file = l.file /\ Prims(bind, m) = Prims(bind, l)
  BY DEF Collected, Prims
<1>4. RowsOf(bind, l, l.rows)
  BY DEF FillOK
<1> QED BY <1>2, <1>3, <1>4 DEF RowsOf, Precedes

\* ... and all of them, once all prims of the morsel are done
LEMMA CollectedAll ==
    ASSUME bind \in BindType, NEW l \in LocalType, FillOK(bind, l),
           NEW m \in BatchType, Collected(l, m), l.row_offset = Len(l.rows),
           bind.unit # "STAGE" => l.next_prim = l.size
    PROVE  Complete(bind, m)
<1>1. /\ DOMAIN m.rows = 1 .. Len(m.rows)
      /\ Len(m.rows) = l.row_offset /\ DOMAIN l.rows = 1 .. Len(l.rows)
  BY DEF BatchType, LocalType, Collected
<1>2. m.file = l.file /\ Prims(bind, m) = Prims(bind, l)
  BY DEF Collected, Prims
<1>3. ASSUME NEW p \in Prims(bind, l), NEW time \in RowTimes(bind)
      PROVE  Made(bind, l, p, time)
  <2>1. CASE bind.unit = "STAGE"
    BY <2>1 DEF Made
  <2>2. CASE bind.unit # "STAGE"
    <3>1. l.first \in Nat /\ l.size \in Nat /\ l.time_index \in Nat /\ bind.times \in Nat
      BY ScanAssumption DEF LocalType, BindType
    <3>2. l.next_prim = l.size /\ l.time_index + 1 >= bind.times
      BY <2>2 DEF FillOK
    <3>3. p < l.first + l.next_prim
      BY <2>2, <3>1, <3>2 DEF Prims
    <3>4. time <= Now(bind, l) /\ time \in Nat /\ Now(bind, l) \in Nat
      BY <3>1, <3>2 DEF RowTimes, Now
    <3> QED BY <3>3, <3>4 DEF Made
  <2> QED BY <2>1, <2>2
<1>4. ASSUME NEW p \in Prims(bind, l), NEW n \in 1 .. RowCount(l.file, p),
             NEW time \in RowTimes(bind)
      PROVE  \E i \in DOMAIN m.rows : IsRow(m.rows[i], p, n, time)
  <2>1. PICK i \in DOMAIN l.rows : IsRow(l.rows[i], p, n, time)
    BY <1>3 DEF FillOK
  <2>2. i \in DOMAIN m.rows /\ IsRow(m.rows[i], l.rows[i].prim, l.rows[i].row, l.rows[i].time)
    BY <1>1 DEF Collected
  <2> QED BY <2>1, <2>2 DEF IsRow
<1> QED BY <1>2, <1>4 DEF Complete
\* What Emit collects: the next `count' rows of the buffer, at the end of the batch
Emits(t, count) ==
    LET l == local[t]
        b == l.batch + 1
        old == batches[b].rows
        new == batches'[b].rows
    IN  /\ l.row_offset + count <= Len(l.rows)
        /\ Becomes(t, [l EXCEPT !.row_offset = @ + count])
        /\ b \in DOMAIN batches /\ DOMAIN batches' = DOMAIN batches
        /\ \A n \in DOMAIN batches : n # b => batches'[n] = batches[n]
        /\ batches'[b].file = batches[b].file /\ batches'[b].first = batches[b].first
        /\ batches'[b].size = batches[b].size
        /\ Len(old) \in Nat /\ DOMAIN old = 1 .. Len(old)
        /\ Len(new) = Len(old) + count /\ DOMAIN new = 1 .. Len(old) + count
        /\ \A i \in 1 .. Len(old) : new[i] = old[i]
        /\ \A k \in 1 .. count :
             LET r == l.rows[l.row_offset + k]
             IN  new[Len(old) + k].file = r.file /\ IsRow(new[Len(old) + k], r.prim, r.row, r.time)

LEMMA EmitFacts ==
    ASSUME SInv, NEW t \in Threads, Emit(t)
    PROVE  /\ local[t].pc = "fill" /\ HasMorsel(local[t])
           /\ UNCHANGED <<bind, global, refused, skipped>>
           /\ \/ Throw(t) /\ UNCHANGED batches
              \/ \E count \in Nat \ {0} : Emits(t, count)
<1> DEFINE l == local[t]
           count == IF Available(l) < VectorSize THEN Available(l) ELSE VectorSize
           Label(i) == IF TimeCount = 0 THEN 0 ELSE l.row_times[l.row_offset + i]
           OutRowOf(r, a) == [file |-> r.file, prim |-> r.prim, row |-> r.row,
                              stage |-> r.stage, time |-> r.time, at |-> a]
           chunk == [i \in 1 .. count |-> OutRowOf(l.rows[l.row_offset + i], Label(i))]
           m == [l EXCEPT !.row_offset = @ + count]
           b == l.batch + 1
<1>1. /\ l.pc = "fill" /\ Available(l) > 0
      /\ UNCHANGED <<bind, global, refused, skipped>>
      /\ \/ Throw(t) /\ UNCHANGED batches
         \/ /\ Becomes(t, m)
            /\ batches' = [batches EXCEPT ![b].rows = @ \o chunk]
  BY DEF Emit
<1>2. /\ l \in LocalType /\ LocalOK(bind, l, Len(batches), refused)
      /\ batches \in Seq(BatchType) /\ Len(batches) \in Nat
      /\ Len(l.rows) \in Nat /\ l.row_offset \in Nat /\ l.batch \in Nat
  BY ThreadFacts DEF LocalType
<1>3. count \in Nat \ {0} /\ l.row_offset + count <= Len(l.rows)
  <2>1. Available(l) = Len(l.rows) - l.row_offset
    BY DEF Available
  <2>2. VectorSize \in Nat /\ VectorSize > 0
    BY ScanAssumption
  <2> DEFINE a == Available(l)
             n == Len(l.rows)
             o == l.row_offset
  <2>3. n \in Nat /\ o \in Nat /\ a = n - o /\ a > 0
    BY <1>1, <1>2, <2>1
  <2>4. count = IF a < VectorSize THEN a ELSE VectorSize
    OBVIOUS
  <2> HIDE DEF count, a, n, o
  <2>5. count \in Nat \ {0} /\ o + count <= n
    BY <2>2, <2>3, <2>4
  <2> QED BY <2>5 DEF n, o
<1> HIDE DEF count
<1>4. l.file \in FileIndex /\ l.batch < Len(batches)
  BY <1>2, <1>3 DEF LocalOK, RowsOK
<1>5. HasMorsel(l)
  <2>1. l.pc = "fill"
    BY <1>1
  <2>2. l.file # 0
    BY <1>4, ScanAssumption DEF FileIndex
  <2> QED BY <2>1, <2>2 DEF HasMorsel
<1>6. CASE /\ Becomes(t, m)
           /\ batches' = [batches EXCEPT ![b].rows = @ \o chunk]
  <2>1. b \in 1 .. Len(batches) /\ DOMAIN batches = 1 .. Len(batches)
    BY <1>2, <1>4
  <2>2. batches[b] \in BatchType
    <3> HIDE DEF b
    <3> QED BY <1>2, <2>1
  <2> DEFINE old == batches[b].rows
             new == old \o chunk
             c == [batches[b] EXCEPT !.rows = new]
  <2>3. batches' = [batches EXCEPT ![b] = c]
    BY <1>6
  <2>4. old \in Seq(OutRow) /\ Len(old) \in Nat /\ DOMAIN old = 1 .. Len(old)
    BY <2>2 DEF BatchType
  <2>5. chunk \in Seq({chunk[i] : i \in 1 .. count}) /\ Len(chunk) = count
    <3>1. chunk \in [1 .. count -> {chunk[i] : i \in 1 .. count}]
      OBVIOUS
    <3> HIDE DEF chunk
    <3> QED BY <1>3, <3>1
  <2>6. \A k \in 1 .. count :
          LET r == l.rows[l.row_offset + k]
          IN  chunk[k].file = r.file /\ IsRow(chunk[k], r.prim, r.row, r.time)
    BY DEF IsRow
  <2>7. /\ c.rows = new /\ c.file = batches[b].file /\ c.first = batches[b].first
        /\ c.size = batches[b].size
    BY <2>2 DEF BatchType
  <2> HIDE DEF c
  <2>8. /\ DOMAIN batches' = DOMAIN batches /\ batches'[b] = c
        /\ \A n \in DOMAIN batches : n # b => batches'[n] = batches[n]
    BY <1>2, <2>1, <2>3
  <2>9. /\ Len(new) = Len(old) + count /\ DOMAIN new = 1 .. Len(old) + count
        /\ \A i \in 1 .. Len(old) : new[i] = old[i]
        /\ \A k \in 1 .. count : new[Len(old) + k] = chunk[k]
    <3> DEFINE S == {chunk[i] : i \in 1 .. count} \cup OutRow
    <3>1. old \in Seq(S) /\ chunk \in Seq(S) /\ count \in Nat
      <4>1. old \in [1 .. Len(old) -> OutRow]
        <5> HIDE DEF old
        <5> QED BY <2>4
      <4>2. old \in [1 .. Len(old) -> S]
        <5> HIDE DEF old, chunk
        <5> QED BY <2>4, <4>1
      <4>3. old \in Seq(S)
        <5> HIDE DEF old, S
        <5> QED BY <2>4, <4>2
      <4>4. chunk \in [1 .. count -> S]
        OBVIOUS
      <4>5. chunk \in Seq(S)
        <5> HIDE DEF chunk, S
        <5> QED BY <1>3, <4>4
      <4> QED BY <1>3, <4>3, <4>5
    <3> HIDE DEF old, chunk, S
    <3>2. /\ Len(new) = Len(old) + count /\ DOMAIN new = 1 .. Len(old) + count
          /\ \A i \in 1 .. Len(old) : new[i] = old[i]
      BY <2>4, <2>5, <3>1
    <3>3. ASSUME NEW k \in 1 .. count PROVE new[Len(old) + k] = chunk[k]
      BY <2>4, <2>5, <3>1
    <3> QED BY <3>2, <3>3
  <2> HIDE DEF new, chunk
  <2>10. \A k \in 1 .. count :
           LET r == l.rows[l.row_offset + k]
           IN  new[Len(old) + k].file = r.file /\ IsRow(new[Len(old) + k], r.prim, r.row, r.time)
    BY <2>6, <2>9
  <2>11. Emits(t, count)
    <3> HIDE DEF b
    <3> QED BY <1>3, <1>6, <2>1, <2>4, <2>7, <2>8, <2>9, <2>10 DEF Emits, b, new
  <2> QED BY <1>1, <1>3, <1>5, <2>11
<1> QED BY <1>1, <1>5, <1>6

\* The collected rows still mirror the buffer
LEMMA EmitsCollects ==
    ASSUME NEW l \in LocalType, NEW old \in BatchType, NEW new \in BatchType,
           NEW count \in Nat, Collected(l, old), l.row_offset + count <= Len(l.rows),
           NEW m, m = [l EXCEPT !.row_offset = @ + count],
           new.file = old.file, new.first = old.first, new.size = old.size,
           Len(new.rows) = Len(old.rows) + count,
           \A i \in 1 .. Len(old.rows) : new.rows[i] = old.rows[i],
           \A k \in 1 .. count :
             LET r == l.rows[l.row_offset + k]
             IN  /\ new.rows[Len(old.rows) + k].file = r.file
                 /\ IsRow(new.rows[Len(old.rows) + k], r.prim, r.row, r.time)
    PROVE  Collected(m, new)
<1>1. /\ m.file = l.file /\ m.first = l.first /\ m.size = l.size /\ m.rows = l.rows
      /\ m.row_offset = l.row_offset + count
  BY DEF LocalType
<1>2. /\ Len(old.rows) = l.row_offset /\ l.row_offset \in Nat /\ Len(l.rows) \in Nat
      /\ DOMAIN old.rows = 1 .. l.row_offset
      /\ DOMAIN new.rows = 1 .. Len(new.rows)
  BY DEF Collected, LocalType, BatchType
<1>3. ASSUME NEW i \in DOMAIN new.rows
      PROVE  /\ new.rows[i].file = l.rows[i].file
             /\ IsRow(new.rows[i], l.rows[i].prim, l.rows[i].row, l.rows[i].time)
  <2>1. i \in 1 .. (l.row_offset + count)
    BY <1>2
  <2>2. CASE i <= l.row_offset
    <3>1. i \in DOMAIN old.rows /\ new.rows[i] = old.rows[i]
      BY <1>2, <2>1, <2>2
    <3> QED BY <3>1 DEF Collected
  <2>3. CASE i > l.row_offset
    <3>1. PICK k \in 1 .. count : i = l.row_offset + k
      <4>1. i - l.row_offset \in 1 .. count /\ i = l.row_offset + (i - l.row_offset)
        BY <1>2, <2>1, <2>3
      <4> QED BY <4>1
    <3> QED BY <1>2, <3>1
  <2> QED BY <1>2, <2>1, <2>2, <2>3
<1> QED BY <1>1, <1>2, <1>3 DEF Collected

LEMMA EmitOrder ==
    ASSUME SInv, OInv, NEW t \in Threads, Emit(t)
    PROVE  OInv'
<1> DEFINE l == local[t]
           b == l.batch + 1
<1>1. /\ local[t].pc = "fill" /\ HasMorsel(l)
      /\ UNCHANGED <<bind, global, refused, skipped>>
      /\ \/ Throw(t) /\ UNCHANGED batches
         \/ \E count \in Nat \ {0} : Emits(t, count)
  BY EmitFacts
<1>2. /\ l \in LocalType /\ LocalOK(bind, l, Len(batches), refused)
      /\ bind \in BindType /\ Len(batches) \in Nat /\ batches \in Seq(BatchType)
  BY ThreadFacts
<1>3. batches' \in Seq(BatchType) /\ bind' = bind
  BY EmitStep, <1>1 DEF SInv, TypeOK
<1>4. /\ b \in DOMAIN batches /\ FillOK(bind, l) /\ Collected(l, batches[b])
      /\ \A u \in Threads : u # t /\ HasMorsel(local[u]) => local[u].batch # l.batch
      /\ HoldersOK /\ CollectedOK /\ PlacesOK /\ FilesOK
  BY <1>1 DEF OInv, HoldersOK, HolderOK
<1>5. CASE Throw(t) /\ UNCHANGED batches
  <2>1. HoldersOK' /\ CollectedOK' /\ Failed' /\ (Opening' => Opening)
    BY <1>1, <1>4, <1>5, ThrowMove
  <2>2. PlacesOK' /\ FilesOK'
    BY <1>1, <1>4, <1>5, <2>1, PlacesKept
  <2> QED BY <2>1, <2>2 DEF OInv
<1>6. ASSUME NEW count \in Nat \ {0}, Emits(t, count)
      PROVE  OInv'
  <2> DEFINE m == [l EXCEPT !.row_offset = @ + count]
  <2>1. /\ l.row_offset + count <= Len(l.rows) /\ Becomes(t, m)
        /\ DOMAIN batches' = DOMAIN batches
        /\ \A n \in DOMAIN batches : n # b => batches'[n] = batches[n]
        /\ batches'[b].file = batches[b].file /\ batches'[b].first = batches[b].first
        /\ batches'[b].size = batches[b].size
    BY <1>6 DEF Emits
  <2>2. /\ m.pc = l.pc /\ m.file = l.file /\ m.batch = l.batch /\ m.rows = l.rows
        /\ m.first = l.first /\ m.size = l.size /\ m.next_prim = l.next_prim
        /\ m.time_index = l.time_index /\ m.row_offset = l.row_offset + count
    BY <1>2 DEF LocalType
  <2>3. batches[b] \in BatchType /\ batches'[b] \in BatchType
    <3> HIDE DEF b
    <3> QED BY <1>2, <1>3, <1>4, <2>1
  <2>4. Collected(m, batches'[b])
    <3> DEFINE old == batches[b]
               new == batches'[b]
    <3>1. /\ Len(new.rows) = Len(old.rows) + count
          /\ \A i \in 1 .. Len(old.rows) : new.rows[i] = old.rows[i]
          /\ \A k \in 1 .. count :
               LET r == l.rows[l.row_offset + k]
               IN  /\ new.rows[Len(old.rows) + k].file = r.file
                   /\ IsRow(new.rows[Len(old.rows) + k], r.prim, r.row, r.time)
      BY <1>6 DEF Emits
    <3>2. /\ old \in BatchType /\ new \in BatchType /\ Collected(l, old)
          /\ new.file = old.file /\ new.first = old.first /\ new.size = old.size
          /\ l.row_offset + count <= Len(l.rows)
      BY <1>4, <2>1, <2>3
    <3>3. PICK k : k = m
      OBVIOUS
    <3> HIDE DEF old, new, m
    <3>4. k = [l EXCEPT !.row_offset = @ + count]
      BY <3>3 DEF m
    <3>5. Collected(k, new)
      <4> HIDE DEF l
      <4> QED BY <1>2, <3>1, <3>2, <3>4, EmitsCollects
    <3> QED BY <3>3, <3>5 DEF new
  <2> HIDE DEF m
  <2>5. HasMorsel(m) /\ FillOK(bind, m)
    BY <1>1, <1>4, <2>2 DEF HasMorsel, FillOK, RowsOf, Prims, Made, Now
  <2>6. HoldersOK'
    <3>1. ASSUME NEW u \in Threads, u # t, HasMorsel(local[u])
          PROVE  batches'[local[u].batch + 1] = batches[local[u].batch + 1]
      <4>1. local[u].batch + 1 \in DOMAIN batches
        BY <1>4, <3>1 DEF HoldersOK, HolderOK
      <4>2. local[u].batch # l.batch /\ local[u].batch \in Nat /\ l.batch \in Nat
        BY <1>2, <1>4, <3>1, ThreadFacts DEF LocalType
      <4>3. local[u].batch + 1 # b
        BY <4>2
      <4> QED BY <2>1, <4>1, <4>3
    <3> HIDE DEF l
    <3> QED BY <1>1, <1>3, <1>4, <2>1, <2>2, <2>4, <2>5, <3>1, HoldersMove DEF l
  <2>7. local'[t] = m /\ \A u \in Threads : u # t => local'[u] = local[u]
    BY <2>1, Others
  <2>8. /\ Failed <=> Failed'
        /\ Opening <=> Opening'
        /\ \A u \in Threads : \A n : Holds(u, n) => Holds(u, n)'
    BY <1>1, <2>2, <2>7 DEF Failed, Opening, Holds, HasMorsel
  <2>9. RowsOf(bind, batches'[b], batches'[b].rows)
    <3>1. FillOK(bind, m) /\ m.row_offset <= Len(m.rows)
      BY <2>1, <2>2, <2>5
    <3>2. m \in LocalType
      <4>1. SInv'
        BY EmitStep
      <4>2. local'[t] \in LocalType
        BY <4>1 DEF SInv, TypeOK
      <4> QED BY <2>7, <4>2
    <3> DEFINE new == batches'[b]
    <3>3. new \in BatchType /\ Collected(m, new)
      BY <2>3, <2>4
    <3> HIDE DEF new
    <3> QED BY <3>1, <3>2, <3>3, CollectedRows DEF new
  <2>10. \A n : n = b => Holds(t, n)'
    BY <2>2, <2>5, <2>7 DEF Holds, HasMorsel
  <2>11. CollectedOK'
    <3>1. ASSUME NEW n \in DOMAIN batches
          PROVE  /\ RowsOf(bind, batches'[n], batches'[n].rows)
                 /\ Complete(bind, batches'[n]) \/ Failed' \/ \E u \in Threads : Holds(u, n)'
      <4>1. CASE n = b
        BY <2>9, <2>10, <4>1
      <4>2. CASE n # b
        <5>1. batches'[n] = batches[n]
          BY <2>1, <4>2
        <5> QED BY <1>4, <2>8, <5>1 DEF CollectedOK
      <4> QED BY <4>1, <4>2
    <3> QED BY <1>3, <2>1, <3>1 DEF CollectedOK
  <2>12. PlacesOK' /\ FilesOK'
    <3>1. \A n \in DOMAIN batches :
            /\ batches'[n].file = batches[n].file /\ batches'[n].first = batches[n].first
            /\ batches'[n].size = batches[n].size
      BY <2>1
    <3> QED BY <1>1, <1>4, <2>1, <2>8, <3>1, PlacesKept
  <2> QED BY <2>6, <2>11, <2>12 DEF OInv
<1> QED BY <1>1, <1>5, <1>6

LEMMA ExhaustedOrder ==
    ASSUME SInv, OInv, NEW t \in Threads, Exhausted(t)
    PROVE  OInv' /\ local[t].pc = "fill" /\ local'[t].pc = "next"
<1> DEFINE l == local[t]
           m == Cleared(l)
           b == l.batch + 1
<1>1. /\ l.pc = "fill" /\ Becomes(t, m) /\ ~Fillable(l) /\ Available(l) = 0
      /\ UNCHANGED <<bind, lock, global, refused, skipped, batches>>
  BY DEF Exhausted
<1>2. /\ l \in LocalType /\ LocalOK(bind, l, Len(batches), refused)
      /\ bind \in BindType /\ Len(batches) \in Nat /\ batches \in Seq(BatchType)
  BY ThreadFacts
<1>3. m.pc = "next"
  BY <1>2 DEF LocalType, Cleared
<1> HIDE DEF m
<1>4. local'[t] = m /\ \A u \in Threads : u # t => local'[u] = local[u]
  BY <1>1, Others
<1>5. /\ l.next_prim = l.size /\ l.row_offset = Len(l.rows)
  <2>1. /\ l.next_prim \in Nat /\ l.size \in Nat /\ l.row_offset \in Nat
        /\ Len(l.rows) \in Nat /\ VectorSize \in Nat \ {0}
    <3>1. l.rows \in Seq(Row)
      BY <1>2 DEF LocalType
    <3>2. l.next_prim \in Nat /\ l.size \in Nat /\ l.row_offset \in Nat
      BY <1>2 DEF LocalType
    <3> QED BY <3>1, <3>2, ScanAssumption
  <2>2. l.next_prim <= l.size
    BY <1>2 DEF LocalOK, MorselOK
  <2>3. ~(l.next_prim < l.size)
    BY <1>1, <2>1 DEF Fillable
  <2>4. l.row_offset = Len(l.rows)
    BY <1>1, <2>1 DEF Available
  <2> QED BY <2>1, <2>2, <2>3, <2>4
<1>6. HoldersOK'
  BY <1>1, <1>3, HoldersMove DEF OInv, HasMorsel
<1>7. /\ Failed <=> Failed'
      /\ Opening <=> Opening'
      /\ \A u \in Threads : \A n : u # t /\ Holds(u, n) => Holds(u, n)'
  BY <1>1, <1>3, <1>4 DEF Failed, Opening, Holds, HasMorsel
<1>8. ASSUME NEW n \in DOMAIN batches, Holds(t, n)
      PROVE  Complete(bind, batches[n])
  <2>1. n = b /\ HasMorsel(l)
    BY <1>8 DEF Holds
  <2>2. FillOK(bind, l) /\ Collected(l, batches[n])
    BY <2>1 DEF OInv, HoldersOK, HolderOK
  <2>3. batches[n] \in BatchType
    BY <1>2
  <2> HIDE DEF l, b
  <2> QED BY <1>2, <1>5, <2>2, <2>3, CollectedAll
<1>9. CollectedOK'
  BY <1>1, <1>7, <1>8 DEF OInv, CollectedOK
<1>10. PlacesOK' /\ FilesOK'
  BY <1>1, <1>7, PlacesKept DEF OInv
<1> QED BY <1>1, <1>3, <1>4, <1>6, <1>9, <1>10 DEF OInv
-----------------------------------------------------------------------------
(* UsdScanGlobalState::Next keeps the order *)

\* A thread moves from one step of Next to another
LEMMA GotoMove ==
    ASSUME SInv, OInv, NEW t \in Threads, NEW p \in {"locked", "opening", "done"},
           local[t].pc \in {"next", "locked", "opening"}, Goto(t, p),
           UNCHANGED <<bind, batches>>
    PROVE  /\ HoldersOK' /\ CollectedOK'
           /\ local'[t].pc = p
           /\ \A u \in Threads : u # t => local'[u].pc = local[u].pc
           /\ Failed <=> Failed'
           /\ Opening' <=> p = "opening" \/ \E u \in Threads : u # t /\ local[u].pc = "opening"
<1> DEFINE m == [local[t] EXCEPT !.pc = p]
<1>1. m.pc = p /\ Becomes(t, m)
  BY ThreadFacts DEF Goto, LocalType
<1> HIDE DEF m
<1>2. local'[t] = m /\ \A u \in Threads : u # t => local'[u] = local[u]
  BY <1>1, Others
<1>3. HoldersOK' /\ CollectedOK'
  BY <1>1, IdleMove DEF OInv, HasMorsel
<1>4. /\ Failed <=> Failed'
      /\ Opening' <=> p = "opening" \/ \E u \in Threads : u # t /\ local[u].pc = "opening"
  BY <1>1, <1>2 DEF Failed, Opening
<1> QED BY <1>1, <1>2, <1>3, <1>4

LEMMA AcquireOrder ==
    ASSUME SInv, OInv, NEW t \in Threads, Acquire(t)
    PROVE  OInv' /\ local[t].pc = "next" /\ local'[t].pc = "locked"
<1>1. /\ local[t].pc = "next" /\ Goto(t, "locked")
      /\ UNCHANGED <<bind, global, skipped, batches>>
  BY DEF Acquire
<1>2. /\ HoldersOK' /\ CollectedOK' /\ local'[t].pc = "locked"
      /\ Failed <=> Failed'
      /\ Opening' <=> \E u \in Threads : u # t /\ local[u].pc = "opening"
  BY <1>1, GotoMove
<1>3. Opening' <=> Opening
  BY <1>1, <1>2 DEF Opening
<1>4. PlacesOK' /\ FilesOK'
  BY <1>1, <1>2, <1>3, PlacesKept DEF OInv
<1> QED BY <1>1, <1>2, <1>4 DEF OInv

LEMMA NoMoreFilesOrder ==
    ASSUME SInv, OInv, NEW t \in Threads, NoMoreFiles(t)
    PROVE  /\ OInv' /\ local[t].pc = "locked" /\ local'[t].pc = "done"
           /\ \A u \in Threads : u # t => local'[u].pc = local[u].pc
<1>1. /\ local[t].pc = "locked" /\ Goto(t, "done")
      /\ UNCHANGED <<bind, global, skipped, batches>>
  BY DEF NoMoreFiles
<1>2. /\ HoldersOK' /\ CollectedOK' /\ local'[t].pc = "done"
      /\ \A u \in Threads : u # t => local'[u].pc = local[u].pc
      /\ Failed <=> Failed'
      /\ Opening' <=> \E u \in Threads : u # t /\ local[u].pc = "opening"
  BY <1>1, GotoMove
<1>3. Opening' <=> Opening
  BY <1>1, <1>2 DEF Opening
<1>4. PlacesOK' /\ FilesOK'
  BY <1>1, <1>2, <1>3, PlacesKept DEF OInv
<1> QED BY <1>1, <1>2, <1>4 DEF OInv

LEMMA StartFileOrder ==
    ASSUME SInv, OInv, NEW t \in Threads, StartFile(t)
    PROVE  OInv' /\ local[t].pc = "locked" /\ local'[t].pc = "opening"
<1>1. /\ local[t].pc = "locked" /\ Goto(t, "opening") /\ stage = 0
      /\ current_file' = next_file + 1
      /\ UNCHANGED <<bind, stage, position, skipped, batches>>
  BY DEF StartFile
<1>2. /\ HoldersOK' /\ CollectedOK' /\ local'[t].pc = "opening"
      /\ (Failed <=> Failed') /\ Opening'
  BY <1>1, GotoMove
<1>3. ~Opening
  BY <1>1, InsideNext DEF Opening
<1>4. current_file \in Nat /\ current_file' = current_file + 1
  BY <1>1 DEF SInv, TypeOK, CountersOK
<1>5. \A f \in 1 .. current_file : f \in 1 .. current_file' /\ f # current_file'
  BY <1>4
<1>6. PlacesOK'
  <2>1. ASSUME NEW n \in DOMAIN batches PROVE BatchPlaceOK(batches[n])'
    <3>1. BatchPlaceOK(batches[n])
      BY DEF OInv, PlacesOK
    <3>2. batches[n].file \in 1 .. current_file' \ skipped /\ batches[n].file # current_file'
      BY <1>5, <3>1 DEF BatchPlaceOK
    <3> QED BY <1>1, <3>1, <3>2 DEF BatchPlaceOK, PrimCount
  <2> QED BY <1>1, <2>1 DEF OInv, PlacesOK
<1>7. FilesOK'
  <2>1. skipped \subseteq 1 .. current_file
    BY DEF OInv, FilesOK
  <2>2. skipped' \subseteq 1 .. current_file' /\ current_file' \notin skipped'
    BY <1>1, <1>5, <2>1
  <2>3. ASSUME ~Failed', NEW f \in 1 .. current_file' \ skipped',
               f = current_file' => stage' = 0 /\ ~Opening', NEW p \in FilePrims(bind', f)
        PROVE  Dealt(f, p)'
    <3>1. f \in 1 .. current_file \ skipped
      <4>1. f # current_file'
        BY <1>2, <2>3
      <4>2. f \in 1 .. current_file' /\ f \notin skipped
        BY <1>1, <2>3
      <4> QED BY <1>4, <4>1, <4>2
    <3>2. p \in FilePrims(bind, f)
      BY <1>1, <2>3
    <3>3. Dealt(f, p)
      BY <1>1, <1>2, <1>3, <2>3, <3>1, <3>2 DEF OInv, FilesOK
    <3> QED BY <1>1, <3>3 DEF Dealt, Prims
  <2> QED BY <1>1, <2>2, <2>3 DEF FilesOK, FilePrims
<1> QED BY <1>1, <1>2, <1>6, <1>7 DEF OInv

LEMMA EndOfStageOrder ==
    ASSUME SInv, OInv, NEW t \in Threads, EndOfStage(t)
    PROVE  OInv' /\ local[t].pc = "locked" /\ local' = local
<1>1. /\ local[t].pc = "locked" /\ stage # 0 /\ position = PrimCount(stage) /\ stage' = 0
      /\ UNCHANGED <<bind, current_file, position, local, skipped, batches>>
  BY DEF EndOfStage
<1>2. stage = current_file /\ bind.unit # "STAGE" /\ ~Opening
  BY <1>1, InsideNext DEF SInv, CountersOK, Opening
<1>3. HoldersOK' /\ CollectedOK'
  BY <1>1 DEF OInv, HoldersOK, HolderOK, CollectedOK, Failed, Holds, HasMorsel
<1>4. (Opening <=> Opening') /\ (Failed <=> Failed')
  BY <1>1 DEF Opening, Failed
<1>5. PlacesOK'
  BY <1>1, <1>4 DEF OInv, PlacesOK, BatchPlaceOK, PrimCount
<1>6. ASSUME ~Failed', NEW f \in 1 .. current_file' \ skipped', NEW p \in FilePrims(bind', f)
      PROVE  Dealt(f, p)'
  <2>1. f \in 1 .. current_file \ skipped /\ p \in FilePrims(bind, f) /\ ~Failed
    BY <1>1, <1>4, <1>6
  <2>2. CASE f = current_file
    <3>1. p \in 1 .. position
      BY <1>1, <1>2, <2>1, <2>2 DEF FilePrims
    <3>2. Dealt(f, p)
      BY <1>1, <1>2, <2>2, <3>1 DEF OInv, FilesOK
    <3> QED BY <1>1, <3>2 DEF Dealt, Prims
  <2>3. CASE f # current_file
    <3>1. Dealt(f, p)
      BY <2>1, <2>3 DEF OInv, FilesOK
    <3> QED BY <1>1, <3>1 DEF Dealt, Prims
  <2> QED BY <2>2, <2>3
<1>7. FilesOK'
  BY <1>1, <1>2, <1>4, <1>6 DEF OInv, FilesOK, FilePrims
<1> QED BY <1>1, <1>3, <1>5, <1>7 DEF OInv

LEMMA OpenFailsOrder ==
    ASSUME SInv, OInv, NEW t \in Threads, OpenFails(t)
    PROVE  OInv' /\ local[t].pc = "opening" /\ local'[t].pc # "done"
<1>1. /\ local[t].pc = "opening"
      /\ UNCHANGED <<bind, global, batches>>
      /\ \/ skipped' = skipped \cup {current_file} /\ Goto(t, "locked")
         \/ Throw(t) /\ UNCHANGED skipped
  BY DEF OpenFails
<1>2. Opening
  BY <1>1 DEF Opening
<1>3. CASE Throw(t) /\ UNCHANGED skipped
  <2>1. HoldersOK' /\ CollectedOK' /\ Failed' /\ (Opening' => Opening)
    BY <1>1, <1>3, ThrowMove DEF OInv
  <2>2. PlacesOK' /\ FilesOK'
    BY <1>1, <1>3, <2>1, PlacesKept DEF OInv
  <2>3. local'[t].pc = "failed"
    <3> DEFINE l == [NoMorsel EXCEPT !.pc = "failed"]
    <3>1. l.pc = "failed" /\ Becomes(t, l)
      BY <1>3, NoMorselType DEF Throw
    <3> HIDE DEF l
    <3> QED BY <3>1, Others
  <2> QED BY <1>1, <2>1, <2>2, <2>3 DEF OInv
<1>4. CASE skipped' = skipped \cup {current_file} /\ Goto(t, "locked")
  <2>1. /\ HoldersOK' /\ CollectedOK' /\ local'[t].pc = "locked"
        /\ Failed <=> Failed'
        /\ Opening' <=> \E u \in Threads : u # t /\ local[u].pc = "opening"
    BY <1>1, <1>4, GotoMove
  <2>2. ~Opening'
    BY <1>1, <2>1, InsideNext
  <2>3. /\ stage = 0 /\ current_file > 0 /\ current_file \in Nat
        /\ current_file' = current_file /\ stage' = stage /\ position' = position
    BY <1>1 DEF SInv, TypeOK, CountersOK, global
  <2>4. PlacesOK'
    BY <1>1, <1>2, <1>4, <2>3 DEF OInv, PlacesOK, BatchPlaceOK, PrimCount
  <2>5. skipped' \subseteq 1 .. current_file'
    BY <1>4, <2>3 DEF OInv, FilesOK
  <2>6. ASSUME ~Failed', NEW f \in 1 .. current_file' \ skipped', NEW p \in FilePrims(bind', f)
        PROVE  Dealt(f, p)'
    <3>1. f \in 1 .. current_file \ skipped /\ f # current_file /\ p \in FilePrims(bind, f)
      BY <1>1, <1>4, <2>3, <2>6
    <3>2. Dealt(f, p)
      BY <2>1, <2>6, <3>1 DEF OInv, FilesOK
    <3> QED BY <1>1, <3>2 DEF Dealt, Prims
  <2>7. FilesOK'
    BY <2>2, <2>3, <2>5, <2>6 DEF FilesOK, FilePrims
  <2> QED BY <1>1, <2>1, <2>4, <2>7 DEF OInv
<1> QED BY <1>1, <1>3, <1>4

\* Deal adds a batch at the end, which the thread holds
LEMMA DealOrder ==
    ASSUME SInv, OInv, NEW t \in Threads, NEW f \in FileIndex, NEW first \in Nat,
           NEW size \in Nat, local[t].pc \in {"locked", "opening"}, bind' = bind,
           Deal(t, f, first, size), bind.unit # "STAGE" => size > 0
    PROVE  /\ HoldersOK' /\ CollectedOK'
           /\ local'[t].pc = "fill" /\ (Failed <=> Failed') /\ ~Opening'
           /\ DOMAIN batches = 1 .. Len(batches) /\ DOMAIN batches' = 1 .. Len(batches) + 1
           /\ Len(batches) \in Nat
           /\ \A n \in 1 .. Len(batches) : batches'[n] = batches[n]
           /\ batches'[Len(batches) + 1] = [file |-> f, first |-> first, size |-> size,
                                            rows |-> <<>>]
<1> DEFINE l == local[t]
           begun == IF NewStage(l, f) THEN f ELSE l.begun
           m == [l EXCEPT !.pc = "fill", !.file = f, !.batch = next_batch_index,
                          !.first = first, !.size = size, !.begun = begun]
           k == [m EXCEPT !.rows = PrimRows(m, f, 0)]
           fresh == [file |-> f, first |-> first, size |-> size, rows |-> <<>>]
           N == Len(batches)
<1>1. /\ IF StageUnit THEN Becomes(t, k) ELSE Becomes(t, m)
      /\ batches' = Append(batches, fresh)
  BY DEF Deal
<1>2. /\ l \in LocalType /\ LocalOK(bind, l, Len(batches), refused)
      /\ bind \in BindType /\ batches \in Seq(BatchType) /\ Len(batches) \in Nat
      /\ local \in [Threads -> LocalType]
  BY ThreadFacts
<1>3. /\ Between(l)
      /\ \A u \in Threads \ {t} : local[u].pc \notin {"locked", "opening"}
  BY InsideNext
<1>4. next_batch_index = N
  BY DEF SInv, CountersOK
<1>5. begun = f
  BY <1>2 DEF NewStage, LocalOK, MorselOK
<1> HIDE DEF begun
<1>6. fresh \in BatchType
  BY DEF BatchType
<1>7. /\ DOMAIN batches = 1 .. N /\ DOMAIN batches' = 1 .. N + 1
      /\ \A n \in 1 .. N : batches'[n] = batches[n]
      /\ batches'[N + 1] = fresh
  <2> HIDE DEF fresh
  <2> QED BY <1>1, <1>2, <1>6
<1>8. m \in LocalType
  <2>1. f \in 0 .. FileCount /\ begun \in 0 .. FileCount /\ next_batch_index \in Nat
    BY <1>2, <1>4, <1>5, ScanAssumption DEF FileIndex
  <2> QED BY <1>2, <2>1, DealtType
<1>9. /\ m.pc = "fill" /\ m.file = f /\ m.next_prim = 0 /\ m.size = size
      /\ m.time = l.time /\ m.rows = <<>> /\ m.time_index = 0
      /\ m.batch = N /\ m.first = first /\ m.row_offset = 0
  BY <1>2, <1>3, <1>4, <1>5 DEF LocalType, Between
<1> HIDE DEF m
<1>10. bind.times \in Nat /\ f # 0
  BY <1>2, ScanAssumption DEF BindType, FileIndex
<1>11. PICK j : /\ Becomes(t, j) /\ FillOK(bind, j)
                /\ j.pc = "fill" /\ j.file = f /\ j.batch = N
                /\ j.first = first /\ j.size = size /\ j.row_offset = 0
  <2>1. CASE StageUnit
    <3>1. /\ k.pc = "fill" /\ k.file = f /\ k.size = size /\ k.rows = PrimRows(m, f, 0)
          /\ k.batch = N /\ k.first = first /\ k.row_offset = 0
      BY <1>8, <1>9 DEF LocalType
    <3> DEFINE rs == PrimRows(m, f, 0)
               c == RowCount(f, 0)
    <3>2. 0 \in 0 .. PrimCount(f)
      BY PrimCountType
    <3>3. /\ c \in Nat /\ DOMAIN rs = 1 .. c
          /\ \A i \in 1 .. c : rs[i] = [file |-> f, prim |-> 0, row |-> i,
                                        stage |-> m.begun, time |-> m.time]
      BY <3>2, RowCountType DEF PrimRows
    <3>4. m.time = 0 /\ bind.times = 0 /\ bind.unit = "STAGE"
      BY <1>2, <1>9, <2>1 DEF BindType, StageUnit, LocalOK, TimesOK
    <3>5. /\ k.rows = rs
          /\ Prims(bind, k) = {0} /\ RowTimes(bind) = {0}
      BY <3>1, <3>4 DEF Prims, RowTimes
    <3> HIDE DEF k, rs
    <3>6. RowsOf(bind, k, k.rows)
      BY <3>1, <3>3, <3>4, <3>5 DEF RowsOf, Precedes
    <3>7. ASSUME NEW n \in 1 .. c PROVE IsRow(rs[n], 0, n, 0)
      BY <3>3, <3>4 DEF IsRow
    <3>8. \A n \in 1 .. c : \E i \in DOMAIN rs : IsRow(rs[i], 0, n, 0)
      BY <3>3, <3>7
    <3>9. FillOK(bind, k)
      BY <3>1, <3>4, <3>5, <3>6, <3>8 DEF FillOK, Made
    <3> QED BY <1>1, <2>1, <3>1, <3>9
  <2>2. CASE ~StageUnit
    <3>1. bind.unit # "STAGE" /\ Becomes(t, m)
      BY <1>1, <2>2 DEF StageUnit
    <3>2. DOMAIN m.rows = {}
      BY <1>9
    <3>3. \A p \in Prims(bind, m), time \in RowTimes(bind) : ~Made(bind, m, p, time)
      <4>1. Now(bind, m) = IF bind.times = 0 THEN 0 ELSE 1
        BY <1>9 DEF Now
      <4>2. ASSUME NEW p \in Prims(bind, m), NEW time \in RowTimes(bind)
            PROVE  ~Made(bind, m, p, time)
        <5>1. p >= first /\ p \in Nat
          BY <1>9, <3>1 DEF Prims
        <5>2. time >= Now(bind, m) /\ time \in Nat
          BY <1>10, <4>1 DEF RowTimes
        <5>3. ~(time < Now(bind, m))
          BY <1>10, <4>1, <5>2
        <5>4. ~(p < m.first + m.next_prim)
          BY <1>9, <5>1
        <5> QED BY <3>1, <5>3, <5>4 DEF Made
      <4> QED BY <4>2
    <3>4. RowsOf(bind, m, m.rows)
      BY <3>2 DEF RowsOf
    <3>5. m.size > 0 /\ m.next_prim # m.size
      BY <1>9, <3>1
    <3>6. FillOK(bind, m)
      BY <3>2, <3>3, <3>4, <3>5 DEF FillOK
    <3> QED BY <1>9, <3>1, <3>6
  <2> QED BY <2>1, <2>2
<1>12. local'[t] = j /\ \A u \in Threads : u # t => local'[u] = local[u]
  BY <1>11, Others
<1>13. /\ fresh.file = f /\ fresh.first = first /\ fresh.size = size
       /\ fresh.rows = <<>>
  OBVIOUS
<1> HIDE DEF fresh, k
<1>14. Collected(j, fresh)
  BY <1>11, <1>13 DEF Collected
<1>15. ASSUME NEW u \in Threads, HasMorsel(local[u])
       PROVE  /\ local[u].batch + 1 \in DOMAIN batches /\ local[u].batch # N
              /\ batches'[local[u].batch + 1] = batches[local[u].batch + 1]
  <2>1. local[u].batch + 1 \in DOMAIN batches
    BY <1>15 DEF OInv, HoldersOK, HolderOK
  <2>2. local[u].batch \in Nat
    BY ThreadFacts DEF LocalType
  <2> QED BY <1>2, <1>7, <2>1, <2>2
<1>16. HoldersOK'
  <2>1. N + 1 \in DOMAIN batches' /\ DOMAIN batches \subseteq DOMAIN batches'
    BY <1>2, <1>7
  <2>2. /\ j.batch + 1 \in DOMAIN batches' /\ Collected(j, batches'[j.batch + 1])
        /\ \A u \in Threads : u # t /\ HasMorsel(local[u]) => local[u].batch # j.batch
    BY <1>7, <1>11, <1>14, <1>15, <2>1
  <2>3. \A u \in Threads : u # t /\ HasMorsel(local[u]) =>
            batches'[local[u].batch + 1] = batches[local[u].batch + 1]
    BY <1>15
  <2> HIDE DEF N
  <2> QED BY <1>11, <2>1, <2>2, <2>3, HoldersMove DEF OInv
<1>17. /\ Failed <=> Failed'
       /\ ~Opening'
       /\ \A u \in Threads : \A n : Holds(u, n) => Holds(u, n)'
  <2>1. ~HasMorsel(local[t])
    BY DEF HasMorsel
  <2>2. \A u \in Threads : \A n : Holds(u, n) => Holds(u, n)'
    BY <1>12, <2>1 DEF Holds, HasMorsel
  <2>3. (Failed <=> Failed') /\ ~Opening'
    BY <1>3, <1>11, <1>12 DEF Failed, Opening
  <2> QED BY <2>2, <2>3
<1>18. CollectedOK'
  <2>1. ASSUME NEW n \in 1 .. N + 1
        PROVE  /\ RowsOf(bind, batches'[n], batches'[n].rows)
               /\ Complete(bind, batches'[n]) \/ Failed' \/ \E u \in Threads : Holds(u, n)'
    <3>1. CASE n = N + 1
      <4>1. RowsOf(bind, fresh, fresh.rows)
        BY <1>13 DEF RowsOf
      <4>2. Holds(t, n)'
        BY <1>10, <1>11, <1>12, <3>1 DEF Holds, HasMorsel
      <4> QED BY <1>7, <3>1, <4>1, <4>2
    <3>2. CASE n # N + 1
      <4>1. n \in DOMAIN batches /\ batches'[n] = batches[n]
        BY <1>2, <1>7, <3>2
      <4> QED BY <1>17, <4>1 DEF OInv, CollectedOK
    <3> QED BY <3>1, <3>2
  <2> QED BY <1>7, <2>1 DEF CollectedOK
<1> QED BY <1>2, <1>7, <1>11, <1>12, <1>16, <1>17, <1>18 DEF fresh

\* A run of prims is as long as the others
LEMMA NextRun ==
    ASSUME NEW x \in Nat, NEW d \in Nat \ {0}, x % d = 0
    PROVE  (x + d) % d = 0
<1>1. x = d * (x \div d) /\ x \div d \in Nat
  OBVIOUS
<1>2. PICK k \in Nat : x = d * k
  BY <1>1
<1>3. x + d = d * (k + 1)
  BY <1>2
<1> QED BY <1>2, <1>3

LEMMA OpenedOrder ==
    ASSUME SInv, OInv, NEW t \in Threads, Opened(t)
    PROVE  OInv' /\ local[t].pc = "opening" /\ local'[t].pc # "done"
<1> DEFINE f == current_file
           N == Len(batches)
<1>1. /\ local[t].pc = "opening"
      /\ UNCHANGED <<bind, current_file, skipped>>
      /\ \/ StageUnit /\ Deal(t, f, 0, 0) /\ UNCHANGED <<stage, position>>
         \/ /\ ~StageUnit
            /\ stage' = IF PrimCount(f) = 0 THEN 0 ELSE f
            /\ position' = 0
            /\ Goto(t, "locked")
            /\ UNCHANGED batches
  BY DEF Opened
<1>2. f \in FileIndex /\ stage = 0 /\ f > 0 /\ f \in Nat
  BY <1>1, ScanAssumption DEF SInv, TypeOK, CountersOK, FileIndex
<1>3. Opening /\ HoldersOK /\ CollectedOK /\ PlacesOK /\ FilesOK
  BY <1>1 DEF Opening, OInv
<1>4. f \notin skipped /\ skipped \subseteq 1 .. f
  BY <1>3 DEF FilesOK
<1>5. \A n \in DOMAIN batches : batches[n].file \in 1 .. f \ skipped /\ batches[n].file # f
  BY <1>3 DEF PlacesOK, BatchPlaceOK
<1>6. CASE StageUnit /\ Deal(t, f, 0, 0) /\ UNCHANGED <<stage, position>>
  <2>1. bind.unit = "STAGE"
    BY <1>6 DEF StageUnit
  <2>2. /\ HoldersOK' /\ CollectedOK'
        /\ local'[t].pc = "fill" /\ (Failed <=> Failed') /\ ~Opening'
        /\ DOMAIN batches = 1 .. N /\ DOMAIN batches' = 1 .. N + 1 /\ N \in Nat
        /\ \A n \in 1 .. N : batches'[n] = batches[n]
        /\ batches'[N + 1] = [file |-> f, first |-> 0, size |-> 0, rows |-> <<>>]
    <3>1. bind' = bind /\ Deal(t, f, 0, 0) /\ f \in FileIndex /\ 0 \in Nat
          /\ (bind.unit # "STAGE" => 0 > 0)
      BY <1>1, <1>2, <1>6, <2>1
    <3>2. local[t].pc \in {"locked", "opening"}
      BY <1>1
    <3> QED BY <3>1, <3>2, DealOrder
  <2>9. batches'[N + 1].file = f
    BY <2>2
  <2> HIDE DEF N
  <2>3. ASSUME NEW n \in DOMAIN batches' PROVE BatchPlaceOK(batches[n])'
    <3>1. batches'[n].file \in 1 .. f \ skipped
      BY <1>2, <1>4, <1>5, <2>2, <2>9
    <3> QED BY <1>1, <1>2, <1>6, <2>1, <2>2, <3>1 DEF BatchPlaceOK
  <2>4. ASSUME NEW n \in DOMAIN batches', NEW k \in DOMAIN batches', n < k
        PROVE  batches'[n].file < batches'[k].file
    <3>1. n \in 1 .. N
      BY <2>2, <2>4
    <3>2. CASE k \in 1 .. N
      BY <1>3, <2>1, <2>2, <2>4, <3>1, <3>2 DEF PlacesOK
    <3>3. CASE k = N + 1
      <4>1. batches[n].file \in 1 .. f /\ batches[n].file # f
        BY <1>5, <2>2, <3>1
      <4> QED BY <1>2, <2>2, <2>9, <3>1, <3>3, <4>1
    <3> QED BY <2>2, <3>2, <3>3
  <2>5. PlacesOK'
    BY <2>3, <2>4 DEF PlacesOK
  <2>6. \A g, p : Dealt(g, p) => Dealt(g, p)'
    BY <1>1, <2>2 DEF Dealt, Prims
  <2>7. ASSUME ~Failed', NEW g \in 1 .. current_file' \ skipped', NEW p \in FilePrims(bind', g)
        PROVE  Dealt(g, p)'
    <3>1. CASE g = f
      <4>1. p = 0
        BY <1>1, <2>1, <2>7 DEF FilePrims
      <4>2. 0 \in Prims(bind', batches'[N + 1])
        BY <1>1, <2>1 DEF Prims
      <4> QED BY <2>2, <2>9, <3>1, <4>1, <4>2 DEF Dealt
    <3>2. CASE g # f
      <4>1. g \in 1 .. current_file \ skipped /\ p \in FilePrims(bind, g)
        BY <1>1, <2>7
      <4> QED BY <1>3, <2>2, <2>6, <2>7, <3>2, <4>1 DEF FilesOK
    <3> QED BY <3>1, <3>2
  <2>8. FilesOK'
    BY <1>1, <1>2, <1>4, <1>6, <2>2, <2>7 DEF FilesOK, FilePrims
  <2> QED BY <1>1, <2>2, <2>5, <2>8 DEF OInv
<1>7. CASE /\ ~StageUnit
           /\ stage' = IF PrimCount(f) = 0 THEN 0 ELSE f
           /\ position' = 0
           /\ Goto(t, "locked")
           /\ UNCHANGED batches
  <2>1. /\ HoldersOK' /\ CollectedOK' /\ local'[t].pc = "locked"
        /\ Failed <=> Failed'
        /\ Opening' <=> \E u \in Threads : u # t /\ local[u].pc = "opening"
    BY <1>1, <1>7, GotoMove
  <2>2. ~Opening' /\ bind.unit # "STAGE"
    BY <1>1, <1>7, <2>1, InsideNext DEF StageUnit
  <2>3. PlacesOK'
    BY <1>1, <1>3, <1>5, <1>7 DEF PlacesOK, BatchPlaceOK, PrimCount
  <2>4. \A g, p : Dealt(g, p) => Dealt(g, p)'
    BY <1>1, <1>7 DEF Dealt, Prims
  <2>5. ASSUME ~Failed', NEW g \in 1 .. current_file' \ skipped', g = current_file' => stage' = 0,
               NEW p \in FilePrims(bind', g)
        PROVE  Dealt(g, p)'
    <3>1. g \in 1 .. current_file \ skipped /\ p \in FilePrims(bind, g) /\ ~Failed
      BY <1>1, <2>1, <2>5
    <3>2. CASE g = f
      <4>1. PrimCount(f) = 0
        BY <1>1, <1>2, <1>7, <2>5, <3>2
      <4> QED BY <2>2, <3>1, <3>2, <4>1 DEF FilePrims
    <3>3. CASE g # f
      BY <1>3, <2>4, <3>1, <3>3 DEF FilesOK
    <3> QED BY <3>2, <3>3
  <2>6. 0 % MorselSize = 0
    BY ScanAssumption
  <2>7. stage' # 0 => /\ position' % MorselSize = 0
                      /\ \A p \in 1 .. position' : Dealt(stage, p)'
    BY <1>7, <2>6
  <2>8. FilesOK'
    BY <1>1, <1>4, <2>2, <2>5, <2>7 DEF FilesOK, FilePrims
  <2> QED BY <1>1, <2>1, <2>3, <2>8 DEF OInv
<1> QED BY <1>1, <1>6, <1>7

LEMMA TakeMorselOrder ==
    ASSUME SInv, OInv, NEW t \in Threads, TakeMorsel(t)
    PROVE  OInv' /\ local[t].pc = "locked" /\ local'[t].pc # "done"
<1> DEFINE f == current_file
           N == Len(batches)
           size == MorselPrims
<1>1. /\ local[t].pc = "locked" /\ stage # 0 /\ position < PrimCount(stage)
      /\ position' = position + size
      /\ Deal(t, f, position + 1, size)
      /\ UNCHANGED <<bind, current_file, stage, skipped>>
  BY DEF TakeMorsel
<1>2. /\ stage = f /\ f \in FileIndex /\ f \in Nat /\ f > 0 /\ bind.unit # "STAGE"
      /\ position \in Nat
  BY <1>1, ScanAssumption DEF SInv, TypeOK, CountersOK, FileIndex
<1>3. PrimCount(f) \in Nat
  BY <1>2, PrimCountType
<1>4. /\ size \in 1 .. MorselSize /\ position + size <= PrimCount(f)
      /\ size = MorselSize \/ position + size = PrimCount(f)
  BY <1>1, <1>2, <1>3, ScanAssumption DEF MorselPrims, Least
<1>5. HoldersOK /\ CollectedOK /\ PlacesOK /\ FilesOK
  BY DEF OInv
<1>6. /\ f \notin skipped /\ skipped \subseteq 1 .. f
      /\ position % MorselSize = 0
      /\ \A p \in 1 .. position : Dealt(f, p)
  <2>1. position # PrimCount(f)
    BY <1>1, <1>2, <1>3
  <2> QED BY <1>1, <1>2, <1>5, <2>1 DEF FilesOK
<1>7. ~Opening
  BY <1>1, InsideNext DEF Opening
<1>8. MorselSize \in Nat /\ MorselSize > 0 /\ size \in Nat
  BY <1>4, ScanAssumption
<1> HIDE DEF size
<1>9. /\ HoldersOK' /\ CollectedOK'
      /\ local'[t].pc = "fill" /\ (Failed <=> Failed') /\ ~Opening'
      /\ DOMAIN batches = 1 .. N /\ DOMAIN batches' = 1 .. N + 1 /\ N \in Nat
      /\ \A n \in 1 .. N : batches'[n] = batches[n]
      /\ batches'[N + 1] = [file |-> f, first |-> position + 1, size |-> size, rows |-> <<>>]
  <2>1. position + 1 \in Nat /\ (bind.unit # "STAGE" => size > 0)
    BY <1>2, <1>4
  <2>2. bind' = bind /\ Deal(t, f, position + 1, size) /\ f \in FileIndex /\ size \in Nat
        /\ local[t].pc \in {"locked", "opening"}
    BY <1>1, <1>2, <1>8
  <2> QED BY <2>1, <2>2, DealOrder
<1>9a. batches'[N + 1].file = f /\ batches'[N + 1].first = position + 1
       /\ batches'[N + 1].size = size
  BY <1>9
<1> HIDE DEF N
<1>10. ASSUME NEW n \in 1 .. N
       PROVE  /\ batches[n].file \in 1 .. f \ skipped
              /\ batches[n].file = f => batches[n].first + batches[n].size <= position + 1
              /\ batches[n].first >= 1 /\ batches[n].size \in 1 .. MorselSize
              /\ batches[n].first + batches[n].size <= PrimCount(batches[n].file) + 1
              /\ (batches[n].first - 1) % MorselSize = 0
              /\ batches[n].first \in Nat
  <2>1. BatchPlaceOK(batches[n])
    BY <1>5, <1>9 DEF PlacesOK
  <2>2. batches[n] \in BatchType
    BY <1>9, ThreadFacts
  <2>3. batches[n].first \in Nat
    BY <2>2 DEF BatchType
  <2> QED BY <1>1, <1>2, <2>1, <2>3 DEF BatchPlaceOK
<1>11. ASSUME NEW n \in DOMAIN batches' PROVE BatchPlaceOK(batches[n])'
  <2>1. CASE n \in 1 .. N
    <3> DEFINE b == batches[n]
    <3>1. batches'[n] = b
      BY <1>9, <2>1
    <3>2. /\ b.file \in 1 .. f \ skipped
          /\ b.file = f => b.first + b.size <= position + 1
          /\ b.first >= 1 /\ b.size \in 1 .. MorselSize
          /\ b.first + b.size <= PrimCount(b.file) + 1
          /\ (b.first - 1) % MorselSize = 0
          /\ b.first \in Nat
      BY <1>10, <2>1
    <3> HIDE DEF b
    <3>3. b.file = f => b.first + b.size <= position' + 1
      BY <1>1, <1>2, <1>8, <3>2
    <3> DEFINE c == batches'[n]
    <3>4. c = b
      BY <3>1
    <3> HIDE DEF c
    <3>5. /\ c.file \in 1 .. current_file' \ skipped'
          /\ c.file = current_file' => ~Opening' /\ (stage' = 0 \/ c.first + c.size <= position' + 1)
          /\ c.first >= 1 /\ c.first + c.size <= PrimCount(c.file) + 1
          /\ (c.first - 1) % MorselSize = 0 /\ c.size \in 1 .. MorselSize
      BY <1>1, <1>9, <3>2, <3>3, <3>4
    <3> QED BY <3>5 DEF BatchPlaceOK, PrimCount, c
  <2>2. CASE n = N + 1
    <3> DEFINE c == batches'[n]
    <3>1. c.file = f /\ c.first = position + 1 /\ c.size = size
      BY <1>9a, <2>2
    <3> HIDE DEF c
    <3>2. c.file \in 1 .. current_file' \ skipped'
      BY <1>1, <1>2, <1>6, <3>1
    <3>3. c.first + c.size <= position' + 1 /\ c.first >= 1
          /\ c.first + c.size <= PrimCount(c.file) + 1
      BY <1>1, <1>2, <1>3, <1>4, <1>8, <3>1
    <3>4. (c.first - 1) % MorselSize = 0 /\ c.size \in 1 .. MorselSize
      <4>1. c.first - 1 = position
        BY <1>2, <3>1
      <4> QED BY <1>4, <1>6, <3>1, <4>1
    <3> QED BY <1>9, <3>2, <3>3, <3>4 DEF BatchPlaceOK, PrimCount, c
  <2> QED BY <1>9, <2>1, <2>2
<1>12. ASSUME NEW n \in DOMAIN batches', NEW k \in DOMAIN batches', n < k
       PROVE  \/ batches'[n].file < batches'[k].file
              \/ /\ batches'[n].file = batches'[k].file
                 /\ batches'[n].first < batches'[k].first
  <2>1. n \in 1 .. N
    BY <1>9, <1>12
  <2>2. CASE k \in 1 .. N
    <3>1. batches'[n] = batches[n] /\ batches'[k] = batches[k]
      BY <1>9, <2>1, <2>2
    <3> QED BY <1>5, <1>9, <1>12, <2>1, <2>2, <3>1 DEF PlacesOK
  <2>3. CASE k = N + 1
    <3>1. batches'[n] = batches[n]
      BY <1>9, <2>1
    <3>2. batches[n].file \in 1 .. f
          /\ (batches[n].file = f => batches[n].first + batches[n].size <= position + 1)
          /\ batches[n].first \in Nat /\ batches[n].size \in 1 .. MorselSize
      BY <1>10, <2>1
    <3>3. batches[n].file < f \/ (batches[n].file = f /\ batches[n].first < position + 1)
      BY <1>2, <1>8, <3>2
    <3> QED BY <1>9a, <2>3, <3>1, <3>3
  <2> QED BY <1>9, <2>2, <2>3
<1>13. PlacesOK'
  BY <1>1, <1>2, <1>11, <1>12 DEF PlacesOK
<1>14. \A g, p : Dealt(g, p) => Dealt(g, p)'
  BY <1>1, <1>9 DEF Dealt, Prims
<1>15. ASSUME NEW p \in 1 .. position' PROVE Dealt(stage, p)'
  <2>1. CASE p \in 1 .. position
    <3>1. Dealt(f, p)
      BY <1>6, <2>1
    <3> QED BY <1>1, <1>2, <1>9, <3>1 DEF Dealt, Prims
  <2>2. CASE p \notin 1 .. position
    <3>1. p \in position + 1 .. position + size
      BY <1>1, <1>2, <1>8, <2>2
    <3>2. p \in position + 1 .. (position + 1) + size - 1
      BY <1>2, <1>8, <3>1
    <3>3. p \in Prims(bind', batches'[N + 1])
      BY <1>1, <1>2, <1>9a, <3>2 DEF Prims
    <3> QED BY <1>1, <1>2, <1>9, <1>9a, <3>3 DEF Dealt
  <2> QED BY <2>1, <2>2
<1>16. position' % MorselSize = 0 \/ position' = PrimCount(stage)'
  <2>1. CASE size = MorselSize
    <3>1. position' = position + MorselSize
      BY <1>1, <2>1
    <3>2. (position + MorselSize) % MorselSize = 0
      BY <1>2, <1>6, NextRun, ScanAssumption
    <3> QED BY <3>1, <3>2
  <2>2. CASE position + size = PrimCount(f)
    BY <1>1, <1>2, <2>2 DEF PrimCount
  <2> QED BY <1>4, <2>1, <2>2
<1>17. ASSUME ~Failed', NEW g \in 1 .. current_file' \ skipped', g # current_file',
              NEW p \in FilePrims(bind', g)
       PROVE  Dealt(g, p)'
  <2>1. g \in 1 .. current_file \ skipped /\ p \in FilePrims(bind, g) /\ ~Failed /\ g # f
    BY <1>1, <1>9, <1>17
  <2>2. Dealt(g, p)
    BY <1>5, <2>1 DEF FilesOK
  <2> QED BY <1>14, <2>2
<1>18. FilesOK'
  BY <1>1, <1>6, <1>15, <1>16, <1>17 DEF FilesOK, FilePrims
<1> QED BY <1>1, <1>9, <1>13, <1>18 DEF OInv

LEMMA OInvStep == SInv /\ OInv /\ [Next]_vars => OInv'
<1> SUFFICES ASSUME SInv, OInv, [Next]_vars PROVE OInv'
  OBVIOUS
<1>1. ASSUME UNCHANGED <<bind, global, local, skipped, batches>> PROVE OInv'
  <2>1. (Opening <=> Opening') /\ (Failed <=> Failed')
    BY <1>1 DEF Opening, Failed
  <2>2. HoldersOK' /\ CollectedOK'
    BY <1>1, <2>1 DEF OInv, HoldersOK, HolderOK, CollectedOK, Failed, Holds, HasMorsel
  <2>3. PlacesOK' /\ FilesOK'
    BY <1>1, <2>1, PlacesKept DEF OInv
  <2> QED BY <2>2, <2>3 DEF OInv
<1>2. ASSUME NEW t \in Threads, Step(t) PROVE OInv'
  BY <1>2, AddPrimOrder, EmitOrder, ExhaustedOrder, AcquireOrder, NoMoreFilesOrder,
     StartFileOrder, OpenedOrder, OpenFailsOrder, TakeMorselOrder, EndOfStageOrder DEF Step
<1>3. ASSUME NEW f \in FileIndex, RefusedElsewhere(f) PROVE OInv'
  BY <1>1, <1>3 DEF RefusedElsewhere
<1>4. ASSUME UNCHANGED vars PROVE OInv'
  BY <1>1, <1>4 DEF vars
<1> QED BY <1>2, <1>3, <1>4 DEF Next, Terminated

\* The invariant of the order holds throughout every scan.
THEOREM OrderInvariance == Spec => [](SInv /\ OInv)
<1>1. Init => SInv /\ OInv
  BY SInvInit, OInit
<1>2. SInv /\ OInv /\ [Next]_vars => (SInv /\ OInv)'
  BY SInvStep, OInvStep
<1> QED BY <1>1, <1>2, PTL DEF Spec

-----------------------------------------------------------------------------
(* Reading the answer *)

\* The prims of a morsel are in one run, and later morsels of a file in later runs
LEMMA RunOf ==
    ASSUME NEW d \in Nat \ {0}, NEW first \in Nat, first >= 1, (first - 1) % d = 0,
           NEW size \in 1 .. d, NEW p \in first .. first + size - 1
    PROVE  (p - 1) \div d = (first - 1) \div d
<1> DEFINE x == first - 1
           y == p - 1
           k == x \div d
<1>1. x \in Nat /\ y \in Nat /\ x <= y /\ y < x + d
  OBVIOUS
<1>2. x % d = 0
  OBVIOUS
<1> HIDE DEF x, y
<1>3. k \in Nat /\ x = d * k
  BY <1>1, <1>2
<1> HIDE DEF k
<1>4. k * d <= y /\ y < k * d + d
  BY <1>1, <1>3
<1>5. y \div d = k
  BY <1>1, <1>3, <1>4
<1> QED BY <1>5 DEF x, y, k

LEMMA RunLess ==
    ASSUME NEW d \in Nat \ {0}, NEW x \in Nat, NEW y \in Nat, x % d = 0, y % d = 0, x < y
    PROVE  x \div d < y \div d
<1>1. /\ x = d * (x \div d) /\ x \div d \in Nat
      /\ y = d * (y \div d) /\ y \div d \in Nat
  OBVIOUS
<1>2. PICK k \in Nat, m \in Nat : x \div d = k /\ y \div d = m
  BY <1>1
<1>3. x = d * k /\ y = d * m
  BY <1>1, <1>2
<1>4. CASE m <= k
  <2>1. d * m <= d * k
    BY <1>4
  <2> QED BY <1>3, <2>1
<1>5. CASE k < m
  BY <1>2, <1>5
<1> QED BY <1>4, <1>5

\* The rows of the answer are those of the batches
LEMMA AnswerShape ==
    ASSUME SInv
    PROVE  /\ DOMAIN Answer = DOMAIN batches
           /\ \A b \in DOMAIN batches :
                /\ DOMAIN Answer[b] = DOMAIN batches[b].rows
                /\ DOMAIN batches[b].rows = 1 .. Len(batches[b].rows)
                /\ Len(batches[b].rows) \in Nat
                /\ Len(Answer[b]) = Len(batches[b].rows)
                /\ \A i \in DOMAIN batches[b].rows :
                     Answer[b][i] = [file |-> batches[b].rows[i].file,
                                     prim |-> batches[b].rows[i].prim,
                                     row |-> batches[b].rows[i].row,
                                     time |-> batches[b].rows[i].time]
<1>1. DOMAIN Answer = DOMAIN batches
  BY DEF Answer
<1>2. ASSUME NEW b \in DOMAIN batches
      PROVE  /\ DOMAIN Answer[b] = DOMAIN batches[b].rows
             /\ DOMAIN batches[b].rows = 1 .. Len(batches[b].rows)
             /\ Len(batches[b].rows) \in Nat
             /\ Len(Answer[b]) = Len(batches[b].rows)
             /\ \A i \in DOMAIN batches[b].rows :
                  Answer[b][i] = [file |-> batches[b].rows[i].file,
                                  prim |-> batches[b].rows[i].prim,
                                  row |-> batches[b].rows[i].row,
                                  time |-> batches[b].rows[i].time]
  <2> DEFINE rows == batches[b].rows
             a == Answer[b]
  <2>1. batches[b] \in BatchType
    BY DEF SInv, TypeOK
  <2>2. rows \in Seq(OutRow) /\ DOMAIN rows = 1 .. Len(rows) /\ Len(rows) \in Nat
    BY <2>1 DEF BatchType
  <2>3. a = [i \in DOMAIN rows |-> [file |-> rows[i].file, prim |-> rows[i].prim,
                                    row |-> rows[i].row, time |-> rows[i].at]]
    BY DEF Answer
  <2>4. \A i \in DOMAIN rows : rows[i].at = rows[i].time
    BY DEF SInv, BatchesOK, BatchOK
  <2> HIDE DEF rows, a
  <2>5. DOMAIN a = DOMAIN rows
    BY <2>3
  <2>6. Len(a) = Len(rows)
    BY <2>2, <2>3
  <2>7. \A i \in DOMAIN rows : a[i] = [file |-> rows[i].file, prim |-> rows[i].prim,
                                       row |-> rows[i].row, time |-> rows[i].time]
    BY <2>3, <2>4
  <2> QED BY <2>2, <2>5, <2>6, <2>7 DEF rows, a
<1> QED BY <1>1, <1>2

LEMMA AnswerInOrder == SInv /\ OInv => Order!InOrder(Answer)
<1> SUFFICES ASSUME SInv, OInv,
                    NEW b \in DOMAIN batches, NEW c \in DOMAIN batches,
                    NEW i \in DOMAIN batches[b].rows, NEW j \in DOMAIN batches[c].rows,
                    b < c \/ (b = c /\ i < j)
             PROVE  Order!Before(Answer[b][i], Answer[c][j])
  BY AnswerShape DEF Order!InOrder
<1> DEFINE m == batches[b]
           n == batches[c]
           r == Answer[b][i]
           q == Answer[c][j]
<1> SUFFICES Order!Before(r, q)
  OBVIOUS
<1>1. /\ r = [file |-> m.rows[i].file, prim |-> m.rows[i].prim, row |-> m.rows[i].row,
              time |-> m.rows[i].time]
      /\ q = [file |-> n.rows[j].file, prim |-> n.rows[j].prim, row |-> n.rows[j].row,
              time |-> n.rows[j].time]
  BY AnswerShape
<1>2. RowsOf(bind, m, m.rows) /\ RowsOf(bind, n, n.rows)
  BY DEF OInv, CollectedOK
<1>3. BatchPlaceOK(m) /\ BatchPlaceOK(n)
  BY DEF OInv, PlacesOK
<1>4. b < c => \/ m.file < n.file
               \/ bind.unit # "STAGE" /\ m.file = n.file /\ m.first < n.first
  BY DEF OInv, PlacesOK
<1>5. m.first \in Nat /\ n.first \in Nat /\ m.size \in Nat /\ n.size \in Nat
  <2>1. m \in BatchType /\ n \in BatchType
    BY DEF SInv, TypeOK
  <2> HIDE DEF m, n
  <2> QED BY <2>1 DEF BatchType
<1>6. b = c /\ i < j => m = n /\ Precedes(m.rows[i], n.rows[j])
  BY <1>2 DEF RowsOf
<1> HIDE DEF m, n, r, q
<1>7. /\ r.file = m.file /\ q.file = n.file
      /\ r.prim \in Prims(bind, m) /\ q.prim \in Prims(bind, n)
      /\ r.prim = m.rows[i].prim /\ q.prim = n.rows[j].prim
      /\ r.row = m.rows[i].row /\ q.row = n.rows[j].row
      /\ r.time = m.rows[i].time /\ q.time = n.rows[j].time
  <2>1. i \in DOMAIN m.rows /\ j \in DOMAIN n.rows
    BY DEF m, n
  <2> QED BY <1>1, <1>2, <2>1 DEF RowsOf
<1>8. CASE bind.unit = "STAGE"
  <2>1. r.prim = 0 /\ q.prim = 0
    BY <1>7, <1>8 DEF Prims
  <2>2. Order!Run(r) = Order!Run(q)
    BY <2>1 DEF Order!Run
  <2>3. CASE b < c
    BY <1>4, <1>7, <1>8, <2>3 DEF Order!Before
  <2>4. CASE b = c /\ i < j
    BY <1>6, <1>7, <2>2, <2>4 DEF Order!Before, Precedes
  <2> QED BY <2>3, <2>4
<1>9. CASE bind.unit # "STAGE"
  <2>1. /\ m.first >= 1 /\ (m.first - 1) % MorselSize = 0 /\ m.size \in 1 .. MorselSize
        /\ n.first >= 1 /\ (n.first - 1) % MorselSize = 0 /\ n.size \in 1 .. MorselSize
    BY <1>3, <1>9 DEF BatchPlaceOK
  <2>2. /\ r.prim \in m.first .. m.first + m.size - 1
        /\ q.prim \in n.first .. n.first + n.size - 1
    BY <1>7, <1>9 DEF Prims
  <2>3. MorselSize \in Nat \ {0}
    BY ScanAssumption
  <2>4. Order!Run(r) = (m.first - 1) \div MorselSize
    BY <1>5, <2>1, <2>2, <2>3, RunOf DEF Order!Run
  <2>5. Order!Run(q) = (n.first - 1) \div MorselSize
    BY <1>5, <2>1, <2>2, <2>3, RunOf DEF Order!Run
  <2>6. CASE m.file < n.file
    BY <1>7, <2>6 DEF Order!Before
  <2>7. CASE m.file = n.file /\ m.first < n.first
    <3>1. m.first - 1 \in Nat /\ n.first - 1 \in Nat /\ m.first - 1 < n.first - 1
      BY <1>5, <2>1, <2>7
    <3>2. Order!Run(r) < Order!Run(q)
      BY <2>1, <2>3, <2>4, <2>5, <3>1, RunLess
    <3> QED BY <1>7, <2>7, <3>2 DEF Order!Before
  <2>8. CASE b = c /\ i < j
    <3>1. Order!Run(r) = Order!Run(q)
      BY <1>6, <2>4, <2>5, <2>8
    <3> QED BY <1>6, <1>7, <2>8, <3>1 DEF Order!Before, Precedes
  <2> QED BY <1>4, <2>6, <2>7, <2>8
<1> QED BY <1>8, <1>9

\* A row is one of its file
LEMMA RowsRead ==
    ASSUME SInv, OInv, NEW b \in DOMAIN batches, NEW i \in DOMAIN batches[b].rows
    PROVE  /\ Answer[b][i].file = batches[b].file
           /\ batches[b].file \in FileIndex \ skipped /\ batches[b].file \in 1 .. current_file
           /\ Answer[b][i] \in Order!RowsOfFile(batches[b].file)
<1> DEFINE m == batches[b]
           r == Answer[b][i]
           f == m.file
           x == m.rows[i]
<1>1. r = [file |-> x.file, prim |-> x.prim, row |-> x.row, time |-> x.time]
  BY AnswerShape
<1>2. /\ x.file = f /\ x.prim \in Prims(bind, m)
      /\ x.row \in 1 .. RowCount(f, x.prim)
      /\ x.time \in RowTimes(bind)
  BY DEF OInv, CollectedOK, RowsOf
<1>3. BatchPlaceOK(m)
  BY DEF OInv, PlacesOK
<1>4. f \in FileIndex \ skipped /\ f \in 1 .. current_file
  BY <1>3, ScanAssumption DEF SInv, TypeOK, BatchPlaceOK, FileIndex
<1>5. bind \in BindType /\ m \in BatchType
  BY DEF SInv, TypeOK
<1> HIDE DEF m
<1>6. m.first \in Nat /\ m.size \in Nat
  BY <1>5 DEF BatchType
<1> HIDE DEF r, x
<1>7. r \in Order!RowsOfFile(f)
  <2>1. CASE bind.unit = "STAGE"
    <3>1. x.prim = 0 /\ x.time = 0 /\ x.row \in 1 .. StageRows[f]
      BY <1>2, <1>5, <2>1 DEF Prims, RowTimes, BindType, RowCount
    <3>2. r = Order!Row(f, 0, x.row, 0)
      BY <1>1, <1>2, <3>1 DEF Order!Row
    <3> QED BY <2>1, <3>1, <3>2 DEF Order!RowsOfFile
  <2>2. CASE bind.unit # "STAGE"
    <3>1. x.prim \in m.first .. m.first + m.size - 1
      BY <1>2, <2>2 DEF Prims
    <3>2. m.first >= 1 /\ m.first + m.size <= PrimCount(f) + 1
      BY <1>3, <2>2 DEF BatchPlaceOK
    <3>3. PrimCount(f) \in Nat
      BY <1>4, PrimCountType
    <3>4. x.prim \in 1 .. PrimCount(f)
      BY <1>6, <3>1, <3>2, <3>3
    <3>5. Rows[f] \in Seq(Nat)
      BY <1>4, ScanAssumption
    <3>6. x.prim \in DOMAIN Rows[f] /\ x.row \in 1 .. Rows[f][x.prim]
      BY <1>2, <3>4, <3>5 DEF PrimCount, RowCount
    <3>7. x.time \in Order!Times
      BY <1>2 DEF RowTimes, Order!Times
    <3>8. r = Order!Row(f, x.prim, x.row, x.time)
      BY <1>1, <1>2 DEF Order!Row
    <3>9. r \in {Order!Row(f, x.prim, n, t) : n \in 1 .. Rows[f][x.prim], t \in Order!Times}
      BY <3>6, <3>7, <3>8
    <3> QED BY <2>2, <3>6, <3>9 DEF Order!RowsOfFile
  <2> QED BY <2>1, <2>2
<1> QED BY <1>1, <1>2, <1>4, <1>7 DEF m, r

\* A row of a file, in the words of UsdScan
LEMMA RowOfFile ==
    ASSUME SInv, NEW f \in FileIndex, NEW r \in Order!RowsOfFile(f)
    PROVE  \E p \in FilePrims(bind, f) : \E n \in 1 .. RowCount(f, p), t \in RowTimes(bind) :
             r = [file |-> f, prim |-> p, row |-> n, time |-> t]
<1>1. bind \in BindType
  BY DEF SInv, TypeOK
<1>2. CASE bind.unit = "STAGE"
  <2>1. PICK n \in 1 .. StageRows[f] : r = Order!Row(f, 0, n, 0)
    BY <1>2 DEF Order!RowsOfFile
  <2>2. 0 \in FilePrims(bind, f) /\ n \in 1 .. RowCount(f, 0) /\ 0 \in RowTimes(bind)
    BY <1>1, <1>2 DEF FilePrims, RowCount, RowTimes, BindType
  <2>3. r = [file |-> f, prim |-> 0, row |-> n, time |-> 0]
    BY <2>1 DEF Order!Row
  <2> QED BY <2>2, <2>3
<1>3. CASE bind.unit # "STAGE"
  <2>1. PICK p \in DOMAIN Rows[f] :
          r \in {Order!Row(f, p, n, t) : n \in 1 .. Rows[f][p], t \in Order!Times}
    BY <1>3 DEF Order!RowsOfFile
  <2>2. PICK n \in 1 .. Rows[f][p], t \in Order!Times : r = Order!Row(f, p, n, t)
    BY <2>1
  <2>3. Rows[f] \in Seq(Nat)
    BY ScanAssumption
  <2>4. p \in FilePrims(bind, f) /\ n \in 1 .. RowCount(f, p)
    BY <1>3, <2>3 DEF FilePrims, PrimCount, RowCount
  <2>5. t \in RowTimes(bind)
    BY DEF RowTimes, Order!Times
  <2>6. r = [file |-> f, prim |-> p, row |-> n, time |-> t]
    BY <2>2 DEF Order!Row
  <2> QED BY <2>4, <2>5, <2>6
<1> QED BY <1>2, <1>3

\* Once no thread has a morsel and no file is left, nothing is missing
LEMMA AllDelivered ==
    ASSUME SInv, OInv, ~Failed, ~Opening, stage = 0, current_file = FileCount,
           \A t \in Threads : ~HasMorsel(local[t])
    PROVE  Order!Delivered = UNION {Order!RowsOfFile(f) : f \in FileIndex \ skipped}
<1>1. ASSUME NEW r \in Order!Delivered
      PROVE  r \in UNION {Order!RowsOfFile(f) : f \in FileIndex \ skipped}
  <2>1. PICK b \in DOMAIN Answer : r \in {Answer[b][i] : i \in DOMAIN Answer[b]}
    BY DEF Order!Delivered
  <2>2. PICK i \in DOMAIN Answer[b] : r = Answer[b][i]
    BY <2>1
  <2>3. b \in DOMAIN batches /\ i \in DOMAIN batches[b].rows
    BY AnswerShape
  <2> QED BY <2>2, <2>3, RowsRead
<1>2. ASSUME NEW f \in FileIndex \ skipped, NEW r \in Order!RowsOfFile(f)
      PROVE  r \in Order!Delivered
  <2>0. PICK p \in FilePrims(bind, f) : \E n \in 1 .. RowCount(f, p), t \in RowTimes(bind) :
          r = [file |-> f, prim |-> p, row |-> n, time |-> t]
    BY RowOfFile
  <2>1. PICK n \in 1 .. RowCount(f, p), t \in RowTimes(bind) :
          r = [file |-> f, prim |-> p, row |-> n, time |-> t]
    BY <2>0
  <2>2. f \in 1 .. current_file \ skipped
    BY DEF FileIndex
  <2>3. Dealt(f, p)
    BY <2>1, <2>2 DEF OInv, FilesOK
  <2>4. PICK b \in DOMAIN batches : batches[b].file = f /\ p \in Prims(bind, batches[b])
    BY <2>3 DEF Dealt
  <2>5. Complete(bind, batches[b])
    BY DEF OInv, CollectedOK, Holds
  <2>6. PICK i \in DOMAIN batches[b].rows : IsRow(batches[b].rows[i], p, n, t)
    BY <2>4, <2>5 DEF Complete
  <2>7. batches[b].rows[i].file = f
    BY <2>4 DEF OInv, CollectedOK, RowsOf
  <2>8. r = Answer[b][i] /\ b \in DOMAIN Answer /\ i \in DOMAIN Answer[b]
    BY <2>1, <2>6, <2>7, AnswerShape DEF IsRow
  <2> QED BY <2>8 DEF Order!Delivered
<1>3. \A r : r \in UNION {Order!RowsOfFile(f) : f \in FileIndex \ skipped}
               => \E f \in FileIndex \ skipped : r \in Order!RowsOfFile(f)
  OBVIOUS
<1> QED BY <1>1, <1>2, <1>3

-----------------------------------------------------------------------------
(* Each step is a step of UsdScanOrder, or changes nothing in the answer *)

LEMMA OrderInit == Init => Order!Init
<1> SUFFICES ASSUME Init PROVE Order!Init
  OBVIOUS
<1>1. bind.unit \in {"PRIM", "STAGE"}
  BY DEF Init, BindType
<1>2. skipped = {} /\ batches = <<>>
  BY DEF Init
<1>3. Answer = <<>>
  BY <1>2 DEF Answer
<1>4. ~(\A t \in Threads : local[t].pc = "done")
  <2>1. PICK t \in Threads : TRUE
    BY ScanAssumption
  <2>2. local[t].pc = "fill"
    BY DEF Init, NoMorsel
  <2> QED BY <2>2
<1> QED BY <1>1, <1>2, <1>3, <1>4 DEF Order!Init

\* A step after which the answer is the same, and no more or less at its end
LEMMA Stutter ==
    ASSUME UNCHANGED <<bind, skipped, batches>>,
           (\A t \in Threads : local'[t].pc = "done") <=> \A t \in Threads : local[t].pc = "done"
    PROVE  UNCHANGED Order!vars
<1>1. Answer' = Answer
  BY DEF Answer
<1>2. ((\A t \in Threads : local[t].pc = "done")' = \A t \in Threads : local[t].pc = "done")
  OBVIOUS
<1> QED BY <1>1, <1>2 DEF Order!vars

\* Deal starts a batch without rows
LEMMA DealSimulation ==
    ASSUME SInv, SInv', NEW t \in Threads, local[t].pc # "done", local'[t].pc # "done",
           UNCHANGED <<bind, skipped>>, NEW N \in Nat,
           DOMAIN batches = 1 .. N, DOMAIN batches' = 1 .. N + 1,
           \A n \in 1 .. N : batches'[n] = batches[n],
           batches'[N + 1].rows = <<>>
    PROVE  Order!NewBatch
<1> DEFINE a == Answer
           b == Answer'
<1>1. /\ DOMAIN a = 1 .. N /\ DOMAIN b = 1 .. N + 1
      /\ a = [n \in 1 .. N |-> a[n]] /\ b = [n \in 1 .. N + 1 |-> b[n]]
  BY DEF Answer
<1>2. ASSUME NEW n \in 1 .. N PROVE b[n] = a[n]
  <2> DEFINE read(m) == [i \in DOMAIN m.rows |->
                            LET r == m.rows[i]
                            IN  [file |-> r.file, prim |-> r.prim, row |-> r.row, time |-> r.at]]
  <2>1. n \in DOMAIN batches /\ n \in DOMAIN batches'
    OBVIOUS
  <2>2. a[n] = read(batches[n]) /\ b[n] = read(batches'[n])
    BY <2>1 DEF Answer
  <2>3. batches'[n] = batches[n]
    OBVIOUS
  <2> HIDE DEF read, a, b
  <2> QED BY <2>2, <2>3
<1>3. b[N + 1] = <<>>
  <2>1. N + 1 \in DOMAIN batches' /\ DOMAIN batches'[N + 1].rows = {}
    OBVIOUS
  <2>2. b[N + 1] = [i \in {} |-> i]
    BY <2>1 DEF Answer
  <2> QED BY <2>2
<1> HIDE DEF a, b
<1>4. b = Append(a, <<>>)
  <2> DEFINE S == {a[n] : n \in 1 .. N} \cup {<<>>}
  <2>1. a \in [1 .. N -> S]
    BY <1>1
  <2>2. <<>> \in S
    OBVIOUS
  <2> HIDE DEF S
  <2>3. a \in Seq(S) /\ Len(a) = N
    BY <2>1
  <2>4. /\ Append(a, <<>>) \in Seq(S) /\ Len(Append(a, <<>>)) = N + 1
        /\ \A n \in 1 .. N : Append(a, <<>>)[n] = a[n]
        /\ Append(a, <<>>)[N + 1] = <<>>
    BY <2>2, <2>3
  <2>5. Append(a, <<>>) = [n \in 1 .. N + 1 |-> Append(a, <<>>)[n]]
    <3> DEFINE c == Append(a, <<>>)
    <3>1. c \in Seq(S) /\ Len(c) = N + 1
      BY <2>4
    <3> HIDE DEF c
    <3>2. c = [n \in 1 .. N + 1 |-> c[n]]
      BY <3>1
    <3> QED BY <3>2 DEF c
  <2>6. ASSUME NEW n \in 1 .. N + 1 PROVE Append(a, <<>>)[n] = b[n]
    BY <1>2, <1>3, <2>4
  <2> QED BY <1>1, <2>5, <2>6
<1>5. /\ ~(\A u \in Threads : local[u].pc = "done")
      /\ ~(\A u \in Threads : local'[u].pc = "done")
  OBVIOUS
<1>6. (\A u \in Threads : local[u].pc = "done")' = \A u \in Threads : local[u].pc = "done"
  BY <1>5
<1> QED BY <1>4, <1>5, <1>6 DEF Order!NewBatch, a, b

\* What AnswerShape and RowsRead say, for the state a step leads to
AnswerOK ==
    /\ DOMAIN Answer = DOMAIN batches
    /\ \A b \in DOMAIN batches :
         /\ DOMAIN Answer[b] = DOMAIN batches[b].rows
         /\ Len(Answer[b]) = Len(batches[b].rows)
         /\ \A i \in DOMAIN batches[b].rows :
              /\ Answer[b][i] = [file |-> batches[b].rows[i].file,
                                 prim |-> batches[b].rows[i].prim,
                                 row |-> batches[b].rows[i].row,
                                 time |-> batches[b].rows[i].time]
              /\ \E f \in FileIndex \ skipped : Answer[b][i] \in Order!RowsOfFile(f)

LEMMA AnswerNext == (SInv /\ OInv)' => AnswerOK' /\ Order!InOrder(Answer)'
<1>1. SInv /\ OInv => AnswerOK
  BY AnswerShape, RowsRead DEF AnswerOK
<1>2. SInv /\ OInv => Order!InOrder(Answer)
  BY AnswerInOrder
<1> QED BY <1>1, <1>2, PTL

\* Emit delivers more rows of one batch
LEMMA EmitSimulation ==
    ASSUME SInv, OInv, SInv', OInv', NEW t \in Threads, local[t].pc = "fill",
           UNCHANGED <<bind, skipped>>, NEW count \in Nat \ {0}, Emits(t, count)
    PROVE  \E b \in DOMAIN Answer : Order!Deliver(b)
<1> DEFINE l == local[t]
<1>1. PICK n : n = l.batch + 1
  OBVIOUS
<1> DEFINE old == batches[n].rows
           new == batches'[n].rows
<1>2. /\ n \in DOMAIN batches /\ DOMAIN batches' = DOMAIN batches
      /\ \A k \in DOMAIN batches : k # n => batches'[k] = batches[k]
      /\ Len(new) = Len(old) + count /\ DOMAIN new = 1 .. Len(old) + count
      /\ \A i \in 1 .. Len(old) : new[i] = old[i]
      /\ Becomes(t, [l EXCEPT !.row_offset = @ + count])
  BY <1>1 DEF Emits
<1>3. AnswerOK' /\ Order!InOrder(Answer)'
  BY AnswerNext
<1>4. /\ DOMAIN Answer = DOMAIN batches
      /\ DOMAIN Answer[n] = DOMAIN old /\ DOMAIN old = 1 .. Len(old) /\ Len(old) \in Nat
      /\ Len(Answer[n]) = Len(old)
      /\ \A i \in DOMAIN old : Answer[n][i] = [file |-> old[i].file, prim |-> old[i].prim,
                                               row |-> old[i].row, time |-> old[i].time]
  BY <1>2, AnswerShape
<1>5. /\ DOMAIN Answer' = DOMAIN batches'
      /\ DOMAIN Answer'[n] = DOMAIN new /\ Len(Answer'[n]) = Len(new)
      /\ \A i \in DOMAIN new :
           Answer'[n][i] = [file |-> new[i].file, prim |-> new[i].prim,
                            row |-> new[i].row, time |-> new[i].time]
  BY <1>2, <1>3 DEF AnswerOK
<1>6. ASSUME NEW i \in DOMAIN new
      PROVE  \E f \in FileIndex \ skipped' : Answer'[n][i] \in Order!RowsOfFile(f)'
  BY <1>2, <1>3 DEF AnswerOK
<1>7. \A f : Order!RowsOfFile(f)' = Order!RowsOfFile(f)
  BY DEF Order!RowsOfFile, Order!Times, Order!Row
<1> HIDE DEF old, new
<1>8. /\ ~(\A u \in Threads : local[u].pc = "done")
      /\ (\A u \in Threads : local[u].pc = "done")' = \A u \in Threads : local[u].pc = "done"
  <2> DEFINE m == [l EXCEPT !.row_offset = @ + count]
  <2>1. m.pc = "fill"
    BY ThreadFacts DEF LocalType
  <2> HIDE DEF m
  <2>2. local'[t] = m
    BY <1>2, Others DEF m
  <2>3. local'[t].pc # "done" /\ local[t].pc # "done"
    BY <2>1, <2>2
  <2>4. /\ ~(\A u \in Threads : local[u].pc = "done")
        /\ ~(\A u \in Threads : local'[u].pc = "done")
    BY <2>3
  <2> QED BY <2>4
<1>9. ASSUME NEW c \in DOMAIN Answer \ {n} PROVE Answer'[c] = Answer[c]
  <2> DEFINE read(m) == [i \in DOMAIN m.rows |->
                            LET r == m.rows[i]
                            IN  [file |-> r.file, prim |-> r.prim, row |-> r.row, time |-> r.at]]
  <2>1. c \in DOMAIN batches /\ c \in DOMAIN batches' /\ batches'[c] = batches[c]
    BY <1>2, <1>4
  <2>2. Answer[c] = read(batches[c]) /\ Answer'[c] = read(batches'[c])
    BY <2>1 DEF Answer
  <2> HIDE DEF read
  <2> QED BY <2>1, <2>2
<1>10. Len(Answer[n]) < Len(Answer'[n])
  BY <1>2, <1>4, <1>5
<1>11. \A i \in DOMAIN Answer[n] : Answer'[n][i] = Answer[n][i]
  <2>1. ASSUME NEW i \in DOMAIN old PROVE Answer'[n][i] = Answer[n][i]
    <3>1. i \in 1 .. Len(old) /\ i \in DOMAIN new
      BY <1>2, <1>4
    <3>2. new[i] = old[i]
      BY <1>2, <3>1
    <3> QED BY <1>4, <1>5, <3>1, <3>2
  <2> QED BY <1>4, <2>1
<1>12. \A i \in DOMAIN Answer'[n] :
         Answer'[n][i] \in UNION {Order!RowsOfFile(f) : f \in Order!FileIndex \ skipped}
  <2>1. ASSUME NEW i \in DOMAIN new
        PROVE  Answer'[n][i] \in UNION {Order!RowsOfFile(f) : f \in Order!FileIndex \ skipped}
    <3>1. PICK f \in FileIndex \ skipped' : Answer'[n][i] \in Order!RowsOfFile(f)'
      BY <1>6
    <3>2. Answer'[n][i] \in Order!RowsOfFile(f) /\ f \in Order!FileIndex \ skipped
      BY <1>7, <3>1 DEF FileIndex, Order!FileIndex
    <3> QED BY <3>2
  <2> QED BY <1>5, <2>1
<1>13. Order!InOrder(Answer')
  BY <1>3 DEF Order!InOrder, Order!Before, Order!Run
<1>14. DOMAIN Answer' = DOMAIN Answer
  BY <1>2, <1>4, <1>5
<1>15. Order!Deliver(n)
  BY <1>8, <1>9, <1>10, <1>11, <1>12, <1>13, <1>14 DEF Order!Deliver
<1> QED BY <1>2, <1>4, <1>15

\* Leaving Next for good ends the answer, if the other threads have left
LEMMA EndSimulation ==
    ASSUME SInv, OInv, NEW t \in Threads, NoMoreFiles(t)
    PROVE  [Order!Next]_(Order!vars)
<1>1. /\ local[t].pc = "locked" /\ stage = 0 /\ next_file = FileCount
      /\ UNCHANGED <<bind, skipped, batches>>
  BY DEF NoMoreFiles
<1>2. local'[t].pc = "done" /\ \A u \in Threads : u # t => local'[u].pc = local[u].pc
  BY NoMoreFilesOrder
<1>3. ~(\A u \in Threads : local[u].pc = "done")
  BY <1>1
<1>4. CASE \A u \in Threads : u # t => local[u].pc = "done"
  <2>1. ~Failed /\ ~Opening /\ \A u \in Threads : ~HasMorsel(local[u])
    BY <1>1, <1>4 DEF Failed, Opening, HasMorsel
  <2>2. current_file = FileCount
    BY <1>1 DEF SInv, CountersOK
  <2>3. Order!Delivered = UNION {Order!RowsOfFile(f) : f \in FileIndex \ skipped}
    BY <1>1, <2>1, <2>2, AllDelivered
  <2>4. (\A u \in Threads : local[u].pc = "done")'
    BY <1>2, <1>4
  <2>5. Answer' = Answer
    BY <1>1 DEF Answer
  <2>6. Order!End
    BY <1>1, <1>3, <2>3, <2>4, <2>5 DEF Order!End, Order!FileIndex, FileIndex
  <2> QED BY <2>6 DEF Order!Next
<1>5. CASE \E u \in Threads : u # t /\ local[u].pc # "done"
  <2>1. ~(\A u \in Threads : local'[u].pc = "done")
    BY <1>2, <1>5
  <2> QED BY <1>1, <1>3, <2>1, Stutter
<1> QED BY <1>4, <1>5

\* A file that cannot be opened comes after all files with rows in the answer
LEMMA SkipSimulation ==
    ASSUME SInv, OInv, NEW t \in Threads, OpenFails(t)
    PROVE  [Order!Next]_(Order!vars)
<1>1. /\ local[t].pc = "opening" /\ UNCHANGED <<bind, batches>>
      /\ \/ bind.ignore_errors /\ skipped' = skipped \cup {current_file}
         \/ UNCHANGED skipped
  BY DEF OpenFails
<1>2. local'[t].pc # "done"
  BY OpenFailsOrder
<1>3. /\ ~(\A u \in Threads : local[u].pc = "done")
      /\ ~(\A u \in Threads : local'[u].pc = "done")
  BY <1>1, <1>2
<1>4. CASE UNCHANGED skipped
  BY <1>1, <1>3, <1>4, Stutter
<1>5. CASE bind.ignore_errors /\ skipped' = skipped \cup {current_file}
  <2>1. current_file \in FileIndex
    BY <1>1, ScanAssumption DEF SInv, TypeOK, CountersOK, FileIndex
  <2>2. ASSUME NEW r \in Order!Delivered PROVE r.file < current_file
    <3>1. PICK b \in DOMAIN Answer : r \in {Answer[b][i] : i \in DOMAIN Answer[b]}
      BY DEF Order!Delivered
    <3>2. PICK i \in DOMAIN Answer[b] : r = Answer[b][i]
      BY <3>1
    <3>3. b \in DOMAIN batches /\ i \in DOMAIN batches[b].rows
      BY AnswerShape
    <3>4. r.file = batches[b].file /\ batches[b].file \in 1 .. current_file
      BY <3>2, <3>3, RowsRead
    <3>5. batches[b].file # current_file
      BY <1>1, <3>3 DEF OInv, PlacesOK, BatchPlaceOK, Opening
    <3>6. current_file \in Nat
      BY DEF SInv, TypeOK
    <3> QED BY <3>4, <3>5, <3>6
  <2>3. Answer' = Answer
    BY <1>1 DEF Answer
  <2>4. (\A u \in Threads : local[u].pc = "done")' = \A u \in Threads : local[u].pc = "done"
    BY <1>3
  <2>5. PICK f \in FileIndex : f = current_file
    BY <2>1
  <2>6. Order!Skip(f)
    BY <1>1, <1>3, <1>5, <2>2, <2>3, <2>4, <2>5 DEF Order!Skip
  <2> QED BY <2>6 DEF Order!Next, Order!FileIndex, FileIndex
<1> QED BY <1>1, <1>4, <1>5

\* Opening a stage and taking a morsel start a batch, or change nothing in the answer
LEMMA OpenedSimulation ==
    ASSUME SInv, OInv, SInv', NEW t \in Threads, Opened(t)
    PROVE  [Order!Next]_(Order!vars)
<1>1. /\ local[t].pc = "opening" /\ UNCHANGED <<bind, skipped>>
      /\ \/ StageUnit /\ Deal(t, current_file, 0, 0)
         \/ UNCHANGED batches
  BY DEF Opened
<1>2. local'[t].pc # "done"
  BY OpenedOrder
<1>3. CASE UNCHANGED batches
  <2>1. /\ ~(\A u \in Threads : local[u].pc = "done")
        /\ ~(\A u \in Threads : local'[u].pc = "done")
    BY <1>1, <1>2
  <2> QED BY <1>1, <1>3, <2>1, Stutter
<1>4. CASE StageUnit /\ Deal(t, current_file, 0, 0)
  <2>1. current_file \in FileIndex
    BY <1>1, ScanAssumption DEF SInv, TypeOK, CountersOK, FileIndex
  <2>2. bind.unit # "STAGE" => 0 > 0
    BY <1>4 DEF StageUnit
  <2>3. PICK N : N = Len(batches)
    OBVIOUS
  <2>4. /\ DOMAIN batches = 1 .. N /\ DOMAIN batches' = 1 .. N + 1 /\ N \in Nat
        /\ \A n \in 1 .. N : batches'[n] = batches[n]
        /\ batches'[N + 1] = [file |-> current_file, first |-> 0, size |-> 0, rows |-> <<>>]
    BY <1>1, <1>4, <2>1, <2>2, <2>3, DealOrder
  <2>5. batches'[N + 1].rows = <<>>
    BY <2>4
  <2>6. Order!NewBatch
    BY <1>1, <1>2, <2>4, <2>5, DealSimulation
  <2> QED BY <2>6 DEF Order!Next
<1> QED BY <1>1, <1>3, <1>4

LEMMA TakeMorselSimulation ==
    ASSUME SInv, OInv, SInv', NEW t \in Threads, TakeMorsel(t)
    PROVE  [Order!Next]_(Order!vars)
<1>1. /\ local[t].pc = "locked" /\ UNCHANGED <<bind, skipped>>
      /\ stage # 0 /\ position < PrimCount(stage)
      /\ Deal(t, current_file, position + 1, MorselPrims)
  BY DEF TakeMorsel
<1>2. local'[t].pc # "done"
  BY TakeMorselOrder
<1>3. stage = current_file /\ current_file \in FileIndex /\ position \in Nat
  BY <1>1, ScanAssumption DEF SInv, TypeOK, CountersOK, FileIndex
<1>4. MorselPrims \in Nat /\ MorselPrims > 0
  <2>1. PrimCount(stage) \in Nat
    BY <1>3, PrimCountType
  <2> QED BY <1>1, <1>3, <2>1, ScanAssumption DEF MorselPrims, Least
<1>5. PICK N : N = Len(batches)
  OBVIOUS
<1>6. PICK first \in Nat, size \in Nat : first = position + 1 /\ size = MorselPrims
  BY <1>3, <1>4
<1>7. /\ DOMAIN batches = 1 .. N /\ DOMAIN batches' = 1 .. N + 1 /\ N \in Nat
      /\ \A n \in 1 .. N : batches'[n] = batches[n]
      /\ batches'[N + 1] = [file |-> current_file, first |-> first, size |-> size, rows |-> <<>>]
  BY <1>1, <1>3, <1>4, <1>5, <1>6, DealOrder
<1>8. batches'[N + 1].rows = <<>>
  BY <1>7
<1>9. Order!NewBatch
  BY <1>1, <1>2, <1>7, <1>8, DealSimulation
<1> QED BY <1>9 DEF Order!Next

LEMMA OrderSimulation == SInv /\ OInv /\ [Next]_vars => [Order!Next]_(Order!vars)
<1> SUFFICES ASSUME SInv, OInv, [Next]_vars PROVE [Order!Next]_(Order!vars)
  OBVIOUS
<1>1. SInv' /\ OInv'
  BY SInvStep, OInvStep
<1>2. ASSUME NEW t \in Threads, UNCHANGED <<bind, skipped, batches>>,
             local[t].pc # "done", local'[t].pc # "done"
      PROVE  UNCHANGED Order!vars
  <2>1. /\ ~(\A u \in Threads : local[u].pc = "done")
        /\ ~(\A u \in Threads : local'[u].pc = "done")
    BY <1>2
  <2> QED BY <1>2, <2>1, Stutter
<1>3. ASSUME NEW t \in Threads, Step(t) PROVE [Order!Next]_(Order!vars)
  <2>1. CASE AddPrim(t)
    BY <1>2, <2>1, AddPrimOrder
  <2>2. CASE Emit(t)
    <3>1. /\ local[t].pc = "fill" /\ UNCHANGED <<bind, skipped>>
          /\ \/ Throw(t) /\ UNCHANGED batches
             \/ \E count \in Nat \ {0} : Emits(t, count)
      BY <2>2, EmitFacts
    <3>2. CASE Throw(t) /\ UNCHANGED batches
      <4> DEFINE l == [NoMorsel EXCEPT !.pc = "failed"]
      <4>1. l.pc = "failed" /\ Becomes(t, l)
        BY <3>2, NoMorselType DEF Throw
      <4> HIDE DEF l
      <4>2. local'[t].pc = "failed"
        BY <4>1, Others
      <4> QED BY <1>2, <3>1, <3>2, <4>2
    <3>3. ASSUME NEW count \in Nat \ {0}, Emits(t, count)
          PROVE  [Order!Next]_(Order!vars)
      <4>1. \E b \in DOMAIN Answer : Order!Deliver(b)
        BY <1>1, <3>1, <3>3, EmitSimulation
      <4> QED BY <4>1 DEF Order!Next
    <3> QED BY <3>1, <3>2, <3>3
  <2>3. CASE Exhausted(t)
    <3>1. UNCHANGED <<bind, skipped, batches>>
      BY <2>3 DEF Exhausted
    <3> QED BY <1>2, <2>3, <3>1, ExhaustedOrder
  <2>4. CASE Acquire(t)
    <3>1. UNCHANGED <<bind, skipped, batches>>
      BY <2>4 DEF Acquire
    <3> QED BY <1>2, <2>4, <3>1, AcquireOrder
  <2>5. CASE NoMoreFiles(t)
    BY <2>5, EndSimulation
  <2>6. CASE StartFile(t)
    <3>1. UNCHANGED <<bind, skipped, batches>>
      BY <2>6 DEF StartFile
    <3> QED BY <1>2, <2>6, <3>1, StartFileOrder
  <2>7. CASE Opened(t)
    BY <1>1, <2>7, OpenedSimulation
  <2>8. CASE OpenFails(t)
    BY <2>8, SkipSimulation
  <2>9. CASE TakeMorsel(t)
    BY <1>1, <2>9, TakeMorselSimulation
  <2>10. CASE EndOfStage(t)
    <3>1. UNCHANGED <<bind, skipped, batches>>
      BY <2>10 DEF EndOfStage
    <3> QED BY <1>2, <2>10, <3>1, EndOfStageOrder
  <2> QED BY <1>3, <2>1, <2>2, <2>3, <2>4, <2>5, <2>6, <2>7, <2>8, <2>9, <2>10 DEF Step
<1>4. ASSUME UNCHANGED <<bind, local, skipped, batches>> PROVE UNCHANGED Order!vars
  BY <1>4, Stutter
<1>5. ASSUME NEW f \in FileIndex, RefusedElsewhere(f) PROVE [Order!Next]_(Order!vars)
  BY <1>4, <1>5 DEF RefusedElsewhere
<1>6. ASSUME UNCHANGED vars PROVE [Order!Next]_(Order!vars)
  BY <1>4, <1>6 DEF vars
<1> QED BY <1>3, <1>5, <1>6 DEF Next, Terminated

\* The scan's threads together return what UsdScanOrder says: batches that are in the
\* order of the files, their runs of prims and their times whichever thread takes which
\* morsel (UsdScanGlobalState::Next, UsdScanGetPartitionData), and each row of each
\* file that was not skipped once every thread has returned its empty chunk.
THEOREM KeepsFileOrder == Spec => KeepsOrder
<1>1. Init => Order!Init
  BY OrderInit
<1>2. SInv /\ OInv /\ [Next]_vars => [Order!Next]_(Order!vars)
  BY OrderSimulation
<1> QED BY <1>1, <1>2, OrderInvariance, PTL DEF Spec, KeepsOrder, Order!Spec
=============================================================================
