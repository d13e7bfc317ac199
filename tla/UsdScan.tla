------------------------------ MODULE UsdScan ------------------------------
(***************************************************************************)
(* A scan of the files of one usd_* table function by several threads      *)
(* (src/src/usd_scan.cpp): UsdScanGlobalState::Next, which opens the files *)
(* one after the other and deals their prims in runs ("morsels") under a   *)
(* mutex, and UsdScanFunction, in which each thread turns its morsel into  *)
(* rows with its own producer and returns them in chunks.                  *)
(*                                                                         *)
(* Prims are numbered in the order of their file's traversal; a row is the *)
(* n-th row the producer makes of a prim.  A row also records what the     *)
(* producer was set to when it made it: the stage of its last BeginStage   *)
(* and the time of its last SetTime.  A function of whole stages makes its *)
(* rows in BeginStage, as rows of "prim" 0.                                *)
(***************************************************************************)
EXTENDS Integers, Sequences

CONSTANTS
    Threads,       \* DuckDB's threads that run the scan, at least one
    FileCount,     \* the number of files of the scan
    Rows,          \* Rows[f][p]: the number of rows of prim p of file f
    StageRows,     \* the number of rows of file f for a function of whole stages
    MaxTimes,      \* bound: the number of "times"
    MorselSize,    \* USD_MORSEL_SIZE
    VectorSize,    \* STANDARD_VECTOR_SIZE
    Clips,         \* prims <<f, p>> with values in a file of their own (value clip)
    NoThread       \* nobody holds the mutex

FileIndex == 1 .. FileCount
PrimCount(f) == Len(Rows[f])
RowCount(f, p) == IF p = 0 THEN StageRows[f] ELSE Rows[f][p]

ASSUME ScanAssumption ==
    /\ FileCount \in Nat \ {0}
    /\ Rows \in [FileIndex -> Seq(Nat)]
    /\ StageRows \in [FileIndex -> Nat]
    /\ MaxTimes \in Nat
    /\ MorselSize \in Nat \ {0}
    /\ VectorSize \in Nat \ {0}
    /\ Threads # {} /\ NoThread \notin Threads

VARIABLES
    bind,              \* the bind data and settings the scan runs under
    lock,              \* the mutex of the global state
    next_file,         \* files taken so far
    files_started,     \* the same, which progress is read from without the mutex
    current_file,      \* the file taken last
    stage,             \* the file whose stage is being dealt, 0: nullptr
    position,          \* prims of it dealt so far
    next_batch_index,
    local,             \* the local state of each thread, with its producer
    refused,           \* UsdFileAccess::has_refused of each file's stage
    skipped,           \* history: files skipped
    batches            \* the morsels dealt, with the rows DuckDB collected of each

global == <<next_file, files_started, current_file, stage, position, next_batch_index>>
vars == <<bind, lock, global, local, refused, skipped, batches>>

-----------------------------------------------------------------------------
Row == [file : FileIndex, prim : Nat, row : Nat, stage : 0 .. FileCount, time : 0 .. MaxTimes]

\* A row of a chunk, with the value of its "time" column (0: no such column)
OutRow == [file : FileIndex, prim : Nat, row : Nat, stage : 0 .. FileCount,
           time : 0 .. MaxTimes, at : 0 .. MaxTimes]

\* `file', `batch', `first' and `size' are the morsel; `begun' and `time' the
\* stage and time the producer is set to, and `rows' what it has buffered
LocalType ==
    [pc : {"fill", "next", "locked", "opening", "done", "failed"},
     file : 0 .. FileCount, batch : Nat, first : Nat, size : Nat, next_prim : Nat,
     time_index : Nat, rows : Seq(Row), row_times : Seq(0 .. MaxTimes),
     row_offset : Nat, begun : 0 .. FileCount, time : 0 .. MaxTimes]

NoMorsel ==
    [pc |-> "fill", file |-> 0, batch |-> 0, first |-> 0, size |-> 0, next_prim |-> 0,
     time_index |-> 0, rows |-> <<>>, row_times |-> <<>>, row_offset |-> 0,
     begun |-> 0, time |-> 0]

\* The unit of the function, the number of "times" (0: no such option), the
\* "ignore_errors" option, and whether DuckDB may read the files of value clips
BindType ==
    {b \in [unit : {"PRIM", "STAGE"}, times : 0 .. MaxTimes, ignore_errors : BOOLEAN,
            clips_allowed : BOOLEAN] :
        b.unit = "STAGE" => b.times = 0}

StageUnit == bind.unit = "STAGE"
TimeCount == bind.times
Refuses(f, p) == <<f, p>> \in Clips /\ ~bind.clips_allowed

Init ==
    /\ bind \in BindType
    /\ lock = NoThread
    /\ next_file = 0
    /\ files_started = 0
    /\ current_file = 0
    /\ stage = 0
    /\ position = 0
    /\ next_batch_index = 0
    /\ local = [t \in Threads |-> NoMorsel]
    /\ refused = [f \in FileIndex |-> FALSE]
    /\ skipped = {}
    /\ batches = <<>>

Becomes(t, l) == local' = [local EXCEPT ![t] = l]
Goto(t, p) == Becomes(t, [local[t] EXCEPT !.pc = p])

-----------------------------------------------------------------------------
(* UsdScanFunction: filling the buffer and returning chunks *)

Available(l) == Len(l.rows) - l.row_offset
Fillable(l) == l.next_prim < l.size /\ Available(l) < VectorSize

\* The rows a producer of local state l makes of prim p of file f
PrimRows(l, f, p) ==
    [n \in 1 .. RowCount(f, p) |->
        [file |-> f, prim |-> p, row |-> n, stage |-> l.begun, time |-> l.time]]

\* std::vector::resize
Resize(seq, n, value) == [i \in 1 .. n |-> IF i <= Len(seq) THEN seq[i] ELSE value]

\* SetTime, before the first prim of the morsel is added at each of the "times"
Timed(l) ==
    IF TimeCount > 0 /\ l.next_prim = 0 THEN [l EXCEPT !.time = l.time_index + 1] ELSE l

\* (deviation: the last prim is left out at every time but the last)
AdvanceBySize(l) ==
    IF l.next_prim + 2 = l.size /\ l.time_index + 1 < TimeCount
    THEN [l EXCEPT !.time_index = @ + 1, !.next_prim = 0]
    ELSE [l EXCEPT !.next_prim = @ + 1]

\* The next prim, or the first one again at the next time
Advance(l) ==
    IF l.next_prim + 1 = l.size /\ l.time_index + 1 < TimeCount
    THEN [l EXCEPT !.time_index = @ + 1, !.next_prim = 0]
    ELSE [l EXCEPT !.next_prim = @ + 1]

AddPrim(t) ==
    LET l == Timed(local[t])
        p == l.first + l.next_prim
        rows == l.rows \o PrimRows(l, l.file, p)
        times == IF TimeCount = 0 THEN <<>>
                 ELSE Resize(l.row_times, Len(rows), l.time_index + 1)
    IN  /\ l.pc = "fill"
        /\ Fillable(l)
        /\ Becomes(t, Advance([l EXCEPT !.rows = rows, !.row_times = times]))
        /\ refused' = [refused EXCEPT ![l.file] = @ \/ Refuses(l.file, p)]
        /\ UNCHANGED <<bind, lock, global, skipped, batches>>

\* An exception ends the thread's part of the scan, and releases the mutex
Throw(t) ==
    /\ Becomes(t, [NoMorsel EXCEPT !.pc = "failed"])
    /\ lock' = IF lock = t THEN NoThread ELSE lock

\* (deviation: the check is left to the next Open)
NeverRefused(f) == FALSE

\* access->ThrowIfRefused(), for the stage of file f
ThrowIfRefused(f) == refused[f]

\* Returns a chunk of buffered rows; DuckDB collects it under the morsel's batch
\* index (UsdScanGetPartitionData).  A refused file is an error instead.
Emit(t) ==
    LET l == local[t]
        count == IF Available(l) < VectorSize THEN Available(l) ELSE VectorSize
        Label(i) == IF TimeCount = 0 THEN 0 ELSE l.row_times[l.row_offset + i]
        OutRowOf(r, a) == [file |-> r.file, prim |-> r.prim, row |-> r.row,
                           stage |-> r.stage, time |-> r.time, at |-> a]
        chunk == [i \in 1 .. count |-> OutRowOf(l.rows[l.row_offset + i], Label(i))]
    IN  /\ l.pc = "fill"
        /\ ~Fillable(l)
        /\ Available(l) > 0
        /\ UNCHANGED <<bind, global, refused, skipped>>
        /\ \/ /\ ThrowIfRefused(l.file)
              /\ Throw(t)
              /\ UNCHANGED batches
           \/ /\ ~ThrowIfRefused(l.file)
              /\ Becomes(t, [l EXCEPT !.row_offset = @ + count])
              /\ batches' = [batches EXCEPT ![l.batch + 1].rows = @ \o chunk]
              /\ UNCHANGED lock

\* (deviation: the times of the rows are kept)
ClearedRows(l) ==
    [l EXCEPT !.pc = "next", !.size = 0, !.next_prim = 0, !.time_index = 0,
              !.rows = <<>>, !.row_offset = 0]

\* The morsel is exhausted: nothing of it is kept
Cleared(l) ==
    [l EXCEPT !.pc = "next", !.size = 0, !.next_prim = 0, !.time_index = 0,
              !.rows = <<>>, !.row_times = <<>>, !.row_offset = 0]

Exhausted(t) ==
    /\ local[t].pc = "fill"
    /\ ~Fillable(local[t])
    /\ Available(local[t]) = 0
    /\ Becomes(t, Cleared(local[t]))
    /\ UNCHANGED <<bind, lock, global, refused, skipped, batches>>

-----------------------------------------------------------------------------
(* UsdScanGlobalState::Next, under the mutex *)

\* (deviation: no mutex)
AcquireAnyway(t) ==
    /\ local[t].pc = "next"
    /\ lock' = t
    /\ Goto(t, "locked")
    /\ UNCHANGED <<bind, global, refused, skipped, batches>>

Acquire(t) ==
    /\ local[t].pc = "next"
    /\ lock = NoThread
    /\ lock' = t
    /\ Goto(t, "locked")
    /\ UNCHANGED <<bind, global, refused, skipped, batches>>

\* Next returns false, and the scan function an empty chunk
NoMoreFiles(t) ==
    /\ local[t].pc = "locked"
    /\ stage = 0
    /\ next_file = FileCount
    /\ lock' = NoThread
    /\ Goto(t, "done")
    /\ UNCHANGED <<bind, global, refused, skipped, batches>>

\* (deviation: the end of the list is passed by one)
StartFileAlways(t) ==
    /\ local[t].pc = "locked"
    /\ stage = 0
    /\ next_file' = next_file + 1
    /\ current_file' = next_file + 1
    /\ files_started' = next_file + 1
    /\ Goto(t, "opening")
    /\ UNCHANGED <<bind, lock, stage, position, next_batch_index, refused, skipped, batches>>

StartFile(t) ==
    /\ local[t].pc = "locked"
    /\ stage = 0
    /\ next_file < FileCount
    /\ next_file' = next_file + 1
    /\ current_file' = next_file + 1
    /\ files_started' = next_file + 1
    /\ Goto(t, "opening")
    /\ UNCHANGED <<bind, lock, stage, position, next_batch_index, refused, skipped, batches>>

\* (deviation: a thread notices only the first stage it is dealt)
NewStageOnce(l, f) == StageUnit \/ l.begun = 0

\* The producer must be told that the stage changed
NewStage(l, f) == StageUnit \/ l.file # f

\* SetMorsel, the return from Next, and BeginStage if the stage is another one
\* (which makes the rows of a function of whole stages)
Deal(t, f, first, size) ==
    LET l == [local[t] EXCEPT !.pc = "fill", !.file = f, !.batch = next_batch_index,
                              !.first = first, !.size = size,
                              !.begun = IF NewStage(local[t], f) THEN f ELSE @]
    IN  /\ next_batch_index' = next_batch_index + 1
        /\ lock' = NoThread
        /\ IF StageUnit
           THEN /\ Becomes(t, [l EXCEPT !.rows = PrimRows(l, f, 0)])
                /\ refused' = [refused EXCEPT ![f] = @ \/ Refuses(f, 0)]
           ELSE /\ Becomes(t, l)
                /\ UNCHANGED refused
        /\ batches' = Append(batches, [file |-> f, first |-> first, size |-> size,
                                       rows |-> <<>>])

\* Open succeeds.  A function of whole stages deals the stage; otherwise its
\* traversal starts, unless the file does not have the prim at "root" (no prims)
Opened(t) ==
    LET f == current_file
    IN  /\ local[t].pc = "opening"
        /\ UNCHANGED <<bind, next_file, current_file, files_started, skipped>>
        /\ \/ /\ StageUnit
              /\ Deal(t, f, 0, 0)
              /\ UNCHANGED <<stage, position>>
           \/ /\ ~StageUnit
              /\ stage' = IF PrimCount(f) = 0 THEN 0 ELSE f
              /\ position' = 0
              /\ Goto(t, "locked")
              /\ UNCHANGED <<lock, next_batch_index, refused, batches>>

\* Open throws.  An IOException skips the file under "ignore_errors"
OpenFails(t) ==
    /\ local[t].pc = "opening"
    /\ UNCHANGED <<bind, global, refused, batches>>
    /\ \/ /\ bind.ignore_errors
          /\ skipped' = skipped \cup {current_file}
          /\ Goto(t, "locked")
          /\ UNCHANGED lock
       \/ /\ Throw(t)
          /\ UNCHANGED skipped

\* Prims of the next morsel
Least(a, b) == IF a < b THEN a ELSE b
MorselPrims == Least(MorselSize, PrimCount(stage) - position)

TakeMorsel(t) ==
    /\ local[t].pc = "locked"
    /\ stage # 0
    /\ position < PrimCount(stage)
    /\ position' = position + MorselPrims
    /\ Deal(t, current_file, position + 1, MorselPrims)
    /\ UNCHANGED <<bind, next_file, files_started, current_file, stage, skipped>>

\* (deviation: the stage is not let go of)
KeepStage(t) ==
    /\ local[t].pc = "locked"
    /\ stage # 0
    /\ position = PrimCount(stage)
    /\ UNCHANGED <<bind, lock, global, local, refused, skipped, batches>>

\* The traversal is over: on to the next file
EndOfStage(t) ==
    /\ local[t].pc = "locked"
    /\ stage # 0
    /\ position = PrimCount(stage)
    /\ stage' = 0
    /\ UNCHANGED <<bind, lock, next_file, files_started, current_file, position,
                   next_batch_index, local, refused, skipped, batches>>

\* Another query that shares the cached stage of file f is refused a file it reads
RefusedElsewhere(f) ==
    /\ \E p \in 0 .. PrimCount(f) : Refuses(f, p)
    /\ ~refused[f]
    /\ refused' = [refused EXCEPT ![f] = TRUE]
    /\ UNCHANGED <<bind, lock, global, local, skipped, batches>>

-----------------------------------------------------------------------------
Step(t) ==
    \/ AddPrim(t) \/ Emit(t) \/ Exhausted(t)
    \/ Acquire(t) \/ NoMoreFiles(t) \/ StartFile(t) \/ Opened(t) \/ OpenFails(t)
    \/ TakeMorsel(t) \/ EndOfStage(t)

\* Every thread has returned its last chunk, or failed
Ended == \A t \in Threads : local[t].pc \in {"done", "failed"}

Terminated == Ended /\ UNCHANGED vars

Next ==
    \/ \E t \in Threads : Step(t)
    \/ \E f \in FileIndex : RefusedElsewhere(f)
    \/ Terminated

Spec == Init /\ [][Next]_vars

\* DuckDB keeps calling the scan function on each thread, and a thread that holds
\* the mutex keeps running
FairSpec == Spec /\ \A t \in Threads : WF_vars(Step(t))

-----------------------------------------------------------------------------
(* Properties *)

BatchType == [file : FileIndex, first : Nat, size : Nat, rows : Seq(OutRow)]

\* Every variable has its type.
TypeOK ==
    /\ bind \in BindType
    /\ lock \in Threads \cup {NoThread}
    /\ next_file \in 0 .. FileCount
    /\ files_started \in 0 .. FileCount
    /\ current_file \in 0 .. FileCount
    /\ stage \in 0 .. FileCount
    /\ position \in Nat
    /\ next_batch_index \in Nat
    /\ local \in [Threads -> LocalType]
    /\ refused \in [FileIndex -> BOOLEAN]
    /\ skipped \in SUBSET FileIndex
    /\ batches \in Seq(BatchType)

\* The rows a producer has buffered are of the stage its morsel keeps open, and
\* were made after BeginStage announced that stage: they refer to its prims and
\* to caches that BeginStage empties.
RowsOutliveNoStage ==
    \A t \in Threads : \A i \in DOMAIN local[t].rows :
        LET r == local[t].rows[i]
        IN  r.file = local[t].file /\ r.stage = local[t].file

\* With "times", each row returned was computed at the time its "time" column
\* shows, although a chunk may hold rows of several times and several prims.
RowsShowTheirTime ==
    \A b \in DOMAIN batches : \A i \in DOMAIN batches[b].rows :
        batches[b].rows[i].time = batches[b].rows[i].at

\* No row that was computed without a file DuckDB may not read is ever returned.
NoRowsWithoutRefusedFiles ==
    \A b \in DOMAIN batches : \A i \in DOMAIN batches[b].rows :
        ~Refuses(batches[b].rows[i].file, batches[b].rows[i].prim)

\* What DuckDB has collected, as rows of the query
Answer ==
    [b \in DOMAIN batches |->
        [i \in DOMAIN batches[b].rows |->
            LET r == batches[b].rows[i]
            IN  [file |-> r.file, prim |-> r.prim, row |-> r.row, time |-> r.at]]]

Order == INSTANCE UsdScanOrder
         WITH answer <- Answer, ended <- \A t \in Threads : local[t].pc = "done"

\* The scan returns the rows of its files in order, whatever threads take which
\* morsels: read in the order of the batch indexes, the rows never go back, and
\* when the scan has ended none is missing or there twice.
KeepsOrder == Order!Spec

\* Every scan ends: no thread waits for the mutex for ever, or is left with files
\* that nobody takes.
ScanEnds == <>Ended
=============================================================================
