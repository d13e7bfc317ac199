---------------------------- MODULE UsdScanOrder ----------------------------
(***************************************************************************)
(* What a scan promises, whatever number of threads run it: "Files are     *)
(* read in order, so results keep the order of the list"                   *)
(* (src/docs/functions.md:33), and prims "the order USD traverses a stage" *)
(* (:49), "each batch of prims listed time by time" (:63).  The answer is  *)
(* a sequence of batches that threads extend independently; read batch by  *)
(* batch it is in order at every moment, and once the scan has ended it    *)
(* holds each row of each file that was not skipped, once.                 *)
(***************************************************************************)
EXTENDS Integers, Sequences

CONSTANTS
    FileCount,     \* the number of files of the scan
    Rows,          \* Rows[f][p]: the number of rows of prim p of file f
    StageRows,     \* the number of rows of file f for a function of whole stages
    MorselSize     \* the number of prims in a batch

VARIABLES
    bind,     \* the function's unit and options
    answer,   \* the rows of each batch
    skipped,  \* the files skipped
    ended     \* the scan has returned its last row

vars == <<bind, answer, skipped, ended>>

FileIndex == 1 .. FileCount

\* Times are numbered; a scan without the option reads at the one time 0
Times == IF bind.times = 0 THEN {0} ELSE 1 .. bind.times

Row(f, p, n, t) == [file |-> f, prim |-> p, row |-> n, time |-> t]

RowsOfFile(f) ==
    IF bind.unit = "STAGE"
    THEN {Row(f, 0, n, 0) : n \in 1 .. StageRows[f]}
    ELSE UNION {{Row(f, p, n, t) : n \in 1 .. Rows[f][p], t \in Times} : p \in DOMAIN Rows[f]}

\* The run of prims that row r is in
Run(r) == (r.prim - 1) \div MorselSize

\* Row r comes before row q
Before(r, q) ==
    \/ r.file < q.file
    \/ /\ r.file = q.file
       /\ \/ Run(r) < Run(q)
          \/ /\ Run(r) = Run(q)
             /\ \/ r.time < q.time
                \/ r.time = q.time /\ r.prim < q.prim
                \/ r.time = q.time /\ r.prim = q.prim /\ r.row < q.row

\* Reading ans batch by batch, rows never go back
InOrder(ans) ==
    \A b, c \in DOMAIN ans : \A i \in DOMAIN ans[b], j \in DOMAIN ans[c] :
        (b < c \/ (b = c /\ i < j)) => Before(ans[b][i], ans[c][j])

Delivered == UNION {{answer[b][i] : i \in DOMAIN answer[b]} : b \in DOMAIN answer}

-----------------------------------------------------------------------------
Init ==
    /\ bind.unit \in {"PRIM", "STAGE"}
    /\ answer = <<>>
    /\ skipped = {}
    /\ ended = FALSE

\* A file that cannot be opened has no rows in the answer
Skip(f) ==
    /\ bind.ignore_errors /\ ~ended
    /\ \A r \in Delivered : r.file < f
    /\ skipped' = skipped \cup {f}
    /\ UNCHANGED <<bind, answer, ended>>

NewBatch ==
    /\ ~ended
    /\ answer' = Append(answer, <<>>)
    /\ UNCHANGED <<bind, skipped, ended>>

\* More rows of batch b
Deliver(b) ==
    /\ ~ended
    /\ DOMAIN answer' = DOMAIN answer
    /\ \A c \in DOMAIN answer \ {b} : answer'[c] = answer[c]
    /\ Len(answer[b]) < Len(answer'[b])
    /\ \A i \in DOMAIN answer[b] : answer'[b][i] = answer[b][i]
    /\ \A i \in DOMAIN answer'[b] :
         answer'[b][i] \in UNION {RowsOfFile(f) : f \in FileIndex \ skipped}
    /\ InOrder(answer')
    /\ UNCHANGED <<bind, skipped, ended>>

End ==
    /\ ~ended
    /\ Delivered = UNION {RowsOfFile(f) : f \in FileIndex \ skipped}
    /\ ended' = TRUE
    /\ UNCHANGED <<bind, answer, skipped>>

Next ==
    \/ \E f \in FileIndex : Skip(f)
    \/ \E b \in DOMAIN answer : Deliver(b)
    \/ NewBatch
    \/ End

Spec == Init /\ [][Next]_vars
=============================================================================
