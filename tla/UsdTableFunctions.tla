------------------------- MODULE UsdTableFunctions -------------------------
(***************************************************************************)
(* One call of a usd_* table function from its bind to its last row: the   *)
(* bind (UsdBind), the pushdown of the query's filters (UsdPushdown), and  *)
(* one of the threads of the scan with its producer (UsdProducers), while  *)
(* other threads take runs of prims or files of the scan.  UsdScan has all *)
(* the threads, and rows without contents; here the rows have contents.    *)
(***************************************************************************)
EXTENDS UsdProducers

CONSTANTS
    ThreadCount,   \* DuckDB's threads
    MorselSize,    \* USD_MORSEL_SIZE
    VectorSize     \* STANDARD_VECTOR_SIZE

ASSUME SizesAssumption == {ThreadCount, MorselSize, VectorSize} \subseteq Nat \ {0}

VARIABLES
    max_threads,   \* of the global state
    next_file,     \* files of the scan taken
    left,          \* prims of the file taken last that are not dealt
    morsel,        \* the thread's morsel: the index of a file, and prims of it
    next_prim,
    time_index,
    row_times,
    row_offset,
    producer,
    chunk          \* the chunk the thread returned last, with its morsel

scanning == <<max_threads, next_file, left, morsel, next_prim, time_index, row_times,
              row_offset, producer, chunk>>
vars == <<pushdown, bindVars, scanning>>

Function == Functions[call.function]
StageUnit == Function.unit = "STAGE"
NoMorsel == [index |-> 0, prims |-> <<>>]
NoChunk == [index |-> 0, prims |-> <<>>, first |-> 0, rows |-> <<>>]

Init ==
    /\ BindInit
    /\ PushdownInit
    /\ max_threads = 0
    /\ next_file = 0
    /\ left = <<>>
    /\ morsel = NoMorsel
    /\ next_prim = 1
    /\ time_index = 1
    /\ row_times = <<>>
    /\ row_offset = 0
    /\ producer = Null
    /\ chunk = NoChunk

-----------------------------------------------------------------------------
(* Planning *)

Bind ==
    /\ BindStep
    /\ UNCHANGED <<pushdown, scanning>>

Change ==
    /\ ChangeFile
    /\ UNCHANGED <<pushdown, scanning>>

\* Only functions with a property name column have filters pushed into them
Pushdown ==
    /\ pc = "plan"
    /\ Function.property_name
    /\ PushdownNext
    /\ UNCHANGED <<bindVars, scanning>>

Planned == pc = "plan" /\ (Function.property_name => pending = {})

\* UsdScanInitLocal: the columns of the function that the producer writes
ProducerColumns == call.columns \cap Function.columns

\* UsdScanInitGlobal and UsdScanInitLocal
InitScan ==
    /\ Planned
    /\ max_threads' =
           IF StageUnit /\ Len(files) < ThreadCount THEN Len(files) ELSE ThreadCount
    /\ producer' = NewProducer(options, ProducerColumns)
    /\ pc' = "next"
    /\ UNCHANGED <<pushdown, binding, state, changed, next_file, left, morsel, next_prim, time_index,
                   row_times, row_offset, chunk>>

-----------------------------------------------------------------------------
(* UsdScanFunction *)

Times(o) == IF o.times = <<>> THEN <<o.time>> ELSE o.times
Available == Len(producer.rows) - row_offset
Fillable == Available < VectorSize /\ next_prim <= Len(morsel.prims)

\* std::vector::resize
Resize(seq, n, value) == [i \in 1 .. n |-> IF i <= Len(seq) THEN seq[i] ELSE value]

\* (deviation: one time too many)
RepeatsAlways == next_prim = Len(morsel.prims) /\ time_index <= Len(options.times)

\* The morsel's prims are added once more, at the next time
Repeats == next_prim = Len(morsel.prims) /\ time_index < Len(options.times)

\* Adds a prim.  With "times", all prims of the morsel are added at each time
Fill ==
    LET times == options.times
        timed == IF times # <<>> /\ next_prim = 1
                 THEN SetTime(call.function, producer, times[time_index]) ELSE producer
        added == AddPrim(call.function, timed, files[morsel.index], morsel.prims[next_prim], options)
    IN  /\ pc = "fill"
        /\ Fillable
        /\ producer' = added
        /\ row_times' = IF times = <<>> THEN <<>>
                        ELSE Resize(row_times, Len(added.rows), times[time_index])
        /\ next_prim' = IF Repeats THEN 1 ELSE next_prim + 1
        /\ time_index' = IF Repeats THEN time_index + 1 ELSE time_index
        /\ UNCHANGED <<pushdown, bindVars, max_threads, next_file, left, morsel, row_offset, chunk>>

\* A column of the n-th buffered row: of the scan, virtual, or of the function
Column(pr, n, column, f, at) ==
    IF column = "time" /\ options.times # <<>> THEN at
    ELSE IF column = "filename" /\ options.filename THEN f
    ELSE IF column \notin Function.columns THEN Null
    ELSE Write(call.function, pr, f, pr.rows[n], column, options)

Emit ==
    LET count == IF Available < VectorSize THEN Available ELSE VectorSize
        at(n) == IF options.times = <<>> THEN Null ELSE row_times[n]
        row(n) == [c \in call.columns |-> Column(producer, n, c, files[morsel.index], at(n))]
    IN  /\ pc = "fill"
        /\ ~Fillable
        /\ Available > 0
        /\ chunk' = [index |-> morsel.index, prims |-> morsel.prims, first |-> row_offset + 1,
                     rows |-> [i \in 1 .. count |-> row(row_offset + i)]]
        /\ row_offset' = row_offset + count
        /\ UNCHANGED <<pushdown, bindVars, max_threads, next_file, left, morsel, next_prim,
                       time_index, row_times, producer>>

\* The morsel is exhausted: the thread asks for another one
Exhausted ==
    /\ pc = "fill"
    /\ ~Fillable
    /\ Available = 0
    /\ producer' = Clear(call.function, producer)
    /\ row_offset' = 0
    /\ next_prim' = 1
    /\ time_index' = 1
    /\ row_times' = <<>>
    /\ morsel' = [morsel EXCEPT !.prims = <<>>]
    /\ pc' = "next"
    /\ chunk' = NoChunk
    /\ UNCHANGED <<pushdown, binding, state, changed, max_threads, next_file, left>>

\* SetMorsel, and BeginStage if the file is another one: a file listed twice is
\* another one
Deal(index, prims) ==
    /\ morsel' = [index |-> index, prims |-> prims]
    /\ producer' = IF StageUnit \/ morsel.index # index
                   THEN BeginStage(call.function, producer, files[index]) ELSE producer
    /\ pc' = "fill"

RunSize == IF Len(left) < MorselSize THEN Len(left) ELSE MorselSize

\* UsdScanGlobalState::Next, within a file: the thread is dealt the next prims,
\* or another thread is
TakeMorsel ==
    /\ pc = "next"
    /\ left # <<>>
    /\ left' = SubSeq(left, RunSize + 1, Len(left))
    /\ \/ Deal(next_file, SubSeq(left, 1, RunSize))
       \/ max_threads > 1 /\ UNCHANGED <<morsel, producer, pc>>
    /\ UNCHANGED <<pushdown, binding, state, changed, max_threads, next_file, next_prim,
                   time_index, row_times, row_offset, chunk>>

\* The next file is opened.  A function of whole stages is dealt the stage
OpenFile ==
    LET f == files[next_file + 1]
    IN  /\ pc = "next"
        /\ left = <<>>
        /\ next_file < Len(files)
        /\ next_file' = next_file + 1
        /\ \/ /\ state[f] = "usd"
              /\ StageUnit
              /\ Deal(next_file + 1, <<>>) \/ (max_threads > 1 /\ UNCHANGED <<morsel, producer, pc>>)
              /\ UNCHANGED <<left, error>>
           \/ /\ state[f] = "usd"
              /\ ~StageUnit
              /\ left' = StartTraversal(f, options)
              /\ UNCHANGED <<morsel, producer, pc, error>>
           \/ /\ state[f] \notin {"usd", "denied"}
              /\ options.ignore_errors
              /\ UNCHANGED <<left, morsel, producer, pc, error>>
           \/ /\ state[f] # "usd"
              /\ ~options.ignore_errors \/ state[f] = "denied"
              /\ Throw(IF state[f] = "denied" THEN "PERMISSION" ELSE "IO")
              /\ UNCHANGED <<left, morsel, producer>>
        /\ UNCHANGED <<pushdown, call, options, entries, listed, files, state, changed, max_threads,
                       next_prim, time_index, row_times, row_offset, chunk>>

NoMoreFiles ==
    /\ pc = "next"
    /\ left = <<>>
    /\ next_file = Len(files)
    /\ pc' = "done"
    /\ UNCHANGED <<pushdown, binding, state, changed, scanning>>

\* The call has failed, or returned all its rows
Ended == pc \in {"failed", "done"} /\ UNCHANGED vars

Next ==
    \/ Bind \/ Change \/ Pushdown
    \/ InitScan
    \/ Fill \/ Emit \/ Exhausted
    \/ TakeMorsel \/ OpenFile \/ NoMoreFiles
    \/ Ended

Spec == Init /\ [][Next]_vars

-----------------------------------------------------------------------------
(* Properties *)

\* The columns of the rows a producer that has done nothing else makes of a
\* prim at time t, with all columns of the function selected
FreshProducer(f, o) ==
    BeginStage(call.function, NewProducer(o, Function.columns), f)

WrittenRows(pr, f, o) ==
    [n \in DOMAIN pr.rows |->
        [c \in Function.columns |-> Write(call.function, pr, f, pr.rows[n], c, o)]]

FreshRows(f, q, t, o) ==
    With(SetTime(call.function, FreshProducer(f, o), t), LAMBDA fresh :
        With(AddPrim(call.function, fresh, f, q, o), LAMBDA pr : WrittenRows(pr, f, o)))

\* The rows of prims at a time, with it
Timed(t, rows) == [n \in DOMAIN rows |-> [time |-> t, row |-> rows[n]]]
RowsAt(f, prims, t) ==
    FlattenSeq([i \in DOMAIN prims |->
        With(FreshRows(f, prims[i], t, options), LAMBDA rows : Timed(t, rows))])

\* The rows of a whole morsel
Expected(f, prims) ==
    LET times == Times(options)
    IN  IF StageUnit
        THEN With(FreshProducer(f, options),
                  LAMBDA pr : Timed(Null, WrittenRows(pr, f, options)))
        ELSE FlattenSeq([j \in DOMAIN times |-> RowsAt(f, prims, times[j])])

TypeOK ==
    /\ PushdownTypeOK
    /\ call \in Calls
    /\ pc \in {"call", "bind", "report", "plan", "next", "fill", "done", "failed"}
    /\ error \in {"none", "BINDER", "NOT_IMPLEMENTED", "IO", "INVALID_INPUT", "PERMISSION"}
    /\ (error = "none") = (pc # "failed")
    /\ DOMAIN options = DOMAIN DefaultOptions
    /\ ToSet(files) \subseteq DOMAIN state
    /\ next_file \in 0 .. Len(files)
    /\ morsel.index \in 0 .. next_file
    /\ next_prim \in 1 .. Len(morsel.prims) + 1
    /\ time_index \in 1 .. Len(Times(options))
    /\ producer # Null => /\ row_offset \in 0 .. Len(producer.rows)
                          /\ Len(row_times) \in {0, Len(producer.rows)}

(* Each row a chunk returns is the row a producer of its own would make of  *)
(* the prim, at the row's time, with all columns selected: no cache of      *)
(* transforms, bounds, bindings, collections or arcs, no list freed under a *)
(* row, no column left out and no move to another file or time shows in the *)
(* rows (the caches of usd_xforms.cpp:93, usd_bounds.cpp:33,                *)
(* usd_material_bindings.cpp:60 and usd_composition_arcs.cpp:112, used in   *)
(* UsdScanFunction).                                                        *)
RowsAreFresh ==
    chunk.rows # <<>> =>
        LET f == files[chunk.index]
            shows(row, expected, c) ==
                row[c] = IF c = "time" /\ options.times # <<>> THEN expected.time
                         ELSE IF c = "filename" /\ options.filename THEN f
                         ELSE IF c \in Function.columns THEN expected.row[c] ELSE Null
        IN  With(Expected(f, chunk.prims), LAMBDA expected :
                \A i \in DOMAIN chunk.rows : \A c \in call.columns :
                    shows(chunk.rows[i], expected[chunk.first + i - 1], c))

\* The prims of prototypes, whose arcs are kept once for all instances
PrototypePrims(f, o) ==
    {IndexPath(f, o, q) : q \in {p \in Composed(f, o) : "proxy" \in Prim(f, p).flags}}

(* What a producer keeps belongs to the stage it was told of, and is         *)
(* bounded.  Bindings and the lists of arcs of prims are those of its       *)
(* morsel; transforms, collections and the lists of arcs of prototypes may  *)
(* grow until the next stage, but prims inside instances share one list for *)
(* each prim of the prototype (BeginStage and Clear; usd_xforms.cpp:93,     *)
(* usd_material_bindings.cpp:74-82, usd_composition_arcs.cpp:112-124).      *)
CachesStayInBounds ==
    pc = "fill" =>
        LET f == files[morsel.index]
            near == UNION {Prefixes(q) : q \in ToSet(morsel.prims)}
        IN  /\ DOMAIN producer.bindings \subseteq near
            /\ Len(producer.prim_arcs) <= Len(morsel.prims)
            /\ \A key \in DOMAIN producer.spaces : key[1] = f
            /\ DOMAIN producer.collections \subseteq DOMAIN Stages[f].collections
            /\ DOMAIN producer.prototype_arcs \subseteq PrototypePrims(f, options)

\* The arc of the source instance that is shown for the n-th arc of q, whose
\* path ReplacePrefix maps although it is not on the instance: it is the path
\* of another layer, or, if the last names of both instances are the same, a
\* path beside the instance
Unmappable(f, q, n, o) ==
    LET index == IndexPath(f, o, q)
        source == SubSeq(index, 1, Len(index) - Len(q) + Len(Prim(f, q).instance))
        own == Prim(f, q).instance
        arc == Wanted(o, Prim(f, index).arcs)[n]
    IN  \/ ~arc.in_root_layer
        \/ /\ ~IsPrefix(source, arc.introducing_prim_path)
           /\ Last(source) = Last(own)

(* usd_composition_arcs returns all arcs of each prim, with the path of the *)
(* prim that introduces them; a prim inside an instance has those of its    *)
(* own instance, although OpenUSD shares one prim index between instances   *)
(* (usd_composition_arcs.cpp:125; docs/functions.md:297).  Paths that are   *)
(* not on the instance (Unmappable) are excepted: see the README.           *)
ArcsAreTheirOwn ==
    /\ call.function = "usd_composition_arcs" /\ chunk.rows # <<>>
    /\ {"prim_path", "arc_index", "arc", "introducing_prim_path"} \subseteq call.columns
    =>
        LET f == files[chunk.index]
            own(q) == Wanted(options, Prim(f, q).arcs)
        IN  /\ \A q \in ToSet(chunk.prims) : Len(FreshRows(f, q, Null, options)) = Len(own(q))
            /\ \A i \in DOMAIN chunk.rows :
                LET row == chunk.rows[i]
                    n == row.arc_index + 1
                    arc == own(row.prim_path)[n]
                IN  /\ row.arc = [arc EXCEPT !.introducing_prim_path = Null]
                    /\ row.introducing_prim_path = arc.introducing_prim_path
                           \/ Unmappable(f, row.prim_path, n, options)

(* With "root", a function of prims returns the rows it returns for the     *)
(* same prims of the whole stage, although only the subtree is composed     *)
(* (usd_scan.cpp:175), except for what rows say of prims outside: whether a *)
(* material is found there, what a relationship there forwards to, and the  *)
(* paths of arcs that ArcsAreTheirOwn excepts.                              *)
RootOnlySelects ==
    Planned /\ ~StageUnit =>
        LET whole == [options EXCEPT !.mask_path = <<>>]
            asked == IF "root" \in DOMAIN call.parameters THEN call.parameters.root ELSE <<>>
            outside(f, row, c) ==
                \/ c = "material_found" /\ ~IsPrefix(asked, row.material_path)
                \/ c = "introducing_prim_path" /\ call.function = "usd_composition_arcs"
                       /\ \E o \in {options, whole} : Unmappable(f, row.prim_path, row.arc_index + 1, o)
            same(f, here, there) ==
                /\ options.forwarded \/ Len(here) = Len(there)
                /\ ~options.forwarded =>
                     \A i \in DOMAIN here : \A c \in Function.columns :
                         here[i][c] = there[i][c] \/ outside(f, here[i], c)
            rows(f, q, o) == FreshRows(f, q, Times(options)[1], o)
        IN  \A f \in ToSet(files) :
                /\ StartTraversal(f, options)
                       = Among(StartTraversal(f, whole), {q \in Paths(f) : IsPrefix(asked, q)})
                /\ \A q \in ToSet(StartTraversal(f, options)) :
                       With(rows(f, q, options), LAMBDA here :
                           With(rows(f, q, whole), LAMBDA there : same(f, here, there)))

(* A scan that DuckDB runs for two queries, because it finds their options  *)
(* equal, answers both: it makes the rows the options of the other query    *)
(* ask for, and reads all properties the filters of the other query keep,   *)
(* whatever these are and whichever of them were pushed down when the       *)
(* options were compared (UsdScanBindData::Equals; usd_scan.hpp:77-98).     *)
EqualScansAnswerBoth ==
    Planned /\ ~StageUnit =>
        \A c \in {c \in Calls : c.function = call.function /\ ~Rejected(c)} :
        \A pushed \in SUBSET {filter \in c.filters : Function.property_name /\ Collects(filter)} :
            LET o == BindOptions(c.parameters)
                names == {n \in Names : \A filter \in pushed : n \in CollectPropertyNames(filter)}
                kept(S) == {n \in S : \A filter \in c.filters : Passes(filter, n)}
            IN  Tie(o, pushed # {}, IF pushed = {} THEN {} ELSE names)
                    = Tie(options, filter_property_names, property_names) =>
                /\ Times(o) = Times(options)
                /\ \A f \in ToSet(files) :
                       /\ StartTraversal(f, o) = StartTraversal(f, options)
                       /\ \A q \in ToSet(StartTraversal(f, o)) :
                              FreshRows(f, q, Times(o)[1], o) = FreshRows(f, q, Times(options)[1], options)
                /\ \A prim \in DOMAIN PropertyNames : kept(Get(prim)) = kept(PropertyNames[prim])
=============================================================================
