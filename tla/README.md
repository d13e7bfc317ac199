# The DuckDB USD extension in TLA+

This directory models the parts of the `usd` extension (`src/src`) whose correctness depends on the order in which
threads, queries, file changes and evictions happen, checks the models with TLC on small instances, and proves the
invariants that matter most with TLAPS for every value of the constants. It also follows calls of every table
function from their parameters to their rows, to show what the caches and shortcuts of the producers may not change.

Paths below are relative to the repository checkout `src/`, so `src/src/usd_stage.cpp` is the extension's
`src/usd_stage.cpp`, `src/docs/functions.md` its reference manual.

## The system

The extension adds table functions (`usd_prims('scene.usd')`, ...) to DuckDB. A scan binds its options and file list,
opens each file as an OpenUSD stage, deals the prims of the stage to DuckDB's threads in runs ("morsels"), and each
thread turns prims into rows with the function's *producer*.

| Component | State it keeps | Operations | Interacts with | Correct when |
|---|---|---|---|---|
| Stage provider (`usd_stage.cpp`) | per-query map of open stages (weak), stage entries in DuckDB's object cache, a registry of those entries (weak), the stamp of every loaded layer, the stage count of memory | `Open`, `DropCachedStages`, end of query | Sdf's process-wide layer registry, object cache, file system, resolver | no query silently reads old contents; outdated stages leave the caches and only those do; `Open` returns; stages of a warned query stay in it |
| Scan framework (`usd_scan.cpp`, `usd_scan.hpp`) | shared: current stage, traversal position, next file and batch number, under a mutex; per thread: morsel, position in it, buffered rows and their times | `Next`, `UsdScanFunction`, `Progress`, bind, filter pushdown | provider, producers, DuckDB's executor | every row exactly once, batch numbers in traversal order, rows aligned with their time, no chunk after a refused file |
| File access (`usd_file_access.cpp`) | first refused file of each stage | `Check`, `ThrowIfRefused`, the resolver's `_Resolve` and `_OpenAsset` | stage opening, cached stages, scans | no row is computed from a file the database may not read, nor silently without it |
| Producers (`functions/*.cpp`) | buffered rows; caches per stage (transforms, bounds, bindings, arcs of prototypes) | `BeginStage`, `SetTime`, `AddPrim`, `Write`, `Clear` | scan framework | the caches belong to the stage and time being read; arcs of instances have the paths of their instance |
| Bind (`usd_scan.cpp`) | the options and files of a call, the property names its filters allow | `UsdScanBind`, `UsdScanPushdownComplexFilter` | DuckDB's optimizer, file system | every readable file is scanned, filters pushed down change no answer, equal bind data mean equal rows |
| Plugins (`usd_plugins.cpp`) | the resource directory on disk, OpenUSD's plugin registry | `UsdRegisterPlugins` | other processes that share the directory | a failed load can be tried again; readers never see half a file |
| Settings and entry point (`usd_extension.cpp`) | `usd_stage_cache` | `SET usd_stage_cache`, load | provider | turning the cache off frees what it holds |
| JSON values (`usd_json.cpp`) | none | `Append`, `ArrayLength` | producers | pure conversion |

What is hard to test here: two queries (or two scans of one query) inside `Open` at once; files that change between
the moment USD reads them and the moment the code looks at their modification time; layers that USD shares between
stages for as long as any stage lives, so that opening a file "again" may return its old contents; entries that DuckDB
evicts, or that other threads release, between two calls; databases that share layers but not caches. The hazards are
listed with their lines in `PROJECT.json`.

## The modules

| Module | Contents |
|---|---|
| `UsdStageCache` | `UsdStageProvider::Open` and `DropCachedStages`, with everything they call, one action per step between two locks or file reads |
| `MCUsdStageCache` | instances of it for TLC: files and stages, connections and databases, symmetry |
| `UsdStageCacheProofs` | proofs of the cache's types, of an invariant of all references, and that outdated layers stay with the query that was warned |
| `UsdStageCacheSafetyProofs` | proofs of the cache's other safety properties: an invariant of stamps, one of what was read when, and what follows from them |
| `UsdScan` | `UsdScanGlobalState::Next` and `UsdScanFunction` on several threads, one action per step between two uses of the mutex or two calls of DuckDB |
| `UsdScanOrder` | the order of rows a scan promises, whatever threads run it; `UsdScan` implements it |
| `MCUsdScan` | an instance of `UsdScan` for TLC |
| `UsdScanProofs` | proofs of the types and of the three invariants of `UsdScan`, and that it implements `UsdScanOrder` |
| `UsdStageSharing`, `MCUsdStageSharing` | what `UsdStageCache` leaves open: the memory cached stages take and the order they are dropped in, the setting, file access settings, warnings |
| `UsdStageSharingProofs` | proofs of the types and of all properties of `UsdStageSharing`, by an inductive invariant |
| `UsdSumProofs` | facts about `SumFunctionOnSet`, which adds up the memory of stages |
| `UsdPushdown` | the filters on property names that are pushed into a scan |
| `UsdBind` | options, file list and validation of a call; extends `UsdPushdown` |
| `UsdProducers` | what the row producers buffer, cache and write; extends `UsdBind` |
| `UsdProducersProofs` | proofs that what a producer adds does not depend on what it did before, that the arcs it shows are the prim's own, and the facts about lists they need |
| `UsdTableFunctions`, `MCUsdTableFunctions` | a call from its bind to its last row, on one of the threads; composes the three |
| `UsdTableFunctionsProofs` | proofs about `UsdPushdown`, that a call implements it, that its bind lists the right files, that one scan answers all calls with equal bind data, that every row is fresh, that rows of arcs are of the prim's own, and that `root` only selects |
| `UsdPlugins`, `MCUsdPlugins` | `LOAD`: the plugins' resources on disk and their registration |
| `UsdPluginsProofs` | proofs of the types and of all safety properties of `UsdPlugins` |

`UsdStageCache` and `UsdScan` meet at `UsdStageProvider::Open`: a scan of the first is in its step `using` while the
second deals and reads the stage, and `OpenFails` of the second is any failure of the first. `UsdStageSharing` is the
same call seen from the database's resources: files are at rest there, so that composing a stage is one step, and so are
the checks of a cached one. `UsdTableFunctions` is one thread of `UsdScan`, with rows that have contents; what other
threads take is a free choice.

### `UsdStageCache`

**State.** `file[f]` is the generation of a file, raised by the environment. `layer[f]` is the copy of it that USD has
loaded (generation 0: none), with the stamp `UsdLayerStamps` recorded for it. `stage[i]` is a `UsdStageHandle` together
with the `UsdCachedStage` made of it: the layers it uses, the stamps of its missing files, whether its entry was
released. `cache` is DuckDB's object cache of each database, `registry` the process-wide `UsdCachedStageRegistry`,
`query` the `UsdQueryStageCache` of each connection. `changed[s]` is the result of `ChangedLayers` and `op[s]` the call
scan `s` is in: its step (`pc`), the phase of the call a shared step belongs to (`pass`), and its local variables.
`start` and the fields `missed` and `stale` are history, used by the properties only.

**References.** Which stages and layers exist follows from shared and weak pointers. `Entries` and `Handles` are the
stages referred to as a cache entry or as a handle; every step that may drop a reference ends with `Settle`, which
frees the stages nothing refers to, unloads the layers no stage uses, and clears the weak references to them (the
registry, the query map, and the weak layer handles in `changed`). A stage identifier is used again once it is free.

**Steps.** `ReadStamp` and `Compare` are the two halves of `UsdLayerStamps::Changed`: the stamp is read before the
lock is taken. `Compared` is the branch after `ChangedLayers`, for the cached stage, the stage just opened, and the
stage opened again. `Snapshot`, `SweepTake`, `SweepTest` and `SweepDone` are `ReleaseStagesUsing`; `RemoveGet` and
`RemoveDelete` the two calls of `RemoveFromObjectCache`, shared with `MakeRoom` (`EvictNext`), `DropCachedStages` and
the release of the entry that was looked up (`Release`). `OpenStage`, `LoadFile` and `Loaded` open a stage file by file,
reusing loaded layers. `RecordMissing`, `Put` and `Add` cache it. `Refuse` is the failure of a file access check, and
`Fail` what a failed call leaves behind.

**Environment.** `WriteFile` changes a file at any moment (with `QuietWrites`, not while a call to `Open` runs); a pair
in `Lost` or `Broken` makes a generation missing or unreadable. `Evict` is DuckDB reclaiming memory. `ReadClip` is USD
opening the layer of a value clip while the stage is in use. `EndQuery` ends a query whose scans are all done, and a
connection starts its next query with the next scan.

### `UsdScan`

**State.** `bind` is what the scan is run with, chosen once: a function of whole stages or of prims, the number of
"times", `ignore_errors`, and whether the files of value clips may be read. `lock`, `next_file`, `files_started`,
`current_file`, `stage`, `position` and `next_batch_index` are the `UsdScanGlobalState`. `local[t]` is the
`UsdScanLocalState` of a thread with its producer: the morsel, how far it is, the rows buffered, their times, the
offset of the next chunk, and the stage and time the producer was last set to (`begun`, `time`). `refused[f]` is
`UsdFileAccess::has_refused` of the file's stage. `batches` is what DuckDB has collected under each batch index.

**Steps.** A call of the scan function that finds fewer rows than a chunk adds prims (`AddPrim`, which also advances to
the next of the "times"), returns a chunk (`Emit`), or, with the morsel exhausted, clears it (`Exhausted`) and enters
`Next`: `Acquire` takes the mutex; `NoMoreFiles`, `StartFile` and `TakeMorsel` are the three ways through its loop;
between `StartFile` and `Opened` or `OpenFails` the stage is being opened. `Deal` numbers the batch, tells the producer
of a new stage, and releases the mutex. An exception (`Throw`) releases it as well. The prim at `root` that a file
does not have is a file with no prims.

**The order.** `UsdScanOrder` states what `src/docs/functions.md:33,49,63` says: a sequence of batches that grow
independently; read in the order of their indexes the rows never go back - file by file, run of prims by run of
prims, time by time - and at the end each row of each file that was not skipped is there once. `KeepsOrder` says that
`UsdScan` implements it: the rows DuckDB collected are `answer`, and the scan has `ended` when every thread was told so.

### `UsdStageSharing`

**State.** `stage`, `cache`, `registry`, `query` as above, with the bytes of each stage and `last_used`, the pairs of
cached stages of which the first was `Touch`ed before the second. The setting `usd_stage_cache` is `session` and
`global`; `setting` is a `SET` between its callback, which DuckDB calls first, and the moment the value is stored.
`restricted` says where `enable_external_access` is off. `op[s]` is a call to `Open` and its locals, `reading` the scans
that are about to open a value clip they were allowed to. `warned` and `quiet` (what a query was warned of and not) and
`clips` (what value clips did to the stages a query had at the time) are history, used by the properties only.

**Steps.** `Lookup` verifies the root file, reads the setting and, if there is a cached stage, checks that no file was
refused to it and that all its layers may be read now (`usd_stage.cpp:511-512`). The call has then `found` a stage, and
`Find` uses it, warns and returns it (`:516`, `:572`), whatever happened in between. Without one, the call composes the
stage (`OpenStage`, or `OpenRefused`) and, with the cache on, makes room: `MakeRoom` takes the snapshot, `Sort` orders
it, `Evict` removes one stage at a time until the new one `Fits`, `Put` and `Add` insert it. If `last_used` of a stage
of the snapshot changed before `std::sort` returns, the order is any. `SetStageCache`, `StoreSetting`, `EnableCache`,
`RestrictAccess`, `UseMemory` (DuckDB reclaims memory from the cache for other queries) and `FreeMemory` are the
environment. A value clip is read in two steps while the stage is in use: `CheckClip` is `UsdFileAccess::Check`, which
records a refusal (`usd_file_access.cpp:61-71`, `84-95`), and `OpenClip` the opening of the layer that was let through;
settings may change, and others check the same stage, between the two.

### `UsdPushdown`, `UsdBind`, `UsdProducers`, `UsdTableFunctions`

**Calls.** `call` is a function with parameters, paths, selected columns and filters, one of the constant `Calls`.
`BindCall` parses the options or rejects them; `ListEntry` asks DuckDB for the files of a path and `ValidateFile`
validates the next of them, which may have changed since (`ChangeFile`). A plain path that matched none is validated to
report why (`ReportEntry`), in a step of its own as well. `FinishBind` ends the bind. A filter is the set
of comparisons it is an `OR` of; `PushFilter` is one round of the loop of `UsdScanPushdownComplexFilter`, and
`PushAgain` the optimizer calling it once more.

**Rows.** A producer is a record with the caches it has, and `BeginStage`, `SetTime`, `AddPrim`, `Clear` and `Write` are
operators on it, one per function and collected under *The interface of all producers*. What OpenUSD knows of a file is
the constant `Stages`: prims with their flags, properties, bindings, arcs and relationships. A value OpenUSD computes is
represented by what it was computed from - a world matrix is the set of the ancestors' transforms with the time each
was read at - so that a value from a stale cache differs from a fresh one. `Fill`, `Emit`, `Exhausted`, `TakeMorsel`,
`OpenFile` and `NoMoreFiles` are `UsdScanFunction` and `Next`; other threads may take any morsel or file instead.

**Arcs of instances.** The prims inside all instances of a prototype share one prim index, of the *source* instance
OpenUSD chose. `ComputeArcs` reads it, and `Roots` and `ReplacePrefix` map the paths of the source to the instance.

### `UsdPlugins`

`files` holds each resource of each directory under its path and under the temporary name of each process; `writer[p]`
is the thread that runs `RegisterPlugins` (`step`, the directory, the resource it is at), `load[d]` the `LOAD` of each
database, waiting in `std::call_once` or inside. Any call may fail, up to `MaxFailures` times together with processes
that are killed; a write may also fail unnoticed, when the stream is flushed after it was checked. `registry` says
which directory OpenUSD will read each plugin's resources from, and `read` what it found in them when it built its
schemas, which it does only once. `damaged[p]` is history: the resources that were short in its directory when the
attempt of `p` began and that it has not replaced yet.

## What is checked

| Run | Shows |
|---|---|
| `StageCache` | two queries on one stage of two files, one of which appears later: every safety property of the cache, with evictions and `SET usd_stage_cache = false` at any point |
| `StageCacheQuiet` | the check before a reuse is complete when files change only between openings, for a file that is unreadable at first and a value clip that is read after the stage was cached; and only outdated stages are released |
| `StageCacheOneQuery` | two scans of one query, on two stages that share a file |
| `StageCacheLive` | every call returns, under weak fairness of the threads inside `Open` |
| `LateStamp`, `LateClip` | two ways in which a change is recorded as if it had been read (see below) |
| `DeleteOther` | `RemoveFromObjectCache` deletes an entry that is not the one it was given |
| `Scan` | two threads, three files, every function unit and option: the invariants, the order and the end of a scan |
| `plugins` (`Plugins.cfg`) | two processes, one with two databases, with a shared or a private directory each, load the extension, fail, are killed, exit and try again |
| `stage_sharing` (`StageSharing.cfg`) | two threads of a query open stages that do not fit in the cache together, while another connection turns the cache off and on, external access is turned off and other queries take memory |
| `stage_access` (`StageAccess.cfg`) | two queries, one with two threads, share a stage with a value clip outside the allowed directories, while external access is turned off between any two steps of theirs |
| `table_functions` (`TableFunctions.cfg`) | about 80 calls of all functions with their options and filters on two scenes, while files change |

The central property is `NoSilentlyOldContents`: a scan that was not warned reads every file its stage is composed
from as it was at some moment of the scan's query - or the file changed between being read and being stamped
(`RecordedLate`). `NoSilentlyOldContentsWhenQuiet` has no such exception, and holds when files do not change while
stages are being opened, provided that no stage is composed from a file that another reads as a clip. The others say who
may hold what: `StaleStagesStayPrivate`, `CachedStagesAreStamped`, `ReleasedEntriesLeave`, `ReleasesOnlyOutdatedStages`.

**Findings.** `src/docs/functions.md:423-425` promises that every query that uses a cached stage checks it first, and
that the stage is opened again when any file it read has changed or a missing one now exists. The code compares stamps
taken *after* the file was read: at the first check of the layer (`src/src/usd_stage.cpp:138`), or, for missing files,
just before the stage is cached (`:606`); the exception in `NoSilentlyOldContents` covers both.

- `LateStamp`: the file of a layer changes between being read and being stamped. The newer file is recorded as the one
  that was read, and later queries keep being served the older one.
- `LateClip`: the layer of a value clip is read while a query uses its stage and gets no stamp then. The next query that
  finds the stage in the cache records one when it checks the stage (`:509`): the stamp of the file as it is by now. A
  clip that changed in between passes the check, and the query uses the cached stage with the old clip
  (`CachedStagesInUseAreCurrent`). Here files change only between calls. (The same happens without the cache, when a
  query opens a stage of its own that reuses the clip's layer, still loaded for another query, `:580`.)
- `DeleteOther`: `RemoveFromObjectCache` gets, compares and deletes in steps (`:384`) and can delete an entry another
  query put in between; the consequence is a lost cache entry, never a wrong result.

For `UsdScan` the invariants relate what a thread has buffered to what its producer was told: `RowsOutliveNoStage` (no
row of another stage, or computed with the caches of another one), `RowsShowTheirTime` (the "time" column of each row
is the time it was computed at), `NoRowsWithoutRefusedFiles` (nothing computed without a file that DuckDB may not read
is returned, even when another thread or query met the refusal). `KeepsOrder` and `ScanEnds` are described above.

For `UsdStageSharing`: a call that is alone from its snapshot on keeps cached stages within half of the memory limit
(`LoneCallsKeepTheLimits`); calls that overlap exceed it by at most one stage per thread but one
(`OverlapExceedsByOneStageEach`), because each counts before the others insert; stages are dropped for lack of memory
only, oldest first (`DropsOldestForRoom`). With the cache off, only stages of calls that ran during the `SET` are left
(`OffKeepsOnlyOverlapping`). A query is warned of each stage with composition errors that it reads (`ReadersAreWarned`).

Two properties say what file access promises although a check and the use it guards are two steps. No query that began
with external access off uses a stage with a file outside, from whatever cache the stage comes, except that a stage it
has already may come to use one: when the reader of another query, let through before access was turned off, opens its
value clip (`RestrictedQueriesStayInside`). A stage that was refused a clip serves the queries that had it by then - their
own map hands it to their other threads - or had passed the checks for it, and no other
(`RefusedStagesServeNoNewQuery`).

For `UsdPlugins`: no file in place is still being written (`FilesInPlaceAreFinished`), what a running process
registered stays where it is (`PluginsKeepTheirResources`), a file that a failed write, a killed process or another one
left short is replaced before the next attempt registers the plugins over it (`ShortFilesAreReplaced`), a process that
exits leaves at most the directories of failed attempts (`ExitLeavesOnlyFailedAttempts`), and every `LOAD` returns
(`LoadReturns`).

For a call: the bind lists every file that can be read, in order, and fails otherwise (`BindsEveryReadableFile`); each
row is what a producer of its own would write for the prim at the row's time with all columns selected (`RowsAreFresh`),
and what the producer keeps meanwhile is of the stage it reads and bounded (`CachesStayInBounds`): material bindings and
lists of arcs of prims are those of the morsel, transforms (`src/src/functions/usd_xforms.cpp:93`), collections and the
lists of arcs of prototypes (`usd_composition_arcs.cpp:112-124`) may grow until the next stage, the last by one list for
each prim of a prototype, however many instances there are. `root` selects prims without changing their rows
(`RootOnlySelects`), and prims in instances report their own arcs (`ArcsAreTheirOwn`). A scan that DuckDB runs for two
queries, because it finds their bind data equal, answers both: it makes the rows that the options of the other query ask
for, and reads every property that the filters of the other query keep, whichever of these were pushed down by the time
the data were compared (`EqualScansAnswerBoth`, about `UsdScanOptions::Tie`).

**Observations.** Behaviour the models show that the code accepts, or that a property excepts by name:

- *Warnings.* `src/src/include/usd_stage.hpp:51` speaks of a single warning per query. A query that runs
  `usd_composition_errors` first and another function after it gets none for that stage. One that opens the stage on two
  threads at once gets two, and so may one whose scans follow each other when the stage is not cached in between (the
  setting is off, it does not fit, or it was evicted): the per-query entry is weak.
  `ReadersAreWarned` is what does hold.
- *Refusals stay.* A value clip refused to one query is recorded on the access object of the cached stage
  (`src/src/usd_file_access.cpp:93`): later queries fail as well, as long as the stage is cached.
- *Access checks and their use.* `UsdFileAccess::Check` answers before the layer is opened, and a cached stage is
  returned after its checks. `SET enable_external_access = false` in either gap does not reach the call in it: a clip
  outside that was let through is still opened, also into a stage that a restricted query has got in the meantime, and a
  stage that was refused a clip in the gap is still returned (the scan fails at `src/src/usd_scan.cpp:363` instead).
- *Files that appear during the bind.* A plain path that matched no file when DuckDB listed it and that a file is at
  when it is validated for the error report (`src/src/usd_scan.cpp:256-259`) is left out in silence, or reported as no
  file found if it was the only one.
- *Progress.* The comment at `src/src/usd_scan.cpp:101` calls the result of `Progress` the percentage of files that have
  been scanned, but the last file started always counts as being scanned, so it ends at (n - 1) / n, which is 0 for a
  single file. Nothing depends on it, and it is not modelled.
- *`SET usd_stage_cache = false`* drops the cached stages before the value is stored; a call in between may cache one.
- *Plugins.* The private directory of a failed attempt is forgotten by the next one and stays after the process exits.
  A later attempt does not build OpenUSD's schemas again (it builds them once), so that what `Touch` finds in a process
  says nothing of the files a second attempt has written.
- *Paths of arcs.* `src/docs/functions.md:298` promises that paths on the instance itself are mapped to the instance.
  `ReplacePrefix` also maps two other kinds (`Unmappable`): paths of another layer that happen to begin with the source
  instance's path, and, when both instances have the same last name, paths beside the source instance, as `Roots` drops
  common last names first.
- *`root`* composes only the subtree: `material_found` is false for materials outside it and relationships are not
  forwarded by prims outside it. The source instance of a prototype may be another one without `root`, so that the paths
  of arcs excepted above may be others as well.

**Bounds.** `MaxVersion` (generations of a file): 2 is enough for one change at any moment of any call; every property
compares a generation read with later ones. `StageIds`: 2 for two scans in the runs of safety properties, so that a
cached stage and one that replaces it, or a stage of each call, exist together; 3 in the liveness run, where each call
holds one and one more stays cached. A call waits at `OpenStage` while no identifier is free, which the runs that check
deadlock rule out as a permanent state. (The same instances with 3 identifiers pass, too, with 1.1 to 1.3 million states
each, and the theorems hold for any number.) Two scans suffice for the interleavings of two calls; two keys with a
common file, for layers shared by different stages. Stage identifiers, and where the configuration is symmetric the
scans and connections, are exchanged by `SYMMETRY`, except in the liveness run. `Scan`: two threads (three give no new
outcome in 573,000 states, an instance too large for the liveness check to stay quick); the first file has two runs of
two prims, with a prim of no rows and one of more rows than a chunk; the second lacks the scan's root; the third ends in
a run of one prim and has the value clip; two times; chunks of two rows.

`StageSharing`: three stages of 1, 2 and 2 units in a limit of 4, so that a pair fits in memory and no two fit in the
cache's half; two threads, since the overlap of two calls is what the limits depend on (the bound is stated for any
number); the second connection only changes settings. `StageAccess`: a query with one thread and one with two, so that
the query's own map hands on a stage that its other thread may no longer get from the cache; the stage `k1` has a clip
outside, `k2` is composed from a file outside; no memory pressure and no setting of the cache, which `StageSharing` has
and which only remove stages. `Plugins`: one failure (a failed call, a
killed process, or a short write that goes unnoticed) and any number of exits and repeated `LOAD`s; a schema file, the
`plugInfo.json` it is read through, and one that stands alone. The theorems about `UsdPlugins` hold for any number of
failures and resources. `TableFunctions`: two scenes of 17 prims with three instances of a prototype (two
with the same last name, one at another depth), animated and static ancestors, bindings by collection and by material
on two levels, and the same paths in both scenes so that stale caches would be found by path; morsels of 4 prims and
chunks of 3 rows, so that morsels span chunks and chunks end within a morsel and within a time; each file changes at
most once, since each is looked at three times (listed, validated, opened) and a second change restores at best a state
already tried. The pushdown does not depend on the scenes and is proved for all names and filters.

**Fairness.** `FairSpec` assumes `WF_vars(Work(s))` for each scan: a thread inside `Open` keeps executing, which the
operating system's scheduler provides, as the code holds no lock while it waits for another thread's call. Nothing is
assumed of users (scans begin and queries end when they like), of files or of evictions. Files change at most
`MaxVersion - 1` times in the liveness run. `UsdScan`'s `FairSpec` assumes that each thread's step is taken: DuckDB calls
the scan function until it returns an empty chunk, and the thread inside the mutex is not blocked by another. A query
that DuckDB stops early (a `LIMIT`, an interrupt) is outside `ScanEnds`. `UsdPlugins`' `FairSpec` assumes that a thread
in `RegisterPlugins`, and one that `std::call_once` lets in, keeps running; `call_once` lets a waiting thread in after
an exception, and users need not repeat a failed `LOAD`. `UsdStageSharing` and `UsdTableFunctions` have no liveness
properties.

## What is proved

`UsdStageCacheProofs` proves `TypeCorrect == Spec => []TypeOK` from the module's assumptions on its constants, for any
sets of scans, connections, databases, keys, files and stage identifiers. `TypeOK` is not inductive alone: a step
dereferences local variables of its call (`stage[op[s].ent]`), and nothing in the type of `op` says that they are set
when it does. The invariant proved is `TypeOK /\ CallsOK`, where `CallsOK` states for each step which locals it may
rely on - the key, the cached entry, the handle, the element of a snapshot, the stamp just read. `SettleType` shows that
the reference counting keeps the types whatever the references are; `CallStep`, `QuietStep` and `SettledStep` are the
three shapes of a step, and `TInvStep` has one case per action.

For the same constants, stages opened with outdated layers stay with the query that was warned (`StaleStaysPrivate`, in
the same module) and, assuming that the process has one database, released entries leave the cache (`ReleasedLeave`, in
`UsdStageCacheSafetyProofs`; with two databases, the thread that releases an entry of another one looks for it in the
cache of its own, and leaves it). Both rest on `ReferencesOrderly`, whose invariant `RInv` adds to the types: which
locals a call has at which step (`ShapeOf`); that whatever holds a stage - a call's handle, entry or snapshot, a cache,
a query - holds that of its key and database (`RefsOf`, `CacheOK`, `QueryOK`); that a stage a call composes is in no
cache, snapshot or query and no other call has it (`UnseenOf`); and that a layer is loaded if and only if a stage in use
uses it (`LayersOK`). `StaleStagesStayPrivate` is not inductive: a call would also have to know that the layers it found
outdated (`changed`) are forgotten once it is done with them, since the next stage it returns is marked by them
(`PInv`). `LeavesOK` names the two steps at which a thread may stand that is about to remove an entry. Any of some
thirty actions may free stages and layers, reset queries and expire weak handles, so `Step` states once what a step of
some calls leaves to the others - the stages and layers they use, their entries, what may newly refer to what - and
`RStep`, `PStep` and `LeavesStep` show that the invariants of the others follow; what remains for each action is what it
does to its own call.

On these invariants rest, in `UsdStageCacheSafetyProofs`, those of stamps (`SInv`): a layer was read from a file that
was there, at a generation not after the file's, and its stamp is one the file has had since (`StampsOK`); every file of
a stage that the cache offers has a stamp (`EntriesStamped`); and of each call, how far its checks are - which layers
are left to compare, that the stamp it has read and not yet compared was the file's during its query and since the layer
was read, which missing files are left (`CheckedOf`) - and that the layers and the cached stage it lets go of are
outdated (`ChangedOf`). The last is what other threads could undo: they may release the same layers and read the files
again between the comparison and the release. A weak layer handle then expires (`Remembers`), and what is outdated stays
so while it is in use (`OutdatedStays`), since a layer never changes its generation and generations only grow.
`CachedStamped` and `ReleasesOutdatedOnly` follow.

`NoneSilentlyOld` proves `NoSilentlyOldContents`, the property the checks of `Open` are for. `FInv` says it of every stage
at every step: what a call has checked by now is as it was during its query, or among the layers found outdated
(`CheckedFresh`, with `Unchecked` the files it has yet to look at); a file that a stage failed to load was not there
during the query (`AbsentFresh`), which the opening itself provides, as it starts within the query; a cached stage under
check has all its stamps (`EntryStamped`), or a file would be passed over; and what a query shares was checked by it
(`QueryFresh`). The step that matters is `ComparedLayer`: the stamp read before the lock was the file's at a moment of
the query and not before the layer was read (`SeenOK`), so if it is the recorded one and the record is of the generation
read, the layer shows the file as it was at that moment. Between the check and its use nothing is lost: a weak handle of
an outdated layer expires only with the layer (`Retain`), and the stage holds it.

`NoneOldWhenQuiet` proves the same without the exception (`NoSilentlyOldContentsWhenQuiet`), from two hypotheses.
`QuietWrites` lets files change only while no call is inside `Open`. `ClipsApart` says that no stage is composed from a
file that another reads as a value clip; it is not a convenience: a clip's layer gets no stamp when it is read, and if
its file changes before another key's stage is composed from that same layer, the stamp recorded then is that of the
newer file, as in `LateClip`. (TLC finds that behaviour, too, in an instance with two keys that share such a file.) `QInv`
adds that a layer without a stamp belongs to a stage that a call is composing (`UnstampedOpening`), so that no layer waits
for its stamp when a file changes; that stamps recorded are those of what was read (`LayersTrue`, `MissingTrue`); and that
what a call has read and not yet recorded is still what the files are (`CallTrue`).

`UsdScanProofs` proves `TypeOK`, `RowsOutliveNoStage`, `RowsShowTheirTime` and `NoRowsWithoutRefusedFiles` of `UsdScan`
for any number of threads, files, prims, rows per prim, times, and any size of runs and chunks. The inductive invariant
`SInv` adds to the types: a thread is inside `Next` if and only if it holds the mutex (`MutexOK`); the counters of the
global state agree and the traversal is within its file (`CountersOK`); and for each thread (`LocalOK`), nothing is
buffered while it is inside `Next`, its morsel is a run of prims of its file, which is the one its producer was told of,
the buffered rows are of that file, rows computed without a refused file imply that the refusal is recorded, and the
times column is as long as the buffer and agrees with it. The last is why an alignment error would have to show: rows
and times are appended by one statement and cleared by another, and a chunk is cut from both by the same offset.

`KeepsFileOrder` proves the refinement `KeepsOrder`: whichever threads run a scan, it returns the batches `UsdScanOrder`
allows, in its order and with all their rows. To `SInv` the proof adds `OInv`. What a thread has buffered for its morsel
is the rows of the prims it has done so far, and the batch holds those that are before the row offset, as the buffer is
never compacted (`HoldersOK`); every other batch has all rows of its morsel, or is of a thread that has failed
(`CollectedOK`); each batch is a run of prims of its file at one time, and its index is after those of the runs before it
(`PlacesOK`); and of a file that was dealt and not skipped, each prim behind the traversal's position is in a batch
(`FilesOK`). Then an opened file's first morsel and any later one is a `NewBatch`, a chunk a `Deliver`, a refused file a
`Skip`; the last thread to find no more files makes the `End`, for which `FilesOK` and `CollectedOK` together give every
row; the other steps stutter. It assumes that some thread runs the scan: without any, nothing would ever be returned.

`UsdTableFunctionsProofs` proves that pushed filters never change an answer (`KeepsProperties`) and hold of every row
that is read (`SeesNamedProperties`), for any names, filters, prims and repeated pushdowns. Neither is inductive; the
invariant `PushdownInv` says that the names collected so far include all that every filter of the query accepts, and
only those that the pushable filters looked at accept. It rests on `CollectedNames`: a filter that only compares the
name with constants accepts exactly the names collected from it. `PushdownAssumption` says that properties have valid
names, which OpenUSD enforces, and that `NULL` is no name.

The module then proves `ImplementsPushdown`: every behaviour of a whole call is one of `UsdPushdown`, as no step of the
bind, of the scan or of another thread touches the filters, so both properties hold until the last row
(`ScanKeepsProperties`, `ScanSeesNamedProperties`).

It also proves `BindsReadableFiles`: for any paths, globs, remote paths and files, whatever changes between two steps of
the bind, its list is every readable file in order, or the call has failed. The invariant `BInv` says of the files
accepted so far, followed by those listed and those the remaining paths match, that they still include every file that
is readable, in order (`NoneMissed`), that what is no longer there was rightly passed over (`Fine`), and that a path
whose failure is about to be reported matched nothing but files that changed or could not be read (`Unmatched`). The
facts about `FlattenSeq` it needs are proved from its definition: a smallest list for which one failed would contradict
it.

`EqualScansServeBoth` proves that a scan answers every query whose bind data DuckDB finds equal to its own. `Tie` has the
options, whether property names are filtered, and which names (`src/src/include/usd_scan.hpp:87-91`). Equal options make
equal rows; what could go wrong are the names, which each query collects from filters of its own, pushed down by then or
not. `PushedNamesSuffice` says that the names collected from *some* filters of a query, and all properties if there are
none, include what all its filters keep, so that a scan with the same names reads enough for either.

`ReadsFreshRows` proves `RowsAreFresh`, the property of the whole scan: each row that a chunk returns is the one that a
producer without a past makes of its prim at its time, in every column, whatever stages, options, filters and times.
`UsdProducersProofs` has the part about the producers, none of which has a variable. A producer is in order (`Sound`) if
each of its caches holds only what it is of: of its stage, its time, its prims and its prototypes. Whatever a producer
in order has cached, `AddPrim` keeps it in order and adds the rows it adds to any other producer in order of the same
time that reads the same values (`AddPrimOK`, with a lemma for each function); rows written before stay as they are,
although rows of arcs only point to lists that grow; and so it is after `SetTime` (`SetTimeOK`) and `Clear` (`ClearOK`).
The steps of the scan are then followed by where the call is (`ScanInv`): before the scan there is no producer (`Idle`);
between two morsels it is cleared, for the stage it was told of last (`Resting`); and while it has a morsel, its rows are
those expected of the prims behind `next_prim` at the times behind `time_index` (`Filling`, `Progress`), which are the
beginning of all the morsel's rows, so that each chunk is a run of them. `KeepsInBounds` (what is kept, of which
prims and for how long) and `TypesOfCall` follow from the same invariant.

`ReadsOwnArcs` proves `ArcsAreTheirOwn`: a row that a chunk returns is a row that a producer of its own makes of a prim
(`ReturnedRow`), and that producer makes one row of each arc that is wanted of the prim itself (`FreshArcs`). For a prim
in an instance it reads the arcs of its counterpart in the source instance (`SourceArcs`), which are as many, in the
same order, and differ only in paths on the instance; `Roots` drops the common end of both paths, which is all that is
inside the instances, and possibly more; what it leaves maps each path on the source instance to the one on the prim's
own (`RootsMap`), unless the path is one that the property excepts.

`SelectsRoot` proves `RootOnlySelects`: with `root`, the traversal visits what the one of the whole stage visits below it,
in the same order (`TraversalSelects`), and a producer of its own makes the same rows of each of these prims
(`RowsUnmasked`). No function but those of bounds, relationships, materials and arcs looks at the mask. What is below a
prim below `root` is composed with and without it (`BoundsUnmasked`), relationships that are not forwarded are as
authored, of a material only `material_found` may differ (`MaterialUnmasked`), and the rows of arcs are the prim's own
either way (`ArcsUnmasked`, from `FreshArcs`). It rests on `SubtreeFacts`, that mask and root are both what the call asks
for, and on `StagedOK`: what a bind accepts was readable as a stage when it was validated.

What `UsdBind` and `UsdProducers` assume of their constants is what DuckDB and OpenUSD provide. `BindAssumption`: DuckDB
checked the types of paths and parameters (lists are lists, and only `root` can be a string that is no path), and a path
without wildcards lists one file. `StagesAssumption`: a stage's order lists its prims; instances of a prototype have the
same prims and, apart from the paths of the root layer that are on the instances, the same arcs in the same order
(`ShareArcs`: the source and its counterparts share one prim index). `FunctionsAssumption`: the table functions are
those of the source, those of whole stages are declared so, only `usd_properties`, `usd_xforms` and `usd_bounds` depend
on the time, and no function has an option of its own with the name of a common one; the columns of arcs and of material
bindings are those listed, the columns that a bind declares (`src/src/functions/usd_material_bindings.cpp`,
`usd_composition_arcs.cpp`, where the arc's own columns are one here).

`UsdStageSharingProofs` proves all properties of `UsdStageSharing`, for any number of scans, connections,
databases, keys and stages, and any sizes and limits. The invariant `IInv` says of each call what its locals mean
(`CallOK`: its stage is that of its key and database, the stages of its snapshot are registered stages of its database,
`cached_memory` is their memory), that the stage a call composed is its own until it is cached (`UnseenOK`), and what
the snapshot of a call that nothing disturbed tells of the cache (`RoomOK`: they are the same, so that `fits()` speaks of
the cache itself). Caches and queries hold stages of their keys (`CacheOK`, `QueryOK`); a cached stage is registered or
about to be, and what is registered is cached or held by a call making room (`RegistryOK`). `RestrictedQueriesStayInside`
and `RefusedStagesServeNoNewQuery` are not inductive: they need that all calls of a query began under one setting
(`UnderOK`), and that what a call has found and not used yet, and what the query's own map may hand out later, is as safe
as what its calls use (`KnownOK`); the clip a scan was let through to is opened only while it uses its stage
(`ReadingOK`). `ReadersAreWarned` needs the same of warnings
(`WarningsOK`), and `OffKeepsOnlyOverlapping` that the calls still to insert a stage are late, too (`SettingOK`). Each
step ends by freeing what it leaves unused, so `Settled` first says what a step keeps of the stages in use; for every
action there is then a lemma about what it changes and one that it keeps the invariant. `SharingAssumption` gives the
constants their types, every stage a size above zero, and finitely many stages. That the memory of stages behaves as a
sum - it does not depend on the order, less one stage it is less by that stage's size, and a subset has no more - is
proved in `UsdSumProofs` from the recursive definition of `SumFunctionOnSet`: a smallest subset for which a claim fails
would contradict it, which needs no induction rule.

`OverlapsStayWithin` proves the bound on the memory that overlapping calls may leave cached: half of `memory_limit`, and
one stage for each other thread of the database (`OverlapExceedsByOneStageEach`). Its invariant `OverlapOK` needs no
count of the stages inserted since a snapshot. It says that some call counted all stages that are cached now but the last
one of each thread (`Accounts`): what is left of those it counted, and the last stage of its own thread, are within the
half, and whatever else is cached is the last stage of another thread, at most the largest there is. What carries it from
step to step is that of two snapshots of one cache the later has what the cache still has of the earlier, so that a call
that puts its stage either leaves the account as it is or, having counted more, makes it its own. `SharingAssumption`
has finitely many threads, keys and stages, which the bound speaks of.

`UsdPluginsProofs` proves all safety properties of `UsdPlugins` for any processes, databases, resources, plugins and
failures. The invariant is stated process by process: which threads may be in a `LOAD` (`Threads`), where an attempt
writes (`PlaceOK`), what it has written so far (`WrittenOK`), that private directories are numbered and not there before
they are made (`DirectoriesOK`), and that the directories OpenUSD knows are complete while the process runs
(`RegistryOK`). `ShortFilesAreReplaced` is a part of `WrittenOK`: of the resources that were short when the attempt
began, those that still are come no earlier than the one being written, and an attempt registers after the last.
`AttemptsCounted` bounds the private directories a process makes (`AttemptsAreBounded`, and the types): each attempt but
the last accounts for a failure of its own, a write that failed unnoticed and was noticed later among them.

Every safety property that a passing run checks is proved. Out of the prover's reach, and only model-checked, are liveness
and `ENABLED` (`OpenReturns`, `ScanEnds`, `LoadReturns`).

## What is not modelled

In `UsdScan`: the values in the columns, `Progress`, and a query that stops early. In `UsdTableFunctions`: value clips
refused during the scan (they are in `UsdScan` and `UsdStageSharing`), the threads' own interleaving (in `UsdScan`), an
authored order of properties, collations of the name column, and names that are not UTF-8. In `UsdProducers`: instances
within instances, which share the index of their source as well; columns that only format what OpenUSD says of a prim;
the decomposition of a matrix into its columns; the text of values (JSON), of which only lengths and missing values are
there. `usd_version`, the replacement scan, column names and types, and cardinality estimates have no state.

In `UsdPlugins`: processes with the same process id (`ProcessAssumption`), which can share a directory only across
containers; the order of the calls that touch OpenUSD's file formats and resolver. In `UsdStageSharing`: files that
change, and the resolver.

In `UsdStageCache`: sizes (whether a stage fits in memory is a free choice, and eviction takes entries in any order) and
the value of `usd_stage_cache` (each call may find it on or off), which `UsdStageSharing` has; the text of diagnostics;
the resolver (a missing
file is one that does not exist; that a reference now resolves to another path counts as a change of its stamp). A
change that keeps a file's modification time and size is invisible to the code and not represented: each generation
has a stamp of its own. `Refuse` may happen at any check, as settings may change between queries.

The components are listed with their status in `PROJECT.json`.

## Plan

Written so far: all the modules above, with the theorems listed in `PROJECT.json`. Next, in this order:

1. An abstract cache that reads every file afresh, implemented by `UsdStageCache` when files change only between
   openings.
2. Instances within instances in `UsdProducers`.
