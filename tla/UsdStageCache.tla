--------------------------- MODULE UsdStageCache ---------------------------
(***************************************************************************)
(* How scans open USD stages and share them: UsdStageProvider::Open        *)
(* (src/src/usd_stage.cpp) with everything it calls - the per-query cache, *)
(* the check of a cached stage against its files, the stamps of the loaded *)
(* layers, the release of the stages that hold an outdated layer, the      *)
(* composition of a new stage, and its insertion into DuckDB's object      *)
(* cache.                                                                  *)
(*                                                                         *)
(* Scans run in several threads and interleave at every call that takes a  *)
(* lock or reads a file.  Files change at any time.  A file's contents are *)
(* a generation number; its stamp (modification time and size) tells       *)
(* generations apart, and is 0 when the file does not exist.               *)
(*                                                                         *)
(* One identifier stands for a UsdStageHandle and for the UsdCachedStage   *)
(* made from it.  Shared and weak pointers are modelled by Settle, which   *)
(* every step that may drop a reference ends with: it frees the stages     *)
(* nothing refers to and the layers no stage uses.                         *)
(***************************************************************************)
EXTENDS Integers

CONSTANTS
    Scans,       \* table function scans, each a thread that opens stages
    Conns,       \* connections, each running one query at a time
    ConnOf,      \* the connection of each scan
    Dbs,         \* databases of the process, each with its object cache
    DbOf,        \* the database of each connection
    Keys,        \* cache keys: a root file with its load and mask options
    Files,       \* files
    Root,        \* the root layer's file, for each key
    Uses,        \* the files each key's stage is composed from
    Clips,       \* the files each key's stage reads only when values are read
    MaxVersion,  \* bound: generations of a file
    Lost,        \* pairs <<file, generation>> at which the file does not exist
    Broken,      \* pairs <<file, generation>> at which USD cannot parse the file
    StageIds,    \* bound: stages that exist at once
    None,        \* no stage, key or file
    QuietWrites  \* TRUE: no file changes while a stage is being opened

Version == 1 .. MaxVersion
Stamps == 0 .. MaxVersion
NoStamp == -1      \* no stamp recorded yet

ASSUME ConfigAssumption ==
    /\ ConnOf \in [Scans -> Conns]
    /\ DbOf \in [Conns -> Dbs]
    /\ Root \in [Keys -> Files]
    /\ Uses \in [Keys -> SUBSET Files]
    /\ Clips \in [Keys -> SUBSET Files]
    /\ \A k \in Keys : Root[k] \in Uses[k] /\ Uses[k] \cap Clips[k] = {}

ASSUME BoundAssumption ==
    /\ MaxVersion \in Nat \ {0}
    /\ Lost \subseteq Files \X Version
    /\ Broken \subseteq Files \X Version
    /\ QuietWrites \in BOOLEAN

ASSUME NoneAssumption == None \notin Keys \cup Files \cup StageIds

VARIABLES
    file,      \* generation of each file
    layer,     \* the loaded copy of each file that USD shares between stages
    stage,     \* the stages (and cache entries) that exist
    cache,     \* object cache of each database: key -> stage
    registry,  \* UsdCachedStageRegistry::stages (weak)
    query,     \* UsdQueryStageCache::stages of each connection (weak)
    start,     \* history: the generations when the connection's query began
    changed,   \* ChangedLayers' result, for each scan (weak layer handles)
    op         \* the call to UsdStageProvider::Open each scan is in

vars == <<file, layer, stage, cache, registry, query, start, changed, op>>

-----------------------------------------------------------------------------
(* Files, layers and stages *)

\* (deviation: an error code where the code leaves an empty stamp)
StampAtError(f, v) == IF <<f, v>> \in Lost THEN -2 ELSE v

\* GetFileStamp: the stamp of generation v of f, 0 if there is no such file
StampAt(f, v) == IF <<f, v>> \in Lost THEN 0 ELSE v
Stamp(f) == StampAt(f, file[f])
Readable(f) == <<f, file[f]>> \notin Lost \cup Broken

\* SdfLayer and its entry in UsdLayerStamps: the generation read (0: not
\* loaded) and the stamp recorded for it
NoLayer == [version |-> 0, stamp |-> NoStamp]

\* UsdStageHandle and UsdCachedStage.  `loaded' are the layers the stage uses
\* (GetUsedLayers); `missed' is the stamp each other file had when it failed to
\* load, and `miss' the stamp recorded in missing_assets; `stale' is history:
\* opened with outdated layers, which Open warned about.
StageOf(k, d, gone) ==
    [key |-> k, db |-> d, loaded |-> {}, missed |-> [f \in Files |-> NoStamp],
     miss |-> [f \in Files |-> NoStamp], stale |-> FALSE, released |-> gone]
NewStage(k, d) == StageOf(k, d, FALSE)
ReleasedStage(k, d) == StageOf(k, d, TRUE)
FreeStage == NewStage(None, None)

StageType ==
    [key : Keys \cup {None}, db : Dbs \cup {None}, loaded : SUBSET Files,
     missed : [Files -> Stamps \cup {NoStamp}],
     miss : [Files -> Stamps \cup {NoStamp}], stale : BOOLEAN, released : BOOLEAN]

Steps == {"idle", "lookup", "gethandle", "stat", "compare", "missing", "verify",
          "snapshot", "sweep", "test", "get", "delete", "release", "open", "load",
          "evicting", "record", "add", "using", "done"}

\* Steps of a call to Open that is still running
Opening == Steps \ {"idle", "using", "done"}

\* Which part of the call a shared step belongs to: FindCachedStage, the first
\* or second OpenStage, MakeRoom, or DropCachedStages
Passes == {"cached", "first", "again", "room", "drop"}

\* Locals of a call: `cur' the handle, `ent' the cached entry, `todo' the files
\* left to visit, `at' and `seen' the file being compared and its stamp,
\* `snap' a registry snapshot, `sweep' what is left of it, `vic' its element
OpType ==
    [pc : Steps, pass : Passes, key : Keys \cup {None}, caching : BOOLEAN,
     cur : StageIds \cup {None}, ent : StageIds \cup {None}, todo : SUBSET Files,
     at : Files \cup {None}, seen : Stamps \cup {NoStamp}, snap : SUBSET StageIds,
     sweep : SUBSET StageIds, vic : StageIds \cup {None}]

CallAt(p, k, i) ==
    [pc |-> p, pass |-> "cached", key |-> k, caching |-> FALSE, cur |-> i,
     ent |-> None, todo |-> {}, at |-> None, seen |-> NoStamp, snap |-> {},
     sweep |-> {}, vic |-> None]
NoCall(p) == CallAt(p, None, None)

Conn(s) == ConnOf[s]
Db(s) == DbOf[ConnOf[s]]
QueryIdle(c) == \A s \in Scans : Conn(s) = c => op[s].pc = "idle"

-----------------------------------------------------------------------------
(* References *)

\* Cache entries something refers to, other than the weak registry
Entries == {cache[d][k] : d \in Dbs, k \in Keys}
           \cup UNION {{op[s].ent} \cup op[s].snap : s \in Scans}

\* Stages a thread refers to
Handles == {op[s].cur : s \in Scans}
           \cup {op[s].vic : s \in {t \in Scans : op[t].pc = "test"}}

\* (deviation: changed layers remembered by name)
UnexpiredByName(chg, kept) == chg

\* A weak layer handle expires when its layer is freed, even if the file is
\* loaded again
Unexpired(chg, kept) == [s \in Scans |-> chg[s] \cap kept]

\* The end of every step that may drop a reference, given the stages, layers,
\* registry, query caches and changed layers as the step leaves them
Settle(st, lay, reg, qry, chg) ==
    LET alive == {i \in StageIds :
                    i \in Handles' \/ (i \in Entries' /\ ~st[i].released)}
        kept == {f \in Files : \E i \in alive : f \in st[i].loaded}
    IN  /\ stage' = [i \in StageIds |->
                       IF i \in alive THEN st[i]
                       ELSE IF i \in Entries'
                            THEN ReleasedStage(st[i].key, st[i].db)
                            ELSE FreeStage]
        /\ layer' = [f \in Files |-> IF f \in kept THEN lay[f] ELSE NoLayer]
        /\ registry' = {i \in reg : i \in Entries'}
        /\ query' = [c \in Conns |-> [k \in Keys |->
                       IF qry[c][k] \in alive THEN qry[c][k] ELSE None]]
        /\ changed' = Unexpired(chg, kept)

\* A step that drops no reference
Unsettled == UNCHANGED <<stage, layer, registry, query, changed>>

\* Stages that exist: referred to by a thread, or by an entry not yet released
Alive == {i \in StageIds : i \in Handles \/ (i \in Entries /\ ~stage[i].released)}

-----------------------------------------------------------------------------
Init ==
    /\ file = [f \in Files |-> 1]
    /\ layer = [f \in Files |-> NoLayer]
    /\ stage = [i \in StageIds |-> FreeStage]
    /\ cache = [d \in Dbs |-> [k \in Keys |-> None]]
    /\ registry = {}
    /\ query = [c \in Conns |-> [k \in Keys |-> None]]
    /\ start = [c \in Conns |-> file]
    /\ changed = [s \in Scans |-> {}]
    /\ op = [s \in Scans |-> NoCall("idle")]

\* The call of scan s goes on as c, or at step p
Becomes(s, c) == op' = [op EXCEPT ![s] = c]
Goto(s, p) == Becomes(s, [op[s] EXCEPT !.pc = p])

-----------------------------------------------------------------------------
(* UsdStageProvider::Open: the caches *)

\* A scan of the connection's query needs stage k: the first one starts the
\* query; a stage an earlier scan of the query opened is shared (Find)
BeginScan(s, k) ==
    /\ op[s].pc = "idle"
    /\ start' = [start EXCEPT ![Conn(s)] = IF QueryIdle(Conn(s)) THEN file ELSE @]
    /\ \/ /\ query[Conn(s)][k] # None
          /\ Becomes(s, CallAt("using", k, query[Conn(s)][k]))
       \/ /\ query[Conn(s)][k] = None
          /\ Becomes(s, CallAt("lookup", k, None))
    /\ Unsettled /\ UNCHANGED <<file, cache>>

\* StageCacheEnabled, and the cached entry if the setting is on
Lookup(s) ==
    /\ op[s].pc = "lookup"
    /\ \/ Becomes(s, [op[s] EXCEPT !.pc = "open", !.pass = "first"])
       \/ /\ cache[Db(s)][op[s].key] = None
          /\ Becomes(s, [op[s] EXCEPT !.pc = "open", !.pass = "first", !.caching = TRUE])
       \/ /\ cache[Db(s)][op[s].key] # None
          /\ Becomes(s, [op[s] EXCEPT !.pc = "gethandle", !.caching = TRUE,
                                      !.ent = cache[Db(s)][op[s].key]])
    /\ Unsettled /\ UNCHANGED <<file, cache, start>>

\* GetHandle on the entry found: nullptr if another thread released it
GetHandle(s) ==
    /\ op[s].pc = "gethandle"
    /\ IF stage[op[s].ent].released
       THEN Goto(s, "release")
       ELSE Becomes(s, [op[s] EXCEPT !.pc = "stat", !.cur = op[s].ent,
                                     !.todo = stage[op[s].ent].loaded])
    /\ Unsettled /\ UNCHANGED <<file, cache, start>>

-----------------------------------------------------------------------------
(* ChangedLayers, over the layers in `todo' *)

\* GetFileStamp of one layer's file
ReadStamp(s, f) ==
    /\ op[s].pc = "stat"
    /\ f \in op[s].todo
    /\ Becomes(s, [op[s] EXCEPT !.pc = "compare", !.at = f, !.seen = Stamp(f)])
    /\ Unsettled /\ UNCHANGED <<file, cache, start>>

\* The locked part of UsdLayerStamps::Changed: the first call for a layer records
\* the stamp just read, later ones compare with it
Compare(s) ==
    LET f == op[s].at
    IN  /\ op[s].pc = "compare"
        /\ Becomes(s, [op[s] EXCEPT !.pc = "stat", !.todo = @ \ {f},
                                    !.at = None, !.seen = NoStamp])
        /\ layer' = IF layer[f].stamp = NoStamp
                    THEN [layer EXCEPT ![f].stamp = op[s].seen]
                    ELSE layer
        /\ changed' = IF layer[f].stamp \notin {NoStamp, op[s].seen}
                      THEN [changed EXCEPT ![s] = @ \cup {f}]
                      ELSE changed
        /\ UNCHANGED <<stage, registry, query, file, cache, start>>

\* (deviation: only the loaded layers are checked)
MissingNever(i) == {}

\* The missing_assets of a cached stage
Missing(i) == {f \in Files : stage[i].miss[f] # NoStamp}

\* The missing assets still to check are `rest'
CheckNext(s, rest) ==
    \/ rest = {} /\ Becomes(s, [op[s] EXCEPT !.pc = "verify", !.todo = {}])
    \/ rest # {} /\ Becomes(s, [op[s] EXCEPT !.pc = "missing", !.todo = rest])

\* Every layer compared: an outdated cached stage is let go of before the stages
\* using its changed layers are released; so are those of a stage just opened,
\* which is then opened again, once
Compared(s) ==
    /\ op[s].pc = "stat"
    /\ op[s].todo = {}
    /\ \/ /\ op[s].pass = "cached" /\ changed[s] = {}
          /\ CheckNext(s, Missing(op[s].cur))
       \/ /\ op[s].pass = "cached" /\ changed[s] # {}
          /\ Becomes(s, [op[s] EXCEPT !.pc = "snapshot", !.cur = None])
       \/ /\ op[s].pass = "first" /\ changed[s] # {}
          /\ Goto(s, "snapshot")
       \/ /\ op[s].pass = "again" \/ (op[s].pass = "first" /\ changed[s] = {})
          /\ Goto(s, "verify")
    /\ UNCHANGED <<file, cache, start>>
    /\ Settle(stage, layer, registry, query, changed)

\* MissingAssetsChanged: one asset the cached stage had failed to load
CheckMissing(s, f) ==
    /\ op[s].pc = "missing"
    /\ f \in op[s].todo
    /\ IF Stamp(f) = stage[op[s].cur].miss[f]
       THEN CheckNext(s, op[s].todo \ {f})
       ELSE Becomes(s, [op[s] EXCEPT !.pc = "release", !.todo = {}, !.cur = None])
    /\ UNCHANGED <<file, cache, start>>
    /\ Settle(stage, layer, registry, query, changed)

-----------------------------------------------------------------------------
(* ReleaseStagesUsing the changed layers, and RemoveFromObjectCache *)

Snapshot(s) ==
    /\ op[s].pc = "snapshot"
    /\ Becomes(s, [op[s] EXCEPT !.pc = "sweep", !.snap = registry, !.sweep = registry])
    /\ Unsettled /\ UNCHANGED <<file, cache, start>>

\* GetHandle of the next entry, kept while its layers are looked at
SweepTake(s, v) ==
    /\ op[s].pc = "sweep"
    /\ v \in op[s].sweep
    /\ IF stage[v].released
       THEN Becomes(s, [op[s] EXCEPT !.sweep = @ \ {v}])
       ELSE Becomes(s, [op[s] EXCEPT !.pc = "test", !.sweep = @ \ {v}, !.vic = v])
    /\ Unsettled /\ UNCHANGED <<file, cache, start>>

SweepTest(s) ==
    LET v == op[s].vic
    IN  /\ op[s].pc = "test"
        /\ UNCHANGED <<file, cache, start>>
        /\ IF stage[v].loaded \cap changed[s] = {}
           THEN /\ Becomes(s, [op[s] EXCEPT !.pc = "sweep", !.vic = None])
                /\ Settle(stage, layer, registry, query, changed)
           ELSE /\ Goto(s, "get")
                /\ Settle([stage EXCEPT ![v].released = TRUE],
                          layer, registry, query, changed)

\* (deviation: the entry is released but left in the cache)
ReleaseOnly(s) ==
    /\ op[s].pc = "release"
    /\ Becomes(s, [op[s] EXCEPT !.pc = "open", !.pass = "first", !.ent = None])
    /\ UNCHANGED <<file, cache, start>>
    /\ Settle([stage EXCEPT ![op[s].ent].released = TRUE],
              layer, registry, query, changed)

\* FindCachedStage's own entry, once the sweep is over or was not needed
Release(s) ==
    /\ op[s].pc = "release"
    /\ Becomes(s, [op[s] EXCEPT !.pc = "get", !.pass = "first", !.vic = op[s].ent])
    /\ UNCHANGED <<file, cache, start>>
    /\ Settle([stage EXCEPT ![op[s].ent].released = TRUE],
              layer, registry, query, changed)

\* After RemoveFromObjectCache: FindCachedStage is over, or the next element of
\* the snapshot follows
AfterRemove(s) ==
    \/ /\ op[s].pass = "first" /\ op[s].ent # None
       /\ Becomes(s, [op[s] EXCEPT !.pc = "open", !.ent = None, !.vic = None])
    \/ /\ op[s].pass = "cached" \/ (op[s].pass = "first" /\ op[s].ent = None)
       /\ Becomes(s, [op[s] EXCEPT !.pc = "sweep", !.vic = None])
    \/ /\ op[s].pass \in {"room", "drop"}
       /\ Becomes(s, [op[s] EXCEPT !.pc = "evicting", !.vic = None])

\* RemoveFromObjectCache gets the entry under the key ...
RemoveGet(s) ==
    LET v == op[s].vic
    IN  /\ op[s].pc = "get"
        /\ IF cache[Db(s)][stage[v].key] = v THEN Goto(s, "delete") ELSE AfterRemove(s)
        /\ UNCHANGED <<file, cache, start>>
        /\ Settle(stage, layer, registry, query, changed)

\* ... and, if it is the one meant, deletes what is under the key by then
RemoveDelete(s) ==
    /\ op[s].pc = "delete"
    /\ cache' = [cache EXCEPT ![Db(s)][stage[op[s].vic].key] = None]
    /\ AfterRemove(s)
    /\ UNCHANGED <<file, start>>
    /\ Settle(stage, layer, registry, query, changed)

\* (deviation: opened again until no layer is outdated)
ReopenUntilFresh(s) ==
    Becomes(s, [op[s] EXCEPT !.pc = "open", !.snap = {}, !.cur = None])

\* The outdated stage just opened is dropped, to be opened a second time
Reopen(s) ==
    Becomes(s, [op[s] EXCEPT !.pc = "open", !.pass = "again", !.snap = {}, !.cur = None])

\* The snapshot is dropped
SweepDone(s) ==
    /\ op[s].pc = "sweep"
    /\ op[s].sweep = {}
    /\ \/ /\ op[s].pass = "cached"
          /\ Becomes(s, [op[s] EXCEPT !.pc = "release", !.snap = {}])
       \/ op[s].pass # "cached" /\ Reopen(s)
    /\ UNCHANGED <<file, cache, start>>
    /\ Settle(stage, layer, registry, query, [changed EXCEPT ![s] = {}])

-----------------------------------------------------------------------------
(* OpenStage *)

OpenStage(s) ==
    /\ op[s].pc = "open"
    /\ \E i \in StageIds :
         /\ stage[i].key = None
         /\ Becomes(s, [op[s] EXCEPT !.pc = "load", !.cur = i,
                                     !.todo = Uses[op[s].key]])
         /\ stage' = [stage EXCEPT ![i] = NewStage(op[s].key, Db(s))]
    /\ UNCHANGED <<file, layer, cache, registry, query, start, changed>>

\* The failure of a call, which drops what it holds: the stage cannot be opened
\* or verified, and Next() gives up or skips the file
Fail(s) ==
    /\ Becomes(s, NoCall("done"))
    /\ Settle(stage, layer, registry, query, [changed EXCEPT ![s] = {}])

\* USD composes one more file into stage i: it reuses the loaded copy of the
\* file, or reads the file
Compose(s, f) ==
    /\ layer' = IF layer[f].version = 0
                THEN [layer EXCEPT ![f] = [version |-> file[f], stamp |-> NoStamp]]
                ELSE layer
    /\ stage' = [stage EXCEPT ![op[s].cur].loaded = @ \cup {f}]
    /\ UNCHANGED <<registry, query, changed>>

\* The root layer first; a file that is missing or unreadable is a composition
\* error, unless it is the root layer
LoadFile(s, f) ==
    /\ op[s].pc = "load"
    /\ f \in op[s].todo
    /\ Root[op[s].key] \in op[s].todo => f = Root[op[s].key]
    /\ UNCHANGED <<file, cache, start>>
    /\ \/ /\ layer[f].version # 0 \/ Readable(f)
          /\ Becomes(s, [op[s] EXCEPT !.todo = @ \ {f}])
          /\ Compose(s, f)
       \/ /\ layer[f].version = 0 /\ ~Readable(f)
          /\ f # Root[op[s].key]
          /\ Becomes(s, [op[s] EXCEPT !.todo = @ \ {f}])
          /\ stage' = [stage EXCEPT ![op[s].cur].missed[f] = Stamp(f)]
          /\ UNCHANGED <<layer, registry, query, changed>>
       \/ /\ layer[f].version = 0 /\ ~Readable(f)
          /\ f = Root[op[s].key]
          /\ Fail(s)

Loaded(s) ==
    /\ op[s].pc = "load"
    /\ op[s].todo = {}
    /\ Becomes(s, [op[s] EXCEPT !.pc = "stat", !.todo = stage[op[s].cur].loaded])
    /\ Unsettled /\ UNCHANGED <<file, cache, start>>

\* DuckDB may not access the root file, a file composition read, or (once
\* checked) a layer of the stage: Verify, ThrowIfRefused, VerifyCanAccessLayers
Refuse(s) ==
    /\ \/ op[s].pc \in {"lookup", "verify"}
       \/ op[s].pc = "load" /\ op[s].todo = {}
    /\ UNCHANGED <<file, cache, start>>
    /\ Fail(s)

\* Open returns the handle, after query_stages.Insert; if layers of it are
\* outdated, it warned the query of them
Return(s, reg) ==
    /\ Becomes(s, CallAt("using", op[s].key, op[s].cur))
    /\ Settle([stage EXCEPT ![op[s].cur].stale = changed[s] # {}], layer, reg,
              [query EXCEPT ![Conn(s)][op[s].key] = op[s].cur],
              [changed EXCEPT ![s] = {}])

\* (deviation: a stage with outdated layers is cached as well)
CacheableAlways(s) == op[s].pass # "cached" /\ op[s].caching

\* Open caches a new stage if the setting is on and no layer is outdated
Cacheable(s) == op[s].pass # "cached" /\ op[s].caching /\ changed[s] = {}

\* Otherwise it returns the stage it verified: a cached one, or a new one
Verified(s) ==
    /\ op[s].pc = "verify"
    /\ ~Cacheable(s)
    /\ UNCHANGED <<file, cache, start>>
    /\ Return(s, registry)

-----------------------------------------------------------------------------
(* Caching the stage *)

OwnStages(d) == {i \in registry : stage[i].db = d}

\* MakeRoom: cached stages of this database are removed, one by one, until the
\* new one fits - which, as it depends on memory, it may do at any point
MakeRoom(s) ==
    /\ op[s].pc = "verify"
    /\ Cacheable(s)
    /\ Becomes(s, [op[s] EXCEPT !.pc = "evicting", !.pass = "room",
                                !.snap = OwnStages(Db(s)), !.sweep = OwnStages(Db(s))])
    /\ Unsettled /\ UNCHANGED <<file, cache, start>>

EvictNext(s, v) ==
    /\ op[s].pc = "evicting"
    /\ v \in op[s].sweep
    /\ Becomes(s, [op[s] EXCEPT !.pc = "get", !.sweep = @ \ {v}, !.vic = v])
    /\ Unsettled /\ UNCHANGED <<file, cache, start>>

\* (deviation: missing files are not recorded)
UncomposedIgnored(s) == {}

\* The files composition errors report as missing
Uncomposed(s) == Uses[op[s].key] \ stage[op[s].cur].loaded

Fits(s) ==
    /\ op[s].pc = "evicting"
    /\ op[s].pass = "room"
    /\ Becomes(s, [op[s] EXCEPT !.pc = "record", !.snap = {}, !.sweep = {},
                                !.todo = Uncomposed(s)])
    /\ UNCHANGED <<file, cache, start>>
    /\ Settle(stage, layer, registry, query, changed)

DoesNotFit(s) ==
    /\ op[s].pc = "evicting"
    /\ op[s].pass = "room"
    /\ op[s].sweep = {}
    /\ UNCHANGED <<file, cache, start>>
    /\ Return(s, registry)

\* FindMissingAssets: resolves one missing file and records its stamp
RecordMissing(s, f) ==
    /\ op[s].pc = "record"
    /\ f \in op[s].todo
    /\ Becomes(s, [op[s] EXCEPT !.todo = @ \ {f}])
    /\ stage' = [stage EXCEPT ![op[s].cur].miss[f] = Stamp(f)]
    /\ UNCHANGED <<file, layer, cache, registry, query, start, changed>>

\* PutWithTypePrefix: replaces the entry another scan may have put meanwhile
Put(s) ==
    /\ op[s].pc = "record"
    /\ op[s].todo = {}
    /\ Becomes(s, [op[s] EXCEPT !.pc = "add", !.ent = op[s].cur])
    /\ cache' = [cache EXCEPT ![Db(s)][op[s].key] = op[s].cur]
    /\ UNCHANGED <<file, start>>
    /\ Settle(stage, layer, registry, query, changed)

\* UsdCachedStageRegistry::Add
Add(s) ==
    /\ op[s].pc = "add"
    /\ UNCHANGED <<file, cache, start>>
    /\ Return(s, registry \cup {op[s].cur})

-----------------------------------------------------------------------------
(* The scan after Open, and the end of its query *)

\* Reading a value opens the layers of a value clip; no stamp is recorded
ReadClip(s, f) ==
    /\ op[s].pc = "using"
    /\ f \in Clips[op[s].key] \ stage[op[s].cur].loaded
    /\ layer[f].version # 0 \/ Readable(f)
    /\ Compose(s, f)
    /\ UNCHANGED <<file, cache, start, op>>

FinishScan(s) ==
    /\ op[s].pc = "using"
    /\ Becomes(s, NoCall("done"))
    /\ UNCHANGED <<file, cache, start>>
    /\ Settle(stage, layer, registry, query, changed)

\* (deviation: the query's stages are kept for the next query)
QueryEndKeeps(c) == query

\* UsdQueryStageCache::QueryEnd
QueryEnd(c) == [query EXCEPT ![c] = [k \in Keys |-> None]]

EndQuery(c) ==
    /\ ~QueryIdle(c)
    /\ \A s \in Scans : Conn(s) = c => op[s].pc \in {"idle", "done"}
    /\ op' = [s \in Scans |-> IF Conn(s) = c THEN NoCall("idle") ELSE op[s]]
    /\ start' = [start EXCEPT ![c] = [f \in Files |-> 1]]
    /\ UNCHANGED <<file, cache>>
    /\ Settle(stage, layer, registry, QueryEnd(c), changed)

\* DropCachedStages, by a statement that turns usd_stage_cache off
DropCachedStages(s) ==
    /\ QueryIdle(Conn(s))
    /\ Becomes(s, [op[s] EXCEPT !.pc = "evicting", !.pass = "drop",
                                !.snap = OwnStages(Db(s)), !.sweep = OwnStages(Db(s))])
    /\ start' = [start EXCEPT ![Conn(s)] = file]
    /\ Unsettled /\ UNCHANGED <<file, cache>>

Dropped(s) ==
    /\ op[s].pc = "evicting"
    /\ op[s].pass = "drop"
    /\ op[s].sweep = {}
    /\ Becomes(s, NoCall("done"))
    /\ UNCHANGED <<file, cache, start>>
    /\ Settle(stage, layer, registry, query, changed)

-----------------------------------------------------------------------------
(* The environment *)

\* A file changes, appears or disappears
WriteFile(f) ==
    /\ file[f] < MaxVersion
    /\ QuietWrites => \A s \in Scans : op[s].pc \notin Opening
    /\ file' = [file EXCEPT ![f] = @ + 1]
    /\ UNCHANGED <<layer, stage, cache, registry, query, start, changed, op>>

\* DuckDB evicts a cached stage to reclaim its memory
Evict(d, k) ==
    /\ cache[d][k] # None
    /\ cache' = [cache EXCEPT ![d][k] = None]
    /\ op' = op
    /\ UNCHANGED <<file, start>>
    /\ Settle(stage, layer, registry, query, changed)

-----------------------------------------------------------------------------
Work(s) ==
    \/ Lookup(s) \/ GetHandle(s) \/ Compared(s) \/ Compare(s)
    \/ \E f \in Files : \/ ReadStamp(s, f) \/ CheckMissing(s, f)
                        \/ LoadFile(s, f) \/ RecordMissing(s, f)
    \/ \E v \in StageIds : SweepTake(s, v) \/ EvictNext(s, v)
    \/ Snapshot(s) \/ SweepTest(s) \/ SweepDone(s)
    \/ Release(s) \/ RemoveGet(s) \/ RemoveDelete(s)
    \/ OpenStage(s) \/ Loaded(s) \/ Refuse(s) \/ Verified(s)
    \/ MakeRoom(s) \/ Fits(s) \/ DoesNotFit(s) \/ Put(s) \/ Add(s) \/ Dropped(s)

Next ==
    \/ \E s \in Scans :
         \/ Work(s) \/ FinishScan(s) \/ DropCachedStages(s)
         \/ \E k \in Keys : BeginScan(s, k)
         \/ \E f \in Files : ReadClip(s, f)
    \/ \E c \in Conns : EndQuery(c)
    \/ \E f \in Files : WriteFile(f)
    \/ \E d \in Dbs, k \in Keys : Evict(d, k)

Spec == Init /\ [][Next]_vars

\* A thread inside Open keeps running
FairSpec == Spec /\ \A s \in Scans : WF_vars(Work(s))

-----------------------------------------------------------------------------
(* Properties *)

\* Every variable has its type.
TypeOK ==
    /\ file \in [Files -> Version]
    /\ layer \in [Files -> [version : 0 .. MaxVersion, stamp : Stamps \cup {NoStamp}]]
    /\ stage \in [StageIds -> StageType]
    /\ cache \in [Dbs -> [Keys -> StageIds \cup {None}]]
    /\ registry \in SUBSET StageIds
    /\ query \in [Conns -> [Keys -> StageIds \cup {None}]]
    /\ start \in [Conns -> [Files -> Version]]
    /\ changed \in [Scans -> SUBSET Files]
    /\ op \in [Scans -> OpType]

\* Steps at which a call holds a stage
Holding == {"stat", "compare", "missing", "verify", "load", "record", "add", "using"}

\* Each step finds the locals it reads: the key of the call, the cached entry it
\* found, the stage it holds, the element of the snapshot it visits.
LocalsOf(c) ==
    /\ c.pc \notin {"idle", "done"} /\ c.pass # "drop" => c.key \in Keys
    /\ c.pass = "cached" /\ c.pc \notin {"idle", "lookup", "using", "done"}
         => c.ent \in StageIds
    /\ c.pc \in {"lookup", "gethandle", "missing", "release"} => c.pass = "cached"
    /\ c.pc \in Holding \/ c.pass = "room" => c.cur \in StageIds
    /\ c.pc = "compare" => c.at \in Files /\ c.seen \in Stamps
    /\ c.pc \in {"test", "get", "delete"} => c.vic \in StageIds
    /\ c.pass = "room" => c.pc \in {"evicting", "get", "delete", "record", "add"}
    /\ c.pass = "drop" => c.pc \in {"evicting", "get", "delete"}
    /\ c.pc = "evicting" => c.pass \in {"room", "drop"}

CallsOK == \A s \in Scans : LocalsOf(op[s])

\* What stage i shows of file f: the generation read, or the stamp the file had
\* when it failed to load
Shown(i, f) == IF f \in stage[i].loaded THEN layer[f].version ELSE stage[i].missed[f]

\* The file changed between the moment it was read (or failed to load) and the
\* moment its stamp was recorded, so the record says the newer file was read
RecordedLate(i, f) ==
    LET stamp == IF f \in stage[i].loaded THEN layer[f].stamp ELSE stage[i].miss[f]
    IN  stamp \notin {NoStamp, Shown(i, f)}

\* What stage i shows of f is what f held at some moment of c's running query
Current(c, i, f) ==
    \E v \in start[c][f] .. file[f] : StampAt(f, v) = Shown(i, f)

\* A scan that was not warned of outdated layers reads every file its stage is
\* composed from as the file was at some moment of the scan's query, whatever
\* other scans, evictions and file changes do meanwhile - except a file that
\* changed just before its stamp was recorded.
NoSilentlyOldContents ==
    \A s \in Scans : op[s].pc = "using" /\ ~stage[op[s].cur].stale =>
        \A f \in Uses[op[s].key] :
            Current(Conn(s), op[s].cur, f) \/ RecordedLate(op[s].cur, f)

\* The same with no exception, when files change only between openings and no
\* stage is composed from a file that another reads as a value clip.
NoSilentlyOldContentsWhenQuiet ==
    \A s \in Scans : op[s].pc = "using" /\ ~stage[op[s].cur].stale =>
        \A f \in Uses[op[s].key] : Current(Conn(s), op[s].cur, f)

\* A stage opened with outdated layers stays with the query that was warned of
\* it: no cache entry, and no other connection, ever holds it.
StaleStagesStayPrivate ==
    \A i \in StageIds : i \in Alive /\ stage[i].stale =>
        /\ i \notin Entries
        /\ \A s, t \in Scans : op[s].cur = i /\ op[t].cur = i => Conn(s) = Conn(t)

\* A stage that the cache still offers has, for each file it was composed from, a
\* stamp that the next query's check compares.
CachedStagesAreStamped ==
    \A d \in Dbs, k \in Keys : cache[d][k] # None /\ ~stage[cache[d][k]].released =>
        \A f \in Uses[k] : IF f \in stage[cache[d][k]].loaded
                           THEN layer[f].stamp # NoStamp
                           ELSE stage[cache[d][k]].miss[f] # NoStamp

\* An entry without its stage does not stay in the cache of the process's only
\* database: a thread is about to remove it.
ReleasedEntriesLeave ==
    \A d \in Dbs, k \in Keys : cache[d][k] # None /\ stage[cache[d][k]].released =>
        \E s \in Scans : \/ op[s].vic = cache[d][k]
                         \/ op[s].ent = cache[d][k] /\ op[s].pass = "cached"

\* A file of stage i changed since the stage read it, or one it failed to load
\* was, during c's query, not as it was recorded
Outdated(c, i) ==
    \/ \E f \in stage[i].loaded : layer[f].version # file[f]
    \/ \E f \in Missing(i) : \E v \in start[c][f] .. file[f] :
         StampAt(f, v) # stage[i].miss[f]

\* Only outdated stages are released, although a thread sweeps the registry for
\* layers that other threads may have released and read again meanwhile.
ReleasesOnlyOutdatedStages ==
    [][\A i \in StageIds : ~stage[i].released /\ stage'[i].released =>
         \E s \in Scans : op[s].pc \in {"test", "release"} /\ Outdated(Conn(s), i)]_vars

\* RemoveFromObjectCache "removes `entry' from `object_cache', if it is there"
\* (usd_stage.cpp:382): what it deletes is that entry and no other.
DeletesOnlyItsEntry ==
    \A s \in Scans : op[s].pc = "delete" =>
        cache[Db(s)][stage[op[s].vic].key] \in {op[s].vic, None}

\* docs/functions.md:425: "if any file the stage read has changed ..., the stage
\* is opened again": no query is silently given a file as it was before.
ChangedFilesAreReopened ==
    \A s \in Scans : op[s].pc = "using" /\ ~stage[op[s].cur].stale =>
        \A f \in stage[op[s].cur].loaded : Current(Conn(s), op[s].cur, f)

\* docs/functions.md:423: "Every query that uses a cached stage checks it first: if
\* any file the stage read has changed ..., the stage is opened again".  A cached
\* stage that FindCachedStage found unchanged has only files as they were when the
\* query started, or later.
CachedStagesInUseAreCurrent ==
    \A s \in Scans : op[s].pc = "verify" /\ op[s].pass = "cached" =>
        \A f \in stage[op[s].cur].loaded : Current(Conn(s), op[s].cur, f)

\* Every call to Open (or DropCachedStages) returns or throws, even while other
\* queries keep the old copy of a changed file alive.
OpenReturns == \A s \in Scans : op[s].pc \in Opening ~> op[s].pc \notin Opening
=============================================================================
