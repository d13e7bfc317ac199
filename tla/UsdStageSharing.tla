-------------------------- MODULE UsdStageSharing --------------------------
(***************************************************************************)
(* Who may use a cached stage, for how long, and at what cost: the parts   *)
(* of UsdStageProvider::Open (src/src/usd_stage.cpp) that UsdStageCache    *)
(* leaves open - the memory cached stages take and the order they are      *)
(* dropped in, the usd_stage_cache setting, the file access settings, and  *)
(* the warnings of a query.  Files do not change here, and a call composes *)
(* a stage in one step.  Between the checks of a cached stage and its use, *)
(* and between the check of a value clip and its opening, anything may     *)
(* happen.                                                                 *)
(*                                                                         *)
(* One identifier stands for a UsdStageHandle and for the UsdCachedStage   *)
(* made from it.                                                           *)
(***************************************************************************)
EXTENDS Integers, Sequences, FiniteSets, SequencesExt, FiniteSetsExt, Functions

CONSTANTS
    Scans, Conns, ConnOf, Dbs, DbOf, Keys,  \* as in UsdStageCache
    KeysOf,        \* the stages the queries of each connection read
    Bytes,         \* EstimateStageMemory of each key's stage
    Limit,         \* memory_limit of each database
    WithErrors,    \* keys whose stage has composition errors
    ClipsOutside,  \* keys whose stage has a value clip outside allowed_directories
    RefsOutside,   \* keys whose stage is composed from a file outside
    RootsOutside,  \* those among them whose root file is outside
    Needs,         \* the amounts of memory other queries may use
    Scopes,        \* of SET: "session", "global"
    StageIds,      \* bound: stages that exist at once
    None           \* no stage or key

ASSUME SharingAssumption ==
    /\ ConnOf \in [Scans -> Conns]
    /\ DbOf \in [Conns -> Dbs]
    /\ KeysOf \in [Conns -> SUBSET Keys]
    /\ Bytes \in [Keys -> Nat \ {0}]
    /\ Limit \in [Dbs -> Nat]
    /\ WithErrors \cup ClipsOutside \cup RefsOutside \subseteq Keys
    /\ RootsOutside \subseteq RefsOutside
    /\ Needs \subseteq Nat
    /\ Scopes \subseteq {"session", "global"}
    /\ None \notin Keys \cup Dbs \cup StageIds
    /\ IsFiniteSet(StageIds) /\ IsFiniteSet(Scans)
    /\ IsFiniteSet(Keys) /\ Keys # {}

VARIABLES
    stage,       \* the stages (and cache entries) that exist
    cache,       \* object cache of each database: key -> stage
    registry,    \* UsdCachedStageRegistry::stages (weak)
    last_used,   \* of the cached stages: the pairs <<i, j>>, i last used before j
    query,       \* UsdQueryStageCache::stages of each connection (weak)
    session,     \* usd_stage_cache as each connection has set it
    global,      \* the databases with usd_stage_cache on for other connections
    setting,     \* the SET usd_stage_cache = false each connection is running
    restricted,  \* the databases with enable_external_access off
    used,        \* memory of each database used for other things than cached stages
    op,          \* the scan's call to Open, and its use of the stage
    reading,     \* scans about to open a value clip that was let through
    warned,      \* history: composition warnings of each connection's query
    quiet,       \* history: stages a scan of the query opened without warning
    clips        \* history: what value clips did to stages the query had already

vars == <<stage, cache, registry, last_used, query, session, global, setting,
          restricted, used, op, reading, warned, quiet, clips>>

Conn(s) == ConnOf[s]
Db(s) == DbOf[ConnOf[s]]
Half(d) == Limit[d] \div 2

\* `outside' when the stage uses a layer outside the allowed directories, `refused'
\* when UsdFileAccess refused it one; `late' is history: cached by a call that
\* overlapped a SET usd_stage_cache
StageOf(k, d) ==
    [key |-> k, db |-> d, outside |-> k \in RefsOutside, refused |-> FALSE, late |-> FALSE]
FreeStage == StageOf(None, None)
StageType ==
    [key : Keys \cup {None}, db : Dbs \cup {None}, outside : BOOLEAN, refused : BOOLEAN,
     late : BOOLEAN]

\* Locals of a call: `cur' the stage, `snap' MakeRoom's snapshot, `order' what is
\* left of it once sorted, `bytes' its cached_memory; history: `touched', the stages other
\* calls used since the snapshot, `disturbed' when they changed the cache, `under'
\* when the query began with enable_external_access off
OpType ==
    [pc : {"idle", "lookup", "found", "open", "room", "sort", "evict", "put", "add",
           "using", "done"},
     key : Keys \cup {None}, warns : BOOLEAN, caching : BOOLEAN,
     cur : StageIds \cup {None}, snap : SUBSET StageIds, order : Seq(StageIds), bytes : Nat,
     touched : SUBSET StageIds, disturbed : BOOLEAN, late : BOOLEAN, under : BOOLEAN]
NoCall(p, u) ==
    [pc |-> p, key |-> None, warns |-> FALSE, caching |-> FALSE, cur |-> None,
     snap |-> {}, order |-> <<>>, bytes |-> 0, touched |-> {}, disturbed |-> FALSE, late |-> FALSE,
     under |-> u]

\* Calls that read the setting as on and have not cached their stage yet
Caching(s) == op[s].caching /\ op[s].pc \in {"open", "room", "sort", "evict", "put", "add"}
QueryIdle(c) == \A s \in Scans : Conn(s) = c => op[s].pc = "idle"

Held(o) == o.snap \cup Range(o.order) \cup (IF o.pc \in {"found", "add"} THEN {o.cur} ELSE {})
Entries(ch, o) == {ch[d][k] : d \in Dbs, k \in Keys} \cup UNION {Held(o[s]) : s \in Scans}

\* The end of a step: stages nothing refers to are freed and weak references to
\* them expire
Settle(st, reg, use, qry) ==
    LET entries == Entries(cache', op')
        alive == StageIds \cap (entries \cup {op'[s].cur : s \in Scans})
    IN  /\ stage' = [i \in StageIds |-> IF i \in alive THEN st[i] ELSE FreeStage]
        /\ registry' = reg \cap entries
        /\ last_used' = use \cap (entries \X entries)
        /\ query' = [c \in Conns |-> [k \in Keys |->
                       IF qry[c][k] \in alive THEN qry[c][k] ELSE None]]
SettleOnly == Settle(stage, registry, last_used, query)
NoWarnings == UNCHANGED <<warned, quiet>>
NoClips == UNCHANGED <<reading, clips>>
NoHistory == NoWarnings /\ NoClips
Settings == <<session, global, setting, restricted, used>>

Init ==
    /\ stage = [i \in StageIds |-> FreeStage]
    /\ cache = [d \in Dbs |-> [k \in Keys |-> None]]
    /\ registry = {}
    /\ last_used = {}
    /\ query = [c \in Conns |-> [k \in Keys |-> None]]
    /\ session = [c \in Conns |-> "unset"]
    /\ global = Dbs
    /\ setting = [c \in Conns |-> "none"]
    /\ restricted = {}
    /\ used = [d \in Dbs |-> 0]
    /\ op = [s \in Scans |-> NoCall("idle", FALSE)]
    /\ warned = [c \in Conns |-> [k \in Keys |-> 0]]
    /\ reading = {}
    /\ quiet = [c \in Conns |-> {}]
    /\ clips = [c \in Conns |-> [k \in Keys |-> {}]]

\* Open has returned stage i
Using(s, i) ==
    [NoCall("using", op[s].under) EXCEPT !.key = op[s].key, !.warns = op[s].warns, !.cur = i]

\* The call of s goes on as o; the calls of the same database that are making
\* room notice what it does to the cache (`touch': the stages it touched)
Becomes(s, o) == op' = [op EXCEPT ![s] = o]
BecomesAndDisturbs(s, o, touch) ==
    op' = [t \in Scans |->
             IF t = s THEN o
             ELSE IF op[t].pc \in {"sort", "evict", "put"} /\ Db(t) = Db(s)
                  THEN [op[t] EXCEPT !.touched = @ \cup (touch \cap Held(op[t])),
                                      !.disturbed = TRUE]
                  ELSE op[t]]

-----------------------------------------------------------------------------
(* Open: the query's stages, the setting, the cached stage *)

\* A scan opens its file: UsdQueryStageCache::Find.  The first starts the query.  `w' is
\* warn_on_composition_errors, off for usd_composition_errors (it makes no
\* difference to a stage without errors)
BeginScan(s, k, w) ==
    LET c == Conn(s)
        under == \/ QueryIdle(c) /\ DbOf[c] \in restricted
                 \/ \E t \in Scans : Conn(t) = c /\ op[t].pc # "idle" /\ op[t].under
        call == [NoCall("lookup", under) EXCEPT !.key = k, !.warns = w]
    IN  /\ op[s].pc = "idle" /\ k \in KeysOf[c] /\ (w \/ k \in WithErrors) /\ setting[c] = "none"
        /\ \/ query[c][k] # None /\ Becomes(s, [call EXCEPT !.pc = "using", !.cur = query[c][k]])
           \/ query[c][k] = None /\ Becomes(s, call)
        /\ UNCHANGED cache /\ SettleOnly
        /\ NoHistory /\ UNCHANGED Settings

StageCacheEnabled(c) == session[c] = "on" \/ (session[c] = "unset" /\ DbOf[c] \in global)

Fail(s) == Becomes(s, NoCall("done", op[s].under))

\* LogOpenWarnings, when Open returns stage k to a query from elsewhere than the
\* query's own stages
LogOpenWarnings(s) ==
    LET c == Conn(s)
        k == op[s].key
    IN  /\ warned' = IF op[s].warns /\ k \in WithErrors /\ warned[c][k] < 2
                     THEN [warned EXCEPT ![c][k] = @ + 1] ELSE warned
        /\ quiet' = IF op[s].warns \/ k \notin WithErrors THEN quiet ELSE [quiet EXCEPT ![c] = @ \cup {k}]

\* (deviation: a cached stage is used whatever its access object refused)
RefusalForgotten(i) == FALSE

\* ThrowIfRefused: a refusal is recorded for good
Refused(i) == stage[i].refused

\* (deviation: the layers of a cached stage are not checked again)
AnyLayersAccessible(i) == TRUE

\* VerifyCanAccessLayers
CanAccessLayers(i) == ~(stage[i].outside /\ stage[i].db \in restricted)

\* Touch: i is now used after every other stage
Touch(i) == {p \in last_used : p[1] # i /\ p[2] # i} \cup ((StageIds \ {i}) \X {i})

\* A cached stage that may be used, if the checks say so: FindCachedStage has
\* made them, and holds the entry
Found(s, i) == [op[s] EXCEPT !.pc = "found", !.cur = i]

\* The setting is on, and the call will cache its stage if it opens one
CachingCall(s) ==
    [op[s] EXCEPT !.pc = "open", !.caching = TRUE,
                  !.late = \E c \in Conns : DbOf[c] = Db(s) /\ setting[c] # "none"]

\* UsdFileAccess::Verify of the root file, StageCacheEnabled, and the checks of
\* FindCachedStage
Lookup(s) ==
    LET i == cache[Db(s)][op[s].key]
        verified == ~(Db(s) \in restricted /\ op[s].key \in RootsOutside)
        on == StageCacheEnabled(Conn(s))
        usable == ~Refused(i) /\ CanAccessLayers(i)
    IN  /\ op[s].pc = "lookup"
        /\ \/ verified /\ on /\ i # None /\ usable /\ Becomes(s, Found(s, i))
           \/ verified /\ ~on /\ Becomes(s, [op[s] EXCEPT !.pc = "open"])
           \/ verified /\ on /\ i = None /\ Becomes(s, CachingCall(s))
           \/ verified /\ on /\ i # None /\ ~usable /\ Fail(s)
           \/ ~verified /\ Fail(s)
        /\ UNCHANGED cache /\ SettleOnly
        /\ NoHistory /\ UNCHANGED Settings

\* (deviation: a cached stage is returned without its warnings)
FindSilently(s) ==
    LET i == op[s].cur
    IN  /\ op[s].pc = "found"
        /\ BecomesAndDisturbs(s, Using(s, i), {i})
        /\ UNCHANGED cache
        /\ Settle(stage, registry, Touch(i), [query EXCEPT ![Conn(s)][op[s].key] = i])
        /\ NoHistory /\ UNCHANGED Settings

\* The checks have passed: the stage is Touched, warned of and returned, whatever
\* happened to it since
Find(s) ==
    LET i == op[s].cur
    IN  /\ op[s].pc = "found"
        /\ BecomesAndDisturbs(s, Using(s, i), {i})
        /\ UNCHANGED cache
        /\ Settle(stage, registry, Touch(i), [query EXCEPT ![Conn(s)][op[s].key] = i])
        /\ LogOpenWarnings(s)
        /\ NoClips /\ UNCHANGED Settings

\* OpenStage and LogOpenWarnings; without the cache, Open returns the stage
OpenStage(s) ==
    /\ op[s].pc = "open"
    /\ ~(Db(s) \in restricted /\ op[s].key \in RefsOutside)
    /\ \E i \in {j \in StageIds : stage[j] = FreeStage} :
         /\ Becomes(s, IF op[s].caching THEN [op[s] EXCEPT !.pc = "room", !.cur = i] ELSE Using(s, i))
         /\ UNCHANGED cache
         /\ Settle([stage EXCEPT ![i] = StageOf(op[s].key, Db(s))], registry, last_used,
                   IF op[s].caching THEN query ELSE [query EXCEPT ![Conn(s)][op[s].key] = i])
    /\ LogOpenWarnings(s)
    /\ NoClips /\ UNCHANGED Settings

\* ThrowIfRefused, when composing the stage needed a file outside
OpenRefused(s) ==
    /\ op[s].pc = "open" /\ Db(s) \in restricted /\ op[s].key \in RefsOutside
    /\ Fail(s)
    /\ UNCHANGED cache /\ SettleOnly
    /\ NoHistory /\ UNCHANGED Settings

-----------------------------------------------------------------------------
(* MakeRoom *)

BytesOf(ids) == SumFunctionOnSet([i \in ids |-> Bytes[stage[i].key]], ids)
CachedBytes(d) == BytesOf(Range(cache[d]) \ {None})

\* GetUsedMemory: DuckDB counts the entries of its object cache
UsedMemory(d) == used[d] + CachedBytes(d)

\* BelongsTo the UsdStageCacheOwner of the database's object cache
OwnStages(d) == {i \in registry : stage[i].db = d}

\* (deviation: stages that left the cache meanwhile do not count)
BytesStillCached(own) == BytesOf({i \in own : cache[stage[i].db][stage[i].key] = i})

\* cached_memory counts every stage of the snapshot
BytesCounted(own) == BytesOf(own)

\* The snapshot of the registry, and the sizes of the database's own stages
MakeRoom(s) ==
    LET own == OwnStages(Db(s))
        others == \E t \in Scans \ {s} : Db(t) = Db(s) /\ op[t].pc \in {"found", "sort", "evict", "put", "add"}
    IN  /\ op[s].pc = "room"
        /\ Becomes(s, [op[s] EXCEPT !.pc = "sort", !.bytes = BytesCounted(own),
                                    !.snap = own, !.disturbed = others])
        /\ UNCHANGED cache /\ SettleOnly
        /\ NoHistory /\ UNCHANGED Settings

\* (deviation: the most recently used stages first)
LatestFirst(own) ==
    {o \in SetToSeqs(own) : \A m, n \in DOMAIN o : m < n => <<o[n], o[m]>> \in last_used}

\* The orders std::sort may give the stages: that of last_used
Sorted(own) ==
    {o \in SetToSeqs(own) : \A m, n \in DOMAIN o : m < n => <<o[m], o[n]>> \in last_used}

\* If last_used changes while it compares, the order is any
Sort(s) ==
    /\ op[s].pc = "sort"
    /\ \E order \in IF op[s].touched = {} THEN Sorted(op[s].snap) ELSE SetToSeqs(op[s].snap) :
         Becomes(s, [op[s] EXCEPT !.pc = "evict", !.snap = {}, !.order = order])
    /\ UNCHANGED cache /\ SettleOnly
    /\ NoHistory /\ UNCHANGED Settings

\* (deviation: the new stage is left out)
FitsWithout(s) ==
    /\ op[s].bytes <= Half(Db(s))
    /\ UsedMemory(Db(s)) <= Limit[Db(s)]

\* MakeRoom's fits()
Fits(s) ==
    /\ op[s].bytes + Bytes[op[s].key] <= Half(Db(s))
    /\ UsedMemory(Db(s)) + Bytes[op[s].key] <= Limit[Db(s)]

\* RemoveFromObjectCache, for the first stage left
Evict(s) ==
    LET i == Head(op[s].order)
        k == stage[i].key
        there == cache[Db(s)][k] = i
    IN  /\ op[s].pc = "evict" /\ ~Fits(s) /\ op[s].order # <<>>
        /\ cache' = IF there THEN [cache EXCEPT ![Db(s)][k] = None] ELSE cache
        /\ BecomesAndDisturbs(s, [op[s] EXCEPT !.order = Tail(@), !.bytes = @ - Bytes[k]], {})
        /\ SettleOnly
        /\ NoHistory /\ UNCHANGED Settings

\* The stage fits, or no stage is left to remove: it is then not cached
RoomMade(s) ==
    /\ op[s].pc = "evict" /\ (Fits(s) \/ op[s].order = <<>>)
    /\ UNCHANGED cache
    /\ IF Fits(s)
       THEN Becomes(s, [op[s] EXCEPT !.pc = "put", !.order = <<>>]) /\ SettleOnly
       ELSE /\ Becomes(s, Using(s, op[s].cur))
            /\ Settle(stage, registry, last_used, [query EXCEPT ![Conn(s)][op[s].key] = op[s].cur])
    /\ NoHistory /\ UNCHANGED Settings

\* PutWithTypePrefix of a new UsdCachedStage, which is Touched
Put(s) ==
    LET i == op[s].cur
    IN  /\ op[s].pc = "put"
        /\ cache' = [cache EXCEPT ![Db(s)][op[s].key] = i]
        /\ BecomesAndDisturbs(s, [op[s] EXCEPT !.pc = "add"], {})
        /\ Settle(stage, registry, Touch(i), query)
        /\ NoHistory /\ UNCHANGED Settings

\* UsdCachedStageRegistry::Add, and query_stages.Insert
Add(s) ==
    /\ op[s].pc = "add"
    /\ BecomesAndDisturbs(s, Using(s, op[s].cur), {})
    /\ UNCHANGED cache
    /\ Settle([stage EXCEPT ![op[s].cur].late = op[s].late], registry \cup {op[s].cur}, last_used,
              [query EXCEPT ![Conn(s)][op[s].key] = op[s].cur])
    /\ NoHistory /\ UNCHANGED Settings

-----------------------------------------------------------------------------
(* The scan, and the end of its query *)

\* The queries that have stage i, and what a value clip does to it while they do
Given(i) == {c \in Conns : \/ \E k \in Keys : query[c][k] = i
                           \/ \E s \in Scans : Conn(s) = c /\ op[s].cur = i}
Meet(i, what) ==
    clips' = [c \in Conns |-> IF c \in Given(i) THEN [clips[c] EXCEPT ![stage[i].key] = @ \cup {what}]
                              ELSE clips[c]]

\* Reading a value needs a value clip outside the allowed directories, of which
\* UsdFileAccess::Check records the refusal
CheckClip(s) ==
    LET i == op[s].cur
    IN  /\ op[s].pc = "using" /\ op[s].key \in ClipsOutside /\ s \notin reading
        /\ ~stage[i].outside /\ ~stage[i].refused
        /\ UNCHANGED <<op, cache>>
        /\ IF Db(s) \in restricted
           THEN /\ Settle([stage EXCEPT ![i].refused = TRUE], registry, last_used, query)
                /\ Meet(i, "refused") /\ UNCHANGED reading
           ELSE /\ reading' = reading \cup {s}
                /\ SettleOnly /\ UNCHANGED clips
        /\ NoWarnings /\ UNCHANGED Settings

\* The clip that was let through is opened
OpenClip(s) ==
    LET i == op[s].cur
    IN  /\ s \in reading
        /\ reading' = reading \ {s}
        /\ UNCHANGED <<op, cache>>
        /\ Settle([stage EXCEPT ![i].outside = TRUE], registry, last_used, query)
        /\ IF stage[i].outside THEN UNCHANGED clips ELSE Meet(i, "outside")
        /\ NoWarnings /\ UNCHANGED Settings

\* The scan has returned the rows of the file, or failed, and lets go of its stage
FinishScan(s) ==
    /\ op[s].pc = "using" /\ s \notin reading
    /\ Becomes(s, NoCall("done", op[s].under))
    /\ UNCHANGED cache /\ SettleOnly
    /\ NoHistory /\ UNCHANGED Settings

\* UsdQueryStageCache::QueryEnd
QueryEnd(c) == [query EXCEPT ![c] = [k \in Keys |-> None]]

EndQuery(c) ==
    /\ ~QueryIdle(c)
    /\ \A s \in Scans : Conn(s) = c => op[s].pc \in {"idle", "done"}
    /\ op' = [s \in Scans |-> IF Conn(s) = c THEN NoCall("idle", FALSE) ELSE op[s]]
    /\ UNCHANGED cache
    /\ Settle(stage, registry, last_used, QueryEnd(c))
    /\ warned' = [warned EXCEPT ![c] = [k \in Keys |-> 0]]
    /\ quiet' = [quiet EXCEPT ![c] = {}]
    /\ clips' = [clips EXCEPT ![c] = [k \in Keys |-> {}]]
    /\ UNCHANGED reading /\ UNCHANGED Settings

-----------------------------------------------------------------------------
(* SET, and DuckDB's memory *)

\* Calls of database d that overlap a SET usd_stage_cache = false are marked
Overlapping(d) ==
    op' = [s \in Scans |-> IF Db(s) = d /\ Caching(s)
                           THEN [op[s] EXCEPT !.late = TRUE, !.disturbed = TRUE] ELSE op[s]]

\* (deviation: stages that queries use stay in the cache)
DroppedUnused(d) == {i \in OwnStages(d) : \A s \in Scans : op[s].cur # i}

\* DropCachedStages
DroppedStages(d) == OwnStages(d)

\* SetStageCache, which DuckDB calls before it stores the new value: turning the
\* cache off drops the database's registered stages
SetStageCache(c, scope) ==
    LET d == DbOf[c]
    IN  /\ QueryIdle(c) /\ setting[c] = "none" /\ StageCacheEnabled(c)
        /\ setting' = [setting EXCEPT ![c] = scope]
        /\ cache' = [cache EXCEPT ![d] = [k \in Keys |->
                       IF @[k] \in DroppedStages(d) THEN None ELSE @[k]]]
        /\ Overlapping(d)
        /\ SettleOnly
        /\ NoHistory /\ UNCHANGED <<session, global, restricted, used>>

\* The value is stored, for the connection or for those that have none of their own
StoreSetting(c) ==
    LET d == DbOf[c]
    IN  /\ setting[c] # "none"
        /\ setting' = [setting EXCEPT ![c] = "none"]
        /\ session' = IF setting[c] = "session" THEN [session EXCEPT ![c] = "off"] ELSE session
        /\ global' = IF setting[c] = "global" THEN global \ {d} ELSE global
        /\ UNCHANGED <<stage, cache, registry, last_used, query, restricted, used, op>>
        /\ NoHistory

\* SET usd_stage_cache = true
EnableCache(c, scope) ==
    /\ QueryIdle(c) /\ setting[c] = "none" /\ ~StageCacheEnabled(c)
    /\ session' = IF scope = "session" THEN [session EXCEPT ![c] = "on"] ELSE session
    /\ global' = IF scope = "global" THEN global \cup {DbOf[c]} ELSE global
    /\ UNCHANGED <<stage, cache, registry, last_used, query, setting, restricted, used, op>>
    /\ NoHistory

\* SET enable_external_access = false, which cannot be undone
RestrictAccess(d) ==
    /\ d \notin restricted
    /\ restricted' = restricted \cup {d}
    /\ UNCHANGED <<stage, cache, registry, last_used, query, session, global, setting, used, op>>
    /\ NoHistory

\* Other queries need n bytes, for which DuckDB evicts all but some `kept' stages
UseMemory(d, n, kept) ==
    /\ used[d] = 0 /\ n <= Limit[d]
    /\ used' = [used EXCEPT ![d] = n]
    /\ n + BytesOf({cache[d][k] : k \in kept} \ {None}) <= Limit[d]
    /\ cache' = [cache EXCEPT ![d] = [k \in Keys |-> IF k \in kept THEN @[k] ELSE None]]
    /\ op' = [s \in Scans |-> IF Db(s) = d THEN [op[s] EXCEPT !.disturbed = Caching(s)] ELSE op[s]]
    /\ SettleOnly
    /\ NoHistory /\ UNCHANGED <<session, global, setting, restricted>>

FreeMemory(d) ==
    /\ used[d] # 0
    /\ used' = [used EXCEPT ![d] = 0]
    /\ UNCHANGED <<stage, cache, registry, last_used, query, session, global, setting,
                   restricted, op>>
    /\ NoHistory

-----------------------------------------------------------------------------
Work(s) ==
    Lookup(s) \/ Find(s) \/ OpenStage(s) \/ OpenRefused(s) \/ MakeRoom(s) \/ Sort(s)
    \/ Evict(s) \/ RoomMade(s) \/ Put(s) \/ Add(s)

Next ==
    \/ \E s \in Scans : \/ Work(s) \/ CheckClip(s) \/ OpenClip(s) \/ FinishScan(s)
                        \/ \E k \in Keys, w \in BOOLEAN : BeginScan(s, k, w)
    \/ \E c \in Conns : EndQuery(c) \/ StoreSetting(c)
    \/ \E c \in Conns, scope \in Scopes : SetStageCache(c, scope) \/ EnableCache(c, scope)
    \/ \E d \in Dbs : \/ RestrictAccess(d) \/ FreeMemory(d)
                      \/ \E n \in Needs, kept \in SUBSET Keys : UseMemory(d, n, kept)

Spec == Init /\ [][Next]_vars
-----------------------------------------------------------------------------
(* Properties *)

\* Every variable has its type.
TypeOK ==
    /\ stage \in [StageIds -> StageType]
    /\ cache \in [Dbs -> [Keys -> StageIds \cup {None}]]
    /\ registry \subseteq StageIds
    /\ last_used \subseteq StageIds \X StageIds
    /\ query \in [Conns -> [Keys -> StageIds \cup {None}]]
    /\ session \in [Conns -> {"on", "off", "unset"}]
    /\ global \subseteq Dbs
    /\ setting \in [Conns -> {"none", "session", "global"}]
    /\ restricted \subseteq Dbs
    /\ used \in [Dbs -> Nat]
    /\ op \in [Scans -> OpType]
    /\ warned \in [Conns -> [Keys -> 0 .. 2]]
    /\ reading \subseteq Scans
    /\ quiet \in [Conns -> SUBSET Keys]
    /\ clips \in [Conns -> [Keys -> SUBSET {"outside", "refused"}]]

\* "Cached stages take at most half of memory_limit, and never push DuckDB over
\* the limit" (usd_stage.cpp:390): a call that caches its stage keeps to both, if
\* from its snapshot on no other call, eviction or SET changed what it counted
LoneCallsKeepTheLimits ==
    [][\A s \in Scans : op[s].pc = "put" /\ op'[s].pc = "add" /\ ~op[s].disturbed =>
         /\ CachedBytes(Db(s))' <= Half(Db(s))
         /\ UsedMemory(Db(s))' <= Limit[Db(s)]]_vars

\* Calls that overlap can together exceed the half, since each counts before the
\* others insert: by no more than one stage for each thread but one, however
\* many calls follow each other
OverlapExceedsByOneStageEach ==
    \A d \in {Db(s) : s \in Scans} :
        CachedBytes(d) <= Half(d) + (Cardinality({s \in Scans : Db(s) = d}) - 1) *
                                    Max({Bytes[k] : k \in Keys})

\* "when a newly opened stage does not fit, the least recently used ones are
\* dropped" (docs/functions.md:431): a stage is dropped only for lack of memory
\* of its own database, and before those used later - unless calls of other
\* threads used or changed the cached stages meanwhile
DropsOldestForRoom ==
    [][\A s \in Scans : op[s].pc = "evict" /\ Len(op'[s].order) < Len(op[s].order)
                        /\ op'[s].pc = "evict" =>
         /\ ~op[s].disturbed =>
              \/ CachedBytes(Db(s)) + Bytes[op[s].key] > Half(Db(s))
              \/ UsedMemory(Db(s)) + Bytes[op[s].key] > Limit[Db(s)]
         /\ op[s].touched = {} =>
              \A i \in Range(op'[s].order) : <<Head(op[s].order), i>> \in last_used]_vars

\* "Setting it to false also frees the stages already cached" (docs/functions.md:436):
\* while the setting is off for every connection of a database, its cache holds
\* no stage but those of calls to Open that ran while the setting was changed
OffKeepsOnlyOverlapping ==
    \A d \in Dbs :
        (\A c \in Conns : DbOf[c] = d => ~StageCacheEnabled(c) /\ setting[c] = "none") =>
            \A k \in Keys : cache[d][k] # None =>
                \/ stage[cache[d][k]].late
                \/ \E s \in Scans : op[s].pc = "add" /\ op[s].late /\ op[s].cur = cache[d][k]

\* A query that began with external access off is given no stage that uses a file
\* outside the allowed directories, from whatever cache it comes, even if access
\* was turned off while other queries opened, checked or cached it
\* (usd_stage.cpp:476, 512).  One case is left: a stage it has already comes to use
\* one when the reader of another query, let through before, opens its value clip
RestrictedQueriesStayInside ==
    \A s \in Scans : op[s].pc = "using" /\ op[s].under /\ stage[op[s].cur].outside =>
        "outside" \in clips[Conn(s)][op[s].key]

\* A stage whose access object has refused it a file (usd_file_access.cpp:93) serves
\* the queries that had it by then or had passed the checks for it, through their own
\* maps too, and no other, however long it stays cached (usd_stage.cpp:511)
RefusedStagesServeNoNewQuery ==
    \A s \in Scans : op[s].pc = "using" /\ stage[op[s].cur].refused =>
        "refused" \in clips[Conn(s)][op[s].key]

\* "Logs a single warning per query if the stage has composition errors"
\* (usd_stage.hpp:52): a query whose functions warn is warned of each stage it
\* reads that has composition errors, unless usd_composition_errors, which does
\* not warn, opened the stage before
ReadersAreWarned ==
    \A s \in Scans : op[s].pc = "using" /\ op[s].key \in WithErrors /\ op[s].warns =>
        warned[Conn(s)][op[s].key] > 0 \/ op[s].key \in quiet[Conn(s)]
=============================================================================
