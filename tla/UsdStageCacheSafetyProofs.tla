--------------------- MODULE UsdStageCacheSafetyProofs ---------------------
(***************************************************************************)
(* Safety of UsdStageCache, from the invariant of its references in        *)
(* UsdStageCacheProofs.  For each action there is a lemma for each further *)
(* layer of the invariant: on the entries that leave the cache             *)
(* (...Leaves), on stamps (...Stamps), and on what a scan reads            *)
(* (...Fresh).  The lemmas ...Flows say how a step moves files, layers and *)
(* the times queries began.                                                *)
(***************************************************************************)
EXTENDS UsdStageCacheProofs

(* Released entries *)

\* A thread is about to remove each entry without its stage
LeavesOK ==
    \A d \in Dbs, k \in Keys : cache[d][k] # None /\ stage[cache[d][k]].released =>
        \E s \in Scans : op[s].pc \in {"get", "delete"} /\ op[s].vic = cache[d][k]

\* The process has one database
OneDatabase == \A d, e \in Dbs : d = e

\* What a step leaves in the caches is what they held, or not released
EntriesFrom ==
    \A d \in Dbs, k \in Keys : cache'[d][k] # None /\ stage'[cache'[d][k]].released =>
        cache'[d][k] = cache[d][k] /\ stage[cache[d][k]].released

LEMMA LeavesStep ==
    ASSUME LeavesOK, NEW A \in SUBSET Scans, Waiting(A), EntriesFrom,
           \A u \in A : op[u].pc \notin {"get", "delete"}
    PROVE  LeavesOK'
<1> SUFFICES ASSUME NEW d \in Dbs, NEW k \in Keys,
                    cache'[d][k] # None, stage'[cache'[d][k]].released
             PROVE  \E s \in Scans : op'[s].pc \in {"get", "delete"} /\ op'[s].vic = cache'[d][k]
  BY DEF LeavesOK
<1>1. cache'[d][k] = cache[d][k] /\ stage[cache[d][k]].released
  BY DEF EntriesFrom
<1>2. PICK s \in Scans : op[s].pc \in {"get", "delete"} /\ op[s].vic = cache[d][k]
  BY <1>1 DEF LeavesOK
<1> QED BY <1>1, <1>2 DEF Waiting

\* A step that ends in Settle releases no stage but those it is told to
LEMMA SettledReleases ==
    ASSUME TypeOK', NEW st \in [StageIds -> StageType], NEW lay, NEW reg, NEW qry, NEW chg,
           Settle(st, lay, reg, qry, chg),
           NEW d \in Dbs, NEW k \in Keys, cache'[d][k] # None, stage'[cache'[d][k]].released
    PROVE  cache'[d][k] \in StageIds /\ st[cache'[d][k]].released
<1>1. cache'[d][k] \in StageIds
  BY DEF TypeOK
<1>2. cache'[d][k] \in Entries'
  BY EntriesNext
<1>3. \A i \in StageIds : i \in Entries' /\ stage'[i].released => st[i].released
  BY SettleFacts
<1> QED BY <1>1, <1>2, <1>3

LEMMA DropsEntries ==
    ASSUME TInv, TypeOK', NEW lay, NEW reg, NEW qry, NEW chg, Settle(stage, lay, reg, qry, chg),
           \A d \in Dbs, k \in Keys : cache'[d][k] \in {None, cache[d][k]}
    PROVE  EntriesFrom
<1>1. stage \in [StageIds -> StageType]
  BY DEF TInv, TypeOK
<1> QED BY <1>1, SettledReleases DEF EntriesFrom

\* What each action does to the entries: those of a call that is not at `get' or
\* `delete'
LEMMA UnsettledEntries ==
    ASSUME stage' = stage, cache' = cache PROVE EntriesFrom
BY DEF EntriesFrom

LEMMA ReturnEntries ==
    ASSUME RInv, TypeOK', NEW s \in Scans, NEW reg, Return(s, reg), cache' = cache
    PROVE  EntriesFrom
<1> DEFINE b == changed[s] # {}
           st == [stage EXCEPT ![op[s].cur].stale = b]
           qry == [query EXCEPT ![Conn(s)][op[s].key] = op[s].cur]
           chg == [changed EXCEPT ![s] = {}]
<1>1. Settle(st, layer, reg, qry, chg)
  BY DEF Return
<1>2. b \in BOOLEAN /\ stage \in [StageIds -> StageType]
  BY DEF RInv, TInv, TypeOK
<1> HIDE DEF b, qry, chg
<1>3. \A i \in StageIds : [stage[i] EXCEPT !.stale = b] \in StageType
                          /\ [stage[i] EXCEPT !.stale = b].released = stage[i].released
  BY <1>2 DEF StageType
<1>4. /\ st \in [StageIds -> StageType]
      /\ \A i \in StageIds : st[i].released = stage[i].released
  BY <1>2, <1>3
<1> HIDE DEF st
<1> QED BY <1>1, <1>4, SettledReleases DEF EntriesFrom

LEMMA EditedEntries ==
    ASSUME TypeOK', cache' = cache, \A i \in StageIds : stage'[i].released = stage[i].released
    PROVE  EntriesFrom
BY DEF EntriesFrom, TypeOK

LEMMA SweepTestLeaves ==
    ASSUME RInv, TypeOK', LeavesOK, NEW s \in Scans, SweepTest(s)
    PROVE  LeavesOK'
<1>0. TInv /\ Facts(s) /\ stage \in [StageIds -> StageType]
  BY HasFacts DEF RInv, TInv, TypeOK
<1>1. Waiting({s}) /\ op[s].pc = "test" /\ cache' = cache
  BY <1>0, SweepTestCall DEF SweepTest
<1>2. CASE Settle(stage, layer, registry, query, changed)
  <2>1. EntriesFrom
    BY <1>0, <1>1, <1>2, DropsEntries
  <2>2. {s} \in SUBSET Scans
    OBVIOUS
  <2> QED BY <1>1, <2>1, <2>2, LeavesStep
<1>3. CASE /\ stage[op[s].vic].loaded \cap changed[s] # {}
           /\ Settle([stage EXCEPT ![op[s].vic].released = TRUE], layer, registry, query, changed)
  <2> DEFINE v == op[s].vic
             st == [stage EXCEPT ![v].released = TRUE]
  <2>1. v \in StageIds
    BY <1>0, <1>1 DEF Facts, LocalsOf
  <2>2. st \in [StageIds -> StageType] /\ \A i \in StageIds \ {v} : st[i] = stage[i]
    BY <1>0, <2>1, ReleaseUpdate
  <2>3. op'[s].pc = "get" /\ op'[s].vic = v
    <3>1. At(s, "get", op[s].pass) /\ VisitsStill(s)
      BY <1>0, <1>3, SweepTestCall
    <3> QED BY <3>1 DEF At, VisitsStill, Visits
  <2> HIDE DEF st, v
  <2> SUFFICES ASSUME NEW d \in Dbs, NEW k \in Keys,
                      cache'[d][k] # None, stage'[cache'[d][k]].released
               PROVE  \E t \in Scans : op'[t].pc \in {"get", "delete"} /\ op'[t].vic = cache'[d][k]
    BY DEF LeavesOK
  <2>4. CASE cache[d][k] = v
    BY <1>1, <2>3, <2>4
  <2>5. CASE cache[d][k] # v
    <3>0. Settle(st, layer, registry, query, changed)
      BY <1>3 DEF st, v
    <3>1. cache'[d][k] \in StageIds /\ st[cache'[d][k]].released
      BY <2>2, <3>0, SettledReleases
    <3>2. stage[cache[d][k]].released
      BY <1>1, <2>2, <2>5, <3>1
    <3>3. PICK t \in Scans : op[t].pc \in {"get", "delete"} /\ op[t].vic = cache[d][k]
      BY <1>1, <3>2 DEF LeavesOK
    <3> QED BY <1>1, <3>3 DEF Waiting
  <2> QED BY <2>4, <2>5
<1> QED BY <1>2, <1>3 DEF SweepTest

LEMMA ReleaseLeaves ==
    ASSUME RInv, TypeOK', LeavesOK, NEW s \in Scans, Release(s)
    PROVE  LeavesOK'
<1>0. TInv /\ Facts(s) /\ stage \in [StageIds -> StageType]
  BY HasFacts DEF RInv, TInv, TypeOK
<1>1. Waiting({s}) /\ op[s].pc = "release" /\ cache' = cache
  BY <1>0, ReleaseCall DEF Release
<1> DEFINE v == op[s].ent
           st == [stage EXCEPT ![v].released = TRUE]
<1>2. v \in StageIds
  BY <1>0, <1>1 DEF Facts, LocalsOf
<1>3. st \in [StageIds -> StageType] /\ \A i \in StageIds \ {v} : st[i] = stage[i]
  BY <1>0, <1>2, ReleaseUpdate
<1>4. op'[s].pc = "get" /\ op'[s].vic = v
  BY <1>0, ReleaseCall DEF At, Visits
<1>5. Settle(st, layer, registry, query, changed)
  BY DEF Release
<1> HIDE DEF st, v
<1> SUFFICES ASSUME NEW d \in Dbs, NEW k \in Keys,
                    cache'[d][k] # None, stage'[cache'[d][k]].released
             PROVE  \E t \in Scans : op'[t].pc \in {"get", "delete"} /\ op'[t].vic = cache'[d][k]
  BY DEF LeavesOK
<1>6. CASE cache[d][k] = v
  BY <1>1, <1>4, <1>6
<1>7. CASE cache[d][k] # v
  <2>1. cache'[d][k] \in StageIds /\ st[cache'[d][k]].released
    BY <1>3, <1>5, SettledReleases
  <2>2. stage[cache[d][k]].released
    BY <1>1, <1>3, <1>7, <2>1
  <2>3. PICK t \in Scans : op[t].pc \in {"get", "delete"} /\ op[t].vic = cache[d][k]
    BY <1>1, <2>2 DEF LeavesOK
  <2> QED BY <1>1, <2>3 DEF Waiting
<1> QED BY <1>6, <1>7

\* The step after which the call no longer visits its element: the cache of the
\* only database does not hold it
LEMMA RemovedLeaves ==
    ASSUME RInv, OneDatabase, LeavesOK, NEW s \in Scans, Waiting({s}), EntriesFrom,
           op[s].pc \in {"get", "delete"}, Facts(s),
           cache'[Db(s)][stage[op[s].vic].key] # op[s].vic
    PROVE  LeavesOK'
<1>0. CacheOK /\ TypeOK
  BY DEF RInv, TInv
<1> SUFFICES ASSUME NEW d \in Dbs, NEW k \in Keys,
                    cache'[d][k] # None, stage'[cache'[d][k]].released
             PROVE  \E t \in Scans : op'[t].pc \in {"get", "delete"} /\ op'[t].vic = cache'[d][k]
  BY DEF LeavesOK
<1>1. cache'[d][k] = cache[d][k] /\ stage[cache[d][k]].released
  BY DEF EntriesFrom
<1>2. PICK t \in Scans : op[t].pc \in {"get", "delete"} /\ op[t].vic = cache[d][k]
  BY <1>1 DEF LeavesOK
<1>3. stage[cache[d][k]].key = k /\ d = Db(s)
  BY <1>0, <1>1 DEF CacheOK, StageIs, OneDatabase, Facts
<1>4. t # s
  BY <1>1, <1>2, <1>3
<1> QED BY <1>1, <1>2, <1>4 DEF Waiting

LEMMA RemoveGetLeaves ==
    ASSUME RInv, TypeOK', OneDatabase, LeavesOK, NEW s \in Scans, RemoveGet(s)
    PROVE  LeavesOK'
<1>0. TInv /\ Facts(s)
  BY HasFacts DEF RInv
<1>1. /\ Waiting({s}) /\ op[s].pc = "get" /\ cache' = cache
      /\ Settle(stage, layer, registry, query, changed)
  BY <1>0, RemoveGetCall DEF RemoveGet
<1>2. EntriesFrom
  BY <1>0, <1>1, DropsEntries
<1>3. CASE ~InCache(s)
  BY <1>0, <1>1, <1>2, <1>3, RemovedLeaves DEF InCache
<1>4. CASE InCache(s)
  <2>1. op'[s].pc = "delete" /\ op'[s].vic = op[s].vic
    BY <1>0, <1>4, RemoveGetCall DEF At, VisitsStill, Visits
  <2> SUFFICES ASSUME NEW d \in Dbs, NEW k \in Keys,
                      cache'[d][k] # None, stage'[cache'[d][k]].released
               PROVE  \E t \in Scans : op'[t].pc \in {"get", "delete"} /\ op'[t].vic = cache'[d][k]
    BY DEF LeavesOK
  <2>2. cache'[d][k] = cache[d][k] /\ stage[cache[d][k]].released
    BY <1>2 DEF EntriesFrom
  <2>3. PICK t \in Scans : op[t].pc \in {"get", "delete"} /\ op[t].vic = cache[d][k]
    BY <2>2 DEF LeavesOK
  <2> QED BY <1>1, <2>1, <2>2, <2>3 DEF Waiting
<1> QED BY <1>3, <1>4

LEMMA RemoveDeleteLeaves ==
    ASSUME RInv, TypeOK', OneDatabase, LeavesOK, NEW s \in Scans, RemoveDelete(s)
    PROVE  LeavesOK'
<1>0. TInv /\ TypeOK /\ Facts(s)
  BY HasFacts DEF RInv, TInv
<1>1. /\ Waiting({s}) /\ op[s].pc = "delete"
      /\ cache' = [cache EXCEPT ![Db(s)][stage[op[s].vic].key] = None]
      /\ Settle(stage, layer, registry, query, changed)
  BY <1>0, RemoveDeleteCall DEF RemoveDelete
<1>2. \A d \in Dbs, k \in Keys : cache'[d][k] \in {None, cache[d][k]}
  BY <1>0, <1>1 DEF TypeOK
<1>3. EntriesFrom
  BY <1>0, <1>1, <1>2, DropsEntries
<1>4. op[s].vic \in StageIds /\ op[s].vic # None
  BY <1>0, <1>1, NoneAssumption DEF Facts, LocalsOf
<1>5. CASE stage[op[s].vic].key \in Keys
  <2>1. cache'[Db(s)][stage[op[s].vic].key] = None
    BY <1>0, <1>1, <1>5 DEF TypeOK, Facts
  <2> QED BY <1>0, <1>1, <1>3, <1>4, <2>1, RemovedLeaves
<1>6. CASE stage[op[s].vic].key \notin Keys
  <2>1. \A d \in Dbs, k \in Keys : cache[d][k] # op[s].vic
    BY <1>4, <1>6 DEF RInv, CacheOK, StageIs
  <2> SUFFICES ASSUME NEW d \in Dbs, NEW k \in Keys,
                      cache'[d][k] # None, stage'[cache'[d][k]].released
               PROVE  \E t \in Scans : op'[t].pc \in {"get", "delete"} /\ op'[t].vic = cache'[d][k]
    BY DEF LeavesOK
  <2>2. cache'[d][k] = cache[d][k] /\ stage[cache[d][k]].released
    BY <1>3 DEF EntriesFrom
  <2>3. PICK t \in Scans : op[t].pc \in {"get", "delete"} /\ op[t].vic = cache[d][k]
    BY <2>2 DEF LeavesOK
  <2> QED BY <1>1, <2>1, <2>2, <2>3 DEF Waiting
<1> QED BY <1>5, <1>6

LEMMA LeavesOne ==
    ASSUME LeavesOK, NEW s \in Scans, Waiting({s}), EntriesFrom, op[s].pc \notin {"get", "delete"}
    PROVE  LeavesOK'
<1>1. {s} \in SUBSET Scans /\ \A u \in {s} : op[u].pc \notin {"get", "delete"}
  OBVIOUS
<1> QED BY <1>1, LeavesStep

\* The steps that let go of nothing, or of something else than entries
LEMMA UnsettledLeaves ==
    ASSUME RInv, TInv', LeavesOK, NEW s \in Scans,
           \/ Lookup(s) \/ GetHandle(s) \/ Compare(s)
           \/ \E f \in Files : ReadStamp(s, f)
           \/ \E v \in StageIds : SweepTake(s, v) \/ EvictNext(s, v)
           \/ Snapshot(s) \/ Loaded(s) \/ MakeRoom(s) \/ DropCachedStages(s)
           \/ \E k \in Keys : BeginScan(s, k)
    PROVE  LeavesOK'
<1>1. Step({s}, {})
  BY LookupKeeps, GetHandleKeeps, CompareKeeps, ReadStampKeeps, SweepTakeKeeps, EvictNextKeeps,
     SnapshotKeeps, LoadedKeeps, MakeRoomKeeps, DropCachedStagesKeeps, BeginScanKeeps
<1>2. stage' = stage /\ cache' = cache /\ op[s].pc \notin {"get", "delete"}
  BY DEF Lookup, GetHandle, Compare, ReadStamp, SweepTake, EvictNext, Snapshot, Loaded, MakeRoom,
     DropCachedStages, BeginScan, Unsettled, QueryIdle
<1> QED BY <1>1, <1>2, UnsettledEntries, LeavesOne DEF Step

LEMMA DropsLeaves ==
    ASSUME RInv, TInv', LeavesOK, NEW s \in Scans,
           \/ Compared(s) \/ \E f \in Files : CheckMissing(s, f)
           \/ SweepDone(s) \/ Fits(s) \/ FinishScan(s) \/ Dropped(s) \/ Refuse(s)
    PROVE  LeavesOK'
<1>1. Step({s}, {})
  BY ComparedKeeps, CheckMissingKeeps, SweepDoneKeeps, FitsKeeps, FinishScanKeeps, DroppedKeeps,
     RefuseKeeps
<1>2. cache' = cache /\ op[s].pc \notin {"get", "delete"}
  BY DEF Compared, CheckMissing, SweepDone, Fits, FinishScan, Dropped, Refuse
<1>3. \E chg : Settle(stage, layer, registry, query, chg)
  BY DEF Compared, CheckMissing, SweepDone, Fits, FinishScan, Dropped, Refuse, Fail
<1>4. EntriesFrom
  BY <1>2, <1>3, DropsEntries DEF RInv, TInv
<1> QED BY <1>1, <1>2, <1>4, LeavesOne DEF Step

LEMMA ReturnLeaves ==
    ASSUME RInv, TInv', LeavesOK, NEW s \in Scans, Verified(s) \/ DoesNotFit(s) \/ Add(s)
    PROVE  LeavesOK'
<1>1. Step({s}, {})
  BY VerifiedKeeps, DoesNotFitKeeps, AddKeeps
<1>2. /\ cache' = cache /\ op[s].pc \notin {"get", "delete"}
      /\ \E reg : Return(s, reg)
  BY DEF Verified, DoesNotFit, Add
<1>3. EntriesFrom
  BY <1>2, ReturnEntries DEF TInv
<1> QED BY <1>1, <1>2, <1>3, LeavesOne DEF Step

\* The steps that edit a stage, and those that compose one
LEMMA ComposeLeaves ==
    ASSUME RInv, TInv', LeavesOK, NEW s \in Scans, NEW f \in Files,
           RecordMissing(s, f) \/ ReadClip(s, f) \/ LoadFile(s, f)
    PROVE  LeavesOK'
<1>0. TypeOK /\ TypeOK' /\ TInv
  BY DEF RInv, TInv
<1>1. op[s].cur \in StageIds
  BY HasStage DEF RecordMissing, ReadClip, LoadFile, Holding
<1>2. Waiting({s})
  BY RecordMissingKeeps, ReadClipKeeps, LoadFileKeeps DEF Step
<1>3. cache' = cache /\ op[s].pc \notin {"get", "delete"}
  BY DEF RecordMissing, ReadClip, LoadFile
<1>4. CASE Compose(s, f)
  <2>1. \A i \in StageIds : stage'[i].released = stage[i].released
    BY <1>0, <1>1, <1>4, ComposeFacts
  <2> QED BY <1>0, <1>2, <1>3, <2>1, EditedEntries, LeavesOne
<1>5. CASE stage' = [stage EXCEPT ![op[s].cur].miss[f] = Stamp(f)]
  <2>1. \A i \in StageIds : stage'[i].released = stage[i].released
    BY <1>0, <1>1, <1>5 DEF TypeOK, StageType
  <2> QED BY <1>0, <1>2, <1>3, <2>1, EditedEntries, LeavesOne
<1>6. CASE stage' = [stage EXCEPT ![op[s].cur].missed[f] = Stamp(f)]
  <2>1. \A i \in StageIds : stage'[i].released = stage[i].released
    BY <1>0, <1>1, <1>6 DEF TypeOK, StageType
  <2> QED BY <1>0, <1>2, <1>3, <2>1, EditedEntries, LeavesOne
<1>7. CASE Fail(s)
  BY <1>0, <1>2, <1>3, <1>7, DropsEntries, LeavesOne DEF Fail
<1> QED BY <1>4, <1>5, <1>6, <1>7 DEF RecordMissing, ReadClip, LoadFile

LEMMA OpenStageLeaves ==
    ASSUME RInv, TInv', LeavesOK, NEW s \in Scans, OpenStage(s)
    PROVE  LeavesOK'
<1>0. TInv /\ TypeOK'
  BY DEF RInv, TInv
<1>1. op[s].pc = "open" /\ Waiting({s}) /\ cache' = cache
  BY <1>0, OpenStageCall
<1>2. PICK i \in StageIds :
        /\ stage'[i] = NewStage(op[s].key, Db(s))
        /\ \A j \in StageIds \ {i} : stage'[j] = stage[j]
  BY <1>0, OpenStageCall
<1>3. ~stage'[i].released
  BY <1>2 DEF NewStage, StageOf
<1>4. EntriesFrom
  BY <1>0, <1>1, <1>2, <1>3 DEF EntriesFrom, TypeOK
<1> QED BY <1>1, <1>4, LeavesOne

LEMMA PutLeaves ==
    ASSUME RInv, TInv', LeavesOK, NEW s \in Scans, Put(s)
    PROVE  LeavesOK'
<1>0. TypeOK /\ TypeOK' /\ TInv /\ Facts(s) /\ stage \in [StageIds -> StageType]
  BY HasFacts DEF RInv, TInv, TypeOK
<1>1. /\ op[s].pc = "record" /\ Settle(stage, layer, registry, query, changed)
      /\ cache' = [cache EXCEPT ![Db(s)][op[s].key] = op[s].cur]
  BY DEF Put
<1>2. Waiting({s})
  BY <1>0, PutCall
<1>3. op[s].cur \in StageIds /\ op[s].cur # None
  BY <1>1, HasStage DEF Holding
<1>4. ~stage[op[s].cur].released
  BY <1>0, <1>1, <1>3 DEF Facts, ShapeOf, UnseenOf, Composing
<1>5. \A d \in Dbs, k \in Keys : cache'[d][k] \in {op[s].cur, cache[d][k]}
  BY <1>0, <1>1 DEF TypeOK
<1>6. EntriesFrom
  <2> SUFFICES ASSUME NEW d \in Dbs, NEW k \in Keys,
                      cache'[d][k] # None, stage'[cache'[d][k]].released
               PROVE  cache'[d][k] = cache[d][k] /\ stage[cache[d][k]].released
    BY DEF EntriesFrom
  <2>1. stage[cache'[d][k]].released
    BY <1>0, <1>1, SettledReleases
  <2> QED BY <1>4, <1>5, <2>1
<1> QED BY <1>1, <1>2, <1>6, LeavesOne

LEMMA EndQueryLeaves ==
    ASSUME RInv, TInv', LeavesOK, NEW c \in Conns, EndQuery(c)
    PROVE  LeavesOK'
<1>0. TInv /\ TypeOK'
  BY DEF RInv, TInv
<1>1. /\ CallsOn(c) \in SUBSET Scans /\ Waiting(CallsOn(c))
      /\ cache' = cache /\ Settle(stage, layer, registry, QueryEnd(c), changed)
      /\ \A u \in CallsOn(c) : op[u].pc \notin {"get", "delete"}
  BY EndQueryCalls
<1>2. stage \in [StageIds -> StageType]
  BY <1>0 DEF TInv, TypeOK
<1>3. EntriesFrom
  BY <1>0, <1>1, <1>2, SettledReleases DEF EntriesFrom
<1> QED BY <1>1, <1>3, LeavesStep

LEMMA EvictLeaves ==
    ASSUME RInv, TInv', LeavesOK, NEW d \in Dbs, NEW k \in Keys, Evict(d, k)
    PROVE  LeavesOK'
<1>0. TInv /\ TypeOK /\ TypeOK'
  BY DEF RInv, TInv
<1>1. /\ op' = op /\ cache' = [cache EXCEPT ![d][k] = None]
      /\ Settle(stage, layer, registry, query, changed)
  BY DEF Evict
<1>2. \A e \in Dbs, l \in Keys : cache'[e][l] \in {None, cache[e][l]}
  BY <1>0, <1>1 DEF TypeOK
<1>3. EntriesFrom
  BY <1>0, <1>1, <1>2, DropsEntries
<1>4. {} \in SUBSET Scans /\ Waiting({}) /\ \A u \in {} : op[u].pc \notin {"get", "delete"}
  BY <1>1 DEF Waiting
<1> QED BY <1>3, <1>4, LeavesStep

LEMMA LeavesKept == RInv /\ OneDatabase /\ LeavesOK /\ [Next]_vars => LeavesOK'
<1> SUFFICES ASSUME RInv, OneDatabase, LeavesOK, [Next]_vars PROVE LeavesOK'
  OBVIOUS
<1>0. TInv' /\ TypeOK'
  BY TInvStep DEF RInv, TInv
<1>1. ASSUME NEW s \in Scans, Work(s) PROVE LeavesOK'
  BY <1>0, <1>1, UnsettledLeaves, DropsLeaves, ReturnLeaves, ComposeLeaves, OpenStageLeaves,
     PutLeaves, SweepTestLeaves, ReleaseLeaves, RemoveGetLeaves, RemoveDeleteLeaves DEF Work
<1>2. ASSUME NEW s \in Scans, \/ FinishScan(s) \/ DropCachedStages(s)
                              \/ \E k \in Keys : BeginScan(s, k)
                              \/ \E f \in Files : ReadClip(s, f)
      PROVE LeavesOK'
  BY <1>0, <1>2, UnsettledLeaves, DropsLeaves, ComposeLeaves
<1>3. ASSUME NEW c \in Conns, EndQuery(c) PROVE LeavesOK'
  BY <1>0, <1>3, EndQueryLeaves
<1>4. ASSUME NEW d \in Dbs, NEW k \in Keys, Evict(d, k) PROVE LeavesOK'
  BY <1>0, <1>4, EvictLeaves
<1>5. CASE UNCHANGED <<stage, cache, op>>
  BY <1>5 DEF LeavesOK
<1>6. (\E f \in Files : WriteFile(f)) \/ UNCHANGED vars => UNCHANGED <<stage, cache, op>>
  BY DEF WriteFile, vars
<1> QED BY <1>1, <1>2, <1>3, <1>4, <1>5, <1>6 DEF Next

\* In a process with one database (DuckDB's object cache, from which an entry is
\* removed, is that of the database of the thread that removes it), an entry whose
\* stage was released stays in the cache only until the thread that released it,
\* or found it, has removed it: UsdCachedStage::Release and RemoveFromObjectCache.
THEOREM ReleasedLeave == ASSUME OneDatabase PROVE Spec => []ReleasedEntriesLeave
<1>1. Init => RInv /\ LeavesOK
  <2>1. Init => LeavesOK
    BY DEF Init, LeavesOK
  <2> QED BY <2>1, RInvInit
<1>2. RInv /\ LeavesOK /\ [Next]_vars => RInv' /\ LeavesOK'
  BY RInvStep, LeavesKept
<1>3. LeavesOK => ReleasedEntriesLeave
  BY DEF LeavesOK, ReleasedEntriesLeave
<1> QED BY <1>1, <1>2, <1>3, PTL DEF Spec

-----------------------------------------------------------------------------
(* The inductive invariant: stamps *)

\* Stamp x of file f is one it had since its layer was read
Since(f, x) == \E g \in layer[f].version .. file[f] : x = StampAt(f, g)

\* A layer is of a file that was there, and stamped later; queries began earlier
StampsOK ==
    \A f \in Files :
        /\ layer[f].version <= file[f]
        /\ layer[f].version # 0 => <<f, layer[f].version>> \notin Lost
        /\ layer[f].version # 0 /\ layer[f].stamp # NoStamp => Since(f, layer[f].stamp)
        /\ \A c \in Conns : start[c][f] <= file[f]

\* The next check finds a stamp for each file stage i was composed from
Stamped(i) ==
    \A f \in Uses[stage[i].key] :
        IF f \in stage[i].loaded THEN layer[f].stamp # NoStamp ELSE stage[i].miss[f] # NoStamp

EntriesStamped == \A i \in StageIds : i \in Entries /\ ~stage[i].released => Stamped(i)

\* The layers left to compare, and those found to be outdated, are the stage's
LayersLeft(s) ==
    op[s].pc \in {"stat", "compare"} => op[s].todo \cup changed[s] \subseteq stage[op[s].cur].loaded

\* The stamp a call compares was the file's during the call's query, and since the
\* layer was read
SeenOK(s) ==
    op[s].pc = "compare" =>
        /\ op[s].at \in op[s].todo
        /\ \E g \in layer[op[s].at].version .. file[op[s].at] :
             start[Conn(s)][op[s].at] <= g /\ op[s].seen = StampAt(op[s].at, g)

MissingLeft(s) ==
    /\ op[s].pc = "missing" => op[s].todo \subseteq Missing(op[s].cur)
    /\ op[s].pc = "record" => op[s].todo \subseteq Uses[op[s].key] \ stage[op[s].cur].loaded

\* What a call composed has stamps, but for what it has yet to compare or record
LayersStamped(s) ==
    Composing(op[s]) /\ op[s].pc # "load" =>
        \A f \in Uses[op[s].key] \cap stage[op[s].cur].loaded :
            layer[f].stamp # NoStamp \/ (op[s].pc \in {"stat", "compare"} /\ f \in op[s].todo)
MissingStamped(s) ==
    op[s].pc = "record" =>
        \A f \in (Uses[op[s].key] \ stage[op[s].cur].loaded) \ op[s].todo :
            stage[op[s].cur].miss[f] # NoStamp

CheckedOf(s) ==
    LayersLeft(s) /\ SeenOK(s) /\ MissingLeft(s) /\ LayersStamped(s) /\ MissingStamped(s)

\* The layers a call found to be outdated are, and so is the cached stage it is
\* about to release
ChangedOf(s) ==
    /\ \A f \in changed[s] : layer[f].version # 0 /\ layer[f].version < file[f]
    /\ op[s].pass = "cached"
       /\ op[s].pc \in {"snapshot", "sweep", "test", "get", "delete", "release"}
         => stage[op[s].ent].released \/ Outdated(Conn(s), op[s].ent)

SInv == StampsOK /\ EntriesStamped /\ \A s \in Scans : CheckedOf(s) /\ ChangedOf(s)

\* What a step does to files, layers and the times queries began
LayersFrom ==
    \A f \in Files :
        \/ layer'[f] = layer[f]
        \/ layer'[f].version = 0
        \/ layer'[f].version = file[f] /\ layer'[f].stamp = NoStamp /\ Readable(f)
        \/ /\ layer'[f].version = layer[f].version /\ layer[f].version # 0
           /\ Since(f, layer'[f].stamp)

TimePasses ==
    /\ \A f \in Files : file[f] <= file'[f]
    /\ \A c \in Conns, f \in Files : start'[c][f] <= file'[f]
    /\ \A t \in Scans : op[t].pc # "idle" /\ op'[t].pc # "idle" => start'[Conn(t)] = start[Conn(t)]

\* Call t finds no other layers than it had found
Remembers(t) == \A f \in changed'[t] : f \in changed[t] /\ layer'[f].version = layer[f].version

Flows(A) == LayersFrom /\ TimePasses /\ \A t \in Scans \ A : Remembers(t)

\* A stage that stays in use, with its files
Kept(i) ==
    /\ i \in StageIds /\ i \in Alive /\ i \in Alive' /\ Contents(i) /\ Stays(i)
    /\ \A f \in stage[i].loaded : LayerStays(f)

LEMMA CurKept ==
    ASSUME NEW A \in SUBSET Scans, NEW own \in SUBSET StageIds, Step(A, own),
           NEW t \in Scans, op[t].cur \in StageIds \ own, op'[t].cur = op[t].cur
    PROVE  Kept(op[t].cur)
<1>1. op[t].cur \in Handles /\ op[t].cur \in Handles'
  BY HandlesAre, HandlesNext
<1>2. op[t].cur \in Alive /\ op[t].cur \in Alive'
  BY <1>1, AliveAre, AliveNext
<1> QED BY <1>1, <1>2 DEF Kept, Step

LEMMA EntryKept ==
    ASSUME NEW A \in SUBSET Scans, NEW own \in SUBSET StageIds, Step(A, own),
           NEW i \in StageIds, i \in Entries, i \in Entries', ~stage'[i].released
    PROVE  Kept(i) /\ ~stage[i].released
<1>1. Stays(i) /\ i \notin own
  BY DEF Step, Mine
<1>2. ~stage[i].released
  BY <1>1 DEF Stays
<1>3. i \in Alive /\ i \in Alive'
  BY <1>2, AliveAre, AliveNext
<1> QED BY <1>1, <1>2, <1>3 DEF Kept, Step

LEMMA StampsStep ==
    ASSUME TypeOK, TypeOK', StampsOK, LayersFrom, TimePasses
    PROVE  StampsOK'
<1> SUFFICES ASSUME NEW f \in Files
             PROVE  /\ layer'[f].version <= file'[f]
                    /\ layer'[f].version # 0 => <<f, layer'[f].version>> \notin Lost
                    /\ layer'[f].version # 0 /\ layer'[f].stamp # NoStamp =>
                         \E g \in layer'[f].version .. file'[f] : layer'[f].stamp = StampAt(f, g)
                    /\ \A c \in Conns : start'[c][f] <= file'[f]
  BY DEF StampsOK, Since
<1>1. /\ file[f] \in Nat /\ file'[f] \in Nat /\ file[f] <= file'[f] /\ file[f] # 0
      /\ layer[f].version \in Nat /\ layer'[f].version \in Nat
      /\ \A c \in Conns : start'[c][f] <= file'[f]
  BY BoundAssumption DEF TypeOK, Version, TimePasses
<1>2. CASE layer'[f].version = 0
  BY <1>1, <1>2
<1>3. CASE layer'[f].version = file[f] /\ layer'[f].stamp = NoStamp /\ Readable(f)
  BY <1>1, <1>3 DEF Readable
<1>4. CASE layer'[f] = layer[f] \/ (/\ layer'[f].version = layer[f].version /\ layer[f].version # 0
                                    /\ Since(f, layer'[f].stamp))
  <2>1. /\ layer'[f].version = layer[f].version
        /\ layer[f].version <= file[f]
        /\ layer[f].version # 0 => <<f, layer[f].version>> \notin Lost
    BY <1>4 DEF StampsOK
  <2>2. layer'[f].version # 0 /\ layer'[f].stamp # NoStamp => Since(f, layer'[f].stamp)
    BY <1>4 DEF StampsOK
  <2>3. ASSUME Since(f, layer'[f].stamp)
        PROVE  \E g \in layer'[f].version .. file'[f] : layer'[f].stamp = StampAt(f, g)
    <3>1. PICK g \in layer[f].version .. file[f] : layer'[f].stamp = StampAt(f, g)
      BY <2>3 DEF Since
    <3>2. g \in layer'[f].version .. file'[f]
      BY <1>1, <2>1, <3>1
    <3> QED BY <3>1, <3>2
  <2> QED BY <1>1, <2>1, <2>2, <2>3
<1> QED BY <1>2, <1>3, <1>4 DEF LayersFrom

\* An outdated stage stays so
LEMMA OutdatedStays ==
    ASSUME RInv, TypeOK', StampsOK, TimePasses, NEW i, Kept(i), NEW c \in Conns,
           start'[c] = start[c], Outdated(c, i)
    PROVE  Outdated(c, i)'
<1>0. TypeOK /\ stage[i].loaded \subseteq Files
  BY DEF RInv, TInv, TypeOK, StageType, Kept
<1>1. /\ stage[i].loaded \subseteq stage'[i].loaded /\ stage'[i].miss = stage[i].miss
      /\ \A f \in stage[i].loaded : layer'[f].version = layer[f].version
  BY DEF Kept, Contents, LayerStays
<1>2. \A f \in Files : /\ file[f] \in Nat /\ file'[f] \in Nat /\ file[f] <= file'[f]
                       /\ layer[f].version \in Nat /\ layer[f].version <= file[f]
                       /\ start[c][f] \in Nat
  <2> SUFFICES ASSUME NEW f \in Files
               PROVE  /\ file[f] \in Nat /\ file'[f] \in Nat /\ file[f] <= file'[f]
                      /\ layer[f].version \in Nat /\ layer[f].version <= file[f]
                      /\ start[c][f] \in Nat
    OBVIOUS
  <2>1. file[f] \in Version /\ file'[f] \in Version /\ start[c][f] \in Version
    BY <1>0 DEF TypeOK
  <2>2. layer[f].version \in 0 .. MaxVersion
    BY <1>0 DEF TypeOK
  <2>3. file[f] <= file'[f] /\ layer[f].version <= file[f]
    BY DEF TimePasses, StampsOK
  <2> QED BY <2>1, <2>2, <2>3, BoundAssumption DEF Version
<1>3. CASE \E f \in stage[i].loaded : layer[f].version # file[f]
  <2>1. PICK f \in stage[i].loaded : layer[f].version # file[f]
    BY <1>3
  <2>2. f \in Files /\ f \in stage'[i].loaded /\ layer'[f].version # file'[f]
    BY <1>0, <1>1, <1>2, <2>1
  <2> QED BY <2>2 DEF Outdated
<1>4. CASE \E f \in Missing(i) : \E v \in start[c][f] .. file[f] : StampAt(f, v) # stage[i].miss[f]
  <2>1. PICK f \in Missing(i) : \E v \in start[c][f] .. file[f] : StampAt(f, v) # stage[i].miss[f]
    BY <1>4
  <2>2. PICK v \in start[c][f] .. file[f] : StampAt(f, v) # stage[i].miss[f]
    BY <2>1
  <2>3. f \in Files /\ f \in Missing(i)'
    BY <1>1, <2>1 DEF Missing
  <2>4. v \in start'[c][f] .. file'[f] /\ StampAt(f, v) # stage'[i].miss[f]
    BY <1>1, <1>2, <2>2, <2>3
  <2> QED BY <2>3, <2>4 DEF Outdated
<1> QED BY <1>3, <1>4 DEF Outdated

\* The same of a cached stage that a call is about to release
LEMMA EntryOutdated ==
    ASSUME RInv, TypeOK', StampsOK, TimePasses,
           NEW A \in SUBSET Scans, NEW own \in SUBSET StageIds, Step(A, own),
           NEW t \in Scans, NEW i \in StageIds, op[t].ent = i, op'[t].ent = i,
           NEW c \in Conns, start'[c] = start[c],
           stage[i].released \/ Outdated(c, i)
    PROVE  stage'[i].released \/ Outdated(c, i)'
<1>1. i \in Entries /\ i \in Entries'
  BY EntriesAre, EntriesNext
<1>2. CASE ~stage'[i].released
  <2>1. Kept(i) /\ ~stage[i].released
    BY <1>1, <1>2, EntryKept
  <2> QED BY <2>1, OutdatedStays
<1> QED BY <1>2

\* What is left of a call that goes on with the stage it holds: the layers and the
\* files that this call, or the step, has not reached yet
LEMMA CarriesLayers ==
    ASSUME NEW t \in Scans, Kept(op[t].cur), LayersLeft(t), Remembers(t),
           op[t].pc \in {"stat", "compare"}
    PROVE  op[t].todo \cup changed'[t] \subseteq stage'[op[t].cur].loaded
BY DEF LayersLeft, Remembers, Kept, Contents

LEMMA CarriesStamps ==
    ASSUME TypeOK, NEW t \in Scans, Kept(op[t].cur), LayersStamped(t), Composing(op[t]),
           op[t].pc # "load", StageIs(op[t].cur, op[t].key, Db(t))
    PROVE  \A f \in Uses[op[t].key] \cap stage'[op[t].cur].loaded :
             \/ layer'[f].stamp # NoStamp
             \/ op[t].pc \in {"stat", "compare"} /\ f \in op[t].todo
<1> SUFFICES ASSUME NEW f \in Uses[op[t].key] \cap stage'[op[t].cur].loaded
             PROVE  \/ layer'[f].stamp # NoStamp
                    \/ op[t].pc \in {"stat", "compare"} /\ f \in op[t].todo
  OBVIOUS
<1>1. f \in stage[op[t].cur].loaded
  BY DEF Kept, Contents, StageIs
<1>2. layer[f].stamp # NoStamp => layer'[f].stamp = layer[f].stamp
  BY <1>1 DEF Kept, LayerStays
<1> QED BY <1>1, <1>2 DEF LayersStamped

LEMMA CarriesSeen ==
    ASSUME TypeOK, TypeOK', TimePasses, NEW t \in Scans, Kept(op[t].cur), op[t].pc = "compare",
           LayersLeft(t), SeenOK(t), start'[Conn(t)] = start[Conn(t)]
    PROVE  /\ op[t].at \in op[t].todo
           /\ \E g \in layer'[op[t].at].version .. file'[op[t].at] :
                start'[Conn(t)][op[t].at] <= g /\ op[t].seen = StampAt(op[t].at, g)
<1> DEFINE f == op[t].at
<1>1. f \in op[t].todo /\ f \in stage[op[t].cur].loaded
  BY DEF SeenOK, LayersLeft
<1>2. f \in Files
  BY <1>1 DEF TypeOK, StageType, Kept
<1>3. layer'[f].version = layer[f].version
  BY <1>1 DEF Kept, LayerStays
<1>4. PICK g \in layer[f].version .. file[f] : start[Conn(t)][f] <= g /\ op[t].seen = StampAt(f, g)
  BY DEF SeenOK
<1>5. file[f] \in Nat /\ file'[f] \in Nat /\ file[f] <= file'[f] /\ layer[f].version \in Nat
  BY <1>2, BoundAssumption DEF TypeOK, Version, TimePasses
<1>6. g \in layer'[f].version .. file'[f]
  BY <1>3, <1>4, <1>5
<1> QED BY <1>1, <1>4, <1>6

LEMMA CarriesMissing ==
    ASSUME NEW t \in Scans, Kept(op[t].cur), MissingLeft(t), MissingStamped(t),
           StageIs(op[t].cur, op[t].key, Db(t))
    PROVE  /\ op[t].pc = "missing" => 
                op[t].todo \subseteq {f \in Files : stage'[op[t].cur].miss[f] # NoStamp}
           /\ op[t].pc = "record" => op[t].todo \subseteq Uses[op[t].key] \ stage'[op[t].cur].loaded
           /\ op[t].pc = "record" =>
                \A f \in (Uses[op[t].key] \ stage'[op[t].cur].loaded) \ op[t].todo :
                  stage'[op[t].cur].miss[f] # NoStamp
BY DEF Kept, Contents, StageIs, MissingLeft, MissingStamped, Missing

LEMMA RemembersOutdated ==
    ASSUME TypeOK, TypeOK', TimePasses, NEW t \in Scans, ChangedOf(t), Remembers(t)
    PROVE  \A f \in changed'[t] : layer'[f].version # 0 /\ layer'[f].version < file'[f]
<1> SUFFICES ASSUME NEW f \in changed'[t]
             PROVE  layer'[f].version # 0 /\ layer'[f].version < file'[f]
  OBVIOUS
<1>1. /\ f \in changed[t] /\ layer'[f].version = layer[f].version
      /\ layer[f].version # 0 /\ layer[f].version < file[f]
  BY DEF Remembers, ChangedOf
<1>2. f \in Files
  BY <1>1 DEF TypeOK
<1>3. file[f] \in Nat /\ file'[f] \in Nat /\ file[f] <= file'[f] /\ layer[f].version \in Nat
  BY <1>2, BoundAssumption DEF TypeOK, Version, TimePasses
<1> QED BY <1>1, <1>3

\* The calls that wait
LEMMA WaitingChecked ==
    ASSUME RInv, TypeOK', SInv, NEW A \in SUBSET Scans, NEW own \in SUBSET StageIds,
           Step(A, own), Flows(A), NEW t \in Scans \ A
    PROVE  CheckedOf(t)'
<1>0. /\ TypeOK /\ Facts(t) /\ op'[t] = op[t] /\ op[t].cur \notin own /\ CheckedOf(t)
      /\ op[t].pc # "idle" => start'[Conn(t)] = start[Conn(t)]
      /\ Remembers(t) /\ TimePasses /\ Conn(t)' = Conn(t)
  BY HasFacts DEF RInv, TInv, Step, Waiting, Mine, SInv, Flows, TimePasses, Conn
<1>1. CASE op[t].cur \in StageIds
  <2>1. Kept(op[t].cur)
    BY <1>0, <1>1, CurKept
  <2>2. StageIs(op[t].cur, op[t].key, Db(t))
    BY <1>0, <1>1, NoneAssumption DEF Facts, RefsOf
  <2>3. LayersLeft(t)'
    BY <1>0, <2>1, CarriesLayers DEF CheckedOf, LayersLeft
  <2>4. SeenOK(t)'
    BY <1>0, <2>1, CarriesSeen DEF CheckedOf, SeenOK
  <2>5. LayersStamped(t)'
    BY <1>0, <2>1, <2>2, CarriesStamps DEF CheckedOf, LayersStamped, Composing
  <2>6. MissingLeft(t)' /\ MissingStamped(t)'
    BY <1>0, <2>1, <2>2, CarriesMissing DEF CheckedOf, MissingLeft, MissingStamped, Missing
  <2> QED BY <2>3, <2>4, <2>5, <2>6 DEF CheckedOf
<1>2. CASE op[t].cur \notin StageIds
  <2>1. op[t].cur = None /\ op[t].pc \notin {"stat", "compare", "missing", "record"}
    BY <1>0, <1>2 DEF Facts, OpType, LocalsOf, Holding
  <2> QED BY <1>0, <2>1 DEF CheckedOf, LayersLeft, SeenOK, MissingLeft, LayersStamped,
                            MissingStamped, Composing
<1> QED BY <1>1, <1>2

LEMMA WaitingChanged ==
    ASSUME RInv, RInv', SInv, NEW A \in SUBSET Scans, NEW own \in SUBSET StageIds,
           Step(A, own), Flows(A), NEW t \in Scans \ A
    PROVE  ChangedOf(t)'
<1>0. /\ TypeOK /\ TypeOK' /\ Facts(t) /\ op'[t] = op[t] /\ ChangedOf(t) /\ StampsOK
      /\ op[t].pc # "idle" => start'[Conn(t)] = start[Conn(t)]
      /\ Remembers(t) /\ TimePasses /\ Conn(t)' = Conn(t)
  BY HasFacts DEF RInv, TInv, Step, Waiting, SInv, Flows, TimePasses, Conn
<1>1. \A f \in changed'[t] : layer'[f].version # 0 /\ layer'[f].version < file'[f]
  BY <1>0, RemembersOutdated
<1>2. ASSUME op[t].pass = "cached",
             op[t].pc \in {"snapshot", "sweep", "test", "get", "delete", "release"},
             NEW i \in StageIds, i = op[t].ent, NEW c \in Conns, c = Conn(t)
      PROVE  stage'[i].released \/ Outdated(c, i)'
  BY <1>0, <1>2, EntryOutdated DEF ChangedOf
<1>3. ASSUME op[t].pass = "cached",
             op[t].pc \in {"snapshot", "sweep", "test", "get", "delete", "release"}
      PROVE  op[t].ent \in StageIds /\ Conn(t) \in Conns
  BY <1>0, <1>3 DEF Facts, LocalsOf
<1> QED BY <1>0, <1>1, <1>2, <1>3 DEF ChangedOf

LEMMA StampedStays ==
    ASSUME NEW i, Kept(i), Stamped(i)
    PROVE  Stamped(i)'
<1> SUFFICES ASSUME NEW f \in Uses[stage[i].key]
             PROVE  /\ f \in stage'[i].loaded => layer'[f].stamp # NoStamp
                    /\ f \notin stage'[i].loaded => stage'[i].miss[f] # NoStamp
  BY DEF Stamped, Kept, Stays
<1>1. f \in stage[i].loaded <=> f \in stage'[i].loaded
  BY DEF Kept, Contents
<1>2. f \in stage[i].loaded => layer'[f].stamp # NoStamp
  BY DEF Kept, LayerStays, Stamped
<1>3. f \notin stage[i].loaded => stage'[i].miss[f] # NoStamp
  BY DEF Kept, Contents, Stamped
<1> QED BY <1>1, <1>2, <1>3

LEMMA SStep ==
    ASSUME RInv, RInv', SInv, NEW A \in SUBSET Scans, NEW own \in SUBSET StageIds,
           Step(A, own), Flows(A), \A u \in A : CheckedOf(u)' /\ ChangedOf(u)',
           \A i \in own : i \in Entries' => Stamped(i)'
    PROVE  SInv'
<1>0. TypeOK /\ TypeOK' /\ StampsOK /\ LayersFrom /\ TimePasses
  BY DEF RInv, TInv, SInv, Flows
<1>1. StampsOK'
  BY <1>0, StampsStep
<1>2. ASSUME NEW i \in StageIds, i \in Entries', ~stage'[i].released
      PROVE  Stamped(i)'
  <2>1. CASE i \in own
    BY <1>2, <2>1
  <2>2. CASE i \notin own
    <3>1. i \in Entries
      BY <1>2, <2>2 DEF Step
    <3>2. Kept(i) /\ ~stage[i].released
      BY <1>2, <3>1, EntryKept
    <3>3. Stamped(i)
      BY <3>1, <3>2 DEF SInv, EntriesStamped
    <3> QED BY <3>2, <3>3, StampedStays
  <2> QED BY <2>1, <2>2
<1>3. EntriesStamped'
  BY <1>2 DEF EntriesStamped
<1>4. ASSUME NEW t \in Scans PROVE CheckedOf(t)' /\ ChangedOf(t)'
  BY <1>0, WaitingChecked, WaitingChanged
<1> QED BY <1>1, <1>3, <1>4 DEF SInv

\* The call that takes the step: with nothing to check, or with the stage it has
\* checked
LEMMA NothingLeft ==
    ASSUME NEW s \in Scans, op'[s].pc \notin {"stat", "compare", "missing", "record"},
           Composing(op'[s]) => op'[s].pc = "load"
    PROVE  CheckedOf(s)'
BY DEF CheckedOf, LayersLeft, SeenOK, MissingLeft, LayersStamped, MissingStamped

LEMMA StampedCall ==
    ASSUME RInv, SInv, NEW s \in Scans, Step({s}, {}), op[s].cur \in StageIds,
           op'[s].cur = op[s].cur, op'[s].key = op[s].key,
           Composing(op'[s]) => /\ Composing(op[s]) /\ op[s].pc # "load"
                                /\ op[s].pc \in {"stat", "compare"} => op[s].todo = {}
    PROVE  LayersStamped(s)'
<1>0. TypeOK /\ Facts(s) /\ LayersStamped(s) /\ {} \in SUBSET StageIds /\ {s} \in SUBSET Scans
  BY HasFacts DEF RInv, TInv, SInv, CheckedOf
<1>1. Kept(op[s].cur)
  BY <1>0, CurKept
<1>2. StageIs(op[s].cur, op[s].key, Db(s))
  BY <1>0, NoneAssumption DEF Facts, RefsOf
<1>3. Composing(op'[s]) => \A f \in Uses[op[s].key] \cap stage'[op[s].cur].loaded :
                             layer'[f].stamp # NoStamp
  BY <1>0, <1>1, <1>2, CarriesStamps
<1> QED BY <1>3 DEF LayersStamped

LEMMA CheckedCall ==
    ASSUME RInv, SInv, NEW s \in Scans, Step({s}, {}), op[s].cur \in StageIds,
           op'[s].cur = op[s].cur, op'[s].key = op[s].key,
           op'[s].pc \notin {"stat", "compare", "missing", "record"},
           Composing(op'[s]) => /\ Composing(op[s]) /\ op[s].pc # "load"
                                /\ op[s].pc \in {"stat", "compare"} => op[s].todo = {}
    PROVE  CheckedOf(s)'
<1>1. LayersStamped(s)'
  BY StampedCall
<1> QED BY <1>1 DEF CheckedOf, LayersLeft, SeenOK, MissingLeft, MissingStamped

LEMMA ChangedCall ==
    ASSUME RInv, RInv', SInv, NEW s \in Scans, Step({s}, {}), TimePasses, Remembers(s),
           op'[s].pass = "cached"
           /\ op'[s].pc \in {"snapshot", "sweep", "test", "get", "delete", "release"} =>
             /\ op[s].ent \in StageIds /\ op'[s].ent = op[s].ent /\ op[s].pc # "idle"
             /\ stage[op[s].ent].released \/ Outdated(Conn(s), op[s].ent)
    PROVE  ChangedOf(s)'
<1>0. /\ TypeOK /\ TypeOK' /\ ChangedOf(s) /\ StampsOK /\ Facts(s) /\ Conn(s)' = Conn(s)
      /\ {} \in SUBSET StageIds /\ {s} \in SUBSET Scans /\ Conn(s) \in Conns
      /\ op[s].pc # "idle" /\ op'[s].pc # "idle" => start'[Conn(s)] = start[Conn(s)]
  BY HasFacts DEF RInv, TInv, SInv, TimePasses, Conn, Facts
<1>1. \A f \in changed'[s] : layer'[f].version # 0 /\ layer'[f].version < file'[f]
  BY <1>0, RemembersOutdated
<1>2. ASSUME op'[s].pass = "cached",
             op'[s].pc \in {"snapshot", "sweep", "test", "get", "delete", "release"},
             NEW i \in StageIds, i = op[s].ent, NEW c \in Conns, c = Conn(s)
      PROVE  stage'[i].released \/ Outdated(c, i)'
  BY <1>0, <1>2, EntryOutdated
<1> QED BY <1>0, <1>1, <1>2 DEF ChangedOf

-----------------------------------------------------------------------------
(* What the actions do to files and layers *)

LEMMA UnsettledFlows ==
    ASSUME layer' = layer, changed' = changed
    PROVE  LayersFrom /\ \A t \in Scans : Remembers(t)
BY DEF LayersFrom, Remembers

LEMMA SettledFlows ==
    ASSUME TypeOK, NEW st \in [StageIds -> StageType], NEW reg, NEW qry,
           NEW chg \in [Scans -> SUBSET Files], Settle(st, layer, reg, qry, chg),
           \A t \in Scans : chg[t] \subseteq changed[t]
    PROVE  LayersFrom /\ \A t \in Scans : Remembers(t)
<1>1. /\ \A f \in Files : (\E i \in Alive' : f \in st[i].loaded) => layer'[f] = layer[f]
      /\ \A f \in Files : (\A i \in Alive' : f \notin st[i].loaded) => layer'[f] = NoLayer
      /\ \A s \in Scans, f \in Files : f \in changed'[s] <=>
           f \in chg[s] /\ \E i \in Alive' : f \in st[i].loaded
  BY SettleFacts
<1>2. \A s \in Scans : changed'[s] \subseteq chg[s]
  BY DEF Settle, Unexpired
<1>3. NoLayer.version = 0
  BY DEF NoLayer
<1> QED BY <1>1, <1>2, <1>3 DEF LayersFrom, Remembers

LEMMA TimeStands ==
    ASSUME TypeOK, StampsOK, file' = file, start' = start
    PROVE  TimePasses
<1>1. \A f \in Files : file[f] <= file[f]
  BY BoundAssumption DEF TypeOK, Version
<1> QED BY <1>1 DEF TimePasses, StampsOK

\* Files, layers and times after a step that no thread compares a stamp in
Onwards == LayersFrom /\ TimePasses /\ \A t \in Scans : Remembers(t)

LEMMA OnwardsFlows == ASSUME Onwards, NEW A PROVE Flows(A)
BY DEF Onwards, Flows

LEMMA DropsFlows ==
    ASSUME RInv, StampsOK, file' = file, start' = start, NEW reg, NEW qry,
           Settle(stage, layer, reg, qry, changed)
    PROVE  Onwards
<1>1. TypeOK /\ stage \in [StageIds -> StageType] /\ changed \in [Scans -> SUBSET Files]
  BY DEF RInv, TInv, TypeOK
<1> QED BY <1>1, SettledFlows, TimeStands DEF Onwards

LEMMA ForgetsFlows ==
    ASSUME RInv, StampsOK, file' = file, start' = start, NEW s \in Scans,
           NEW st \in [StageIds -> StageType], NEW reg, NEW qry,
           \/ Settle(st, layer, reg, qry, [changed EXCEPT ![s] = {}])
           \/ Settle(st, layer, reg, qry, changed)
    PROVE  Onwards
<1> DEFINE chg == [changed EXCEPT ![s] = {}]
<1>1. TypeOK /\ changed \in [Scans -> SUBSET Files]
  BY DEF RInv, TInv, TypeOK
<1>2. chg \in [Scans -> SUBSET Files] /\ \A t \in Scans : chg[t] \subseteq changed[t]
  BY <1>1
<1>3. Settle(st, layer, reg, qry, chg) \/ Settle(st, layer, reg, qry, changed)
  OBVIOUS
<1> HIDE DEF chg
<1>4. TimePasses
  BY <1>1, TimeStands
<1>5. CASE Settle(st, layer, reg, qry, chg)
  BY <1>1, <1>2, <1>4, <1>5, SettledFlows DEF Onwards
<1>6. CASE Settle(st, layer, reg, qry, changed)
  BY <1>1, <1>4, <1>6, SettledFlows DEF Onwards
<1> QED BY <1>3, <1>5, <1>6

LEMMA StandsFlows ==
    ASSUME RInv, StampsOK, NEW s \in Scans,
           \/ Lookup(s) \/ GetHandle(s) \/ Snapshot(s) \/ Loaded(s) \/ MakeRoom(s) \/ OpenStage(s)
           \/ \E f \in Files : ReadStamp(s, f) \/ RecordMissing(s, f)
           \/ \E v \in StageIds : SweepTake(s, v) \/ EvictNext(s, v)
    PROVE  Onwards
<1>1. layer' = layer /\ changed' = changed /\ file' = file /\ start' = start
  BY DEF Lookup, GetHandle, Snapshot, Loaded, MakeRoom, OpenStage, ReadStamp, RecordMissing,
     SweepTake, EvictNext, Unsettled
<1> QED BY <1>1, UnsettledFlows, TimeStands DEF Onwards, RInv, TInv

LEMMA LetsGoFlows ==
    ASSUME RInv, StampsOK, NEW s \in Scans,
           \/ Compared(s) \/ \E f \in Files : CheckMissing(s, f)
           \/ RemoveGet(s) \/ RemoveDelete(s) \/ Fits(s) \/ Put(s) \/ Dropped(s) \/ FinishScan(s)
    PROVE  Onwards
<1>1. file' = file /\ start' = start /\ Settle(stage, layer, registry, query, changed)
  BY DEF Compared, CheckMissing, RemoveGet, RemoveDelete, Fits, Put, Dropped, FinishScan
<1> QED BY <1>1, DropsFlows

LEMMA ForgettingFlows ==
    ASSUME RInv, StampsOK, NEW s \in Scans, SweepDone(s) \/ Refuse(s) \/ (Fail(s) /\ UNCHANGED <<file, start>>)
    PROVE  Onwards
<1>1. /\ file' = file /\ start' = start /\ stage \in [StageIds -> StageType]
      /\ Settle(stage, layer, registry, query, [changed EXCEPT ![s] = {}])
  BY DEF SweepDone, Refuse, Fail, RInv, TInv, TypeOK
<1> QED BY <1>1, ForgetsFlows

LEMMA ReleasingFlows ==
    ASSUME RInv, StampsOK, NEW s \in Scans, SweepTest(s) \/ Release(s)
    PROVE  Onwards
<1>0. stage \in [StageIds -> StageType] /\ Facts(s)
  BY HasFacts DEF RInv, TInv, TypeOK
<1>1. CASE \E v \in StageIds :
             Settle([stage EXCEPT ![v].released = TRUE], layer, registry, query, changed)
  <2>1. PICK v \in StageIds :
          Settle([stage EXCEPT ![v].released = TRUE], layer, registry, query, changed)
    BY <1>1
  <2>2. [stage EXCEPT ![v].released = TRUE] \in [StageIds -> StageType]
    BY <1>0, ReleaseUpdate
  <2>3. file' = file /\ start' = start
    BY DEF SweepTest, Release
  <2> QED BY <2>1, <2>2, <2>3, ForgetsFlows
<1>2. CASE Settle(stage, layer, registry, query, changed)
  <2>1. file' = file /\ start' = start
    BY DEF SweepTest, Release
  <2> QED BY <1>2, <2>1, DropsFlows
<1>3. /\ op[s].pc = "test" => op[s].vic \in StageIds
      /\ op[s].pc = "release" => op[s].ent \in StageIds
  BY <1>0 DEF Facts, LocalsOf
<1> QED BY <1>1, <1>2, <1>3 DEF SweepTest, Release

LEMMA ReturningFlows ==
    ASSUME RInv, StampsOK, NEW s \in Scans, Verified(s) \/ DoesNotFit(s) \/ Add(s)
    PROVE  Onwards
<1>0. /\ file' = file /\ start' = start /\ \E reg : Return(s, reg)
      /\ stage \in [StageIds -> StageType]
  BY DEF Verified, DoesNotFit, Add, RInv, TInv, TypeOK
<1> DEFINE b == changed[s] # {}
           st == [stage EXCEPT ![op[s].cur].stale = b]
<1>1. \E reg, qry : Settle(st, layer, reg, qry, [changed EXCEPT ![s] = {}])
  BY <1>0 DEF Return
<1>2. b \in BOOLEAN
  OBVIOUS
<1> HIDE DEF b
<1>3. \A i \in StageIds : [stage[i] EXCEPT !.stale = b] \in StageType
  BY <1>0, <1>2 DEF StageType
<1>4. st \in [StageIds -> StageType]
  BY <1>0, <1>3
<1> HIDE DEF st
<1> QED BY <1>0, <1>1, <1>4, ForgetsFlows

LEMMA ComposeFlows ==
    ASSUME RInv, SInv, NEW s \in Scans, NEW f \in Files, op[s].cur \in StageIds, Compose(s, f),
           file' = file, start' = start, layer[f].version # 0 \/ Readable(f)
    PROVE  Onwards
<1>0. TypeOK /\ StampsOK /\ \A t \in Scans : \A g \in changed[t] : g \in Files /\ layer[g].version # 0
  BY DEF RInv, TInv, TypeOK, SInv, ChangedOf
<1>1. /\ \A g \in Files : \/ layer'[g] = layer[g]
                          \/ /\ g = f /\ layer[g].version = 0
                             /\ layer'[g].version = file[g] /\ layer'[g].stamp = NoStamp
      /\ changed' = changed
  BY <1>0, ComposeFacts
<1>2. LayersFrom
  BY <1>1 DEF LayersFrom
<1>3. TimePasses
  BY <1>0, TimeStands
<1> QED BY <1>0, <1>1, <1>2, <1>3 DEF Onwards, Remembers

LEMMA LoadingFlows ==
    ASSUME RInv, SInv, NEW s \in Scans, NEW f \in Files, LoadFile(s, f) \/ ReadClip(s, f)
    PROVE  Onwards
<1>1. /\ op[s].cur \in StageIds /\ file' = file /\ start' = start /\ StampsOK /\ TypeOK
  BY HasStage DEF LoadFile, ReadClip, Holding, SInv, RInv, TInv
<1>2. \/ Compose(s, f) /\ (layer[f].version # 0 \/ Readable(f))
      \/ layer' = layer /\ changed' = changed
      \/ Fail(s)
  BY DEF LoadFile, ReadClip
<1>3. CASE layer' = layer /\ changed' = changed
  BY <1>1, <1>3, UnsettledFlows, TimeStands DEF Onwards
<1> QED BY <1>1, <1>2, <1>3, ComposeFlows, ForgettingFlows

LEMMA BeginScanFlows ==
    ASSUME RInv, TInv', StampsOK, NEW s \in Scans,
           DropCachedStages(s) \/ \E k \in Keys : BeginScan(s, k)
    PROVE  Onwards
<1>0. TypeOK /\ TypeOK' /\ \A c \in Conns, f \in Files : start[c][f] <= file[f]
  BY DEF RInv, TInv, StampsOK
<1>1. /\ layer' = layer /\ changed' = changed /\ file' = file
      /\ start' \in {start, [start EXCEPT ![Conn(s)] = file]}
      /\ start' # start => QueryIdle(Conn(s))
  <2>1. start = [start EXCEPT ![Conn(s)] = start[Conn(s)]]
    BY <1>0 DEF TypeOK
  <2> QED BY <2>1 DEF DropCachedStages, BeginScan, Unsettled
<1>2. \A f \in Files : file[f] <= file[f]
  BY <1>0, BoundAssumption DEF TypeOK, Version
<1>3. \A c \in Conns : start'[c] = start[c] \/ (start'[c] = file /\ QueryIdle(c))
  BY <1>0, <1>1 DEF TypeOK
<1>4. TimePasses
  <2>1. \A c \in Conns, f \in Files : start'[c][f] <= file'[f]
    BY <1>0, <1>1, <1>2, <1>3
  <2>2. \A t \in Scans : op[t].pc # "idle" => start'[Conn(t)] = start[Conn(t)]
    BY <1>3, ConfigAssumption DEF QueryIdle, Conn
  <2> QED BY <1>1, <1>2, <2>1, <2>2 DEF TimePasses
<1> QED BY <1>1, <1>4, UnsettledFlows DEF Onwards

LEMMA EndQueryFlows ==
    ASSUME RInv, StampsOK, NEW c \in Conns, EndQuery(c)
    PROVE  Onwards
<1>0. /\ TypeOK /\ stage \in [StageIds -> StageType] /\ changed \in [Scans -> SUBSET Files]
      /\ \A d \in Conns, f \in Files : start[d][f] <= file[f]
  BY DEF RInv, TInv, TypeOK, StampsOK
<1>1. /\ Settle(stage, layer, registry, QueryEnd(c), changed) /\ file' = file
      /\ start' = [start EXCEPT ![c] = [f \in Files |-> 1]]
  BY DEF EndQuery
<1>2. \A f \in Files : file[f] <= file[f] /\ 1 <= file[f]
  BY <1>0, BoundAssumption DEF TypeOK, Version
<1>3. /\ \A d \in Conns \ {c} : start'[d] = start[d]
      /\ \A f \in Files : start'[c][f] = 1
  BY <1>0, <1>1 DEF TypeOK
<1>4. \A d \in Conns, f \in Files : start'[d][f] <= file'[f]
  BY <1>0, <1>1, <1>2, <1>3
<1>5. \A t \in Scans : op'[t].pc # "idle" => start'[Conn(t)] = start[Conn(t)]
  <2>1. \A t \in Scans : Conn(t) = c => op'[t].pc = "idle"
    BY EndQueryCalls DEF CallsOn
  <2> QED BY <1>3, <2>1, ConfigAssumption DEF Conn
<1>6. LayersFrom /\ \A t \in Scans : Remembers(t)
  BY <1>0, <1>1, SettledFlows
<1> QED BY <1>1, <1>2, <1>4, <1>5, <1>6 DEF Onwards, TimePasses

LEMMA WriteFileFlows ==
    ASSUME RInv, TInv', StampsOK, NEW f \in Files, WriteFile(f)
    PROVE  Onwards
<1>0. TypeOK /\ TypeOK' /\ \A c \in Conns, g \in Files : start[c][g] <= file[g]
  BY DEF RInv, TInv, StampsOK
<1>1. /\ layer' = layer /\ changed' = changed /\ start' = start
      /\ file' = [file EXCEPT ![f] = @ + 1]
  BY DEF WriteFile
<1>2. \A g \in Files : file[g] \in Nat /\ file'[g] \in Nat /\ file[g] <= file'[g]
  BY <1>0, <1>1, BoundAssumption DEF TypeOK, Version
<1>3. \A c \in Conns, g \in Files : start[c][g] \in Nat
  BY <1>0, BoundAssumption DEF TypeOK, Version
<1>4. TimePasses
  BY <1>0, <1>1, <1>2, <1>3 DEF TimePasses
<1> QED BY <1>1, <1>4, UnsettledFlows DEF Onwards

LEMMA EvictFlows ==
    ASSUME RInv, StampsOK, NEW d \in Dbs, NEW k \in Keys, Evict(d, k)
    PROVE  Onwards
BY DropsFlows DEF Evict

-----------------------------------------------------------------------------
(* What the actions do to the call that takes the step *)

\* Steps at which a call with a cached stage is about to release it
Letting == {"snapshot", "sweep", "test", "get", "delete", "release"}

\* If the call is about to release a cached stage, the stage is outdated
LetsOutdated(s) ==
    op'[s].pass = "cached" /\ op'[s].pc \in Letting =>
        /\ op[s].ent \in StageIds /\ op'[s].ent = op[s].ent /\ op[s].pc # "idle"
        /\ stage[op[s].ent].released \/ Outdated(Conn(s), op[s].ent)

LEMMA SCall ==
    ASSUME RInv, RInv', SInv, NEW s \in Scans, NEW own \in SUBSET StageIds, Step({s}, own),
           own = {} \/ ~(op'[s].pass = "cached" /\ op'[s].pc \in Letting), Onwards,
           CheckedOf(s)', LetsOutdated(s), \A i \in own : i \in Entries' => Stamped(i)'
    PROVE  SInv'
<1>0. /\ {s} \in SUBSET Scans /\ Flows({s}) /\ TimePasses /\ Remembers(s)
      /\ TypeOK /\ TypeOK' /\ ChangedOf(s)
  BY OnwardsFlows DEF Onwards, RInv, TInv, SInv
<1>1. ChangedOf(s)'
  <2>1. CASE own = {}
    BY <1>0, <2>1, ChangedCall DEF LetsOutdated, Letting
  <2>2. CASE ~(op'[s].pass = "cached" /\ op'[s].pc \in Letting)
    <3>1. \A f \in changed'[s] : layer'[f].version # 0 /\ layer'[f].version < file'[f]
      BY <1>0, RemembersOutdated
    <3> QED BY <2>2, <3>1 DEF ChangedOf, Letting
  <2> QED BY <2>1, <2>2
<1>2. \A u \in {s} : CheckedOf(u)' /\ ChangedOf(u)'
  BY <1>1
<1> QED BY <1>0, <1>2, SStep

\* The same, for a call that has nothing to check or to release afterwards
LEMMA SEnds ==
    ASSUME RInv, RInv', SInv, NEW s \in Scans, NEW own \in SUBSET StageIds, Step({s}, own), Onwards,
           op'[s].pc \notin {"stat", "compare", "missing", "record"},
           Composing(op'[s]) => op'[s].pc = "load",
           op'[s].pass = "cached" => op'[s].pc \notin Letting,
           \A i \in own : i \in Entries' => Stamped(i)'
    PROVE  SInv'
<1>1. CheckedOf(s)'
  BY NothingLeft
<1> QED BY <1>1, SCall DEF LetsOutdated

\* ... and for one that only lets go of stages
LEMMA SSweeps ==
    ASSUME RInv, RInv', SInv, NEW s \in Scans, Step({s}, {}), Onwards,
           op'[s].cur \in {None, op[s].cur}, op'[s].key = op[s].key,
           op[s].pc \in {"snapshot", "sweep", "test", "get", "delete", "verify", "evicting"},
           op'[s].pc \in {"sweep", "test", "get", "delete", "release", "evicting", "open"},
           Composing(op'[s]) => Composing(op[s]),
           op'[s].pass = "cached" /\ op'[s].pc \in Letting =>
             op[s].pass = "cached" /\ op[s].pc \in Letting /\ op'[s].ent = op[s].ent
    PROVE  SInv'
<1>0. Facts(s) /\ {} \in SUBSET StageIds
  BY HasFacts
<1>1. CheckedOf(s)'
  <2>1. CASE op'[s].cur = None
    BY <2>1, NothingLeft DEF Composing
  <2>2. CASE op'[s].cur # None
    <3>1. op[s].cur \in StageIds /\ op'[s].cur = op[s].cur
      BY <1>0, <2>2 DEF Facts, OpType
    <3> QED BY <3>1, CheckedCall
  <2> QED BY <2>1, <2>2
<1>2. LetsOutdated(s)
  <2> SUFFICES ASSUME op'[s].pass = "cached", op'[s].pc \in Letting
               PROVE  /\ op[s].ent \in StageIds /\ op'[s].ent = op[s].ent /\ op[s].pc # "idle"
                      /\ stage[op[s].ent].released \/ Outdated(Conn(s), op[s].ent)
    BY DEF LetsOutdated
  <2>1. op[s].pass = "cached" /\ op[s].pc \in Letting /\ op'[s].ent = op[s].ent
    OBVIOUS
  <2>2. op[s].ent \in StageIds /\ op[s].pc # "idle"
    BY <1>0, <2>1 DEF Facts, LocalsOf, Letting
  <2>3. stage[op[s].ent].released \/ Outdated(Conn(s), op[s].ent)
    BY <2>1 DEF SInv, ChangedOf, Letting
  <2> QED BY <2>1, <2>2, <2>3
<1> QED BY <1>0, <1>1, <1>2, SCall

LEMMA SweepingStamps ==
    ASSUME RInv, RInv', SInv, NEW s \in Scans,
           \/ Snapshot(s) \/ \E v \in StageIds : SweepTake(s, v) \/ EvictNext(s, v)
           \/ SweepTest(s) \/ RemoveGet(s) \/ RemoveDelete(s) \/ SweepDone(s) \/ MakeRoom(s)
    PROVE  SInv'
<1>0. TInv /\ TInv' /\ Facts(s) /\ StampsOK
  BY HasFacts DEF RInv, SInv
<1>1. Onwards
  BY <1>0, StandsFlows, LetsGoFlows, ReleasingFlows, ForgettingFlows
<1>2. Step({s}, {})
  BY <1>0, SnapshotKeeps, SweepTakeKeeps, EvictNextKeeps, SweepTestKeeps, RemoveGetKeeps,
     RemoveDeleteKeeps, SweepDoneKeeps, MakeRoomKeeps
<1>3. ASSUME op'[s].pc \in {"sweep", "test", "get", "delete", "evicting"},
             op[s].pc \in {"snapshot", "sweep", "test", "get", "delete", "evicting"},
             op'[s].pass = op[s].pass, HoldsStill(s), op[s].pc = "evicting" => op[s].pass # "cached"
      PROVE  SInv'
  BY <1>1, <1>2, <1>3, SSweeps DEF HoldsStill, Holds, Composing, Letting
<1>4. op[s].pc = "evicting" => op[s].pass # "cached"
  BY <1>0 DEF Facts, LocalsOf
<1>5. CASE Snapshot(s) \/ \E v \in StageIds : SweepTake(s, v) \/ EvictNext(s, v)
  BY <1>0, <1>3, <1>4, <1>5, SnapshotCall, SweepTakeCall, EvictNextCall DEF At
<1>6. CASE SweepTest(s)
  BY <1>0, <1>3, <1>6, SweepTestCall DEF At
<1>7. ASSUME op[s].pc \in {"get", "delete"}, At(s, "open", op[s].pass), op[s].pass = "first",
             Holds(s, op[s].key, op[s].cur, None), op[s].ent # None
      PROVE  SInv'
  <2>1. op[s].cur = None
    BY <1>0, <1>7 DEF Facts, ShapeOf
  <2> QED BY <1>1, <1>2, <1>7, <2>1, SSweeps DEF At, Holds, Composing, Letting
<1>8. CASE RemoveGet(s)
  BY <1>0, <1>3, <1>7, <1>8, RemoveGetCall DEF At
<1>9. CASE RemoveDelete(s)
  BY <1>0, <1>3, <1>7, <1>9, RemoveDeleteCall DEF At
<1>10. CASE SweepDone(s)
  <2>1. /\ op[s].pc = "sweep"
        /\ \/ op[s].pass = "cached" /\ At(s, "release", op[s].pass) /\ HoldsStill(s)
           \/ op[s].pass # "cached" /\ At(s, "open", "again") /\ Holds(s, op[s].key, None, op[s].ent)
    BY <1>0, <1>10, SweepDoneCall
  <2> QED BY <1>1, <1>2, <2>1, SSweeps DEF At, HoldsStill, Holds, Composing, Letting
<1>11. CASE MakeRoom(s)
  <2>1. op[s].pc = "verify" /\ op[s].pass # "cached" /\ At(s, "evicting", "room") /\ HoldsStill(s)
    BY <1>0, <1>11, MakeRoomCall DEF Cacheable
  <2>2. op[s].pass \in {"first", "again"}
    BY <1>0, <2>1 DEF Facts, ShapeOf, OpType, Passes
  <2> QED BY <1>1, <1>2, <2>1, <2>2, SSweeps DEF At, HoldsStill, Holds, Composing, Letting
<1> QED BY <1>5, <1>6, <1>8, <1>9, <1>10, <1>11

\* A call that begins, ends, or has nothing composed yet
LEMMA EndingStamps ==
    ASSUME RInv, RInv', SInv, NEW s \in Scans,
           \/ Lookup(s) \/ Release(s) \/ Refuse(s) \/ Verified(s) \/ DoesNotFit(s) \/ Add(s)
           \/ Dropped(s) \/ FinishScan(s) \/ DropCachedStages(s)
           \/ \E k \in Keys : BeginScan(s, k)
    PROVE  SInv'
<1>0. TInv /\ TInv' /\ Facts(s) /\ StampsOK /\ {} \in SUBSET StageIds
  BY HasFacts DEF RInv, SInv
<1>1. Onwards
  BY <1>0, StandsFlows, LetsGoFlows, ReleasingFlows, ForgettingFlows, ReturningFlows, BeginScanFlows
<1>2. Step({s}, {})
  BY <1>0, LookupKeeps, ReleaseKeeps, RefuseKeeps, VerifiedKeeps, DoesNotFitKeeps, AddKeeps,
     DroppedKeeps, FinishScanKeeps, DropCachedStagesKeeps, BeginScanKeeps
<1>3. ASSUME op'[s].pc \in {"using", "done", "lookup", "gethandle", "open", "evicting"},
             op'[s].pass \in {"cached", "drop"} \/ op'[s].cur = None
      PROVE  SInv'
  BY <1>0, <1>1, <1>2, <1>3, SEnds DEF Composing, Letting
<1>4. CASE Lookup(s)
  <2>1. op[s].pc = "lookup" /\ op[s].cur = None
    BY <1>0, <1>4 DEF Lookup, Facts, ShapeOf
  <2>2. op'[s].pc \in {"open", "gethandle"} /\ op'[s].cur = None
    BY <1>0, <1>4, <2>1, LookupCall DEF At, HoldsStill, Holds
  <2> QED BY <1>3, <2>2
<1>5. CASE Release(s)
  <2>1. op[s].pc = "release" /\ op[s].cur = None
    BY <1>0, <1>5 DEF Release, Facts, ShapeOf
  <2>2. op'[s].pc = "get" /\ op'[s].pass = "first" /\ op'[s].cur = None
    BY <1>0, <1>5, <2>1, ReleaseCall DEF At, HoldsStill, Holds
  <2> QED BY <1>0, <1>1, <1>2, <2>2, SEnds DEF Composing
<1>6. CASE Refuse(s) \/ Dropped(s) \/ FinishScan(s)
  <2>1. op'[s].pc = "done" /\ op'[s].pass = "cached"
    BY <1>0, <1>6, FailCall, DroppedCall, FinishScanCall DEF At, Refuse
  <2> QED BY <1>3, <2>1
<1>7. CASE Verified(s) \/ DoesNotFit(s) \/ Add(s)
  <2>1. op'[s].pc = "using" /\ op'[s].pass = "cached"
    BY <1>0, <1>7, ReturnCall DEF At, Verified, DoesNotFit, Add
  <2> QED BY <1>3, <2>1
<1>8. CASE DropCachedStages(s) \/ \E k \in Keys : BeginScan(s, k)
  BY <1>0, <1>3, <1>8, DropCachedStagesCall, BeginScanCall DEF At
<1> QED BY <1>4, <1>5, <1>6, <1>7, <1>8

\* Stages that a call composes, before it has compared their layers
LEMMA LoadingStamps ==
    ASSUME RInv, RInv', SInv, NEW s \in Scans,
           OpenStage(s) \/ \E f \in Files : LoadFile(s, f) \/ ReadClip(s, f)
    PROVE  SInv'
<1>0. TInv /\ TInv' /\ Facts(s) /\ StampsOK /\ {} \in SUBSET StageIds
  BY HasFacts DEF RInv, SInv
<1>1. Onwards
  BY <1>0, StandsFlows, LoadingFlows
<1>2. UnseenOf(s)' /\ ShapeOf(op'[s])
  BY DEF RInv, RefsOf, ShapeOf
<1>3. ASSUME op'[s].pc \in {"load", "done", "using"}, op'[s].pc = "load" => Composing(op'[s]),
             NEW own \in SUBSET StageIds, Step({s}, own), \A i \in own : i = op'[s].cur /\ op'[s].pc = "load"
      PROVE  SInv'
  <2>1. \A i \in own : i \notin Entries'
    BY <1>2, <1>3 DEF UnseenOf
  <2>2. op'[s].pc # "load" => ~Composing(op'[s])
    BY <1>2, <1>3 DEF ShapeOf, Composing
  <2> QED BY <1>1, <1>2, <1>3, <2>1, <2>2, SEnds DEF Letting
<1>4. CASE OpenStage(s)
  <2>1. op'[s].cur \in StageIds /\ Step({s}, {op'[s].cur})
    BY <1>0, <1>4, OpenStageKeeps
  <2>2. op'[s].pc = "load"
    BY <1>0, <1>4, OpenStageCall DEF At
  <2>3. Composing(op'[s])
    BY <1>2, <2>1, <2>2, NoneAssumption DEF ShapeOf, Composing
  <2> QED BY <1>3, <2>1, <2>2, <2>3
<1>5. ASSUME NEW f \in Files, LoadFile(s, f) PROVE SInv'
  <2>1. op[s].pc = "load" /\ op[s].cur \in StageIds
    BY <1>5, HasStage DEF LoadFile, Holding
  <2>2. \/ op'[s].pc = "load" /\ op'[s].cur = op[s].cur /\ ~Fail(s)
        \/ Fail(s) /\ op'[s].pc = "done"
    BY <1>0, <1>5, <2>1, LoadFileCall, FailCall DEF At, HoldsStill, Holds
  <2>3. op'[s].pc = "load" => Composing(op'[s])
    BY <1>2, <2>1, <2>2, NoneAssumption DEF ShapeOf, Composing
  <2>4. CASE Fail(s)
    <3>1. Step({s}, {})
      BY <1>0, <1>5, <2>4, FailKeeps DEF LoadFile
    <3> QED BY <1>0, <1>3, <2>2, <2>3, <3>1
  <2>5. CASE ~Fail(s)
    <3>1. Step({s}, {op[s].cur}) \/ Step({s}, {})
      BY <1>0, <1>5, LoadFileKeeps
    <3> QED BY <1>0, <1>3, <2>1, <2>2, <2>3, <2>5, <3>1
  <2> QED BY <2>4, <2>5
<1>6. ASSUME NEW f \in Files, ReadClip(s, f) PROVE SInv'
  <2>1. Step({s}, {})
    BY <1>0, <1>6, ReadClipKeeps
  <2>2. op'[s].pc = "using"
    BY <1>6 DEF ReadClip
  <2> QED BY <1>0, <1>3, <2>1, <2>2
<1> QED BY <1>4, <1>5, <1>6

\* The layers of the stage are about to be compared
LEMMA StatCall ==
    ASSUME RInv, RInv', SInv, PInv, NEW s \in Scans, Step({s}, {}), Onwards, stage' = stage,
           ~Finding(op[s]), At(s, "stat", op[s].pass), op'[s].cur \in StageIds,
           op'[s].todo = stage[op'[s].cur].loaded
    PROVE  SInv'
<1>1. changed'[s] = {} 
  BY DEF Onwards, Remembers, PInv
<1>2. CheckedOf(s)'
  BY <1>1 DEF CheckedOf, LayersLeft, SeenOK, MissingLeft, LayersStamped, MissingStamped, At
<1>3. LetsOutdated(s) /\ {} \in SUBSET StageIds
  BY DEF LetsOutdated, Letting, At
<1> QED BY <1>2, <1>3, SCall

LEMMA LoadedStamps ==
    ASSUME RInv, RInv', SInv, PInv, NEW s \in Scans, Loaded(s)
    PROVE  SInv'
<1>0. TInv /\ TInv' /\ StampsOK
  BY DEF RInv, SInv
<1>1. Onwards /\ Step({s}, {}) /\ stage' = stage
  BY <1>0, StandsFlows, LoadedKeeps DEF Loaded, Unsettled
<1>2. /\ op[s].pc = "load" /\ At(s, "stat", op[s].pass) /\ op'[s].cur = op[s].cur
      /\ op'[s].todo = stage[op[s].cur].loaded
  BY <1>0, LoadedCall DEF HoldsStill, Holds, LeftTo
<1>3. op[s].cur \in StageIds /\ ~Finding(op[s])
  BY <1>2, HasStage DEF Holding, Finding
<1> QED BY <1>1, <1>2, <1>3, StatCall

LEMMA GetHandleStamps ==
    ASSUME RInv, RInv', SInv, PInv, NEW s \in Scans, GetHandle(s)
    PROVE  SInv'
<1>0. TInv /\ TInv' /\ StampsOK /\ Facts(s) /\ {} \in SUBSET StageIds
  BY HasFacts DEF RInv, SInv
<1>1. Onwards /\ Step({s}, {}) /\ stage' = stage
  BY <1>0, StandsFlows, GetHandleKeeps DEF GetHandle, Unsettled
<1>2. op[s].pc = "gethandle" /\ ~Finding(op[s]) /\ op[s].ent \in StageIds /\ op[s].cur = None
  BY <1>0 DEF GetHandle, Finding, Facts, LocalsOf, ShapeOf
<1>3. CASE /\ stage[op[s].ent].released /\ At(s, "release", op[s].pass) /\ HoldsStill(s)
  <2>1. op'[s].pc = "release" /\ op'[s].cur = None /\ op'[s].ent = op[s].ent
    BY <1>2, <1>3 DEF At, HoldsStill, Holds
  <2>2. CheckedOf(s)'
    BY <2>1, NothingLeft DEF Composing
  <2>3. LetsOutdated(s)
    BY <1>2, <1>3, <2>1 DEF LetsOutdated
  <2> QED BY <1>0, <1>1, <2>2, <2>3, SCall
<1>4. CASE /\ At(s, "stat", op[s].pass) /\ Holds(s, op[s].key, op[s].ent, op[s].ent)
           /\ LeftTo(s, stage[op[s].ent].loaded)
  <2>1. op'[s].cur = op[s].ent /\ op'[s].todo = stage[op[s].ent].loaded
    BY <1>4 DEF Holds, LeftTo
  <2> QED BY <1>1, <1>2, <1>4, <2>1, StatCall
<1> QED BY <1>0, <1>3, <1>4, GetHandleCall

LEMMA ReadStampStamps ==
    ASSUME RInv, RInv', SInv, NEW s \in Scans, NEW f \in Files, ReadStamp(s, f)
    PROVE  SInv'
<1>0. TInv /\ TInv' /\ TypeOK /\ StampsOK /\ Facts(s) /\ {} \in SUBSET StageIds /\ CheckedOf(s)
  BY HasFacts DEF RInv, SInv, TInv
<1>1. Onwards /\ Step({s}, {}) /\ stage' = stage /\ layer' = layer /\ file' = file /\ start' = start
  BY <1>0, StandsFlows, ReadStampKeeps DEF ReadStamp, Unsettled
<1>2. /\ op[s].pc = "stat" /\ f \in op[s].todo /\ op'[s].at = f /\ op'[s].seen = Stamp(f)
      /\ op'[s].pc = "compare" /\ op'[s].pass = op[s].pass
      /\ op'[s].key = op[s].key /\ op'[s].cur = op[s].cur /\ op'[s].todo = op[s].todo
  BY <1>0, ReadStampCall DEF At, HoldsStill, Holds, LeftTo
<1>3. SeenOK(s)'
  <2>1. Conn(s)' = Conn(s) /\ Conn(s) \in Conns
    BY <1>0 DEF Facts, Conn
  <2>2. /\ layer[f].version \in Nat /\ file[f] \in Nat
        /\ layer[f].version <= file[f] /\ start[Conn(s)][f] <= file[f]
    <3>1. file[f] \in Version /\ layer[f].version \in 0 .. MaxVersion
      BY <1>0 DEF TypeOK
    <3>2. layer[f].version <= file[f] /\ start[Conn(s)][f] <= file[f]
      BY <1>0, <2>1 DEF StampsOK
    <3> QED BY <3>1, <3>2, BoundAssumption DEF Version
  <2>3. file[f] \in layer[f].version .. file[f] /\ Stamp(f) = StampAt(f, file[f])
    BY <2>2 DEF Stamp
  <2> QED BY <1>1, <1>2, <2>1, <2>2, <2>3 DEF SeenOK
<1>4. LayersLeft(s)' /\ LayersStamped(s)'
  <2>1. changed'[s] \subseteq changed[s]
    BY <1>1 DEF Onwards, Remembers
  <2>2. LayersLeft(s)'
    BY <1>0, <1>1, <1>2, <2>1 DEF CheckedOf, LayersLeft
  <2>3. Composing(op'[s]) => Composing(op[s])
    BY <1>2 DEF Composing
  <2> QED BY <1>0, <1>1, <1>2, <2>2, <2>3 DEF CheckedOf, LayersStamped
<1>5. CheckedOf(s)'
  BY <1>2, <1>3, <1>4 DEF CheckedOf, MissingLeft, MissingStamped
<1>6. LetsOutdated(s)
  BY <1>2 DEF LetsOutdated, Letting
<1> QED BY <1>0, <1>1, <1>5, <1>6, SCall

\* The versions of a layer and of its file
LEMMA VersionsOK ==
    ASSUME TypeOK, StampsOK, NEW f \in Files
    PROVE  layer[f].version \in Nat /\ file[f] \in Nat /\ layer[f].version <= file[f]
<1>1. file[f] \in Version /\ layer[f].version \in 0 .. MaxVersion
  BY DEF TypeOK
<1>2. layer[f].version <= file[f]
  BY DEF StampsOK
<1> QED BY <1>1, <1>2, BoundAssumption DEF Version

\* A layer whose file had two stamps since it was read is outdated
LEMMA TwoStamps ==
    ASSUME TypeOK, StampsOK, NEW f \in Files, NEW x, NEW y, Since(f, x), Since(f, y), x # y
    PROVE  layer[f].version < file[f]
<1>1. layer[f].version \in Nat /\ file[f] \in Nat /\ layer[f].version <= file[f]
  BY VersionsOK
<1>2. PICK g \in layer[f].version .. file[f] : x = StampAt(f, g)
  BY DEF Since
<1>3. PICK h \in layer[f].version .. file[f] : y = StampAt(f, h)
  BY DEF Since
<1>4. g # h
  BY <1>2, <1>3
<1> QED BY <1>1, <1>2, <1>3, <1>4

\* Compare records a stamp, or finds a layer outdated
LEMMA CompareLayers ==
    ASSUME RInv, SInv, NEW s \in Scans, Compare(s)
    PROVE  /\ op[s].at \in stage[op[s].cur].loaded /\ op[s].at \in Files
           /\ LayersFrom /\ \A t \in Scans \ {s} : Remembers(t)
           /\ \A f \in Files : layer'[f].version = layer[f].version
           /\ \A f \in Files : layer[f].stamp # NoStamp => layer'[f].stamp # NoStamp
           /\ layer'[op[s].at].stamp # NoStamp
           /\ changed'[s] \subseteq changed[s] \cup {op[s].at}
           /\ \A f \in changed'[s] : layer[f].version # 0 /\ layer[f].version < file[f]
<1> DEFINE f == op[s].at
           x == op[s].seen
<1>0. /\ TypeOK /\ StampsOK /\ Facts(s) /\ op[s].pc = "compare" /\ LayersLeft(s) /\ SeenOK(s)
      /\ ChangedOf(s) /\ LayersOK
  BY HasFacts DEF RInv, TInv, SInv, CheckedOf, Compare
<1>1. op[s].cur \in StageIds /\ op[s].cur \in Alive /\ x # NoStamp
  <2>1. x \in Stamps
    BY <1>0 DEF Facts, LocalsOf
  <2> QED BY <1>0, <2>1, HasStage, BoundAssumption DEF Holding, Stamps, NoStamp
<1>2. f \in stage[op[s].cur].loaded /\ f \in Files
  <2>1. f \in stage[op[s].cur].loaded
    BY <1>0 DEF LayersLeft, SeenOK
  <2> QED BY <1>0, <1>1, <2>1 DEF TypeOK, StageType
<1>3. layer[f].version # 0 /\ Since(f, x)
  BY <1>0, <1>1, <1>2 DEF LayersOK, SeenOK, Since
<1>4. /\ layer' = layer \/ (layer[f].stamp = NoStamp /\ layer' = [layer EXCEPT ![f].stamp = x])
      /\ layer[f].stamp = NoStamp => layer' = [layer EXCEPT ![f].stamp = x]
      /\ changed' = changed \/ (/\ layer[f].stamp \notin {NoStamp, x}
                                /\ changed' = [changed EXCEPT ![s] = @ \cup {f}])
  BY DEF Compare
<1> HIDE DEF f, x
<1>5. /\ \A g \in Files \ {f} : layer'[g] = layer[g]
      /\ layer'[f].version = layer[f].version
      /\ layer'[f].stamp = layer[f].stamp \/ (layer[f].stamp = NoStamp /\ layer'[f].stamp = x)
      /\ layer[f].stamp = NoStamp => layer'[f].stamp = x
  <2>1. CASE layer' = layer
    BY <1>4, <2>1, <1>0, <1>2 DEF TypeOK
  <2>2. CASE layer[f].stamp = NoStamp /\ layer' = [layer EXCEPT ![f].stamp = x]
    <3>1. layer'[f] = [layer[f] EXCEPT !.stamp = x] /\ \A g \in Files \ {f} : layer'[g] = layer[g]
      BY <1>0, <1>2, <2>2 DEF TypeOK
    <3>2. layer[f] \in [version : 0 .. MaxVersion, stamp : Stamps \cup {NoStamp}]
      BY <1>0, <1>2 DEF TypeOK
    <3> QED BY <2>2, <3>1, <3>2
  <2> QED BY <1>4, <2>1, <2>2
<1>6. layer'[f] = layer[f] \/ layer'[f].stamp = x
  <2>1. CASE layer' = layer
    BY <2>1
  <2>2. CASE layer[f].stamp = NoStamp
    BY <1>5, <2>2
  <2> QED BY <1>4, <2>1, <2>2
<1>7. LayersFrom
  BY <1>3, <1>5, <1>6 DEF LayersFrom
<1>8. \A t \in Scans \ {s} : Remembers(t)
  <2>1. \A t \in Scans \ {s} : changed'[t] = changed[t] /\ changed[t] \subseteq Files
    BY <1>0, <1>4 DEF TypeOK
  <2> QED BY <1>5, <2>1 DEF Remembers
<1>9. \A g \in changed'[s] : layer[g].version # 0 /\ layer[g].version < file[g]
  <2>1. \A g \in changed[s] : layer[g].version # 0 /\ layer[g].version < file[g]
    BY <1>0 DEF ChangedOf
  <2>2. layer[f].stamp \notin {NoStamp, x} => layer[f].version < file[f]
    <3>1. layer[f].stamp # NoStamp => Since(f, layer[f].stamp)
      BY <1>0, <1>2, <1>3 DEF StampsOK
    <3> QED BY <1>0, <1>2, <1>3, <3>1, TwoStamps
  <2>3. changed'[s] = changed[s] \/ (/\ layer[f].stamp \notin {NoStamp, x}
                                     /\ changed'[s] = changed[s] \cup {f})
    BY <1>0, <1>4 DEF TypeOK
  <2> QED BY <1>3, <2>1, <2>2, <2>3
<1>10. changed'[s] \subseteq changed[s] \cup {f}
  BY <1>0, <1>4 DEF TypeOK
<1>11. layer'[f].stamp # NoStamp /\ \A g \in Files : layer[g].stamp # NoStamp => layer'[g].stamp # NoStamp
  BY <1>1, <1>5
<1>12. \A g \in Files : layer'[g].version = layer[g].version
  BY <1>5
<1> QED BY <1>2, <1>7, <1>8, <1>9, <1>10, <1>11, <1>12 DEF f

LEMMA CompareStamps ==
    ASSUME RInv, RInv', SInv, NEW s \in Scans, Compare(s)
    PROVE  SInv'
<1>0. /\ TInv /\ TInv' /\ TypeOK /\ StampsOK /\ Facts(s) /\ {} \in SUBSET StageIds
      /\ LayersLeft(s) /\ LayersStamped(s) /\ {s} \in SUBSET Scans
  BY HasFacts DEF RInv, TInv, SInv, CheckedOf
<1>1. /\ op[s].pc = "compare" /\ op'[s].pc = "stat" /\ op'[s].pass = op[s].pass
      /\ op'[s].key = op[s].key /\ op'[s].cur = op[s].cur /\ op'[s].todo = op[s].todo \ {op[s].at}
  BY <1>0, CompareCall DEF At, HoldsStill, Holds, LeftTo
<1>2. Step({s}, {}) /\ stage' = stage /\ file' = file /\ start' = start
  BY <1>0, CompareKeeps DEF Compare
<1>3. Flows({s})
  BY <1>0, <1>2, TimeStands, CompareLayers DEF Flows
<1>4. ChangedOf(s)'
  <2>1. \A f \in changed'[s] : f \in Files /\ layer[f].version # 0 /\ layer[f].version < file[f]
    BY <1>0, CompareLayers DEF TInv, TypeOK
  <2> QED BY <1>1, <1>2, <2>1, CompareLayers DEF ChangedOf
<1>5. LayersLeft(s)'
  BY <1>0, <1>1, <1>2, CompareLayers DEF LayersLeft
<1>6. LayersStamped(s)'
  <2> SUFFICES ASSUME Composing(op[s]), NEW f \in Uses[op[s].key] \cap stage[op[s].cur].loaded,
                      f \notin op[s].todo \ {op[s].at}
               PROVE  layer'[f].stamp # NoStamp
    BY <1>1, <1>2 DEF LayersStamped, Composing
  <2>1. op[s].cur \in StageIds
    BY <1>1, HasStage DEF Holding
  <2>2. f \in Files
    BY <1>0, <2>1 DEF TypeOK, StageType
  <2>3. layer[f].stamp # NoStamp \/ f = op[s].at
    BY <1>0, <1>1 DEF LayersStamped
  <2> QED BY <2>2, <2>3, CompareLayers
<1>7. \A u \in {s} : CheckedOf(u)' /\ ChangedOf(u)'
  BY <1>1, <1>4, <1>5, <1>6 DEF CheckedOf, SeenOK, MissingLeft, MissingStamped
<1> QED BY <1>0, <1>2, <1>3, <1>7, SStep

\* A call that goes on to the next check, or to verify its stage
LEMMA GoesOn ==
    ASSUME RInv, RInv', SInv, NEW s \in Scans, Step({s}, {}), Onwards,
           op[s].pc \in {"stat", "missing"}, op[s].pc = "stat" => op[s].todo = {},
           op'[s].cur = op[s].cur, op'[s].key = op[s].key, op'[s].pass = op[s].pass,
           \/ op'[s].pc = "verify"
           \/ op'[s].pc = "snapshot" /\ op[s].pass = "first"
           \/ /\ op'[s].pc = "missing" /\ op[s].pass = "cached"
              /\ op'[s].todo \subseteq Missing(op[s].cur)
    PROVE  SInv'
<1>0. Facts(s) /\ {} \in SUBSET StageIds /\ {s} \in SUBSET Scans
  BY HasFacts
<1>1. op[s].cur \in StageIds
  BY HasStage DEF Holding
<1>2. LayersStamped(s)'
  BY <1>1, StampedCall DEF Composing
<1>3. MissingLeft(s)'
  <2>1. stage'[op[s].cur].miss = stage[op[s].cur].miss
    BY <1>0, <1>1, CurKept DEF Kept, Contents
  <2> QED BY <2>1 DEF MissingLeft, Missing
<1>4. CheckedOf(s)'
  BY <1>2, <1>3 DEF CheckedOf, LayersLeft, SeenOK, MissingStamped
<1>5. LetsOutdated(s)
  BY DEF LetsOutdated, Letting
<1> QED BY <1>0, <1>4, <1>5, SCall

\* A call that lets go of a cached stage found to be outdated
LEMMA LetsGo ==
    ASSUME RInv, RInv', SInv, NEW s \in Scans, Step({s}, {}), Onwards,
           op[s].pc \in {"stat", "missing"}, op[s].pass = "cached",
           op'[s].pc \in {"snapshot", "release"}, op'[s].cur = None, op'[s].ent = op[s].ent,
           Outdated(Conn(s), op[s].cur)
    PROVE  SInv'
<1>0. Facts(s) /\ {} \in SUBSET StageIds
  BY HasFacts
<1>1. op[s].ent \in StageIds /\ op[s].cur = op[s].ent
  BY <1>0, HasStage DEF Facts, LocalsOf, ShapeOf, Holding, RInv, RefsOf
<1>2. CheckedOf(s)'
  BY NothingLeft DEF Composing
<1>3. LetsOutdated(s)
  BY <1>1 DEF LetsOutdated
<1> QED BY <1>0, <1>2, <1>3, SCall

LEMMA ComparedStamps ==
    ASSUME RInv, RInv', SInv, NEW s \in Scans, Compared(s)
    PROVE  SInv'
<1>0. TInv /\ TInv' /\ StampsOK /\ LayersLeft(s) /\ ChangedOf(s) /\ TypeOK
  BY DEF RInv, TInv, SInv, CheckedOf
<1>1. Onwards /\ Step({s}, {})
  BY <1>0, LetsGoFlows, ComparedKeeps
<1>2. op[s].pc = "stat" /\ op[s].todo = {}
  BY <1>0, ComparedCall
<1>3. ASSUME changed[s] # {} PROVE Outdated(Conn(s), op[s].cur)
  <2>1. PICK f \in changed[s] : TRUE
    BY <1>3
  <2>2. f \in Files /\ f \in stage[op[s].cur].loaded /\ layer[f].version < file[f]
    BY <1>0, <1>2, <2>1 DEF LayersLeft, ChangedOf, TypeOK
  <2>3. layer[f].version # file[f]
    BY <1>0, <2>2, VersionsOK
  <2> QED BY <2>2, <2>3 DEF Outdated
<1>4. CASE /\ op[s].pass = "cached" /\ changed[s] # {}
           /\ At(s, "snapshot", op[s].pass) /\ Holds(s, op[s].key, None, op[s].ent)
  BY <1>1, <1>2, <1>3, <1>4, LetsGo DEF At, Holds
<1>5. CASE At(s, "verify", op[s].pass) /\ HoldsStill(s)
  BY <1>1, <1>2, <1>5, GoesOn DEF At, Holds, HoldsStill
<1>6. CASE op[s].pass = "first" /\ At(s, "snapshot", op[s].pass) /\ HoldsStill(s)
  BY <1>1, <1>2, <1>6, GoesOn DEF At, Holds, HoldsStill
<1>7. CASE /\ op[s].pass = "cached" /\ At(s, "missing", op[s].pass) /\ HoldsStill(s)
           /\ LeftTo(s, Missing(op[s].cur))
  BY <1>1, <1>2, <1>7, GoesOn DEF At, Holds, HoldsStill, LeftTo
<1> QED BY <1>0, <1>4, <1>5, <1>6, <1>7, ComparedCall

LEMMA CheckMissingStamps ==
    ASSUME RInv, RInv', SInv, NEW s \in Scans, NEW f \in Files, CheckMissing(s, f)
    PROVE  SInv'
<1>0. TInv /\ TInv' /\ StampsOK /\ MissingLeft(s) /\ TypeOK /\ Facts(s)
  BY HasFacts DEF RInv, TInv, SInv, CheckedOf
<1>1. Onwards /\ Step({s}, {})
  BY <1>0, LetsGoFlows, CheckMissingKeeps
<1>2. /\ op[s].pc = "missing" /\ f \in op[s].todo /\ op[s].pass = "cached"
      /\ op[s].todo \subseteq Missing(op[s].cur)
  BY <1>0, CheckMissingCall DEF MissingLeft, Facts, LocalsOf
<1>3. ASSUME Stamp(f) # stage[op[s].cur].miss[f] PROVE Outdated(Conn(s), op[s].cur)
  <2>1. f \in Missing(op[s].cur) /\ Conn(s) \in Conns
    BY <1>0, <1>2 DEF Facts
  <2>2. /\ file[f] \in Version /\ start[Conn(s)][f] \in Version
    BY <1>0, <2>1 DEF TypeOK
  <2>3. start[Conn(s)][f] <= file[f]
    BY <1>0, <2>1 DEF StampsOK
  <2>4. file[f] \in start[Conn(s)][f] .. file[f]
    BY <2>2, <2>3, BoundAssumption DEF Version
  <2> QED BY <1>3, <2>1, <2>4 DEF Outdated, Stamp
<1>4. CASE At(s, "verify", op[s].pass) /\ HoldsStill(s)
  BY <1>1, <1>2, <1>4, GoesOn DEF At, Holds, HoldsStill
<1>5. CASE /\ At(s, "missing", op[s].pass) /\ HoldsStill(s) /\ LeftTo(s, op[s].todo \ {f})
  BY <1>1, <1>2, <1>5, GoesOn DEF At, Holds, HoldsStill, LeftTo
<1>6. CASE /\ Stamp(f) # stage[op[s].cur].miss[f]
           /\ At(s, "release", op[s].pass) /\ Holds(s, op[s].key, None, op[s].ent)
  BY <1>1, <1>2, <1>3, <1>6, LetsGo DEF At, Holds
<1> QED BY <1>0, <1>4, <1>5, <1>6, CheckMissingCall

LEMMA FitsStamps ==
    ASSUME RInv, RInv', SInv, NEW s \in Scans, Fits(s)
    PROVE  SInv'
<1>0. TInv /\ TInv' /\ StampsOK /\ Facts(s) /\ {} \in SUBSET StageIds /\ {s} \in SUBSET Scans
  BY HasFacts DEF RInv, SInv
<1>1. Onwards /\ Step({s}, {})
  BY <1>0, LetsGoFlows, FitsKeeps
<1>2. /\ op[s].pc = "evicting" /\ op[s].pass = "room" /\ op'[s].pc = "record" /\ op'[s].pass = "room"
      /\ op'[s].cur = op[s].cur /\ op'[s].key = op[s].key
      /\ op'[s].todo = Uses[op[s].key] \ stage[op[s].cur].loaded
  BY <1>0, FitsCall DEF At, HoldsStill, Holds, LeftTo, Uncomposed
<1>3. op[s].cur \in StageIds /\ StageIs(op[s].cur, op[s].key, Db(s))
  BY <1>0, <1>2, HasStage DEF Facts, RefsOf
<1>4. LayersStamped(s)'
  BY <1>1, <1>2, <1>3, StampedCall DEF Composing
<1>5. /\ stage[op[s].cur].loaded \subseteq stage'[op[s].cur].loaded
      /\ stage'[op[s].cur].loaded \cap Uses[op[s].key] \subseteq stage[op[s].cur].loaded
  BY <1>0, <1>1, <1>2, <1>3, CurKept DEF Kept, Contents, StageIs
<1>6. CheckedOf(s)'
  BY <1>2, <1>4, <1>5 DEF CheckedOf, LayersLeft, SeenOK, MissingLeft, MissingStamped
<1>7. LetsOutdated(s)
  BY <1>2 DEF LetsOutdated
<1> QED BY <1>0, <1>1, <1>6, <1>7, SCall

LEMMA RecordMissingStamps ==
    ASSUME RInv, RInv', SInv, NEW s \in Scans, NEW f \in Files, RecordMissing(s, f)
    PROVE  SInv'
<1>0. TInv /\ TInv' /\ TypeOK /\ StampsOK /\ Facts(s) /\ CheckedOf(s)
  BY HasFacts DEF RInv, TInv, SInv
<1>1. Onwards /\ Step({s}, {op[s].cur}) /\ layer' = layer
  BY <1>0, StandsFlows, RecordMissingKeeps DEF RecordMissing
<1>2. /\ op[s].pc = "record" /\ op'[s].pc = "record" /\ op'[s].pass = op[s].pass
      /\ op'[s].cur = op[s].cur /\ op'[s].key = op[s].key /\ op'[s].todo = op[s].todo \ {f}
  BY <1>0, RecordMissingCall DEF At, HoldsStill, Holds, LeftTo
<1>3. op[s].cur \in StageIds /\ op[s].cur # None /\ op[s].pass = "room"
  BY <1>0, <1>2, HasStage DEF Holding, Facts, ShapeOf
<1>4. /\ stage'[op[s].cur].loaded = stage[op[s].cur].loaded
      /\ \A g \in Files : stage'[op[s].cur].miss[g] = IF g = f THEN Stamp(f) ELSE stage[op[s].cur].miss[g]
  <2>1. stage' = [stage EXCEPT ![op[s].cur].miss[f] = Stamp(f)]
    BY DEF RecordMissing
  <2> QED BY <1>0, <1>3, <2>1 DEF TypeOK, StageType
<1>5. Stamp(f) # NoStamp
  <2>1. file[f] \in Version
    BY <1>0 DEF TypeOK
  <2> QED BY <2>1, BoundAssumption DEF Stamp, StampAt, Version, NoStamp
<1>6. Uses[op[s].key] \subseteq Files
  BY <1>0, <1>2, ConfigAssumption DEF Facts, LocalsOf
<1>7. Composing(op[s]) /\ Composing(op'[s])
  BY <1>2, <1>3 DEF Composing
<1>8. CheckedOf(s)'
  <2>1. LayersStamped(s)'
    BY <1>0, <1>1, <1>2, <1>4, <1>7 DEF CheckedOf, LayersStamped
  <2>2. MissingLeft(s)' /\ MissingStamped(s)'
    BY <1>0, <1>2, <1>4, <1>5, <1>6 DEF CheckedOf, MissingLeft, MissingStamped
  <2> QED BY <1>2, <2>1, <2>2 DEF CheckedOf, LayersLeft, SeenOK
<1>9. op[s].cur \notin Entries'
  BY <1>2, <1>7 DEF RInv, UnseenOf
<1>10. LetsOutdated(s)
  BY <1>2, <1>3 DEF LetsOutdated
<1>11. {op[s].cur} \in SUBSET StageIds
  BY <1>3
<1> QED BY <1>1, <1>2, <1>3, <1>8, <1>9, <1>10, <1>11, SCall

LEMMA PutStamps ==
    ASSUME RInv, RInv', SInv, NEW s \in Scans, Put(s)
    PROVE  SInv'
<1>0. TInv /\ TInv' /\ TypeOK /\ StampsOK /\ Facts(s) /\ CheckedOf(s)
  BY HasFacts DEF RInv, TInv, SInv
<1>1. Onwards /\ Step({s}, {op[s].cur})
  BY <1>0, LetsGoFlows, PutKeeps
<1>2. /\ op[s].pc = "record" /\ op[s].todo = {} /\ op'[s].pc = "add" /\ op'[s].pass = op[s].pass
      /\ op'[s].cur = op[s].cur
  BY <1>0, PutCall DEF At, Holds
<1>3. /\ op[s].cur \in StageIds /\ op[s].cur # None /\ op[s].pass = "room"
      /\ StageIs(op[s].cur, op[s].key, Db(s)) /\ op[s].key \in Keys
  BY <1>0, <1>2, HasStage DEF Holding, Facts, RefsOf, ShapeOf
<1> DEFINE i == op[s].cur
           k == op[s].key
<1>4. \A f \in Uses[k] : /\ f \in Files
                         /\ f \in stage[i].loaded => layer[f].stamp # NoStamp
                         /\ f \notin stage[i].loaded => stage[i].miss[f] # NoStamp
  <2>1. Composing(op[s])
    BY <1>2, <1>3 DEF Composing
  <2> QED BY <1>0, <1>2, <1>3, <2>1, ConfigAssumption DEF CheckedOf, LayersStamped, MissingStamped
<1>5. stage'[i] = stage[i] /\ \A f \in stage[i].loaded : f \in Files => layer'[f] = layer[f]
  <2>1. i \in Alive'
    BY <1>2, <1>3, AliveNext, HandlesNext
  <2>2. stage \in [StageIds -> StageType] /\ Settle(stage, layer, registry, query, changed)
    BY <1>0 DEF TypeOK, Put
  <2> QED BY <2>1, <2>2, SettleFacts
<1>6. stage[i].key = k
  BY <1>3 DEF StageIs
<1> HIDE DEF i, k
<1>7. ASSUME NEW j \in {op[s].cur} PROVE Stamped(j)'
  <2>1. j = i
    BY <1>7 DEF i
  <2>2. stage'[j] = stage[i]
    BY <1>5, <2>1
  <2> SUFFICES ASSUME NEW f \in Uses[k]
               PROVE  /\ f \in stage[i].loaded => layer'[f].stamp # NoStamp
                      /\ f \notin stage[i].loaded => stage[i].miss[f] # NoStamp
    BY <1>6, <2>2 DEF Stamped
  <2> QED BY <1>4, <1>5
<1>8. CheckedOf(s)' /\ LetsOutdated(s)
  BY <1>2, <1>3, NothingLeft DEF Composing, LetsOutdated
<1>9. \A j \in {op[s].cur} : Stamped(j)'
  BY <1>7
<1>10. {op[s].cur} \in SUBSET StageIds /\ ~(op'[s].pass = "cached" /\ op'[s].pc \in Letting)
  BY <1>2, <1>3
<1> QED BY <1>1, <1>8, <1>9, <1>10, SCall

LEMMA EndQueryStamps ==
    ASSUME RInv, RInv', SInv, NEW c \in Conns, EndQuery(c)
    PROVE  SInv'
<1>0. TInv /\ TInv' /\ TypeOK /\ TypeOK' /\ StampsOK /\ {} \in SUBSET StageIds
  BY DEF RInv, TInv, SInv
<1>1. Onwards /\ Step(CallsOn(c), {}) /\ CallsOn(c) \in SUBSET Scans
  BY <1>0, EndQueryFlows, EndQueryKeeps, EndQueryCalls
<1>2. Flows(CallsOn(c))
  BY <1>1, OnwardsFlows
<1>3. ASSUME NEW u \in CallsOn(c) PROVE CheckedOf(u)' /\ ChangedOf(u)'
  <2>1. u \in Scans /\ op'[u].pc = "idle" /\ op'[u].cur = None
    BY <1>1, <1>3, EndQueryCalls
  <2>2. \A f \in changed'[u] : layer'[f].version # 0 /\ layer'[f].version < file'[f]
    BY <1>0, <1>1, <2>1, RemembersOutdated DEF Onwards, SInv
  <2> QED BY <2>1, <2>2, NothingLeft DEF ChangedOf, Composing
<1> QED BY <1>0, <1>1, <1>2, <1>3, SStep

\* ... and the steps of no call
LEMMA OthersStamps ==
    ASSUME RInv, RInv', SInv, Onwards, Step({}, {})
    PROVE  SInv'
<1>1. {} \in SUBSET Scans /\ {} \in SUBSET StageIds /\ Flows({})
  BY OnwardsFlows
<1> QED BY <1>1, SStep

LEMMA SInvInit == Init => SInv
<1> SUFFICES ASSUME Init PROVE SInv
  OBVIOUS
<1>1. /\ \A s \in Scans : op[s] = NoCall("idle") /\ changed[s] = {}
      /\ \A d \in Dbs, k \in Keys : cache[d][k] = None
      /\ \A f \in Files : file[f] = 1 /\ layer[f].version = 0
      /\ \A c \in Conns, f \in Files : start[c][f] = 1
  BY DEF Init, NoLayer
<1>2. \A s \in Scans : /\ op[s].pc = "idle" /\ op[s].cur = None /\ op[s].ent = None
                       /\ op[s].snap = {}
  <2> SUFFICES ASSUME NEW s \in Scans
               PROVE  op[s].pc = "idle" /\ op[s].cur = None /\ op[s].ent = None /\ op[s].snap = {}
    OBVIOUS
  <2>1. op[s] = CallAt("idle", None, None)
    BY <1>1 DEF NoCall
  <2> QED BY <2>1 DEF CallAt
<1>3. StampsOK
  BY <1>1 DEF StampsOK
<1>4. EntriesStamped
  BY <1>1, <1>2, EntriesAre, NoneAssumption DEF EntriesStamped
<1>5. \A s \in Scans : CheckedOf(s) /\ ChangedOf(s)
  BY <1>1, <1>2 DEF CheckedOf, LayersLeft, SeenOK, MissingLeft, LayersStamped, MissingStamped,
                    Composing, ChangedOf
<1> QED BY <1>3, <1>4, <1>5 DEF SInv

LEMMA SInvStep == RInv /\ PInv /\ SInv /\ [Next]_vars => SInv'
<1> SUFFICES ASSUME RInv, PInv, SInv, [Next]_vars PROVE SInv'
  OBVIOUS
<1>0. RInv' /\ TInv' /\ StampsOK
  BY RInvStep DEF RInv, SInv
<1>1. ASSUME NEW s \in Scans, Work(s) PROVE SInv'
  BY <1>0, <1>1, SweepingStamps, EndingStamps, LoadingStamps, LoadedStamps, GetHandleStamps,
     ReadStampStamps, CompareStamps, ComparedStamps, CheckMissingStamps, FitsStamps,
     RecordMissingStamps, PutStamps DEF Work
<1>2. ASSUME NEW s \in Scans, \/ FinishScan(s) \/ DropCachedStages(s)
                              \/ \E k \in Keys : BeginScan(s, k)
                              \/ \E f \in Files : ReadClip(s, f)
      PROVE SInv'
  BY <1>0, <1>2, EndingStamps, LoadingStamps
<1>3. ASSUME NEW c \in Conns, EndQuery(c) PROVE SInv'
  BY <1>0, <1>3, EndQueryStamps
<1>4. ASSUME NEW f \in Files, WriteFile(f) PROVE SInv'
  <2>1. Step({}, {})
    BY <1>0, <1>4, WriteFileKeeps DEF WriteFile
  <2> QED BY <1>0, <1>4, <2>1, WriteFileFlows, OthersStamps
<1>5. ASSUME NEW d \in Dbs, NEW k \in Keys, Evict(d, k) PROVE SInv'
  BY <1>0, <1>5, EvictKeeps, EvictFlows, OthersStamps
<1>6. CASE UNCHANGED vars
  <2>1. Step({}, {})
    BY <1>0, <1>6, WriteFileKeeps DEF vars
  <2>2. Onwards
    BY <1>0, <1>6, UnsettledFlows, TimeStands DEF Onwards, vars, RInv, TInv
  <2> QED BY <1>0, <2>1, <2>2, OthersStamps
<1> QED BY <1>1, <1>2, <1>3, <1>4, <1>5, <1>6 DEF Next

\* In every reachable state, the stage that a cache entry still offers has a recorded
\* stamp for each layer it was composed from, and one in missing_assets for each file
\* it failed to load: UsdStageProvider::Open compares the layers of a stage and runs
\* FindMissingAssets before it puts the stage, and other threads do not undo it.
THEOREM CachedStamped == Spec => []CachedStagesAreStamped
<1>1. Init => RInv /\ PInv /\ SInv
  BY RInvInit, PInvInit, SInvInit
<1>2. RInv /\ PInv /\ SInv /\ [Next]_vars => RInv' /\ PInv' /\ SInv'
  BY RInvStep, PInvStep, SInvStep
<1>3. RInv /\ SInv => CachedStagesAreStamped
  <2> SUFFICES ASSUME RInv, SInv, NEW d \in Dbs, NEW k \in Keys, cache[d][k] # None,
                      ~stage[cache[d][k]].released, NEW f \in Uses[k]
               PROVE  IF f \in stage[cache[d][k]].loaded
                      THEN layer[f].stamp # NoStamp
                      ELSE stage[cache[d][k]].miss[f] # NoStamp
    BY DEF CachedStagesAreStamped
  <2>1. cache[d][k] \in StageIds /\ cache[d][k] \in Entries
    BY EntriesAre DEF RInv, TInv, TypeOK
  <2>2. stage[cache[d][k]].key = k
    BY DEF RInv, CacheOK, StageIs
  <2>3. Stamped(cache[d][k])
    BY <2>1 DEF SInv, EntriesStamped
  <2> QED BY <2>2, <2>3 DEF Stamped
<1> QED BY <1>1, <1>2, <1>3, PTL DEF Spec

-----------------------------------------------------------------------------
(* Releases *)

\* No stage is released
NoneReleased == \A i \in StageIds : stage'[i].released => stage[i].released

LEMMA SettledNoneReleased ==
    ASSUME NEW st, NEW lay, NEW reg, NEW qry, NEW chg, Settle(st, lay, reg, qry, chg)
    PROVE  \A i \in StageIds : stage'[i].released => st[i].released
<1> SUFFICES ASSUME NEW i \in StageIds, stage'[i].released PROVE st[i].released
  OBVIOUS
<1>1. ~FreeStage.released
  BY DEF FreeStage, NewStage, StageOf
<1>2. \/ stage'[i] = st[i]
      \/ stage'[i] = ReleasedStage(st[i].key, st[i].db) /\ i \in Entries'
         /\ ~(i \in Entries' /\ ~st[i].released)
      \/ stage'[i] = FreeStage
  BY DEF Settle
<1> QED BY <1>1, <1>2

LEMMA OthersRelease ==
    ASSUME RInv, NEW s \in Scans, Work(s), ~SweepTest(s), ~Release(s)
    PROVE  NoneReleased
<1>0. TypeOK /\ TInv /\ stage \in [StageIds -> StageType] /\ (Unsettled => NoneReleased)
  BY DEF RInv, TInv, TypeOK, Unsettled, NoneReleased
<1>1. ASSUME NEW reg, NEW qry, NEW chg, Settle(stage, layer, reg, qry, chg) PROVE NoneReleased
  BY <1>1, SettledNoneReleased DEF NoneReleased
<1>2. CASE \/ Lookup(s) \/ GetHandle(s) \/ Snapshot(s) \/ Loaded(s) \/ MakeRoom(s)
           \/ \E f \in Files : ReadStamp(s, f)
           \/ \E v \in StageIds : SweepTake(s, v) \/ EvictNext(s, v)
  BY <1>0, <1>2 DEF Lookup, GetHandle, Snapshot, Loaded, MakeRoom, ReadStamp, SweepTake, EvictNext
<1>3. CASE \/ Compared(s) \/ \E f \in Files : CheckMissing(s, f)
           \/ RemoveGet(s) \/ RemoveDelete(s) \/ SweepDone(s) \/ Refuse(s) \/ Fits(s) \/ Put(s)
           \/ Dropped(s)
  BY <1>1, <1>3 DEF Compared, CheckMissing, RemoveGet, RemoveDelete, SweepDone, Refuse, Fail,
     Fits, Put, Dropped
<1>4. CASE Compare(s)
  BY <1>4 DEF Compare, NoneReleased
<1>5. CASE OpenStage(s)
  BY <1>0, <1>5 DEF OpenStage, NewStage, StageOf, NoneReleased
<1>6. ASSUME NEW f \in Files, LoadFile(s, f) PROVE NoneReleased
  <2>1. \A b, g : /\ stage' = [stage EXCEPT ![op[s].cur].loaded = b] => NoneReleased
                  /\ stage' = [stage EXCEPT ![op[s].cur].missed[f] = g] => NoneReleased
    BY <1>0 DEF NoneReleased, StageType
  <2>2. CASE Compose(s, f)
    BY <1>0, <2>2 DEF Compose, NoneReleased, StageType
  <2>3. CASE stage' = [stage EXCEPT ![op[s].cur].missed[f] = Stamp(f)]
    BY <2>1, <2>3
  <2>4. CASE Fail(s)
    BY <1>1, <2>4 DEF Fail
  <2> QED BY <1>6, <2>2, <2>3, <2>4 DEF LoadFile
<1>7. ASSUME NEW f \in Files, RecordMissing(s, f) PROVE NoneReleased
  BY <1>0, <1>7 DEF RecordMissing, NoneReleased, StageType
<1>8. CASE Verified(s) \/ DoesNotFit(s) \/ Add(s)
  <2> DEFINE b == changed[s] # {}
             st == [stage EXCEPT ![op[s].cur].stale = b]
  <2>1. \E reg, qry, chg : Settle(st, layer, reg, qry, chg)
    BY <1>8 DEF Verified, DoesNotFit, Add, Return
  <2> HIDE DEF b
  <2>2. \A i \in StageIds : st[i].released = stage[i].released
    BY <1>0 DEF StageType
  <2> HIDE DEF st
  <2> QED BY <2>1, <2>2, SettledNoneReleased DEF NoneReleased
<1> QED BY <1>2, <1>3, <1>4, <1>5, <1>6, <1>7, <1>8 DEF Work

\* What the two steps that release a stage know of it
LEMMA ReleasesOutdated ==
    ASSUME RInv, SInv, NEW s \in Scans, SweepTest(s) \/ Release(s),
           NEW i \in StageIds, ~stage[i].released, stage'[i].released
    PROVE  op[s].pc \in {"test", "release"} /\ Outdated(Conn(s), i)
<1>0. /\ TypeOK /\ StampsOK /\ Facts(s) /\ ChangedOf(s) /\ stage \in [StageIds -> StageType]
  BY HasFacts DEF RInv, TInv, SInv, TypeOK
<1>1. ASSUME NEW v \in StageIds,
             Settle([stage EXCEPT ![v].released = TRUE], layer, registry, query, changed)
      PROVE  i = v
  <2>1. [stage EXCEPT ![v].released = TRUE][i].released
    BY <1>1, SettledNoneReleased
  <2> QED BY <1>0, <2>1
<1>2. ~Settle(stage, layer, registry, query, changed)
  BY SettledNoneReleased
<1>3. CASE SweepTest(s)
  <2>1. op[s].pc = "test" /\ op[s].vic \in StageIds
    BY <1>0, <1>3 DEF SweepTest, Facts, LocalsOf
  <2>2. i = op[s].vic /\ stage[i].loaded \cap changed[s] # {}
    BY <1>1, <1>2, <1>3, <2>1 DEF SweepTest
  <2>3. PICK f \in stage[i].loaded : f \in changed[s]
    BY <2>2
  <2>4. f \in Files /\ layer[f].version < file[f]
    BY <1>0, <2>3 DEF TypeOK, ChangedOf
  <2>5. layer[f].version # file[f]
    BY <1>0, <2>4, VersionsOK
  <2> QED BY <2>1, <2>3, <2>5 DEF Outdated
<1>4. CASE Release(s)
  <2>1. op[s].pc = "release" /\ op[s].pass = "cached" /\ op[s].ent \in StageIds
    BY <1>0, <1>4 DEF Release, Facts, LocalsOf
  <2>2. i = op[s].ent
    BY <1>1, <1>4, <2>1 DEF Release
  <2> QED BY <1>0, <2>1, <2>2 DEF ChangedOf
<1> QED BY <1>3, <1>4

\* No step of the other threads, of the file system or of DuckDB releases a stage
LEMMA ReleasedBy ==
    ASSUME RInv, [Next]_vars, \A s \in Scans : ~SweepTest(s) /\ ~Release(s)
    PROVE  NoneReleased
<1>0. stage \in [StageIds -> StageType]
  BY DEF RInv, TInv, TypeOK
<1>1. ASSUME NEW reg, NEW qry, NEW chg, Settle(stage, layer, reg, qry, chg) PROVE NoneReleased
  BY <1>1, SettledNoneReleased DEF NoneReleased
<1>2. ASSUME NEW s \in Scans, FinishScan(s) \/ DropCachedStages(s) \/ \E k \in Keys : BeginScan(s, k)
      PROVE  NoneReleased
  BY <1>1, <1>2 DEF FinishScan, DropCachedStages, BeginScan, Unsettled, NoneReleased
<1>3. ASSUME NEW s \in Scans, NEW f \in Files, ReadClip(s, f) PROVE NoneReleased
  BY <1>0, <1>3 DEF ReadClip, Compose, NoneReleased, StageType
<1>4. ASSUME NEW c \in Conns, EndQuery(c) PROVE NoneReleased
  BY <1>1, <1>4 DEF EndQuery
<1>5. ASSUME NEW f \in Files, WriteFile(f) PROVE NoneReleased
  BY <1>5 DEF WriteFile, NoneReleased
<1>6. ASSUME NEW d \in Dbs, NEW k \in Keys, Evict(d, k) PROVE NoneReleased
  BY <1>1, <1>6 DEF Evict
<1>7. CASE UNCHANGED vars
  BY <1>7 DEF vars, NoneReleased
<1> QED BY OthersRelease, <1>2, <1>3, <1>4, <1>5, <1>6, <1>7 DEF Next

\* A thread that releases the stages using its changed layers
\* (ReleaseStagesUsing) releases none that other threads have opened again from the
\* files as they are now: every stage a step releases has a layer, or a missing file,
\* that is not as it was when the stage read it or as it was recorded.
THEOREM ReleasesOutdatedOnly == Spec => ReleasesOnlyOutdatedStages
<1>1. Init => RInv /\ PInv /\ SInv
  BY RInvInit, PInvInit, SInvInit
<1>2. RInv /\ PInv /\ SInv /\ [Next]_vars => RInv' /\ PInv' /\ SInv'
  BY RInvStep, PInvStep, SInvStep
<1>3. RInv /\ SInv /\ [Next]_vars =>
        [\A i \in StageIds : ~stage[i].released /\ stage'[i].released =>
           \E s \in Scans : op[s].pc \in {"test", "release"} /\ Outdated(Conn(s), i)]_vars
  <2> SUFFICES ASSUME RInv, SInv, [Next]_vars, NEW i \in StageIds,
                      ~stage[i].released, stage'[i].released
               PROVE  \E s \in Scans : op[s].pc \in {"test", "release"} /\ Outdated(Conn(s), i)
    OBVIOUS
  <2>1. PICK s \in Scans : SweepTest(s) \/ Release(s)
    BY ReleasedBy DEF NoneReleased
  <2> QED BY <2>1, ReleasesOutdated
<1> QED BY <1>1, <1>2, <1>3, PTL DEF Spec, ReleasesOnlyOutdatedStages

-----------------------------------------------------------------------------
(* The inductive invariant: what a scan reads *)

\* NoSilentlyOldContents, of one file
Good(c, i, f) == Current(c, i, f) \/ RecordedLate(i, f)

\* A file that a stage failed to load was not there, or broken, during the query
AbsentFresh(s) ==
    Composing(op[s]) =>
        \A f \in Uses[op[s].key] \ stage[op[s].cur].loaded :
            (op[s].pc = "load" /\ f \in op[s].todo) \/ Current(Conn(s), op[s].cur, f)

\* A cached stage being checked has all stamps to check
EntryStamped(s) ==
    op[s].pass = "cached" /\ op[s].pc \in {"stat", "compare", "missing"} => Stamped(op[s].cur)

\* What a call has yet to check, and at which steps there is something checked
Checks(s) ==
    \/ op[s].pc \in {"stat", "compare", "missing", "verify"} \/ op[s].pass = "room"
    \/ op[s].pc = "using" /\ ~stage[op[s].cur].stale
Unchecked(s) ==
    IF op[s].pc \in {"stat", "compare"}
    THEN op[s].todo \cup (Uses[op[s].key] \ stage[op[s].cur].loaded)
    ELSE IF op[s].pc = "missing" THEN op[s].todo \ stage[op[s].cur].loaded ELSE {}

\* Files checked are as they were during the query, or known to be outdated
CheckedFresh(s) ==
    Checks(s) => \A f \in Uses[op[s].key] \ Unchecked(s) :
        (f \in changed[s] /\ f \in stage[op[s].cur].loaded) \/ Good(Conn(s), op[s].cur, f)

FreshOf(s) == AbsentFresh(s) /\ EntryStamped(s) /\ CheckedFresh(s)

\* A query shares the stages it has checked
QueryFresh ==
    \A c \in Conns, k \in Keys : query[c][k] # None /\ ~stage[query[c][k]].stale =>
        \A f \in Uses[k] : Good(c, query[c][k], f)

FInv == QueryFresh /\ \A s \in Scans : FreshOf(s)

\* What a step does to the times queries began, to marks and to changed layers
StartStays == \A c \in Conns : start'[c] = start[c] \/ QueryIdle(c) \/ QueryIdle(c)'
StaleStays == \A i \in StageIds : i \in Alive /\ i \in Alive' /\ stage[i].stale => stage'[i].stale
Retains(t) ==
    \A f \in changed[t] : (\E i \in Alive' : f \in stage'[i].loaded) => f \in changed'[t]
Retain == \A t \in Scans : op'[t] = op[t] \/ op'[t].pc \in {"stat", "compare", "verify"} => Retains(t)

Endures == StartStays /\ StaleStays /\ Retain

LEMMA AliveKept ==
    ASSUME NEW A \in SUBSET Scans, NEW own \in SUBSET StageIds, Step(A, own),
           NEW i \in StageIds \ own, i \in Alive, i \in Alive'
    PROVE  Kept(i)
<1>1. i \in Entries' \/ i \in Handles'
  BY AliveNext
<1> QED BY <1>1 DEF Kept, Step

\* A file of a stage that stays in use is as good as it was
LEMMA GoodStays ==
    ASSUME TypeOK, TypeOK', StampsOK, TimePasses, NEW i, Kept(i), NEW c \in Conns,
           start'[c] = start[c], NEW f \in Files, f \in Uses[stage[i].key]
    PROVE  /\ f \in stage'[i].loaded <=> f \in stage[i].loaded
           /\ Current(c, i, f) => Current(c, i, f)'
           /\ Good(c, i, f) => Good(c, i, f)'
<1>1. f \in stage'[i].loaded <=> f \in stage[i].loaded
  BY DEF Kept, Contents
<1>2. /\ f \in stage[i].loaded => /\ layer'[f].version = layer[f].version
                                  /\ layer[f].stamp # NoStamp => layer'[f].stamp = layer[f].stamp
      /\ stage'[i].miss = stage[i].miss /\ stage'[i].missed = stage[i].missed
  BY DEF Kept, LayerStays, Contents
<1>3. Shown(i, f)' = Shown(i, f)
  BY <1>1, <1>2 DEF Shown
<1>4. ASSUME Current(c, i, f) PROVE Current(c, i, f)'
  <2>1. PICK v \in start[c][f] .. file[f] : StampAt(f, v) = Shown(i, f)
    BY <1>4 DEF Current
  <2>2. file[f] \in Version /\ file'[f] \in Version /\ start[c][f] \in Version /\ file[f] <= file'[f]
    BY DEF TypeOK, TimePasses
  <2>3. v \in start'[c][f] .. file'[f]
    BY <2>1, <2>2, BoundAssumption DEF Version
  <2> QED BY <1>3, <2>1, <2>3 DEF Current
<1>5. ASSUME RecordedLate(i, f) PROVE RecordedLate(i, f)'
  BY <1>1, <1>2, <1>3, <1>5 DEF RecordedLate
<1> QED BY <1>1, <1>4, <1>5 DEF Good

\* A call that goes on with its stage
LEMMA Carries ==
    ASSUME RInv, TypeOK', StampsOK, TimePasses, NEW s \in Scans, op[s].cur \in StageIds, Kept(op[s].cur),
           op[s].pc # "idle", op'[s].pc # "idle", NEW i, i = op[s].cur, NEW c, c = Conn(s)
    PROVE  \A f \in Uses[op[s].key] :
             /\ f \in Files
             /\ f \in stage'[i].loaded <=> f \in stage[i].loaded
             /\ Current(c, i, f) => Current(c, i, f)'
             /\ Good(c, i, f) => Good(c, i, f)'
<1>1. /\ TypeOK /\ Facts(s) /\ Conn(s) \in Conns /\ Conn(s)' = Conn(s)
      /\ start'[Conn(s)] = start[Conn(s)]
  BY HasFacts DEF RInv, TInv, Facts, Conn, TimePasses
<1>2. stage[op[s].cur].key = op[s].key /\ op[s].key \in Keys
  BY <1>1, NoneAssumption DEF Facts, RefsOf, ShapeOf, StageIs
<1>3. Uses[op[s].key] \subseteq Files
  BY <1>2, ConfigAssumption
<1> QED BY <1>1, <1>2, <1>3, GoodStays

\* The call has no stage yet, or none any more, or it has nothing checked
LEMMA NothingFresh ==
    ASSUME NEW s \in Scans, ~Composing(op'[s]),
           op'[s].pc \notin {"stat", "compare", "missing", "verify", "using"}, op'[s].pass # "room"
    PROVE  FreshOf(s)'
BY DEF FreshOf, AbsentFresh, EntryStamped, CheckedFresh, Checks

\* A call that goes on with its stage, with what it has checked: the rest is known
LEMMA FreshCall ==
    ASSUME RInv, TypeOK', SInv, FInv, TimePasses, NEW s \in Scans,
           op[s].cur \in StageIds, Kept(op[s].cur),
           op[s].pc # "idle", op'[s].pc # "idle", op'[s].cur = op[s].cur, op'[s].key = op[s].key,
           Composing(op'[s]) => Composing(op[s]) /\ (op[s].pc # "load" \/ op[s].todo = {} \/ op'[s] = op[s]),
           op'[s].pass = "cached" /\ op'[s].pc \in {"stat", "compare", "missing"} => Stamped(op[s].cur),
           Checks(s)' => \A f \in Uses[op[s].key] \ Unchecked(s)' :
             \/ Good(Conn(s), op[s].cur, f) \/ Good(Conn(s), op[s].cur, f)'
             \/ f \in changed'[s] /\ f \in stage[op[s].cur].loaded
    PROVE  FreshOf(s)'
<1>0. StampsOK /\ AbsentFresh(s) /\ Conn(s)' = Conn(s)
  BY DEF SInv, FInv, FreshOf, Conn
<1>1. ASSUME NEW i, i = op[s].cur, NEW c, c = Conn(s)
      PROVE  \A f \in Uses[op[s].key] :
               /\ f \in stage'[i].loaded <=> f \in stage[i].loaded
               /\ Current(c, i, f) => Current(c, i, f)'
               /\ Good(c, i, f) => Good(c, i, f)'
  BY <1>0, <1>1, Carries
<1>2. AbsentFresh(s)'
  BY <1>0, <1>1 DEF AbsentFresh
<1>3. EntryStamped(s)'
  <2>1. ASSUME NEW i, i = op[s].cur, Stamped(i) PROVE Stamped(i)'
    BY <2>1, StampedStays
  <2> QED BY <2>1 DEF EntryStamped
<1>4. CheckedFresh(s)'
  BY <1>1 DEF CheckedFresh
<1> QED BY <1>2, <1>3, <1>4 DEF FreshOf

\* What a call has checked stays known while the stage does
LEMMA KnownStays ==
    ASSUME NEW s \in Scans, Kept(op[s].cur), Retains(s), NEW f,
           f \in changed[s], f \in stage[op[s].cur].loaded
    PROVE  f \in changed'[s]
BY DEF Retains, Kept, Contents

LEMMA WaitingFresh ==
    ASSUME RInv, RInv', SInv, FInv, NEW A \in SUBSET Scans, NEW own \in SUBSET StageIds,
           Step(A, own), TimePasses, Endures, NEW t \in Scans \ A
    PROVE  FreshOf(t)'
<1>0. /\ TypeOK /\ TypeOK' /\ StampsOK /\ Facts(t) /\ op'[t] = op[t] /\ op[t].cur \notin own
      /\ FreshOf(t) /\ Retains(t) /\ StaleStays
  BY HasFacts DEF RInv, TInv, Step, Waiting, Mine, SInv, FInv, Endures, Retain
<1>1. CASE op[t].cur \in StageIds
  <2>1. Kept(op[t].cur) /\ op[t].cur \in Alive /\ op[t].cur \in Alive'
    BY <1>0, <1>1, CurKept DEF Kept
  <2>2. op[t].pc # "idle"
    BY <1>0, <1>1, NoneAssumption DEF Facts, ShapeOf
  <2>3. Checks(t)' => Checks(t)
    BY <1>0, <1>1, <2>1 DEF Checks, StaleStays
  <2>4. \A f \in Uses[op[t].key] \ Unchecked(t)' : f \notin Unchecked(t)
    <3>1. \A f \in Uses[op[t].key] : f \in stage'[op[t].cur].loaded <=> f \in stage[op[t].cur].loaded
      BY <1>0, <1>1, <2>1, <2>2, Carries
    <3> QED BY <1>0, <3>1 DEF Unchecked
  <2>5. Checks(t)' => \A f \in Uses[op[t].key] \ Unchecked(t)' :
          \/ Good(Conn(t), op[t].cur, f)
          \/ f \in changed'[t] /\ f \in stage[op[t].cur].loaded
    BY <1>0, <2>1, <2>3, <2>4, KnownStays DEF FreshOf, CheckedFresh
  <2> QED BY <1>0, <1>1, <2>1, <2>2, <2>5, FreshCall DEF FreshOf, EntryStamped
<1>2. CASE op[t].cur \notin StageIds
  <2>1. /\ op[t].cur = None /\ op[t].pc \notin {"stat", "compare", "missing", "verify", "using"}
        /\ op[t].pass # "room"
    BY <1>0, <1>2 DEF Facts, OpType, LocalsOf, Holding
  <2> QED BY <1>0, <2>1, NothingFresh DEF Composing
<1> QED BY <1>1, <1>2

\* A call that returns a stage to its query has checked it
Returns(u) ==
    op'[u].pc = "using" /\ op[u].cur # None => op'[u].cur = op[u].cur /\ op'[u].key = op[u].key

LEMMA QueryFreshStep ==
    ASSUME RInv, RInv', PInv', SInv, FInv, NEW A \in SUBSET Scans, NEW own \in SUBSET StageIds,
           Step(A, own), TimePasses, Endures, \A u \in A : FreshOf(u)' /\ Returns(u)
    PROVE  QueryFresh'
<1>0. /\ TypeOK /\ TypeOK' /\ StampsOK /\ QueryOK /\ QueryOK' /\ QueryFresh /\ StaleStays /\ StartStays
  BY DEF RInv, TInv, SInv, FInv, Endures
<1> SUFFICES ASSUME NEW c \in Conns, NEW k \in Keys, NEW i, query'[c][k] = i, i # None,
                    ~stage'[i].stale, NEW f \in Uses[k]
             PROVE  Good(c, i, f)'
  BY DEF QueryFresh
<1>1. i \in StageIds /\ i \in Alive' /\ f \in Files
  BY <1>0, ConfigAssumption, AliveNext DEF QueryOK
<1>2. CASE query[c][k] = i
  <2>1. i \in Alive /\ StageIs(i, k, DbOf[c]) /\ ~QueryIdle(c) /\ ~QueryIdle(c)'
    BY <1>0, <1>2 DEF QueryOK
  <2>2. i \notin own /\ start'[c] = start[c]
    BY <1>0, <1>2, <2>1 DEF Step, Mine, StartStays
  <2>3. Kept(i)
    BY <1>1, <2>1, <2>2, AliveKept
  <2>4. ~stage[i].stale
    BY <1>0, <1>1, <2>1 DEF StaleStays
  <2>5. Good(c, i, f)
    BY <1>0, <1>2, <2>4 DEF QueryFresh
  <2> QED BY <1>0, <1>1, <2>1, <2>2, <2>3, <2>5, GoodStays DEF StageIs
<1>3. CASE query[c][k] # i
  <2>1. PICK u \in A : i = op[u].cur /\ Conn(u) = c /\ op[u].key = k /\ op'[u].pc = "using"
    BY <1>3 DEF Step, QueriesFrom
  <2>2. op'[u].cur = i /\ op'[u].key = k /\ CheckedFresh(u)' /\ Conn(u)' = c /\ u \in Scans
    BY <2>1 DEF Returns, FreshOf, Conn
  <2>3. changed'[u] = {}
    BY <2>1, <2>2 DEF PInv, Finding
  <2>4. Checks(u)' /\ Unchecked(u)' = {}
    BY <2>1, <2>2 DEF Checks, Unchecked
  <2> QED BY <2>2, <2>3, <2>4 DEF CheckedFresh
<1> QED BY <1>2, <1>3

LEMMA FStep ==
    ASSUME RInv, RInv', PInv', SInv, FInv, NEW A \in SUBSET Scans, NEW own \in SUBSET StageIds,
           Step(A, own), TimePasses, Endures, \A u \in A : FreshOf(u)' /\ Returns(u)
    PROVE  FInv'
<1>1. QueryFresh'
  BY QueryFreshStep
<1>2. \A t \in Scans : FreshOf(t)'
  BY WaitingFresh
<1> QED BY <1>1, <1>2 DEF FInv

LEMMA StartStep ==
    ASSUME TypeOK, [Next]_vars
    PROVE  StartStays
<1>1. ASSUME NEW s \in Scans, Work(s) \/ FinishScan(s) \/ \E f \in Files : ReadClip(s, f)
      PROVE  start' = start
  BY <1>1 DEF Work, FinishScan, ReadClip, Lookup, GetHandle, Compared, Compare, ReadStamp,
     CheckMissing, LoadFile, RecordMissing, SweepTake, EvictNext, Snapshot, SweepTest, SweepDone,
     Release, RemoveGet, RemoveDelete, OpenStage, Loaded, Refuse, Verified, MakeRoom, Fits,
     DoesNotFit, Put, Add, Dropped
<1>2. ASSUME NEW s \in Scans, DropCachedStages(s) \/ \E k \in Keys : BeginScan(s, k)
      PROVE  StartStays
  <2>1. /\ start' \in {start, [start EXCEPT ![Conn(s)] = file]}
        /\ start' # start => QueryIdle(Conn(s))
    <3>1. start = [start EXCEPT ![Conn(s)] = start[Conn(s)]]
      BY DEF TypeOK
    <3> QED BY <1>2, <3>1 DEF DropCachedStages, BeginScan
  <2> QED BY <2>1 DEF StartStays, TypeOK
<1>3. ASSUME NEW c \in Conns, EndQuery(c) PROVE StartStays
  <2>1. start' = [start EXCEPT ![c] = [f \in Files |-> 1]]
    BY <1>3 DEF EndQuery
  <2>2. \A d \in Conns \ {c} : start'[d] = start[d]
    BY <2>1 DEF TypeOK
  <2>3. \A t \in Scans : Conn(t) = c => op'[t].pc = "idle"
    BY <1>3 DEF EndQuery, NoCall, CallAt
  <2>4. QueryIdle(c)'
    BY <2>3 DEF QueryIdle, Conn
  <2> QED BY <2>2, <2>4 DEF StartStays
<1>4. /\ UNCHANGED vars => start' = start
      /\ \A f \in Files : WriteFile(f) => start' = start
      /\ \A d \in Dbs, k \in Keys : Evict(d, k) => start' = start
  BY DEF vars, WriteFile, Evict
<1>5. start' = start => StartStays
  BY DEF StartStays
<1> QED BY <1>1, <1>2, <1>3, <1>4, <1>5 DEF Next

LEMMA UnsettledEndures ==
    ASSUME stage' = stage, changed' = changed
    PROVE  StaleStays /\ Retain
BY DEF StaleStays, Retain, Retains

LEMMA SettledEndures ==
    ASSUME TypeOK, NEW st \in [StageIds -> StageType], NEW reg, NEW qry,
           NEW chg \in [Scans -> SUBSET Files], Settle(st, layer, reg, qry, chg),
           \A i \in StageIds : i \in Alive /\ stage[i].stale => st[i].stale,
           \A t \in Scans : op'[t] = op[t] \/ op'[t].pc \in {"stat", "compare", "verify"}
             => changed[t] \subseteq chg[t]
    PROVE  StaleStays /\ Retain
<1>1. /\ \A i \in Alive' : stage'[i] = st[i]
      /\ \A s \in Scans, f \in Files : f \in changed'[s] <=>
           f \in chg[s] /\ \E i \in Alive' : f \in st[i].loaded
  BY SettleFacts
<1>2. StaleStays
  BY <1>1 DEF StaleStays
<1>3. \A t \in Scans : changed[t] \subseteq chg[t] => Retains(t)
  BY <1>1 DEF Retains, TypeOK
<1> QED BY <1>2, <1>3 DEF Retain

LEMMA DropsEndures ==
    ASSUME TypeOK, NEW reg, NEW qry, Settle(stage, layer, reg, qry, changed)
    PROVE  StaleStays /\ Retain
<1>1. stage \in [StageIds -> StageType] /\ changed \in [Scans -> SUBSET Files]
  BY DEF TypeOK
<1> QED BY <1>1, SettledEndures

\* A call that forgets the layers it found changed
LEMMA ForgetsEndures ==
    ASSUME TypeOK, NEW s \in Scans, NEW st \in [StageIds -> StageType], NEW reg, NEW qry,
           Settle(st, layer, reg, qry, [changed EXCEPT ![s] = {}]),
           \A i \in StageIds : i \in Alive /\ stage[i].stale => st[i].stale,
           op'[s].pc # op[s].pc, op'[s].pc \notin {"stat", "compare", "verify"}
    PROVE  StaleStays /\ Retain
<1> DEFINE chg == [changed EXCEPT ![s] = {}]
<1>1. chg \in [Scans -> SUBSET Files] /\ \A t \in Scans \ {s} : chg[t] = changed[t]
  BY DEF TypeOK
<1>2. Settle(st, layer, reg, qry, chg)
  OBVIOUS
<1> HIDE DEF chg
<1>3. op'[s] # op[s]
  OBVIOUS
<1>4. \A t \in Scans : op'[t] = op[t] \/ op'[t].pc \in {"stat", "compare", "verify"}
             => changed[t] \subseteq chg[t]
  BY <1>1, <1>3
<1> QED BY <1>1, <1>2, <1>4, SettledEndures

LEMMA ReturnEndures ==
    ASSUME RInv, PInv, NEW s \in Scans, Verified(s) \/ DoesNotFit(s) \/ Add(s)
    PROVE  StaleStays /\ Retain
<1>0. TypeOK /\ TInv /\ Facts(s) /\ stage \in [StageIds -> StageType]
  BY HasFacts DEF RInv, TInv, TypeOK
<1>1. PICK reg : Return(s, reg)
  BY DEF Verified, DoesNotFit, Add
<1>2. op[s].pc \in {"verify", "evicting", "add"} /\ (op[s].pc = "evicting" => op[s].pass = "room")
  BY DEF Verified, DoesNotFit, Add
<1>3. op'[s].pc = "using"
  BY <1>0, <1>1, ReturnCall DEF At
<1>4. op[s].cur \in StageIds /\ op[s].cur # None
  BY <1>2, HasStage DEF Holding
<1>5. ~stage[op[s].cur].stale
  <2>1. CASE Composing(op[s])
    BY <2>1 DEF PInv
  <2>2. CASE ~Composing(op[s])
    <3>1. op[s].cur = op[s].ent
      BY <1>0, <1>2, <1>4, <2>2 DEF Facts, ShapeOf, Composing, OpType, Passes
    <3>2. op[s].cur \in Entries
      BY <3>1, EntriesAre
    <3> QED BY <1>4, <3>2 DEF PInv, StaleOK
  <2> QED BY <2>1, <2>2
<1> DEFINE b == changed[s] # {}
           st == [stage EXCEPT ![op[s].cur].stale = b]
<1>6. \E r, qry : Settle(st, layer, r, qry, [changed EXCEPT ![s] = {}])
  BY <1>1 DEF Return
<1>7. b \in BOOLEAN
  OBVIOUS
<1> HIDE DEF b
<1>8. \A i \in StageIds : [stage[i] EXCEPT !.stale = b] \in StageType
  BY <1>0, <1>7 DEF StageType
<1>9. st \in [StageIds -> StageType] /\ \A i \in StageIds \ {op[s].cur} : st[i] = stage[i]
  BY <1>0, <1>8
<1> HIDE DEF st
<1> QED BY <1>0, <1>2, <1>3, <1>5, <1>6, <1>9, ForgetsEndures

LEMMA ReleaseEndures ==
    ASSUME TInv, NEW s \in Scans, SweepTest(s) \/ Release(s)
    PROVE  StaleStays /\ Retain
<1>0. TypeOK /\ stage \in [StageIds -> StageType] /\ changed \in [Scans -> SUBSET Files]
  BY DEF TInv, TypeOK
<1>1. ASSUME NEW v \in StageIds,
             Settle([stage EXCEPT ![v].released = TRUE], layer, registry, query, changed)
      PROVE  StaleStays /\ Retain
  <2> DEFINE st == [stage EXCEPT ![v].released = TRUE]
  <2>1. st \in [StageIds -> StageType]
    BY <1>0, <1>1, ReleaseUpdate
  <2>2. \A i \in StageIds : st[i].stale = stage[i].stale
    BY <1>0 DEF StageType
  <2>3. Settle(st, layer, registry, query, changed)
    BY <1>1
  <2> HIDE DEF st
  <2> QED BY <1>0, <2>1, <2>2, <2>3, SettledEndures
<1>2. Settle(stage, layer, registry, query, changed) => StaleStays /\ Retain
  BY <1>0, DropsEndures
<1>3. /\ op[s].pc = "test" => op[s].vic \in StageIds
      /\ op[s].pc = "release" => op[s].ent \in StageIds
  BY DEF TInv, CallsOK, LocalsOf
<1> QED BY <1>1, <1>2, <1>3 DEF SweepTest, Release

LEMMA WorkEndures ==
    ASSUME RInv, PInv, NEW s \in Scans, Work(s)
    PROVE  StaleStays /\ Retain
<1>0. TypeOK /\ TInv /\ stage \in [StageIds -> StageType]
  BY DEF RInv, TInv, TypeOK
<1>1. CASE \/ Lookup(s) \/ GetHandle(s) \/ Snapshot(s) \/ Loaded(s) \/ MakeRoom(s)
           \/ \E f \in Files : ReadStamp(s, f)
           \/ \E v \in StageIds : SweepTake(s, v) \/ EvictNext(s, v)
  <2>1. stage' = stage /\ changed' = changed
    BY <1>1 DEF Lookup, GetHandle, Snapshot, Loaded, MakeRoom, ReadStamp, SweepTake, EvictNext,
       Unsettled
  <2> QED BY <2>1, UnsettledEndures
<1>2. CASE \/ Compared(s) \/ \E f \in Files : CheckMissing(s, f)
           \/ RemoveGet(s) \/ RemoveDelete(s) \/ Fits(s) \/ Put(s) \/ Dropped(s)
  <2>1. Settle(stage, layer, registry, query, changed)
    BY <1>2 DEF Compared, CheckMissing, RemoveGet, RemoveDelete, Fits, Put, Dropped
  <2> QED BY <1>0, <2>1, DropsEndures
<1>3. CASE SweepDone(s)
  <2>1. op[s].pc = "sweep" /\ op'[s].pc \in {"release", "open"}
    BY <1>0, <1>3, SweepDoneCall DEF At
  <2> QED BY <1>0, <1>3, <2>1, ForgetsEndures DEF SweepDone
<1>4. ASSUME Fail(s), op[s].pc # "done" PROVE StaleStays /\ Retain
  <2>1. op'[s].pc = "done"
    BY <1>0, <1>4, FailCall DEF At
  <2> QED BY <1>0, <1>4, <2>1, ForgetsEndures DEF Fail
<1>5. CASE Refuse(s)
  BY <1>4, <1>5 DEF Refuse
<1>6. CASE Compare(s)
  <2>1. stage' = stage /\ \A t \in Scans : changed[t] \subseteq changed'[t]
    BY <1>0, <1>6 DEF Compare, TypeOK
  <2> QED BY <2>1 DEF StaleStays, Retain, Retains
<1>7. CASE OpenStage(s)
  <2>1. changed' = changed
    BY <1>7 DEF OpenStage
  <2>2. PICK i \in StageIds : stage[i].key = None /\ \A j \in StageIds \ {i} : stage'[j] = stage[j]
    BY <1>0, <1>7, OpenStageCall
  <2>3. i \notin Alive
    BY <2>2, FreeNobodys
  <2> QED BY <2>1, <2>2, <2>3 DEF StaleStays, Retain, Retains
<1>8. ASSUME NEW f \in Files, LoadFile(s, f) PROVE StaleStays /\ Retain
  <2>1. op[s].pc = "load" /\ op[s].cur \in StageIds
    BY <1>8, HasStage DEF LoadFile, Holding
  <2>2. CASE Compose(s, f)
    BY <1>0, <2>1, <2>2, ComposeFacts DEF StaleStays, Retain, Retains
  <2>3. CASE /\ stage' = [stage EXCEPT ![op[s].cur].missed[f] = Stamp(f)]
             /\ changed' = changed
    <3>1. \A i \in StageIds : stage'[i].stale = stage[i].stale
      BY <1>0, <2>3 DEF StageType
    <3> QED BY <2>3, <3>1 DEF StaleStays, Retain, Retains
  <2> QED BY <1>0, <1>4, <1>8, <2>1, <2>2, <2>3, LoadFileCall
<1>9. ASSUME NEW f \in Files, RecordMissing(s, f) PROVE StaleStays /\ Retain
  <2>1. /\ stage' = [stage EXCEPT ![op[s].cur].miss[f] = Stamp(f)] /\ changed' = changed
    BY <1>9 DEF RecordMissing
  <2>2. \A i \in StageIds : stage'[i].stale = stage[i].stale
    BY <1>0, <2>1 DEF StageType
  <2> QED BY <2>1, <2>2 DEF StaleStays, Retain, Retains
<1>10. CASE Verified(s) \/ DoesNotFit(s) \/ Add(s)
  BY <1>10, ReturnEndures
<1>11. CASE SweepTest(s) \/ Release(s)
  BY <1>0, <1>11, ReleaseEndures
<1> QED BY <1>1, <1>2, <1>3, <1>5, <1>6, <1>7, <1>8, <1>9, <1>10, <1>11 DEF Work

LEMMA EnduresStep ==
    ASSUME RInv, PInv, [Next]_vars
    PROVE  Endures
<1>0. TypeOK /\ StartStays
  BY StartStep DEF RInv, TInv
<1>1. ASSUME NEW s \in Scans, DropCachedStages(s) \/ \E k \in Keys : BeginScan(s, k)
      PROVE  StaleStays /\ Retain
  BY <1>1, UnsettledEndures DEF DropCachedStages, BeginScan, Unsettled
<1>2. ASSUME NEW s \in Scans, NEW f \in Files, ReadClip(s, f) PROVE StaleStays /\ Retain
  <2>1. op[s].cur \in StageIds
    BY <1>2, HasStage DEF ReadClip, Holding
  <2> QED BY <1>0, <1>2, <2>1, ComposeFacts DEF ReadClip, StaleStays, Retain, Retains
<1>3. ASSUME NEW s \in Scans, FinishScan(s) PROVE StaleStays /\ Retain
  BY <1>0, <1>3, DropsEndures DEF FinishScan
<1>4. ASSUME NEW c \in Conns, EndQuery(c) PROVE StaleStays /\ Retain
  BY <1>0, <1>4, DropsEndures DEF EndQuery
<1>5. ASSUME NEW d \in Dbs, NEW k \in Keys, Evict(d, k) PROVE StaleStays /\ Retain
  BY <1>0, <1>5, DropsEndures DEF Evict
<1>6. /\ UNCHANGED vars => stage' = stage /\ changed' = changed
      /\ \A f \in Files : WriteFile(f) => stage' = stage /\ changed' = changed
  BY DEF vars, WriteFile
<1>7. StaleStays /\ Retain
  BY <1>1, <1>2, <1>3, <1>4, <1>5, <1>6, UnsettledEndures, WorkEndures DEF Next
<1> QED BY <1>0, <1>7 DEF Endures

-----------------------------------------------------------------------------
(* What the actions do to what a scan reads *)

\* Before and after a step, all that is proved of it so far
Known == RInv /\ RInv' /\ PInv /\ PInv' /\ SInv /\ FInv /\ Endures

LEMMA KnownHas ==
    ASSUME Known, NEW s \in Scans
    PROVE  /\ RInv /\ RInv' /\ PInv' /\ SInv /\ FInv /\ Endures
           /\ TInv /\ TInv' /\ TypeOK /\ TypeOK' /\ StampsOK /\ Facts(s) /\ FreshOf(s)
           /\ ~Finding(op[s]) => changed[s] = {}
           /\ {s} \in SUBSET Scans /\ {} \in SUBSET StageIds
BY HasFacts DEF Known, RInv, TInv, PInv, SInv, FInv

LEMMA FCall ==
    ASSUME Known, NEW s \in Scans, NEW own \in SUBSET StageIds, Step({s}, own), Onwards,
           FreshOf(s)', Returns(s)
    PROVE  FInv'
<1>1. /\ RInv /\ RInv' /\ PInv' /\ SInv /\ FInv /\ Endures /\ TimePasses /\ {s} \in SUBSET Scans
  BY KnownHas DEF Onwards
<1>2. \A u \in {s} : FreshOf(u)' /\ Returns(u)
  OBVIOUS
<1> QED BY <1>1, <1>2, FStep

\* A call that has nothing to read afterwards
LEMMA FEnds ==
    ASSUME Known, NEW s \in Scans, NEW own \in SUBSET StageIds, Step({s}, own), Onwards,
           ~Composing(op'[s]), op'[s].pass # "room",
           op'[s].pc \notin {"stat", "compare", "missing", "verify", "using"}
    PROVE  FInv'
BY FCall, NothingFresh DEF Returns

\* A call that goes on with its stage
LEMMA FGoes ==
    ASSUME Known, NEW s \in Scans, Step({s}, {}), Onwards,
           op[s].cur \in StageIds, op[s].pc # "idle", op'[s].pc # "idle",
           op'[s].cur = op[s].cur, op'[s].key = op[s].key,
           Composing(op'[s]) => Composing(op[s]) /\ (op[s].pc # "load" \/ op[s].todo = {}),
           op'[s].pass = "cached" /\ op'[s].pc \in {"stat", "compare", "missing"} => Stamped(op[s].cur),
           Checks(s)' => \A f \in Uses[op[s].key] \ Unchecked(s)' :
             \/ Good(Conn(s), op[s].cur, f) \/ Good(Conn(s), op[s].cur, f)'
             \/ f \in changed'[s] /\ f \in stage[op[s].cur].loaded
    PROVE  FInv'
<1>0. /\ RInv /\ SInv /\ FInv /\ TypeOK' /\ {} \in SUBSET StageIds /\ {s} \in SUBSET Scans
      /\ TimePasses
  BY KnownHas DEF Onwards
<1>1. Kept(op[s].cur)
  BY <1>0, CurKept
<1>2. FreshOf(s)'
  BY <1>0, <1>1, FreshCall
<1> QED BY <1>0, <1>2, FCall DEF Returns

\* A call that has checked its stage, and found no outdated layer
LEMMA AllGood ==
    ASSUME Known, NEW s \in Scans, Checks(s), changed[s] = {},
           op[s].pc \notin {"stat", "compare", "missing"}
    PROVE  \A f \in Uses[op[s].key] : Good(Conn(s), op[s].cur, f)
BY KnownHas DEF FreshOf, CheckedFresh, Unchecked

LEMMA SweepingFresh ==
    ASSUME Known, NEW s \in Scans,
           \/ Snapshot(s) \/ \E v \in StageIds : SweepTake(s, v) \/ EvictNext(s, v)
           \/ SweepTest(s) \/ RemoveGet(s) \/ RemoveDelete(s) \/ SweepDone(s)
           \/ MakeRoom(s) \/ Fits(s)
    PROVE  FInv'
<1>0. /\ RInv /\ TInv /\ TInv' /\ StampsOK /\ Facts(s) /\ LocalsOf(op'[s]) /\ ShapeOf(op'[s])
      /\ {} \in SUBSET StageIds /\ (~Finding(op[s]) => changed[s] = {})
  <2>1. LocalsOf(op'[s]) /\ ShapeOf(op'[s])
    BY KnownHas DEF RInv, TInv, CallsOK, RefsOf
  <2> QED BY <2>1, KnownHas
<1>1. Onwards
  BY <1>0, StandsFlows, LetsGoFlows, ReleasingFlows, ForgettingFlows
<1>2. Step({s}, {})
  BY <1>0, SnapshotKeeps, SweepTakeKeeps, EvictNextKeeps, SweepTestKeeps, RemoveGetKeeps,
     RemoveDeleteKeeps, SweepDoneKeeps, MakeRoomKeeps, FitsKeeps
<1>3. ASSUME op'[s].pc \in {"sweep", "test", "get", "delete", "evicting", "record"},
             op[s].pc \in {"snapshot", "sweep", "test", "get", "delete", "evicting"},
             op'[s].pass = op[s].pass, HoldsStill(s)
      PROVE  FInv'
  <2>1. op'[s].cur = op[s].cur /\ op'[s].key = op[s].key
    BY <1>3 DEF HoldsStill, Holds
  <2>2. CASE op[s].cur \in StageIds
    <3>1. Composing(op'[s]) => Composing(op[s])
      BY <1>3, <2>1 DEF Composing
    <3>2. Checks(s)' => Checks(s) /\ changed[s] = {}
      BY <1>0, <1>3 DEF Checks, Finding, Facts, LocalsOf
    <3>3. Checks(s)' => \A f \in Uses[op[s].key] : Good(Conn(s), op[s].cur, f)
      BY <1>3, <3>2, AllGood
    <3> QED BY <1>1, <1>2, <1>3, <2>1, <2>2, <3>1, <3>3, FGoes
  <2>3. CASE op[s].cur \notin StageIds
    <3>1. op'[s].cur = None /\ op'[s].pass # "room"
      BY <1>0, <2>1, <2>3 DEF Facts, OpType, LocalsOf
    <3> QED BY <1>0, <1>1, <1>2, <1>3, <3>1, FEnds DEF Composing
  <2> QED BY <2>2, <2>3
<1>4. CASE Snapshot(s) \/ \E v \in StageIds : SweepTake(s, v) \/ EvictNext(s, v)
  BY <1>0, <1>3, <1>4, SnapshotCall, SweepTakeCall, EvictNextCall DEF At
<1>5. CASE SweepTest(s)
  BY <1>0, <1>3, <1>5, SweepTestCall DEF At
<1>6. CASE Fits(s)
  BY <1>0, <1>3, <1>6, FitsCall DEF At
<1>7. ASSUME At(s, "open", op[s].pass), op[s].pass = "first" PROVE FInv'
  <2>1. op'[s].cur = None /\ op'[s].pass # "room"
    BY <1>0, <1>7 DEF At, ShapeOf
  <2> QED BY <1>0, <1>1, <1>2, <1>7, <2>1, FEnds DEF At, Composing
<1>8. CASE RemoveGet(s)
  BY <1>0, <1>3, <1>7, <1>8, RemoveGetCall DEF At
<1>9. CASE RemoveDelete(s)
  BY <1>0, <1>3, <1>7, <1>9, RemoveDeleteCall DEF At
<1>10. CASE SweepDone(s)
  <2>1. op'[s].pc \in {"release", "open"}
    BY <1>0, <1>10, SweepDoneCall DEF At
  <2>2. op'[s].cur = None /\ op'[s].pass # "room"
    BY <1>0, <2>1 DEF ShapeOf, LocalsOf
  <2> QED BY <1>0, <1>1, <1>2, <2>1, <2>2, FEnds DEF Composing
<1>11. CASE MakeRoom(s)
  <2>1. /\ op[s].pc = "verify" /\ op[s].pass # "cached" /\ changed[s] = {}
        /\ op'[s].pc = "evicting" /\ op'[s].cur = op[s].cur /\ op'[s].key = op[s].key
        /\ op'[s].pass = "room"
    BY <1>0, <1>11, MakeRoomCall DEF Cacheable, At, HoldsStill, Holds
  <2>2. op[s].cur \in StageIds /\ op[s].cur # None
    BY <1>0, <2>1, HasStage DEF Holding
  <2>3. Composing(op[s])
    BY <1>0, <2>1, <2>2 DEF Facts, ShapeOf, OpType, Passes, Composing
  <2>4. \A f \in Uses[op[s].key] : Good(Conn(s), op[s].cur, f)
    BY <2>1, AllGood DEF Checks
  <2> QED BY <1>1, <1>2, <2>1, <2>2, <2>3, <2>4, FGoes
<1> QED BY <1>4, <1>5, <1>6, <1>8, <1>9, <1>10, <1>11

\* A call that begins with a shared stage, or ends
LEMMA BeginScanFresh ==
    ASSUME Known, NEW s \in Scans, NEW k \in Keys, BeginScan(s, k)
    PROVE  FInv'
<1>0. /\ RInv /\ SInv /\ TInv /\ TInv' /\ StampsOK /\ Facts(s) /\ FInv /\ {} \in SUBSET StageIds
  BY KnownHas
<1>1. Onwards /\ Step({s}, {})
  BY <1>0, BeginScanFlows, BeginScanKeeps
<1>2. /\ op[s].pc = "idle" /\ op'[s].pass = "cached"
      /\ \/ /\ op'[s].pc = "using" /\ query[Conn(s)][k] # None
            /\ op'[s].cur = query[Conn(s)][k] /\ op'[s].key = k
         \/ op'[s].pc = "lookup"
  BY <1>0, BeginScanCall DEF At, Holds
<1>3. CASE op'[s].pc = "lookup"
  BY <1>0, <1>1, <1>2, <1>3, FEnds DEF Composing
<1>4. ASSUME op'[s].pc = "using", query[Conn(s)][k] # None, op'[s].cur = query[Conn(s)][k],
             op'[s].key = k
      PROVE  FInv'
  <2>1. stage' = stage /\ layer' = layer /\ file' = file
    BY DEF BeginScan, Unsettled
  <2>2. start'[Conn(s)] = start[Conn(s)] /\ Conn(s)' = Conn(s)
    <3>1. ~QueryIdle(Conn(s))
      BY <1>0, <1>4 DEF RInv, QueryOK, Facts
    <3>2. start' = [start EXCEPT ![Conn(s)] = start[Conn(s)]]
      BY <3>1 DEF BeginScan
    <3> QED BY <1>0, <3>2 DEF TInv, TypeOK, Facts, Conn
  <2>3. ASSUME NEW c, c = Conn(s), NEW i, i = query[c][k], ~stage[i].stale, NEW f \in Uses[k]
        PROVE  Good(c, i, f)'
    <3>1. Good(c, i, f)
      BY <1>0, <1>4, <2>3 DEF FInv, QueryFresh, Facts
    <3> QED BY <2>1, <2>2, <2>3, <3>1 DEF Good, Current, RecordedLate, Shown
  <2>4. CheckedFresh(s)'
    BY <1>2, <1>4, <2>1, <2>2, <2>3 DEF CheckedFresh, Checks
  <2>5. FreshOf(s)'
    BY <1>2, <1>4, <2>4 DEF FreshOf, AbsentFresh, EntryStamped, Composing
  <2>6. Returns(s)
    BY <1>0, <1>2 DEF Returns, Facts, ShapeOf
  <2> QED BY <1>0, <1>1, <2>5, <2>6, FCall
<1> QED BY <1>2, <1>3, <1>4

LEMMA EndingFresh ==
    ASSUME Known, NEW s \in Scans,
           \/ Lookup(s) \/ Release(s) \/ Refuse(s) \/ Dropped(s) \/ FinishScan(s)
           \/ DropCachedStages(s)
    PROVE  FInv'
<1>0. /\ RInv /\ TInv /\ TInv' /\ StampsOK /\ Facts(s) /\ {} \in SUBSET StageIds
  BY KnownHas
<1>1. Onwards
  BY <1>0, StandsFlows, LetsGoFlows, ReleasingFlows, ForgettingFlows, BeginScanFlows
<1>2. Step({s}, {})
  BY <1>0, LookupKeeps, ReleaseKeeps, RefuseKeeps, DroppedKeeps, FinishScanKeeps,
     DropCachedStagesKeeps
<1>3. CASE Lookup(s)
  <2>1. op[s].cur = None /\ op[s].pass = "cached"
    BY <1>0, <1>3 DEF Lookup, Facts, ShapeOf, LocalsOf
  <2>2. op'[s].pc \in {"open", "gethandle"} /\ op'[s].cur = None /\ op'[s].pass \in {"first", "cached"}
    BY <1>0, <1>3, <2>1, LookupCall DEF At, HoldsStill, Holds
  <2> QED BY <1>0, <1>1, <1>2, <2>2, FEnds DEF Composing
<1>4. CASE Release(s)
  <2>1. op[s].cur = None
    BY <1>0, <1>4 DEF Release, Facts, ShapeOf
  <2>2. op'[s].pc = "get" /\ op'[s].cur = None /\ op'[s].pass = "first"
    BY <1>0, <1>4, <2>1, ReleaseCall DEF At, HoldsStill, Holds
  <2> QED BY <1>0, <1>1, <1>2, <2>2, FEnds DEF Composing
<1>5. CASE Refuse(s) \/ Dropped(s) \/ FinishScan(s)
  <2>1. op'[s].pc = "done" /\ op'[s].pass = "cached"
    BY <1>0, <1>5, FailCall, DroppedCall, FinishScanCall DEF At, Refuse
  <2> QED BY <1>0, <1>1, <1>2, <2>1, FEnds DEF Composing
<1>6. CASE DropCachedStages(s)
  <2>1. op'[s].pc = "evicting" /\ op'[s].pass = "drop"
    BY <1>0, <1>6, DropCachedStagesCall DEF At
  <2> QED BY <1>0, <1>1, <1>2, <2>1, FEnds DEF Composing
<1> QED BY <1>3, <1>4, <1>5, <1>6

\* Open returns the stage: it is marked, or all of it was checked
LEMMA ReturningFresh ==
    ASSUME Known, NEW s \in Scans, Verified(s) \/ DoesNotFit(s) \/ Add(s)
    PROVE  FInv'
<1>0. /\ RInv /\ TInv /\ TInv' /\ TypeOK /\ StampsOK /\ Facts(s)
  BY KnownHas
<1>1. Onwards /\ Step({s}, {})
  BY <1>0, ReturningFlows, VerifiedKeeps, DoesNotFitKeeps, AddKeeps
<1>2. PICK reg : Return(s, reg)
  BY DEF Verified, DoesNotFit, Add
<1>3. op[s].pc = "verify" \/ op[s].pass = "room"
  BY <1>0 DEF Verified, DoesNotFit, Add, Facts, ShapeOf
<1>4. op[s].pc \notin {"idle", "stat", "compare", "missing", "load"}
  BY DEF Verified, DoesNotFit, Add
<1>5. op[s].cur \in StageIds
  BY <1>0, <1>3, HasStage DEF Holding
<1>6. op'[s].pc = "using" /\ op'[s].pass = "cached" /\ op'[s].cur = op[s].cur /\ op'[s].key = op[s].key
  BY <1>0, <1>2, ReturnCall DEF At, Holds
<1>7. stage'[op[s].cur].stale <=> changed[s] # {}
  <2> DEFINE b == changed[s] # {}
             st == [stage EXCEPT ![op[s].cur].stale = b]
  <2>1. \E qry, chg : Settle(st, layer, reg, qry, chg)
    BY <1>2 DEF Return
  <2>2. b \in BOOLEAN /\ stage \in [StageIds -> StageType]
    BY <1>0 DEF TypeOK
  <2> HIDE DEF b
  <2>3. \A i \in StageIds : [stage[i] EXCEPT !.stale = b] \in StageType
    BY <2>2 DEF StageType
  <2>4. st \in [StageIds -> StageType]
    BY <2>2, <2>3
  <2>5. st[op[s].cur].stale = b
    BY <1>5, <2>2 DEF StageType
  <2>6. op[s].cur \in Alive'
    BY <1>5, <1>6, AliveNext, HandlesNext
  <2> HIDE DEF st
  <2>7. stage'[op[s].cur] = st[op[s].cur]
    BY <2>1, <2>4, <2>6, SettleFacts
  <2> QED BY <2>5, <2>7 DEF b
<1>8. ASSUME Checks(s)' PROVE \A f \in Uses[op[s].key] : Good(Conn(s), op[s].cur, f)
  <2>1. changed[s] = {}
    BY <1>6, <1>7, <1>8 DEF Checks
  <2> QED BY <1>3, <1>4, <2>1, AllGood DEF Checks
<1>9. ~Composing(op'[s])
  BY <1>6 DEF Composing
<1> QED BY <1>1, <1>4, <1>5, <1>6, <1>8, <1>9, FGoes

\* The layers of a stage are about to be compared
LEMMA GetHandleFresh ==
    ASSUME Known, NEW s \in Scans, GetHandle(s)
    PROVE  FInv'
<1>0. /\ RInv /\ SInv /\ TInv /\ TInv' /\ StampsOK /\ Facts(s) /\ {} \in SUBSET StageIds
  BY KnownHas
<1>1. Onwards /\ Step({s}, {}) /\ stage' = stage /\ layer' = layer
  BY <1>0, StandsFlows, GetHandleKeeps DEF GetHandle, Unsettled
<1>2. op[s].pc = "gethandle" /\ op[s].ent \in StageIds /\ op[s].cur = None /\ op[s].pass = "cached"
  BY <1>0 DEF GetHandle, Facts, LocalsOf, ShapeOf
<1>3. CASE op'[s].pc = "release" /\ op'[s].pass = "cached"
  BY <1>0, <1>1, <1>3, FEnds DEF Composing
<1>4. CASE /\ ~stage[op[s].ent].released /\ op'[s].pc = "stat" /\ op'[s].pass = "cached"
           /\ op'[s].cur = op[s].ent /\ op'[s].todo = stage[op[s].ent].loaded
  <2>1. Stamped(op[s].ent)
    BY <1>0, <1>2, <1>4, EntriesAre DEF SInv, EntriesStamped
  <2>2. EntryStamped(s)'
    BY <1>1, <1>4, <2>1 DEF EntryStamped, Stamped
  <2>3. CheckedFresh(s)'
    <3>1. Unchecked(s)' = stage[op[s].ent].loaded \cup (Uses[op'[s].key] \ stage[op[s].ent].loaded)
      BY <1>1, <1>4 DEF Unchecked
    <3> QED BY <3>1 DEF CheckedFresh
  <2>4. FreshOf(s)' /\ Returns(s)
    BY <1>4, <2>2, <2>3 DEF FreshOf, AbsentFresh, Composing, Returns
  <2> QED BY <1>0, <1>1, <2>4, FCall
<1> QED BY <1>0, <1>2, <1>3, <1>4, GetHandleCall DEF At, Holds, LeftTo

LEMMA LoadedFresh ==
    ASSUME Known, NEW s \in Scans, Loaded(s)
    PROVE  FInv'
<1>0. /\ RInv /\ TInv /\ TInv' /\ StampsOK /\ Facts(s)
  BY KnownHas
<1>1. Onwards /\ Step({s}, {}) /\ stage' = stage
  BY <1>0, StandsFlows, LoadedKeeps DEF Loaded, Unsettled
<1>2. /\ op[s].pc = "load" /\ op[s].todo = {} /\ op'[s].pc = "stat" /\ op'[s].pass = op[s].pass
      /\ op'[s].cur = op[s].cur /\ op'[s].key = op[s].key /\ op'[s].todo = stage[op[s].cur].loaded
  BY <1>0, LoadedCall DEF At, HoldsStill, Holds, LeftTo
<1>3. op[s].cur \in StageIds /\ op[s].pass \in {"first", "again"}
  BY <1>0, <1>2, HasStage DEF Holding, Facts, ShapeOf
<1>4. Composing(op'[s]) => Composing(op[s])
  BY <1>2, <1>3 DEF Composing
<1>5. Unchecked(s)' = stage[op[s].cur].loaded \cup (Uses[op[s].key] \ stage[op[s].cur].loaded)
  BY <1>1, <1>2 DEF Unchecked
<1> QED BY <1>1, <1>2, <1>3, <1>4, <1>5, FGoes

LEMMA ReadStampFresh ==
    ASSUME Known, NEW s \in Scans, NEW f \in Files, ReadStamp(s, f)
    PROVE  FInv'
<1>0. /\ RInv /\ TInv /\ TInv' /\ StampsOK /\ FreshOf(s)
  BY KnownHas
<1>1. Onwards /\ Step({s}, {}) /\ stage' = stage /\ changed' = changed
  BY <1>0, StandsFlows, ReadStampKeeps DEF ReadStamp, Unsettled
<1>2. /\ op[s].pc = "stat" /\ op'[s].pc = "compare" /\ op'[s].pass = op[s].pass
      /\ op'[s].cur = op[s].cur /\ op'[s].key = op[s].key /\ op'[s].todo = op[s].todo
  BY <1>0, ReadStampCall DEF At, HoldsStill, Holds, LeftTo
<1>3. op[s].cur \in StageIds
  BY <1>0, <1>2, HasStage DEF Holding
<1>4. Composing(op'[s]) => Composing(op[s])
  BY <1>2 DEF Composing
<1>5. op[s].pass = "cached" => Stamped(op[s].cur)
  BY <1>0, <1>2 DEF FreshOf, EntryStamped
<1>6. \A g \in Uses[op[s].key] \ Unchecked(s)' :
        Good(Conn(s), op[s].cur, g) \/ (g \in changed'[s] /\ g \in stage[op[s].cur].loaded)
  <2>1. Unchecked(s)' = Unchecked(s) /\ Checks(s)
    BY <1>1, <1>2 DEF Unchecked, Checks
  <2> QED BY <1>0, <1>1, <2>1 DEF FreshOf, CheckedFresh
<1> QED BY <1>1, <1>2, <1>3, <1>4, <1>5, <1>6, FGoes

\* The layer just compared is outdated, or what it shows is what the file held
\* during the query, unless its stamp was recorded late
LEMMA ComparedLayer ==
    ASSUME RInv, SInv, NEW s \in Scans, Compare(s), Conn(s) \in Conns,
           NEW i, i = op[s].cur, NEW f, f = op[s].at, NEW c, c = Conn(s)
    PROVE  f \in changed'[s] \/ Good(c, i, f)'
<1> DEFINE x == op[s].seen
<1>0. /\ TypeOK /\ SeenOK(s) /\ op[s].pc = "compare" /\ LocalsOf(op[s]) /\ StampsOK
  BY DEF RInv, TInv, SInv, CheckedOf, Compare, CallsOK
<1>1. f \in stage[i].loaded /\ f \in Files /\ layer'[f].version = layer[f].version
  BY CompareLayers
<1>2. stage' = stage /\ file' = file /\ start' = start
  BY DEF Compare
<1>3. x \in Stamps /\ x # NoStamp
  BY <1>0, BoundAssumption DEF LocalsOf, Stamps, NoStamp
<1>4. CASE layer[f].stamp \notin {NoStamp, x}
  <2>1. changed' = [changed EXCEPT ![s] = @ \cup {f}]
    BY <1>4 DEF Compare
  <2> QED BY <1>0, <2>1 DEF TypeOK
<1>5. CASE layer[f].stamp \in {NoStamp, x}
  <2>1. layer'[f].stamp = x
    <3>1. CASE layer[f].stamp = NoStamp
      <4>1. layer' = [layer EXCEPT ![f].stamp = x]
        BY <3>1 DEF Compare
      <4>2. layer[f] \in [version : 0 .. MaxVersion, stamp : Stamps \cup {NoStamp}]
        BY <1>0, <1>1 DEF TypeOK
      <4>3. layer'[f] = [layer[f] EXCEPT !.stamp = x]
        BY <1>0, <1>1, <4>1 DEF TypeOK
      <4> QED BY <4>2, <4>3
    <3>2. CASE layer[f].stamp # NoStamp
      <4>1. layer' = layer
        BY <3>2 DEF Compare
      <4> QED BY <1>5, <3>2, <4>1
    <3> QED BY <3>1, <3>2
  <2>2. Shown(i, f)' = layer[f].version
    BY <1>1, <1>2 DEF Shown
  <2>3. CASE x # layer[f].version
    <3>1. RecordedLate(i, f)'
      BY <1>1, <1>2, <1>3, <2>1, <2>2, <2>3 DEF RecordedLate
    <3> QED BY <3>1 DEF Good
  <2>4. CASE x = layer[f].version
    <3>1. PICK g \in layer[f].version .. file[f] : start[c][f] <= g /\ x = StampAt(f, g)
      BY <1>0 DEF SeenOK
    <3>2. layer[f].version \in Nat /\ file[f] \in Nat /\ start[c][f] \in Nat
      BY <1>0, <1>1, BoundAssumption DEF TypeOK, Version
    <3>3. g \in start[c][f] .. file[f]
      BY <3>1, <3>2
    <3>4. Current(c, i, f)'
      BY <1>2, <2>2, <2>4, <3>1, <3>3 DEF Current
    <3> QED BY <3>4 DEF Good
  <2> QED BY <2>3, <2>4
<1> QED BY <1>4, <1>5

LEMMA CompareFresh ==
    ASSUME Known, NEW s \in Scans, Compare(s)
    PROVE  FInv'
<1>0. /\ RInv /\ SInv /\ TInv /\ TInv' /\ TypeOK /\ StampsOK /\ Facts(s) /\ FreshOf(s)
  BY KnownHas
<1>1. Step({s}, {}) /\ stage' = stage /\ TimePasses /\ changed[s] \subseteq changed'[s]
  BY <1>0, CompareKeeps, TimeStands DEF Compare, TypeOK
<1>2. /\ op[s].pc = "compare" /\ op'[s].pc = "stat" /\ op'[s].pass = op[s].pass
      /\ op'[s].cur = op[s].cur /\ op'[s].key = op[s].key /\ op'[s].todo = op[s].todo \ {op[s].at}
  BY <1>0, CompareCall DEF At, HoldsStill, Holds, LeftTo
<1>3. op[s].cur \in StageIds
  BY <1>0, <1>2, HasStage DEF Holding
<1>4. Composing(op'[s]) => Composing(op[s])
  BY <1>2 DEF Composing
<1>5. op[s].pass = "cached" => Stamped(op[s].cur)
  BY <1>0, <1>2 DEF FreshOf, EntryStamped
<1>6. \A g \in Uses[op[s].key] \ Unchecked(s)' :
        \/ Good(Conn(s), op[s].cur, g) \/ Good(Conn(s), op[s].cur, g)'
        \/ g \in changed'[s] /\ g \in stage[op[s].cur].loaded
  <2> SUFFICES ASSUME NEW g \in Uses[op[s].key] \ Unchecked(s)'
               PROVE  \/ Good(Conn(s), op[s].cur, g) \/ Good(Conn(s), op[s].cur, g)'
                      \/ g \in changed'[s] /\ g \in stage[op[s].cur].loaded
    OBVIOUS
  <2>1. g \notin Unchecked(s) \/ g = op[s].at
    BY <1>1, <1>2 DEF Unchecked
  <2>2. CASE g \notin Unchecked(s)
    <3>1. Checks(s)
      BY <1>2 DEF Checks
    <3> QED BY <1>0, <1>1, <2>2, <3>1 DEF FreshOf, CheckedFresh
  <2>3. CASE g = op[s].at
    <3>1. Conn(s)' = Conn(s) /\ g \in stage[op[s].cur].loaded
      BY <1>0, <2>3, CompareLayers DEF Conn
    <3>2. ASSUME NEW i, i = op[s].cur, NEW c, c = Conn(s) PROVE g \in changed'[s] \/ Good(c, i, g)'
      BY <1>0, <2>3, <3>2, ComparedLayer DEF Facts
    <3> QED BY <1>2, <3>1, <3>2
  <2> QED BY <2>1, <2>2, <2>3
<1>7. Kept(op[s].cur) /\ {} \in SUBSET StageIds /\ {s} \in SUBSET Scans
  <2>1. {} \in SUBSET StageIds /\ {s} \in SUBSET Scans
    OBVIOUS
  <2> QED BY <1>1, <1>2, <1>3, <2>1, CurKept
<1>8. FreshOf(s)' /\ Returns(s)
  <2>1. TypeOK' /\ FInv
    BY <1>0, KnownHas
  <2>2. FreshOf(s)'
    BY <1>0, <1>1, <1>2, <1>3, <1>4, <1>5, <1>6, <1>7, <2>1, FreshCall
  <2> QED BY <1>2, <2>2 DEF Returns
<1>9. \A u \in {s} : FreshOf(u)' /\ Returns(u)
  BY <1>8
<1> QED BY <1>1, <1>7, <1>9, FStep DEF Known

LEMMA ComparedFresh ==
    ASSUME Known, NEW s \in Scans, Compared(s)
    PROVE  FInv'
<1>0. /\ RInv /\ TInv /\ TInv' /\ TypeOK /\ StampsOK /\ Facts(s) /\ FreshOf(s) /\ Endures
      /\ {} \in SUBSET StageIds /\ {s} \in SUBSET Scans
  BY KnownHas
<1>1. Onwards /\ Step({s}, {})
  BY <1>0, LetsGoFlows, ComparedKeeps
<1>2. op[s].pc = "stat" /\ op[s].todo = {}
  BY <1>0, ComparedCall
<1>3. op[s].cur \in StageIds /\ op[s].key \in Keys /\ stage[op[s].cur].key = op[s].key
  BY <1>0, <1>2, HasStage DEF Holding, Facts, RefsOf, ShapeOf, StageIs
<1>4. \A f \in Uses[op[s].key] : f \in stage[op[s].cur].loaded =>
        f \in changed[s] \/ Good(Conn(s), op[s].cur, f)
  BY <1>0, <1>2 DEF FreshOf, CheckedFresh, Checks, Unchecked
<1>5. CASE op'[s].pc = "snapshot" /\ op'[s].pass = "cached" /\ op'[s].cur = None
  BY <1>0, <1>1, <1>5, FEnds DEF Composing
<1>6. CASE At(s, "snapshot", "first") /\ HoldsStill(s) /\ op[s].pass = "first"
  <2>1. Composing(op'[s]) => Composing(op[s])
    BY <1>6 DEF At, HoldsStill, Holds, Composing
  <2>2. ~Checks(s)'
    BY <1>6 DEF At, Checks
  <2> QED BY <1>1, <1>2, <1>3, <1>6, <2>1, <2>2, FGoes DEF At, HoldsStill, Holds
<1>7. CASE At(s, "verify", op[s].pass) /\ HoldsStill(s) /\ op[s].pass \in {"first", "again"}
  <2>1. Composing(op'[s]) /\ Composing(op[s])
    BY <1>3, <1>7, NoneAssumption DEF At, HoldsStill, Holds, Composing
  <2>2. Kept(op[s].cur) /\ Retains(s)
    <3>1. op'[s].cur = op[s].cur /\ op'[s].pc = "verify"
      BY <1>7 DEF At, HoldsStill, Holds
    <3> QED BY <1>0, <1>1, <1>3, <3>1, CurKept DEF Endures, Retain
  <2>3. \A f \in Uses[op[s].key] : f \notin stage[op[s].cur].loaded => Good(Conn(s), op[s].cur, f)
    BY <1>0, <1>2, <2>1 DEF FreshOf, AbsentFresh, Good
  <2>4. \A f \in Uses[op[s].key] : \/ Good(Conn(s), op[s].cur, f)
                                   \/ f \in changed'[s] /\ f \in stage[op[s].cur].loaded
    BY <1>4, <2>2, <2>3, KnownStays
  <2> QED BY <1>1, <1>2, <1>3, <1>7, <2>1, <2>4, FGoes DEF At, HoldsStill, Holds
<1>8. ASSUME op[s].pass = "cached", changed[s] = {}, HoldsStill(s),
             \/ At(s, "verify", op[s].pass) /\ Missing(op[s].cur) = {}
             \/ At(s, "missing", op[s].pass) /\ LeftTo(s, Missing(op[s].cur))
      PROVE  FInv'
  <2>1. ~Composing(op'[s]) /\ op'[s].cur = op[s].cur /\ op'[s].key = op[s].key
    BY <1>8 DEF At, HoldsStill, Holds, Composing
  <2>2. Stamped(op[s].cur)
    BY <1>0, <1>2, <1>8 DEF FreshOf, EntryStamped
  <2>3. Kept(op[s].cur)
    BY <1>0, <1>1, <1>3, <2>1, CurKept
  <2>4. \A f \in Uses[op[s].key] : f \in stage[op[s].cur].loaded \/ f \in Missing(op[s].cur)
    BY <1>3, <2>2, ConfigAssumption DEF Stamped, Missing
  <2>5. \A f \in Uses[op[s].key] :
          f \in stage'[op[s].cur].loaded => f \in stage[op[s].cur].loaded
    BY <1>3, <2>3 DEF Kept, Contents
  <2>6. \A f \in Uses[op[s].key] \ Unchecked(s)' : f \in stage[op[s].cur].loaded
    BY <1>8, <2>1, <2>4, <2>5 DEF Unchecked, At, LeftTo
  <2>7. \A f \in Uses[op[s].key] \ Unchecked(s)' : Good(Conn(s), op[s].cur, f)
    BY <1>4, <1>8, <2>6
  <2> QED BY <1>1, <1>2, <1>3, <1>8, <2>1, <2>2, <2>7, FGoes DEF At
<1> QED BY <1>0, <1>5, <1>6, <1>7, <1>8, ComparedCall DEF At, Holds

LEMMA CheckMissingFresh ==
    ASSUME Known, NEW s \in Scans, NEW f \in Files, CheckMissing(s, f)
    PROVE  FInv'
<1>0. /\ RInv /\ TInv /\ TInv' /\ TypeOK /\ StampsOK /\ Facts(s) /\ FreshOf(s) /\ MissingLeft(s)
      /\ {} \in SUBSET StageIds /\ {s} \in SUBSET Scans
  BY KnownHas DEF SInv, CheckedOf
<1>1. Onwards /\ Step({s}, {})
  BY <1>0, LetsGoFlows, CheckMissingKeeps
<1>2. /\ op[s].pc = "missing" /\ f \in op[s].todo /\ op[s].pass = "cached" /\ changed[s] = {}
      /\ op[s].cur \in StageIds
  BY <1>0, KnownHas, HasStage DEF CheckMissing, Facts, LocalsOf, Finding, Holding
<1>3. CASE op'[s].pc = "release" /\ op'[s].pass = "cached"
  BY <1>0, <1>1, <1>3, FEnds DEF Composing
<1>4. ASSUME Stamp(f) = stage[op[s].cur].miss[f], HoldsStill(s),
             \/ At(s, "verify", op[s].pass) /\ op[s].todo \ {f} = {}
             \/ At(s, "missing", op[s].pass) /\ LeftTo(s, op[s].todo \ {f})
      PROVE  FInv'
  <2>1. ~Composing(op'[s]) /\ op'[s].cur = op[s].cur /\ op'[s].key = op[s].key
    BY <1>2, <1>4 DEF At, HoldsStill, Holds, Composing
  <2>2. Stamped(op[s].cur)
    BY <1>0, <1>2 DEF FreshOf, EntryStamped
  <2>3. Kept(op[s].cur)
    BY <1>0, <1>1, <1>2, <2>1, CurKept
  <2>4. \A g \in Uses[op[s].key] \ Unchecked(s) : Good(Conn(s), op[s].cur, g)
    BY <1>0, <1>2 DEF FreshOf, CheckedFresh, Checks
  <2>5. \A g \in Uses[op[s].key] \ Unchecked(s)' : g \notin Unchecked(s) \/ g = f
    <3>1. stage[op[s].cur].loaded \subseteq stage'[op[s].cur].loaded
      BY <2>3 DEF Kept, Contents
    <3>2. stage'[op[s].cur].loaded \cap Uses[op[s].key] \subseteq stage[op[s].cur].loaded
      BY <1>0, <1>2, <2>3, NoneAssumption DEF Kept, Contents, Facts, RefsOf, StageIs
    <3> QED BY <1>2, <1>4, <2>1, <3>1, <3>2 DEF Unchecked, At, LeftTo
  <2>6. f \notin stage[op[s].cur].loaded => Good(Conn(s), op[s].cur, f)
    <3> SUFFICES ASSUME f \notin stage[op[s].cur].loaded PROVE Good(Conn(s), op[s].cur, f)
      OBVIOUS
    <3>1. stage[op[s].cur].miss[f] # NoStamp
      BY <1>0, <1>2 DEF MissingLeft, Missing
    <3>2. CASE stage[op[s].cur].missed[f] # stage[op[s].cur].miss[f]
      BY <3>1, <3>2 DEF Good, RecordedLate, Shown
    <3>3. CASE stage[op[s].cur].missed[f] = stage[op[s].cur].miss[f]
      <4>1. start[Conn(s)][f] <= file[f]
        BY <1>0 DEF StampsOK, Facts
      <4>2. file[f] \in Version /\ start[Conn(s)][f] \in Version
        BY <1>0 DEF TypeOK, Facts
      <4>3. file[f] \in start[Conn(s)][f] .. file[f]
        BY <4>1, <4>2, BoundAssumption DEF Version
      <4>4. StampAt(f, file[f]) = Shown(op[s].cur, f)
        BY <1>4, <3>3 DEF Stamp, Shown
      <4> QED BY <4>3, <4>4 DEF Good, Current
    <3> QED BY <3>2, <3>3
  <2>7. f \in stage[op[s].cur].loaded => f \notin Unchecked(s)
    BY <1>2 DEF Unchecked
  <2>8. \A g \in Uses[op[s].key] \ Unchecked(s)' : Good(Conn(s), op[s].cur, g)
    BY <2>4, <2>5, <2>6, <2>7
  <2> QED BY <1>1, <1>2, <1>4, <2>1, <2>2, <2>8, FGoes DEF At
<1> QED BY <1>0, <1>2, <1>3, <1>4, CheckMissingCall DEF At

\* A stage being composed: the files it fails to load are not there
LEMMA OpenStageFresh ==
    ASSUME Known, NEW s \in Scans, OpenStage(s)
    PROVE  FInv'
<1>0. /\ RInv /\ TInv /\ TInv' /\ StampsOK /\ Facts(s)
  BY KnownHas
<1>1. Onwards /\ op'[s].cur \in StageIds /\ Step({s}, {op'[s].cur})
  BY <1>0, StandsFlows, OpenStageKeeps
<1>2. /\ op'[s].pc = "load" /\ op'[s].key = op[s].key /\ op'[s].todo = Uses[op[s].key]
      /\ op'[s].pass = op[s].pass /\ op[s].pc = "open"
  BY <1>0, OpenStageCall DEF At, Holds, LeftTo
<1>3. op[s].pass \in {"first", "again"}
  BY <1>0, <1>2 DEF Facts, ShapeOf
<1>4. FreshOf(s)' /\ Returns(s)
  BY <1>2, <1>3 DEF FreshOf, AbsentFresh, EntryStamped, CheckedFresh, Checks, Returns
<1>5. {op'[s].cur} \in SUBSET StageIds
  BY <1>1
<1> QED BY <1>1, <1>4, <1>5, FCall

LEMMA LoadFileFresh ==
    ASSUME Known, NEW s \in Scans, NEW f \in Files, LoadFile(s, f)
    PROVE  FInv'
<1>0. /\ RInv /\ SInv /\ TInv /\ TInv' /\ TypeOK /\ StampsOK /\ Facts(s) /\ FreshOf(s)
      /\ {} \in SUBSET StageIds
  BY KnownHas
<1>1. Onwards
  BY <1>0, LoadingFlows
<1>2. /\ op[s].pc = "load" /\ op[s].cur \in StageIds /\ op[s].cur # None
      /\ op[s].pass \in {"first", "again"} /\ op[s].key \in Keys
  BY <1>0, HasStage DEF LoadFile, Holding, Facts, ShapeOf, LocalsOf
<1>3. CASE Fail(s)
  <2>1. Step({s}, {}) /\ op'[s].pc = "done" /\ op'[s].pass = "cached"
    BY <1>0, <1>3, FailKeeps, FailCall DEF LoadFile, At
  <2> QED BY <1>0, <1>1, <2>1, FEnds DEF Composing
<1>4. ASSUME At(s, "load", op[s].pass), HoldsStill(s), LeftTo(s, op[s].todo \ {f}),
             Compose(s, f) \/ stage' = [stage EXCEPT ![op[s].cur].missed[f] = Stamp(f)]
      PROVE  FInv'
  <2>1. file' = file /\ start' = start /\ Conn(s)' = Conn(s)
    BY DEF LoadFile, Conn
  <2>2. op'[s].cur = op[s].cur /\ op'[s].key = op[s].key /\ op'[s].todo = op[s].todo \ {f}
    BY <1>4 DEF HoldsStill, Holds, LeftTo
  <2>3. ASSUME NEW i, i = op[s].cur, NEW c, c = Conn(s), NEW g \in Uses[op[s].key],
               g \notin stage'[i].loaded
        PROVE  (g \in op[s].todo /\ g # f) \/ Current(c, i, g)'
    <3>0. g \in Files
      BY <1>2, ConfigAssumption
    <3>1. ASSUME stage'[i].loaded = stage[i].loaded \/ g # f,
                 g \notin stage[i].loaded, stage'[i].missed[g] = stage[i].missed[g], g # f
          PROVE  g \in op[s].todo \/ Current(c, i, g)'
      <4>1. g \in op[s].todo \/ Current(c, i, g)
        BY <1>0, <1>2, <2>3, <3>1 DEF FreshOf, AbsentFresh, Composing
      <4> QED BY <2>1, <2>3, <3>1, <4>1 DEF Current, Shown
    <3>2. CASE Compose(s, f)
      <4>1. /\ stage'[i].missed = stage[i].missed /\ stage'[i].loaded = stage[i].loaded \cup {f}
        BY <1>0, <1>2, <2>3, <3>2, ComposeFacts
      <4> QED BY <2>3, <3>1, <4>1
    <3>3. CASE stage' = [stage EXCEPT ![op[s].cur].missed[f] = Stamp(f)]
      <4>1. /\ stage'[i].loaded = stage[i].loaded
            /\ \A h \in Files : stage'[i].missed[h] = IF h = f THEN Stamp(f) ELSE stage[i].missed[h]
        BY <1>0, <1>2, <2>3, <3>3 DEF TypeOK, StageType
      <4>2. CASE g # f
        BY <2>3, <3>0, <3>1, <4>1, <4>2
      <4>3. CASE g = f
        <5>0. c \in Conns
          BY <1>0, <2>3 DEF Facts
        <5>1. file[g] \in Version /\ start[c][g] \in Version /\ start[c][g] <= file[g]
          BY <1>0, <3>0, <5>0 DEF TypeOK, StampsOK
        <5>2. file[g] \in start[c][g] .. file[g]
          BY <5>1, BoundAssumption DEF Version
        <5>3. Shown(i, g)' = StampAt(g, file[g])
          BY <2>3, <3>0, <4>1, <4>3 DEF Shown, Stamp
        <5> QED BY <2>1, <5>2, <5>3 DEF Current
      <4> QED BY <4>2, <4>3
    <3> QED BY <1>4, <3>2, <3>3
  <2>4. AbsentFresh(s)'
    <3>1. op'[s].pc = "load"
      BY <1>4 DEF At
    <3> QED BY <2>1, <2>2, <2>3, <3>1 DEF AbsentFresh
  <2>5. FreshOf(s)' /\ Returns(s)
    BY <1>2, <1>4, <2>4 DEF FreshOf, EntryStamped, CheckedFresh, Checks, Returns, At
  <2>6. Step({s}, {op[s].cur}) \/ Step({s}, {})
    BY <1>0, LoadFileKeeps
  <2>7. {op[s].cur} \in SUBSET StageIds
    BY <1>2
  <2> QED BY <1>0, <1>1, <2>5, <2>6, <2>7, FCall
<1> QED BY <1>0, <1>2, <1>3, <1>4, LoadFileCall

LEMMA ReadClipFresh ==
    ASSUME Known, NEW s \in Scans, NEW f \in Files, ReadClip(s, f)
    PROVE  FInv'
<1>0. /\ RInv /\ SInv /\ TInv /\ TInv' /\ StampsOK /\ Facts(s) /\ Endures
  BY KnownHas
<1>1. Onwards /\ Step({s}, {}) /\ op' = op /\ op[s].pc = "using"
  BY <1>0, LoadingFlows, ReadClipKeeps DEF ReadClip
<1>2. op[s].cur \in StageIds /\ ~Composing(op[s])
  BY <1>0, <1>1, HasStage DEF Holding, Facts, ShapeOf, Composing
<1>3. op[s].cur \in Alive /\ op[s].cur \in Alive'
  BY <1>1, <1>2, HandlesAre, AliveNext, HandlesNext DEF Alive
<1>4. ASSUME Checks(s)' PROVE \A g \in Uses[op[s].key] : Good(Conn(s), op[s].cur, g)
  <2>1. Checks(s)
    BY <1>0, <1>1, <1>2, <1>3, <1>4 DEF Checks, Endures, StaleStays
  <2>2. changed[s] = {}
    BY <1>1, KnownHas DEF Finding
  <2> QED BY <1>1, <2>1, <2>2, AllGood
<1> QED BY <1>1, <1>2, <1>4, FGoes

\* FindMissingAssets: the stage is not changed, only what is recorded of it
LEMMA RecordMissingFresh ==
    ASSUME Known, NEW s \in Scans, NEW f \in Files, RecordMissing(s, f)
    PROVE  FInv'
<1>0. /\ RInv /\ SInv /\ TInv /\ TInv' /\ TypeOK /\ StampsOK /\ Facts(s) /\ FreshOf(s) /\ MissingLeft(s)
  BY KnownHas DEF SInv, CheckedOf
<1>1. Onwards /\ Step({s}, {op[s].cur})
  BY <1>0, StandsFlows, RecordMissingKeeps
<1>2. /\ op[s].pc = "record" /\ f \in op[s].todo /\ op'[s].pc = "record" /\ op'[s].pass = op[s].pass
      /\ op'[s].cur = op[s].cur /\ op'[s].key = op[s].key /\ op'[s].todo = op[s].todo \ {f}
  BY <1>0, RecordMissingCall DEF At, HoldsStill, Holds, LeftTo
<1>3. op[s].cur \in StageIds /\ op[s].cur # None /\ op[s].pass = "room"
  BY <1>0, <1>2, HasStage DEF Holding, Facts, ShapeOf
<1>4. file' = file /\ start' = start /\ layer' = layer /\ Conn(s)' = Conn(s)
  BY DEF RecordMissing, Conn
<1>5. /\ stage'[op[s].cur].loaded = stage[op[s].cur].loaded
      /\ stage'[op[s].cur].missed = stage[op[s].cur].missed
      /\ \A g \in Files \ {f} : stage'[op[s].cur].miss[g] = stage[op[s].cur].miss[g]
  <2>1. stage' = [stage EXCEPT ![op[s].cur].miss[f] = Stamp(f)]
    BY DEF RecordMissing
  <2> QED BY <1>0, <1>3, <2>1 DEF TypeOK, StageType
<1>6. Uses[op[s].key] \subseteq Files
  BY <1>0, <1>2, ConfigAssumption DEF Facts, LocalsOf
<1>7. Composing(op[s]) /\ Composing(op'[s])
  BY <1>2, <1>3 DEF Composing
<1>8. ASSUME NEW i, i = op[s].cur, NEW c, c = Conn(s), NEW g \in Uses[op[s].key]
      PROVE  /\ g \in stage'[i].loaded <=> g \in stage[i].loaded
             /\ g \notin stage[i].loaded => Current(c, i, g)'
             /\ Good(c, i, g)'
  <2>1. g \in stage'[i].loaded <=> g \in stage[i].loaded
    BY <1>5, <1>8
  <2>2. Shown(i, g)' = Shown(i, g)
    BY <1>4, <1>5, <1>8 DEF Shown
  <2>3. Current(c, i, g) => Current(c, i, g)'
    BY <1>4, <2>2 DEF Current
  <2>4. g \notin stage[i].loaded => Current(c, i, g)
    BY <1>0, <1>2, <1>7, <1>8 DEF FreshOf, AbsentFresh
  <2>5. CASE g \in stage[i].loaded
    <3>1. changed[s] = {}
      BY <1>2, KnownHas DEF Finding
    <3>2. Good(c, i, g)
      BY <1>2, <1>3, <1>8, <3>1, AllGood DEF Checks
    <3>3. RecordedLate(i, g) => RecordedLate(i, g)'
      BY <1>4, <2>1, <2>2, <2>5 DEF RecordedLate
    <3> QED BY <2>1, <2>3, <2>5, <3>2, <3>3 DEF Good
  <2> QED BY <2>1, <2>3, <2>4, <2>5 DEF Good
<1>9. AbsentFresh(s)'
  BY <1>2, <1>4, <1>8 DEF AbsentFresh
<1>10. CheckedFresh(s)'
  BY <1>2, <1>4, <1>8 DEF CheckedFresh
<1>11. FreshOf(s)' /\ Returns(s) /\ {op[s].cur} \in SUBSET StageIds
  BY <1>2, <1>3, <1>9, <1>10 DEF FreshOf, EntryStamped, Returns
<1> QED BY <1>1, <1>11, FCall

\* The stage becomes a cache entry, and stays as it is
LEMMA PutFresh ==
    ASSUME Known, NEW s \in Scans, Put(s)
    PROVE  FInv'
<1>0. /\ RInv /\ SInv /\ TInv /\ TInv' /\ TypeOK /\ TypeOK' /\ StampsOK /\ Facts(s) /\ FInv
  BY KnownHas
<1>1. Onwards /\ Step({s}, {op[s].cur})
  BY <1>0, LetsGoFlows, PutKeeps
<1>2. /\ op[s].pc = "record" /\ op'[s].pc = "add" /\ op'[s].pass = op[s].pass
      /\ op'[s].cur = op[s].cur /\ op'[s].key = op[s].key
  BY <1>0, PutCall DEF At, Holds
<1>3. op[s].cur \in StageIds /\ op[s].cur \in Alive /\ op[s].pass = "room"
  BY <1>0, <1>2, HasStage DEF Holding, Facts, ShapeOf
<1>4. op[s].cur \in Handles' /\ op[s].cur \in Alive'
  BY <1>2, <1>3, AliveNext, HandlesNext
<1>5. stage'[op[s].cur] = stage[op[s].cur]
  <2>1. stage \in [StageIds -> StageType] /\ Settle(stage, layer, registry, query, changed)
    BY <1>0 DEF TypeOK, Put
  <2> QED BY <1>4, <2>1, SettleFacts
<1>6. Kept(op[s].cur)
  <2>1. Contents(op[s].cur)
    BY <1>5 DEF Contents
  <2>2. Stays(op[s].cur)
    BY <1>5 DEF Stays
  <2> QED BY <1>1, <1>3, <1>4, <2>1, <2>2 DEF Kept, Step
<1>7. \A f \in Uses[op[s].key] : Good(Conn(s), op[s].cur, f)
  <2>1. changed[s] = {}
    BY <1>2, KnownHas DEF Finding
  <2> QED BY <1>2, <1>3, <2>1, AllGood DEF Checks
<1>8. ~Composing(op'[s])
  BY <1>2, <1>3 DEF Composing
<1>9. FreshOf(s)'
  BY <1>0, <1>1, <1>2, <1>3, <1>6, <1>7, <1>8, FreshCall DEF Onwards
<1>10. Returns(s) /\ {op[s].cur} \in SUBSET StageIds
  BY <1>2, <1>3 DEF Returns
<1> QED BY <1>1, <1>9, <1>10, FCall

LEMMA EndQueryFresh ==
    ASSUME Known, NEW c \in Conns, EndQuery(c)
    PROVE  FInv'
<1>0. TInv' /\ StampsOK /\ {} \in SUBSET StageIds
  BY DEF Known, RInv, SInv
<1>1. Onwards /\ Step(CallsOn(c), {}) /\ CallsOn(c) \in SUBSET Scans
  BY <1>0, EndQueryFlows, EndQueryKeeps, EndQueryCalls DEF Known
<1>2. ASSUME NEW u \in CallsOn(c) PROVE FreshOf(u)' /\ Returns(u)
  <2>1. u \in Scans /\ op'[u].pc = "idle" /\ op'[u].pass = "cached"
    BY <1>1, <1>2, EndQueryCalls DEF Known
  <2> QED BY <2>1, NothingFresh DEF Returns, Composing
<1> QED BY <1>0, <1>1, <1>2, FStep DEF Known, Onwards

\* ... and the steps of no call
LEMMA OthersFresh ==
    ASSUME Known, Onwards, Step({}, {})
    PROVE  FInv'
<1>1. {} \in SUBSET Scans /\ {} \in SUBSET StageIds /\ \A u \in {} : FreshOf(u)' /\ Returns(u)
  OBVIOUS
<1> QED BY <1>1, FStep DEF Known, Onwards

LEMMA FInvInit == Init => FInv
<1> SUFFICES ASSUME Init PROVE FInv
  OBVIOUS
<1>1. ASSUME NEW s \in Scans PROVE FreshOf(s)
  <2>1. op[s] = CallAt("idle", None, None)
    BY DEF Init, NoCall
  <2>2. op[s].pc = "idle" /\ op[s].pass = "cached"
    BY <2>1 DEF CallAt
  <2> QED BY <2>2 DEF FreshOf, AbsentFresh, EntryStamped, CheckedFresh, Checks, Composing
<1>2. QueryFresh
  BY DEF Init, QueryFresh
<1> QED BY <1>1, <1>2 DEF FInv

LEMMA FInvStep == RInv /\ PInv /\ SInv /\ FInv /\ [Next]_vars => FInv'
<1> SUFFICES ASSUME RInv, PInv, SInv, FInv, [Next]_vars PROVE FInv'
  OBVIOUS
<1>0. Known
  BY RInvStep, PInvStep, EnduresStep DEF Known
<1>1. TInv' /\ StampsOK
  BY <1>0 DEF Known, RInv, SInv
<1>2. ASSUME NEW s \in Scans, Work(s) PROVE FInv'
  BY <1>0, <1>2, SweepingFresh, EndingFresh, ReturningFresh, GetHandleFresh, LoadedFresh,
     ReadStampFresh, CompareFresh, ComparedFresh, CheckMissingFresh, OpenStageFresh,
     LoadFileFresh, RecordMissingFresh, PutFresh DEF Work
<1>3. ASSUME NEW s \in Scans, \/ FinishScan(s) \/ DropCachedStages(s)
                              \/ \E k \in Keys : BeginScan(s, k)
                              \/ \E f \in Files : ReadClip(s, f)
      PROVE FInv'
  BY <1>0, <1>3, EndingFresh, BeginScanFresh, ReadClipFresh
<1>4. ASSUME NEW c \in Conns, EndQuery(c) PROVE FInv'
  BY <1>0, <1>4, EndQueryFresh
<1>5. ASSUME NEW f \in Files, WriteFile(f) PROVE FInv'
  <2>1. Step({}, {})
    BY <1>1, <1>5, WriteFileKeeps DEF WriteFile
  <2> QED BY <1>0, <1>1, <1>5, <2>1, WriteFileFlows, OthersFresh
<1>6. ASSUME NEW d \in Dbs, NEW k \in Keys, Evict(d, k) PROVE FInv'
  BY <1>0, <1>1, <1>6, EvictKeeps, EvictFlows, OthersFresh
<1>7. CASE UNCHANGED vars
  <2>1. Step({}, {})
    BY <1>1, <1>7, WriteFileKeeps DEF vars
  <2>2. Onwards
    BY <1>1, <1>7, UnsettledFlows, TimeStands DEF Onwards, vars, RInv, TInv
  <2> QED BY <1>0, <2>1, <2>2, OthersFresh
<1> QED BY <1>2, <1>3, <1>4, <1>5, <1>6, <1>7 DEF Next

\* In every reachable state, a scan that Open did not warn of outdated layers reads
\* each file its stage is composed from as the file was at some moment of the scan's
\* query, or the file changed between being read and UsdLayerStamps recording its
\* stamp: ChangedLayers and MissingAssetsChanged leave out none of them, whatever the
\* other threads evict, release, open and put while they look.
THEOREM NoneSilentlyOld == Spec => []NoSilentlyOldContents
<1>1. Init => RInv /\ PInv /\ SInv /\ FInv
  BY RInvInit, PInvInit, SInvInit, FInvInit
<1>2. RInv /\ PInv /\ SInv /\ FInv /\ [Next]_vars => RInv' /\ PInv' /\ SInv' /\ FInv'
  BY RInvStep, PInvStep, SInvStep, FInvStep
<1>3. PInv /\ FInv => NoSilentlyOldContents
  <2> SUFFICES ASSUME PInv, FInv, NEW s \in Scans, op[s].pc = "using", ~stage[op[s].cur].stale,
                      NEW f \in Uses[op[s].key]
               PROVE  Current(Conn(s), op[s].cur, f) \/ RecordedLate(op[s].cur, f)
    BY DEF NoSilentlyOldContents
  <2>1. changed[s] = {}
    BY DEF PInv, Finding
  <2>2. Good(Conn(s), op[s].cur, f)
    BY <2>1 DEF FInv, FreshOf, CheckedFresh, Checks, Unchecked
  <2> QED BY <2>2 DEF Good
<1> QED BY <1>1, <1>2, <1>3, PTL DEF Spec

-----------------------------------------------------------------------------
(* The inductive invariant: files that change only between openings *)

UseFiles == UNION {Uses[k] : k \in Keys}

\* No stage is composed from a file that another reads with its values
ClipsApart == \A k \in Keys, l \in Keys : Clips[k] \cap Uses[l] = {}

\* Of the files that stages are composed from, a stage has its own
UsesOnly == \A i \in StageIds : \A f \in stage[i].loaded \cap UseFiles : f \in Uses[stage[i].key]

\* A layer without a stamp is of a stage that a call is composing
Unstamped(i) == \E f \in Uses[stage[i].key] \cap stage[i].loaded : layer[f].stamp = NoStamp
UnstampedOpening ==
    \A i \in StageIds : i \in Alive /\ Unstamped(i) =>
        \E s \in Scans : op[s].cur = i /\ Composing(op[s])

\* Stamps are of what was read
LayersTrue ==
    \A f \in UseFiles :
        /\ layer[f].version # 0 /\ layer[f].stamp = NoStamp => layer[f].version = file[f]
        /\ layer[f].version # 0 /\ layer[f].stamp # NoStamp => layer[f].stamp = layer[f].version
MissingTrueOf(i) ==
    \A f \in Files : stage[i].miss[f] # NoStamp =>
        f \in stage[i].loaded \/ stage[i].miss[f] = stage[i].missed[f]
MissingTrue == \A i \in StageIds : i \in Alive => MissingTrueOf(i)

\* ... and so are those a call has read; nothing is recorded yet of a stage in the
\* course of being composed
SeenTrue(s) ==
    /\ op[s].pc = "load" => /\ op[s].todo \subseteq Uses[op[s].key]
                           /\ \A f \in Files : stage[op[s].cur].miss[f] = NoStamp
    /\ op[s].pc = "compare" => op[s].seen = Stamp(op[s].at)
AbsentTrue(s) ==
    Composing(op[s]) => \A f \in Uses[op[s].key] : f \notin stage[op[s].cur].loaded =>
        (op[s].pc = "load" /\ f \in op[s].todo) \/ stage[op[s].cur].missed[f] = Stamp(f)
CallTrue(s) == SeenTrue(s) /\ AbsentTrue(s)

QInv ==
    /\ UsesOnly /\ UnstampedOpening /\ LayersTrue /\ MissingTrue
    /\ \A s \in Scans : CallTrue(s)

\* A step that only lets go of stages and layers
Drops ==
    /\ file' = file
    /\ \A i \in StageIds : \/ stage'[i].loaded = {}
                           \/ stage'[i].loaded = stage[i].loaded /\ stage'[i].key = stage[i].key
    /\ \A f \in Files : layer'[f] = layer[f] \/ layer'[f].version = 0

LEMMA SettledDrops ==
    ASSUME NEW st \in [StageIds -> StageType], NEW reg, NEW qry, NEW chg,
           Settle(st, layer, reg, qry, chg), file' = file,
           \A i \in StageIds : st[i].loaded = stage[i].loaded /\ st[i].key = stage[i].key
    PROVE  Drops
<1>1. ASSUME NEW i \in StageIds
      PROVE  \/ stage'[i].loaded = {}
             \/ stage'[i].loaded = stage[i].loaded /\ stage'[i].key = stage[i].key
  <2>1. stage'[i] = st[i] \/ i \notin Alive'
    BY SettleFacts
  <2>2. i \notin Alive' => stage'[i].loaded = {}
    BY SettleFacts
  <2> QED BY <2>1, <2>2
<1>2. ASSUME NEW f \in Files PROVE layer'[f] = layer[f] \/ layer'[f].version = 0
  <2>1. layer'[f] = layer[f] \/ layer'[f] = NoLayer
    BY SettleFacts
  <2> QED BY <2>1 DEF NoLayer
<1> QED BY <1>1, <1>2 DEF Drops

\* What a step makes of the stage the call had composed so far
Lets(u) ==
    Composing(op[u]) =>
        \/ op'[u].cur = op[u].cur /\ Composing(op'[u])
        \/ op[u].cur \notin Alive'
        \/ ~Unstamped(op[u].cur)

LEMMA UnstampedStays ==
    ASSUME NEW i, Kept(i), Unstamped(i)' PROVE Unstamped(i)
<1>1. /\ stage'[i].key = stage[i].key
      /\ stage'[i].loaded \cap Uses[stage[i].key] \subseteq stage[i].loaded
  BY DEF Kept, Stays, Contents
<1>2. PICK f \in Uses[stage[i].key] \cap stage'[i].loaded : layer'[f].stamp = NoStamp
  BY <1>1 DEF Unstamped
<1>3. f \in stage[i].loaded
  BY <1>1, <1>2
<1>4. layer[f].stamp = NoStamp
  BY <1>2, <1>3 DEF Kept, LayerStays
<1> QED BY <1>2, <1>3, <1>4 DEF Unstamped

LEMMA WaitingTrue ==
    ASSUME RInv, RInv', QInv, NEW A \in SUBSET Scans, NEW own \in SUBSET StageIds, Step(A, own),
           file' = file, NEW t \in Scans \ A
    PROVE  CallTrue(t)'
<1>1. CallTrue(t) /\ op'[t] = op[t] /\ Facts(t) /\ op[t].cur \notin own
  BY HasFacts DEF QInv, Step, Waiting, Mine
<1>2. ASSUME Composing(op[t]), NEW i, i = op[t].cur
      PROVE  \A f \in Uses[op[t].key] : f \notin stage'[i].loaded =>
               (op[t].pc = "load" /\ f \in op[t].todo) \/ stage'[i].missed[f] = Stamp(f)
  <2>1. i \in StageIds
    BY <1>1, <1>2 DEF Facts, OpType, Composing
  <2>2. Kept(i)
    BY <1>1, <1>2, <2>1, CurKept
  <2> QED BY <1>1, <1>2, <2>2 DEF Kept, Contents, CallTrue, AbsentTrue
<1>3. \A f : Stamp(f)' = Stamp(f)
  BY DEF Stamp
<1>4. AbsentTrue(t)'
  BY <1>1, <1>2, <1>3 DEF AbsentTrue
<1>5. ASSUME op[t].pc = "load" PROVE stage'[op[t].cur].miss = stage[op[t].cur].miss
  <2>1. op[t].cur \in StageIds
    BY <1>5, HasStage DEF Holding
  <2>2. Kept(op[t].cur)
    BY <1>1, <2>1, CurKept
  <2> QED BY <2>2 DEF Kept, Contents
<1>6. SeenTrue(t)'
  BY <1>1, <1>3, <1>5 DEF SeenTrue, CallTrue
<1> QED BY <1>4, <1>6 DEF CallTrue

LEMMA QStep ==
    ASSUME RInv, RInv', QInv, NEW A \in SUBSET Scans, NEW own \in SUBSET StageIds, Step(A, own),
           file' = file, UsesOnly', LayersTrue',
           \A u \in A : CallTrue(u)' /\ Lets(u),
           \A i \in own : i \in Alive' =>
             /\ MissingTrueOf(i)'
             /\ Unstamped(i)' => \E s \in A : op'[s].cur = i /\ Composing(op'[s])
    PROVE  QInv'
<1>1. \A t \in Scans : CallTrue(t)'
  BY WaitingTrue
<1>2. ASSUME NEW i \in StageIds, i \in Alive', i \notin own PROVE Kept(i)
  <2>1. i \in Alive
    <3>1. i \in Handles' => i \in Alive
      BY <1>2 DEF Step
    <3>2. i \in Entries' /\ ~stage'[i].released => i \in Alive
      <4> SUFFICES ASSUME i \in Entries', ~stage'[i].released PROVE i \in Alive
        OBVIOUS
      <4>1. i \in Entries
        BY <1>2 DEF Step
      <4>2. ~stage[i].released
        BY <4>1 DEF Step, Stays
      <4> QED BY <1>2, <4>1, <4>2 DEF Alive
    <3> QED BY <1>2, <3>1, <3>2, AliveNext
  <2> QED BY <1>2, <2>1, AliveKept
<1>3. ASSUME NEW i \in StageIds, i \in Alive' PROVE MissingTrueOf(i)'
  <2>1. CASE i \in own
    BY <1>3, <2>1
  <2>2. CASE i \notin own
    <3>1. Kept(i) /\ i \in Alive
      BY <1>2, <1>3, <2>2 DEF Kept
    <3>2. MissingTrueOf(i)
      BY <3>1 DEF QInv, MissingTrue
    <3> QED BY <3>1, <3>2 DEF MissingTrueOf, Kept, Contents
  <2> QED BY <2>1, <2>2
<1>4. ASSUME NEW i \in StageIds, i \in Alive', Unstamped(i)'
      PROVE  \E s \in Scans : op'[s].cur = i /\ Composing(op'[s])
  <2>1. CASE i \in own
    BY <1>4, <2>1
  <2>2. CASE i \notin own
    <3>1. Kept(i) /\ i \in Alive
      BY <1>2, <1>4, <2>2 DEF Kept
    <3>2. Unstamped(i)
      BY <1>4, <3>1, UnstampedStays
    <3>3. PICK s \in Scans : op[s].cur = i /\ Composing(op[s])
      BY <3>1, <3>2 DEF QInv, UnstampedOpening
    <3>4. CASE s \in A
      BY <1>4, <3>2, <3>3, <3>4 DEF Lets
    <3>5. CASE s \notin A
      BY <3>3, <3>5 DEF Step, Waiting
    <3> QED BY <3>4, <3>5
  <2> QED BY <2>1, <2>2
<1>5. MissingTrue' /\ UnstampedOpening'
  BY <1>3, <1>4 DEF MissingTrue, UnstampedOpening
<1> QED BY <1>1, <1>5 DEF QInv

\* After a step that lets go of stages
LEMMA DropsTrue ==
    ASSUME QInv, Drops, UseFiles \subseteq Files
    PROVE  UsesOnly' /\ LayersTrue'
<1>1. UsesOnly /\ LayersTrue
  BY DEF QInv
<1>2. UsesOnly'
  BY <1>1 DEF UsesOnly, Drops
<1>3. LayersTrue'
  BY <1>1 DEF LayersTrue, Drops
<1> QED BY <1>2, <1>3

LEMMA UseFilesAre == UseFiles \subseteq Files /\ \A k \in Keys : Uses[k] \subseteq UseFiles
BY ConfigAssumption DEF UseFiles

\* A call that leaves its stage, or keeps it with its stamps
Leaves(s) ==
    /\ op'[s].pc \notin {"load", "compare"}
    /\ \/ /\ op'[s].cur = op[s].cur /\ op'[s].key = op[s].key
          /\ Composing(op'[s]) => Composing(op[s])
          /\ op[s].pc = "load" => op[s].todo = {}
          /\ Composing(op[s]) =>
               Composing(op'[s]) \/ op[s].pc \notin {"load", "stat", "compare"}
       \/ /\ ~Composing(op'[s]) /\ op'[s].pc # "test"
          /\ Composing(op[s]) => op'[s].cur # op[s].cur

\* A composed stage that its call lets go of is freed
LEMMA ComposedFreed ==
    ASSUME RInv, NEW s \in Scans, Step({s}, {}), Composing(op[s]), op'[s].cur # op[s].cur,
           op'[s].pc # "test"
    PROVE  op[s].cur \notin Alive'
<1>1. /\ op[s].cur \in StageIds /\ op[s].cur \notin Entries
      /\ \A t \in Scans \ {s} : op[t].cur # op[s].cur
  BY OwnStage DEF RInv, UnseenOf
<1>2. op[s].cur \notin Entries'
  BY <1>1 DEF Step
<1>3. \A t \in Scans \ {s} : op'[t] = op[t]
  BY DEF Step, Waiting
<1>4. op[s].cur \notin Handles'
  <2> SUFFICES ASSUME NEW t \in Scans, op'[t].cur = op[s].cur \/ (op'[t].pc = "test" /\ op'[t].vic = op[s].cur)
               PROVE  FALSE
    BY HandlesNext
  <2>1. t # s /\ op'[t] = op[t]
    <3>1. t # s
      OBVIOUS
    <3> QED BY <1>3, <3>1
  <2>2. op[t].pc = "test" /\ op[t].vic = op[s].cur
    BY <1>1, <2>1
  <2>3. op[t].vic \in op[t].snap
    BY <2>2 DEF RInv, RefsOf, ShapeOf
  <2> QED BY <1>1, <2>2, <2>3, EntriesAre
<1> QED BY <1>2, <1>4, AliveNext

LEMMA QLeaves ==
    ASSUME RInv, RInv', SInv, QInv, NEW s \in Scans, Step({s}, {}), Drops, Leaves(s)
    PROVE  QInv'
<1>0. /\ Facts(s) /\ CallTrue(s) /\ LayersStamped(s) /\ {} \in SUBSET StageIds
      /\ {s} \in SUBSET Scans /\ file' = file /\ UsesOnly' /\ LayersTrue'
  BY HasFacts, DropsTrue, UseFilesAre DEF QInv, SInv, CheckedOf, Drops
<1>1. AbsentTrue(s)'
  <2> SUFFICES ASSUME Composing(op'[s]), NEW f \in Uses[op'[s].key], f \notin stage'[op'[s].cur].loaded
               PROVE  stage'[op'[s].cur].missed[f] = Stamp(f)'
    BY DEF AbsentTrue
  <2>1. /\ op'[s].cur = op[s].cur /\ op'[s].key = op[s].key /\ Composing(op[s])
        /\ op[s].pc = "load" => op[s].todo = {}
    BY DEF Leaves
  <2>2. op[s].cur \in StageIds
    BY <2>1, OwnStage
  <2>3. Kept(op[s].cur)
    BY <1>0, <2>1, <2>2, CurKept
  <2>4. f \notin stage[op[s].cur].loaded /\ stage'[op[s].cur].missed = stage[op[s].cur].missed
    BY <2>1, <2>3 DEF Kept, Contents
  <2>5. stage[op[s].cur].missed[f] = Stamp(f)
    BY <1>0, <2>1, <2>4 DEF CallTrue, AbsentTrue
  <2>6. Stamp(f)' = Stamp(f)
    BY <1>0 DEF Stamp
  <2> QED BY <2>1, <2>4, <2>5, <2>6
<1>2. CallTrue(s)'
  BY <1>1 DEF CallTrue, SeenTrue, Leaves
<1>3. Lets(s)
  <2> SUFFICES ASSUME Composing(op[s]), ~(op'[s].cur = op[s].cur /\ Composing(op'[s])), op[s].cur \in Alive'
               PROVE  ~Unstamped(op[s].cur)
    BY DEF Lets
  <2>1. op'[s].cur = op[s].cur /\ op[s].pc \notin {"load", "stat", "compare"}
    BY ComposedFreed DEF Leaves
  <2>2. stage[op[s].cur].key = op[s].key
    BY <1>0 DEF Facts, RefsOf, StageIs, Composing
  <2> QED BY <1>0, <2>1, <2>2 DEF LayersStamped, Unstamped
<1>4. \A u \in {s} : CallTrue(u)' /\ Lets(u)
  BY <1>2, <1>3
<1> QED BY <1>0, <1>4, QStep

LEMMA StandsDrops ==
    ASSUME file' = file, stage' = stage, layer' = layer
    PROVE  Drops
BY DEF Drops

LEMMA LetsGoDrops ==
    ASSUME TypeOK, NEW reg, NEW qry, NEW chg, Settle(stage, layer, reg, qry, chg), file' = file
    PROVE  Drops
<1>1. stage \in [StageIds -> StageType]
  BY DEF TypeOK
<1> QED BY <1>1, SettledDrops

LEMMA ReleasingDrops ==
    ASSUME TypeOK, NEW v \in StageIds, NEW reg, NEW qry, NEW chg,
           Settle([stage EXCEPT ![v].released = TRUE], layer, reg, qry, chg), file' = file
    PROVE  Drops
<1> DEFINE st == [stage EXCEPT ![v].released = TRUE]
<1>1. st \in [StageIds -> StageType] /\ stage \in [StageIds -> StageType]
  BY ReleaseUpdate DEF TypeOK
<1>2. \A i \in StageIds : st[i].loaded = stage[i].loaded /\ st[i].key = stage[i].key
  BY <1>1 DEF StageType
<1>3. Settle(st, layer, reg, qry, chg)
  OBVIOUS
<1> HIDE DEF st
<1> QED BY <1>1, <1>2, <1>3, SettledDrops

LEMMA ReturningDrops ==
    ASSUME TypeOK, NEW s \in Scans, NEW reg, Return(s, reg), file' = file
    PROVE  Drops
<1> DEFINE b == changed[s] # {}
           st == [stage EXCEPT ![op[s].cur].stale = b]
<1>1. b \in BOOLEAN /\ stage \in [StageIds -> StageType]
  BY DEF TypeOK
<1>2. \E qry, chg : Settle(st, layer, reg, qry, chg)
  BY DEF Return
<1> HIDE DEF b
<1>3. \A i \in StageIds : [stage[i] EXCEPT !.stale = b] \in StageType
  BY <1>1 DEF StageType
<1>4. st \in [StageIds -> StageType]
  BY <1>1, <1>3
<1>5. \A i \in StageIds : st[i].loaded = stage[i].loaded /\ st[i].key = stage[i].key
  BY <1>1 DEF StageType
<1> HIDE DEF st
<1> QED BY <1>2, <1>4, <1>5, SettledDrops

LEMMA QGoes ==
    ASSUME Known, QInv, NEW s \in Scans, Step({s}, {}), Drops, Leaves(s)
    PROVE  QInv'
BY QLeaves DEF Known

\* A call that goes on with its stage
LEMMA QHolds ==
    ASSUME Known, QInv, NEW s \in Scans, Step({s}, {}), Drops, HoldsStill(s),
           op'[s].pc \notin {"load", "compare", "add"}, op'[s].pass = op[s].pass,
           op[s].pc # "add", op[s].pc = "load" => op[s].todo = {}
    PROVE  QInv'
<1>1. Leaves(s)
  BY DEF Leaves, HoldsStill, Holds, Composing
<1> QED BY <1>1, QGoes

\* Steps of a call that finds nothing new
LEMMA HoldingTrue ==
    ASSUME Known, QInv, NEW s \in Scans,
           \/ Snapshot(s) \/ Loaded(s) \/ SweepTest(s) \/ Fits(s)
           \/ \E v \in StageIds : SweepTake(s, v) \/ EvictNext(s, v)
    PROVE  QInv'
<1>0. RInv /\ TInv /\ TInv' /\ TypeOK
  BY KnownHas
<1>1. Step({s}, {})
  BY <1>0, SnapshotKeeps, LoadedKeeps, SweepTestKeeps, FitsKeeps, SweepTakeKeeps, EvictNextKeeps
<1>2. CASE \/ Snapshot(s) \/ Loaded(s) \/ \E v \in StageIds : SweepTake(s, v) \/ EvictNext(s, v)
  <2>1. Drops
    BY <1>2, StandsDrops DEF Snapshot, Loaded, SweepTake, EvictNext, Unsettled
  <2>2. /\ HoldsStill(s) /\ op'[s].pass = op[s].pass
        /\ op[s].pc \in {"snapshot", "load", "sweep", "evicting"}
        /\ op'[s].pc \in {"sweep", "stat", "test", "get"}
        /\ op[s].pc = "load" => op[s].todo = {}
    BY <1>0, <1>2, SnapshotCall, LoadedCall, SweepTakeCall, EvictNextCall DEF At
  <2> QED BY <1>1, <2>1, <2>2, QHolds
<1>3. CASE SweepTest(s)
  <2>1. op[s].pc = "test" /\ op[s].vic \in StageIds
    BY <1>0, <1>3 DEF SweepTest, TInv, CallsOK, LocalsOf
  <2>2. Drops
    BY <1>0, <1>3, <2>1, LetsGoDrops, ReleasingDrops DEF SweepTest
  <2>3. HoldsStill(s) /\ op'[s].pass = op[s].pass /\ op'[s].pc \in {"sweep", "get"}
    BY <1>0, <1>3, SweepTestCall DEF At
  <2> QED BY <1>1, <2>1, <2>2, <2>3, QHolds
<1>4. CASE Fits(s)
  <2>1. Drops
    BY <1>0, <1>4, LetsGoDrops DEF Fits
  <2>2. /\ HoldsStill(s) /\ op'[s].pass = op[s].pass /\ op'[s].pc = "record"
        /\ op[s].pc = "evicting"
    BY <1>0, <1>4, FitsCall DEF At
  <2> QED BY <1>1, <2>1, <2>2, QHolds
<1> QED BY <1>2, <1>3, <1>4

\* A call that lets go of its stage, or of the calls' own
LEMMA EndingTrue ==
    ASSUME Known, QInv, NEW s \in Scans,
           \/ Refuse(s) \/ Dropped(s) \/ FinishScan(s)
           \/ \E k \in Keys : BeginScan(s, k)
    PROVE  QInv'
<1>0. RInv /\ TInv /\ TInv' /\ TypeOK /\ Facts(s)
  BY KnownHas
<1>1. Step({s}, {})
  BY <1>0, RefuseKeeps, DroppedKeeps, FinishScanKeeps, BeginScanKeeps
<1>2. CASE Refuse(s) \/ Dropped(s) \/ FinishScan(s)
  <2>1. Drops
    BY <1>0, <1>2, LetsGoDrops DEF Refuse, Fail, Dropped, FinishScan
  <2>2. op'[s].pc = "done" /\ op'[s].pass = "cached" /\ op'[s].cur = None
    BY <1>0, <1>2, FailCall, DroppedCall, FinishScanCall DEF At, Holds, Refuse
  <2>3. Leaves(s)
    BY <2>2 DEF Leaves, Composing
  <2> QED BY <1>1, <2>1, <2>3, QGoes
<1>3. ASSUME NEW k \in Keys, BeginScan(s, k) PROVE QInv'
  <2>1. Drops
    BY <1>3, StandsDrops DEF BeginScan, Unsettled
  <2>2. /\ op[s].pc = "idle" /\ op'[s].pc \in {"using", "lookup"} /\ op'[s].pass = "cached"
    BY <1>0, <1>3, BeginScanCall DEF At
  <2>3. ~Composing(op[s]) /\ ~Composing(op'[s])
    BY <1>0, <2>2 DEF Facts, ShapeOf, Composing
  <2>4. Leaves(s)
    BY <2>2, <2>3 DEF Leaves
  <2> QED BY <1>1, <2>1, <2>4, QGoes
<1> QED BY <1>2, <1>3

LEMMA ReturningTrue ==
    ASSUME Known, QInv, NEW s \in Scans, Verified(s) \/ DoesNotFit(s) \/ Add(s)
    PROVE  QInv'
<1>0. RInv /\ TInv /\ TInv' /\ TypeOK
  BY KnownHas
<1>1. PICK reg : Return(s, reg)
  BY DEF Verified, DoesNotFit, Add
<1>2. Step({s}, {}) /\ file' = file /\ op[s].pc \in {"verify", "evicting", "add"}
  BY <1>0, VerifiedKeeps, DoesNotFitKeeps, AddKeeps DEF Verified, DoesNotFit, Add
<1>3. Drops
  BY <1>0, <1>1, <1>2, ReturningDrops
<1>4. op'[s].pc = "using" /\ op'[s].pass = "cached" /\ op'[s].cur = op[s].cur /\ op'[s].key = op[s].key
  BY <1>0, <1>1, ReturnCall DEF At, Holds
<1>5. Leaves(s)
  BY <1>2, <1>4 DEF Leaves, Composing
<1> QED BY <1>2, <1>3, <1>5, QGoes

\* ... a call that begins the next part of Open
LEMMA PartsTrue ==
    ASSUME Known, QInv, NEW s \in Scans,
           Lookup(s) \/ GetHandle(s) \/ Release(s) \/ DropCachedStages(s) \/ MakeRoom(s)
    PROVE  QInv'
<1>0. RInv /\ TInv /\ TInv' /\ TypeOK /\ Facts(s)
  BY KnownHas
<1>1. Step({s}, {})
  BY <1>0, LookupKeeps, GetHandleKeeps, ReleaseKeeps, DropCachedStagesKeeps, MakeRoomKeeps
<1>2. CASE Lookup(s) \/ GetHandle(s) \/ DropCachedStages(s)
  <2>1. Drops
    BY <1>2, StandsDrops DEF Lookup, GetHandle, DropCachedStages, Unsettled
  <2>2. op[s].pc \in {"lookup", "gethandle", "idle"}
    BY <1>2 DEF Lookup, GetHandle, DropCachedStages, QueryIdle
  <2>3. op[s].cur = None
    BY <1>0, <2>2 DEF Facts, ShapeOf
  <2>4. CASE Lookup(s)
    <3>1. op'[s].pc \in {"open", "gethandle"} /\ op'[s].cur = None
      BY <1>0, <2>3, <2>4, LookupCall DEF At, HoldsStill, Holds
    <3>2. Leaves(s)
      BY <2>3, <3>1 DEF Leaves, Composing
    <3> QED BY <1>1, <2>1, <3>2, QGoes
  <2>5. CASE DropCachedStages(s)
    <3>1. op'[s].pc = "evicting" /\ HoldsStill(s)
      BY <1>0, <2>5, DropCachedStagesCall DEF At
    <3> QED BY <1>1, <2>1, <2>3, <3>1, QGoes DEF Leaves, Composing, HoldsStill, Holds
  <2>6. CASE GetHandle(s)
    <3>1. op[s].pass = "cached" /\ op[s].pc = "gethandle"
      BY <1>0, <2>6 DEF GetHandle, Facts, LocalsOf
    <3>2. op'[s].pc \in {"release", "stat"} /\ op'[s].pass = "cached"
      BY <1>0, <2>6, <3>1, GetHandleCall DEF At
    <3>3. Leaves(s)
      BY <2>3, <3>2 DEF Leaves, Composing
    <3> QED BY <1>1, <2>1, <3>3, QGoes
  <2> QED BY <1>2, <2>4, <2>5, <2>6
<1>3. CASE Release(s)
  <2>1. op[s].pc = "release" /\ op[s].ent \in StageIds
    BY <1>0, <1>3 DEF Release, Facts, LocalsOf
  <2>2. Drops
    BY <1>0, <1>3, <2>1, ReleasingDrops DEF Release
  <2>3. op'[s].pc = "get" /\ op[s].cur = None /\ HoldsStill(s)
    BY <1>0, <1>3, <2>1, ReleaseCall DEF At, Facts, ShapeOf
  <2> QED BY <1>1, <2>2, <2>3, QGoes DEF Leaves, Composing, HoldsStill, Holds
<1>4. CASE MakeRoom(s)
  <2>1. Drops
    BY <1>4, StandsDrops DEF MakeRoom, Unsettled
  <2>2. /\ op[s].pc = "verify" /\ op[s].pass \in {"first", "again"} /\ op'[s].pc = "evicting"
        /\ op'[s].pass = "room" /\ HoldsStill(s)
    <3>1. op[s].pc = "verify" /\ op[s].pass # "cached"
      BY <1>4 DEF MakeRoom, Cacheable
    <3> QED BY <1>0, <1>4, <3>1, MakeRoomCall DEF At, Facts, ShapeOf, OpType, Passes
  <2>3. Leaves(s)
    BY <2>2 DEF Leaves, Composing, HoldsStill, Holds
  <2> QED BY <1>1, <2>1, <2>3, QGoes
<1> QED BY <1>2, <1>3, <1>4

\* ... a call that looked at the layers or files of its stage
LEMMA CheckingTrue ==
    ASSUME Known, QInv, NEW s \in Scans,
           Compared(s) \/ \E f \in Files : CheckMissing(s, f)
    PROVE  QInv'
<1>0. RInv /\ TInv /\ TInv' /\ TypeOK /\ Facts(s)
  BY KnownHas
<1>1. Step({s}, {})
  BY <1>0, ComparedKeeps, CheckMissingKeeps
<1>2. Drops
  BY <1>0, LetsGoDrops DEF Compared, CheckMissing
<1>3. CASE HoldsStill(s) /\ op'[s].pc \in {"verify", "missing", "snapshot"}
           /\ op[s].pc \in {"stat", "missing"} /\ op'[s].pass = op[s].pass
  BY <1>1, <1>2, <1>3, QHolds
<1>4. CASE op[s].pass = "cached" /\ op'[s].pass = "cached" /\ op'[s].pc \in {"snapshot", "release"}
  <2>1. Leaves(s)
    BY <1>4 DEF Leaves, Composing
  <2> QED BY <1>1, <1>2, <2>1, QGoes
<1>5. CASE Compared(s)
  BY <1>0, <1>3, <1>4, <1>5, ComparedCall DEF At
<1>6. ASSUME NEW f \in Files, CheckMissing(s, f) PROVE QInv'
  <2>1. op[s].pc = "missing" /\ op[s].pass = "cached"
    BY <1>0, <1>6 DEF CheckMissing, Facts, LocalsOf
  <2> QED BY <1>0, <1>3, <1>4, <1>6, <2>1, CheckMissingCall DEF At
<1> QED BY <1>5, <1>6

\* ... a call that lets go of outdated stages
LEMMA RemovingTrue ==
    ASSUME Known, QInv, NEW s \in Scans, SweepDone(s) \/ RemoveGet(s) \/ RemoveDelete(s)
    PROVE  QInv'
<1>0. RInv /\ TInv /\ TInv' /\ TypeOK /\ Facts(s)
  BY KnownHas
<1>1. Step({s}, {})
  BY <1>0, SweepDoneKeeps, RemoveGetKeeps, RemoveDeleteKeeps
<1>2. Drops
  BY <1>0, LetsGoDrops DEF SweepDone, RemoveGet, RemoveDelete
<1>3. op[s].pc \in {"sweep", "get", "delete"}
  BY DEF SweepDone, RemoveGet, RemoveDelete
<1>4. CASE HoldsStill(s) /\ op'[s].pc \in {"delete", "sweep", "evicting", "release"} /\ op'[s].pass = op[s].pass
  BY <1>1, <1>2, <1>3, <1>4, QHolds
<1>5. CASE op[s].pass = "first" /\ op[s].ent # None /\ op'[s].pc = "open"
           /\ Holds(s, op[s].key, op[s].cur, None)
  <2>1. op[s].cur = None
    BY <1>0, <1>5 DEF Facts, ShapeOf
  <2>2. Leaves(s)
    BY <1>5, <2>1 DEF Leaves, Holds, Composing
  <2> QED BY <1>1, <1>2, <2>2, QGoes
<1>6. CASE op'[s].pc = "open" /\ op'[s].cur = None
  <2>1. Leaves(s)
    BY <1>6 DEF Leaves, Composing
  <2> QED BY <1>1, <1>2, <2>1, QGoes
<1>7. CASE SweepDone(s)
  BY <1>0, <1>4, <1>6, <1>7, SweepDoneCall DEF At, Holds
<1>8. CASE RemoveGet(s)
  BY <1>0, <1>4, <1>5, <1>8, RemoveGetCall DEF At
<1>9. CASE RemoveDelete(s)
  BY <1>0, <1>4, <1>5, <1>9, RemoveDeleteCall DEF At
<1> QED BY <1>7, <1>8, <1>9

LEMMA ReadStampTrue ==
    ASSUME Known, QInv, NEW s \in Scans, NEW f \in Files, ReadStamp(s, f)
    PROVE  QInv'
<1>0. RInv /\ TInv /\ TInv' /\ Facts(s) /\ {s} \in SUBSET Scans /\ {} \in SUBSET StageIds
  BY KnownHas
<1>1. Step({s}, {}) /\ stage' = stage /\ layer' = layer /\ file' = file
  BY <1>0, ReadStampKeeps DEF ReadStamp, Unsettled
<1>2. /\ op[s].pc = "stat" /\ op'[s].pc = "compare" /\ op'[s].pass = op[s].pass
      /\ op'[s].cur = op[s].cur /\ op'[s].key = op[s].key
      /\ op'[s].at = f /\ op'[s].seen = Stamp(f)
  BY <1>0, ReadStampCall DEF At, HoldsStill, Holds
<1>3. UsesOnly' /\ LayersTrue' /\ CallTrue(s)
  BY <1>1, StandsDrops, DropsTrue, UseFilesAre DEF QInv
<1>4. \A g : Stamp(g)' = Stamp(g)
  BY <1>1 DEF Stamp
<1>5. SeenTrue(s)'
  BY <1>2, <1>4 DEF SeenTrue
<1>6. AbsentTrue(s)'
  BY <1>1, <1>2, <1>3, <1>4 DEF CallTrue, AbsentTrue, Composing
<1>7. Lets(s)
  BY <1>2 DEF Lets, Composing
<1>8. \A u \in {s} : CallTrue(u)' /\ Lets(u)
  BY <1>5, <1>6, <1>7 DEF CallTrue
<1> QED BY <1>0, <1>1, <1>3, <1>8, QStep DEF Known

\* UsdLayerStamps::Changed records the stamp of the file as it was read
LEMMA CompareTrue ==
    ASSUME Known, QInv, NEW s \in Scans, Compare(s)
    PROVE  QInv'
<1>0. /\ RInv /\ SInv /\ TInv /\ TInv' /\ TypeOK /\ StampsOK /\ Facts(s)
      /\ {s} \in SUBSET Scans /\ {} \in SUBSET StageIds
  BY KnownHas
<1>1. Step({s}, {}) /\ stage' = stage /\ file' = file
  BY <1>0, CompareKeeps DEF Compare
<1>2. /\ op[s].pc = "compare" /\ op'[s].pc = "stat" /\ op'[s].pass = op[s].pass
      /\ op'[s].cur = op[s].cur /\ op'[s].key = op[s].key
  BY <1>0, CompareCall DEF At, HoldsStill, Holds
<1>3. /\ UsesOnly /\ LayersTrue /\ CallTrue(s) /\ op[s].at \in Files
      /\ \A f \in Files : layer'[f].version = layer[f].version
  BY <1>0, CompareLayers DEF QInv
<1>4. op[s].seen = StampAt(op[s].at, file[op[s].at])
  BY <1>2, <1>3 DEF CallTrue, SeenTrue, Stamp
<1>5. ASSUME NEW f \in UseFiles
      PROVE  /\ layer'[f].version # 0 /\ layer'[f].stamp = NoStamp => layer'[f].version = file[f]
             /\ layer'[f].version # 0 /\ layer'[f].stamp # NoStamp => layer'[f].stamp = layer'[f].version
  <2>0. f \in Files
    BY UseFilesAre
  <2>1. CASE layer'[f] = layer[f]
    BY <1>3, <2>1 DEF LayersTrue
  <2>2. CASE layer'[f] # layer[f]
    <3>1. /\ f = op[s].at /\ layer[f].stamp = NoStamp /\ layer'[f].stamp = op[s].seen
          /\ layer'[f].version = layer[f].version
      <4>1. layer[op[s].at].stamp = NoStamp /\ layer' = [layer EXCEPT ![op[s].at].stamp = op[s].seen]
        BY <2>2 DEF Compare
      <4>2. layer[op[s].at] \in [version : 0 .. MaxVersion, stamp : Stamps \cup {NoStamp}]
        BY <1>0, <1>3 DEF TypeOK
      <4>3. f = op[s].at /\ layer'[f] = [layer[f] EXCEPT !.stamp = op[s].seen]
        BY <1>0, <1>3, <2>0, <2>2, <4>1 DEF TypeOK
      <4> QED BY <4>1, <4>2, <4>3
    <3>2. CASE layer[f].version # 0
      <4>1. layer[f].version = file[f]
        BY <1>3, <3>1, <3>2 DEF LayersTrue
      <4>2. <<f, layer[f].version>> \notin Lost
        BY <1>0, <2>0, <3>2 DEF StampsOK
      <4>3. op[s].seen = file[f]
        BY <1>4, <3>1, <4>1, <4>2 DEF StampAt
      <4>4. file[f] # NoStamp
        BY <1>0, <2>0, BoundAssumption DEF TypeOK, Version, NoStamp
      <4> QED BY <3>1, <4>1, <4>3, <4>4
    <3> QED BY <3>1, <3>2
  <2> QED BY <2>1, <2>2
<1>6. LayersTrue'
  BY <1>1, <1>5 DEF LayersTrue
<1>7. UsesOnly'
  BY <1>1, <1>3 DEF UsesOnly
<1>8. \A g : Stamp(g)' = Stamp(g)
  BY <1>1 DEF Stamp
<1>9. CallTrue(s)'
  BY <1>1, <1>2, <1>3, <1>8 DEF CallTrue, AbsentTrue, SeenTrue, Composing
<1>10. Lets(s)
  BY <1>2 DEF Lets, Composing
<1>11. \A u \in {s} : CallTrue(u)' /\ Lets(u)
  BY <1>9, <1>10
<1> QED BY <1>0, <1>1, <1>6, <1>7, <1>11, QStep DEF Known

LEMMA OpenStageTrue ==
    ASSUME Known, QInv, NEW s \in Scans, OpenStage(s)
    PROVE  QInv'
<1>0. /\ RInv /\ TInv /\ TInv' /\ TypeOK /\ Facts(s) /\ {s} \in SUBSET Scans
  BY KnownHas
<1>1. /\ op'[s].cur \in StageIds /\ Step({s}, {op'[s].cur}) /\ {op'[s].cur} \in SUBSET StageIds
      /\ file' = file /\ layer' = layer
  BY <1>0, OpenStageKeeps DEF OpenStage
<1>2. /\ op[s].pc = "open" /\ op'[s].pc = "load" /\ op'[s].key = op[s].key
      /\ op'[s].todo = Uses[op[s].key] /\ op'[s].pass = op[s].pass
      /\ stage'[op'[s].cur] = NewStage(op[s].key, Db(s))
      /\ \A j \in StageIds \ {op'[s].cur} : stage'[j] = stage[j]
  BY <1>0, OpenStageCall DEF At, Holds, LeftTo
<1>3. UsesOnly /\ LayersTrue /\ op[s].cur = None /\ op[s].pass \in {"first", "again"}
  BY <1>0, <1>2 DEF QInv, Facts, ShapeOf
<1>4. stage'[op'[s].cur].loaded = {} /\ \A f \in Files : stage'[op'[s].cur].miss[f] = NoStamp
  BY <1>2 DEF NewStage, StageOf
<1>5. UsesOnly'
  <2> SUFFICES ASSUME NEW i \in StageIds, NEW f \in stage'[i].loaded \cap UseFiles
               PROVE  f \in Uses[stage'[i].key]
    BY DEF UsesOnly
  <2>1. i # op'[s].cur
    BY <1>4
  <2>2. stage'[i] = stage[i]
    BY <1>2, <2>1
  <2> QED BY <1>3, <2>2 DEF UsesOnly
<1>6. LayersTrue'
  BY <1>1, <1>3 DEF LayersTrue
<1>7. SeenTrue(s)' /\ AbsentTrue(s)'
  BY <1>2, <1>4 DEF SeenTrue, AbsentTrue
<1>8. Lets(s)
  BY <1>3 DEF Lets, Composing
<1>9. ASSUME NEW i \in {op'[s].cur}
      PROVE  MissingTrueOf(i)' /\ ~Unstamped(i)'
  BY <1>4, <1>9 DEF MissingTrueOf, Unstamped
<1>10. \A u \in {s} : CallTrue(u)' /\ Lets(u)
  BY <1>7, <1>8 DEF CallTrue
<1>11. \A i \in {op'[s].cur} : i \in Alive' =>
         /\ MissingTrueOf(i)'
         /\ Unstamped(i)' => \E t \in {s} : op'[t].cur = i /\ Composing(op'[t])
  BY <1>9
<1> QED BY <1>0, <1>1, <1>5, <1>6, <1>10, <1>11, QStep DEF Known

\* Put: all the layers of the stage have stamps
LEMMA PutTrue ==
    ASSUME Known, QInv, NEW s \in Scans, Put(s)
    PROVE  QInv'
<1>0. /\ RInv /\ SInv /\ TInv /\ TInv' /\ TypeOK /\ Facts(s) /\ {s} \in SUBSET Scans
  BY KnownHas
<1>1. Step({s}, {op[s].cur})
  BY <1>0, PutKeeps
<1>2. /\ op[s].pc = "record" /\ op'[s].pc = "add" /\ op'[s].pass = op[s].pass
      /\ op'[s].cur = op[s].cur
  BY <1>0, PutCall DEF At, Holds
<1>3. /\ op[s].cur \in StageIds /\ op[s].cur # None /\ op[s].cur \in Alive /\ op[s].pass = "room"
      /\ {op[s].cur} \in SUBSET StageIds
  BY <1>0, <1>2, HasStage DEF Holding, Facts, ShapeOf
<1>4. op[s].cur \in Handles' /\ op[s].cur \in Alive'
  BY <1>2, <1>3, AliveNext, HandlesNext
<1>5. /\ Drops /\ stage'[op[s].cur] = stage[op[s].cur]
      /\ \A f \in stage[op[s].cur].loaded \cap Files : layer'[f] = layer[f]
  <2>1. stage \in [StageIds -> StageType] /\ Settle(stage, layer, registry, query, changed)
    BY <1>0 DEF TypeOK, Put
  <2> QED BY <1>0, <1>4, <2>1, SettleFacts, LetsGoDrops DEF Put
<1>6. UsesOnly' /\ LayersTrue' /\ MissingTrueOf(op[s].cur) /\ file' = file
  BY <1>3, <1>5, DropsTrue, UseFilesAre DEF QInv, MissingTrue, Drops
<1>7. Composing(op[s]) /\ ~Composing(op'[s])
  BY <1>2, <1>3 DEF Composing
<1>8. ~Unstamped(op[s].cur)
  <2>1. stage[op[s].cur].key = op[s].key /\ LayersStamped(s)
    BY <1>0, <1>3 DEF Facts, RefsOf, StageIs, SInv, CheckedOf
  <2> QED BY <1>2, <1>7, <2>1 DEF LayersStamped, Unstamped
<1>9. ASSUME NEW i, i = op[s].cur PROVE MissingTrueOf(i)' /\ ~Unstamped(i)'
  <2>0. Uses[stage[i].key] \subseteq Files
    <3>1. op[s].key \in Keys /\ stage[i].key = op[s].key
      BY <1>0, <1>3, <1>9 DEF Facts, RefsOf, StageIs, ShapeOf
    <3> QED BY <3>1, ConfigAssumption
  <2>1. MissingTrueOf(i)'
    BY <1>5, <1>6, <1>9 DEF MissingTrueOf
  <2>2. ~Unstamped(i)'
    BY <1>5, <1>8, <1>9, <2>0 DEF Unstamped
  <2> QED BY <2>1, <2>2
<1>10. CallTrue(s)' /\ Lets(s)
  BY <1>2, <1>7, <1>8 DEF CallTrue, SeenTrue, AbsentTrue, Lets
<1>11. \A u \in {s} : CallTrue(u)' /\ Lets(u)
  BY <1>10
<1>12. \A i \in {op[s].cur} : i \in Alive' =>
         /\ MissingTrueOf(i)'
         /\ Unstamped(i)' => \E t \in {s} : op'[t].cur = i /\ Composing(op'[t])
  BY <1>9
<1> QED BY <1>0, <1>1, <1>3, <1>6, <1>11, <1>12, QStep DEF Known

\* One more file is composed: a layer just read is as the file is, or the file
\* could not be read as it is
LEMMA LoadFileTrue ==
    ASSUME Known, QInv, NEW s \in Scans, NEW f \in Files, LoadFile(s, f)
    PROVE  QInv'
<1>0. /\ RInv /\ SInv /\ TInv /\ TInv' /\ TypeOK /\ Facts(s) /\ {s} \in SUBSET Scans
      /\ {} \in SUBSET StageIds
  BY KnownHas
<1>1. /\ op[s].pc = "load" /\ f \in op[s].todo /\ op[s].cur \in StageIds /\ op[s].cur # None
      /\ op[s].pass \in {"first", "again"} /\ op[s].cur \in Alive
  BY <1>0, HasStage DEF LoadFile, Holding, Facts, ShapeOf
<1>2. /\ UsesOnly /\ LayersTrue /\ CallTrue(s) /\ MissingTrueOf(op[s].cur)
      /\ f \in Uses[op[s].key] /\ stage[op[s].cur].key = op[s].key /\ file' = file
      /\ \A g \in Files : stage[op[s].cur].miss[g] = NoStamp
      /\ op[s].key \in Keys /\ Uses[op[s].key] \subseteq Files
  <2>1. stage[op[s].cur].key = op[s].key /\ op[s].key \in Keys
    BY <1>0, <1>1 DEF Facts, RefsOf, StageIs, ShapeOf
  <2> QED BY <1>1, <2>1, UseFilesAre DEF QInv, MissingTrue, CallTrue, SeenTrue, LoadFile
<1>3. CASE Fail(s)
  <2>1. Drops
    BY <1>0, <1>2, <1>3, LetsGoDrops DEF Fail
  <2>2. Step({s}, {}) /\ op'[s].pc = "done" /\ op'[s].pass = "cached" /\ op'[s].cur = None
    BY <1>0, <1>3, FailKeeps, FailCall DEF LoadFile, At, Holds
  <2>3. Leaves(s)
    BY <1>1, <2>2 DEF Leaves, Composing
  <2> QED BY <2>1, <2>2, <2>3, QGoes
<1>4. ASSUME At(s, "load", op[s].pass), HoldsStill(s), LeftTo(s, op[s].todo \ {f}),
             NEW i, i = op[s].cur,
             \A j \in StageIds \ {i} : stage'[j] = stage[j],
             stage'[i].key = stage[i].key, stage'[i].miss = stage[i].miss,
             \A g \in Files : g # f => stage'[i].missed[g] = stage[i].missed[g],
             \/ stage'[i].loaded = stage[i].loaded \cup {f}
             \/ stage'[i].loaded = stage[i].loaded /\ stage'[i].missed[f] = Stamp(f),
             \A g \in Files : \/ layer'[g] = layer[g]
                              \/ layer'[g].version = file[g] /\ layer'[g].stamp = NoStamp
      PROVE  QInv'
  <2>1. op'[s].pc = "load" /\ op'[s].cur = i /\ op'[s].key = op[s].key /\ op'[s].todo = op[s].todo \ {f}
    BY <1>4 DEF At, HoldsStill, Holds, LeftTo
  <2>2. Composing(op'[s]) /\ Composing(op[s])
    BY <1>1, <1>4, <2>1 DEF Composing, At
  <2>3. UsesOnly'
    <3> SUFFICES ASSUME NEW j \in StageIds, NEW g \in stage'[j].loaded \cap UseFiles
                 PROVE  g \in Uses[stage'[j].key]
      BY DEF UsesOnly
    <3>1. CASE j # i
      BY <1>2, <1>4, <3>1 DEF UsesOnly
    <3>2. CASE j = i
      BY <1>2, <1>4, <3>2 DEF UsesOnly
    <3> QED BY <3>1, <3>2
  <2>4. LayersTrue'
    <3> SUFFICES ASSUME NEW g \in UseFiles
                 PROVE  /\ layer'[g].version # 0 /\ layer'[g].stamp = NoStamp => layer'[g].version = file[g]
                        /\ layer'[g].version # 0 /\ layer'[g].stamp # NoStamp => layer'[g].stamp = layer'[g].version
      BY <1>2 DEF LayersTrue
    <3>1. layer'[g] = layer[g] \/ (layer'[g].version = file[g] /\ layer'[g].stamp = NoStamp)
      BY <1>4, UseFilesAre
    <3> QED BY <1>2, <3>1 DEF LayersTrue
  <2>5. ASSUME NEW g \in Uses[op[s].key], g \notin stage'[i].loaded
        PROVE  (g \in op[s].todo /\ g # f) \/ stage'[i].missed[g] = Stamp(g)
    <3>1. g \notin stage[i].loaded /\ g \in Files
      BY <1>2, <1>4, <2>5
    <3>2. g \in op[s].todo \/ stage[i].missed[g] = Stamp(g)
      BY <1>2, <1>4, <2>2, <2>5, <3>1 DEF CallTrue, AbsentTrue
    <3> QED BY <1>4, <2>5, <3>1, <3>2
  <2>6. \A g : Stamp(g)' = Stamp(g)
    BY <1>2 DEF Stamp
  <2>7. AbsentTrue(s)'
    BY <2>1, <2>5, <2>6 DEF AbsentTrue
  <2>8. SeenTrue(s)'
    <3>1. op'[s].todo \subseteq Uses[op'[s].key]
      BY <1>1, <1>2, <2>1 DEF SeenTrue, CallTrue
    <3>2. \A g \in Files : stage'[op'[s].cur].miss[g] = NoStamp
      BY <1>2, <1>4, <2>1
    <3> QED BY <2>1, <3>1, <3>2 DEF SeenTrue
  <2>9. MissingTrueOf(i)'
    BY <1>2, <1>4 DEF MissingTrueOf
  <2>10. \A u \in {s} : CallTrue(u)' /\ Lets(u)
    BY <1>4, <2>1, <2>2, <2>7, <2>8 DEF CallTrue, Lets
  <2>11. \A own \in {{}, {i}} : \A j \in own : j \in Alive' =>
           /\ MissingTrueOf(j)'
           /\ Unstamped(j)' => \E t \in {s} : op'[t].cur = j /\ Composing(op'[t])
    BY <2>1, <2>2, <2>9
  <2>12. PICK own \in {{}, {i}} : Step({s}, own)
    BY <1>0, <1>4, LoadFileKeeps
  <2>13. own \in SUBSET StageIds
    BY <1>1, <1>4
  <2>14. \A j \in own : j \in Alive' =>
           /\ MissingTrueOf(j)'
           /\ Unstamped(j)' => \E t \in {s} : op'[t].cur = j /\ Composing(op'[t])
    BY <2>11
  <2> QED BY <1>0, <1>2, <2>3, <2>4, <2>10, <2>12, <2>13, <2>14, QStep DEF Known
<1>5. CASE /\ At(s, op[s].pc, op[s].pass) /\ HoldsStill(s) /\ LeftTo(s, op[s].todo \ {f})
           /\ Compose(s, f)
  <2>1. ASSUME NEW i, i = op[s].cur
        PROVE  /\ \A j \in StageIds \ {i} : stage'[j] = stage[j]
               /\ stage'[i].key = stage[i].key /\ stage'[i].miss = stage[i].miss
               /\ stage'[i].missed = stage[i].missed
               /\ stage'[i].loaded = stage[i].loaded \cup {f}
               /\ \A g \in Files : \/ layer'[g] = layer[g]
                                   \/ layer'[g].version = file[g] /\ layer'[g].stamp = NoStamp
    BY <1>0, <1>1, <1>5, <2>1, ComposeFacts
  <2> QED BY <1>1, <1>4, <1>5, <2>1
<1>6. CASE /\ At(s, op[s].pc, op[s].pass) /\ HoldsStill(s) /\ LeftTo(s, op[s].todo \ {f})
           /\ stage' = [stage EXCEPT ![op[s].cur].missed[f] = Stamp(f)] /\ layer' = layer
  <2>1. ASSUME NEW i, i = op[s].cur
        PROVE  /\ \A j \in StageIds \ {i} : stage'[j] = stage[j]
               /\ stage'[i].key = stage[i].key /\ stage'[i].miss = stage[i].miss
               /\ \A g \in Files : g # f => stage'[i].missed[g] = stage[i].missed[g]
               /\ stage'[i].loaded = stage[i].loaded /\ stage'[i].missed[f] = Stamp(f)
    BY <1>0, <1>1, <1>6, <2>1 DEF TypeOK, StageType
  <2> QED BY <1>1, <1>4, <1>6, <2>1
<1> QED BY <1>0, <1>3, <1>5, <1>6, LoadFileCall

\* What is recorded of a missing file is what the file was when it was missed
LEMMA RecordMissingTrue ==
    ASSUME Known, QInv, NEW s \in Scans, NEW f \in Files, RecordMissing(s, f)
    PROVE  QInv'
<1>0. /\ RInv /\ SInv /\ TInv /\ TInv' /\ TypeOK /\ Facts(s) /\ {s} \in SUBSET Scans /\ MissingLeft(s)
  BY KnownHas DEF SInv, CheckedOf
<1>1. Step({s}, {op[s].cur}) /\ file' = file /\ layer' = layer
  BY <1>0, RecordMissingKeeps DEF RecordMissing
<1>2. /\ op[s].pc = "record" /\ f \in op[s].todo /\ op'[s].pc = "record" /\ op'[s].pass = op[s].pass
      /\ op'[s].cur = op[s].cur /\ op'[s].key = op[s].key
  BY <1>0, RecordMissingCall DEF At, HoldsStill, Holds
<1>3. /\ op[s].cur \in StageIds /\ op[s].cur # None /\ op[s].cur \in Alive /\ op[s].pass = "room"
      /\ {op[s].cur} \in SUBSET StageIds
  BY <1>0, <1>2, HasStage DEF Holding, Facts, ShapeOf
<1>4. /\ UsesOnly /\ LayersTrue /\ CallTrue(s) /\ MissingTrueOf(op[s].cur)
  BY <1>3 DEF QInv, MissingTrue
<1>5. Composing(op[s]) /\ Composing(op'[s])
  BY <1>2, <1>3 DEF Composing
<1>6. stage[op[s].cur].missed[f] = Stamp(f)
  <2>1. f \in Uses[op[s].key] /\ f \notin stage[op[s].cur].loaded
    BY <1>0, <1>2 DEF MissingLeft
  <2> QED BY <1>2, <1>4, <1>5, <2>1 DEF CallTrue, AbsentTrue
<1>7. ASSUME NEW i, i = op[s].cur
      PROVE  /\ \A j \in StageIds \ {i} : stage'[j] = stage[j]
             /\ stage'[i].key = stage[i].key /\ stage'[i].missed = stage[i].missed
             /\ stage'[i].loaded = stage[i].loaded
             /\ \A g \in Files : stage'[i].miss[g] = IF g = f THEN Stamp(f) ELSE stage[i].miss[g]
  <2>1. stage' = [stage EXCEPT ![i].miss[f] = Stamp(f)]
    BY <1>7 DEF RecordMissing
  <2> QED BY <1>0, <1>3, <1>7, <2>1 DEF TypeOK, StageType
<1>8. ASSUME NEW i, i = op[s].cur PROVE MissingTrueOf(i)'
  BY <1>4, <1>6, <1>7, <1>8 DEF MissingTrueOf
<1>9. UsesOnly'
  <2> SUFFICES ASSUME NEW j \in StageIds PROVE stage'[j].loaded = stage[j].loaded /\ stage'[j].key = stage[j].key
    BY <1>4 DEF UsesOnly
  <2> QED BY <1>7
<1>10. LayersTrue'
  BY <1>1, <1>4 DEF LayersTrue
<1>11. \A g : Stamp(g)' = Stamp(g)
  BY <1>1 DEF Stamp
<1>12. ASSUME NEW i, i = op[s].cur
       PROVE  \A g \in Uses[op[s].key] : g \notin stage'[i].loaded => stage'[i].missed[g] = Stamp(g)
  BY <1>2, <1>4, <1>5, <1>7, <1>12 DEF CallTrue, AbsentTrue
<1>13. CallTrue(s)'
  BY <1>2, <1>11, <1>12 DEF CallTrue, SeenTrue, AbsentTrue
<1>14. \A u \in {s} : CallTrue(u)' /\ Lets(u)
  BY <1>2, <1>5, <1>13 DEF Lets
<1>15. \A i \in {op[s].cur} : i \in Alive' =>
         /\ MissingTrueOf(i)'
         /\ Unstamped(i)' => \E t \in {s} : op'[t].cur = i /\ Composing(op'[t])
  BY <1>2, <1>5, <1>8
<1> QED BY <1>0, <1>1, <1>3, <1>9, <1>10, <1>14, <1>15, QStep DEF Known

\* A clip is of no stage
LEMMA ReadClipTrue ==
    ASSUME ClipsApart, Known, QInv, NEW s \in Scans, NEW f \in Files, ReadClip(s, f)
    PROVE  QInv'
<1>0. /\ RInv /\ TInv /\ TInv' /\ TypeOK /\ Facts(s) /\ {s} \in SUBSET Scans
      /\ {} \in SUBSET StageIds
  BY KnownHas
<1>1. Step({s}, {}) /\ file' = file /\ op' = op /\ op[s].pc = "using" /\ Compose(s, f)
  BY <1>0, ReadClipKeeps DEF ReadClip
<1>2. /\ op[s].cur \in StageIds /\ UsesOnly /\ LayersTrue /\ op[s].pass = "cached"
  BY <1>0, <1>1, HasStage DEF Holding, QInv, Facts, ShapeOf
<1>3. f \notin UseFiles
  <2>1. f \in Clips[op[s].key] /\ op[s].key \in Keys
    BY <1>0, <1>1 DEF ReadClip, Facts, LocalsOf
  <2> QED BY <2>1 DEF ClipsApart, UseFiles
<1>4. \A i \in StageIds : /\ stage'[i].loaded \cap UseFiles \subseteq stage[i].loaded
                          /\ stage'[i].key = stage[i].key
  <2>1. ASSUME NEW i \in StageIds, NEW j, j = op[s].cur
        PROVE  /\ stage'[i].loaded \cap UseFiles \subseteq stage[i].loaded
               /\ stage'[i].key = stage[i].key
    <3>1. stage'[i] = stage[i] \/ (i = j /\ stage'[j].key = stage[j].key /\ stage'[j].loaded = stage[j].loaded \cup {f})
      BY <1>0, <1>1, <1>2, <2>1, ComposeFacts
    <3> QED BY <1>3, <3>1
  <2> QED BY <2>1
<1>5. UsesOnly'
  BY <1>2, <1>4 DEF UsesOnly
<1>6. \A g \in UseFiles : layer'[g] = layer[g]
  BY <1>0, <1>1, <1>2, <1>3, ComposeFacts, UseFilesAre
<1>7. LayersTrue'
  BY <1>1, <1>2, <1>6 DEF LayersTrue
<1>8. ~Composing(op[s]) /\ op'[s] = op[s]
  BY <1>1, <1>2 DEF Composing
<1>9. CallTrue(s)' /\ Lets(s)
  BY <1>1, <1>8 DEF CallTrue, SeenTrue, AbsentTrue, Lets
<1>10. \A u \in {s} : CallTrue(u)' /\ Lets(u)
  BY <1>9
<1> QED BY <1>0, <1>1, <1>5, <1>7, <1>10, QStep DEF Known

LEMMA EndQueryTrue ==
    ASSUME Known, QInv, NEW c \in Conns, EndQuery(c)
    PROVE  QInv'
<1>0. RInv /\ TInv' /\ TypeOK /\ {} \in SUBSET StageIds
  BY DEF Known, RInv, TInv
<1>1. Step(CallsOn(c), {}) /\ CallsOn(c) \in SUBSET Scans /\ file' = file
  BY <1>0, EndQueryKeeps, EndQueryCalls DEF EndQuery
<1>2. Drops
  BY <1>0, <1>1, EndQueryCalls, LetsGoDrops
<1>3. UsesOnly' /\ LayersTrue'
  BY <1>2, DropsTrue, UseFilesAre
<1>4. ASSUME NEW u \in CallsOn(c) PROVE CallTrue(u)' /\ Lets(u)
  <2>1. op'[u].pc = "idle" /\ op'[u].cur = None /\ op[u].cur = None
    BY <1>0, <1>4, EndQueryCalls
  <2> QED BY <2>1 DEF CallTrue, SeenTrue, AbsentTrue, Lets, Composing
<1> QED BY <1>0, <1>1, <1>3, <1>4, QStep DEF Known

LEMMA OthersTrue ==
    ASSUME Known, QInv, Step({}, {}), Drops
    PROVE  QInv'
<1>1. {} \in SUBSET Scans /\ {} \in SUBSET StageIds /\ \A u \in {} : CallTrue(u)' /\ Lets(u)
  OBVIOUS
<1>2. UsesOnly' /\ LayersTrue' /\ file' = file
  BY DropsTrue, UseFilesAre DEF Drops
<1> QED BY <1>1, <1>2, QStep DEF Known

\* When a file changes, no call is composing a stage or about to record a stamp
LEMMA WriteFileTrue ==
    ASSUME QuietWrites, Known, QInv, NEW f \in Files, WriteFile(f)
    PROVE  QInv'
<1>0. RInv /\ TInv' /\ TypeOK
  BY DEF Known, RInv, TInv
<1>1. \A s \in Scans : op[s].pc \notin Opening
  BY DEF WriteFile
<1>2. ASSUME NEW s \in Scans
      PROVE  op[s].pc \notin {"load", "compare"} /\ ~Composing(op[s])
  <2>1. op[s].pc \in {"idle", "using", "done"} /\ op[s].pass = "cached"
    <3>1. Facts(s) /\ op[s].pc \in Steps
      BY <1>0, HasFacts DEF Facts, OpType
    <3> QED BY <1>1, <3>1 DEF Opening, Facts, ShapeOf
  <2> QED BY <2>1 DEF Composing
<1>3. layer' = layer /\ stage' = stage /\ op' = op /\ cache' = cache
  BY DEF WriteFile
<1>4. Alive' = Alive
  BY <1>3 DEF Alive, Handles, Entries
<1>5. UsesOnly' /\ MissingTrue' /\ UnstampedOpening'
  BY <1>3, <1>4 DEF QInv, UsesOnly, MissingTrue, MissingTrueOf, UnstampedOpening, Unstamped, Composing
<1>6. \A s \in Scans : CallTrue(s)'
  BY <1>2, <1>3 DEF CallTrue, SeenTrue, AbsentTrue, Composing
<1>7. ASSUME NEW g \in UseFiles, layer[g].version # 0 PROVE layer[g].stamp # NoStamp
  <2>1. PICK i \in Alive : g \in stage[i].loaded
    BY <1>0, <1>7, UseFilesAre DEF RInv, LayersOK
  <2>2. i \in StageIds /\ g \in Uses[stage[i].key]
    BY <1>7, <2>1 DEF QInv, UsesOnly, Alive
  <2>3. ~Unstamped(i)
    BY <1>2, <2>1, <2>2 DEF QInv, UnstampedOpening
  <2> QED BY <2>1, <2>2, <2>3 DEF Unstamped
<1>8. LayersTrue'
  BY <1>3, <1>7 DEF QInv, LayersTrue
<1> QED BY <1>5, <1>6, <1>8 DEF QInv

LEMMA QInvInit == Init => QInv
<1> SUFFICES ASSUME Init PROVE QInv
  OBVIOUS
<1>1. \A s \in Scans : op[s].pc = "idle" /\ op[s].cur = None
  BY DEF Init, NoCall, CallAt
<1>2. \A s \in Scans : CallTrue(s)
  BY <1>1 DEF CallTrue, SeenTrue, AbsentTrue, Composing
<1>3. \A i \in StageIds : stage[i].loaded = {} /\ \A f \in Files : stage[i].miss[f] = NoStamp
  BY DEF Init, FreeStage, NewStage, StageOf
<1>4. UsesOnly /\ UnstampedOpening /\ MissingTrue
  BY <1>3 DEF UsesOnly, UnstampedOpening, Unstamped, MissingTrue, MissingTrueOf
<1>5. LayersTrue
  BY UseFilesAre DEF Init, NoLayer, LayersTrue
<1> QED BY <1>2, <1>4, <1>5 DEF QInv

LEMMA QInvStep ==
    ASSUME QuietWrites, ClipsApart
    PROVE  RInv /\ PInv /\ SInv /\ FInv /\ QInv /\ [Next]_vars => QInv'
<1> SUFFICES ASSUME RInv, PInv, SInv, FInv, QInv, [Next]_vars PROVE QInv'
  OBVIOUS
<1>0. Known
  BY RInvStep, PInvStep, EnduresStep DEF Known
<1>1. RInv /\ TInv' /\ TypeOK
  BY <1>0 DEF Known, RInv, TInv
<1>2. ASSUME NEW s \in Scans, Work(s) PROVE QInv'
  BY <1>0, <1>2, HoldingTrue, EndingTrue, ReturningTrue, PartsTrue, CheckingTrue, RemovingTrue,
     ReadStampTrue, CompareTrue, OpenStageTrue, LoadFileTrue, RecordMissingTrue, PutTrue DEF Work
<1>3. ASSUME NEW s \in Scans, \/ FinishScan(s) \/ DropCachedStages(s)
                              \/ \E k \in Keys : BeginScan(s, k)
                              \/ \E f \in Files : ReadClip(s, f)
      PROVE QInv'
  BY <1>0, <1>3, EndingTrue, PartsTrue, ReadClipTrue
<1>4. ASSUME NEW c \in Conns, EndQuery(c) PROVE QInv'
  BY <1>0, <1>4, EndQueryTrue
<1>5. ASSUME NEW f \in Files, WriteFile(f) PROVE QInv'
  BY <1>0, <1>5, WriteFileTrue
<1>6. ASSUME NEW d \in Dbs, NEW k \in Keys, Evict(d, k) PROVE QInv'
  <2>1. Drops /\ Step({}, {})
    BY <1>1, <1>6, LetsGoDrops, EvictKeeps DEF Evict
  <2> QED BY <1>0, <2>1, OthersTrue
<1>7. CASE UNCHANGED vars
  <2>1. Drops /\ Step({}, {})
    BY <1>1, <1>7, StandsDrops, WriteFileKeeps DEF vars
  <2> QED BY <1>0, <2>1, OthersTrue
<1> QED BY <1>2, <1>3, <1>4, <1>5, <1>6, <1>7 DEF Next

\* When files change only between the calls to Open, a scan that was not warned of
\* outdated layers reads each file its stage is composed from as the file was at some
\* moment of its query, with no exception: a stamp that UsdLayerStamps or
\* FindMissingAssets records late is then still that of what was read.  (It has to be
\* known that no stage is composed from a file that another reads as a value clip: such
\* a layer waits for its stamp until a later query compares it.)
THEOREM NoneOldWhenQuiet ==
    ASSUME QuietWrites, ClipsApart
    PROVE  Spec => []NoSilentlyOldContentsWhenQuiet
<1>1. Init => RInv /\ PInv /\ SInv /\ FInv /\ QInv
  BY RInvInit, PInvInit, SInvInit, FInvInit, QInvInit
<1>2. RInv /\ PInv /\ SInv /\ FInv /\ QInv /\ [Next]_vars
        => RInv' /\ PInv' /\ SInv' /\ FInv' /\ QInv'
  BY RInvStep, PInvStep, SInvStep, FInvStep, QInvStep
<1>3. RInv /\ PInv /\ FInv /\ QInv => NoSilentlyOldContentsWhenQuiet
  <2> SUFFICES ASSUME RInv, PInv, FInv, QInv, NEW s \in Scans, op[s].pc = "using",
                      ~stage[op[s].cur].stale, NEW f \in Uses[op[s].key]
               PROVE  Current(Conn(s), op[s].cur, f)
    BY DEF NoSilentlyOldContentsWhenQuiet
  <2>1. changed[s] = {}
    BY DEF PInv, Finding
  <2>2. Good(Conn(s), op[s].cur, f)
    BY <2>1 DEF FInv, FreshOf, CheckedFresh, Checks, Unchecked
  <2>3. op[s].cur \in Alive /\ op[s].cur \in StageIds /\ f \in UseFiles /\ f \in Files
    <3>1. op[s].key \in Keys
      BY HasFacts DEF Facts, LocalsOf
    <3> QED BY <3>1, HasStage, UseFilesAre DEF Holding
  <2>4. ~RecordedLate(op[s].cur, f)
    <3>1. CASE f \in stage[op[s].cur].loaded
      <4>1. layer[f].version # 0
        BY <2>3, <3>1 DEF RInv, LayersOK
      <4>2. layer[f].stamp \in {NoStamp, layer[f].version}
        BY <2>3, <4>1 DEF QInv, LayersTrue
      <4> QED BY <3>1, <4>2 DEF RecordedLate, Shown
    <3>2. CASE f \notin stage[op[s].cur].loaded
      <4>1. stage[op[s].cur].miss[f] \in {NoStamp, stage[op[s].cur].missed[f]}
        BY <2>3, <3>2 DEF QInv, MissingTrue, MissingTrueOf
      <4> QED BY <3>2, <4>1 DEF RecordedLate, Shown
    <3> QED BY <3>1, <3>2
  <2> QED BY <2>2, <2>4 DEF Good
<1> QED BY <1>1, <1>2, <1>3, PTL DEF Spec
=============================================================================
