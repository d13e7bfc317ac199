------------------------ MODULE UsdStageCacheProofs ------------------------
(***************************************************************************)
(* Theorems about UsdStageCache, for every value of its constants: types,  *)
(* the references between calls, caches and queries, and outdated stages.  *)
(* A step is described by what it leaves to the calls that do not take it  *)
(* (Step), and by the end that drops references (Settled).  For each       *)
(* action there is a lemma on what the call does (...Call), one that it    *)
(* keeps the references in order (...Keeps), and one on outdated layers    *)
(* (...Marks).                                                             *)
(***************************************************************************)
EXTENDS UsdStageCache, TLAPS

TInv == TypeOK /\ CallsOK

\* What Settle leaves is typed if what it is given is.
LEMMA SettleType ==
    ASSUME NEW st \in [StageIds -> StageType],
           NEW lay \in [Files -> [version : 0 .. MaxVersion, stamp : Stamps \cup {NoStamp}]],
           NEW reg \in SUBSET StageIds,
           NEW qry \in [Conns -> [Keys -> StageIds \cup {None}]],
           NEW chg \in [Scans -> SUBSET Files],
           Settle(st, lay, reg, qry, chg)
    PROVE  /\ stage' \in [StageIds -> StageType]
           /\ layer' \in [Files -> [version : 0 .. MaxVersion, stamp : Stamps \cup {NoStamp}]]
           /\ registry' \in SUBSET StageIds
           /\ query' \in [Conns -> [Keys -> StageIds \cup {None}]]
           /\ changed' \in [Scans -> SUBSET Files]
<1>1. NoLayer \in [version : 0 .. MaxVersion, stamp : Stamps \cup {NoStamp}]
  BY BoundAssumption DEF NoLayer, Stamps, NoStamp
<1>2. \A k \in Keys \cup {None}, d \in Dbs \cup {None} :
        NewStage(k, d) \in StageType /\ ReleasedStage(k, d) \in StageType
  BY DEF NewStage, ReleasedStage, StageOf, StageType
<1>3. FreeStage \in StageType
  BY <1>2 DEF FreeStage
<1>4. \A i \in StageIds : st[i].key \in Keys \cup {None} /\ st[i].db \in Dbs \cup {None}
  BY DEF StageType
<1>5. stage' \in [StageIds -> StageType]
  BY <1>2, <1>3, <1>4 DEF Settle
<1>6. layer' \in [Files -> [version : 0 .. MaxVersion, stamp : Stamps \cup {NoStamp}]]
  BY <1>1 DEF Settle
<1>7. query' \in [Conns -> [Keys -> StageIds \cup {None}]]
  BY DEF Settle
<1>8. registry' \in SUBSET StageIds /\ changed' \in [Scans -> SUBSET Files]
  BY DEF Settle, Unexpired
<1> QED BY <1>5, <1>6, <1>7, <1>8

\* A step of scan s that makes its call c keeps the calls typed if c is.
LEMMA CallType ==
    ASSUME op \in [Scans -> OpType], NEW s \in Scans, NEW c \in OpType, Becomes(s, c)
    PROVE  /\ op' \in [Scans -> OpType]
           /\ op'[s] = c
           /\ \A t \in Scans \ {s} : op'[t] = op[t]
BY DEF Becomes

LEMMA CallStep ==
    ASSUME TInv, NEW s \in Scans, NEW c \in OpType, LocalsOf(c), Becomes(s, c)
    PROVE  op' \in [Scans -> OpType] /\ CallsOK'
<1>1. \A t \in Scans : LocalsOf(op[t])'
  BY CallType DEF TInv, TypeOK, CallsOK, LocalsOf
<1> QED BY <1>1, CallType DEF TInv, TypeOK, CallsOK

\* The same, for a step that drops no reference, and for one that ends in Settle.
LEMMA QuietStep ==
    ASSUME TInv, NEW s \in Scans, NEW c \in OpType, LocalsOf(c), Becomes(s, c),
           Unsettled, UNCHANGED <<file, cache, start>>
    PROVE  TInv'
BY CallStep DEF TInv, TypeOK, Unsettled

LayerType == [version : 0 .. MaxVersion, stamp : Stamps \cup {NoStamp}]

LEMMA SettledStep ==
    ASSUME TInv, NEW s \in Scans, NEW c \in OpType, LocalsOf(c), Becomes(s, c),
           NEW st \in [StageIds -> StageType], NEW lay \in [Files -> LayerType],
           NEW reg \in SUBSET StageIds,
           NEW qry \in [Conns -> [Keys -> StageIds \cup {None}]],
           NEW chg \in [Scans -> SUBSET Files],
           Settle(st, lay, reg, qry, chg), UNCHANGED <<file, cache, start>>
    PROVE  TInv'
BY CallStep, SettleType DEF TInv, TypeOK, LayerType

\* A stage with another stamp, or another flag, is still a stage.
LEMMA StageUpdate ==
    ASSUME NEW r \in StageType, NEW f \in Files, NEW x \in Stamps, NEW b \in BOOLEAN
    PROVE  /\ [r EXCEPT !.missed[f] = x] \in StageType
           /\ [r EXCEPT !.miss[f] = x] \in StageType
           /\ [r EXCEPT !.stale = b] \in StageType
           /\ [r EXCEPT !.released = b] \in StageType
<1>1. /\ [r.missed EXCEPT ![f] = x] \in [Files -> Stamps \cup {NoStamp}]
      /\ [r.miss EXCEPT ![f] = x] \in [Files -> Stamps \cup {NoStamp}]
  BY DEF StageType
<1>2. /\ [r EXCEPT !.missed = [r.missed EXCEPT ![f] = x]] \in StageType
      /\ [r EXCEPT !.miss = [r.miss EXCEPT ![f] = x]] \in StageType
  BY <1>1 DEF StageType
<1>3. [r EXCEPT !.stale = b] \in StageType /\ [r EXCEPT !.released = b] \in StageType
  BY DEF StageType
<1> QED BY <1>2, <1>3

LEMMA ReleaseUpdate ==
    ASSUME stage \in [StageIds -> StageType], NEW i \in StageIds
    PROVE  [stage EXCEPT ![i].released = TRUE] \in [StageIds -> StageType]
<1>1. stage[i] \in StageType
  OBVIOUS
<1>2. [stage[i] EXCEPT !.released = TRUE] \in StageType
  BY <1>1 DEF StageType
<1>3. [stage EXCEPT ![i] = [stage[i] EXCEPT !.released = TRUE]] \in [StageIds -> StageType]
  BY <1>2
<1> QED BY <1>3

\* USD composes a file, a call fails, and a call returns: what these leave is typed.
LEMMA ComposeType ==
    ASSUME TInv, NEW s \in Scans, NEW f \in Files, Compose(s, f)
    PROVE  stage' \in [StageIds -> StageType] /\ layer' \in [Files -> LayerType]
<1>1. stage' \in [StageIds -> StageType]
  <2>1. stage \in [StageIds -> StageType] /\ stage' = [stage EXCEPT ![op[s].cur].loaded = @ \cup {f}]
    BY DEF Compose, TInv, TypeOK
  <2>2. ASSUME op[s].cur \in StageIds
        PROVE  [stage[op[s].cur] EXCEPT !.loaded = @ \cup {f}] \in StageType
    BY <2>1, <2>2, ZenonT(40) DEF StageType
  <2> QED BY <2>1, <2>2
<1>2. [version |-> file[f], stamp |-> NoStamp] \in LayerType
  BY BoundAssumption DEF TInv, TypeOK, Version, LayerType
<1> QED BY <1>1, <1>2 DEF Compose, TInv, TypeOK, LayerType

LEMMA FailType ==
    ASSUME TInv, NEW s \in Scans, Fail(s), UNCHANGED <<file, cache, start>>
    PROVE  TInv'
<1>1. NoCall("done") \in OpType /\ LocalsOf(NoCall("done"))
  BY DEF NoCall, CallAt, OpType, Steps, Passes, LocalsOf, Holding
<1>2. [changed EXCEPT ![s] = {}] \in [Scans -> SUBSET Files]
  BY DEF TInv, TypeOK
<1> QED BY <1>1, <1>2, SettledStep DEF Fail, TInv, TypeOK, LayerType

LEMMA ReturnType ==
    ASSUME TInv, NEW s \in Scans, op[s].key \in Keys, op[s].cur \in StageIds,
           NEW reg \in SUBSET StageIds, Return(s, reg), UNCHANGED <<file, cache, start>>
    PROVE  TInv'
<1>1. LET c == CallAt("using", op[s].key, op[s].cur) IN c \in OpType /\ LocalsOf(c)
  BY DEF CallAt, OpType, Steps, Passes, LocalsOf, Holding
<1>2. [changed EXCEPT ![s] = {}] \in [Scans -> SUBSET Files]
  BY DEF TInv, TypeOK
<1>3. [query EXCEPT ![Conn(s)][op[s].key] = op[s].cur]
        \in [Conns -> [Keys -> StageIds \cup {None}]]
  BY DEF TInv, TypeOK
<1>4. [stage[op[s].cur] EXCEPT !.stale = (changed[s] # {})] \in StageType
  <2> DEFINE b == changed[s] # {}
  <2>1. b \in BOOLEAN /\ stage[op[s].cur] \in StageType
    BY DEF TInv, TypeOK
  <2> HIDE DEF b
  <2>2. [stage[op[s].cur] EXCEPT !.stale = b] \in StageType
    BY <2>1 DEF StageType
  <2> QED BY <2>2 DEF b
<1>5. [stage EXCEPT ![op[s].cur].stale = changed[s] # {}] \in [StageIds -> StageType]
  BY <1>4 DEF TInv, TypeOK
<1> QED BY <1>1, <1>2, <1>3, <1>5, SettledStep DEF Return, TInv, TypeOK, LayerType

LEMMA TInvInit == Init => TInv
<1> SUFFICES ASSUME Init PROVE TypeOK /\ CallsOK
  BY DEF TInv
<1>1. NoLayer \in [version : 0 .. MaxVersion, stamp : Stamps \cup {NoStamp}]
  BY BoundAssumption DEF NoLayer, Stamps, NoStamp
<1>2. FreeStage \in StageType
  BY DEF FreeStage, NewStage, StageOf, StageType
<1>3. NoCall("idle") \in OpType /\ LocalsOf(NoCall("idle"))
  BY DEF NoCall, CallAt, OpType, Steps, Passes, LocalsOf, Holding
<1>4. 1 \in Version
  BY BoundAssumption DEF Version
<1>5. TypeOK
  BY <1>1, <1>2, <1>3, <1>4 DEF Init, TypeOK
<1>6. CallsOK
  BY <1>3 DEF Init, CallsOK
<1> QED BY <1>5, <1>6

LEMMA StampType == ASSUME TypeOK, NEW f \in Files PROVE Stamp(f) \in Stamps
BY BoundAssumption DEF TypeOK, Stamp, StampAt, Stamps, Version

LEMMA TInvStep == TInv /\ [Next]_vars => TInv'
<1> SUFFICES ASSUME TInv, [Next]_vars PROVE TInv'
  OBVIOUS
<1>a. \A s \in Scans : op[s] \in OpType /\ LocalsOf(op[s])
  BY DEF TInv, TypeOK, CallsOK
<1>b. \A s \in Scans : Conn(s) \in Conns /\ Db(s) \in Dbs
  BY ConfigAssumption DEF Conn, Db
<1>c. \A f \in Files : Stamp(f) \in Stamps
  BY StampType DEF TInv
<1>d. /\ stage \in [StageIds -> StageType] /\ layer \in [Files -> LayerType]
      /\ registry \in SUBSET StageIds
      /\ query \in [Conns -> [Keys -> StageIds \cup {None}]]
      /\ changed \in [Scans -> SUBSET Files]
      /\ cache \in [Dbs -> [Keys -> StageIds \cup {None}]]
  BY DEF TInv, TypeOK, LayerType
<1>1. ASSUME NEW s \in Scans, NEW k \in Keys, BeginScan(s, k) PROVE TInv'
  <2>0. op[s] \in OpType /\ LocalsOf(op[s])
    BY <1>a
  <2>1. PICK c \in OpType : LocalsOf(c) /\ Becomes(s, c)
    <3>1. CallAt("lookup", k, None) \in OpType /\ LocalsOf(CallAt("lookup", k, None))
      BY DEF CallAt, OpType, Steps, Passes, LocalsOf, Holding
    <3>2. ASSUME query[Conn(s)][k] # None 
          PROVE  LET c == CallAt("using", k, query[Conn(s)][k])
                 IN  c \in OpType /\ LocalsOf(c)
      BY <1>b, <1>d, <3>2 DEF CallAt, OpType, Steps, Passes, LocalsOf, Holding
    <3> QED BY <1>1, <3>1, <3>2 DEF BeginScan
  <2>2. start' \in [Conns -> [Files -> Version]]
    BY <1>1 DEF TInv, TypeOK, BeginScan
  <2> QED BY <1>1, <2>1, <2>2, CallStep DEF TInv, TypeOK, BeginScan, Unsettled
<1>2. ASSUME NEW s \in Scans, Lookup(s) PROVE TInv'
  <2>0. op[s] \in OpType /\ LocalsOf(op[s])
    BY <1>a
  <2> DEFINE e == cache[Db(s)][op[s].key]
  <2>1. op[s].pc = "lookup" /\ e \in StageIds \cup {None}
    BY <2>0, <1>b, <1>d, <1>2 DEF Lookup, LocalsOf, OpType, Passes
  <2> HIDE DEF e
  <2>2. PICK c \in OpType : LocalsOf(c) /\ Becomes(s, c)
    <3>1. LET c == [op[s] EXCEPT !.pc = "open", !.pass = "first", !.caching = TRUE]
          IN  c \in OpType /\ LocalsOf(c)
      BY <2>0, <2>1, ZenonT(40) DEF OpType, Steps, Passes, LocalsOf, Holding
    <3>2. LET c == [op[s] EXCEPT !.pc = "open", !.pass = "first"]
          IN  c \in OpType /\ LocalsOf(c)
      BY <2>0, <2>1, ZenonT(40) DEF OpType, Steps, Passes, LocalsOf, Holding
    <3>3. e # None =>
            LET c == [op[s] EXCEPT !.pc = "gethandle", !.caching = TRUE, !.ent = e]
            IN  c \in OpType /\ LocalsOf(c)
      BY <2>0, <2>1, ZenonT(40) DEF OpType, Steps, Passes, LocalsOf, Holding
    <3> QED BY <1>2, <3>1, <3>2, <3>3 DEF Lookup, e
  <2> QED BY <1>2, <2>2, QuietStep DEF Lookup
<1>3. ASSUME NEW s \in Scans, GetHandle(s) PROVE TInv'
  <2>0. op[s] \in OpType /\ LocalsOf(op[s])
    BY <1>a
  <2>1. op[s].pc = "gethandle" /\ op[s].ent \in StageIds /\ stage[op[s].ent].loaded \in SUBSET Files
    BY <2>0, <1>d, <1>3 DEF GetHandle, LocalsOf, StageType
  <2>2. LET c == [op[s] EXCEPT !.pc = "release"] IN c \in OpType /\ LocalsOf(c)
    BY <2>0, <2>1, SMTT(30) DEF OpType, Steps, Passes, LocalsOf, Holding
  <2>3. LET c == [op[s] EXCEPT !.pc = "stat", !.cur = op[s].ent,
                               !.todo = stage[op[s].ent].loaded]
        IN  c \in OpType /\ LocalsOf(c)
    BY <2>0, <2>1, ZenonT(40) DEF OpType, Steps, Passes, LocalsOf, Holding
  <2> QED BY <1>3, <2>2, <2>3, QuietStep DEF GetHandle, Goto
<1>4. ASSUME NEW s \in Scans, NEW f \in Files, ReadStamp(s, f) PROVE TInv'
  <2>0. op[s] \in OpType /\ LocalsOf(op[s])
    BY <1>a
  <2>1. LET c == [op[s] EXCEPT !.pc = "compare", !.at = f, !.seen = Stamp(f)]
        IN  c \in OpType /\ LocalsOf(c)
    BY <2>0, <1>c, <1>4, ZenonT(40) DEF ReadStamp, OpType, Steps, Passes, LocalsOf, Holding
  <2> QED BY <1>4, <2>1, QuietStep DEF ReadStamp
<1>5. ASSUME NEW s \in Scans, Compare(s) PROVE TInv'
  <2>0. op[s] \in OpType /\ LocalsOf(op[s])
    BY <1>a
  <2>1. LET c == [op[s] EXCEPT !.pc = "stat", !.todo = @ \ {op[s].at},
                               !.at = None, !.seen = NoStamp]
        IN  c \in OpType /\ LocalsOf(c)
    BY <2>0, <1>5, ZenonT(40) DEF Compare, OpType, Steps, Passes, LocalsOf, Holding
  <2>2. op' \in [Scans -> OpType] /\ CallsOK'
    BY <1>5, <2>1, CallStep DEF Compare
  <2>3. op[s].at \in Files /\ op[s].seen \in Stamps
    BY <2>0, <1>5 DEF Compare, LocalsOf
  <2>4. layer' \in [Files -> LayerType]
    BY <1>d, <1>5, <2>3, SMTT(30) DEF Compare, LayerType
  <2>5. changed' \in [Scans -> SUBSET Files]
    BY <1>d, <1>5, <2>3 DEF Compare
  <2> QED BY <1>5, <2>2, <2>4, <2>5 DEF Compare, TInv, TypeOK, LayerType
<1>6. ASSUME NEW s \in Scans, Compared(s) PROVE TInv'
  <2>0. op[s] \in OpType /\ LocalsOf(op[s])
    BY <1>a
  <2>1. ASSUME NEW rest \in SUBSET Files, rest # {}, op[s].pass = "cached"
        PROVE  LET c == [op[s] EXCEPT !.pc = "missing", !.todo = rest]
               IN  c \in OpType /\ LocalsOf(c)
    BY <2>0, <2>1, <1>6, ZenonT(40) DEF Compared, OpType, Steps, Passes, LocalsOf, Holding
  <2>2. LET c == [op[s] EXCEPT !.pc = "verify", !.todo = {}]
        IN  c \in OpType /\ LocalsOf(c)
    BY <2>0, <1>6, ZenonT(40) DEF Compared, OpType, Steps, Passes, LocalsOf, Holding
  <2>3. LET c == [op[s] EXCEPT !.pc = "snapshot", !.cur = None]
        IN  c \in OpType /\ LocalsOf(c)
    BY <2>0, <1>6, ZenonT(40) DEF Compared, OpType, Steps, Passes, LocalsOf, Holding
  <2>4. LET c == [op[s] EXCEPT !.pc = "snapshot"]
        IN  c \in OpType /\ LocalsOf(c)
    BY <2>0, <1>6, SMTT(30) DEF Compared, OpType, Steps, Passes, LocalsOf, Holding
  <2>5. LET c == [op[s] EXCEPT !.pc = "verify"]
        IN  c \in OpType /\ LocalsOf(c)
    BY <2>0, <1>6, SMTT(30) DEF Compared, OpType, Steps, Passes, LocalsOf, Holding
  <2>6. PICK c \in OpType : LocalsOf(c) /\ Becomes(s, c)
    <3>1. Missing(op[s].cur) \in SUBSET Files
      BY DEF Missing
    <3> QED BY <1>6, <2>1, <2>2, <2>3, <2>4, <2>5, <3>1 DEF Compared, CheckNext, Goto
  <2> QED BY <1>6, <1>d, <2>6, SettledStep DEF Compared
<1>7. ASSUME NEW s \in Scans, NEW f \in Files, CheckMissing(s, f) PROVE TInv'
  <2>0. op[s] \in OpType /\ LocalsOf(op[s])
    BY <1>a
  <2>1. ASSUME NEW rest \in SUBSET Files, rest # {}
        PROVE  LET c == [op[s] EXCEPT !.pc = "missing", !.todo = rest]
               IN  c \in OpType /\ LocalsOf(c)
    BY <2>0, <2>1, <1>7, ZenonT(40) DEF CheckMissing, OpType, Steps, Passes, LocalsOf, Holding
  <2>2. LET c == [op[s] EXCEPT !.pc = "verify", !.todo = {}]
        IN  c \in OpType /\ LocalsOf(c)
    BY <2>0, <1>7, ZenonT(40) DEF CheckMissing, OpType, Steps, Passes, LocalsOf, Holding
  <2>3. LET c == [op[s] EXCEPT !.pc = "release", !.todo = {}, !.cur = None]
        IN  c \in OpType /\ LocalsOf(c)
    BY <2>0, <1>7, ZenonT(40) DEF CheckMissing, OpType, Steps, Passes, LocalsOf, Holding
  <2>4. PICK c \in OpType : LocalsOf(c) /\ Becomes(s, c)
    <3>1. op[s].todo \ {f} \in SUBSET Files
      BY <2>0 DEF OpType
    <3> QED BY <1>7, <2>1, <2>2, <2>3, <3>1 DEF CheckMissing, CheckNext
  <2> QED BY <1>7, <1>d, <2>4, SettledStep DEF CheckMissing
<1>8. ASSUME NEW s \in Scans, Snapshot(s) PROVE TInv'
  <2>0. op[s] \in OpType /\ LocalsOf(op[s])
    BY <1>a
  <2>1. LET c == [op[s] EXCEPT !.pc = "sweep", !.snap = registry, !.sweep = registry]
        IN  c \in OpType /\ LocalsOf(c)
    BY <2>0, <1>8, <1>d, ZenonT(40) DEF Snapshot, OpType, Steps, Passes, LocalsOf, Holding
  <2> QED BY <1>8, <1>d, <2>1, QuietStep DEF Snapshot
<1>9. ASSUME NEW s \in Scans, NEW v \in StageIds, SweepTake(s, v) PROVE TInv'
  <2>0. op[s] \in OpType /\ LocalsOf(op[s])
    BY <1>a
  <2>1. LET c == [op[s] EXCEPT !.sweep = @ \ {v}]
        IN  c \in OpType /\ LocalsOf(c)
    BY <2>0, <1>9, SMTT(30) DEF SweepTake, OpType, Steps, Passes, LocalsOf, Holding
  <2>2. LET c == [op[s] EXCEPT !.pc = "test", !.sweep = @ \ {v}, !.vic = v]
        IN  c \in OpType /\ LocalsOf(c)
    BY <2>0, <1>9, ZenonT(40) DEF SweepTake, OpType, Steps, Passes, LocalsOf, Holding
  <2> QED BY <1>9, <1>d, <2>1, <2>2, QuietStep DEF SweepTake
<1>10. ASSUME NEW s \in Scans, SweepTest(s) PROVE TInv'
  <2>0. op[s] \in OpType /\ LocalsOf(op[s])
    BY <1>a
  <2>1. op[s].vic \in StageIds
    BY <2>0, <1>10 DEF SweepTest, LocalsOf
  <2>2. [stage EXCEPT ![op[s].vic].released = TRUE] \in [StageIds -> StageType]
    BY <1>d, <2>1, ReleaseUpdate
  <2>3. LET c == [op[s] EXCEPT !.pc = "sweep", !.vic = None]
        IN  c \in OpType /\ LocalsOf(c)
    BY <2>0, <1>10, ZenonT(40) DEF SweepTest, OpType, Steps, Passes, LocalsOf, Holding
  <2>4. LET c == [op[s] EXCEPT !.pc = "get"]
        IN  c \in OpType /\ LocalsOf(c)
    BY <2>0, <1>10, SMTT(30) DEF SweepTest, OpType, Steps, Passes, LocalsOf, Holding
  <2> QED BY <1>10, <1>d, <2>1, <2>2, <2>3, <2>4, SettledStep DEF SweepTest, Goto
<1>11. ASSUME NEW s \in Scans, Release(s) PROVE TInv'
  <2>0. op[s] \in OpType /\ LocalsOf(op[s])
    BY <1>a
  <2>1. op[s].ent \in StageIds
    BY <2>0, <1>11 DEF Release, LocalsOf
  <2>2. [stage EXCEPT ![op[s].ent].released = TRUE] \in [StageIds -> StageType]
    BY <1>d, <2>1, ReleaseUpdate
  <2>3. LET c == [op[s] EXCEPT !.pc = "get", !.pass = "first", !.vic = op[s].ent]
        IN  c \in OpType /\ LocalsOf(c)
    BY <2>0, <1>11, ZenonT(40) DEF Release, OpType, Steps, Passes, LocalsOf, Holding
  <2> QED BY <1>11, <1>d, <2>1, <2>2, <2>3, SettledStep DEF Release
<1>12. ASSUME NEW s \in Scans, RemoveGet(s) PROVE TInv'
  <2>0. op[s] \in OpType /\ LocalsOf(op[s])
    BY <1>a
  <2>a. op[s].pc = "get"
    BY <1>12 DEF RemoveGet
  <2>1. LET c == [op[s] EXCEPT !.pc = "open", !.ent = None, !.vic = None]
        IN  op[s].pass = "first" => c \in OpType /\ LocalsOf(c)
    BY <2>0, <2>a, ZenonT(40) DEF OpType, Steps, Passes, LocalsOf, Holding
  <2>2. LET c == [op[s] EXCEPT !.pc = "sweep", !.vic = None]
        IN  op[s].pass \in {"cached", "first"} => c \in OpType /\ LocalsOf(c)
    BY <2>0, <2>a, ZenonT(40) DEF OpType, Steps, Passes, LocalsOf, Holding
  <2>3. LET c == [op[s] EXCEPT !.pc = "evicting", !.vic = None]
        IN  op[s].pass \in {"room", "drop"} => c \in OpType /\ LocalsOf(c)
    BY <2>0, <2>a, ZenonT(40) DEF OpType, Steps, Passes, LocalsOf, Holding
  <2>4. LET c == [op[s] EXCEPT !.pc = "delete"]
        IN  c \in OpType /\ LocalsOf(c)
    BY <2>0, <2>a, SMTT(30) DEF OpType, Steps, Passes, LocalsOf, Holding
  <2>5. PICK c \in OpType : LocalsOf(c) /\ Becomes(s, c)
    BY <1>12, <2>1, <2>2, <2>3, <2>4 DEF RemoveGet, AfterRemove, Goto
  <2> QED BY <1>12, <1>d, <2>5, SettledStep DEF RemoveGet
<1>13. ASSUME NEW s \in Scans, RemoveDelete(s) PROVE TInv'
  <2>0. op[s] \in OpType /\ LocalsOf(op[s])
    BY <1>a
  <2>a. op[s].pc = "delete"
    BY <1>13 DEF RemoveDelete
  <2>1. LET c == [op[s] EXCEPT !.pc = "open", !.ent = None, !.vic = None]
        IN  op[s].pass = "first" => c \in OpType /\ LocalsOf(c)
    BY <2>0, <2>a, ZenonT(40) DEF OpType, Steps, Passes, LocalsOf, Holding
  <2>2. LET c == [op[s] EXCEPT !.pc = "sweep", !.vic = None]
        IN  op[s].pass \in {"cached", "first"} => c \in OpType /\ LocalsOf(c)
    BY <2>0, <2>a, ZenonT(40) DEF OpType, Steps, Passes, LocalsOf, Holding
  <2>3. LET c == [op[s] EXCEPT !.pc = "evicting", !.vic = None]
        IN  op[s].pass \in {"room", "drop"} => c \in OpType /\ LocalsOf(c)
    BY <2>0, <2>a, ZenonT(40) DEF OpType, Steps, Passes, LocalsOf, Holding
  <2>4. op' \in [Scans -> OpType] /\ CallsOK'
    BY <1>13, <2>1, <2>2, <2>3, CallStep DEF RemoveDelete, AfterRemove
  <2>5. cache' \in [Dbs -> [Keys -> StageIds \cup {None}]]
    BY <1>13, <1>d DEF RemoveDelete
  <2> QED BY <1>13, <1>d, <2>4, <2>5, SettleType DEF RemoveDelete, TInv, TypeOK, LayerType
<1>14. ASSUME NEW s \in Scans, SweepDone(s) PROVE TInv'
  <2>0. op[s] \in OpType /\ LocalsOf(op[s])
    BY <1>a
  <2>a. op[s].pc = "sweep"
    BY <1>14 DEF SweepDone
  <2>1. LET c == [op[s] EXCEPT !.pc = "release", !.snap = {}]
        IN  op[s].pass = "cached" => c \in OpType /\ LocalsOf(c)
    BY <2>0, <2>a, ZenonT(40) DEF OpType, Steps, Passes, LocalsOf, Holding
  <2>2. LET c == [op[s] EXCEPT !.pc = "open", !.pass = "again", !.snap = {}, !.cur = None]
        IN  c \in OpType /\ LocalsOf(c)
    BY <2>0, <2>a, ZenonT(40) DEF OpType, Steps, Passes, LocalsOf, Holding
  <2>3. [changed EXCEPT ![s] = {}] \in [Scans -> SUBSET Files]
    BY <1>d
  <2> QED BY <1>14, <1>d, <2>1, <2>2, <2>3, SettledStep DEF SweepDone, Reopen
<1>15. ASSUME NEW s \in Scans, OpenStage(s) PROVE TInv'
  <2>0. op[s] \in OpType /\ LocalsOf(op[s])
    BY <1>a
  <2>a. op[s].pc = "open"
    BY <1>15 DEF OpenStage
  <2>1. op[s].key \in Keys => Uses[op[s].key] \in SUBSET Files
    BY ConfigAssumption
  <2>2. ASSUME NEW i \in StageIds, op[s].pass # "drop"
        PROVE  LET c == [op[s] EXCEPT !.pc = "load", !.cur = i, !.todo = Uses[op[s].key]]
               IN  c \in OpType /\ LocalsOf(c)
    BY <2>0, <2>a, <2>1, <2>2, ZenonT(40) DEF OpType, Steps, Passes, LocalsOf, Holding
  <2>3. PICK i \in StageIds :
          /\ Becomes(s, [op[s] EXCEPT !.pc = "load", !.cur = i, !.todo = Uses[op[s].key]])
          /\ stage' = [stage EXCEPT ![i] = NewStage(op[s].key, Db(s))]
    BY <1>15 DEF OpenStage
  <2>4. op[s].pass # "drop"
    BY <2>0, <2>a DEF LocalsOf
  <2>5. NewStage(op[s].key, Db(s)) \in StageType
    BY <2>0, <1>b DEF NewStage, StageOf, StageType, OpType
  <2>6. stage' \in [StageIds -> StageType]
    BY <1>d, <2>3, <2>5
  <2>7. op' \in [Scans -> OpType] /\ CallsOK'
    BY <2>2, <2>3, <2>4, CallStep
  <2> QED BY <1>15, <2>6, <2>7 DEF OpenStage, TInv, TypeOK
<1>16. ASSUME NEW s \in Scans, NEW f \in Files, LoadFile(s, f) PROVE TInv'
  <2>0. op[s] \in OpType /\ LocalsOf(op[s])
    BY <1>a
  <2>a. op[s].pc = "load"
    BY <1>16 DEF LoadFile
  <2>1. LET c == [op[s] EXCEPT !.todo = @ \ {f}]
        IN  c \in OpType /\ LocalsOf(c)
    BY <2>0, <2>a, SMTT(30) DEF OpType, Steps, Passes, LocalsOf, Holding
  <2>2. CASE Becomes(s, [op[s] EXCEPT !.todo = @ \ {f}]) /\ Compose(s, f)
    <3>1. stage' \in [StageIds -> StageType] /\ layer' \in [Files -> LayerType]
      BY <2>2, ComposeType
    <3> QED BY <1>16, <2>1, <2>2, <3>1, CallStep DEF LoadFile, Compose, TInv, TypeOK, LayerType
  <2>3. CASE /\ Becomes(s, [op[s] EXCEPT !.todo = @ \ {f}])
             /\ stage' = [stage EXCEPT ![op[s].cur].missed[f] = Stamp(f)]
             /\ UNCHANGED <<layer, registry, query, changed>>
    <3>1. ASSUME op[s].cur \in StageIds
          PROVE  [stage[op[s].cur] EXCEPT !.missed[f] = Stamp(f)] \in StageType
      BY <3>1, <1>c, <1>d, StageUpdate
    <3>2. stage' \in [StageIds -> StageType]
      BY <2>3, <1>d, <3>1
    <3> QED BY <1>16, <2>1, <2>3, <3>2, CallStep DEF LoadFile, TInv, TypeOK
  <2>4. CASE Fail(s)
    BY <1>16, <2>4, FailType DEF LoadFile
  <2> QED BY <1>16, <2>2, <2>3, <2>4 DEF LoadFile
<1>17. ASSUME NEW s \in Scans, Loaded(s) PROVE TInv'
  <2>0. op[s] \in OpType /\ LocalsOf(op[s])
    BY <1>a
  <2>a. op[s].pc = "load"
    BY <1>17 DEF Loaded
  <2>1. stage[op[s].cur].loaded \in SUBSET Files
    BY <2>0, <2>a, <1>d DEF LocalsOf, Holding, StageType
  <2>2. LET c == [op[s] EXCEPT !.pc = "stat", !.todo = stage[op[s].cur].loaded]
        IN  c \in OpType /\ LocalsOf(c)
    BY <2>0, <2>a, <2>1, ZenonT(40) DEF OpType, Steps, Passes, LocalsOf, Holding
  <2> QED BY <1>17, <1>d, <2>1, <2>2, QuietStep DEF Loaded
<1>18. ASSUME NEW s \in Scans, Refuse(s) PROVE TInv'
  BY <1>18, FailType DEF Refuse
<1>19. ASSUME NEW s \in Scans, Verified(s) PROVE TInv'
  <2>0. op[s] \in OpType /\ LocalsOf(op[s])
    BY <1>a
  <2>a. op[s].pc = "verify"
    BY <1>19 DEF Verified
  <2>1. op[s].key \in Keys /\ op[s].cur \in StageIds
    BY <2>0, <2>a DEF LocalsOf, Holding
  <2> QED BY <1>19, <1>d, <2>1, ReturnType DEF Verified
<1>20. ASSUME NEW s \in Scans, MakeRoom(s) PROVE TInv'
  <2>0. op[s] \in OpType /\ LocalsOf(op[s])
    BY <1>a
  <2>a. op[s].pc = "verify"
    BY <1>20 DEF MakeRoom
  <2>1. OwnStages(Db(s)) \in SUBSET StageIds
    BY <1>d DEF OwnStages
  <2>2. op[s].cur \in StageIds /\ op[s].key \in Keys
    BY <2>0, <2>a DEF LocalsOf, Holding
  <2>3. LET c == [op[s] EXCEPT !.pc = "evicting", !.pass = "room",
                               !.snap = OwnStages(Db(s)), !.sweep = OwnStages(Db(s))]
        IN  c \in OpType /\ LocalsOf(c)
    BY <2>0, <2>a, <2>1, <2>2, ZenonT(40) DEF OpType, Steps, Passes, LocalsOf, Holding
  <2> QED BY <1>20, <1>d, <2>1, <2>2, <2>3, QuietStep DEF MakeRoom
<1>21. ASSUME NEW s \in Scans, NEW v \in StageIds, EvictNext(s, v) PROVE TInv'
  <2>0. op[s] \in OpType /\ LocalsOf(op[s])
    BY <1>a
  <2>a. op[s].pc = "evicting"
    BY <1>21 DEF EvictNext
  <2>1. LET c == [op[s] EXCEPT !.pc = "get", !.sweep = @ \ {v}, !.vic = v]
        IN  c \in OpType /\ LocalsOf(c)
    BY <2>0, <2>a, ZenonT(40) DEF OpType, Steps, Passes, LocalsOf, Holding
  <2> QED BY <1>21, <1>d, <2>1, QuietStep DEF EvictNext
<1>22. ASSUME NEW s \in Scans, Fits(s) PROVE TInv'
  <2>0. op[s] \in OpType /\ LocalsOf(op[s])
    BY <1>a
  <2>a. op[s].pc = "evicting" /\ op[s].pass = "room"
    BY <1>22 DEF Fits
  <2>1. Uncomposed(s) \in SUBSET Files
    BY <2>0, <2>a, ConfigAssumption DEF LocalsOf, Uncomposed
  <2>2. LET c == [op[s] EXCEPT !.pc = "record", !.snap = {}, !.sweep = {},
                               !.todo = Uncomposed(s)]
        IN  c \in OpType /\ LocalsOf(c)
    BY <2>0, <2>a, <2>1, ZenonT(40) DEF OpType, Steps, Passes, LocalsOf, Holding
  <2> QED BY <1>22, <1>d, <2>1, <2>2, SettledStep DEF Fits
<1>23. ASSUME NEW s \in Scans, DoesNotFit(s) PROVE TInv'
  <2>0. op[s] \in OpType /\ LocalsOf(op[s])
    BY <1>a
  <2>a. op[s].pc = "evicting" /\ op[s].pass = "room"
    BY <1>23 DEF DoesNotFit
  <2>1. op[s].key \in Keys /\ op[s].cur \in StageIds
    BY <2>0, <2>a DEF LocalsOf, Holding
  <2> QED BY <1>23, <1>d, <2>1, ReturnType DEF DoesNotFit
<1>24. ASSUME NEW s \in Scans, NEW f \in Files, RecordMissing(s, f) PROVE TInv'
  <2>0. op[s] \in OpType /\ LocalsOf(op[s])
    BY <1>a
  <2>a. op[s].pc = "record"
    BY <1>24 DEF RecordMissing
  <2>1. LET c == [op[s] EXCEPT !.todo = @ \ {f}]
        IN  c \in OpType /\ LocalsOf(c)
    BY <2>0, <2>a, SMTT(30) DEF OpType, Steps, Passes, LocalsOf, Holding
  <2>b. op[s].cur \in StageIds
    BY <2>0, <2>a DEF LocalsOf, Holding
  <2>c. [stage[op[s].cur] EXCEPT !.miss[f] = Stamp(f)] \in StageType
    BY <2>b, <1>c, <1>d, StageUpdate
  <2>2. stage' \in [StageIds -> StageType]
    BY <1>24, <1>d, <2>b, <2>c DEF RecordMissing
  <2> QED BY <1>24, <2>1, <2>2, CallStep DEF RecordMissing, TInv, TypeOK
<1>25. ASSUME NEW s \in Scans, Put(s) PROVE TInv'
  <2>0. op[s] \in OpType /\ LocalsOf(op[s])
    BY <1>a
  <2>a. op[s].pc = "record"
    BY <1>25 DEF Put
  <2>1. op[s].key \in Keys /\ op[s].cur \in StageIds
    BY <2>0, <2>a DEF LocalsOf, Holding
  <2>2. LET c == [op[s] EXCEPT !.pc = "add", !.ent = op[s].cur]
        IN  c \in OpType /\ LocalsOf(c)
    BY <2>0, <2>a, <2>1, ZenonT(40) DEF OpType, Steps, Passes, LocalsOf, Holding
  <2>3. op' \in [Scans -> OpType] /\ CallsOK'
    BY <1>25, <2>2, CallStep DEF Put
  <2>4. cache' \in [Dbs -> [Keys -> StageIds \cup {None}]]
    BY <1>25, <1>d, <2>1 DEF Put
  <2> QED BY <1>25, <1>d, <2>3, <2>4, SettleType DEF Put, TInv, TypeOK, LayerType
<1>26. ASSUME NEW s \in Scans, Add(s) PROVE TInv'
  <2>0. op[s] \in OpType /\ LocalsOf(op[s])
    BY <1>a
  <2>a. op[s].pc = "add"
    BY <1>26 DEF Add
  <2>1. op[s].key \in Keys /\ op[s].cur \in StageIds
    BY <2>0, <2>a DEF LocalsOf, Holding
  <2>2. registry \cup {op[s].cur} \in SUBSET StageIds
    BY <1>d, <2>1
  <2> QED BY <1>26, <1>d, <2>1, <2>2, ReturnType DEF Add
<1>27. ASSUME NEW s \in Scans, NEW f \in Files, ReadClip(s, f) PROVE TInv'
  <2>1. stage' \in [StageIds -> StageType] /\ layer' \in [Files -> LayerType]
    BY <1>27, ComposeType DEF ReadClip
  <2> QED BY <1>27, <2>1 DEF ReadClip, Compose, TInv, TypeOK, CallsOK, LocalsOf, LayerType
<1>28. ASSUME NEW s \in Scans, FinishScan(s) PROVE TInv'
  <2>0. op[s] \in OpType /\ LocalsOf(op[s])
    BY <1>a
  <2>a. op[s].pc = "using"
    BY <1>28 DEF FinishScan
  <2>1. NoCall("done") \in OpType /\ LocalsOf(NoCall("done"))
    BY DEF NoCall, CallAt, OpType, Steps, Passes, LocalsOf, Holding
  <2> QED BY <1>28, <1>d, <2>1, SettledStep DEF FinishScan
<1>29. ASSUME NEW c \in Conns, EndQuery(c) PROVE TInv'
  <2>1. NoCall("idle") \in OpType /\ LocalsOf(NoCall("idle"))
    BY DEF NoCall, CallAt, OpType, Steps, Passes, LocalsOf, Holding
  <2>2. op' \in [Scans -> OpType] /\ \A s \in Scans : op'[s] \in {NoCall("idle"), op[s]}
    BY <1>29, <1>a, <2>1 DEF EndQuery
  <2>3. CallsOK'
    <3>1. \A s \in Scans : LocalsOf(op[s])'
      BY <1>a, <2>1, <2>2 DEF LocalsOf
    <3> QED BY <3>1 DEF CallsOK
  <2>4. start' \in [Conns -> [Files -> Version]]
    BY <1>29, BoundAssumption DEF EndQuery, TInv, TypeOK, Version
  <2>5. QueryEnd(c) \in [Conns -> [Keys -> StageIds \cup {None}]]
    BY <1>d DEF QueryEnd
  <2> QED BY <1>29, <1>d, <2>2, <2>3, <2>4, <2>5, SettleType DEF EndQuery, TInv, TypeOK, LayerType
<1>30. ASSUME NEW s \in Scans, DropCachedStages(s) PROVE TInv'
  <2>0. op[s] \in OpType /\ LocalsOf(op[s])
    BY <1>a
  <2>a. op[s].pc = "idle"
    BY <1>30 DEF DropCachedStages, QueryIdle
  <2>1. OwnStages(Db(s)) \in SUBSET StageIds
    BY <1>d DEF OwnStages
  <2>2. LET c == [op[s] EXCEPT !.pc = "evicting", !.pass = "drop",
                               !.snap = OwnStages(Db(s)), !.sweep = OwnStages(Db(s))]
        IN  c \in OpType /\ LocalsOf(c)
    BY <2>0, <2>a, <2>1, ZenonT(40) DEF OpType, Steps, Passes, LocalsOf, Holding
  <2>3. op' \in [Scans -> OpType] /\ CallsOK'
    BY <1>30, <2>2, CallStep DEF DropCachedStages
  <2>4. start' \in [Conns -> [Files -> Version]]
    BY <1>30 DEF DropCachedStages, TInv, TypeOK
  <2> QED BY <1>30, <2>3, <2>4 DEF DropCachedStages, Unsettled, TInv, TypeOK
<1>31. ASSUME NEW s \in Scans, Dropped(s) PROVE TInv'
  <2>0. op[s] \in OpType /\ LocalsOf(op[s])
    BY <1>a
  <2>a. op[s].pc = "evicting"
    BY <1>31 DEF Dropped
  <2>1. NoCall("done") \in OpType /\ LocalsOf(NoCall("done"))
    BY DEF NoCall, CallAt, OpType, Steps, Passes, LocalsOf, Holding
  <2> QED BY <1>31, <1>d, <2>1, SettledStep DEF Dropped
<1>32. ASSUME NEW f \in Files, WriteFile(f) PROVE TInv'
  <2>1. file' \in [Files -> Version]
    BY <1>32, BoundAssumption DEF WriteFile, TInv, TypeOK, Version
  <2> QED BY <1>32, <2>1 DEF WriteFile, TInv, TypeOK, CallsOK, LocalsOf
<1>33. ASSUME NEW d \in Dbs, NEW k \in Keys, Evict(d, k) PROVE TInv'
  <2>1. cache' \in [Dbs -> [Keys -> StageIds \cup {None}]]
    BY <1>33, <1>d DEF Evict
  <2> QED BY <1>33, <1>d, <2>1, SettleType DEF Evict, TInv, TypeOK, CallsOK, LocalsOf, LayerType
<1>34. ASSUME UNCHANGED vars PROVE TInv'
  BY <1>34 DEF vars, TInv, TypeOK, CallsOK, LocalsOf
<1> QED
  BY <1>1, <1>2, <1>3, <1>4, <1>5, <1>6, <1>7, <1>8, <1>9, <1>10, <1>11, <1>12, <1>13,
     <1>14, <1>15, <1>16, <1>17, <1>18, <1>19, <1>20, <1>21, <1>22, <1>23, <1>24, <1>25,
     <1>26, <1>27, <1>28, <1>29, <1>30, <1>31, <1>32, <1>33, <1>34 DEF Next, Work

\* Every reachable state has its type, whatever the constants.
THEOREM TypeCorrect == Spec => []TypeOK
<1>1. TInv => TypeOK
  BY DEF TInv
<1> QED BY <1>1, TInvInit, TInvStep, PTL DEF Spec

-----------------------------------------------------------------------------
(* The inductive invariant: references *)

\* Steps that visit a snapshot of the registry
Visiting == {"sweep", "test", "get", "delete", "evicting"}

\* Which locals a call has at which step
ShapeOf(c) ==
    /\ c.pc \in {"idle", "done", "lookup", "using", "open"} => c.ent = None
    /\ c.pc \notin Visiting => c.snap = {}
    /\ c.sweep \subseteq c.snap
    /\ c.pc = "test" => c.vic \in c.snap
    /\ c.pc \in {"get", "delete"} => c.vic \in c.snap \cup {c.ent}
    /\ c.cur # None \/ c.ent # None => c.key \in Keys
    /\ c.pc \in {"idle", "done", "lookup", "gethandle", "release", "open"} => c.cur = None
    /\ c.pc \in {"idle", "done", "using"} => c.pass = "cached"
    /\ c.pc \in {"stat", "compare", "verify"} => c.pass \notin {"room", "drop"}
    /\ c.pass = "cached" /\ c.pc \in Visiting \cup {"snapshot"} => c.cur = None
    /\ c.pass = "cached" /\ c.pc \in {"stat", "compare", "missing", "verify"} => c.cur = c.ent
    /\ c.pass = "first" /\ c.ent # None 
         => /\ c.pc \in {"get", "delete"} /\ c.cur = None
            /\ c.vic = c.ent /\ c.snap = {}
    /\ c.pass = "first" /\ c.ent = None => c.pc = "open" \/ c.cur # None
    /\ c.pass = "again" => c.ent = None /\ c.pc \in {"open", "load", "stat", "compare", "verify"}
    /\ c.pass = "room" => c.ent = IF c.pc = "add" THEN c.cur ELSE None
    /\ c.pass = "drop" => c.cur = None /\ c.ent = None
    /\ c.pc \in {"open", "load"} => c.pass \in {"first", "again"}
    /\ c.pc \in {"record", "add"} => c.pass = "room"

\* The stage of the call was composed by the call, and not cached yet
Composing(c) ==
    /\ c.cur # None
    /\ c.pass \in {"first", "again"} \/ (c.pass = "room" /\ c.pc # "add")

\* Stage i exists and is that of key k in database d
StageIs(i, k, d) == stage[i].key = k /\ stage[i].db = d

RefsOf(s) ==
    /\ ShapeOf(op[s])
    /\ op[s].cur # None => StageIs(op[s].cur, op[s].key, Db(s))
    /\ op[s].ent # None => StageIs(op[s].ent, op[s].key, Db(s))
    /\ \A i \in op[s].snap : stage[i].key # None

\* The stage a call composes is its own
UnseenOf(s) ==
    Composing(op[s]) =>
        /\ op[s].cur \notin Entries
        /\ \A t \in Scans \ {s} : op[t].cur # op[s].cur
        /\ \A c \in Conns, k \in Keys : query[c][k] # op[s].cur
        /\ ~stage[op[s].cur].released

CacheOK ==
    \A d \in Dbs, k \in Keys : cache[d][k] # None => StageIs(cache[d][k], k, d)

\* A query's stages are alive, and forgotten when it ends
QueryOK ==
    /\ \A c \in Conns, k \in Keys : query[c][k] # None =>
         query[c][k] \in Alive /\ StageIs(query[c][k], k, DbOf[c])
    /\ \A c \in Conns, k \in Keys : QueryIdle(c) => query[c][k] = None

\* A layer is loaded if and only if a stage uses it
LayersOK ==
    /\ \A i \in Alive : \A f \in stage[i].loaded : layer[f].version # 0
    /\ \A f \in Files : layer[f].version # 0 => \E i \in Alive : f \in stage[i].loaded

RInv ==
    /\ TInv /\ CacheOK /\ QueryOK /\ LayersOK
    /\ registry \subseteq Entries
    /\ \A s \in Scans : RefsOf(s) /\ UnseenOf(s)


-----------------------------------------------------------------------------
(* What refers to a stage *)

LEMMA EntriesAre ==
    \A i : i \in Entries <=> \/ \E d \in Dbs, k \in Keys : cache[d][k] = i
                             \/ \E s \in Scans : op[s].ent = i \/ i \in op[s].snap
BY DEF Entries

LEMMA EntriesNext ==
    \A i : i \in Entries' <=> \/ \E d \in Dbs, k \in Keys : cache'[d][k] = i
                              \/ \E s \in Scans : op'[s].ent = i \/ i \in op'[s].snap
BY DEF Entries

LEMMA HandlesAre ==
    \A i : i \in Handles <=> \E s \in Scans : op[s].cur = i \/ (op[s].pc = "test" /\ op[s].vic = i)
BY DEF Handles

LEMMA HandlesNext ==
    \A i : i \in Handles' <=> \E s \in Scans : op'[s].cur = i \/ (op'[s].pc = "test" /\ op'[s].vic = i)
BY DEF Handles

LEMMA AliveAre ==
    \A i : i \in Alive <=> i \in StageIds /\ (i \in Handles \/ (i \in Entries /\ ~stage[i].released))
BY DEF Alive

LEMMA AliveNext ==
    \A i : i \in Alive' <=>
        i \in StageIds /\ (i \in Handles' \/ (i \in Entries' /\ ~stage'[i].released))
BY DEF Alive

LEMMA EntriesKnown ==
    ASSUME RInv, NEW i \in Entries, i # None
    PROVE  i \in StageIds /\ stage[i].key \in Keys
<1>0. TypeOK /\ CacheOK /\ \A s \in Scans : RefsOf(s)
  BY DEF RInv, TInv
<1>1. CASE \E d \in Dbs, k \in Keys : cache[d][k] = i
  BY <1>0, <1>1 DEF TypeOK, CacheOK, StageIs
<1>2. CASE \E s \in Scans : op[s].ent = i
  <2>1. PICK s \in Scans : op[s].ent = i
    BY <1>2
  <2>2. op[s].ent \in StageIds \cup {None} /\ op[s].key \in Keys
    BY <1>0, <2>1 DEF TypeOK, OpType, RefsOf, ShapeOf
  <2> QED BY <1>0, <2>1, <2>2 DEF RefsOf, StageIs
<1>3. CASE \E s \in Scans : i \in op[s].snap
  <2>1. PICK s \in Scans : i \in op[s].snap
    BY <1>3
  <2>2. i \in StageIds /\ stage[i].key # None
    BY <1>0, <2>1 DEF TypeOK, OpType, RefsOf
  <2> QED BY <1>0, <2>2 DEF TypeOK, StageType
<1> QED BY <1>1, <1>2, <1>3, EntriesAre

-----------------------------------------------------------------------------
(* What a step of the calls A keeps.  `own' are the stages it may rewrite, or  *)
(* put into a cache: nobody else refers to them.                              *)

\* Stage i stays the one it is ...
Stays(i) ==
    /\ stage'[i].key = stage[i].key /\ stage'[i].db = stage[i].db
    /\ stage[i].released => stage'[i].released

\* ... and of the same contents, except for clips read meanwhile; it is released
\* only if it was cached
Contents(i) ==
    /\ stage'[i].miss = stage[i].miss /\ stage'[i].missed = stage[i].missed
    /\ stage[i].loaded \subseteq stage'[i].loaded
    /\ stage'[i].loaded \cap Uses[stage[i].key] \subseteq stage[i].loaded
    /\ stage'[i].released => stage[i].released \/ i \in Entries

LayerStays(f) ==
    /\ layer'[f].version = layer[f].version
    /\ layer[f].stamp # NoStamp => layer'[f].stamp = layer[f].stamp

Waiting(A) == \A t \in Scans \ A : op'[t] = op[t]

Mine(A, own) ==
    \A i \in own :
        /\ i \in StageIds /\ i \notin Entries
        /\ \A t \in Scans \ A : op[t].cur # i
        /\ \A c \in Conns, k \in Keys : query[c][k] # i

\* The calls of A refer to stages that they, a cache or their query referred to
RefsFrom(A, own) ==
    \A u \in A :
        /\ op'[u].ent # None => op'[u].ent \in Entries \cup own
        /\ op'[u].snap \subseteq Entries
        /\ op'[u].cur # None =>
             \/ op'[u].cur = op[u].cur
             \/ op'[u].cur \in own
             \/ op'[u].cur \in Entries /\ op'[u].cur \in Alive
             \/ \E k \in Keys : op'[u].cur = query[Conn(u)][k]
        /\ op'[u].pc = "test" => op'[u].vic \in Entries /\ op'[u].vic \in Alive
        /\ Composing(op'[u]) => \/ op'[u].cur \in own
                                \/ Composing(op[u]) /\ op'[u].cur = op[u].cur

CacheFrom(own) ==
    \A d \in Dbs, k \in Keys : cache'[d][k] # None =>
        \/ cache'[d][k] = cache[d][k]
        \/ cache'[d][k] \in own /\ cache'[d][k] \in Alive /\ StageIs(cache'[d][k], k, d)

QueriesFrom(A, qry) ==
    \A c \in Conns, k \in Keys : qry[c][k] # None =>
        \/ qry[c][k] = query[c][k]
        \/ \E u \in A : /\ qry[c][k] = op[u].cur /\ Conn(u) = c /\ op[u].key = k
                        /\ op'[u].pc = "using"
QueriesEnd(A, qry) ==
    \A u \in A : op'[u].pc = "idle" => \A k \in Keys : qry[Conn(u)][k] = None

Step(A, own) ==
    /\ Waiting(A) /\ Mine(A, own) /\ RefsFrom(A, own) /\ CacheFrom(own)
    /\ QueriesFrom(A, query') /\ QueriesEnd(A, query')
    /\ \A i \in StageIds : i \in Entries' => i \in Entries \/ i \in own
    /\ \A i \in StageIds : i \in Handles' => i \in Alive \/ i \in own
    /\ \A i \in StageIds : (i \in Entries' \/ i \in Handles') /\ (i \in Entries \/ i \in Alive)
         => Stays(i)
    /\ \A i \in StageIds \ own : i \in Alive' => Contents(i)
    /\ \A i \in Alive : i \in Alive' => \A f \in stage[i].loaded : LayerStays(f)

\* What the end of a step leaves
Settled ==
    /\ LayersOK' /\ registry' \subseteq Entries'
    /\ \A c \in Conns, k \in Keys : query'[c][k] # None => query'[c][k] \in Alive'

LEMMA RefsStep ==
    ASSUME RInv, NEW A \in SUBSET Scans, NEW own \in SUBSET StageIds,
           Waiting(A), RefsFrom(A, own), CacheFrom(own)
    PROVE  /\ \A i \in StageIds : i \in Entries' => i \in Entries \/ i \in own
           /\ \A i \in StageIds : i \in Handles' => i \in Alive \/ i \in own
<1>0. QueryOK /\ TypeOK
  BY DEF RInv, TInv
<1>1. ASSUME NEW i \in StageIds, i \in Entries' PROVE i \in Entries \/ i \in own
  <2>0. i # None
    BY NoneAssumption
  <2>1. CASE \E d \in Dbs, k \in Keys : cache'[d][k] = i
    BY <2>0, <2>1, EntriesAre DEF CacheFrom
  <2>2. CASE \E s \in Scans : op'[s].ent = i \/ i \in op'[s].snap
    <3>1. PICK s \in Scans : op'[s].ent = i \/ i \in op'[s].snap
      BY <2>2
    <3>2. CASE s \in A
      BY <2>0, <3>1, <3>2 DEF RefsFrom
    <3>3. CASE s \notin A
      <4>1. op[s].ent = i \/ i \in op[s].snap
        BY <3>1, <3>3 DEF Waiting
      <4> QED BY <4>1, EntriesAre
    <3> QED BY <3>2, <3>3
  <2> QED BY <1>1, <2>1, <2>2, EntriesNext
<1>2. ASSUME NEW i \in StageIds, i \in Handles' PROVE i \in Alive \/ i \in own
  <2>0. i # None
    BY NoneAssumption
  <2>1. PICK s \in Scans : op'[s].cur = i \/ (op'[s].pc = "test" /\ op'[s].vic = i)
    BY <1>2, HandlesNext
  <2>2. CASE s \in A
    <3>1. CASE op'[s].pc = "test" /\ op'[s].vic = i
      BY <2>2, <3>1 DEF RefsFrom
    <3>2. CASE op'[s].cur = i
      <4>1. CASE op[s].cur = i
        BY <4>1, HandlesAre, AliveAre
      <4>2. CASE \E k \in Keys : i = query[Conn(s)][k]
        BY <4>2, <2>0, <1>0, ConfigAssumption DEF QueryOK, Conn
      <4> QED BY <2>0, <2>2, <3>2, <4>1, <4>2 DEF RefsFrom
    <3> QED BY <2>1, <3>1, <3>2
  <2>3. CASE s \notin A
    <3>1. op[s].cur = i \/ (op[s].pc = "test" /\ op[s].vic = i)
      BY <2>1, <2>3 DEF Waiting
    <3> QED BY <3>1, HandlesAre, AliveAre
  <2> QED BY <2>2, <2>3
<1> QED BY <1>1, <1>2

\* What Settle leaves of the stages st, the layers lay and so on
LEMMA SettleFacts ==
    ASSUME NEW st \in [StageIds -> StageType], NEW lay, NEW reg, NEW qry, NEW chg,
           Settle(st, lay, reg, qry, chg)
    PROVE  /\ \A i \in StageIds : i \in Alive' <=> (i \in Handles' \/ (i \in Entries' /\ ~st[i].released))
           /\ \A i \in Alive' : stage'[i] = st[i]
           /\ \A i \in StageIds : i \in Entries' =>
                /\ stage'[i].key = st[i].key /\ stage'[i].db = st[i].db
                /\ st[i].released => stage'[i].released
                /\ stage'[i].released => st[i].released
           /\ \A f \in Files : (\E i \in Alive' : f \in st[i].loaded) => layer'[f] = lay[f]
           /\ \A f \in Files : (\A i \in Alive' : f \notin st[i].loaded) => layer'[f] = NoLayer
           /\ \A i : i \in registry' <=> i \in reg /\ i \in Entries'
           /\ \A c \in Conns, k \in Keys : query'[c][k] # None =>
                query'[c][k] = qry[c][k] /\ query'[c][k] \in Alive'
           /\ \A s \in Scans, f \in Files : f \in changed'[s] <=>
                f \in chg[s] /\ \E i \in Alive' : f \in st[i].loaded
           /\ \A i \in StageIds \ Alive' : ~stage'[i].stale /\ stage'[i].loaded = {}
<1> DEFINE alive == {i \in StageIds : i \in Handles' \/ (i \in Entries' /\ ~st[i].released)}
           kept == {f \in Files : \E i \in alive : f \in st[i].loaded}
<1>1. /\ stage' = [i \in StageIds |-> IF i \in alive THEN st[i]
                                      ELSE IF i \in Entries' THEN ReleasedStage(st[i].key, st[i].db)
                                      ELSE FreeStage]
      /\ layer' = [f \in Files |-> IF f \in kept THEN lay[f] ELSE NoLayer]
      /\ registry' = {i \in reg : i \in Entries'}
      /\ query' = [c \in Conns |-> [k \in Keys |->
                     IF qry[c][k] \in alive THEN qry[c][k] ELSE None]]
      /\ changed' = [s \in Scans |-> chg[s] \cap kept]
  BY DEF Settle, Unexpired
<1>2. \A i \in alive : stage'[i] = st[i]
  BY <1>1
<1>3. \A k, d : /\ ReleasedStage(k, d).key = k /\ ReleasedStage(k, d).db = d
                /\ ReleasedStage(k, d).released /\ ~ReleasedStage(k, d).stale
                /\ ReleasedStage(k, d).loaded = {}
  BY DEF ReleasedStage, StageOf
<1>4. ~FreeStage.stale /\ FreeStage.loaded = {}
  BY DEF FreeStage, NewStage, StageOf
<1>5. \A i \in StageIds \ alive : i \in Entries' => stage'[i] = ReleasedStage(st[i].key, st[i].db)
  BY <1>1
<1>6. \A i \in StageIds \ alive : ~stage'[i].stale /\ stage'[i].loaded = {}
  BY <1>1, <1>3, <1>4
<1>7. \A i \in StageIds : i \in Alive' <=> i \in alive
  BY <1>2, <1>3, <1>5, AliveNext
<1>8. \A i \in StageIds : i \in Alive' <=> (i \in Handles' \/ (i \in Entries' /\ ~st[i].released))
  BY <1>7
<1>9. \A i : i \in Alive' => i \in StageIds
  BY AliveNext
<1>10. \A i : i \in Alive' <=> i \in alive
  BY <1>7, <1>9
<1>11. \A f \in Files : f \in kept <=> \E i \in Alive' : f \in st[i].loaded
  BY <1>10
<1>12. \A i \in StageIds : i \in Entries' =>
                /\ stage'[i].key = st[i].key /\ stage'[i].db = st[i].db
                /\ st[i].released => stage'[i].released
                /\ stage'[i].released => st[i].released
  <2> SUFFICES ASSUME NEW i \in StageIds, i \in Entries'
               PROVE  /\ stage'[i].key = st[i].key /\ stage'[i].db = st[i].db
                      /\ st[i].released => stage'[i].released
                      /\ stage'[i].released => st[i].released
    OBVIOUS
  <2>1. CASE i \in alive
    BY <1>2, <2>1
  <2>2. CASE i \notin alive
    <3>1. stage'[i] = ReleasedStage(st[i].key, st[i].db) /\ st[i].released
      BY <1>5, <2>2
    <3> QED BY <1>3, <3>1
  <2> QED BY <2>1, <2>2
<1> HIDE DEF alive, kept
<1>13. \A c \in Conns, k \in Keys : query'[c][k] # None =>
                query'[c][k] = qry[c][k] /\ query'[c][k] \in Alive'
  BY <1>1, <1>10
<1>14. \A s \in Scans, f \in Files : f \in changed'[s] <=>
                f \in chg[s] /\ \E i \in Alive' : f \in st[i].loaded
  BY <1>1, <1>11
<1>15. \A f \in Files : /\ (\E i \in Alive' : f \in st[i].loaded) => layer'[f] = lay[f]
                        /\ (\A i \in Alive' : f \notin st[i].loaded) => layer'[f] = NoLayer
  BY <1>1, <1>11
<1>16. \A i : i \in registry' <=> i \in reg /\ i \in Entries'
  BY <1>1
<1> QED BY <1>2, <1>6, <1>8, <1>10, <1>12, <1>13, <1>14, <1>15, <1>16

\* The stages a step ends with are those it began with, but for some it releases
Restored(st) ==
    \A i \in StageIds :
        /\ st[i].key = stage[i].key /\ st[i].db = stage[i].db
        /\ st[i].miss = stage[i].miss /\ st[i].missed = stage[i].missed
        /\ st[i].loaded = stage[i].loaded
        /\ stage[i].released => st[i].released
        /\ st[i].released => stage[i].released \/ i \in Entries

LEMMA SettledKeeps ==
    ASSUME RInv, NEW A \in SUBSET Scans, NEW own \in SUBSET StageIds,
           NEW st \in [StageIds -> StageType], Restored(st), NEW reg, NEW qry, NEW chg,
           Settle(st, layer, reg, qry, chg),
           Waiting(A), Mine(A, own), own \subseteq Alive, RefsFrom(A, own), CacheFrom(own),
           QueriesFrom(A, qry), QueriesEnd(A, qry), query' \in [Conns -> [Keys -> StageIds \cup {None}]]
    PROVE  Step(A, own) /\ Settled
<1>0. LayersOK
  BY DEF RInv
<1>1. /\ \A i \in StageIds : i \in Entries' => i \in Entries \/ i \in own
      /\ \A i \in StageIds : i \in Handles' => i \in Alive \/ i \in own
  BY RefsStep
<1>2. /\ \A i \in StageIds : i \in Alive' <=> (i \in Handles' \/ (i \in Entries' /\ ~st[i].released))
      /\ \A i \in Alive' : stage'[i] = st[i]
      /\ \A i \in StageIds : i \in Entries' =>
           /\ stage'[i].key = st[i].key /\ stage'[i].db = st[i].db
           /\ st[i].released => stage'[i].released
           /\ stage'[i].released => st[i].released
      /\ \A f \in Files : (\E i \in Alive' : f \in st[i].loaded) => layer'[f] = layer[f]
      /\ \A f \in Files : (\A i \in Alive' : f \notin st[i].loaded) => layer'[f] = NoLayer
      /\ \A i : i \in registry' <=> i \in reg /\ i \in Entries'
      /\ \A c \in Conns, k \in Keys : query'[c][k] # None =>
           query'[c][k] = qry[c][k] /\ query'[c][k] \in Alive'
  BY SettleFacts
<1>3. \A i : (i \in Alive => i \in StageIds) /\ (i \in Alive' => i \in StageIds)
  BY AliveAre, AliveNext
<1>4. \A i \in Alive' : i \in Alive
  <2> SUFFICES ASSUME NEW i \in Alive' PROVE i \in Alive
    OBVIOUS
  <2>1. CASE i \in own
    BY <2>1
  <2>2. CASE i \notin own /\ i \in Handles'
    BY <2>2, <1>1, <1>3
  <2>3. CASE i \notin own /\ i \in Entries' /\ ~st[i].released
    BY <2>3, <1>1, <1>3, AliveAre DEF Restored
  <2> QED BY <2>1, <2>2, <2>3, <1>2, <1>3
<1>5. \A i \in StageIds : i \in Entries' \/ i \in Handles' => Stays(i)
  <2> SUFFICES ASSUME NEW i \in StageIds, i \in Entries' \/ i \in Handles' PROVE Stays(i)
    OBVIOUS
  <2>1. CASE i \in Entries'
    BY <2>1, <1>2 DEF Restored, Stays
  <2>2. CASE i \in Handles'
    BY <2>2, <1>2 DEF Restored, Stays
  <2> QED BY <2>1, <2>2
<1>6. \A i \in Alive' : Contents(i)
  BY <1>2, <1>3 DEF Restored, Contents
<1>7. \A i \in Alive' : stage[i].loaded = st[i].loaded /\ stage[i].loaded \subseteq Files
  BY <1>2, <1>3 DEF Restored, StageType
<1>8. \A i \in Alive' : \A f \in stage[i].loaded : layer'[f] = layer[f]
  BY <1>2, <1>7
<1>9. \A i \in Alive' : \A f \in stage[i].loaded : LayerStays(f)
  BY <1>8 DEF LayerStays
<1>10. \A c \in Conns, k \in Keys : query'[c][k] = None \/ query'[c][k] = qry[c][k]
  BY <1>2
<1>11. QueriesFrom(A, query') /\ QueriesEnd(A, query')
  <2>1. QueriesFrom(A, query')
    BY <1>2, <1>10 DEF QueriesFrom
  <2>2. \A u \in A : Conn(u) \in Conns
    BY ConfigAssumption DEF Conn
  <2> QED BY <2>1, <2>2, <1>10 DEF QueriesEnd
<1>12. LayersOK'
  <2>1. \A i \in Alive' : \A f \in stage'[i].loaded : layer'[f].version # 0
    BY <1>0, <1>2, <1>4, <1>7, <1>8 DEF LayersOK
  <2>2. \A f \in Files : layer'[f].version # 0 => \E i \in Alive' : f \in stage'[i].loaded
    <3> SUFFICES ASSUME NEW f \in Files, \A i \in Alive' : f \notin stage'[i].loaded
                 PROVE  layer'[f].version = 0
      OBVIOUS
    <3>1. layer'[f] = NoLayer
      BY <1>2
    <3> QED BY <3>1 DEF NoLayer
  <2> QED BY <2>1, <2>2 DEF LayersOK
<1> QED
  BY <1>1, <1>2, <1>4, <1>5, <1>6, <1>9, <1>11, <1>12 DEF Step, Settled

\* A step that drops no reference
NoneDropped(A) ==
    \A u \in A :
        /\ op[u].cur # None => op'[u].cur = op[u].cur
        /\ op[u].ent # None => op'[u].ent = op[u].ent
        /\ op[u].snap \subseteq op'[u].snap
        /\ op[u].pc # "test"

LEMMA NoneDroppedStep ==
    ASSUME NEW A \in SUBSET Scans, Waiting(A), NoneDropped(A), cache' = cache
    PROVE  \A i \in StageIds : (i \in Entries => i \in Entries') /\ (i \in Handles => i \in Handles')
<1> SUFFICES ASSUME NEW i \in StageIds
             PROVE  (i \in Entries => i \in Entries') /\ (i \in Handles => i \in Handles')
  OBVIOUS
<1>0. i # None
  BY NoneAssumption
<1>1. ASSUME i \in Entries PROVE i \in Entries'
  <2>1. CASE \E d \in Dbs, k \in Keys : cache[d][k] = i
    BY <2>1, EntriesNext
  <2>2. CASE \E s \in Scans : op[s].ent = i \/ i \in op[s].snap
    <3>1. PICK s \in Scans : op[s].ent = i \/ i \in op[s].snap
      BY <2>2
    <3>2. op'[s].ent = i \/ i \in op'[s].snap
      BY <1>0, <3>1 DEF Waiting, NoneDropped
    <3> QED BY <3>2, EntriesNext
  <2> QED BY <1>1, <2>1, <2>2, EntriesAre
<1>2. ASSUME i \in Handles PROVE i \in Handles'
  <2>1. PICK s \in Scans : op[s].cur = i \/ (op[s].pc = "test" /\ op[s].vic = i)
    BY <1>2, HandlesAre
  <2>2. op'[s].cur = i \/ (op'[s].pc = "test" /\ op'[s].vic = i)
    BY <1>0, <2>1 DEF Waiting, NoneDropped
  <2> QED BY <2>2, HandlesNext
<1> QED BY <1>1, <1>2

LEMMA UnsettledKeeps ==
    ASSUME RInv, NEW A \in SUBSET Scans, Unsettled, cache' = cache,
           Waiting(A), RefsFrom(A, {}), NoneDropped(A), QueriesEnd(A, query)
    PROVE  Step(A, {}) /\ Settled
<1>0. LayersOK /\ registry \subseteq Entries /\ registry \subseteq StageIds /\ QueryOK
  BY DEF RInv, TInv, TypeOK
<1>1. stage' = stage /\ layer' = layer /\ registry' = registry /\ query' = query
  BY DEF Unsettled
<1>2. CacheFrom({}) /\ Mine(A, {}) /\ QueriesFrom(A, query') /\ QueriesEnd(A, query')
  BY <1>1 DEF CacheFrom, Mine, QueriesFrom
<1>3. /\ \A i \in StageIds : i \in Entries' => i \in Entries
      /\ \A i \in StageIds : i \in Handles' => i \in Alive
  <2>1. {} \in SUBSET StageIds
    OBVIOUS
  <2> QED BY <1>2, <2>1, RefsStep
<1>4. \A i \in StageIds : (i \in Entries => i \in Entries') /\ (i \in Handles => i \in Handles')
  BY NoneDroppedStep
<1>5. \A i : i \in Alive <=> i \in Alive'
  BY <1>1, <1>3, <1>4, AliveAre, AliveNext
<1>6. \A i \in StageIds : Stays(i) /\ Contents(i)
  BY <1>1 DEF Stays, Contents
<1>7. \A f : LayerStays(f)
  BY <1>1 DEF LayerStays
<1>8. LayersOK'
  BY <1>0, <1>1, <1>5 DEF LayersOK
<1>9. \A c \in Conns, k \in Keys : query'[c][k] # None => query'[c][k] \in Alive'
  BY <1>0, <1>1, <1>5 DEF QueryOK
<1> QED
  BY <1>0, <1>1, <1>2, <1>3, <1>4, <1>6, <1>7, <1>8, <1>9 DEF Step, Settled

\* A call that waits keeps what it knows of its stages
LEMMA OthersKeep ==
    ASSUME RInv, NEW A \in SUBSET Scans, NEW own \in SUBSET StageIds, Step(A, own),
           NEW t \in Scans \ A
    PROVE  RefsOf(t)' /\ UnseenOf(t)'
<1>0. /\ RefsOf(t) /\ UnseenOf(t) /\ op[t] \in OpType
      /\ Conn(t)' = Conn(t) /\ Db(t)' = Db(t)
  BY DEF RInv, TInv, TypeOK, Conn, Db
<1>1. op'[t] = op[t]
  BY DEF Step, Waiting
<1>2. \A i \in StageIds : op[t].cur = i => i \in Alive /\ i \in Handles' /\ i \notin own
  BY <1>1, HandlesAre, HandlesNext, AliveAre DEF Step, Mine
<1>3. \A i \in StageIds : op[t].ent = i \/ i \in op[t].snap => i \in Entries /\ i \in Entries'
  BY <1>1, EntriesAre, EntriesNext
<1>4. \A i \in StageIds : op[t].cur = i \/ op[t].ent = i \/ i \in op[t].snap => Stays(i)
  BY <1>2, <1>3 DEF Step
<1>5. /\ op[t].cur \in StageIds \cup {None} /\ op[t].ent \in StageIds \cup {None}
      /\ op[t].snap \subseteq StageIds
  BY <1>0 DEF OpType
<1>6. RefsOf(t)'
  <2>1. ShapeOf(op[t])'
    BY <1>0, <1>1 DEF RefsOf, ShapeOf
  <2>2. op[t].cur # None => stage'[op[t].cur].key = op[t].key /\ stage'[op[t].cur].db = Db(t)
    BY <1>0, <1>4, <1>5 DEF RefsOf, StageIs, Stays
  <2>3. op[t].ent # None => stage'[op[t].ent].key = op[t].key /\ stage'[op[t].ent].db = Db(t)
    BY <1>0, <1>4, <1>5 DEF RefsOf, StageIs, Stays
  <2>4. \A i \in op[t].snap : stage'[i].key # None
    BY <1>0, <1>4, <1>5 DEF RefsOf, Stays
  <2> QED BY <1>0, <1>1, <2>1, <2>2, <2>3, <2>4 DEF RefsOf, StageIs
<1>7. UnseenOf(t)'
  <2> DEFINE i == op[t].cur
  <2> SUFFICES ASSUME Composing(op[t])
               PROVE  /\ i \notin Entries'
                      /\ \A u \in Scans \ {t} : op'[u].cur # i
                      /\ \A c \in Conns, k \in Keys : query'[c][k] # i
                      /\ ~stage'[i].released
    BY <1>1 DEF UnseenOf, Composing
  <2>0. /\ i \in StageIds /\ i # None /\ i \notin own
        /\ i \notin Entries /\ \A u \in Scans \ {t} : op[u].cur # i
        /\ \A c \in Conns, k \in Keys : query[c][k] # i
        /\ ~stage[i].released
    BY <1>0, <1>2, <1>5, NoneAssumption DEF Composing, UnseenOf
  <2>a. i \in Handles'
    BY <1>2, <2>0
  <2> HIDE DEF i
  <2>1. i \notin Entries'
    BY <2>0 DEF Step
  <2>2. \A u \in Scans \ {t} : op'[u].cur # i
    <3> SUFFICES ASSUME NEW u \in Scans \ {t} PROVE op'[u].cur # i
      OBVIOUS
    <3>1. CASE u \in A
      <4>1. \A k \in Keys : query[Conn(u)][k] # i
        BY <2>0, ConfigAssumption DEF Conn
      <4> QED BY <2>0, <3>1, <4>1 DEF Step, RefsFrom
    <3>2. CASE u \notin A
      <4>1. op'[u] = op[u]
        BY <3>2 DEF Step, Waiting
      <4> QED BY <2>0, <4>1
    <3> QED BY <3>1, <3>2
  <2>3. \A c \in Conns, k \in Keys : query'[c][k] # i
    <3> SUFFICES ASSUME NEW c \in Conns, NEW k \in Keys, query'[c][k] = i PROVE FALSE
      OBVIOUS
    <3>1. query'[c][k] = query[c][k] \/ \E u \in A : query'[c][k] = op[u].cur
      BY <2>0 DEF Step, QueriesFrom
    <3> QED BY <2>0, <3>1
  <2>4. ~stage'[i].released
    BY <2>0, <2>a, AliveNext DEF Step, Contents
  <2> QED BY <2>1, <2>2, <2>3, <2>4
<1> QED BY <1>6, <1>7

\* The caches and queries keep what they hold, and so a step keeps RInv if the
\* calls that take it do
LEMMA RStep ==
    ASSUME RInv, TInv', NEW A \in SUBSET Scans, NEW own \in SUBSET StageIds, Step(A, own), Settled,
           \A u \in A : RefsOf(u)' /\ UnseenOf(u)'
    PROVE  RInv'
<1>0. /\ TypeOK /\ TypeOK' /\ CacheOK /\ QueryOK /\ \A s \in Scans : RefsOf(s) /\ op[s] \in OpType
      /\ \A s \in Scans : Conn(s) \in Conns /\ Db(s) = DbOf[Conn(s)]
  BY ConfigAssumption DEF RInv, TInv, TypeOK, Conn, Db
<1>1. \A s \in Scans : RefsOf(s)' /\ UnseenOf(s)'
  BY OthersKeep
<1>2. CacheOK'
  <2> SUFFICES ASSUME NEW d \in Dbs, NEW k \in Keys, cache'[d][k] # None
               PROVE  stage'[cache'[d][k]].key = k /\ stage'[cache'[d][k]].db = d
    BY DEF CacheOK, StageIs
  <2>1. PICK i \in StageIds : i = cache'[d][k]
    BY <1>0 DEF TypeOK
  <2>2. i \in Entries' /\ i # None
    BY <2>1, EntriesNext
  <2>3. StageIs(i, k, d) /\ (i \in Entries \/ i \in Alive)
    BY <1>0, <2>1, EntriesAre DEF CacheOK, Step, CacheFrom
  <2>4. Stays(i)
    BY <2>2, <2>3 DEF Step
  <2> QED BY <2>1, <2>3, <2>4 DEF Stays, StageIs
<1>3. QueryOK'
  <2>1. ASSUME NEW c \in Conns, NEW k \in Keys, query'[c][k] # None
        PROVE  /\ query'[c][k] \in Alive'
               /\ stage'[query'[c][k]].key = k /\ stage'[query'[c][k]].db = DbOf[c]
    <3>1. PICK i \in StageIds : i = query'[c][k]
      BY <1>0, <2>1 DEF TypeOK
    <3>2. i \in Alive' /\ i # None
      BY <2>1, <3>1 DEF Settled
    <3>3. StageIs(i, k, DbOf[c]) /\ i \in Alive
      <4>1. CASE i = query[c][k]
        BY <1>0, <3>2, <4>1 DEF QueryOK
      <4>2. CASE \E u \in A : i = op[u].cur /\ Conn(u) = c /\ op[u].key = k
        BY <1>0, <3>2, <4>2, HandlesAre, AliveAre DEF RefsOf
      <4> QED BY <2>1, <3>1, <4>1, <4>2 DEF Step, QueriesFrom
    <3>4. Stays(i)
      BY <3>2, <3>3, AliveNext DEF Step
    <3> QED BY <3>1, <3>2, <3>3, <3>4 DEF Stays, StageIs
  <2>2. ASSUME NEW c \in Conns, NEW k \in Keys, QueryIdle(c)' PROVE query'[c][k] = None
    <3> SUFFICES ASSUME query'[c][k] # None PROVE FALSE
      OBVIOUS
    <3>1. \A s \in Scans : Conn(s) = c => op'[s].pc = "idle"
      BY <2>2 DEF QueryIdle, Conn
    <3>2. \A u \in A : Conn(u) # c
      BY <3>1 DEF Step, QueriesEnd
    <3>3. QueryIdle(c)
      BY <3>1, <3>2 DEF Step, Waiting, QueryIdle
    <3>4. query[c][k] = None
      BY <1>0, <3>3 DEF QueryOK
    <3> QED BY <3>2, <3>4 DEF Step, QueriesFrom
  <2> QED BY <2>1, <2>2 DEF QueryOK, StageIs
<1> QED BY <1>0, <1>1, <1>2, <1>3 DEF RInv, Settled

-----------------------------------------------------------------------------
(* What each action makes of the call *)

\* After the step: its step and pass, its key, stage and entry, the files left to
\* visit, and its snapshot, what is left of it, and its element
At(s, pc, pass) == op'[s].pc = pc /\ op'[s].pass = pass
Holds(s, key, cur, ent) == op'[s].key = key /\ op'[s].cur = cur /\ op'[s].ent = ent
HoldsStill(s) == Holds(s, op[s].key, op[s].cur, op[s].ent)
LeftTo(s, todo) == op'[s].todo = todo
Visits(s, snap, sweep, vic) == op'[s].snap = snap /\ op'[s].sweep = sweep /\ op'[s].vic = vic
CachedFor(s) == cache[Db(s)][op[s].key]
InCache(s) == cache[Db(s)][stage[op[s].vic].key] = op[s].vic
VisitsStill(s) == Visits(s, op[s].snap, op[s].sweep, op[s].vic)

LEMMA BeginScanCall ==
    ASSUME TInv, NEW s \in Scans, NEW k \in Keys, BeginScan(s, k)
    PROVE  /\ Waiting({s}) /\ op[s].pc = "idle"
           /\ \/ /\ query[Conn(s)][k] # None
                 /\ At(s, "using", "cached") /\ Holds(s, k, query[Conn(s)][k], None)
                 /\ LeftTo(s, {}) /\ Visits(s, {}, {}, None)
              \/ /\ query[Conn(s)][k] = None
                 /\ At(s, "lookup", "cached") /\ Holds(s, k, None, None)
                 /\ LeftTo(s, {}) /\ Visits(s, {}, {}, None)
<1>0. op \in [Scans -> OpType] /\ op[s] \in OpType
  BY DEF TInv, TypeOK
<1>1. ASSUME op' = [op EXCEPT ![s] =
                  CallAt("using", k, query[Conn(s)][k])]
      PROVE  /\ Waiting({s})
             /\ At(s, "using", "cached") /\ Holds(s, k, query[Conn(s)][k], None)
             /\ LeftTo(s, {}) /\ Visits(s, {}, {}, None)
  <2>1. Waiting({s}) /\ op'[s] = CallAt("using", k, query[Conn(s)][k])
    BY <1>0, <1>1 DEF Waiting
  <2> QED BY <1>0, <2>1 DEF OpType, At, Holds, HoldsStill, LeftTo, Visits, VisitsStill, CallAt
<1>2. ASSUME op' = [op EXCEPT ![s] =
                  CallAt("lookup", k, None)]
      PROVE  /\ Waiting({s})
             /\ At(s, "lookup", "cached") /\ Holds(s, k, None, None)
             /\ LeftTo(s, {}) /\ Visits(s, {}, {}, None)
  <2>1. Waiting({s}) /\ op'[s] = CallAt("lookup", k, None)
    BY <1>0, <1>2 DEF Waiting
  <2> QED BY <1>0, <2>1 DEF OpType, At, Holds, HoldsStill, LeftTo, Visits, VisitsStill, CallAt
<1> QED BY <1>1, <1>2 DEF Becomes, BeginScan

LEMMA LookupCall ==
    ASSUME TInv, NEW s \in Scans, Lookup(s)
    PROVE  /\ Waiting({s}) /\ op[s].pc = "lookup"
           /\ \/ /\ At(s, "open", "first") /\ HoldsStill(s)
                 /\ LeftTo(s, op[s].todo) /\ VisitsStill(s)
              \/ /\ CachedFor(s) = None
                 /\ At(s, "open", "first") /\ HoldsStill(s)
                 /\ LeftTo(s, op[s].todo) /\ VisitsStill(s)
              \/ /\ CachedFor(s) # None
                 /\ At(s, "gethandle", op[s].pass) /\ Holds(s, op[s].key, op[s].cur, CachedFor(s))
                 /\ LeftTo(s, op[s].todo) /\ VisitsStill(s)
<1>0. op \in [Scans -> OpType] /\ op[s] \in OpType
  BY DEF TInv, TypeOK
<1>1. ASSUME op' = [op EXCEPT ![s] =
                  [op[s] EXCEPT !.pc = "open", !.pass = "first"]]
      PROVE  /\ Waiting({s})
             /\ At(s, "open", "first") /\ HoldsStill(s)
             /\ LeftTo(s, op[s].todo) /\ VisitsStill(s)
  <2>1. Waiting({s}) /\ op'[s] = [op[s] EXCEPT !.pc = "open", !.pass = "first"]
    BY <1>0, <1>1 DEF Waiting
  <2> QED BY <1>0, <2>1 DEF OpType, At, Holds, HoldsStill, LeftTo, Visits, VisitsStill
<1>2. ASSUME op' = [op EXCEPT ![s] =
                  [op[s] EXCEPT !.pc = "open", !.pass = "first", !.caching = TRUE]]
      PROVE  /\ Waiting({s})
             /\ At(s, "open", "first") /\ HoldsStill(s)
             /\ LeftTo(s, op[s].todo) /\ VisitsStill(s)
  <2>1. Waiting({s}) /\ op'[s] = [op[s] EXCEPT !.pc = "open", !.pass = "first", !.caching = TRUE]
    BY <1>0, <1>2 DEF Waiting
  <2> QED BY <1>0, <2>1 DEF OpType, At, Holds, HoldsStill, LeftTo, Visits, VisitsStill
<1>3. ASSUME op' = [op EXCEPT ![s] =
                  [op[s] EXCEPT !.pc = "gethandle", !.ent = CachedFor(s), !.caching = TRUE]]
      PROVE  /\ Waiting({s})
             /\ At(s, "gethandle", op[s].pass) /\ Holds(s, op[s].key, op[s].cur, CachedFor(s))
             /\ LeftTo(s, op[s].todo) /\ VisitsStill(s)
  <2>1. /\ Waiting({s})
        /\ op'[s] = [op[s] EXCEPT !.pc = "gethandle", !.ent = CachedFor(s), !.caching = TRUE]
    BY <1>0, <1>3 DEF Waiting
  <2> QED BY <1>0, <2>1 DEF OpType, At, Holds, HoldsStill, LeftTo, Visits, VisitsStill
<1> QED BY <1>1, <1>2, <1>3 DEF Becomes, Lookup, CachedFor

LEMMA GetHandleCall ==
    ASSUME TInv, NEW s \in Scans, GetHandle(s)
    PROVE  /\ Waiting({s}) /\ op[s].pc = "gethandle"
           /\ \/ /\ stage[op[s].ent].released
                 /\ At(s, "release", op[s].pass) /\ HoldsStill(s)
                 /\ LeftTo(s, op[s].todo) /\ VisitsStill(s)
              \/ /\ ~stage[op[s].ent].released
                 /\ At(s, "stat", op[s].pass) /\ Holds(s, op[s].key, op[s].ent, op[s].ent)
                 /\ LeftTo(s, stage[op[s].ent].loaded) /\ VisitsStill(s)
<1>0. op \in [Scans -> OpType] /\ op[s] \in OpType
  BY DEF TInv, TypeOK
<1>1. ASSUME op' = [op EXCEPT ![s] =
                  [op[s] EXCEPT !.pc = "release"]]
      PROVE  /\ Waiting({s})
             /\ At(s, "release", op[s].pass) /\ HoldsStill(s)
             /\ LeftTo(s, op[s].todo) /\ VisitsStill(s)
  <2>1. Waiting({s}) /\ op'[s] = [op[s] EXCEPT !.pc = "release"]
    BY <1>0, <1>1 DEF Waiting
  <2> QED BY <1>0, <2>1 DEF OpType, At, Holds, HoldsStill, LeftTo, Visits, VisitsStill
<1>2. ASSUME op' = [op EXCEPT ![s] =
                  [op[s] EXCEPT !.pc = "stat", !.cur = op[s].ent, !.todo = stage[op[s].ent].loaded]]
      PROVE  /\ Waiting({s})
             /\ At(s, "stat", op[s].pass) /\ Holds(s, op[s].key, op[s].ent, op[s].ent)
             /\ LeftTo(s, stage[op[s].ent].loaded) /\ VisitsStill(s)
  <2>1. /\ Waiting({s})
        /\ op'[s] = [op[s] EXCEPT !.pc = "stat", !.cur = op[s].ent, !.todo = stage[op[s].ent].loaded]
    BY <1>0, <1>2 DEF Waiting
  <2> QED BY <1>0, <2>1 DEF OpType, At, Holds, HoldsStill, LeftTo, Visits, VisitsStill
<1> QED BY <1>1, <1>2 DEF Becomes, GetHandle, Goto

LEMMA ReadStampCall ==
    ASSUME TInv, NEW s \in Scans, NEW f \in Files, ReadStamp(s, f)
    PROVE  /\ Waiting({s}) /\ op[s].pc = "stat" /\ f \in op[s].todo
           /\ op'[s].at = f /\ op'[s].seen = Stamp(f)
           /\ At(s, "compare", op[s].pass) /\ HoldsStill(s)
           /\ LeftTo(s, op[s].todo) /\ VisitsStill(s)
<1>0. op \in [Scans -> OpType] /\ op[s] \in OpType
  BY DEF TInv, TypeOK
<1>1. ASSUME op' = [op EXCEPT ![s] =
                  [op[s] EXCEPT !.pc = "compare", !.at = f, !.seen = Stamp(f)]]
      PROVE  /\ Waiting({s})
             /\ At(s, "compare", op[s].pass) /\ HoldsStill(s)
             /\ LeftTo(s, op[s].todo) /\ VisitsStill(s)
             /\ op'[s].at = f /\ op'[s].seen = Stamp(f)
  <2>1. Waiting({s}) /\ op'[s] = [op[s] EXCEPT !.pc = "compare", !.at = f, !.seen = Stamp(f)]
    BY <1>0, <1>1 DEF Waiting
  <2> QED BY <1>0, <2>1 DEF OpType, At, Holds, HoldsStill, LeftTo, Visits, VisitsStill
<1> QED BY <1>1 DEF Becomes, ReadStamp

LEMMA CompareCall ==
    ASSUME TInv, NEW s \in Scans, Compare(s)
    PROVE  /\ Waiting({s}) /\ op[s].pc = "compare"
           /\ At(s, "stat", op[s].pass) /\ HoldsStill(s)
           /\ LeftTo(s, op[s].todo \ {op[s].at}) /\ VisitsStill(s)
<1>0. op \in [Scans -> OpType] /\ op[s] \in OpType
  BY DEF TInv, TypeOK
<1>1. ASSUME op' = [op EXCEPT ![s] =
                  [op[s] EXCEPT !.pc = "stat", !.todo = op[s].todo \ {op[s].at}, !.at = None, !.seen = NoStamp]]
      PROVE  /\ Waiting({s})
             /\ At(s, "stat", op[s].pass) /\ HoldsStill(s)
             /\ LeftTo(s, op[s].todo \ {op[s].at}) /\ VisitsStill(s)
  <2>1. /\ Waiting({s})
        /\ op'[s] =
             [op[s] EXCEPT !.pc = "stat", !.todo = op[s].todo \ {op[s].at}, !.at = None, !.seen = NoStamp]
    BY <1>0, <1>1 DEF Waiting
  <2> QED BY <1>0, <2>1 DEF OpType, At, Holds, HoldsStill, LeftTo, Visits, VisitsStill
<1> QED BY <1>1 DEF Becomes, Compare

LEMMA ComparedCall ==
    ASSUME TInv, NEW s \in Scans, Compared(s)
    PROVE  /\ Waiting({s}) /\ op[s].pc = "stat" /\ op[s].todo = {}
           /\ \/ /\ op[s].pass = "cached" /\ changed[s] = {} /\ Missing(op[s].cur) = {}
                 /\ At(s, "verify", op[s].pass) /\ HoldsStill(s)
                 /\ LeftTo(s, {}) /\ VisitsStill(s)
              \/ /\ op[s].pass = "cached" /\ changed[s] = {} /\ Missing(op[s].cur) # {}
                 /\ At(s, "missing", op[s].pass) /\ HoldsStill(s)
                 /\ LeftTo(s, Missing(op[s].cur)) /\ VisitsStill(s)
              \/ /\ op[s].pass = "cached" /\ changed[s] # {}
                 /\ At(s, "snapshot", op[s].pass) /\ Holds(s, op[s].key, None, op[s].ent)
                 /\ LeftTo(s, op[s].todo) /\ VisitsStill(s)
              \/ /\ op[s].pass = "first" /\ changed[s] # {}
                 /\ At(s, "snapshot", op[s].pass) /\ HoldsStill(s)
                 /\ LeftTo(s, op[s].todo) /\ VisitsStill(s)
              \/ /\ op[s].pass = "again" \/ (op[s].pass = "first" /\ changed[s] = {})
                 /\ At(s, "verify", op[s].pass) /\ HoldsStill(s)
                 /\ LeftTo(s, op[s].todo) /\ VisitsStill(s)
<1>0. op \in [Scans -> OpType] /\ op[s] \in OpType
  BY DEF TInv, TypeOK
<1>1. ASSUME op' = [op EXCEPT ![s] =
                  [op[s] EXCEPT !.pc = "verify", !.todo = {}]]
      PROVE  /\ Waiting({s})
             /\ At(s, "verify", op[s].pass) /\ HoldsStill(s)
             /\ LeftTo(s, {}) /\ VisitsStill(s)
  <2>1. Waiting({s}) /\ op'[s] = [op[s] EXCEPT !.pc = "verify", !.todo = {}]
    BY <1>0, <1>1 DEF Waiting
  <2> QED BY <1>0, <2>1 DEF OpType, At, Holds, HoldsStill, LeftTo, Visits, VisitsStill
<1>2. ASSUME op' = [op EXCEPT ![s] =
                  [op[s] EXCEPT !.pc = "missing", !.todo = Missing(op[s].cur)]]
      PROVE  /\ Waiting({s})
             /\ At(s, "missing", op[s].pass) /\ HoldsStill(s)
             /\ LeftTo(s, Missing(op[s].cur)) /\ VisitsStill(s)
  <2>1. Waiting({s}) /\ op'[s] = [op[s] EXCEPT !.pc = "missing", !.todo = Missing(op[s].cur)]
    BY <1>0, <1>2 DEF Waiting
  <2> QED BY <1>0, <2>1 DEF OpType, At, Holds, HoldsStill, LeftTo, Visits, VisitsStill
<1>3. ASSUME op' = [op EXCEPT ![s] =
                  [op[s] EXCEPT !.pc = "snapshot", !.cur = None]]
      PROVE  /\ Waiting({s})
             /\ At(s, "snapshot", op[s].pass) /\ Holds(s, op[s].key, None, op[s].ent)
             /\ LeftTo(s, op[s].todo) /\ VisitsStill(s)
  <2>1. Waiting({s}) /\ op'[s] = [op[s] EXCEPT !.pc = "snapshot", !.cur = None]
    BY <1>0, <1>3 DEF Waiting
  <2> QED BY <1>0, <2>1 DEF OpType, At, Holds, HoldsStill, LeftTo, Visits, VisitsStill
<1>4. ASSUME op' = [op EXCEPT ![s] =
                  [op[s] EXCEPT !.pc = "snapshot"]]
      PROVE  /\ Waiting({s})
             /\ At(s, "snapshot", op[s].pass) /\ HoldsStill(s)
             /\ LeftTo(s, op[s].todo) /\ VisitsStill(s)
  <2>1. Waiting({s}) /\ op'[s] = [op[s] EXCEPT !.pc = "snapshot"]
    BY <1>0, <1>4 DEF Waiting
  <2> QED BY <1>0, <2>1 DEF OpType, At, Holds, HoldsStill, LeftTo, Visits, VisitsStill
<1>5. ASSUME op' = [op EXCEPT ![s] =
                  [op[s] EXCEPT !.pc = "verify"]]
      PROVE  /\ Waiting({s})
             /\ At(s, "verify", op[s].pass) /\ HoldsStill(s)
             /\ LeftTo(s, op[s].todo) /\ VisitsStill(s)
  <2>1. Waiting({s}) /\ op'[s] = [op[s] EXCEPT !.pc = "verify"]
    BY <1>0, <1>5 DEF Waiting
  <2> QED BY <1>0, <2>1 DEF OpType, At, Holds, HoldsStill, LeftTo, Visits, VisitsStill
<1> QED BY <1>1, <1>2, <1>3, <1>4, <1>5 DEF Becomes, Compared, CheckNext, Goto

LEMMA CheckMissingCall ==
    ASSUME TInv, NEW s \in Scans, NEW f \in Files, CheckMissing(s, f)
    PROVE  /\ Waiting({s}) /\ op[s].pc = "missing" /\ f \in op[s].todo
           /\ \/ /\ Stamp(f) = stage[op[s].cur].miss[f] /\ op[s].todo \ {f} = {}
                 /\ At(s, "verify", op[s].pass) /\ HoldsStill(s)
                 /\ LeftTo(s, {}) /\ VisitsStill(s)
              \/ /\ Stamp(f) = stage[op[s].cur].miss[f]
                 /\ At(s, "missing", op[s].pass) /\ HoldsStill(s)
                 /\ LeftTo(s, op[s].todo \ {f}) /\ VisitsStill(s)
              \/ /\ Stamp(f) # stage[op[s].cur].miss[f]
                 /\ At(s, "release", op[s].pass) /\ Holds(s, op[s].key, None, op[s].ent)
                 /\ LeftTo(s, {}) /\ VisitsStill(s)
<1>0. op \in [Scans -> OpType] /\ op[s] \in OpType
  BY DEF TInv, TypeOK
<1>1. ASSUME op' = [op EXCEPT ![s] =
                  [op[s] EXCEPT !.pc = "verify", !.todo = {}]]
      PROVE  /\ Waiting({s})
             /\ At(s, "verify", op[s].pass) /\ HoldsStill(s)
             /\ LeftTo(s, {}) /\ VisitsStill(s)
  <2>1. Waiting({s}) /\ op'[s] = [op[s] EXCEPT !.pc = "verify", !.todo = {}]
    BY <1>0, <1>1 DEF Waiting
  <2> QED BY <1>0, <2>1 DEF OpType, At, Holds, HoldsStill, LeftTo, Visits, VisitsStill
<1>2. ASSUME op' = [op EXCEPT ![s] =
                  [op[s] EXCEPT !.pc = "missing", !.todo = op[s].todo \ {f}]]
      PROVE  /\ Waiting({s})
             /\ At(s, "missing", op[s].pass) /\ HoldsStill(s)
             /\ LeftTo(s, op[s].todo \ {f}) /\ VisitsStill(s)
  <2>1. Waiting({s}) /\ op'[s] = [op[s] EXCEPT !.pc = "missing", !.todo = op[s].todo \ {f}]
    BY <1>0, <1>2 DEF Waiting
  <2> QED BY <1>0, <2>1 DEF OpType, At, Holds, HoldsStill, LeftTo, Visits, VisitsStill
<1>3. ASSUME op' = [op EXCEPT ![s] =
                  [op[s] EXCEPT !.pc = "release", !.cur = None, !.todo = {}]]
      PROVE  /\ Waiting({s})
             /\ At(s, "release", op[s].pass) /\ Holds(s, op[s].key, None, op[s].ent)
             /\ LeftTo(s, {}) /\ VisitsStill(s)
  <2>1. Waiting({s}) /\ op'[s] = [op[s] EXCEPT !.pc = "release", !.cur = None, !.todo = {}]
    BY <1>0, <1>3 DEF Waiting
  <2> QED BY <1>0, <2>1 DEF OpType, At, Holds, HoldsStill, LeftTo, Visits, VisitsStill
<1> QED BY <1>1, <1>2, <1>3 DEF Becomes, CheckMissing, CheckNext

LEMMA SnapshotCall ==
    ASSUME TInv, NEW s \in Scans, Snapshot(s)
    PROVE  /\ Waiting({s}) /\ op[s].pc = "snapshot"
           /\ At(s, "sweep", op[s].pass) /\ HoldsStill(s)
           /\ LeftTo(s, op[s].todo) /\ Visits(s, registry, registry, op[s].vic)
<1>0. op \in [Scans -> OpType] /\ op[s] \in OpType
  BY DEF TInv, TypeOK
<1>1. ASSUME op' = [op EXCEPT ![s] =
                  [op[s] EXCEPT !.pc = "sweep", !.snap = registry, !.sweep = registry]]
      PROVE  /\ Waiting({s})
             /\ At(s, "sweep", op[s].pass) /\ HoldsStill(s)
             /\ LeftTo(s, op[s].todo) /\ Visits(s, registry, registry, op[s].vic)
  <2>1. /\ Waiting({s})
        /\ op'[s] = [op[s] EXCEPT !.pc = "sweep", !.snap = registry, !.sweep = registry]
    BY <1>0, <1>1 DEF Waiting
  <2> QED BY <1>0, <2>1 DEF OpType, At, Holds, HoldsStill, LeftTo, Visits, VisitsStill
<1> QED BY <1>1 DEF Becomes, Snapshot

LEMMA SweepTakeCall ==
    ASSUME TInv, NEW s \in Scans, NEW v \in StageIds, SweepTake(s, v)
    PROVE  /\ Waiting({s}) /\ op[s].pc = "sweep" /\ v \in op[s].sweep
           /\ \/ /\ stage[v].released
                 /\ At(s, op[s].pc, op[s].pass) /\ HoldsStill(s)
                 /\ LeftTo(s, op[s].todo) /\ Visits(s, op[s].snap, op[s].sweep \ {v}, op[s].vic)
              \/ /\ ~stage[v].released
                 /\ At(s, "test", op[s].pass) /\ HoldsStill(s)
                 /\ LeftTo(s, op[s].todo) /\ Visits(s, op[s].snap, op[s].sweep \ {v}, v)
<1>0. op \in [Scans -> OpType] /\ op[s] \in OpType
  BY DEF TInv, TypeOK
<1>1. ASSUME op' = [op EXCEPT ![s] =
                  [op[s] EXCEPT !.sweep = op[s].sweep \ {v}]]
      PROVE  /\ Waiting({s})
             /\ At(s, op[s].pc, op[s].pass) /\ HoldsStill(s)
             /\ LeftTo(s, op[s].todo) /\ Visits(s, op[s].snap, op[s].sweep \ {v}, op[s].vic)
  <2>1. Waiting({s}) /\ op'[s] = [op[s] EXCEPT !.sweep = op[s].sweep \ {v}]
    BY <1>0, <1>1 DEF Waiting
  <2> QED BY <1>0, <2>1 DEF OpType, At, Holds, HoldsStill, LeftTo, Visits, VisitsStill
<1>2. ASSUME op' = [op EXCEPT ![s] =
                  [op[s] EXCEPT !.pc = "test", !.sweep = op[s].sweep \ {v}, !.vic = v]]
      PROVE  /\ Waiting({s})
             /\ At(s, "test", op[s].pass) /\ HoldsStill(s)
             /\ LeftTo(s, op[s].todo) /\ Visits(s, op[s].snap, op[s].sweep \ {v}, v)
  <2>1. /\ Waiting({s})
        /\ op'[s] = [op[s] EXCEPT !.pc = "test", !.sweep = op[s].sweep \ {v}, !.vic = v]
    BY <1>0, <1>2 DEF Waiting
  <2> QED BY <1>0, <2>1 DEF OpType, At, Holds, HoldsStill, LeftTo, Visits, VisitsStill
<1> QED BY <1>1, <1>2 DEF Becomes, SweepTake

LEMMA SweepTestCall ==
    ASSUME TInv, NEW s \in Scans, SweepTest(s)
    PROVE  /\ Waiting({s}) /\ op[s].pc = "test"
           /\ \/ /\ stage[op[s].vic].loaded \cap changed[s] = {}
                 /\ At(s, "sweep", op[s].pass) /\ HoldsStill(s)
                 /\ LeftTo(s, op[s].todo) /\ Visits(s, op[s].snap, op[s].sweep, None)
              \/ /\ stage[op[s].vic].loaded \cap changed[s] # {}
                 /\ At(s, "get", op[s].pass) /\ HoldsStill(s)
                 /\ LeftTo(s, op[s].todo) /\ VisitsStill(s)
<1>0. op \in [Scans -> OpType] /\ op[s] \in OpType
  BY DEF TInv, TypeOK
<1>1. ASSUME op' = [op EXCEPT ![s] =
                  [op[s] EXCEPT !.pc = "sweep", !.vic = None]]
      PROVE  /\ Waiting({s})
             /\ At(s, "sweep", op[s].pass) /\ HoldsStill(s)
             /\ LeftTo(s, op[s].todo) /\ Visits(s, op[s].snap, op[s].sweep, None)
  <2>1. Waiting({s}) /\ op'[s] = [op[s] EXCEPT !.pc = "sweep", !.vic = None]
    BY <1>0, <1>1 DEF Waiting
  <2> QED BY <1>0, <2>1 DEF OpType, At, Holds, HoldsStill, LeftTo, Visits, VisitsStill
<1>2. ASSUME op' = [op EXCEPT ![s] =
                  [op[s] EXCEPT !.pc = "get"]]
      PROVE  /\ Waiting({s})
             /\ At(s, "get", op[s].pass) /\ HoldsStill(s)
             /\ LeftTo(s, op[s].todo) /\ VisitsStill(s)
  <2>1. Waiting({s}) /\ op'[s] = [op[s] EXCEPT !.pc = "get"]
    BY <1>0, <1>2 DEF Waiting
  <2> QED BY <1>0, <2>1 DEF OpType, At, Holds, HoldsStill, LeftTo, Visits, VisitsStill
<1> QED BY <1>1, <1>2 DEF Becomes, SweepTest, Goto

LEMMA ReleaseCall ==
    ASSUME TInv, NEW s \in Scans, Release(s)
    PROVE  /\ Waiting({s}) /\ op[s].pc = "release"
           /\ At(s, "get", "first") /\ HoldsStill(s)
           /\ LeftTo(s, op[s].todo) /\ Visits(s, op[s].snap, op[s].sweep, op[s].ent)
<1>0. op \in [Scans -> OpType] /\ op[s] \in OpType
  BY DEF TInv, TypeOK
<1>1. ASSUME op' = [op EXCEPT ![s] =
                  [op[s] EXCEPT !.pc = "get", !.pass = "first", !.vic = op[s].ent]]
      PROVE  /\ Waiting({s})
             /\ At(s, "get", "first") /\ HoldsStill(s)
             /\ LeftTo(s, op[s].todo) /\ Visits(s, op[s].snap, op[s].sweep, op[s].ent)
  <2>1. Waiting({s}) /\ op'[s] = [op[s] EXCEPT !.pc = "get", !.pass = "first", !.vic = op[s].ent]
    BY <1>0, <1>1 DEF Waiting
  <2> QED BY <1>0, <2>1 DEF OpType, At, Holds, HoldsStill, LeftTo, Visits, VisitsStill
<1> QED BY <1>1 DEF Becomes, Release

LEMMA RemoveGetCall ==
    ASSUME TInv, NEW s \in Scans, RemoveGet(s)
    PROVE  /\ Waiting({s}) /\ op[s].pc = "get"
           /\ \/ /\ InCache(s)
                 /\ At(s, "delete", op[s].pass) /\ HoldsStill(s)
                 /\ LeftTo(s, op[s].todo) /\ VisitsStill(s)
              \/ /\ ~InCache(s) /\ op[s].pass = "first" /\ op[s].ent # None
                 /\ At(s, "open", op[s].pass) /\ Holds(s, op[s].key, op[s].cur, None)
                 /\ LeftTo(s, op[s].todo) /\ Visits(s, op[s].snap, op[s].sweep, None)
              \/ /\ ~InCache(s) /\ (op[s].pass = "cached" \/ (op[s].pass = "first" /\ op[s].ent = None))
                 /\ At(s, "sweep", op[s].pass) /\ HoldsStill(s)
                 /\ LeftTo(s, op[s].todo) /\ Visits(s, op[s].snap, op[s].sweep, None)
              \/ /\ ~InCache(s) /\ op[s].pass \in {"room", "drop"}
                 /\ At(s, "evicting", op[s].pass) /\ HoldsStill(s)
                 /\ LeftTo(s, op[s].todo) /\ Visits(s, op[s].snap, op[s].sweep, None)
<1>0. op \in [Scans -> OpType] /\ op[s] \in OpType
  BY DEF TInv, TypeOK
<1>1. ASSUME op' = [op EXCEPT ![s] =
                  [op[s] EXCEPT !.pc = "delete"]]
      PROVE  /\ Waiting({s})
             /\ At(s, "delete", op[s].pass) /\ HoldsStill(s)
             /\ LeftTo(s, op[s].todo) /\ VisitsStill(s)
  <2>1. Waiting({s}) /\ op'[s] = [op[s] EXCEPT !.pc = "delete"]
    BY <1>0, <1>1 DEF Waiting
  <2> QED BY <1>0, <2>1 DEF OpType, At, Holds, HoldsStill, LeftTo, Visits, VisitsStill
<1>2. ASSUME op' = [op EXCEPT ![s] =
                  [op[s] EXCEPT !.pc = "open", !.ent = None, !.vic = None]]
      PROVE  /\ Waiting({s})
             /\ At(s, "open", op[s].pass) /\ Holds(s, op[s].key, op[s].cur, None)
             /\ LeftTo(s, op[s].todo) /\ Visits(s, op[s].snap, op[s].sweep, None)
  <2>1. Waiting({s}) /\ op'[s] = [op[s] EXCEPT !.pc = "open", !.ent = None, !.vic = None]
    BY <1>0, <1>2 DEF Waiting
  <2> QED BY <1>0, <2>1 DEF OpType, At, Holds, HoldsStill, LeftTo, Visits, VisitsStill
<1>3. ASSUME op' = [op EXCEPT ![s] =
                  [op[s] EXCEPT !.pc = "sweep", !.vic = None]]
      PROVE  /\ Waiting({s})
             /\ At(s, "sweep", op[s].pass) /\ HoldsStill(s)
             /\ LeftTo(s, op[s].todo) /\ Visits(s, op[s].snap, op[s].sweep, None)
  <2>1. Waiting({s}) /\ op'[s] = [op[s] EXCEPT !.pc = "sweep", !.vic = None]
    BY <1>0, <1>3 DEF Waiting
  <2> QED BY <1>0, <2>1 DEF OpType, At, Holds, HoldsStill, LeftTo, Visits, VisitsStill
<1>4. ASSUME op' = [op EXCEPT ![s] =
                  [op[s] EXCEPT !.pc = "evicting", !.vic = None]]
      PROVE  /\ Waiting({s})
             /\ At(s, "evicting", op[s].pass) /\ HoldsStill(s)
             /\ LeftTo(s, op[s].todo) /\ Visits(s, op[s].snap, op[s].sweep, None)
  <2>1. Waiting({s}) /\ op'[s] = [op[s] EXCEPT !.pc = "evicting", !.vic = None]
    BY <1>0, <1>4 DEF Waiting
  <2> QED BY <1>0, <2>1 DEF OpType, At, Holds, HoldsStill, LeftTo, Visits, VisitsStill
<1> QED BY <1>1, <1>2, <1>3, <1>4 DEF Becomes, RemoveGet, AfterRemove, Goto, InCache

LEMMA RemoveDeleteCall ==
    ASSUME TInv, NEW s \in Scans, RemoveDelete(s)
    PROVE  /\ Waiting({s}) /\ op[s].pc = "delete"
           /\ \/ /\ op[s].pass = "first" /\ op[s].ent # None
                 /\ At(s, "open", op[s].pass) /\ Holds(s, op[s].key, op[s].cur, None)
                 /\ LeftTo(s, op[s].todo) /\ Visits(s, op[s].snap, op[s].sweep, None)
              \/ /\ op[s].pass = "cached" \/ (op[s].pass = "first" /\ op[s].ent = None)
                 /\ At(s, "sweep", op[s].pass) /\ HoldsStill(s)
                 /\ LeftTo(s, op[s].todo) /\ Visits(s, op[s].snap, op[s].sweep, None)
              \/ /\ op[s].pass \in {"room", "drop"}
                 /\ At(s, "evicting", op[s].pass) /\ HoldsStill(s)
                 /\ LeftTo(s, op[s].todo) /\ Visits(s, op[s].snap, op[s].sweep, None)
<1>0. op \in [Scans -> OpType] /\ op[s] \in OpType
  BY DEF TInv, TypeOK
<1>1. ASSUME op' = [op EXCEPT ![s] =
                  [op[s] EXCEPT !.pc = "open", !.ent = None, !.vic = None]]
      PROVE  /\ Waiting({s})
             /\ At(s, "open", op[s].pass) /\ Holds(s, op[s].key, op[s].cur, None)
             /\ LeftTo(s, op[s].todo) /\ Visits(s, op[s].snap, op[s].sweep, None)
  <2>1. Waiting({s}) /\ op'[s] = [op[s] EXCEPT !.pc = "open", !.ent = None, !.vic = None]
    BY <1>0, <1>1 DEF Waiting
  <2> QED BY <1>0, <2>1 DEF OpType, At, Holds, HoldsStill, LeftTo, Visits, VisitsStill
<1>2. ASSUME op' = [op EXCEPT ![s] =
                  [op[s] EXCEPT !.pc = "sweep", !.vic = None]]
      PROVE  /\ Waiting({s})
             /\ At(s, "sweep", op[s].pass) /\ HoldsStill(s)
             /\ LeftTo(s, op[s].todo) /\ Visits(s, op[s].snap, op[s].sweep, None)
  <2>1. Waiting({s}) /\ op'[s] = [op[s] EXCEPT !.pc = "sweep", !.vic = None]
    BY <1>0, <1>2 DEF Waiting
  <2> QED BY <1>0, <2>1 DEF OpType, At, Holds, HoldsStill, LeftTo, Visits, VisitsStill
<1>3. ASSUME op' = [op EXCEPT ![s] =
                  [op[s] EXCEPT !.pc = "evicting", !.vic = None]]
      PROVE  /\ Waiting({s})
             /\ At(s, "evicting", op[s].pass) /\ HoldsStill(s)
             /\ LeftTo(s, op[s].todo) /\ Visits(s, op[s].snap, op[s].sweep, None)
  <2>1. Waiting({s}) /\ op'[s] = [op[s] EXCEPT !.pc = "evicting", !.vic = None]
    BY <1>0, <1>3 DEF Waiting
  <2> QED BY <1>0, <2>1 DEF OpType, At, Holds, HoldsStill, LeftTo, Visits, VisitsStill
<1> QED BY <1>1, <1>2, <1>3 DEF Becomes, RemoveDelete, AfterRemove

LEMMA SweepDoneCall ==
    ASSUME TInv, NEW s \in Scans, SweepDone(s)
    PROVE  /\ Waiting({s}) /\ op[s].pc = "sweep" /\ op[s].sweep = {}
           /\ \/ /\ op[s].pass = "cached"
                 /\ At(s, "release", op[s].pass) /\ HoldsStill(s)
                 /\ LeftTo(s, op[s].todo) /\ Visits(s, {}, op[s].sweep, op[s].vic)
              \/ /\ op[s].pass # "cached"
                 /\ At(s, "open", "again") /\ Holds(s, op[s].key, None, op[s].ent)
                 /\ LeftTo(s, op[s].todo) /\ Visits(s, {}, op[s].sweep, op[s].vic)
<1>0. op \in [Scans -> OpType] /\ op[s] \in OpType
  BY DEF TInv, TypeOK
<1>1. ASSUME op' = [op EXCEPT ![s] =
                  [op[s] EXCEPT !.pc = "release", !.snap = {}]]
      PROVE  /\ Waiting({s})
             /\ At(s, "release", op[s].pass) /\ HoldsStill(s)
             /\ LeftTo(s, op[s].todo) /\ Visits(s, {}, op[s].sweep, op[s].vic)
  <2>1. Waiting({s}) /\ op'[s] = [op[s] EXCEPT !.pc = "release", !.snap = {}]
    BY <1>0, <1>1 DEF Waiting
  <2> QED BY <1>0, <2>1 DEF OpType, At, Holds, HoldsStill, LeftTo, Visits, VisitsStill
<1>2. ASSUME op' = [op EXCEPT ![s] =
                  [op[s] EXCEPT !.pc = "open", !.pass = "again", !.cur = None, !.snap = {}]]
      PROVE  /\ Waiting({s})
             /\ At(s, "open", "again") /\ Holds(s, op[s].key, None, op[s].ent)
             /\ LeftTo(s, op[s].todo) /\ Visits(s, {}, op[s].sweep, op[s].vic)
  <2>1. /\ Waiting({s})
        /\ op'[s] = [op[s] EXCEPT !.pc = "open", !.pass = "again", !.cur = None, !.snap = {}]
    BY <1>0, <1>2 DEF Waiting
  <2> QED BY <1>0, <2>1 DEF OpType, At, Holds, HoldsStill, LeftTo, Visits, VisitsStill
<1> QED BY <1>1, <1>2 DEF Becomes, SweepDone, Reopen

LEMMA FailCall ==
    ASSUME TInv, NEW s \in Scans, Fail(s)
    PROVE  /\ Waiting({s})
           /\ At(s, "done", "cached") /\ Holds(s, None, None, None)
           /\ LeftTo(s, {}) /\ Visits(s, {}, {}, None)
<1>0. op \in [Scans -> OpType] /\ op[s] \in OpType
  BY DEF TInv, TypeOK
<1>1. ASSUME op' = [op EXCEPT ![s] =
                  CallAt("done", None, None)]
      PROVE  /\ Waiting({s})
             /\ At(s, "done", "cached") /\ Holds(s, None, None, None)
             /\ LeftTo(s, {}) /\ Visits(s, {}, {}, None)
  <2>1. Waiting({s}) /\ op'[s] = CallAt("done", None, None)
    BY <1>0, <1>1 DEF Waiting
  <2> QED BY <1>0, <2>1 DEF OpType, At, Holds, HoldsStill, LeftTo, Visits, VisitsStill, CallAt
<1> QED BY <1>1 DEF Becomes, Fail, NoCall

LEMMA LoadedCall ==
    ASSUME TInv, NEW s \in Scans, Loaded(s)
    PROVE  /\ Waiting({s}) /\ op[s].pc = "load" /\ op[s].todo = {}
           /\ At(s, "stat", op[s].pass) /\ HoldsStill(s)
           /\ LeftTo(s, stage[op[s].cur].loaded) /\ VisitsStill(s)
<1>0. op \in [Scans -> OpType] /\ op[s] \in OpType
  BY DEF TInv, TypeOK
<1>1. ASSUME op' = [op EXCEPT ![s] =
                  [op[s] EXCEPT !.pc = "stat", !.todo = stage[op[s].cur].loaded]]
      PROVE  /\ Waiting({s})
             /\ At(s, "stat", op[s].pass) /\ HoldsStill(s)
             /\ LeftTo(s, stage[op[s].cur].loaded) /\ VisitsStill(s)
  <2>1. Waiting({s}) /\ op'[s] = [op[s] EXCEPT !.pc = "stat", !.todo = stage[op[s].cur].loaded]
    BY <1>0, <1>1 DEF Waiting
  <2> QED BY <1>0, <2>1 DEF OpType, At, Holds, HoldsStill, LeftTo, Visits, VisitsStill
<1> QED BY <1>1 DEF Becomes, Loaded

LEMMA ReturnCall ==
    ASSUME TInv, NEW s \in Scans, NEW reg, Return(s, reg)
    PROVE  /\ Waiting({s})
           /\ At(s, "using", "cached") /\ Holds(s, op[s].key, op[s].cur, None)
           /\ LeftTo(s, {}) /\ Visits(s, {}, {}, None)
<1>0. op \in [Scans -> OpType] /\ op[s] \in OpType
  BY DEF TInv, TypeOK
<1>1. ASSUME op' = [op EXCEPT ![s] =
                  CallAt("using", op[s].key, op[s].cur)]
      PROVE  /\ Waiting({s})
             /\ At(s, "using", "cached") /\ Holds(s, op[s].key, op[s].cur, None)
             /\ LeftTo(s, {}) /\ Visits(s, {}, {}, None)
  <2>1. Waiting({s}) /\ op'[s] = CallAt("using", op[s].key, op[s].cur)
    BY <1>0, <1>1 DEF Waiting
  <2> QED BY <1>0, <2>1 DEF OpType, At, Holds, HoldsStill, LeftTo, Visits, VisitsStill, CallAt
<1> QED BY <1>1 DEF Becomes, Return

LEMMA MakeRoomCall ==
    ASSUME TInv, NEW s \in Scans, MakeRoom(s)
    PROVE  /\ Waiting({s}) /\ op[s].pc = "verify" /\ Cacheable(s)
           /\ At(s, "evicting", "room") /\ HoldsStill(s)
           /\ LeftTo(s, op[s].todo) /\ Visits(s, OwnStages(Db(s)), OwnStages(Db(s)), op[s].vic)
<1>0. op \in [Scans -> OpType] /\ op[s] \in OpType
  BY DEF TInv, TypeOK
<1>1. ASSUME op' = [op EXCEPT ![s] =
                  [op[s] EXCEPT !.pc = "evicting", !.pass = "room",
                               !.snap = OwnStages(Db(s)), !.sweep = OwnStages(Db(s))]]
      PROVE  /\ Waiting({s})
             /\ At(s, "evicting", "room") /\ HoldsStill(s)
             /\ LeftTo(s, op[s].todo) /\ Visits(s, OwnStages(Db(s)), OwnStages(Db(s)), op[s].vic)
  <2>1. /\ Waiting({s})
        /\ op'[s] =
             [op[s] EXCEPT !.pc = "evicting", !.pass = "room",
                          !.snap = OwnStages(Db(s)), !.sweep = OwnStages(Db(s))]
    BY <1>0, <1>1 DEF Waiting
  <2> QED BY <1>0, <2>1 DEF OpType, At, Holds, HoldsStill, LeftTo, Visits, VisitsStill
<1> QED BY <1>1 DEF Becomes, MakeRoom

LEMMA EvictNextCall ==
    ASSUME TInv, NEW s \in Scans, NEW v \in StageIds, EvictNext(s, v)
    PROVE  /\ Waiting({s}) /\ op[s].pc = "evicting" /\ v \in op[s].sweep
           /\ At(s, "get", op[s].pass) /\ HoldsStill(s)
           /\ LeftTo(s, op[s].todo) /\ Visits(s, op[s].snap, op[s].sweep \ {v}, v)
<1>0. op \in [Scans -> OpType] /\ op[s] \in OpType
  BY DEF TInv, TypeOK
<1>1. ASSUME op' = [op EXCEPT ![s] =
                  [op[s] EXCEPT !.pc = "get", !.sweep = op[s].sweep \ {v}, !.vic = v]]
      PROVE  /\ Waiting({s})
             /\ At(s, "get", op[s].pass) /\ HoldsStill(s)
             /\ LeftTo(s, op[s].todo) /\ Visits(s, op[s].snap, op[s].sweep \ {v}, v)
  <2>1. /\ Waiting({s})
        /\ op'[s] = [op[s] EXCEPT !.pc = "get", !.sweep = op[s].sweep \ {v}, !.vic = v]
    BY <1>0, <1>1 DEF Waiting
  <2> QED BY <1>0, <2>1 DEF OpType, At, Holds, HoldsStill, LeftTo, Visits, VisitsStill
<1> QED BY <1>1 DEF Becomes, EvictNext

LEMMA FitsCall ==
    ASSUME TInv, NEW s \in Scans, Fits(s)
    PROVE  /\ Waiting({s}) /\ op[s].pc = "evicting" /\ op[s].pass = "room"
           /\ At(s, "record", op[s].pass) /\ HoldsStill(s)
           /\ LeftTo(s, Uncomposed(s)) /\ Visits(s, {}, {}, op[s].vic)
<1>0. op \in [Scans -> OpType] /\ op[s] \in OpType
  BY DEF TInv, TypeOK
<1>1. ASSUME op' = [op EXCEPT ![s] =
                  [op[s] EXCEPT !.pc = "record", !.todo = Uncomposed(s),
                               !.snap = {}, !.sweep = {}]]
      PROVE  /\ Waiting({s})
             /\ At(s, "record", op[s].pass) /\ HoldsStill(s)
             /\ LeftTo(s, Uncomposed(s)) /\ Visits(s, {}, {}, op[s].vic)
  <2>1. /\ Waiting({s})
        /\ op'[s] = [op[s] EXCEPT !.pc = "record", !.todo = Uncomposed(s), !.snap = {}, !.sweep = {}]
    BY <1>0, <1>1 DEF Waiting
  <2> QED BY <1>0, <2>1 DEF OpType, At, Holds, HoldsStill, LeftTo, Visits, VisitsStill
<1> QED BY <1>1 DEF Becomes, Fits

LEMMA RecordMissingCall ==
    ASSUME TInv, NEW s \in Scans, NEW f \in Files, RecordMissing(s, f)
    PROVE  /\ Waiting({s}) /\ op[s].pc = "record" /\ f \in op[s].todo
           /\ At(s, op[s].pc, op[s].pass) /\ HoldsStill(s)
           /\ LeftTo(s, op[s].todo \ {f}) /\ VisitsStill(s)
<1>0. op \in [Scans -> OpType] /\ op[s] \in OpType
  BY DEF TInv, TypeOK
<1>1. ASSUME op' = [op EXCEPT ![s] =
                  [op[s] EXCEPT !.todo = op[s].todo \ {f}]]
      PROVE  /\ Waiting({s})
             /\ At(s, op[s].pc, op[s].pass) /\ HoldsStill(s)
             /\ LeftTo(s, op[s].todo \ {f}) /\ VisitsStill(s)
  <2>1. Waiting({s}) /\ op'[s] = [op[s] EXCEPT !.todo = op[s].todo \ {f}]
    BY <1>0, <1>1 DEF Waiting
  <2> QED BY <1>0, <2>1 DEF OpType, At, Holds, HoldsStill, LeftTo, Visits, VisitsStill
<1> QED BY <1>1 DEF Becomes, RecordMissing

LEMMA PutCall ==
    ASSUME TInv, NEW s \in Scans, Put(s)
    PROVE  /\ Waiting({s}) /\ op[s].pc = "record" /\ op[s].todo = {}
           /\ At(s, "add", op[s].pass) /\ Holds(s, op[s].key, op[s].cur, op[s].cur)
           /\ LeftTo(s, op[s].todo) /\ VisitsStill(s)
<1>0. op \in [Scans -> OpType] /\ op[s] \in OpType
  BY DEF TInv, TypeOK
<1>1. ASSUME op' = [op EXCEPT ![s] =
                  [op[s] EXCEPT !.pc = "add", !.ent = op[s].cur]]
      PROVE  /\ Waiting({s})
             /\ At(s, "add", op[s].pass) /\ Holds(s, op[s].key, op[s].cur, op[s].cur)
             /\ LeftTo(s, op[s].todo) /\ VisitsStill(s)
  <2>1. Waiting({s}) /\ op'[s] = [op[s] EXCEPT !.pc = "add", !.ent = op[s].cur]
    BY <1>0, <1>1 DEF Waiting
  <2> QED BY <1>0, <2>1 DEF OpType, At, Holds, HoldsStill, LeftTo, Visits, VisitsStill
<1> QED BY <1>1 DEF Becomes, Put

LEMMA FinishScanCall ==
    ASSUME TInv, NEW s \in Scans, FinishScan(s)
    PROVE  /\ Waiting({s}) /\ op[s].pc = "using"
           /\ At(s, "done", "cached") /\ Holds(s, None, None, None)
           /\ LeftTo(s, {}) /\ Visits(s, {}, {}, None)
<1>0. op \in [Scans -> OpType] /\ op[s] \in OpType
  BY DEF TInv, TypeOK
<1>1. ASSUME op' = [op EXCEPT ![s] =
                  CallAt("done", None, None)]
      PROVE  /\ Waiting({s})
             /\ At(s, "done", "cached") /\ Holds(s, None, None, None)
             /\ LeftTo(s, {}) /\ Visits(s, {}, {}, None)
  <2>1. Waiting({s}) /\ op'[s] = CallAt("done", None, None)
    BY <1>0, <1>1 DEF Waiting
  <2> QED BY <1>0, <2>1 DEF OpType, At, Holds, HoldsStill, LeftTo, Visits, VisitsStill, CallAt
<1> QED BY <1>1 DEF Becomes, FinishScan, NoCall

LEMMA DropCachedStagesCall ==
    ASSUME TInv, NEW s \in Scans, DropCachedStages(s)
    PROVE  /\ Waiting({s}) /\ op[s].pc = "idle"
           /\ At(s, "evicting", "drop") /\ HoldsStill(s)
           /\ LeftTo(s, op[s].todo) /\ Visits(s, OwnStages(Db(s)), OwnStages(Db(s)), op[s].vic)
<1>0. op \in [Scans -> OpType] /\ op[s] \in OpType
  BY DEF TInv, TypeOK
<1>1. ASSUME op' = [op EXCEPT ![s] =
                  [op[s] EXCEPT !.pc = "evicting", !.pass = "drop",
                               !.snap = OwnStages(Db(s)), !.sweep = OwnStages(Db(s))]]
      PROVE  /\ Waiting({s})
             /\ At(s, "evicting", "drop") /\ HoldsStill(s)
             /\ LeftTo(s, op[s].todo) /\ Visits(s, OwnStages(Db(s)), OwnStages(Db(s)), op[s].vic)
  <2>1. /\ Waiting({s})
        /\ op'[s] =
             [op[s] EXCEPT !.pc = "evicting", !.pass = "drop",
                          !.snap = OwnStages(Db(s)), !.sweep = OwnStages(Db(s))]
    BY <1>0, <1>1 DEF Waiting
  <2> QED BY <1>0, <2>1 DEF OpType, At, Holds, HoldsStill, LeftTo, Visits, VisitsStill
<1> QED BY <1>1 DEF Becomes, DropCachedStages, QueryIdle

LEMMA DroppedCall ==
    ASSUME TInv, NEW s \in Scans, Dropped(s)
    PROVE  /\ Waiting({s}) /\ op[s].pc = "evicting" /\ op[s].pass = "drop"
           /\ At(s, "done", "cached") /\ Holds(s, None, None, None)
           /\ LeftTo(s, {}) /\ Visits(s, {}, {}, None)
<1>0. op \in [Scans -> OpType] /\ op[s] \in OpType
  BY DEF TInv, TypeOK
<1>1. ASSUME op' = [op EXCEPT ![s] =
                  CallAt("done", None, None)]
      PROVE  /\ Waiting({s})
             /\ At(s, "done", "cached") /\ Holds(s, None, None, None)
             /\ LeftTo(s, {}) /\ Visits(s, {}, {}, None)
  <2>1. Waiting({s}) /\ op'[s] = CallAt("done", None, None)
    BY <1>0, <1>1 DEF Waiting
  <2> QED BY <1>0, <2>1 DEF OpType, At, Holds, HoldsStill, LeftTo, Visits, VisitsStill, CallAt
<1> QED BY <1>1 DEF Becomes, Dropped, NoCall

-----------------------------------------------------------------------------
(* Every step keeps the references right *)

\* The call of s goes on with stages it, a cache or its query refers to
Moves(s) ==
    LET c == op'[s] IN
    /\ Waiting({s}) /\ ShapeOf(c) /\ c.pc # "idle"
    /\ c.cur # None =>
         /\ StageIs(c.cur, c.key, Db(s))
         /\ \/ c.cur = op[s].cur
            \/ c.cur \in Entries /\ c.cur \in Alive
            \/ \E k \in Keys : c.cur = query[Conn(s)][k]
    /\ c.ent # None => c.ent \in Entries /\ StageIs(c.ent, c.key, Db(s))
    /\ c.snap \subseteq Entries
    /\ c.pc = "test" => c.vic \in Entries /\ c.vic \in Alive
    /\ Composing(c) => Composing(op[s]) /\ c.cur = op[s].cur

\* It goes on with the stages it had
SameRefs(s) ==
    LET c == op'[s] IN
    /\ Waiting({s}) /\ ShapeOf(c) /\ c.pc \notin {"idle", "test"}
    /\ c.cur # None => c.cur = op[s].cur /\ c.key = op[s].key
    /\ c.ent # None => c.ent = op[s].ent /\ c.key = op[s].key
    /\ c.snap \subseteq Entries
    /\ Composing(c) => Composing(op[s])

\* What a call may rely on
Facts(s) ==
    /\ op[s] \in OpType /\ LocalsOf(op[s]) /\ RefsOf(s) /\ UnseenOf(s) /\ ShapeOf(op[s])
    /\ Conn(s) \in Conns /\ Db(s) \in Dbs /\ Db(s) = DbOf[Conn(s)]

LEMMA HasFacts == ASSUME RInv, NEW s \in Scans PROVE Facts(s)
<1>1. op[s] \in OpType /\ LocalsOf(op[s]) /\ RefsOf(s) /\ UnseenOf(s)
  BY DEF RInv, TInv, TypeOK, CallsOK
<1>2. Conn(s) \in Conns /\ Db(s) \in Dbs /\ Db(s) = DbOf[Conn(s)]
  BY ConfigAssumption DEF Conn, Db
<1> QED BY <1>1, <1>2 DEF Facts, RefsOf

LEMMA SnapKnown == ASSUME NEW s \in Scans PROVE op[s].snap \subseteq Entries
BY EntriesAre

LEMMA EntKnown == ASSUME NEW s \in Scans PROVE op[s].ent \in Entries
BY EntriesAre

LEMMA SameRefsMoves ==
    ASSUME RInv, NEW s \in Scans, SameRefs(s)
    PROVE  Moves(s)
<1>1. RefsOf(s)
  BY DEF RInv
<1>2. op[s].ent \in Entries
  BY EntKnown
<1>3. op'[s].cur # None => StageIs(op'[s].cur, op'[s].key, Db(s)) /\ op'[s].cur = op[s].cur
  BY <1>1 DEF SameRefs, RefsOf
<1>4. op'[s].ent # None => op'[s].ent \in Entries /\ StageIs(op'[s].ent, op'[s].key, Db(s))
  BY <1>1, <1>2 DEF SameRefs, RefsOf
<1>5. Composing(op'[s]) => Composing(op[s]) /\ op'[s].cur = op[s].cur
  BY <1>3 DEF SameRefs, Composing
<1> QED BY <1>3, <1>4, <1>5 DEF SameRefs, Moves

LEMMA MovesRefs ==
    ASSUME NEW s \in Scans, Moves(s)
    PROVE  /\ {s} \in SUBSET Scans /\ Waiting({s}) /\ RefsFrom({s}, {})
           /\ \A qry : QueriesEnd({s}, qry)
BY DEF Moves, RefsFrom, QueriesEnd

LEMMA MovesKeepOwn ==
    ASSUME RInv, TInv', NEW s \in Scans, Moves(s), NEW own \in SUBSET StageIds,
           Step({s}, own), Settled,
           \A i \in own : i \notin Entries' /\ (stage'[i].released => stage[i].released)
    PROVE  RInv'
<1>0. /\ op'[s] \in OpType /\ UnseenOf(s) /\ \A t \in Scans : op[t] \in OpType
      /\ Conn(s)' = Conn(s) /\ Db(s)' = Db(s)
  BY DEF RInv, TInv, TypeOK, Conn, Db
<1>1. /\ op'[s].cur \in StageIds \cup {None} /\ op'[s].ent \in StageIds \cup {None}
      /\ op'[s].snap \subseteq StageIds
  BY <1>0 DEF OpType
<1>2. /\ \A i \in StageIds : i = op'[s].cur => i \in Handles'
      /\ \A i \in StageIds : i = op'[s].ent \/ i \in op'[s].snap => i \in Entries'
  BY HandlesNext, EntriesNext
<1>3. \A i \in StageIds : i = op'[s].cur => i \in Alive
  <2>1. QueryOK
    BY DEF RInv
  <2>2. \A i \in StageIds : i = op[s].cur => i \in Alive
    BY HandlesAre, AliveAre
  <2> QED BY <1>1, <2>1, <2>2, NoneAssumption, ConfigAssumption DEF Moves, QueryOK, Conn
<1>4. /\ op'[s].cur # None => Stays(op'[s].cur)
      /\ op'[s].ent # None => Stays(op'[s].ent)
      /\ \A i \in op'[s].snap : Stays(i)
  <2>1. \A i \in StageIds : i \in Entries' => i \in Entries
    BY DEF Step
  <2> QED BY <1>1, <1>2, <1>3, <2>1 DEF Step
<1>5. \A i \in op'[s].snap : stage[i].key # None
  <2> SUFFICES ASSUME NEW i \in op'[s].snap PROVE stage[i].key # None
    OBVIOUS
  <2>1. i \in Entries /\ i # None
    BY <1>1, NoneAssumption DEF Moves
  <2> QED BY <2>1, EntriesKnown, NoneAssumption
<1>6. RefsOf(s)'
  <2>1. ShapeOf(op[s])'
    BY DEF Moves, ShapeOf
  <2>2. op'[s].cur # None =>
          stage'[op'[s].cur].key = op'[s].key /\ stage'[op'[s].cur].db = Db(s)
    BY <1>4 DEF Moves, StageIs, Stays
  <2>3. op'[s].ent # None =>
          stage'[op'[s].ent].key = op'[s].key /\ stage'[op'[s].ent].db = Db(s)
    BY <1>4 DEF Moves, StageIs, Stays
  <2>4. \A i \in op'[s].snap : stage'[i].key # None
    BY <1>4, <1>5 DEF Stays
  <2> QED BY <1>0, <2>1, <2>2, <2>3, <2>4 DEF RefsOf, StageIs
<1>7. UnseenOf(s)'
  <2> DEFINE i == op[s].cur
  <2> SUFFICES ASSUME Composing(op'[s])
               PROVE  /\ i \notin Entries'
                      /\ \A t \in Scans \ {s} : op'[t].cur # i
                      /\ \A c \in Conns, k \in Keys : query'[c][k] # i
                      /\ ~stage'[i].released
    BY DEF UnseenOf, Composing, Moves
  <2>0. op'[s].cur = i /\ Composing(op[s])
    BY DEF Moves
  <2>1. /\ i \in StageIds /\ i # None /\ i \notin Entries
        /\ \A t \in Scans \ {s} : op[t].cur # i
        /\ \A c \in Conns, k \in Keys : query[c][k] # i
        /\ ~stage[i].released
    BY <1>0, <1>1, <2>0 DEF UnseenOf, Composing
  <2>2. op'[s].pc # "using"
    <3>1. op'[s].pass # "cached"
      BY DEF Composing
    <3> QED BY <3>1 DEF Moves, ShapeOf
  <2> HIDE DEF i
  <2>3. i \notin Entries' /\ \A t \in Scans \ {s} : op'[t].cur # i
    BY <2>1 DEF Step, Waiting
  <2>4. ~stage'[i].released
    BY <1>2, <2>0, <2>1, AliveNext DEF Step, Contents
  <2>5. \A c \in Conns, k \in Keys : query'[c][k] # i
    BY <2>1, <2>2 DEF Step, QueriesFrom
  <2> QED BY <2>3, <2>4, <2>5
<1>8. {s} \in SUBSET Scans
  OBVIOUS
<1>9. \A u \in {s} : RefsOf(u)' /\ UnseenOf(u)'
  BY <1>6, <1>7
<1> QED BY <1>8, <1>9, RStep

LEMMA MovesKeep ==
    ASSUME RInv, TInv', NEW s \in Scans, Moves(s), Step({s}, {}), Settled
    PROVE  RInv'
<1>1. {} \in SUBSET StageIds
  OBVIOUS
<1>2. \A i \in {} : i \notin Entries' /\ (stage'[i].released => stage[i].released)
  OBVIOUS
<1> QED BY <1>1, <1>2, MovesKeepOwn

LEMMA UnsettledMoves ==
    ASSUME RInv, TInv', NEW s \in Scans, Unsettled, cache' = cache, Moves(s), NoneDropped({s})
    PROVE  RInv' /\ Step({s}, {}) /\ Settled
<1>1. /\ {s} \in SUBSET Scans /\ Waiting({s}) /\ RefsFrom({s}, {}) /\ QueriesEnd({s}, query)
  BY MovesRefs
<1>2. Step({s}, {}) /\ Settled
  BY <1>1, UnsettledKeeps
<1> QED BY <1>2, MovesKeep

LEMMA SettledMoves ==
    ASSUME RInv, TInv', NEW s \in Scans, Moves(s),
           NEW st \in [StageIds -> StageType], Restored(st), NEW reg, NEW qry, NEW chg,
           Settle(st, layer, reg, qry, chg), QueriesFrom({s}, qry), CacheFrom({})
    PROVE  RInv' /\ Step({s}, {}) /\ Settled
<1>1. /\ {s} \in SUBSET Scans /\ Waiting({s}) /\ RefsFrom({s}, {}) /\ QueriesEnd({s}, qry)
  BY MovesRefs
<1>2. {} \in SUBSET StageIds /\ Mine({s}, {}) /\ {} \subseteq Alive
  BY DEF Mine
<1>3. query' \in [Conns -> [Keys -> StageIds \cup {None}]]
  BY DEF TInv, TypeOK
<1>4. Step({s}, {}) /\ Settled
  BY <1>1, <1>2, <1>3, SettledKeeps
<1> QED BY <1>4, MovesKeep

\* The same, for a step that only drops references of the call, and for one that
\* releases a cached stage
LEMMA DropsMoves ==
    ASSUME RInv, TInv', NEW s \in Scans, Moves(s), NEW reg, NEW chg,
           Settle(stage, layer, reg, query, chg), CacheFrom({})
    PROVE  RInv' /\ Step({s}, {}) /\ Settled
<1>1. stage \in [StageIds -> StageType]
  BY DEF RInv, TInv, TypeOK
<1>2. Restored(stage) /\ QueriesFrom({s}, query)
  BY DEF Restored, QueriesFrom
<1> QED BY <1>1, <1>2, SettledMoves

LEMMA ReleaseMoves ==
    ASSUME RInv, TInv', NEW s \in Scans, Moves(s), NEW v \in StageIds, v \in Entries,
           Settle([stage EXCEPT ![v].released = TRUE], layer, registry, query, changed),
           cache' = cache
    PROVE  RInv' /\ Step({s}, {}) /\ Settled
<1>1. stage \in [StageIds -> StageType]
  BY DEF RInv, TInv, TypeOK
<1>2. [stage EXCEPT ![v].released = TRUE] \in [StageIds -> StageType]
  BY <1>1, ReleaseUpdate
<1>3. Restored([stage EXCEPT ![v].released = TRUE])
  <2> SUFFICES ASSUME NEW i \in StageIds
               PROVE  LET st == [stage EXCEPT ![v].released = TRUE] IN
                      /\ st[i].key = stage[i].key /\ st[i].db = stage[i].db
                      /\ st[i].miss = stage[i].miss /\ st[i].missed = stage[i].missed
                      /\ st[i].loaded = stage[i].loaded
                      /\ stage[i].released => st[i].released
                      /\ st[i].released => stage[i].released \/ i \in Entries
    BY DEF Restored
  <2>1. CASE i = v
    BY <1>1, <2>1 DEF StageType
  <2>2. CASE i # v
    BY <1>1, <2>2
  <2> QED BY <2>1, <2>2
<1>4. QueriesFrom({s}, query) /\ CacheFrom({})
  BY DEF QueriesFrom, CacheFrom
<1> QED BY <1>2, <1>3, <1>4, SettledMoves

\* A call that holds a stage returns it
LEMMA ReturnMoves ==
    ASSUME RInv, TInv', NEW s \in Scans, op[s].cur # None, NEW reg, Return(s, reg), cache' = cache
    PROVE  RInv' /\ Step({s}, {}) /\ Settled
<1>0. TInv /\ Facts(s) /\ query \in [Conns -> [Keys -> StageIds \cup {None}]]
  BY HasFacts DEF RInv, TInv, TypeOK
<1>1. /\ Waiting({s})
      /\ At(s, "using", "cached") /\ Holds(s, op[s].key, op[s].cur, None)
      /\ LeftTo(s, {}) /\ Visits(s, {}, {}, None)
  BY <1>0, ReturnCall
<1>2. op[s].key \in Keys /\ op[s].cur \in StageIds
  BY <1>0 DEF Facts, ShapeOf, OpType
<1>3. SameRefs(s)
  BY <1>1, <1>2, NoneAssumption
     DEF SameRefs, At, Holds, LeftTo, Visits, ShapeOf, Visiting, Composing
<1>4. Moves(s)
  BY <1>3, SameRefsMoves
<1> DEFINE b == changed[s] # {}
           st == [stage EXCEPT ![op[s].cur].stale = b]
           qry == [query EXCEPT ![Conn(s)][op[s].key] = op[s].cur]
           chg == [changed EXCEPT ![s] = {}]
<1>5. Settle(st, layer, reg, qry, chg)
  BY DEF Return
<1>6. b \in BOOLEAN /\ stage \in [StageIds -> StageType]
  BY DEF RInv, TInv, TypeOK
<1>7. QueriesFrom({s}, qry)
  BY <1>0, <1>1 DEF QueriesFrom, Facts, At
<1> HIDE DEF b, qry, chg
<1>8. [stage[op[s].cur] EXCEPT !.stale = b] \in StageType
  BY <1>2, <1>6 DEF StageType
<1>9. st \in [StageIds -> StageType]
  BY <1>2, <1>6, <1>8
<1>10. Restored(st)
  <2> SUFFICES ASSUME NEW i \in StageIds
               PROVE  /\ st[i].key = stage[i].key /\ st[i].db = stage[i].db
                      /\ st[i].miss = stage[i].miss /\ st[i].missed = stage[i].missed
                      /\ st[i].loaded = stage[i].loaded
                      /\ stage[i].released => st[i].released
                      /\ st[i].released => stage[i].released \/ i \in Entries
    BY DEF Restored
  <2>1. CASE i = op[s].cur
    BY <1>6, <2>1 DEF StageType
  <2>2. CASE i # op[s].cur
    BY <1>6, <2>2
  <2> QED BY <2>1, <2>2
<1> HIDE DEF st
<1>11. CacheFrom({})
  BY DEF CacheFrom
<1> QED BY <1>4, <1>5, <1>7, <1>9, <1>10, <1>11, SettledMoves

-----------------------------------------------------------------------------
(* The actions: references *)

LEMMA ReadStampKeeps ==
    ASSUME RInv, TInv', NEW s \in Scans, NEW f \in Files, ReadStamp(s, f)
    PROVE  RInv' /\ Step({s}, {}) /\ Settled
<1>0. TInv /\ Facts(s) /\ registry \subseteq Entries /\ op[s].snap \subseteq Entries
  BY HasFacts, SnapKnown DEF RInv
<1>1. SameRefs(s)
  <2>1. Waiting({s}) /\ op[s].pc = "stat" /\ ShapeOf(op[s]) /\ op[s].snap \subseteq Entries
    BY <1>0, ReadStampCall DEF Facts
  <2>2. /\ op'[s].pc = "compare" /\ op'[s].pass = op[s].pass
        /\ op'[s].key = op[s].key /\ op'[s].cur = op[s].cur /\ op'[s].ent = op[s].ent
        /\ op'[s].snap = op[s].snap /\ op'[s].sweep = op[s].sweep /\ op'[s].vic = op[s].vic
    BY <1>0, ReadStampCall DEF At, Holds, HoldsStill, VisitsStill, Visits
  <2>3. ShapeOf(op'[s])
    BY <2>1, <2>2 DEF ShapeOf, Visiting
  <2>4. Composing(op'[s]) => Composing(op[s])
    BY <2>1, <2>2 DEF Composing
  <2> QED BY <2>1, <2>2, <2>3, <2>4 DEF SameRefs
<1>2. Moves(s)
  BY <1>1, SameRefsMoves
<1>3. Unsettled /\ cache' = cache
  BY DEF ReadStamp
<1>4. NoneDropped({s})
  <2>1. /\ op[s].pc = "stat"
        /\ op'[s].cur = op[s].cur /\ op'[s].ent = op[s].ent /\ op'[s].snap = op[s].snap
    BY <1>0, ReadStampCall DEF Holds, HoldsStill, VisitsStill, Visits
  <2> QED BY <2>1 DEF NoneDropped
<1> QED BY <1>2, <1>3, <1>4, UnsettledMoves

LEMMA SnapshotKeeps ==
    ASSUME RInv, TInv', NEW s \in Scans, Snapshot(s)
    PROVE  RInv' /\ Step({s}, {}) /\ Settled
<1>0. TInv /\ Facts(s) /\ registry \subseteq Entries /\ op[s].snap \subseteq Entries
  BY HasFacts, SnapKnown DEF RInv
<1>1. SameRefs(s)
  BY <1>0, SnapshotCall, NoneAssumption
     DEF SameRefs, At, Holds, HoldsStill, LeftTo, Visits, VisitsStill, Facts, OpType,
         ShapeOf, Visiting, Composing, LocalsOf, Holding
<1>2. Moves(s)
  BY <1>1, SameRefsMoves
<1>3. Unsettled /\ cache' = cache
  BY DEF Snapshot
<1>4. NoneDropped({s})
  BY <1>0, SnapshotCall, NoneAssumption
     DEF NoneDropped, At, Holds, HoldsStill, Visits, VisitsStill, Facts, ShapeOf, Visiting
<1> QED BY <1>2, <1>3, <1>4, UnsettledMoves

LEMMA LoadedKeeps ==
    ASSUME RInv, TInv', NEW s \in Scans, Loaded(s)
    PROVE  RInv' /\ Step({s}, {}) /\ Settled
<1>0. TInv /\ Facts(s) /\ registry \subseteq Entries /\ op[s].snap \subseteq Entries
  BY HasFacts, SnapKnown DEF RInv
<1>1. SameRefs(s)
  BY <1>0, LoadedCall, NoneAssumption
     DEF SameRefs, At, Holds, HoldsStill, LeftTo, Visits, VisitsStill, Facts, OpType,
         ShapeOf, Visiting, Composing, LocalsOf, Holding
<1>2. Moves(s)
  BY <1>1, SameRefsMoves
<1>3. Unsettled /\ cache' = cache
  BY DEF Loaded
<1>4. NoneDropped({s})
  BY <1>0, LoadedCall, NoneAssumption
     DEF NoneDropped, At, Holds, HoldsStill, Visits, VisitsStill
<1> QED BY <1>2, <1>3, <1>4, UnsettledMoves

LEMMA MakeRoomKeeps ==
    ASSUME RInv, TInv', NEW s \in Scans, MakeRoom(s)
    PROVE  RInv' /\ Step({s}, {}) /\ Settled
<1>0. TInv /\ Facts(s) /\ registry \subseteq Entries /\ op[s].snap \subseteq Entries
  BY HasFacts, SnapKnown DEF RInv
<1>own. OwnStages(Db(s)) \subseteq Entries
  BY <1>0 DEF OwnStages
<1>1. SameRefs(s)
  <2>1. /\ Waiting({s}) /\ op[s].pc = "verify" /\ Cacheable(s)
        /\ At(s, "evicting", "room") /\ HoldsStill(s)
        /\ Visits(s, OwnStages(Db(s)), OwnStages(Db(s)), op[s].vic)
    BY <1>0, MakeRoomCall
  <2>2. op[s].ent = None /\ Composing(op[s])
    BY <1>0, <2>1, NoneAssumption
       DEF Facts, OpType, Passes, ShapeOf, LocalsOf, Holding, Composing, Cacheable
  <2>3. op[s].key \in Keys
    BY <1>0, <2>2 DEF Facts, ShapeOf, Composing
  <2>4. /\ op'[s].pc = "evicting" /\ op'[s].pass = "room" /\ op'[s].key = op[s].key
        /\ op'[s].cur = op[s].cur /\ op'[s].ent = None
        /\ op'[s].snap = op'[s].sweep /\ op'[s].snap \subseteq Entries
    BY <1>own, <2>1, <2>2 DEF At, Holds, HoldsStill, Visits
  <2>5. ShapeOf(op'[s])
    BY <2>3, <2>4 DEF ShapeOf, Visiting
  <2> QED BY <2>1, <2>2, <2>4, <2>5 DEF SameRefs
<1>2. Moves(s)
  BY <1>1, SameRefsMoves
<1>3. Unsettled /\ cache' = cache
  BY DEF MakeRoom
<1>4. NoneDropped({s})
  BY <1>0, MakeRoomCall, NoneAssumption, <1>own
     DEF NoneDropped, At, Holds, HoldsStill, Visits, VisitsStill, Facts, ShapeOf, Visiting
<1> QED BY <1>2, <1>3, <1>4, UnsettledMoves

LEMMA EvictNextKeeps ==
    ASSUME RInv, TInv', NEW s \in Scans, NEW v \in StageIds, EvictNext(s, v)
    PROVE  RInv' /\ Step({s}, {}) /\ Settled
<1>0. TInv /\ Facts(s) /\ registry \subseteq Entries /\ op[s].snap \subseteq Entries
  BY HasFacts, SnapKnown DEF RInv
<1>1. SameRefs(s)
  <2>1. /\ Waiting({s}) /\ op[s].pc = "evicting" /\ v \in op[s].sweep
        /\ ShapeOf(op[s]) /\ op[s].snap \subseteq Entries
    BY <1>0, EvictNextCall DEF Facts
  <2>2. /\ op'[s].pc = "get" /\ op'[s].pass = op[s].pass
        /\ op'[s].key = op[s].key /\ op'[s].cur = op[s].cur /\ op'[s].ent = op[s].ent
        /\ op'[s].snap = op[s].snap /\ op'[s].sweep = op[s].sweep \ {v} /\ op'[s].vic = v
    BY <1>0, EvictNextCall DEF At, Holds, HoldsStill, Visits
  <2>3. ShapeOf(op'[s])
    BY <2>1, <2>2 DEF ShapeOf, Visiting
  <2>4. Composing(op'[s]) => Composing(op[s])
    BY <2>1, <2>2 DEF Composing
  <2> QED BY <2>1, <2>2, <2>3, <2>4 DEF SameRefs
<1>2. Moves(s)
  BY <1>1, SameRefsMoves
<1>3. Unsettled /\ cache' = cache
  BY DEF EvictNext
<1>4. NoneDropped({s})
  <2>1. op[s].pc = "evicting" /\ HoldsStill(s) /\ Visits(s, op[s].snap, op[s].sweep \ {v}, v)
    BY <1>0, EvictNextCall
  <2>2. op'[s].cur = op[s].cur /\ op'[s].ent = op[s].ent /\ op'[s].snap = op[s].snap
    BY <2>1 DEF Holds, HoldsStill, Visits
  <2> QED BY <2>1, <2>2 DEF NoneDropped
<1> QED BY <1>2, <1>3, <1>4, UnsettledMoves

LEMMA DropCachedStagesKeeps ==
    ASSUME RInv, TInv', NEW s \in Scans, DropCachedStages(s)
    PROVE  RInv' /\ Step({s}, {}) /\ Settled
<1>0. TInv /\ Facts(s) /\ registry \subseteq Entries /\ op[s].snap \subseteq Entries
  BY HasFacts, SnapKnown DEF RInv
<1>own. OwnStages(Db(s)) \subseteq Entries
  BY <1>0 DEF OwnStages
<1>1. SameRefs(s)
  BY <1>0, DropCachedStagesCall, NoneAssumption, <1>own
     DEF SameRefs, At, Holds, HoldsStill, LeftTo, Visits, VisitsStill, Facts, OpType,
         ShapeOf, Visiting, Composing
<1>2. Moves(s)
  BY <1>1, SameRefsMoves
<1>3. Unsettled /\ cache' = cache
  BY DEF DropCachedStages
<1>4. NoneDropped({s})
  BY <1>0, DropCachedStagesCall, NoneAssumption, <1>own
     DEF NoneDropped, At, Holds, HoldsStill, Visits, VisitsStill, Facts, ShapeOf, Visiting
<1> QED BY <1>2, <1>3, <1>4, UnsettledMoves

LEMMA ComparedKeeps ==
    ASSUME RInv, TInv', NEW s \in Scans, Compared(s)
    PROVE  RInv' /\ Step({s}, {}) /\ Settled
<1>0. TInv /\ Facts(s) /\ registry \subseteq Entries /\ op[s].snap \subseteq Entries
  BY HasFacts, SnapKnown DEF RInv
<1>1. SameRefs(s)
  <2>0. Waiting({s}) /\ op[s].pc = "stat" /\ op[s].todo = {}
    BY <1>0, ComparedCall
  <2>1. ASSUME op[s].pass = "cached" /\ changed[s] = {} /\ Missing(op[s].cur) = {},
              At(s, "verify", op[s].pass) /\ HoldsStill(s),
              LeftTo(s, {}) /\ VisitsStill(s)
       PROVE  SameRefs(s)
    BY <1>0, <2>0, <2>1, NoneAssumption
       DEF SameRefs, At, Holds, HoldsStill, LeftTo, Visits, VisitsStill, Facts, OpType,
         ShapeOf, Visiting, Composing, LocalsOf, Holding
  <2>2. ASSUME op[s].pass = "cached" /\ changed[s] = {} /\ Missing(op[s].cur) # {},
              At(s, "missing", op[s].pass) /\ HoldsStill(s),
              LeftTo(s, Missing(op[s].cur)) /\ VisitsStill(s)
       PROVE  SameRefs(s)
    BY <1>0, <2>0, <2>2, NoneAssumption
       DEF SameRefs, At, Holds, HoldsStill, LeftTo, Visits, VisitsStill, Facts, OpType,
         ShapeOf, Visiting, Composing, LocalsOf, Holding
  <2>3. ASSUME op[s].pass = "cached" /\ changed[s] # {},
              At(s, "snapshot", op[s].pass) /\ Holds(s, op[s].key, None, op[s].ent),
              LeftTo(s, op[s].todo) /\ VisitsStill(s)
       PROVE  SameRefs(s)
    BY <1>0, <2>0, <2>3, NoneAssumption
       DEF SameRefs, At, Holds, HoldsStill, LeftTo, Visits, VisitsStill, Facts, OpType,
         ShapeOf, Visiting, Composing, LocalsOf, Holding
  <2>4. ASSUME op[s].pass = "first" /\ changed[s] # {},
              At(s, "snapshot", op[s].pass) /\ HoldsStill(s),
              LeftTo(s, op[s].todo) /\ VisitsStill(s)
       PROVE  SameRefs(s)
    BY <1>0, <2>0, <2>4, NoneAssumption
       DEF SameRefs, At, Holds, HoldsStill, LeftTo, Visits, VisitsStill, Facts, OpType,
         ShapeOf, Visiting, Composing, LocalsOf, Holding
  <2>5. ASSUME op[s].pass = "again" \/ (op[s].pass = "first" /\ changed[s] = {}),
              At(s, "verify", op[s].pass) /\ HoldsStill(s),
              LeftTo(s, op[s].todo) /\ VisitsStill(s)
       PROVE  SameRefs(s)
    BY <1>0, <2>0, <2>5, NoneAssumption
       DEF SameRefs, At, Holds, HoldsStill, LeftTo, Visits, VisitsStill, Facts, OpType,
         ShapeOf, Visiting, Composing, LocalsOf, Holding
  <2> QED BY <1>0, <2>1, <2>2, <2>3, <2>4, <2>5, ComparedCall
<1>2. Moves(s)
  BY <1>1, SameRefsMoves
<1>3. Settle(stage, layer, registry, query, changed) /\ CacheFrom({})
  BY DEF Compared, CacheFrom
<1> QED BY <1>2, <1>3, DropsMoves

LEMMA CheckMissingKeeps ==
    ASSUME RInv, TInv', NEW s \in Scans, NEW f \in Files, CheckMissing(s, f)
    PROVE  RInv' /\ Step({s}, {}) /\ Settled
<1>0. TInv /\ Facts(s) /\ registry \subseteq Entries /\ op[s].snap \subseteq Entries
  BY HasFacts, SnapKnown DEF RInv
<1>1. SameRefs(s)
  <2>0. Waiting({s}) /\ op[s].pc = "missing" /\ f \in op[s].todo
    BY <1>0, CheckMissingCall
  <2>1. ASSUME Stamp(f) = stage[op[s].cur].miss[f] /\ op[s].todo \ {f} = {},
              At(s, "verify", op[s].pass) /\ HoldsStill(s),
              LeftTo(s, {}) /\ VisitsStill(s)
       PROVE  SameRefs(s)
    BY <1>0, <2>0, <2>1, NoneAssumption
       DEF SameRefs, At, Holds, HoldsStill, LeftTo, Visits, VisitsStill, Facts, OpType,
         ShapeOf, Visiting, Composing, LocalsOf, Holding
  <2>2. ASSUME Stamp(f) = stage[op[s].cur].miss[f],
              At(s, "missing", op[s].pass) /\ HoldsStill(s),
              LeftTo(s, op[s].todo \ {f}) /\ VisitsStill(s)
       PROVE  SameRefs(s)
    BY <1>0, <2>0, <2>2, NoneAssumption
       DEF SameRefs, At, Holds, HoldsStill, LeftTo, Visits, VisitsStill, Facts, OpType,
         ShapeOf, Visiting, Composing, LocalsOf, Holding
  <2>3. ASSUME Stamp(f) # stage[op[s].cur].miss[f],
              At(s, "release", op[s].pass) /\ Holds(s, op[s].key, None, op[s].ent),
              LeftTo(s, {}) /\ VisitsStill(s)
       PROVE  SameRefs(s)
    BY <1>0, <2>0, <2>3, NoneAssumption
       DEF SameRefs, At, Holds, HoldsStill, LeftTo, Visits, VisitsStill, Facts, OpType,
         ShapeOf, Visiting, Composing, LocalsOf, Holding
  <2> QED BY <1>0, <2>1, <2>2, <2>3, CheckMissingCall
<1>2. Moves(s)
  BY <1>1, SameRefsMoves
<1>3. Settle(stage, layer, registry, query, changed) /\ CacheFrom({})
  BY DEF CheckMissing, CacheFrom
<1> QED BY <1>2, <1>3, DropsMoves

LEMMA RemoveGetKeeps ==
    ASSUME RInv, TInv', NEW s \in Scans, RemoveGet(s)
    PROVE  RInv' /\ Step({s}, {}) /\ Settled
<1>0. TInv /\ Facts(s) /\ registry \subseteq Entries /\ op[s].snap \subseteq Entries
  BY HasFacts, SnapKnown DEF RInv
<1>1. SameRefs(s)
  <2>0. Waiting({s}) /\ op[s].pc = "get"
    BY <1>0, RemoveGetCall
  <2>1. ASSUME InCache(s),
              At(s, "delete", op[s].pass) /\ HoldsStill(s),
              LeftTo(s, op[s].todo) /\ VisitsStill(s)
       PROVE  SameRefs(s)
    BY <1>0, <2>0, <2>1, NoneAssumption
       DEF SameRefs, At, Holds, HoldsStill, LeftTo, Visits, VisitsStill, Facts, OpType,
         ShapeOf, Visiting, Composing, LocalsOf, Holding
  <2>2. ASSUME ~InCache(s) /\ op[s].pass = "first" /\ op[s].ent # None,
              At(s, "open", op[s].pass) /\ Holds(s, op[s].key, op[s].cur, None),
              LeftTo(s, op[s].todo) /\ Visits(s, op[s].snap, op[s].sweep, None)
       PROVE  SameRefs(s)
    BY <1>0, <2>0, <2>2, NoneAssumption
       DEF SameRefs, At, Holds, HoldsStill, LeftTo, Visits, VisitsStill, Facts, OpType,
         ShapeOf, Visiting, Composing, LocalsOf, Holding
  <2>3. ASSUME ~InCache(s) /\ (op[s].pass = "cached" \/ (op[s].pass = "first" /\ op[s].ent = None)),
              At(s, "sweep", op[s].pass) /\ HoldsStill(s),
              LeftTo(s, op[s].todo) /\ Visits(s, op[s].snap, op[s].sweep, None)
       PROVE  SameRefs(s)
    BY <1>0, <2>0, <2>3, NoneAssumption
       DEF SameRefs, At, Holds, HoldsStill, LeftTo, Visits, VisitsStill, Facts, OpType,
         ShapeOf, Visiting, Composing, LocalsOf, Holding
  <2>4. ASSUME ~InCache(s) /\ op[s].pass \in {"room", "drop"},
              At(s, "evicting", op[s].pass) /\ HoldsStill(s),
              LeftTo(s, op[s].todo) /\ Visits(s, op[s].snap, op[s].sweep, None)
       PROVE  SameRefs(s)
    BY <1>0, <2>0, <2>4, NoneAssumption
       DEF SameRefs, At, Holds, HoldsStill, LeftTo, Visits, VisitsStill, Facts, OpType,
         ShapeOf, Visiting, Composing, LocalsOf, Holding
  <2> QED BY <1>0, <2>1, <2>2, <2>3, <2>4, RemoveGetCall
<1>2. Moves(s)
  BY <1>1, SameRefsMoves
<1>3. Settle(stage, layer, registry, query, changed) /\ CacheFrom({})
  BY DEF RemoveGet, CacheFrom
<1> QED BY <1>2, <1>3, DropsMoves

LEMMA SweepDoneKeeps ==
    ASSUME RInv, TInv', NEW s \in Scans, SweepDone(s)
    PROVE  RInv' /\ Step({s}, {}) /\ Settled
<1>0. TInv /\ Facts(s) /\ registry \subseteq Entries /\ op[s].snap \subseteq Entries
  BY HasFacts, SnapKnown DEF RInv
<1>1. SameRefs(s)
  <2>0. Waiting({s}) /\ op[s].pc = "sweep" /\ op[s].sweep = {}
    BY <1>0, SweepDoneCall
  <2>1. ASSUME op[s].pass = "cached",
              At(s, "release", op[s].pass) /\ HoldsStill(s),
              LeftTo(s, op[s].todo) /\ Visits(s, {}, op[s].sweep, op[s].vic)
       PROVE  SameRefs(s)
    BY <1>0, <2>0, <2>1, NoneAssumption
       DEF SameRefs, At, Holds, HoldsStill, LeftTo, Visits, VisitsStill, Facts, OpType,
         ShapeOf, Visiting, Composing, LocalsOf, Holding
  <2>2. ASSUME op[s].pass # "cached",
              At(s, "open", "again") /\ Holds(s, op[s].key, None, op[s].ent),
              LeftTo(s, op[s].todo) /\ Visits(s, {}, op[s].sweep, op[s].vic)
       PROVE  SameRefs(s)
    <3>1. op[s].ent = None
      BY <1>0, <2>0, <2>2 DEF Facts, OpType, Passes, ShapeOf, LocalsOf
    <3>2. /\ op'[s].pc = "open" /\ op'[s].pass = "again" /\ op'[s].key = op[s].key
          /\ op'[s].cur = None /\ op'[s].ent = None
          /\ op'[s].snap = {} /\ op'[s].sweep = {}
      BY <2>0, <2>2, <3>1 DEF At, Holds, Visits
    <3>3. ShapeOf(op'[s])
      BY <3>2 DEF ShapeOf, Visiting
    <3> QED BY <2>0, <3>2, <3>3 DEF SameRefs, Composing
  <2> QED BY <1>0, <2>1, <2>2, SweepDoneCall
<1>2. Moves(s)
  BY <1>1, SameRefsMoves
<1>3. Settle(stage, layer, registry, query, [changed EXCEPT ![s] = {}]) /\ CacheFrom({})
  BY DEF SweepDone, CacheFrom
<1> QED BY <1>2, <1>3, DropsMoves

LEMMA FitsKeeps ==
    ASSUME RInv, TInv', NEW s \in Scans, Fits(s)
    PROVE  RInv' /\ Step({s}, {}) /\ Settled
<1>0. TInv /\ Facts(s) /\ registry \subseteq Entries /\ op[s].snap \subseteq Entries
  BY HasFacts, SnapKnown DEF RInv
<1>1. SameRefs(s)
  BY <1>0, FitsCall, NoneAssumption
     DEF SameRefs, At, Holds, HoldsStill, LeftTo, Visits, VisitsStill, Facts, OpType,
         ShapeOf, Visiting, Composing, LocalsOf, Holding
<1>2. Moves(s)
  BY <1>1, SameRefsMoves
<1>3. Settle(stage, layer, registry, query, changed) /\ CacheFrom({})
  BY DEF Fits, CacheFrom
<1> QED BY <1>2, <1>3, DropsMoves

LEMMA FinishScanKeeps ==
    ASSUME RInv, TInv', NEW s \in Scans, FinishScan(s)
    PROVE  RInv' /\ Step({s}, {}) /\ Settled
<1>0. TInv /\ Facts(s) /\ registry \subseteq Entries /\ op[s].snap \subseteq Entries
  BY HasFacts, SnapKnown DEF RInv
<1>1. SameRefs(s)
  BY <1>0, FinishScanCall, NoneAssumption
     DEF SameRefs, At, Holds, HoldsStill, LeftTo, Visits, VisitsStill, Facts, OpType,
         ShapeOf, Visiting, Composing, LocalsOf, Holding
<1>2. Moves(s)
  BY <1>1, SameRefsMoves
<1>3. Settle(stage, layer, registry, query, changed) /\ CacheFrom({})
  BY DEF FinishScan, CacheFrom
<1> QED BY <1>2, <1>3, DropsMoves

LEMMA DroppedKeeps ==
    ASSUME RInv, TInv', NEW s \in Scans, Dropped(s)
    PROVE  RInv' /\ Step({s}, {}) /\ Settled
<1>0. TInv /\ Facts(s) /\ registry \subseteq Entries /\ op[s].snap \subseteq Entries
  BY HasFacts, SnapKnown DEF RInv
<1>1. SameRefs(s)
  BY <1>0, DroppedCall, NoneAssumption
     DEF SameRefs, At, Holds, HoldsStill, LeftTo, Visits, VisitsStill, Facts, OpType,
         ShapeOf, Visiting, Composing, LocalsOf, Holding
<1>2. Moves(s)
  BY <1>1, SameRefsMoves
<1>3. Settle(stage, layer, registry, query, changed) /\ CacheFrom({})
  BY DEF Dropped, CacheFrom
<1> QED BY <1>2, <1>3, DropsMoves

LEMMA FailKeeps ==
    ASSUME RInv, TInv', NEW s \in Scans, Fail(s), cache' = cache
    PROVE  RInv' /\ Step({s}, {}) /\ Settled
<1>0. TInv /\ Facts(s) /\ registry \subseteq Entries /\ op[s].snap \subseteq Entries
  BY HasFacts, SnapKnown DEF RInv
<1>1. SameRefs(s)
  BY <1>0, FailCall, NoneAssumption
     DEF SameRefs, At, Holds, HoldsStill, LeftTo, Visits, VisitsStill, Facts, OpType,
         ShapeOf, Visiting, Composing
<1>2. Moves(s)
  BY <1>1, SameRefsMoves
<1>3. Settle(stage, layer, registry, query, [changed EXCEPT ![s] = {}]) /\ CacheFrom({})
  BY DEF Fail, CacheFrom
<1> QED BY <1>2, <1>3, DropsMoves

LEMMA RemoveDeleteKeeps ==
    ASSUME RInv, TInv', NEW s \in Scans, RemoveDelete(s)
    PROVE  RInv' /\ Step({s}, {}) /\ Settled
<1>0. TInv /\ Facts(s) /\ registry \subseteq Entries /\ op[s].snap \subseteq Entries
  BY HasFacts, SnapKnown DEF RInv
<1>1. SameRefs(s)
  <2>0. Waiting({s}) /\ op[s].pc = "delete"
    BY <1>0, RemoveDeleteCall
  <2>1. ASSUME op[s].pass = "first" /\ op[s].ent # None,
              At(s, "open", op[s].pass) /\ Holds(s, op[s].key, op[s].cur, None),
              LeftTo(s, op[s].todo) /\ Visits(s, op[s].snap, op[s].sweep, None)
       PROVE  SameRefs(s)
    BY <1>0, <2>0, <2>1, NoneAssumption
       DEF SameRefs, At, Holds, HoldsStill, LeftTo, Visits, VisitsStill, Facts, OpType,
         ShapeOf, Visiting, Composing, LocalsOf, Holding
  <2>2. ASSUME op[s].pass = "cached" \/ (op[s].pass = "first" /\ op[s].ent = None),
              At(s, "sweep", op[s].pass) /\ HoldsStill(s),
              LeftTo(s, op[s].todo) /\ Visits(s, op[s].snap, op[s].sweep, None)
       PROVE  SameRefs(s)
    BY <1>0, <2>0, <2>2, NoneAssumption
       DEF SameRefs, At, Holds, HoldsStill, LeftTo, Visits, VisitsStill, Facts, OpType,
         ShapeOf, Visiting, Composing, LocalsOf, Holding
  <2>3. ASSUME op[s].pass \in {"room", "drop"},
              At(s, "evicting", op[s].pass) /\ HoldsStill(s),
              LeftTo(s, op[s].todo) /\ Visits(s, op[s].snap, op[s].sweep, None)
       PROVE  SameRefs(s)
    BY <1>0, <2>0, <2>3, NoneAssumption
       DEF SameRefs, At, Holds, HoldsStill, LeftTo, Visits, VisitsStill, Facts, OpType,
         ShapeOf, Visiting, Composing, LocalsOf, Holding
  <2> QED BY <1>0, <2>1, <2>2, <2>3, RemoveDeleteCall
<1>2. Moves(s)
  BY <1>1, SameRefsMoves
<1>3. Settle(stage, layer, registry, query, changed) /\ CacheFrom({})
  BY DEF RemoveDelete, CacheFrom
<1> QED BY <1>2, <1>3, DropsMoves

LEMMA BeginScanKeeps ==
    ASSUME RInv, TInv', NEW s \in Scans, NEW k \in Keys, BeginScan(s, k)
    PROVE  RInv' /\ Step({s}, {}) /\ Settled
<1>0. TInv /\ QueryOK /\ Facts(s)
  BY HasFacts DEF RInv
<1>1. Waiting({s}) /\ op[s].pc = "idle"
  BY <1>0, BeginScanCall
<1>2. op[s].cur = None /\ op[s].ent = None /\ op[s].snap = {}
  BY <1>0, <1>1 DEF Facts, ShapeOf, Visiting
<1>3. Moves(s)
  <2>1. ASSUME query[Conn(s)][k] # None,
               At(s, "using", "cached"), Holds(s, k, query[Conn(s)][k], None),
               Visits(s, {}, {}, None)
        PROVE  Moves(s)
    <3>1. ShapeOf(op'[s])
      BY <2>1 DEF At, Holds, Visits, ShapeOf, Visiting
    <3>2. StageIs(op'[s].cur, op'[s].key, Db(s))
      BY <1>0, <2>1 DEF QueryOK, Facts, Holds
    <3> QED BY <1>0, <1>1, <2>1, <3>1, <3>2 DEF Moves, Facts, At, Holds, Visits, Composing
  <2>2. ASSUME At(s, "lookup", "cached"), Holds(s, k, None, None), Visits(s, {}, {}, None)
        PROVE  Moves(s)
    <3>1. ShapeOf(op'[s])
      BY <2>2 DEF At, Holds, Visits, ShapeOf, Visiting
    <3> QED BY <1>1, <2>2, <3>1 DEF Moves, At, Holds, Visits, Composing
  <2> QED BY <1>0, <2>1, <2>2, BeginScanCall
<1>4. Unsettled /\ cache' = cache
  BY DEF BeginScan
<1>5. NoneDropped({s})
  BY <1>1, <1>2 DEF NoneDropped
<1> QED BY <1>3, <1>4, <1>5, UnsettledMoves

LEMMA LookupKeeps ==
    ASSUME RInv, TInv', NEW s \in Scans, Lookup(s)
    PROVE  RInv' /\ Step({s}, {}) /\ Settled
<1>0. TInv /\ CacheOK /\ Facts(s)
  BY HasFacts DEF RInv
<1>1. Waiting({s}) /\ op[s].pc = "lookup"
  BY <1>0, LookupCall
<1>2. /\ op[s].cur = None /\ op[s].ent = None /\ op[s].snap = {} /\ op[s].sweep = {}
      /\ op[s].pass = "cached" /\ op[s].key \in Keys
  BY <1>0, <1>1 DEF Facts, ShapeOf, LocalsOf, Visiting
<1>3. Moves(s)
  <2>1. ASSUME At(s, "open", "first"), HoldsStill(s), VisitsStill(s)
        PROVE  Moves(s)
    <3>1. ShapeOf(op'[s])
      BY <1>2, <2>1 DEF At, HoldsStill, Holds, VisitsStill, Visits, ShapeOf, Visiting
    <3> QED BY <1>1, <1>2, <2>1, <3>1
            DEF Moves, At, HoldsStill, Holds, VisitsStill, Visits, Composing
  <2>2. ASSUME CachedFor(s) # None, At(s, "gethandle", op[s].pass),
               Holds(s, op[s].key, op[s].cur, CachedFor(s)), VisitsStill(s)
        PROVE  Moves(s)
    <3>1. ShapeOf(op'[s])
      BY <1>2, <2>2 DEF At, Holds, VisitsStill, Visits, ShapeOf, Visiting
    <3>2. CachedFor(s) \in Entries /\ StageIs(CachedFor(s), op[s].key, Db(s))
      BY <1>0, <1>2, <2>2, EntriesAre DEF CacheOK, CachedFor, Facts
    <3> QED BY <1>1, <1>2, <2>2, <3>1, <3>2
            DEF Moves, At, Holds, VisitsStill, Visits, Composing
  <2> QED BY <1>0, <2>1, <2>2, LookupCall
<1>4. Unsettled /\ cache' = cache
  BY DEF Lookup
<1>5. NoneDropped({s})
  BY <1>1, <1>2 DEF NoneDropped
<1> QED BY <1>3, <1>4, <1>5, UnsettledMoves

LEMMA GetHandleKeeps ==
    ASSUME RInv, TInv', NEW s \in Scans, GetHandle(s)
    PROVE  RInv' /\ Step({s}, {}) /\ Settled
<1>0. TInv /\ Facts(s) /\ op[s].ent \in Entries
  BY HasFacts, EntKnown DEF RInv
<1>1. Waiting({s}) /\ op[s].pc = "gethandle"
  BY <1>0, GetHandleCall
<1>2. /\ op[s].cur = None /\ op[s].ent \in StageIds /\ op[s].snap = {} /\ op[s].sweep = {}
      /\ op[s].pass = "cached" /\ op[s].key \in Keys
      /\ StageIs(op[s].ent, op[s].key, Db(s))
  BY <1>0, <1>1, NoneAssumption DEF Facts, ShapeOf, LocalsOf, Visiting, RefsOf
<1>3. /\ Moves(s)
      /\ op'[s].ent = op[s].ent
  <2>1. ASSUME At(s, "release", op[s].pass), HoldsStill(s), VisitsStill(s)
        PROVE  Moves(s) /\ op'[s].ent = op[s].ent
    <3>1. ShapeOf(op'[s])
      BY <1>2, <2>1 DEF At, HoldsStill, Holds, VisitsStill, Visits, ShapeOf, Visiting
    <3> QED BY <1>0, <1>1, <1>2, <2>1, <3>1
            DEF Moves, At, HoldsStill, Holds, VisitsStill, Visits, Composing
  <2>2. ASSUME ~stage[op[s].ent].released, At(s, "stat", op[s].pass),
               Holds(s, op[s].key, op[s].ent, op[s].ent), VisitsStill(s)
        PROVE  Moves(s) /\ op'[s].ent = op[s].ent
    <3>1. ShapeOf(op'[s])
      BY <1>2, <2>2 DEF At, Holds, VisitsStill, Visits, ShapeOf, Visiting
    <3>2. op[s].ent \in Alive
      BY <1>0, <1>2, <2>2, AliveAre
    <3> QED BY <1>0, <1>1, <1>2, <2>2, <3>1, <3>2
            DEF Moves, At, Holds, VisitsStill, Visits, Composing
  <2> QED BY <1>0, <2>1, <2>2, GetHandleCall
<1>4. Unsettled /\ cache' = cache
  BY DEF GetHandle
<1>5. NoneDropped({s})
  BY <1>1, <1>2, <1>3 DEF NoneDropped
<1> QED BY <1>3, <1>4, <1>5, UnsettledMoves

LEMMA SweepTakeKeeps ==
    ASSUME RInv, TInv', NEW s \in Scans, NEW v \in StageIds, SweepTake(s, v)
    PROVE  RInv' /\ Step({s}, {}) /\ Settled
<1>0. TInv /\ Facts(s) /\ op[s].ent \in Entries /\ op[s].snap \subseteq Entries
  BY HasFacts, EntKnown, SnapKnown DEF RInv
<1>1. Waiting({s}) /\ op[s].pc = "sweep" /\ v \in op[s].sweep
  BY <1>0, SweepTakeCall
<1>2. v \in op[s].snap /\ op[s].sweep \ {v} \subseteq op[s].snap
  BY <1>0, <1>1 DEF Facts, ShapeOf
<1>3. /\ Moves(s)
      /\ op'[s].cur = op[s].cur /\ op'[s].ent = op[s].ent /\ op'[s].snap = op[s].snap
  <2>1. ASSUME At(s, op[s].pc, op[s].pass), HoldsStill(s),
               Visits(s, op[s].snap, op[s].sweep \ {v}, op[s].vic)
        PROVE  Moves(s) /\ HoldsStill(s) /\ op'[s].snap = op[s].snap
    <3>0. /\ op'[s].pc = "sweep" /\ op'[s].pass = op[s].pass /\ op'[s].key = op[s].key
          /\ op'[s].cur = op[s].cur /\ op'[s].ent = op[s].ent
          /\ op'[s].snap = op[s].snap /\ op'[s].sweep \subseteq op'[s].snap
      BY <1>1, <1>2, <2>1 DEF At, HoldsStill, Holds, Visits
    <3>1. ShapeOf(op'[s])
      BY <1>0, <1>1, <3>0 DEF Facts, ShapeOf, Visiting
    <3>2. SameRefs(s)
      BY <1>0, <1>1, <3>0, <3>1 DEF SameRefs, Composing
    <3> QED BY <2>1, <3>0, <3>2, SameRefsMoves
  <2>2. ASSUME ~stage[v].released, At(s, "test", op[s].pass), HoldsStill(s),
               Visits(s, op[s].snap, op[s].sweep \ {v}, v)
        PROVE  Moves(s) /\ HoldsStill(s) /\ op'[s].snap = op[s].snap
    <3>0. /\ op'[s].pc = "test" /\ op'[s].pass = op[s].pass /\ op'[s].key = op[s].key
          /\ op'[s].cur = op[s].cur /\ op'[s].ent = op[s].ent /\ op'[s].vic = v
          /\ op'[s].snap = op[s].snap /\ op'[s].sweep \subseteq op'[s].snap
      BY <1>1, <1>2, <2>2 DEF At, HoldsStill, Holds, Visits
    <3>1. ShapeOf(op'[s])
      BY <1>0, <1>1, <1>2, <3>0 DEF Facts, ShapeOf, Visiting
    <3>2. v \in Entries /\ v \in Alive
      BY <1>0, <1>2, <2>2, AliveAre
    <3>3. Composing(op'[s]) => Composing(op[s])
      BY <3>0, <1>1 DEF Composing
    <3> QED BY <1>0, <1>1, <2>2, <3>0, <3>1, <3>2, <3>3 DEF Moves, Facts, RefsOf
  <2> QED BY <1>0, <2>1, <2>2, SweepTakeCall DEF HoldsStill, Holds
<1>4. Unsettled /\ cache' = cache
  BY DEF SweepTake
<1>5. NoneDropped({s})
  BY <1>1, <1>3 DEF NoneDropped
<1> QED BY <1>3, <1>4, <1>5, UnsettledMoves

LEMMA SweepTestKeeps ==
    ASSUME RInv, TInv', NEW s \in Scans, SweepTest(s)
    PROVE  RInv' /\ Step({s}, {}) /\ Settled
<1>0. TInv /\ Facts(s) /\ op[s].ent \in Entries /\ op[s].snap \subseteq Entries
  BY HasFacts, EntKnown, SnapKnown DEF RInv
<1>1. Waiting({s}) /\ op[s].pc = "test"
  BY <1>0, SweepTestCall
<1>2. op[s].vic \in op[s].snap /\ op[s].vic \in StageIds
  BY <1>0, <1>1 DEF Facts, ShapeOf, LocalsOf
<1>3. Moves(s)
  <2>1. ASSUME At(s, "sweep", op[s].pass), HoldsStill(s), Visits(s, op[s].snap, op[s].sweep, None)
        PROVE  Moves(s)
    <3>0. /\ op'[s].pc = "sweep" /\ op'[s].pass = op[s].pass /\ op'[s].key = op[s].key
          /\ op'[s].cur = op[s].cur /\ op'[s].ent = op[s].ent
          /\ op'[s].snap = op[s].snap /\ op'[s].sweep = op[s].sweep
      BY <2>1 DEF At, HoldsStill, Holds, Visits
    <3>1. ShapeOf(op'[s])
      BY <1>0, <1>1, <3>0 DEF Facts, ShapeOf, Visiting
    <3>2. SameRefs(s)
      BY <1>0, <1>1, <3>0, <3>1 DEF SameRefs, Composing
    <3> QED BY <3>2, SameRefsMoves
  <2>2. ASSUME At(s, "get", op[s].pass), HoldsStill(s), VisitsStill(s)
        PROVE  Moves(s)
    <3>0. /\ op'[s].pc = "get" /\ op'[s].pass = op[s].pass /\ op'[s].key = op[s].key
          /\ op'[s].cur = op[s].cur /\ op'[s].ent = op[s].ent /\ op'[s].vic = op[s].vic
          /\ op'[s].snap = op[s].snap /\ op'[s].sweep = op[s].sweep
      BY <2>2 DEF At, HoldsStill, Holds, Visits, VisitsStill
    <3>1. ShapeOf(op'[s])
      BY <1>0, <1>1, <1>2, <3>0 DEF Facts, ShapeOf, Visiting
    <3>2. SameRefs(s)
      BY <1>0, <1>1, <3>0, <3>1 DEF SameRefs, Composing
    <3> QED BY <3>2, SameRefsMoves
  <2> QED BY <1>0, <2>1, <2>2, SweepTestCall
<1>4. cache' = cache /\ CacheFrom({})
  BY DEF SweepTest, CacheFrom
<1>5. CASE Settle(stage, layer, registry, query, changed)
  BY <1>3, <1>4, <1>5, DropsMoves
<1>6. CASE Settle([stage EXCEPT ![op[s].vic].released = TRUE], layer, registry, query, changed)
  BY <1>0, <1>2, <1>3, <1>4, <1>6, ReleaseMoves
<1> QED BY <1>5, <1>6 DEF SweepTest

LEMMA ReleaseKeeps ==
    ASSUME RInv, TInv', NEW s \in Scans, Release(s)
    PROVE  RInv' /\ Step({s}, {}) /\ Settled
<1>0. TInv /\ Facts(s) /\ op[s].ent \in Entries
  BY HasFacts, EntKnown DEF RInv
<1>1. /\ Waiting({s}) /\ op[s].pc = "release"
      /\ At(s, "get", "first") /\ HoldsStill(s) /\ Visits(s, op[s].snap, op[s].sweep, op[s].ent)
  BY <1>0, ReleaseCall
<1>2. /\ op[s].ent \in StageIds /\ op[s].cur = None /\ op[s].snap = {} /\ op[s].sweep = {}
      /\ op[s].key \in Keys
  BY <1>0, <1>1 DEF Facts, ShapeOf, LocalsOf, Visiting
<1>3. /\ op'[s].pc = "get" /\ op'[s].pass = "first" /\ op'[s].key = op[s].key
      /\ op'[s].cur = None /\ op'[s].ent = op[s].ent /\ op'[s].vic = op[s].ent
      /\ op'[s].snap = {} /\ op'[s].sweep = {}
  BY <1>1, <1>2 DEF At, HoldsStill, Holds, Visits
<1>4. ShapeOf(op'[s])
  BY <1>2, <1>3, NoneAssumption DEF ShapeOf, Visiting
<1>5. SameRefs(s)
  BY <1>1, <1>3, <1>4 DEF SameRefs, Composing
<1>6. Moves(s)
  BY <1>5, SameRefsMoves
<1> QED BY <1>0, <1>2, <1>6, ReleaseMoves DEF Release

LEMMA RefuseKeeps ==
    ASSUME RInv, TInv', NEW s \in Scans, Refuse(s)
    PROVE  RInv' /\ Step({s}, {}) /\ Settled
BY FailKeeps DEF Refuse

LEMMA HasStage ==
    ASSUME RInv, NEW s \in Scans,
           op[s].pc \in Holding \/ op[s].pass = "room"
    PROVE  op[s].cur \in StageIds /\ op[s].cur # None /\ op[s].cur \in Alive
<1>1. op[s].cur \in StageIds
  BY DEF RInv, TInv, CallsOK, LocalsOf
<1> QED BY <1>1, NoneAssumption, HandlesAre, AliveAre

LEMMA VerifiedKeeps ==
    ASSUME RInv, TInv', NEW s \in Scans, Verified(s)
    PROVE  RInv' /\ Step({s}, {}) /\ Settled
BY HasStage, ReturnMoves DEF Verified, Holding

LEMMA DoesNotFitKeeps ==
    ASSUME RInv, TInv', NEW s \in Scans, DoesNotFit(s)
    PROVE  RInv' /\ Step({s}, {}) /\ Settled
BY HasStage, ReturnMoves DEF DoesNotFit

LEMMA AddKeeps ==
    ASSUME RInv, TInv', NEW s \in Scans, Add(s)
    PROVE  RInv' /\ Step({s}, {}) /\ Settled
BY HasStage, ReturnMoves DEF Add, Holding

-----------------------------------------------------------------------------
(* Steps that edit stages and layers, and drop no reference *)

\* The stages and layers after such a step
Edited(own) ==
    /\ \A i \in StageIds : Stays(i) /\ stage'[i].released = stage[i].released
    /\ \A i \in StageIds \ own : Contents(i)
    /\ \A i \in Alive : \A f \in stage[i].loaded : LayerStays(f)
    /\ \A i \in Alive : \A f \in stage'[i].loaded : layer'[f].version # 0
    /\ \A f \in Files : layer'[f].version # 0 => \E i \in Alive : f \in stage'[i].loaded

LEMMA EditedAlive ==
    ASSUME RInv, NEW A \in SUBSET Scans, Waiting(A), RefsFrom(A, {}), NoneDropped(A),
           cache' = cache, \A i \in StageIds : stage'[i].released = stage[i].released
    PROVE  /\ \A i \in StageIds : i \in Entries <=> i \in Entries'
           /\ \A i \in StageIds : i \in Handles' => i \in Alive
           /\ \A i : i \in Alive <=> i \in Alive'
<1>1. CacheFrom({})
  BY DEF CacheFrom
<1>2. {} \in SUBSET StageIds
  OBVIOUS
<1>3. /\ \A i \in StageIds : i \in Entries' => i \in Entries
      /\ \A i \in StageIds : i \in Handles' => i \in Alive
  BY <1>1, <1>2, RefsStep
<1>4. \A i \in StageIds : (i \in Entries => i \in Entries') /\ (i \in Handles => i \in Handles')
  BY NoneDroppedStep
<1>5. \A i : i \in Alive <=> i \in Alive'
  BY <1>3, <1>4, AliveAre, AliveNext
<1> QED BY <1>3, <1>4, <1>5

LEMMA EditsKeep ==
    ASSUME RInv, NEW A \in SUBSET Scans, NEW own \in SUBSET StageIds, Mine(A, own),
           Waiting(A), RefsFrom(A, {}), NoneDropped(A), QueriesEnd(A, query),
           cache' = cache, registry' = registry, query' = query, Edited(own)
    PROVE  Step(A, own) /\ Settled
<1>0. /\ registry \subseteq Entries /\ registry \subseteq StageIds /\ QueryOK
  BY DEF RInv, TInv, TypeOK
<1>1. /\ \A i \in StageIds : i \in Entries <=> i \in Entries'
      /\ \A i \in StageIds : i \in Handles' => i \in Alive
      /\ \A i : i \in Alive <=> i \in Alive'
  BY EditedAlive DEF Edited
<1>2. CacheFrom(own) /\ RefsFrom(A, own) /\ QueriesFrom(A, query') /\ QueriesEnd(A, query')
  <2>1. CacheFrom(own) /\ QueriesFrom(A, query') /\ QueriesEnd(A, query')
    BY DEF CacheFrom, QueriesFrom
  <2>2. RefsFrom(A, own)
    BY DEF RefsFrom
  <2> QED BY <2>1, <2>2
<1>3. LayersOK'
  BY <1>1 DEF Edited, LayersOK
<1>4. \A c \in Conns, k \in Keys : query'[c][k] # None => query'[c][k] \in Alive'
  BY <1>0, <1>1 DEF QueryOK
<1>5. registry' \subseteq Entries'
  BY <1>0, <1>1
<1> QED BY <1>1, <1>2, <1>3, <1>4, <1>5 DEF Step, Settled, Edited

LEMMA EditsMove ==
    ASSUME RInv, TInv', NEW s \in Scans, Moves(s), NoneDropped({s}),
           NEW own \in SUBSET StageIds, Mine({s}, own),
           cache' = cache, registry' = registry, query' = query, Edited(own)
    PROVE  RInv' /\ Step({s}, own) /\ Settled
<1>1. /\ {s} \in SUBSET Scans /\ Waiting({s}) /\ RefsFrom({s}, {}) /\ QueriesEnd({s}, query)
  BY MovesRefs
<1>2. Step({s}, own) /\ Settled
  BY <1>1, EditsKeep
<1>3. /\ \A i \in StageIds : i \in Entries <=> i \in Entries'
  BY <1>1, EditedAlive DEF Edited
<1>4. \A i \in own : i \notin Entries' /\ (stage'[i].released => stage[i].released)
  BY <1>3 DEF Mine, Edited
<1> QED BY <1>2, <1>4, MovesKeepOwn

LEMMA CompareKeeps ==
    ASSUME RInv, TInv', NEW s \in Scans, Compare(s)
    PROVE  RInv' /\ Step({s}, {}) /\ Settled
<1>0. TInv /\ TypeOK /\ LayersOK /\ Facts(s)
  BY HasFacts DEF RInv, TInv
<1>1. /\ Waiting({s}) /\ op[s].pc = "compare"
      /\ At(s, "stat", op[s].pass) /\ HoldsStill(s) /\ VisitsStill(s)
  BY <1>0, CompareCall
<1>2. /\ op'[s].pc = "stat" /\ op'[s].pass = op[s].pass /\ op'[s].key = op[s].key
      /\ op'[s].cur = op[s].cur /\ op'[s].ent = op[s].ent
      /\ op'[s].snap = op[s].snap /\ op'[s].sweep = op[s].sweep
  BY <1>1 DEF At, HoldsStill, Holds, VisitsStill, Visits
<1>3. ShapeOf(op'[s])
  BY <1>0, <1>1, <1>2 DEF Facts, ShapeOf, Visiting
<1>4. SameRefs(s)
  BY <1>1, <1>2, <1>3, SnapKnown DEF SameRefs, Composing
<1>5. Moves(s) /\ NoneDropped({s})
  BY <1>1, <1>2, <1>4, SameRefsMoves DEF NoneDropped
<1>6. /\ stage' = stage /\ registry' = registry /\ query' = query /\ cache' = cache
      /\ layer' = layer \/ (/\ layer[op[s].at].stamp = NoStamp
                            /\ layer' = [layer EXCEPT ![op[s].at].stamp = op[s].seen])
  BY DEF Compare
<1>7. \A f \in Files : layer'[f].version = layer[f].version /\ LayerStays(f)
  <2>1. CASE layer' = layer
    BY <2>1 DEF LayerStays
  <2>2. CASE /\ layer[op[s].at].stamp = NoStamp
             /\ layer' = [layer EXCEPT ![op[s].at].stamp = op[s].seen]
    <3> SUFFICES ASSUME NEW f \in Files PROVE layer'[f].version = layer[f].version /\ LayerStays(f)
      OBVIOUS
    <3>1. layer[f] \in [version : 0 .. MaxVersion, stamp : Stamps \cup {NoStamp}]
      BY <1>0 DEF TypeOK
    <3>2. layer'[f] = IF f = op[s].at THEN [layer[f] EXCEPT !.stamp = op[s].seen] ELSE layer[f]
      BY <1>0, <2>2 DEF TypeOK
    <3> QED BY <2>2, <3>1, <3>2 DEF LayerStays
  <2> QED BY <1>6, <2>1, <2>2
<1>8. \A i \in Alive : i \in StageIds /\ stage[i].loaded \subseteq Files
  BY <1>0, AliveAre DEF TypeOK, StageType
<1>9. Edited({})
  BY <1>0, <1>6, <1>7, <1>8 DEF Edited, Stays, Contents, LayersOK
<1>10. Mine({s}, {}) /\ {} \in SUBSET StageIds
  BY DEF Mine
<1> QED BY <1>5, <1>6, <1>9, <1>10, EditsMove

\* The stage a call composes is the call's own
LEMMA OwnStage ==
    ASSUME RInv, NEW s \in Scans, Composing(op[s])
    PROVE  /\ op[s].cur \in StageIds /\ op[s].cur # None /\ op[s].cur \in Alive
           /\ Mine({s}, {op[s].cur}) /\ {op[s].cur} \in SUBSET StageIds
           /\ {op[s].cur} \subseteq Alive
<1>1. /\ op[s] \in OpType /\ UnseenOf(s)
  BY DEF RInv, TInv, TypeOK
<1>2. op[s].cur \in StageIds /\ op[s].cur # None
  BY <1>1 DEF OpType, Composing
<1>3. op[s].cur \in Alive
  BY <1>2, HandlesAre, AliveAre
<1> QED BY <1>1, <1>2, <1>3 DEF UnseenOf, Mine

\* USD composes one more file into stage i
LEMMA ComposeFacts ==
    ASSUME TypeOK, NEW s \in Scans, NEW f \in Files, op[s].cur \in StageIds, Compose(s, f)
    PROVE  /\ \A j \in StageIds \ {op[s].cur} : stage'[j] = stage[j]
           /\ LET i == op[s].cur IN
              /\ stage'[i].key = stage[i].key /\ stage'[i].db = stage[i].db
              /\ stage'[i].miss = stage[i].miss /\ stage'[i].missed = stage[i].missed
              /\ stage'[i].stale = stage[i].stale /\ stage'[i].released = stage[i].released
              /\ stage'[i].loaded = stage[i].loaded \cup {f}
           /\ \A g \in Files : \/ layer'[g] = layer[g]
                               \/ /\ g = f /\ layer[g].version = 0
                                  /\ layer'[g].version = file[g] /\ layer'[g].stamp = NoStamp
           /\ layer'[f].version # 0
           /\ registry' = registry /\ query' = query /\ changed' = changed
<1> DEFINE i == op[s].cur
<1>1. stage' = [stage EXCEPT ![i].loaded = @ \cup {f}] /\ stage \in [StageIds -> StageType]
  BY DEF Compose, TypeOK
<1>2. \A j \in StageIds \ {i} : stage'[j] = stage[j]
  BY <1>1
<1>3. stage'[i] = [stage[i] EXCEPT !.loaded = @ \cup {f}] /\ stage[i] \in StageType
  BY <1>1
<1>4. /\ stage'[i].key = stage[i].key /\ stage'[i].db = stage[i].db
      /\ stage'[i].miss = stage[i].miss /\ stage'[i].missed = stage[i].missed
      /\ stage'[i].stale = stage[i].stale /\ stage'[i].released = stage[i].released
      /\ stage'[i].loaded = stage[i].loaded \cup {f}
  BY <1>3 DEF StageType
<1>5. file[f] # 0
  BY BoundAssumption DEF TypeOK, Version
<1>6. /\ \A g \in Files : \/ layer'[g] = layer[g]
                          \/ /\ g = f /\ layer[g].version = 0
                             /\ layer'[g].version = file[g] /\ layer'[g].stamp = NoStamp
      /\ layer'[f].version # 0
  BY <1>5 DEF Compose, TypeOK
<1> QED BY <1>2, <1>4, <1>6 DEF Compose

LEMMA ComposeEdits ==
    ASSUME RInv, NEW s \in Scans, NEW f \in Files, op[s].cur \in Alive, Compose(s, f),
           NEW own \in SUBSET StageIds,
           op[s].cur \in own \/ f \notin Uses[stage[op[s].cur].key]
    PROVE  Edited(own)
<1>0. TypeOK /\ LayersOK /\ op[s].cur \in StageIds
  BY AliveAre DEF RInv, TInv
<1>1. /\ \A j \in StageIds \ {op[s].cur} : stage'[j] = stage[j]
      /\ LET i == op[s].cur IN
         /\ stage'[i].key = stage[i].key /\ stage'[i].db = stage[i].db
         /\ stage'[i].miss = stage[i].miss /\ stage'[i].missed = stage[i].missed
         /\ stage'[i].stale = stage[i].stale /\ stage'[i].released = stage[i].released
         /\ stage'[i].loaded = stage[i].loaded \cup {f}
      /\ \A g \in Files : \/ layer'[g] = layer[g]
                          \/ /\ g = f /\ layer[g].version = 0
                             /\ layer'[g].version = file[g] /\ layer'[g].stamp = NoStamp
      /\ layer'[f].version # 0
  BY <1>0, ComposeFacts
<1>2. \A i \in Alive : i \in StageIds /\ stage[i].loaded \subseteq Files
  BY <1>0, AliveAre DEF TypeOK, StageType
<1>3. \A i \in StageIds : Stays(i) /\ stage'[i].released = stage[i].released
  BY <1>1 DEF Stays
<1>4. \A i \in StageIds \ own : Contents(i)
  <2> SUFFICES ASSUME NEW i \in StageIds \ own PROVE Contents(i)
    OBVIOUS
  <2>1. CASE i = op[s].cur
    BY <1>1, <2>1 DEF Contents
  <2>2. CASE i # op[s].cur
    BY <1>1, <2>2 DEF Contents
  <2> QED BY <2>1, <2>2
<1>5. \A i \in Alive : \A g \in stage[i].loaded : LayerStays(g) /\ layer'[g].version # 0
  BY <1>0, <1>1, <1>2 DEF LayersOK, LayerStays
<1>6. \A i \in Alive : \A g \in stage'[i].loaded : g = f \/ g \in stage[i].loaded
  BY <1>1, <1>2
<1>7. \A g \in Files : layer'[g].version # 0 => \E i \in Alive : g \in stage'[i].loaded
  <2> SUFFICES ASSUME NEW g \in Files, layer'[g].version # 0
               PROVE  \E i \in Alive : g \in stage'[i].loaded
    OBVIOUS
  <2>1. CASE g = f
    BY <1>1, <2>1
  <2>2. CASE g # f
    <3>1. PICK i \in Alive : g \in stage[i].loaded
      BY <1>0, <1>1, <2>2 DEF LayersOK
    <3>2. g \in stage'[i].loaded
      BY <1>1, <1>2, <3>1
    <3> QED BY <3>2
  <2> QED BY <2>1, <2>2
<1> QED BY <1>1, <1>3, <1>4, <1>5, <1>6, <1>7 DEF Edited

\* A stage that is rewritten, but for its key, its layers and its flags
LEMMA RewriteEdits ==
    ASSUME RInv, NEW i \in StageIds, layer' = layer,
           \A j \in StageIds \ {i} : stage'[j] = stage[j],
           stage'[i].key = stage[i].key, stage'[i].db = stage[i].db,
           stage'[i].loaded = stage[i].loaded, stage'[i].released = stage[i].released
    PROVE  Edited({i})
<1>1. LayersOK
  BY DEF RInv
<1>2. \A j \in StageIds : /\ Stays(j) /\ stage'[j].released = stage[j].released
                          /\ stage'[j].loaded = stage[j].loaded
  BY DEF Stays
<1>3. \A j \in StageIds \ {i} : Contents(j)
  BY DEF Contents
<1>4. \A f : LayerStays(f)
  BY DEF LayerStays
<1>5. \A j \in Alive : j \in StageIds
  BY AliveAre
<1> QED BY <1>1, <1>2, <1>3, <1>4, <1>5 DEF Edited, LayersOK

LEMMA LoadFileCall ==
    ASSUME TInv, NEW s \in Scans, NEW f \in Files, LoadFile(s, f)
    PROVE  /\ op[s].pc = "load" /\ f \in op[s].todo
           /\ Root[op[s].key] \in op[s].todo => f = Root[op[s].key]
           /\ file' = file /\ cache' = cache /\ start' = start
           /\ \/ /\ Waiting({s}) /\ At(s, op[s].pc, op[s].pass) /\ HoldsStill(s)
                 /\ LeftTo(s, op[s].todo \ {f}) /\ VisitsStill(s)
                 /\ layer[f].version # 0 \/ Readable(f)
                 /\ Compose(s, f)
              \/ /\ Waiting({s}) /\ At(s, op[s].pc, op[s].pass) /\ HoldsStill(s)
                 /\ LeftTo(s, op[s].todo \ {f}) /\ VisitsStill(s)
                 /\ layer[f].version = 0 /\ ~Readable(f)
                 /\ stage' = [stage EXCEPT ![op[s].cur].missed[f] = Stamp(f)]
                 /\ layer' = layer /\ registry' = registry /\ query' = query /\ changed' = changed
              \/ Fail(s)
<1>0. op \in [Scans -> OpType] /\ op[s] \in OpType
  BY DEF TInv, TypeOK
<1>1. ASSUME op' = [op EXCEPT ![s] = [op[s] EXCEPT !.todo = op[s].todo \ {f}]]
      PROVE  /\ Waiting({s}) /\ At(s, op[s].pc, op[s].pass) /\ HoldsStill(s)
             /\ LeftTo(s, op[s].todo \ {f}) /\ VisitsStill(s)
  <2>1. Waiting({s}) /\ op'[s] = [op[s] EXCEPT !.todo = op[s].todo \ {f}]
    BY <1>0, <1>1 DEF Waiting
  <2> QED BY <1>0, <2>1 DEF OpType, At, Holds, HoldsStill, LeftTo, Visits, VisitsStill
<1> QED BY <1>1 DEF Becomes, LoadFile

\* A call that composes its stage goes on with what it had
LEMMA SameCall ==
    ASSUME RInv, NEW s \in Scans, Waiting({s}), At(s, op[s].pc, op[s].pass), HoldsStill(s),
           VisitsStill(s), op[s].pc \notin {"idle", "test"}
    PROVE  Moves(s) /\ NoneDropped({s})
<1>0. Facts(s) /\ op[s].snap \subseteq Entries
  BY HasFacts, SnapKnown
<1>1. /\ op'[s].pc = op[s].pc /\ op'[s].pass = op[s].pass /\ op'[s].key = op[s].key
      /\ op'[s].cur = op[s].cur /\ op'[s].ent = op[s].ent
      /\ op'[s].snap = op[s].snap /\ op'[s].sweep = op[s].sweep /\ op'[s].vic = op[s].vic
  BY DEF At, HoldsStill, Holds, VisitsStill, Visits
<1>2. ShapeOf(op'[s])
  BY <1>0, <1>1 DEF Facts, ShapeOf, Visiting
<1>3. SameRefs(s)
  BY <1>0, <1>1, <1>2 DEF SameRefs, Composing
<1> QED BY <1>1, <1>3, SameRefsMoves DEF NoneDropped

LEMMA LoadFileKeeps ==
    ASSUME RInv, TInv', NEW s \in Scans, NEW f \in Files, LoadFile(s, f)
    PROVE  RInv' /\ (Step({s}, {op[s].cur}) \/ Step({s}, {})) /\ Settled
<1>0. TInv /\ TypeOK /\ Facts(s)
  BY HasFacts DEF RInv, TInv
<1>1. op[s].pc = "load" /\ cache' = cache
  BY <1>0, LoadFileCall
<1>2. Composing(op[s])
  <2>1. op[s].cur # None
    BY <1>1, HasStage DEF Holding
  <2> QED BY <1>0, <1>1, <2>1 DEF Facts, ShapeOf, Composing
<1>3. /\ op[s].cur \in StageIds /\ op[s].cur # None /\ op[s].cur \in Alive
      /\ Mine({s}, {op[s].cur}) /\ {op[s].cur} \in SUBSET StageIds
  BY <1>2, OwnStage
<1>4. ASSUME Waiting({s}), At(s, op[s].pc, op[s].pass), HoldsStill(s), VisitsStill(s),
             Compose(s, f)
      PROVE  RInv' /\ Step({s}, {op[s].cur}) /\ Settled
  <2>1. Moves(s) /\ NoneDropped({s})
    BY <1>1, <1>4, SameCall
  <2>2. Edited({op[s].cur}) /\ registry' = registry /\ query' = query
    BY <1>3, <1>4, ComposeEdits DEF Compose
  <2> QED BY <1>1, <1>3, <2>1, <2>2, EditsMove
<1>5. ASSUME Waiting({s}), At(s, op[s].pc, op[s].pass), HoldsStill(s), VisitsStill(s),
             stage' = [stage EXCEPT ![op[s].cur].missed[f] = Stamp(f)],
             layer' = layer, registry' = registry, query' = query
      PROVE  RInv' /\ Step({s}, {op[s].cur}) /\ Settled
  <2>1. Moves(s) /\ NoneDropped({s})
    BY <1>1, <1>5, SameCall
  <2>2. \A j \in StageIds \ {op[s].cur} : stage'[j] = stage[j]
    BY <1>0, <1>5 DEF TypeOK
  <2>3. LET i == op[s].cur IN
        /\ stage'[i].key = stage[i].key /\ stage'[i].db = stage[i].db
        /\ stage'[i].loaded = stage[i].loaded /\ stage'[i].released = stage[i].released
    BY <1>0, <1>3, <1>5 DEF TypeOK, StageType
  <2>4. Edited({op[s].cur})
    BY <1>3, <1>5, <2>2, <2>3, RewriteEdits
  <2> QED BY <1>1, <1>3, <1>5, <2>1, <2>4, EditsMove
<1> QED BY <1>0, <1>1, <1>4, <1>5, LoadFileCall, FailKeeps

LEMMA RecordMissingKeeps ==
    ASSUME RInv, TInv', NEW s \in Scans, NEW f \in Files, RecordMissing(s, f)
    PROVE  RInv' /\ Step({s}, {op[s].cur}) /\ Settled
<1>0. TInv /\ TypeOK /\ Facts(s)
  BY HasFacts DEF RInv, TInv
<1>1. /\ Waiting({s}) /\ op[s].pc = "record"
      /\ At(s, op[s].pc, op[s].pass) /\ HoldsStill(s) /\ VisitsStill(s)
  BY <1>0, RecordMissingCall
<1>2. Composing(op[s])
  <2>1. op[s].cur # None
    BY <1>1, HasStage DEF Holding
  <2> QED BY <1>0, <1>1, <2>1 DEF Facts, ShapeOf, Composing
<1>3. /\ op[s].cur \in StageIds /\ op[s].cur # None /\ op[s].cur \in Alive
      /\ Mine({s}, {op[s].cur}) /\ {op[s].cur} \in SUBSET StageIds
  BY <1>2, OwnStage
<1>4. /\ stage' = [stage EXCEPT ![op[s].cur].miss[f] = Stamp(f)]
      /\ layer' = layer /\ registry' = registry /\ query' = query /\ cache' = cache
  BY DEF RecordMissing
<1>5. Moves(s) /\ NoneDropped({s})
  BY <1>1, SameCall
<1>6. \A j \in StageIds \ {op[s].cur} : stage'[j] = stage[j]
  BY <1>0, <1>4 DEF TypeOK
<1>7. LET i == op[s].cur IN
      /\ stage'[i].key = stage[i].key /\ stage'[i].db = stage[i].db
      /\ stage'[i].loaded = stage[i].loaded /\ stage'[i].released = stage[i].released
  BY <1>0, <1>3, <1>4 DEF TypeOK, StageType
<1>8. Edited({op[s].cur})
  BY <1>3, <1>4, <1>6, <1>7, RewriteEdits
<1> QED BY <1>3, <1>4, <1>5, <1>8, EditsMove

LEMMA ReadClipKeeps ==
    ASSUME RInv, TInv', NEW s \in Scans, NEW f \in Files, ReadClip(s, f)
    PROVE  RInv' /\ Step({s}, {}) /\ Settled
<1>0. TInv /\ Facts(s) /\ op[s].pc = "using"
  BY HasFacts DEF RInv, ReadClip
<1>1. op[s].cur \in StageIds /\ op[s].cur # None /\ op[s].cur \in Alive
  BY <1>0, HasStage DEF Holding
<1>2. op' = op /\ cache' = cache /\ Compose(s, f) /\ f \in Clips[op[s].key]
  BY DEF ReadClip
<1>3. /\ Waiting({s}) /\ At(s, op[s].pc, op[s].pass) /\ HoldsStill(s) /\ VisitsStill(s)
  BY <1>2 DEF Waiting, At, HoldsStill, Holds, VisitsStill, Visits
<1>4. Moves(s) /\ NoneDropped({s})
  BY <1>0, <1>3, SameCall
<1>5. f \notin Uses[stage[op[s].cur].key]
  <2>1. stage[op[s].cur].key = op[s].key /\ op[s].key \in Keys
    BY <1>0, <1>1 DEF Facts, RefsOf, StageIs, ShapeOf
  <2> QED BY <1>2, <2>1, ConfigAssumption
<1>6. {} \in SUBSET StageIds /\ Mine({s}, {})
  BY DEF Mine
<1>7. Edited({})
  BY <1>1, <1>2, <1>5, <1>6, ComposeEdits
<1>8. registry' = registry /\ query' = query
  BY <1>2 DEF Compose
<1> QED BY <1>2, <1>4, <1>6, <1>7, <1>8, EditsMove

LEMMA PutKeeps ==
    ASSUME RInv, TInv', NEW s \in Scans, Put(s)
    PROVE  RInv' /\ Step({s}, {op[s].cur}) /\ Settled
<1> DEFINE i == op[s].cur
<1>0. /\ TInv /\ TypeOK /\ TypeOK' /\ Facts(s) /\ Conn(s)' = Conn(s) /\ Db(s)' = Db(s)
      /\ op'[s] \in OpType
  BY HasFacts DEF RInv, TInv, TypeOK, Conn, Db
<1>1. /\ Waiting({s}) /\ op[s].pc = "record"
      /\ At(s, "add", op[s].pass) /\ Holds(s, op[s].key, i, i) /\ VisitsStill(s)
  BY <1>0, PutCall
<1>2. /\ i \in StageIds /\ i # None /\ i \in Alive
      /\ Composing(op[s]) /\ op[s].pass = "room" /\ op[s].key \in Keys
      /\ op[s].snap = {} /\ op[s].sweep = {} /\ StageIs(i, op[s].key, Db(s))
  <2>1. i \in StageIds /\ i # None /\ i \in Alive
    BY <1>1, HasStage DEF Holding
  <2> QED BY <1>0, <1>1, <2>1 DEF Facts, ShapeOf, Composing, Visiting, RefsOf
<1>3. Mine({s}, {i}) /\ {i} \in SUBSET StageIds /\ {i} \subseteq Alive
  BY <1>2, OwnStage
<1>4. /\ op'[s].pc = "add" /\ op'[s].pass = "room" /\ op'[s].key = op[s].key
      /\ op'[s].cur = i /\ op'[s].ent = i /\ op'[s].snap = {} /\ op'[s].sweep = {}
  BY <1>1, <1>2 DEF At, Holds, VisitsStill, Visits
<1>5. ShapeOf(op'[s])
  BY <1>2, <1>4 DEF ShapeOf, Visiting
<1>6. RefsFrom({s}, {i})
  BY <1>4 DEF RefsFrom
<1>7. /\ cache' = [cache EXCEPT ![Db(s)][op[s].key] = i]
      /\ Settle(stage, layer, registry, query, changed)
  BY DEF Put
<1>8. CacheFrom({i})
  <2> SUFFICES ASSUME NEW d \in Dbs, NEW k \in Keys
               PROVE  \/ cache'[d][k] = cache[d][k]
                      \/ cache'[d][k] \in {i} /\ cache'[d][k] \in Alive /\ StageIs(cache'[d][k], k, d)
    BY DEF CacheFrom
  <2>1. CASE d = Db(s) /\ k = op[s].key
    <3>1. cache'[d][k] = i
      BY <1>0, <1>2, <1>7, <2>1 DEF TypeOK
    <3> QED BY <1>2, <2>1, <3>1
  <2>2. CASE ~(d = Db(s) /\ k = op[s].key)
    BY <1>0, <1>7, <2>2 DEF TypeOK
  <2> QED BY <2>1, <2>2
<1>9. /\ QueriesFrom({s}, query) /\ QueriesEnd({s}, query) /\ Restored(stage)
      /\ stage \in [StageIds -> StageType] /\ {s} \in SUBSET Scans
      /\ query' \in [Conns -> [Keys -> StageIds \cup {None}]]
  BY <1>0, <1>4 DEF QueriesFrom, QueriesEnd, Restored, TypeOK
<1> HIDE DEF i
<1>10. Step({s}, {i}) /\ Settled
  BY <1>1, <1>3, <1>6, <1>7, <1>8, <1>9, SettledKeeps
<1>11. RefsOf(s)' /\ UnseenOf(s)'
  <2>1. i \in Handles'
    BY <1>4, HandlesNext
  <2>2. Stays(i)
    BY <1>2, <1>10, <2>1 DEF Step
  <2>3. stage'[i].key = op'[s].key /\ stage'[i].db = Db(s)
    BY <1>2, <1>4, <2>2 DEF Stays, StageIs
  <2>4. ~Composing(op'[s])
    BY <1>4 DEF Composing
  <2>5. ShapeOf(op[s])'
    BY <1>5 DEF ShapeOf
  <2>6. RefsOf(s)'
    BY <1>0, <1>4, <2>3, <2>5 DEF RefsOf, StageIs
  <2> QED BY <2>4, <2>6 DEF UnseenOf, Composing
<1>12. \A u \in {s} : RefsOf(u)' /\ UnseenOf(u)'
  BY <1>11
<1> QED BY <1>3, <1>9, <1>10, <1>12, RStep DEF i

\* A free stage is nobody's
LEMMA FreeNobodys ==
    ASSUME RInv, NEW s \in Scans, NEW i \in StageIds, stage[i].key = None
    PROVE  Mine({s}, {i}) /\ i \notin Alive
<1>0. /\ \A t \in Scans : RefsOf(t) /\ op[t] \in OpType /\ LocalsOf(op[t])
      /\ QueryOK /\ i # None /\ None \notin Keys
  BY NoneAssumption DEF RInv, TInv, TypeOK, CallsOK
<1>1. i \notin Entries
  BY <1>0, EntriesKnown
<1>2. \A t \in Scans : op[t].cur # i
  BY <1>0 DEF RefsOf, StageIs, ShapeOf
<1>3. i \notin Handles
  <2>1. \A t \in Scans : op[t].pc = "test" => op[t].vic \in op[t].snap
    BY <1>0 DEF RefsOf, ShapeOf
  <2>2. \A t \in Scans : op[t].pc = "test" => op[t].vic # i
    BY <1>1, <2>1, SnapKnown
  <2> QED BY <1>2, <2>2, HandlesAre
<1>4. \A c \in Conns, k \in Keys : query[c][k] # i
  BY <1>0 DEF QueryOK, StageIs
<1> QED BY <1>1, <1>2, <1>3, <1>4, AliveAre DEF Mine

LEMMA OpenStageCall ==
    ASSUME TInv, NEW s \in Scans, OpenStage(s)
    PROVE  /\ op[s].pc = "open" /\ Waiting({s})
           /\ file' = file /\ layer' = layer /\ cache' = cache /\ registry' = registry
           /\ query' = query /\ start' = start /\ changed' = changed
           /\ \E i \in StageIds :
                /\ stage[i].key = None
                /\ At(s, "load", op[s].pass) /\ Holds(s, op[s].key, i, op[s].ent)
                /\ LeftTo(s, Uses[op[s].key]) /\ VisitsStill(s)
                /\ stage'[i] = NewStage(op[s].key, Db(s))
                /\ \A j \in StageIds \ {i} : stage'[j] = stage[j]
<1>0. op \in [Scans -> OpType] /\ op[s] \in OpType /\ stage \in [StageIds -> StageType]
  BY DEF TInv, TypeOK
<1>1. PICK i \in StageIds :
        /\ stage[i].key = None
        /\ op' = [op EXCEPT ![s] = [op[s] EXCEPT !.pc = "load", !.cur = i, !.todo = Uses[op[s].key]]]
        /\ stage' = [stage EXCEPT ![i] = NewStage(op[s].key, Db(s))]
  BY DEF OpenStage, Becomes
<1>2. Waiting({s}) /\ op'[s] = [op[s] EXCEPT !.pc = "load", !.cur = i, !.todo = Uses[op[s].key]]
  BY <1>0, <1>1 DEF Waiting
<1>3. /\ At(s, "load", op[s].pass) /\ Holds(s, op[s].key, i, op[s].ent)
      /\ LeftTo(s, Uses[op[s].key]) /\ VisitsStill(s)
  BY <1>0, <1>2 DEF OpType, At, Holds, LeftTo, Visits, VisitsStill
<1>4. /\ stage'[i] = NewStage(op[s].key, Db(s))
      /\ \A j \in StageIds \ {i} : stage'[j] = stage[j]
  BY <1>0, <1>1
<1> QED BY <1>1, <1>2, <1>3, <1>4 DEF OpenStage

LEMMA OpenStageKeeps ==
    ASSUME RInv, TInv', NEW s \in Scans, OpenStage(s)
    PROVE  RInv' /\ Settled /\ op'[s].cur \in StageIds /\ Step({s}, {op'[s].cur})
<1>0. /\ TInv /\ TypeOK /\ Facts(s) /\ Conn(s)' = Conn(s) /\ Db(s)' = Db(s) /\ QueryOK /\ LayersOK
      /\ registry \subseteq Entries /\ registry \subseteq StageIds
  BY HasFacts DEF RInv, TInv, TypeOK, Conn, Db
<1>1. /\ op[s].pc = "open" /\ Waiting({s}) /\ layer' = layer /\ cache' = cache
      /\ registry' = registry /\ query' = query
  BY <1>0, OpenStageCall
<1>2. PICK i \in StageIds :
        /\ stage[i].key = None
        /\ At(s, "load", op[s].pass) /\ Holds(s, op[s].key, i, op[s].ent) /\ VisitsStill(s)
        /\ stage'[i] = NewStage(op[s].key, Db(s))
        /\ \A j \in StageIds \ {i} : stage'[j] = stage[j]
  BY <1>0, OpenStageCall
<1>3. /\ op[s].ent = None /\ op[s].cur = None /\ op[s].snap = {} /\ op[s].sweep = {}
      /\ op[s].pass \in {"first", "again"} /\ op[s].key \in Keys
  BY <1>0, <1>1 DEF Facts, ShapeOf, LocalsOf, Visiting
<1>4. /\ op'[s].pc = "load" /\ op'[s].pass = op[s].pass /\ op'[s].key = op[s].key
      /\ op'[s].cur = i /\ op'[s].ent = None /\ op'[s].snap = {} /\ op'[s].sweep = {}
  BY <1>2, <1>3 DEF At, Holds, VisitsStill, Visits
<1>5. i # None /\ Mine({s}, {i}) /\ i \notin Alive
  BY <1>2, FreeNobodys, NoneAssumption
<1>6. /\ stage'[i].key = op[s].key /\ stage'[i].db = Db(s)
      /\ stage'[i].loaded = {} /\ ~stage'[i].released
  BY <1>2 DEF NewStage, StageOf
<1>7. ShapeOf(op'[s])
  BY <1>3, <1>4, <1>5 DEF ShapeOf, Visiting
<1>8. /\ RefsFrom({s}, {i}) /\ CacheFrom({i}) /\ {i} \in SUBSET StageIds /\ {s} \in SUBSET Scans
      /\ QueriesFrom({s}, query') /\ QueriesEnd({s}, query') /\ NoneDropped({s})
  BY <1>1, <1>3, <1>4 DEF RefsFrom, CacheFrom, QueriesFrom, QueriesEnd, NoneDropped
<1>9. /\ \A j \in StageIds : j \in Entries' => j \in Entries \/ j \in {i}
      /\ \A j \in StageIds : j \in Handles' => j \in Alive \/ j \in {i}
  BY <1>1, <1>8, RefsStep
<1>10. \A j \in StageIds : (j \in Entries => j \in Entries') /\ (j \in Handles => j \in Handles')
  BY <1>1, <1>8, NoneDroppedStep
<1>11. \A j \in StageIds : j \in Entries \/ j \in Alive => j # i
  BY <1>5 DEF Mine
<1>12. \A j \in StageIds \ {i} : Stays(j) /\ Contents(j)
  BY <1>2 DEF Stays, Contents
<1>13. Step({s}, {i})
  <2>1. \A f : LayerStays(f)
    BY <1>1 DEF LayerStays
  <2> QED BY <1>1, <1>5, <1>8, <1>9, <1>11, <1>12, <2>1 DEF Step
<1>14. i \notin Entries'
  <2>1. \A t \in Scans \ {s} : op'[t].ent # i /\ i \notin op'[t].snap
    BY <1>1, <1>5, EntriesAre DEF Waiting, Mine
  <2>2. \A d \in Dbs, k \in Keys : cache'[d][k] # i
    BY <1>1, <1>5, EntriesAre DEF Mine
  <2> QED BY <1>4, <1>5, <2>1, <2>2, EntriesNext
<1>15. Settled
  <2>1. \A j \in StageIds \ {i} : j \in Alive <=> j \in Alive'
    BY <1>2, <1>9, <1>10, AliveAre, AliveNext
  <2>2. \A j : (j \in Alive => j \in StageIds /\ j # i) /\ (j \in Alive' => j \in StageIds)
    BY <1>5, AliveAre, AliveNext
  <2>3. LayersOK'
    BY <1>0, <1>1, <1>2, <1>6, <2>1, <2>2 DEF LayersOK
  <2>4. registry' \subseteq Entries'
    BY <1>0, <1>1, <1>10
  <2>5. \A c \in Conns, k \in Keys : query'[c][k] # None => query'[c][k] \in Alive'
    BY <1>0, <1>1, <2>1, <2>2 DEF QueryOK
  <2> QED BY <2>3, <2>4, <2>5 DEF Settled
<1>16. RefsOf(s)' /\ UnseenOf(s)'
  <2>1. ShapeOf(op[s])'
    BY <1>7 DEF ShapeOf
  <2>2. RefsOf(s)'
    BY <1>0, <1>4, <1>6, <2>1 DEF RefsOf, StageIs
  <2>3. \A t \in Scans \ {s} : op'[t].cur # i
    BY <1>1, <1>5 DEF Waiting, Mine
  <2>4. \A c \in Conns, k \in Keys : query'[c][k] # i
    BY <1>1, <1>5 DEF Mine
  <2> QED BY <1>4, <1>6, <1>14, <2>2, <2>3, <2>4 DEF UnseenOf
<1>17. \A u \in {s} : RefsOf(u)' /\ UnseenOf(u)'
  BY <1>16
<1> QED BY <1>4, <1>8, <1>13, <1>15, <1>17, RStep

\* The calls of the query of connection c
CallsOn(c) == {s \in Scans : Conn(s) = c}

LEMMA EndQueryCalls ==
    ASSUME RInv, NEW c \in Conns, EndQuery(c)
    PROVE  /\ CallsOn(c) \in SUBSET Scans /\ Waiting(CallsOn(c))
           /\ cache' = cache /\ Settle(stage, layer, registry, QueryEnd(c), changed)
           /\ \A u \in CallsOn(c) :
                /\ op[u].pc \in {"idle", "done"} /\ op[u].cur = None
                /\ op'[u].pc = "idle" /\ op'[u].pass = "cached" /\ op'[u].key = None
                /\ op'[u].cur = None /\ op'[u].ent = None
                /\ op'[u].snap = {} /\ op'[u].sweep = {} /\ op'[u].todo = {}
<1>1. op' = [s \in Scans |-> IF Conn(s) = c THEN NoCall("idle") ELSE op[s]]
  BY DEF EndQuery
<1>2. \A u \in CallsOn(c) : op'[u] = NoCall("idle") /\ op[u].pc \in {"idle", "done"}
  BY <1>1 DEF CallsOn, EndQuery
<1>3. LET n == NoCall("idle") IN
      /\ n.pc = "idle" /\ n.pass = "cached" /\ n.key = None /\ n.cur = None /\ n.ent = None
      /\ n.snap = {} /\ n.sweep = {} /\ n.todo = {}
  BY DEF NoCall, CallAt
<1>4. \A u \in CallsOn(c) : op[u].cur = None
  BY <1>2 DEF RInv, RefsOf, ShapeOf, CallsOn
<1>5. Waiting(CallsOn(c)) /\ CallsOn(c) \in SUBSET Scans
  BY <1>1 DEF Waiting, CallsOn
<1> QED BY <1>2, <1>3, <1>4, <1>5 DEF EndQuery

LEMMA QueryEndFacts ==
    ASSUME TypeOK, NEW c \in Conns
    PROVE  /\ \A k \in Keys : QueryEnd(c)[c][k] = None
           /\ \A d \in Conns \ {c}, k \in Keys : QueryEnd(c)[d][k] = query[d][k]
BY DEF TypeOK, QueryEnd

LEMMA EndQueryKeeps ==
    ASSUME RInv, TInv', NEW c \in Conns, EndQuery(c)
    PROVE  RInv' /\ Step(CallsOn(c), {}) /\ Settled
<1>0. TypeOK /\ TypeOK' /\ stage \in [StageIds -> StageType]
      /\ query' \in [Conns -> [Keys -> StageIds \cup {None}]]
  BY DEF RInv, TInv, TypeOK
<1>1. /\ CallsOn(c) \in SUBSET Scans /\ Waiting(CallsOn(c))
      /\ cache' = cache /\ Settle(stage, layer, registry, QueryEnd(c), changed)
      /\ \A u \in CallsOn(c) :
           /\ op'[u].pc = "idle" /\ op'[u].pass = "cached" /\ op'[u].key = None
           /\ op'[u].cur = None /\ op'[u].ent = None
           /\ op'[u].snap = {} /\ op'[u].sweep = {}
  BY EndQueryCalls
<1>2. /\ \A k \in Keys : QueryEnd(c)[c][k] = None
      /\ \A d \in Conns \ {c}, k \in Keys : QueryEnd(c)[d][k] = query[d][k]
  BY <1>0, QueryEndFacts
<1>3. /\ RefsFrom(CallsOn(c), {}) /\ CacheFrom({}) /\ Mine(CallsOn(c), {})
      /\ {} \in SUBSET StageIds /\ {} \subseteq Alive /\ Restored(stage)
  BY <1>1 DEF RefsFrom, CacheFrom, Mine, Restored, Composing
<1>4. QueriesFrom(CallsOn(c), QueryEnd(c))
  BY <1>2 DEF QueriesFrom
<1>5. QueriesEnd(CallsOn(c), QueryEnd(c))
  BY <1>2 DEF QueriesEnd, CallsOn
<1>6. Step(CallsOn(c), {}) /\ Settled
  BY <1>0, <1>1, <1>3, <1>4, <1>5, SettledKeeps
<1>7. \A u \in CallsOn(c) : RefsOf(u)' /\ UnseenOf(u)'
  <2> SUFFICES ASSUME NEW u \in CallsOn(c) PROVE RefsOf(u)' /\ UnseenOf(u)'
    OBVIOUS
  <2>1. ShapeOf(op[u])'
    BY <1>1 DEF ShapeOf, Visiting
  <2> QED BY <1>1, <2>1 DEF RefsOf, UnseenOf, Composing
<1> QED BY <1>1, <1>3, <1>6, <1>7, RStep

LEMMA WriteFileKeeps ==
    ASSUME RInv, TInv', UNCHANGED <<layer, stage, cache, registry, query, changed, op>>
    PROVE  RInv' /\ Step({}, {}) /\ Settled
<1>1. /\ {} \in SUBSET Scans /\ Unsettled /\ cache' = cache /\ Waiting({})
      /\ RefsFrom({}, {}) /\ NoneDropped({}) /\ QueriesEnd({}, query)
  BY DEF Unsettled, Waiting, RefsFrom, NoneDropped, QueriesEnd
<1>2. Step({}, {}) /\ Settled
  BY <1>1, UnsettledKeeps
<1>3. {} \in SUBSET StageIds /\ \A u \in {} : RefsOf(u)' /\ UnseenOf(u)'
  OBVIOUS
<1> QED BY <1>1, <1>2, <1>3, RStep

LEMMA EvictKeeps ==
    ASSUME RInv, TInv', NEW d \in Dbs, NEW k \in Keys, Evict(d, k)
    PROVE  RInv' /\ Step({}, {}) /\ Settled
<1>0. /\ TypeOK /\ stage \in [StageIds -> StageType]
      /\ query' \in [Conns -> [Keys -> StageIds \cup {None}]]
  BY DEF RInv, TInv, TypeOK
<1>1. /\ op' = op /\ cache' = [cache EXCEPT ![d][k] = None]
      /\ Settle(stage, layer, registry, query, changed)
  BY DEF Evict
<1>2. /\ {} \in SUBSET Scans /\ {} \in SUBSET StageIds /\ {} \subseteq Alive /\ Waiting({})
      /\ Mine({}, {}) /\ RefsFrom({}, {}) /\ QueriesFrom({}, query) /\ QueriesEnd({}, query)
      /\ Restored(stage)
  BY <1>1 DEF Waiting, Mine, RefsFrom, QueriesFrom, QueriesEnd, Restored
<1>3. CacheFrom({})
  BY <1>0, <1>1 DEF CacheFrom, TypeOK
<1>4. Step({}, {}) /\ Settled
  BY <1>0, <1>1, <1>2, <1>3, SettledKeeps
<1>5. \A u \in {} : RefsOf(u)' /\ UnseenOf(u)'
  OBVIOUS
<1> QED BY <1>2, <1>4, <1>5, RStep

LEMMA RInvInit == Init => RInv
<1> SUFFICES ASSUME Init PROVE RInv
  OBVIOUS
<1>1. \A s \in Scans : /\ op[s].pc = "idle" /\ op[s].pass = "cached" /\ op[s].key = None
                       /\ op[s].cur = None /\ op[s].ent = None
                       /\ op[s].snap = {} /\ op[s].sweep = {}
  BY DEF Init, NoCall, CallAt
<1>2. \A s \in Scans : RefsOf(s) /\ UnseenOf(s)
  BY <1>1 DEF RefsOf, ShapeOf, Visiting, UnseenOf, Composing
<1>3. CacheOK /\ QueryOK /\ registry \subseteq Entries
  BY DEF Init, CacheOK, QueryOK
<1>4. LayersOK
  <2>1. \A f \in Files : layer[f].version = 0
    BY DEF Init, NoLayer
  <2>2. \A i \in Alive : i \in StageIds
    BY AliveAre
  <2>3. \A i \in StageIds : stage[i].loaded = {}
    BY DEF Init, FreeStage, NewStage, StageOf
  <2> QED BY <2>1, <2>2, <2>3 DEF LayersOK
<1> QED BY <1>2, <1>3, <1>4, TInvInit DEF RInv

\* A step is one of a call, or of nobody's
LEMMA RInvStep == RInv /\ [Next]_vars => RInv'
<1> SUFFICES ASSUME RInv, [Next]_vars PROVE RInv'
  OBVIOUS
<1>0. TInv'
  BY TInvStep DEF RInv
<1>1. ASSUME NEW s \in Scans, Work(s) PROVE RInv'
  BY <1>0, <1>1, LookupKeeps, GetHandleKeeps, ComparedKeeps, CompareKeeps, ReadStampKeeps,
     CheckMissingKeeps, LoadFileKeeps, RecordMissingKeeps, SweepTakeKeeps, EvictNextKeeps,
     SnapshotKeeps, SweepTestKeeps, SweepDoneKeeps, ReleaseKeeps, RemoveGetKeeps,
     RemoveDeleteKeeps, OpenStageKeeps, LoadedKeeps, RefuseKeeps, VerifiedKeeps, MakeRoomKeeps,
     FitsKeeps, DoesNotFitKeeps, PutKeeps, AddKeeps, DroppedKeeps DEF Work
<1>2. ASSUME NEW s \in Scans, \/ FinishScan(s) \/ DropCachedStages(s)
                              \/ \E k \in Keys : BeginScan(s, k)
                              \/ \E f \in Files : ReadClip(s, f)
      PROVE  RInv'
  BY <1>0, <1>2, FinishScanKeeps, DropCachedStagesKeeps, BeginScanKeeps, ReadClipKeeps
<1>3. ASSUME NEW c \in Conns, EndQuery(c) PROVE RInv'
  BY <1>0, <1>3, EndQueryKeeps
<1>4. ASSUME NEW f \in Files, WriteFile(f) PROVE RInv'
  BY <1>0, <1>4, WriteFileKeeps DEF WriteFile
<1>5. ASSUME NEW d \in Dbs, NEW k \in Keys, Evict(d, k) PROVE RInv'
  BY <1>0, <1>5, EvictKeeps
<1>6. CASE UNCHANGED vars
  BY <1>0, <1>6, WriteFileKeeps DEF vars
<1> QED BY <1>1, <1>2, <1>3, <1>4, <1>5, <1>6 DEF Next

\* The calls of all threads to UsdStageProvider::Open, and the caches, query stages,
\* registry and layers they share, fit together: a call's locals are those of its
\* step, whatever holds a stage holds that of its key and database, nobody but the
\* call has the stage it composes, and a layer is loaded if and only if a stage in
\* use uses it.
THEOREM ReferencesOrderly == Spec => []RInv
BY RInvInit, RInvStep, PTL DEF Spec

-----------------------------------------------------------------------------
(* Stages opened with outdated layers *)

\* Steps at which a call may have found layers to be outdated
Finding(c) ==
    \/ c.pc \in {"stat", "compare", "snapshot", "sweep", "test"}
    \/ /\ c.pc \in {"get", "delete"}
       /\ c.pass = "cached" \/ (c.pass = "first" /\ c.ent = None)
    \/ c.pc = "verify" /\ c.pass = "again"

\* Stage i is of connection c's query only
PrivateTo(i, c) ==
    /\ \A s \in Scans : op[s].cur = i => Conn(s) = c
    /\ \A d \in Conns, k \in Keys : query[d][k] = i => d = c

StaleOK ==
    \A i \in StageIds : stage[i].stale =>
        i \notin Entries /\ \E c \in Conns : PrivateTo(i, c)

PInv ==
    /\ \A s \in Scans : ~Finding(op[s]) => changed[s] = {}
    /\ \A s \in Scans : Composing(op[s]) => ~stage[op[s].cur].stale
    /\ StaleOK

\* What a step does to the layers the other calls found
Onward(A) ==
    \A t \in Scans \ A : \A f \in changed'[t] :
        f \in changed[t] /\ (layer[f].version # 0 => layer'[f].version = layer[f].version)

\* ... and to the stages that were opened with outdated layers
NoneStaler == \A i \in StageIds : stage'[i].stale => stage[i].stale

\* ... or but for one that only one query has, and no call composes
StaleFrom ==
    \A i \in StageIds : stage'[i].stale =>
        \/ stage[i].stale
        \/ /\ i \notin Entries /\ \E c \in Conns : PrivateTo(i, c)
           /\ \A t \in Scans : Composing(op'[t]) => op'[t].cur # i

\* What the calls that take a step have found
Finds(A) == \A u \in A : ~Finding(op'[u]) => changed'[u] = {}

LEMMA PrivateStays ==
    ASSUME RInv, NEW A \in SUBSET Scans, NEW own \in SUBSET StageIds, Step(A, own),
           NEW i \in StageIds, i \notin Entries, i \notin own, NEW c \in Conns, PrivateTo(i, c)
    PROVE  i \notin Entries' /\ PrivateTo(i, c)'
<1>0. i # None /\ \A t \in Scans : Conn(t) \in Conns /\ Conn(t)' = Conn(t)
  BY NoneAssumption, ConfigAssumption DEF Conn
<1>1. i \notin Entries'
  BY DEF Step
<1>2. \A t \in Scans : op'[t].cur = i => Conn(t) = c
  <2> SUFFICES ASSUME NEW t \in Scans, op'[t].cur = i PROVE Conn(t) = c
    OBVIOUS
  <2>1. CASE t \in A
    <3>1. op[t].cur = i \/ \E k \in Keys : query[Conn(t)][k] = i
      BY <1>0, <2>1 DEF Step, RefsFrom
    <3> QED BY <1>0, <3>1 DEF PrivateTo
  <2>2. CASE t \notin A
    BY <2>2 DEF Step, Waiting, PrivateTo
  <2> QED BY <2>1, <2>2
<1>3. \A d \in Conns, k \in Keys : query'[d][k] = i => d = c
  <2> SUFFICES ASSUME NEW d \in Conns, NEW k \in Keys, query'[d][k] = i PROVE d = c
    OBVIOUS
  <2>1. query[d][k] = i \/ \E u \in A : op[u].cur = i /\ Conn(u) = d
    BY <1>0 DEF Step, QueriesFrom
  <2> QED BY <2>1 DEF PrivateTo
<1> QED BY <1>0, <1>1, <1>2, <1>3 DEF PrivateTo

\* A step keeps PInv if the stages it makes stale are private
LEMMA PStep ==
    ASSUME RInv, PInv, NEW A \in SUBSET Scans, NEW own \in SUBSET StageIds, Step(A, own),
           StaleFrom, Onward(A), Finds(A), changed' \in [Scans -> SUBSET Files],
           \A i \in own : ~stage'[i].stale
    PROVE  PInv'
<1>0. \A t \in Scans : op[t] \in OpType
  BY DEF RInv, TInv, TypeOK
<1>1. \A t \in Scans : ~Finding(op'[t]) => changed'[t] = {}
  <2> SUFFICES ASSUME NEW t \in Scans, ~Finding(op'[t]) PROVE changed'[t] = {}
    OBVIOUS
  <2>1. CASE t \in A
    BY <2>1 DEF Finds
  <2>2. CASE t \notin A
    <3>1. op'[t] = op[t]
      BY <2>2 DEF Step, Waiting
    <3>2. changed[t] = {}
      BY <3>1 DEF PInv
    <3> QED BY <2>2, <3>2 DEF Onward
  <2> QED BY <2>1, <2>2
<1>2. \A t \in Scans : Composing(op'[t]) => ~stage'[op'[t].cur].stale
  <2> SUFFICES ASSUME NEW t \in Scans, Composing(op'[t]) PROVE ~stage'[op'[t].cur].stale
    OBVIOUS
  <2>1. op'[t].cur \in own \/ (Composing(op[t]) /\ op'[t].cur = op[t].cur)
    BY DEF Step, Waiting, RefsFrom
  <2>2. CASE Composing(op[t]) /\ op'[t].cur = op[t].cur
    <3>1. op[t].cur \in StageIds /\ ~stage[op[t].cur].stale
      BY <1>0, <2>2 DEF PInv, OpType, Composing
    <3> QED BY <2>2, <3>1 DEF StaleFrom
  <2> QED BY <2>1, <2>2
<1>3. \A i \in StageIds : stage'[i].stale =>
        i \notin Entries' /\ \E c \in Conns : PrivateTo(i, c)'
  <2> SUFFICES ASSUME NEW i \in StageIds, stage'[i].stale
               PROVE  i \notin Entries' /\ \E c \in Conns : PrivateTo(i, c)'
    OBVIOUS
  <2>1. i \notin own
    OBVIOUS
  <2>2. PICK c \in Conns : i \notin Entries /\ PrivateTo(i, c)
    BY DEF PInv, StaleOK, StaleFrom
  <2> QED BY <2>1, <2>2, PrivateStays
<1> QED BY <1>1, <1>2, <1>3 DEF PInv, StaleOK, Finding, Composing, PrivateTo, Conn

LEMMA UnsettledOnward ==
    ASSUME Unsettled, NEW A PROVE Onward(A) /\ NoneStaler
BY DEF Unsettled, Onward, NoneStaler

LEMMA SettledOnward ==
    ASSUME NEW st \in [StageIds -> StageType], NEW reg, NEW qry, NEW chg,
           Settle(st, layer, reg, qry, chg), NEW A \in SUBSET Scans,
           \A t \in Scans \ A : chg[t] = changed[t] /\ changed[t] \subseteq Files,
           \A i \in StageIds : st[i].stale => stage[i].stale
    PROVE  Onward(A) /\ NoneStaler
<1>1. /\ \A i \in Alive' : stage'[i] = st[i]
      /\ \A f \in Files : (\E i \in Alive' : f \in st[i].loaded) => layer'[f] = layer[f]
      /\ \A s \in Scans, f \in Files : f \in changed'[s] <=>
           f \in chg[s] /\ \E i \in Alive' : f \in st[i].loaded
      /\ \A i \in StageIds \ Alive' : ~stage'[i].stale
  BY SettleFacts
<1>2. \A s \in Scans : changed'[s] \subseteq chg[s]
  BY DEF Settle, Unexpired
<1>3. Onward(A)
  BY <1>1, <1>2 DEF Onward
<1> QED BY <1>1, <1>3 DEF NoneStaler

\* The two, for the steps of one call
LEMMA DropsOnward ==
    ASSUME TInv, NEW s \in Scans, NEW reg, NEW chg \in [Scans -> SUBSET Files],
           \A t \in Scans \ {s} : chg[t] = changed[t],
           Settle(stage, layer, reg, query, chg)
    PROVE  /\ Onward({s}) /\ NoneStaler /\ changed'[s] \subseteq chg[s]
<1>1. stage \in [StageIds -> StageType] /\ changed \in [Scans -> SUBSET Files]
  BY DEF TInv, TypeOK
<1>2. {s} \in SUBSET Scans /\ \A t \in Scans \ {s} : chg[t] = changed[t] /\ changed[t] \subseteq Files
  BY <1>1
<1>3. \A i \in StageIds : stage[i].stale => stage[i].stale
  OBVIOUS
<1>4. Onward({s}) /\ NoneStaler
  BY <1>1, <1>2, <1>3, SettledOnward
<1>5. changed'[s] \subseteq chg[s]
  BY DEF Settle, Unexpired
<1> QED BY <1>4, <1>5

LEMMA ReleaseOnward ==
    ASSUME TInv, NEW s \in Scans, NEW v \in StageIds,
           Settle([stage EXCEPT ![v].released = TRUE], layer, registry, query, changed)
    PROVE  Onward({s}) /\ NoneStaler /\ changed'[s] \subseteq changed[s]
<1>1. stage \in [StageIds -> StageType] /\ changed \in [Scans -> SUBSET Files]
  BY DEF TInv, TypeOK
<1>2. [stage EXCEPT ![v].released = TRUE] \in [StageIds -> StageType]
  BY <1>1, ReleaseUpdate
<1>3. \A i \in StageIds : [stage EXCEPT ![v].released = TRUE][i].stale => stage[i].stale
  BY <1>1 DEF StageType
<1>4. {s} \in SUBSET Scans /\ \A t \in Scans \ {s} : changed[t] = changed[t] /\ changed[t] \subseteq Files
  BY <1>1
<1>5. Onward({s}) /\ NoneStaler
  BY <1>2, <1>3, <1>4, SettledOnward
<1>6. changed'[s] \subseteq changed[s]
  BY DEF Settle, Unexpired
<1> QED BY <1>5, <1>6

\* What each action makes of the outdated layers found

LEMMA BeginScanMarks ==
    ASSUME RInv, PInv, NEW s \in Scans, NEW k \in Keys, BeginScan(s, k)
    PROVE  NoneStaler /\ Onward({s}) /\ Finds({s})
<1>0. TInv /\ Facts(s) /\ (~Finding(op[s]) => changed[s] = {}) /\ changed \in [Scans -> SUBSET Files]
  BY HasFacts DEF RInv, TInv, TypeOK, PInv
<1>1. Unsettled
  BY DEF BeginScan
<1>2. Onward({s}) /\ NoneStaler /\ changed' = changed
  BY <1>1, UnsettledOnward DEF Unsettled
<1>3. ~Finding(op'[s]) => changed[s] = {}
  BY <1>0, BeginScanCall DEF Finding, At, HoldsStill, Holds, Facts, ShapeOf, LocalsOf, OpType, Passes
<1> QED BY <1>2, <1>3 DEF Finds

LEMMA LookupMarks ==
    ASSUME RInv, PInv, NEW s \in Scans, Lookup(s)
    PROVE  NoneStaler /\ Onward({s}) /\ Finds({s})
<1>0. TInv /\ Facts(s) /\ (~Finding(op[s]) => changed[s] = {}) /\ changed \in [Scans -> SUBSET Files]
  BY HasFacts DEF RInv, TInv, TypeOK, PInv
<1>1. Unsettled
  BY DEF Lookup
<1>2. Onward({s}) /\ NoneStaler /\ changed' = changed
  BY <1>1, UnsettledOnward DEF Unsettled
<1>3. ~Finding(op'[s]) => changed[s] = {}
  BY <1>0, LookupCall DEF Finding, At, HoldsStill, Holds, Facts, ShapeOf, LocalsOf, OpType, Passes
<1> QED BY <1>2, <1>3 DEF Finds

LEMMA GetHandleMarks ==
    ASSUME RInv, PInv, NEW s \in Scans, GetHandle(s)
    PROVE  NoneStaler /\ Onward({s}) /\ Finds({s})
<1>0. TInv /\ Facts(s) /\ (~Finding(op[s]) => changed[s] = {}) /\ changed \in [Scans -> SUBSET Files]
  BY HasFacts DEF RInv, TInv, TypeOK, PInv
<1>1. Unsettled
  BY DEF GetHandle
<1>2. Onward({s}) /\ NoneStaler /\ changed' = changed
  BY <1>1, UnsettledOnward DEF Unsettled
<1>3. ~Finding(op'[s]) => changed[s] = {}
  BY <1>0, GetHandleCall DEF Finding, At, HoldsStill, Holds, Facts, ShapeOf, LocalsOf, OpType, Passes
<1> QED BY <1>2, <1>3 DEF Finds

LEMMA ReadStampMarks ==
    ASSUME RInv, PInv, NEW s \in Scans, NEW f \in Files, ReadStamp(s, f)
    PROVE  NoneStaler /\ Onward({s}) /\ Finds({s})
<1>0. TInv /\ Facts(s) /\ (~Finding(op[s]) => changed[s] = {}) /\ changed \in [Scans -> SUBSET Files]
  BY HasFacts DEF RInv, TInv, TypeOK, PInv
<1>1. Unsettled
  BY DEF ReadStamp
<1>2. Onward({s}) /\ NoneStaler /\ changed' = changed
  BY <1>1, UnsettledOnward DEF Unsettled
<1>3. ~Finding(op'[s]) => changed[s] = {}
  BY <1>0, ReadStampCall DEF Finding, At, HoldsStill, Holds, Facts, ShapeOf, LocalsOf, OpType, Passes
<1> QED BY <1>2, <1>3 DEF Finds

LEMMA SnapshotMarks ==
    ASSUME RInv, PInv, NEW s \in Scans, Snapshot(s)
    PROVE  NoneStaler /\ Onward({s}) /\ Finds({s})
<1>0. TInv /\ Facts(s) /\ (~Finding(op[s]) => changed[s] = {}) /\ changed \in [Scans -> SUBSET Files]
  BY HasFacts DEF RInv, TInv, TypeOK, PInv
<1>1. Unsettled
  BY DEF Snapshot
<1>2. Onward({s}) /\ NoneStaler /\ changed' = changed
  BY <1>1, UnsettledOnward DEF Unsettled
<1>3. ~Finding(op'[s]) => changed[s] = {}
  BY <1>0, SnapshotCall DEF Finding, At, HoldsStill, Holds, Facts, ShapeOf, LocalsOf, OpType, Passes
<1> QED BY <1>2, <1>3 DEF Finds

LEMMA SweepTakeMarks ==
    ASSUME RInv, PInv, NEW s \in Scans, NEW v \in StageIds, SweepTake(s, v)
    PROVE  NoneStaler /\ Onward({s}) /\ Finds({s})
<1>0. TInv /\ Facts(s) /\ (~Finding(op[s]) => changed[s] = {}) /\ changed \in [Scans -> SUBSET Files]
  BY HasFacts DEF RInv, TInv, TypeOK, PInv
<1>1. Unsettled
  BY DEF SweepTake
<1>2. Onward({s}) /\ NoneStaler /\ changed' = changed
  BY <1>1, UnsettledOnward DEF Unsettled
<1>3. ~Finding(op'[s]) => changed[s] = {}
  BY <1>0, SweepTakeCall DEF Finding, At, HoldsStill, Holds, Facts, ShapeOf, LocalsOf, OpType, Passes
<1> QED BY <1>2, <1>3 DEF Finds

LEMMA LoadedMarks ==
    ASSUME RInv, PInv, NEW s \in Scans, Loaded(s)
    PROVE  NoneStaler /\ Onward({s}) /\ Finds({s})
<1>0. TInv /\ Facts(s) /\ (~Finding(op[s]) => changed[s] = {}) /\ changed \in [Scans -> SUBSET Files]
  BY HasFacts DEF RInv, TInv, TypeOK, PInv
<1>1. Unsettled
  BY DEF Loaded
<1>2. Onward({s}) /\ NoneStaler /\ changed' = changed
  BY <1>1, UnsettledOnward DEF Unsettled
<1>3. ~Finding(op'[s]) => changed[s] = {}
  BY <1>0, LoadedCall DEF Finding, At, HoldsStill, Holds, Facts, ShapeOf, LocalsOf, OpType, Passes
<1> QED BY <1>2, <1>3 DEF Finds

LEMMA MakeRoomMarks ==
    ASSUME RInv, PInv, NEW s \in Scans, MakeRoom(s)
    PROVE  NoneStaler /\ Onward({s}) /\ Finds({s})
<1>0. TInv /\ Facts(s) /\ (~Finding(op[s]) => changed[s] = {}) /\ changed \in [Scans -> SUBSET Files]
  BY HasFacts DEF RInv, TInv, TypeOK, PInv
<1>1. Unsettled
  BY DEF MakeRoom
<1>2. Onward({s}) /\ NoneStaler /\ changed' = changed
  BY <1>1, UnsettledOnward DEF Unsettled
<1>3. ~Finding(op'[s]) => changed[s] = {}
  BY <1>0, MakeRoomCall DEF Finding, At, HoldsStill, Holds, Facts, ShapeOf, LocalsOf, OpType, Passes, Cacheable
<1> QED BY <1>2, <1>3 DEF Finds

LEMMA EvictNextMarks ==
    ASSUME RInv, PInv, NEW s \in Scans, NEW v \in StageIds, EvictNext(s, v)
    PROVE  NoneStaler /\ Onward({s}) /\ Finds({s})
<1>0. TInv /\ Facts(s) /\ (~Finding(op[s]) => changed[s] = {}) /\ changed \in [Scans -> SUBSET Files]
  BY HasFacts DEF RInv, TInv, TypeOK, PInv
<1>1. Unsettled
  BY DEF EvictNext
<1>2. Onward({s}) /\ NoneStaler /\ changed' = changed
  BY <1>1, UnsettledOnward DEF Unsettled
<1>3. ~Finding(op'[s]) => changed[s] = {}
  BY <1>0, EvictNextCall DEF Finding, At, HoldsStill, Holds, Facts, ShapeOf, LocalsOf, OpType, Passes
<1> QED BY <1>2, <1>3 DEF Finds

LEMMA DropCachedStagesMarks ==
    ASSUME RInv, PInv, NEW s \in Scans, DropCachedStages(s)
    PROVE  NoneStaler /\ Onward({s}) /\ Finds({s})
<1>0. TInv /\ Facts(s) /\ (~Finding(op[s]) => changed[s] = {}) /\ changed \in [Scans -> SUBSET Files]
  BY HasFacts DEF RInv, TInv, TypeOK, PInv
<1>1. Unsettled
  BY DEF DropCachedStages
<1>2. Onward({s}) /\ NoneStaler /\ changed' = changed
  BY <1>1, UnsettledOnward DEF Unsettled
<1>3. ~Finding(op'[s]) => changed[s] = {}
  BY <1>0, DropCachedStagesCall DEF Finding, At, HoldsStill, Holds, Facts, ShapeOf, LocalsOf, OpType, Passes
<1> QED BY <1>2, <1>3 DEF Finds

LEMMA ComparedMarks ==
    ASSUME RInv, PInv, NEW s \in Scans, Compared(s)
    PROVE  NoneStaler /\ Onward({s}) /\ Finds({s})
<1>0. TInv /\ Facts(s) /\ (~Finding(op[s]) => changed[s] = {}) /\ changed \in [Scans -> SUBSET Files]
  BY HasFacts DEF RInv, TInv, TypeOK, PInv
<1>1. Settle(stage, layer, registry, query, changed)
  BY DEF Compared
<1>2. Onward({s}) /\ NoneStaler /\ changed'[s] \subseteq changed[s]
  BY <1>0, <1>1, DropsOnward
<1>3. ~Finding(op'[s]) => changed[s] = {}
  BY <1>0, ComparedCall DEF Finding, At, HoldsStill, Holds, Facts, ShapeOf, LocalsOf, OpType, Passes
<1> QED BY <1>2, <1>3 DEF Finds

LEMMA CheckMissingMarks ==
    ASSUME RInv, PInv, NEW s \in Scans, NEW f \in Files, CheckMissing(s, f)
    PROVE  NoneStaler /\ Onward({s}) /\ Finds({s})
<1>0. TInv /\ Facts(s) /\ (~Finding(op[s]) => changed[s] = {}) /\ changed \in [Scans -> SUBSET Files]
  BY HasFacts DEF RInv, TInv, TypeOK, PInv
<1>1. Settle(stage, layer, registry, query, changed)
  BY DEF CheckMissing
<1>2. Onward({s}) /\ NoneStaler /\ changed'[s] \subseteq changed[s]
  BY <1>0, <1>1, DropsOnward
<1>3. ~Finding(op'[s]) => changed[s] = {}
  BY <1>0, CheckMissingCall DEF Finding, At, HoldsStill, Holds, Facts, ShapeOf, LocalsOf, OpType, Passes
<1> QED BY <1>2, <1>3 DEF Finds

LEMMA RemoveGetMarks ==
    ASSUME RInv, PInv, NEW s \in Scans, RemoveGet(s)
    PROVE  NoneStaler /\ Onward({s}) /\ Finds({s})
<1>0. TInv /\ Facts(s) /\ (~Finding(op[s]) => changed[s] = {}) /\ changed \in [Scans -> SUBSET Files]
  BY HasFacts DEF RInv, TInv, TypeOK, PInv
<1>1. Settle(stage, layer, registry, query, changed)
  BY DEF RemoveGet
<1>2. Onward({s}) /\ NoneStaler /\ changed'[s] \subseteq changed[s]
  BY <1>0, <1>1, DropsOnward
<1>3. ~Finding(op'[s]) => changed[s] = {}
  BY <1>0, RemoveGetCall DEF Finding, At, HoldsStill, Holds, Facts, ShapeOf, LocalsOf, OpType, Passes
<1> QED BY <1>2, <1>3 DEF Finds

LEMMA FitsMarks ==
    ASSUME RInv, PInv, NEW s \in Scans, Fits(s)
    PROVE  NoneStaler /\ Onward({s}) /\ Finds({s})
<1>0. TInv /\ Facts(s) /\ (~Finding(op[s]) => changed[s] = {}) /\ changed \in [Scans -> SUBSET Files]
  BY HasFacts DEF RInv, TInv, TypeOK, PInv
<1>1. Settle(stage, layer, registry, query, changed)
  BY DEF Fits
<1>2. Onward({s}) /\ NoneStaler /\ changed'[s] \subseteq changed[s]
  BY <1>0, <1>1, DropsOnward
<1>3. ~Finding(op'[s]) => changed[s] = {}
  BY <1>0, FitsCall DEF Finding, At, HoldsStill, Holds, Facts, ShapeOf, LocalsOf, OpType, Passes
<1> QED BY <1>2, <1>3 DEF Finds

LEMMA FinishScanMarks ==
    ASSUME RInv, PInv, NEW s \in Scans, FinishScan(s)
    PROVE  NoneStaler /\ Onward({s}) /\ Finds({s})
<1>0. TInv /\ Facts(s) /\ (~Finding(op[s]) => changed[s] = {}) /\ changed \in [Scans -> SUBSET Files]
  BY HasFacts DEF RInv, TInv, TypeOK, PInv
<1>1. Settle(stage, layer, registry, query, changed)
  BY DEF FinishScan
<1>2. Onward({s}) /\ NoneStaler /\ changed'[s] \subseteq changed[s]
  BY <1>0, <1>1, DropsOnward
<1>3. ~Finding(op'[s]) => changed[s] = {}
  BY <1>0, FinishScanCall DEF Finding, At, HoldsStill, Holds, Facts, ShapeOf, LocalsOf, OpType, Passes
<1> QED BY <1>2, <1>3 DEF Finds

LEMMA DroppedMarks ==
    ASSUME RInv, PInv, NEW s \in Scans, Dropped(s)
    PROVE  NoneStaler /\ Onward({s}) /\ Finds({s})
<1>0. TInv /\ Facts(s) /\ (~Finding(op[s]) => changed[s] = {}) /\ changed \in [Scans -> SUBSET Files]
  BY HasFacts DEF RInv, TInv, TypeOK, PInv
<1>1. Settle(stage, layer, registry, query, changed)
  BY DEF Dropped
<1>2. Onward({s}) /\ NoneStaler /\ changed'[s] \subseteq changed[s]
  BY <1>0, <1>1, DropsOnward
<1>3. ~Finding(op'[s]) => changed[s] = {}
  BY <1>0, DroppedCall DEF Finding, At, HoldsStill, Holds, Facts, ShapeOf, LocalsOf, OpType, Passes
<1> QED BY <1>2, <1>3 DEF Finds

LEMMA RemoveDeleteMarks ==
    ASSUME RInv, PInv, NEW s \in Scans, RemoveDelete(s)
    PROVE  NoneStaler /\ Onward({s}) /\ Finds({s})
<1>0. TInv /\ Facts(s) /\ (~Finding(op[s]) => changed[s] = {}) /\ changed \in [Scans -> SUBSET Files]
  BY HasFacts DEF RInv, TInv, TypeOK, PInv
<1>1. Settle(stage, layer, registry, query, changed)
  BY DEF RemoveDelete
<1>2. Onward({s}) /\ NoneStaler /\ changed'[s] \subseteq changed[s]
  BY <1>0, <1>1, DropsOnward
<1>3. ~Finding(op'[s]) => changed[s] = {}
  BY <1>0, RemoveDeleteCall DEF Finding, At, HoldsStill, Holds, Facts, ShapeOf, LocalsOf, OpType, Passes
<1> QED BY <1>2, <1>3 DEF Finds

LEMMA PutMarks ==
    ASSUME RInv, PInv, NEW s \in Scans, Put(s)
    PROVE  NoneStaler /\ Onward({s}) /\ Finds({s})
<1>0. TInv /\ Facts(s) /\ (~Finding(op[s]) => changed[s] = {}) /\ changed \in [Scans -> SUBSET Files]
  BY HasFacts DEF RInv, TInv, TypeOK, PInv
<1>1. Settle(stage, layer, registry, query, changed)
  BY DEF Put
<1>2. Onward({s}) /\ NoneStaler /\ changed'[s] \subseteq changed[s]
  BY <1>0, <1>1, DropsOnward
<1>3. ~Finding(op'[s]) => changed[s] = {}
  BY <1>0, PutCall DEF Finding, At, HoldsStill, Holds, Facts, ShapeOf, LocalsOf, OpType, Passes
<1> QED BY <1>2, <1>3 DEF Finds

LEMMA SweepDoneMarks ==
    ASSUME RInv, PInv, NEW s \in Scans, SweepDone(s)
    PROVE  NoneStaler /\ Onward({s}) /\ Finds({s})
<1>0. TInv /\ Facts(s) /\ (~Finding(op[s]) => changed[s] = {}) /\ changed \in [Scans -> SUBSET Files]
  BY HasFacts DEF RInv, TInv, TypeOK, PInv
<1> DEFINE chg == [changed EXCEPT ![s] = {}]
<1>1. Settle(stage, layer, registry, query, chg)
  BY DEF SweepDone
<1>2. /\ chg \in [Scans -> SUBSET Files] /\ chg[s] = {}
      /\ \A t \in Scans \ {s} : chg[t] = changed[t]
  BY <1>0
<1> HIDE DEF chg
<1>3. Onward({s}) /\ NoneStaler /\ changed'[s] \subseteq chg[s]
  BY <1>0, <1>1, <1>2, DropsOnward
<1> QED BY <1>2, <1>3 DEF Finds

LEMMA FailMarks ==
    ASSUME RInv, PInv, NEW s \in Scans, Fail(s)
    PROVE  NoneStaler /\ Onward({s}) /\ Finds({s})
<1>0. TInv /\ Facts(s) /\ (~Finding(op[s]) => changed[s] = {}) /\ changed \in [Scans -> SUBSET Files]
  BY HasFacts DEF RInv, TInv, TypeOK, PInv
<1> DEFINE chg == [changed EXCEPT ![s] = {}]
<1>1. Settle(stage, layer, registry, query, chg)
  BY DEF Fail
<1>2. /\ chg \in [Scans -> SUBSET Files] /\ chg[s] = {}
      /\ \A t \in Scans \ {s} : chg[t] = changed[t]
  BY <1>0
<1> HIDE DEF chg
<1>3. Onward({s}) /\ NoneStaler /\ changed'[s] \subseteq chg[s]
  BY <1>0, <1>1, <1>2, DropsOnward
<1> QED BY <1>2, <1>3 DEF Finds

LEMMA SweepTestMarks ==
    ASSUME RInv, PInv, NEW s \in Scans, SweepTest(s)
    PROVE  NoneStaler /\ Onward({s}) /\ Finds({s})
<1>0. /\ TInv /\ Facts(s) /\ (~Finding(op[s]) => changed[s] = {})
      /\ changed \in [Scans -> SUBSET Files]
  BY HasFacts DEF RInv, TInv, TypeOK, PInv
<1>1. op[s].vic \in StageIds /\ op[s].pc = "test"
  BY <1>0 DEF SweepTest, Facts, LocalsOf
<1>2. Onward({s}) /\ NoneStaler /\ changed'[s] \subseteq changed[s]
  <2>1. CASE Settle(stage, layer, registry, query, changed)
    BY <1>0, <2>1, DropsOnward
  <2>2. CASE Settle([stage EXCEPT ![op[s].vic].released = TRUE], layer, registry, query, changed)
    BY <1>0, <1>1, <2>2, ReleaseOnward
  <2> QED BY <2>1, <2>2 DEF SweepTest
<1>3. Finding(op'[s])
  <2>1. ASSUME At(s, "sweep", op[s].pass) PROVE Finding(op'[s])
    BY <2>1 DEF At, Finding
  <2>2. ASSUME At(s, "get", op[s].pass), HoldsStill(s) PROVE Finding(op'[s])
    <3>1. op[s].pass \in {"cached", "first"} /\ (op[s].pass = "first" => op[s].ent = None)
      BY <1>0, <1>1 DEF Facts, ShapeOf, LocalsOf, OpType, Passes
    <3> QED BY <2>2, <3>1 DEF At, HoldsStill, Holds, Finding
  <2> QED BY <1>0, <2>1, <2>2, SweepTestCall
<1> QED BY <1>2, <1>3 DEF Finds

LEMMA ReleaseMarks ==
    ASSUME RInv, PInv, NEW s \in Scans, Release(s)
    PROVE  NoneStaler /\ Onward({s}) /\ Finds({s})
<1>0. /\ TInv /\ Facts(s) /\ (~Finding(op[s]) => changed[s] = {})
      /\ changed \in [Scans -> SUBSET Files]
  BY HasFacts DEF RInv, TInv, TypeOK, PInv
<1>1. op[s].ent \in StageIds /\ op[s].pc = "release"
  BY <1>0 DEF Release, Facts, LocalsOf
<1>2. Onward({s}) /\ NoneStaler /\ changed'[s] \subseteq changed[s]
  BY <1>0, <1>1, ReleaseOnward DEF Release
<1>3. changed[s] = {}
  BY <1>0, <1>1 DEF Finding
<1> QED BY <1>2, <1>3 DEF Finds

LEMMA CompareMarks ==
    ASSUME RInv, PInv, NEW s \in Scans, Compare(s)
    PROVE  NoneStaler /\ Onward({s}) /\ Finds({s})
<1>0. TInv /\ TypeOK
  BY DEF RInv, TInv
<1>1. op'[s].pc = "stat"
  BY <1>0, CompareCall DEF At
<1>2. /\ stage' = stage /\ \A t \in Scans \ {s} : changed'[t] = changed[t]
      /\ \A f \in Files : layer'[f].version = layer[f].version
  <2>1. stage' = stage /\ \A t \in Scans \ {s} : changed'[t] = changed[t]
    BY <1>0 DEF Compare, TypeOK
  <2>2. \A f \in Files : layer'[f].version = layer[f].version
    <3>1. CASE layer' = layer
      BY <3>1
    <3>2. CASE layer' = [layer EXCEPT ![op[s].at].stamp = op[s].seen]
      BY <1>0, <3>2 DEF TypeOK
    <3> QED BY <3>1, <3>2 DEF Compare
  <2> QED BY <2>1, <2>2
<1>3. \A t \in Scans : changed[t] \subseteq Files
  BY <1>0 DEF TypeOK
<1> QED BY <1>1, <1>2, <1>3 DEF NoneStaler, Onward, Finds, Finding

LEMMA OpenStageMarks ==
    ASSUME RInv, PInv, NEW s \in Scans, OpenStage(s)
    PROVE  NoneStaler /\ Onward({s}) /\ Finds({s}) /\ ~stage'[op'[s].cur].stale
<1>0. TInv
  BY DEF RInv
<1>1. op[s].pc = "open" /\ layer' = layer /\ changed' = changed
  BY <1>0, OpenStageCall
<1>2. PICK i \in StageIds :
        /\ Holds(s, op[s].key, i, op[s].ent)
        /\ stage'[i] = NewStage(op[s].key, Db(s))
        /\ \A j \in StageIds \ {i} : stage'[j] = stage[j]
  BY <1>0, OpenStageCall
<1>3. ~stage'[i].stale
  BY <1>2 DEF NewStage, StageOf
<1>4. changed[s] = {}
  BY <1>1 DEF PInv, Finding
<1> QED BY <1>1, <1>2, <1>3, <1>4 DEF NoneStaler, Onward, Finds, Holds

LEMMA ComposeMarks ==
    ASSUME RInv, NEW s \in Scans, NEW f \in Files, op[s].cur \in StageIds, Compose(s, f)
    PROVE  /\ NoneStaler /\ Onward({s}) /\ changed' = changed
           /\ stage'[op[s].cur].stale = stage[op[s].cur].stale
<1>0. TypeOK
  BY DEF RInv, TInv
<1>1. /\ \A j \in StageIds \ {op[s].cur} : stage'[j] = stage[j]
      /\ stage'[op[s].cur].stale = stage[op[s].cur].stale
      /\ \A g \in Files : \/ layer'[g] = layer[g]
                          \/ layer[g].version = 0
      /\ changed' = changed
  BY <1>0, ComposeFacts
<1>2. \A t \in Scans : changed[t] \subseteq Files
  BY <1>0 DEF TypeOK
<1> QED BY <1>1, <1>2 DEF NoneStaler, Onward

LEMMA LoadFileMarks ==
    ASSUME RInv, PInv, NEW s \in Scans, NEW f \in Files, LoadFile(s, f)
    PROVE  NoneStaler /\ Onward({s}) /\ Finds({s}) /\ ~stage'[op[s].cur].stale
<1>0. TInv /\ TypeOK /\ Facts(s)
  BY HasFacts DEF RInv, TInv
<1>1. op[s].pc = "load"
  BY <1>0, LoadFileCall
<1>2. op[s].cur \in StageIds /\ op[s].cur # None
  BY <1>1, HasStage DEF Holding
<1>3. Composing(op[s]) /\ ~stage[op[s].cur].stale
  BY <1>0, <1>1, <1>2 DEF Facts, ShapeOf, Composing, PInv
<1>4. changed[s] = {}
  BY <1>1 DEF PInv, Finding
<1>5. CASE Compose(s, f)
  BY <1>2, <1>3, <1>4, <1>5, ComposeMarks DEF Finds
<1>6. CASE /\ stage' = [stage EXCEPT ![op[s].cur].missed[f] = Stamp(f)]
           /\ layer' = layer /\ changed' = changed
  <2>1. /\ \A j \in StageIds \ {op[s].cur} : stage'[j] = stage[j]
        /\ stage'[op[s].cur].stale = stage[op[s].cur].stale
    BY <1>0, <1>2, <1>6 DEF TypeOK, StageType
  <2> QED BY <1>3, <1>4, <1>6, <2>1 DEF NoneStaler, Onward, Finds
<1>7. CASE Fail(s)
  <2>1. NoneStaler /\ Onward({s}) /\ Finds({s})
    BY <1>7, FailMarks
  <2> QED BY <1>2, <1>3, <2>1 DEF NoneStaler
<1> QED BY <1>0, <1>5, <1>6, <1>7, LoadFileCall

LEMMA RecordMissingMarks ==
    ASSUME RInv, PInv, NEW s \in Scans, NEW f \in Files, RecordMissing(s, f)
    PROVE  NoneStaler /\ Onward({s}) /\ Finds({s}) /\ ~stage'[op[s].cur].stale
<1>0. TypeOK /\ Facts(s)
  BY HasFacts DEF RInv, TInv
<1>1. op[s].pc = "record"
  BY DEF RecordMissing
<1>2. op[s].cur \in StageIds /\ op[s].cur # None
  BY <1>1, HasStage DEF Holding
<1>3. Composing(op[s]) /\ ~stage[op[s].cur].stale
  BY <1>0, <1>1, <1>2 DEF Facts, ShapeOf, Composing, PInv
<1>4. changed[s] = {}
  BY <1>1 DEF PInv, Finding
<1>5. /\ stage' = [stage EXCEPT ![op[s].cur].miss[f] = Stamp(f)]
      /\ layer' = layer /\ changed' = changed
  BY DEF RecordMissing
<1>6. /\ \A j \in StageIds \ {op[s].cur} : stage'[j] = stage[j]
      /\ stage'[op[s].cur].stale = stage[op[s].cur].stale
  BY <1>0, <1>2, <1>5 DEF TypeOK, StageType
<1> QED BY <1>3, <1>4, <1>5, <1>6 DEF NoneStaler, Onward, Finds

LEMMA ReadClipMarks ==
    ASSUME RInv, PInv, NEW s \in Scans, NEW f \in Files, ReadClip(s, f)
    PROVE  NoneStaler /\ Onward({s}) /\ Finds({s})
<1>1. op[s].pc = "using" /\ op' = op /\ Compose(s, f)
  BY DEF ReadClip
<1>2. op[s].cur \in StageIds /\ changed[s] = {}
  BY <1>1, HasStage DEF Holding, PInv, Finding
<1> QED BY <1>1, <1>2, ComposeMarks DEF Finds


LEMMA ReturnMarks ==
    ASSUME RInv, PInv, NEW s \in Scans, op[s].cur # None, NEW reg, Return(s, reg),
           changed[s] # {} => Composing(op[s])
    PROVE  StaleFrom /\ Onward({s}) /\ Finds({s})
<1>0. TInv /\ TypeOK /\ Facts(s) /\ changed \in [Scans -> SUBSET Files]
  BY HasFacts DEF RInv, TInv, TypeOK
<1> DEFINE i == op[s].cur
           b == changed[s] # {}
           st == [stage EXCEPT ![i].stale = b]
           qry == [query EXCEPT ![Conn(s)][op[s].key] = op[s].cur]
           chg == [changed EXCEPT ![s] = {}]
<1>1. Settle(st, layer, reg, qry, chg)
  BY DEF Return
<1>2. i \in StageIds /\ b \in BOOLEAN /\ stage \in [StageIds -> StageType]
  BY <1>0 DEF Facts, OpType, TypeOK
<1>3. chg[s] = {} /\ \A t \in Scans \ {s} : chg[t] = changed[t]
  BY <1>0
<1> HIDE DEF b, qry, chg
<1>4. /\ st \in [StageIds -> StageType] /\ st[i].stale = b
      /\ \A j \in StageIds \ {i} : st[j] = stage[j]
  <2>1. [stage[i] EXCEPT !.stale = b] \in StageType /\ [stage[i] EXCEPT !.stale = b].stale = b
    BY <1>2 DEF StageType
  <2> QED BY <1>2, <2>1
<1> HIDE DEF st
<1>5. /\ \A j \in Alive' : stage'[j] = st[j]
      /\ \A f \in Files : (\E j \in Alive' : f \in st[j].loaded) => layer'[f] = layer[f]
      /\ \A t \in Scans, f \in Files : f \in changed'[t] <=>
           f \in chg[t] /\ \E j \in Alive' : f \in st[j].loaded
      /\ \A j \in StageIds \ Alive' : ~stage'[j].stale
  BY <1>1, <1>4, SettleFacts
<1>6. \A t \in Scans : changed'[t] \subseteq chg[t]
  BY <1>1 DEF Settle, Unexpired
<1>7. Onward({s}) /\ Finds({s})
  <2>1. Finds({s})
    BY <1>3, <1>6 DEF Finds
  <2>2. \A t \in Scans \ {s} : chg[t] = changed[t] /\ changed[t] \subseteq Files
    BY <1>0, <1>3
  <2> QED BY <1>5, <1>6, <2>1, <2>2 DEF Onward
<1>8. StaleFrom
  <2> SUFFICES ASSUME NEW j \in StageIds, stage'[j].stale, ~stage[j].stale
               PROVE  /\ j \notin Entries /\ \E c \in Conns : PrivateTo(j, c)
                      /\ \A t \in Scans : Composing(op'[t]) => op'[t].cur # j
    BY DEF StaleFrom
  <2>1. j = i /\ changed[s] # {}
    BY <1>4, <1>5 DEF b
  <2>2. /\ i \notin Entries /\ \A t \in Scans \ {s} : op[t].cur # i
        /\ \A c \in Conns, k \in Keys : query[c][k] # i
    BY <1>0, <2>1 DEF Facts, UnseenOf
  <2>3. PrivateTo(i, Conn(s))
    BY <2>2 DEF PrivateTo
  <2>4. Waiting({s}) /\ ~Composing(op'[s])
    BY <1>0, ReturnCall DEF At, Composing
  <2>5. \A t \in Scans : Composing(op'[t]) => op'[t].cur # i
    BY <2>2, <2>4 DEF Waiting
  <2> QED BY <1>0, <2>1, <2>2, <2>3, <2>5 DEF Facts
<1> QED BY <1>7, <1>8

LEMMA VerifiedMarks ==
    ASSUME RInv, PInv, NEW s \in Scans, Verified(s)
    PROVE  StaleFrom /\ Onward({s}) /\ Finds({s})
<1>1. op[s].pc = "verify" /\ Return(s, registry)
  BY DEF Verified
<1>2. op[s].cur # None
  BY <1>1, HasStage DEF Holding
<1>3. changed[s] # {} => Composing(op[s])
  BY <1>1, <1>2 DEF PInv, Finding, Composing
<1> QED BY <1>1, <1>2, <1>3, ReturnMarks

LEMMA DoesNotFitMarks ==
    ASSUME RInv, PInv, NEW s \in Scans, DoesNotFit(s)
    PROVE  StaleFrom /\ Onward({s}) /\ Finds({s})
<1>1. op[s].pc = "evicting" /\ op[s].pass = "room" /\ Return(s, registry)
  BY DEF DoesNotFit
<1>2. op[s].cur # None /\ changed[s] = {}
  BY <1>1, HasStage DEF PInv, Finding
<1> QED BY <1>1, <1>2, ReturnMarks

LEMMA AddMarks ==
    ASSUME RInv, PInv, NEW s \in Scans, Add(s)
    PROVE  StaleFrom /\ Onward({s}) /\ Finds({s})
<1>1. op[s].pc = "add" /\ Return(s, registry \cup {op[s].cur})
  BY DEF Add
<1>2. op[s].cur # None /\ changed[s] = {}
  BY <1>1, HasStage DEF Holding, PInv, Finding
<1> QED BY <1>1, <1>2, ReturnMarks

LEMMA EndQueryMarks ==
    ASSUME RInv, PInv, NEW c \in Conns, EndQuery(c)
    PROVE  NoneStaler /\ Onward(CallsOn(c)) /\ Finds(CallsOn(c))
<1>1. /\ CallsOn(c) \in SUBSET Scans /\ Settle(stage, layer, registry, QueryEnd(c), changed)
      /\ \A u \in CallsOn(c) : op[u].pc \in {"idle", "done"}
  BY EndQueryCalls
<1>2. stage \in [StageIds -> StageType] /\ changed \in [Scans -> SUBSET Files]
  BY DEF RInv, TInv, TypeOK
<1>3. /\ \A t \in Scans \ CallsOn(c) : changed[t] = changed[t] /\ changed[t] \subseteq Files
      /\ \A i \in StageIds : stage[i].stale => stage[i].stale
  BY <1>2
<1>4. Onward(CallsOn(c)) /\ NoneStaler
  BY <1>1, <1>2, <1>3, SettledOnward
<1>5. \A u \in CallsOn(c) : changed[u] = {}
  BY <1>1 DEF PInv, Finding, CallsOn
<1>6. \A u \in Scans : changed'[u] \subseteq changed[u]
  BY <1>1 DEF Settle, Unexpired
<1> QED BY <1>1, <1>4, <1>5, <1>6 DEF Finds

LEMMA EvictMarks ==
    ASSUME RInv, PInv, NEW d \in Dbs, NEW k \in Keys, Evict(d, k)
    PROVE  NoneStaler /\ Onward({}) /\ Finds({})
<1>1. stage \in [StageIds -> StageType] /\ changed \in [Scans -> SUBSET Files]
  BY DEF RInv, TInv, TypeOK
<1>2. /\ \A t \in Scans \ {} : changed[t] = changed[t] /\ changed[t] \subseteq Files
      /\ \A i \in StageIds : stage[i].stale => stage[i].stale
      /\ {} \in SUBSET Scans
  BY <1>1
<1>3. Settle(stage, layer, registry, query, changed)
  BY DEF Evict
<1> QED BY <1>1, <1>2, <1>3, SettledOnward DEF Finds

LEMMA RefuseMarks ==
    ASSUME RInv, PInv, NEW s \in Scans, Refuse(s)
    PROVE  NoneStaler /\ Onward({s}) /\ Finds({s})
BY FailMarks DEF Refuse

LEMMA PInvInit == Init => PInv
<1> SUFFICES ASSUME Init PROVE PInv
  OBVIOUS
<1>1. \A s \in Scans : changed[s] = {} /\ op[s].cur = None
  BY DEF Init, NoCall, CallAt
<1>2. \A i \in StageIds : ~stage[i].stale
  BY DEF Init, FreeStage, NewStage, StageOf
<1> QED BY <1>1, <1>2 DEF PInv, StaleOK, Composing

\* A step of one call that rewrites no stage, that rewrites its own, and of none
LEMMA PStepOne ==
    ASSUME RInv, RInv', PInv, NEW s \in Scans, Step({s}, {}), StaleFrom, Onward({s}), Finds({s})
    PROVE  PInv'
<1>1. /\ {s} \in SUBSET Scans /\ {} \in SUBSET StageIds
      /\ changed' \in [Scans -> SUBSET Files] /\ \A i \in {} : ~stage'[i].stale
  BY DEF RInv, TInv, TypeOK
<1> QED BY <1>1, PStep

LEMMA PStepOwn ==
    ASSUME RInv, RInv', PInv, NEW s \in Scans, NEW i \in StageIds, Step({s}, {i}), NoneStaler,
           Onward({s}), Finds({s}), ~stage'[i].stale
    PROVE  PInv'
<1>1. /\ {s} \in SUBSET Scans /\ {i} \in SUBSET StageIds
      /\ changed' \in [Scans -> SUBSET Files] /\ \A j \in {i} : ~stage'[j].stale
  BY DEF RInv, TInv, TypeOK
<1>2. StaleFrom
  BY DEF StaleFrom, NoneStaler
<1> QED BY <1>1, <1>2, PStep

LEMMA PInvStep == RInv /\ PInv /\ [Next]_vars => PInv'
<1> SUFFICES ASSUME RInv, PInv, [Next]_vars PROVE PInv'
  OBVIOUS
<1>0. TInv' /\ RInv'
  BY RInvStep DEF RInv
<1>a. NoneStaler => StaleFrom
  BY DEF NoneStaler, StaleFrom
<1>1. ASSUME NEW s \in Scans, Step({s}, {}), NoneStaler, Onward({s}), Finds({s}) PROVE PInv'
  BY <1>0, <1>1, <1>a, PStepOne
<1>2. ASSUME NEW s \in Scans,
             \/ Lookup(s) \/ GetHandle(s) \/ Compared(s) \/ Compare(s)
             \/ \E f \in Files : ReadStamp(s, f) \/ CheckMissing(s, f)
             \/ \E v \in StageIds : SweepTake(s, v) \/ EvictNext(s, v)
             \/ Snapshot(s) \/ SweepTest(s) \/ SweepDone(s) \/ Release(s)
      PROVE  PInv'
  BY <1>0, <1>1, <1>2, LookupKeeps, GetHandleKeeps, ComparedKeeps, CompareKeeps, ReadStampKeeps,
     CheckMissingKeeps, SweepTakeKeeps, EvictNextKeeps, SnapshotKeeps, SweepTestKeeps,
     SweepDoneKeeps, ReleaseKeeps, LookupMarks, GetHandleMarks, ComparedMarks, CompareMarks,
     ReadStampMarks, CheckMissingMarks, SweepTakeMarks, EvictNextMarks, SnapshotMarks,
     SweepTestMarks, SweepDoneMarks, ReleaseMarks
<1>3. ASSUME NEW s \in Scans,
             \/ RemoveGet(s) \/ RemoveDelete(s) \/ Loaded(s) \/ Refuse(s)
             \/ MakeRoom(s) \/ Fits(s) \/ Dropped(s) \/ FinishScan(s) \/ DropCachedStages(s)
             \/ \E k \in Keys : BeginScan(s, k)
             \/ \E f \in Files : ReadClip(s, f)
      PROVE  PInv'
  BY <1>0, <1>1, <1>3, RemoveGetKeeps, RemoveDeleteKeeps, LoadedKeeps, RefuseKeeps, MakeRoomKeeps,
     FitsKeeps, DroppedKeeps, FinishScanKeeps, DropCachedStagesKeeps, BeginScanKeeps,
     ReadClipKeeps, RemoveGetMarks, RemoveDeleteMarks, LoadedMarks, RefuseMarks, MakeRoomMarks,
     FitsMarks, DroppedMarks, FinishScanMarks, DropCachedStagesMarks, BeginScanMarks,
     ReadClipMarks
<1>4. ASSUME NEW s \in Scans, Verified(s) \/ DoesNotFit(s) \/ Add(s) PROVE PInv'
  BY <1>0, <1>4, VerifiedKeeps, DoesNotFitKeeps, AddKeeps, VerifiedMarks, DoesNotFitMarks,
     AddMarks, PStepOne
<1>5. ASSUME NEW s \in Scans, OpenStage(s) PROVE PInv'
  BY <1>0, <1>5, OpenStageKeeps, OpenStageMarks, PStepOwn
<1>6. ASSUME NEW s \in Scans, Put(s) PROVE PInv'
  <2>1. op[s].pc = "record"
    BY <1>6 DEF Put
  <2>2. Facts(s) /\ op[s].cur \in StageIds /\ op[s].cur # None
    BY <2>1, HasFacts, HasStage DEF Holding
  <2>3. ~stage[op[s].cur].stale
    BY <2>1, <2>2 DEF Facts, ShapeOf, PInv, Composing
  <2>4. NoneStaler /\ Onward({s}) /\ Finds({s}) /\ Step({s}, {op[s].cur})
    BY <1>0, <1>6, PutMarks, PutKeeps
  <2>5. ~stage'[op[s].cur].stale
    BY <2>2, <2>3, <2>4 DEF NoneStaler
  <2> QED BY <1>0, <2>2, <2>4, <2>5, PStepOwn
<1>7. ASSUME NEW s \in Scans, NEW f \in Files, LoadFile(s, f) PROVE PInv'
  <2>1. NoneStaler /\ Onward({s}) /\ Finds({s}) /\ ~stage'[op[s].cur].stale
    BY <1>7, LoadFileMarks
  <2>2. op[s].cur \in StageIds
    BY <1>7, HasStage DEF LoadFile, Holding
  <2>3. Step({s}, {op[s].cur}) \/ Step({s}, {})
    BY <1>0, <1>7, LoadFileKeeps
  <2> QED BY <1>0, <1>1, <2>1, <2>2, <2>3, PStepOwn
<1>8. ASSUME NEW s \in Scans, NEW f \in Files, RecordMissing(s, f) PROVE PInv'
  <2>1. op[s].cur \in StageIds
    BY <1>8, HasStage DEF RecordMissing, Holding
  <2> QED BY <1>0, <1>8, <2>1, RecordMissingKeeps, RecordMissingMarks, PStepOwn
<1>9. ASSUME NEW A \in SUBSET Scans, Step(A, {}), NoneStaler, Onward(A), Finds(A) PROVE PInv'
  <2>1. /\ {} \in SUBSET StageIds /\ changed' \in [Scans -> SUBSET Files]
        /\ \A i \in {} : ~stage'[i].stale
    BY <1>0 DEF RInv, TInv, TypeOK
  <2> QED BY <1>9, <1>a, <2>1, PStep
<1>10. ASSUME NEW c \in Conns, EndQuery(c) PROVE PInv'
  <2>1. CallsOn(c) \in SUBSET Scans
    BY DEF CallsOn
  <2> QED BY <1>0, <1>9, <1>10, <2>1, EndQueryKeeps, EndQueryMarks
<1>11. ASSUME NEW d \in Dbs, NEW k \in Keys, Evict(d, k) PROVE PInv'
  <2>1. {} \in SUBSET Scans
    OBVIOUS
  <2> QED BY <1>0, <1>9, <1>11, <2>1, EvictKeeps, EvictMarks
<1>12. CASE UNCHANGED <<layer, stage, cache, registry, query, changed, op>>
  <2>1. /\ stage' = stage /\ changed' = changed /\ op' = op /\ query' = query /\ cache' = cache
        /\ \A s \in Scans : Conn(s)' = Conn(s)
    BY <1>12 DEF Conn
  <2>2. Entries' = Entries
    BY <2>1 DEF Entries
  <2> QED BY <2>1, <2>2 DEF PInv, StaleOK, PrivateTo, Finding, Composing
<1>13. ASSUME NEW f \in Files, WriteFile(f) PROVE PInv'
  BY <1>12, <1>13 DEF WriteFile
<1>14. CASE UNCHANGED vars
  BY <1>12, <1>14 DEF vars
<1> QED BY <1>2, <1>3, <1>4, <1>5, <1>6, <1>7, <1>8, <1>10, <1>11, <1>13, <1>14 DEF Next, Work

\* A stage opened with outdated layers is never cached, and only the query that
\* was warned of it holds it
LEMMA StalePrivate == RInv /\ PInv => StaleStagesStayPrivate
BY DEF PInv, StaleOK, PrivateTo, StaleStagesStayPrivate

\* A stage that Open found to be outdated, even when opened a second time, and
\* returned with a warning is never put in the object cache, and no query other
\* than the one it warned ever holds it - although layers are compared one at a
\* time and other threads release, evict and put entries between any two steps.
THEOREM StaleStaysPrivate == Spec => []StaleStagesStayPrivate
<1>1. Init => RInv /\ PInv
  BY RInvInit, PInvInit
<1>2. RInv /\ PInv /\ [Next]_vars => RInv' /\ PInv'
  BY RInvStep, PInvStep
<1> QED BY <1>1, <1>2, StalePrivate, PTL DEF Spec
=============================================================================
