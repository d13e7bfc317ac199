------------------------ MODULE UsdStageSharingProofs ------------------------
(***************************************************************************)
(* What holds of who may use a cached stage, for any number of scans,      *)
(* connections, databases and stages, and any sizes and limits.            *)
(*                                                                         *)
(* The invariant IInv says of every call to Open what its locals mean      *)
(* (CallOK), that nobody else has the stage it has composed (UnseenOK),    *)
(* and what its snapshot still tells of the cache (RoomOK); and of every   *)
(* cache that what it holds is what it was asked for (CacheOK, QueryOK),   *)
(* checked for file access (KnownOK), warned of (WarningsOK) and           *)
(* registered (RegistryOK, SettingOK).                                     *)
(*                                                                         *)
(* A step frees the stages it leaves unused, so most of the proof is about *)
(* what a step leaves in use: Settled says what is kept of the stages, and *)
(* each part of the invariant has one lemma that says which changes of a   *)
(* call keep it.  For every action there is then a lemma that says what it *)
(* changes (...Facts) and one that it keeps the invariant (...Keeps).      *)
(*                                                                         *)
(* What overlapping calls exceed the half by has an invariant of its own,  *)
(* OverlapOK, on top of IInv: some call counted all stages that the cache  *)
(* has but the last one of each thread.  It has one lemma for each action  *)
(* too (...Overlap).                                                       *)
(***************************************************************************)
EXTENDS UsdStageSharing, UsdSumProofs, FunctionTheorems, SequenceTheorems

-----------------------------------------------------------------------------
(* The inductive invariant *)

\* The call has composed a stage (Caches), that no other call has seen (Unseen), or has
\* any stage
Caches == {"room", "sort", "evict", "put", "add"}
Unseen == {"room", "sort", "evict", "put"}
Has == Caches \cup {"found", "using"}
Calls == {"lookup", "open"} \cup Has

\* Stage i exists and is that of key k in database d
StageIs(i, k, d) == i \in StageIds /\ stage[i].key = k /\ stage[i].db = d

\* The stages of a call's snapshot, and those a cache holds
Listed(o) == o.snap \cup Range(o.order)
Cached(d) == {cache[d][k] : k \in Keys} \ {None}

\* The locals of a call
CallOK(s) ==
    LET o == op[s] IN
    /\ o.pc \in {"idle", "done", "lookup", "open"} => o.cur = None
    /\ o.pc \in Calls => o.key \in Keys
    /\ o.pc \in Caches => o.caching
    /\ o.pc \in {"lookup", "found"} => ~o.caching
    /\ o.pc \in Has => StageIs(o.cur, o.key, Db(s))
    /\ o.pc # "sort" => o.snap = {}
    /\ o.pc # "evict" => o.order = <<>>
    /\ \A i \in Listed(o) : i \in registry /\ stage[i].key \in Keys /\ stage[i].db = Db(s)
    /\ \A m, n \in DOMAIN o.order : m # n => o.order[m] # o.order[n]
    /\ o.pc \in {"sort", "evict"} => o.bytes = BytesOf(Listed(o))
    /\ o.pc = "idle" => ~o.under

\* The stage a call has composed is its own until it is cached
UnseenOK(s) ==
    /\ op[s].pc \in Caches =>
         /\ op[s].cur \notin registry /\ ~stage[op[s].cur].late
         /\ \A t \in Scans \ {s} : op[t].pc \in Caches => op[t].cur # op[s].cur
    /\ op[s].pc \in Unseen =>
         /\ \A d \in Dbs, k \in Keys : cache[d][k] # op[s].cur
         /\ \A c \in Conns, k \in Keys : query[c][k] # op[s].cur
         /\ \A t \in Scans \ {s} : op[t].cur # op[s].cur

\* A cached stage is that of its key, and registered or about to be
CacheOK ==
    \A d \in Dbs, k \in Keys : cache[d][k] # None =>
        /\ StageIs(cache[d][k], k, d)
        /\ cache[d][k] \in registry \/ \E s \in Scans : op[s].pc = "add" /\ op[s].cur = cache[d][k]

QueryOK ==
    \A c \in Conns, k \in Keys : query[c][k] # None => StageIs(query[c][k], k, DbOf[c])

\* What is registered is cached, or held by a call that makes room
RegistryOK ==
    \A i \in registry :
        /\ stage[i].key \in Keys /\ stage[i].db \in Dbs
        /\ cache[stage[i].db][stage[i].key] = i \/ \E s \in Scans : i \in Held(op[s])

\* The calls of a query began under the same setting of external access
UnderOK ==
    /\ \A s \in Scans : op[s].under => Db(s) \in restricted
    /\ \A s, t \in Scans : Conn(s) = Conn(t) /\ op[s].pc # "idle" /\ op[t].pc # "idle" =>
         (op[s].under <=> op[t].under)
    /\ \A c \in Conns, k \in Keys : QueryIdle(c) => query[c][k] = None

\* If stage i of key k uses a layer outside, and the query of connection c began
\* restricted (u), or was refused one, that happened while the query had it
Known(c, k, i, u) ==
    /\ u /\ stage[i].outside => "outside" \in clips[c][k]
    /\ stage[i].refused => "refused" \in clips[c][k]

KnownOK ==
    \A s \in Scans :
        /\ op[s].pc \in Has => Known(Conn(s), op[s].key, op[s].cur, op[s].under)
        /\ op[s].pc # "idle" => \A k \in Keys : query[Conn(s)][k] # None =>
             Known(Conn(s), k, query[Conn(s)][k], op[s].under)

\* A clip is about to be opened only for a scan that uses its stage
ReadingOK == \A s \in reading : op[s].pc = "using"

\* Connection c was warned of k's errors, or a scan that does not warn opened it
Warned(c, k) == k \in WithErrors => warned[c][k] > 0 \/ k \in quiet[c]

WarningsOK ==
    /\ \A s \in Scans : op[s].pc \in Caches \cup {"using"} => Warned(Conn(s), op[s].key)
    /\ \A c \in Conns, k \in Keys : query[c][k] # None => Warned(c, k)

\* The setting is off for all of a database, and is being changed for some
Off(d) == \A c \in Conns : DbOf[c] = d => ~StageCacheEnabled(c)
Changing(d) == \E c \in Conns : DbOf[c] = d /\ setting[c] # "none"

\* The cache then has only stages of calls that overlapped the change, and so
\* have the calls that will still insert theirs
SettingOK ==
    \A d \in Dbs : Off(d) \/ Changing(d) =>
        /\ \A k \in Keys : cache[d][k] # None =>
             \/ stage[cache[d][k]].late
             \/ \E s \in Scans : op[s].pc = "add" /\ op[s].late /\ op[s].cur = cache[d][k]
        /\ \A s \in Scans : Db(s) = d /\ Caching(s) => op[s].late

\* What the snapshot of a call that nothing disturbed tells of the cache
RoomOK(s) ==
    LET o == op[s]
        d == Db(s)
    IN  /\ o.pc \in {"sort", "evict"} /\ ~o.disturbed => Cached(d) = Listed(o)
        /\ o.pc = "put" /\ ~o.disturbed =>
             /\ BytesOf(Cached(d)) + Bytes[o.key] <= Half(d)
             /\ used[d] + BytesOf(Cached(d)) + Bytes[o.key] <= Limit[d]
        /\ o.pc = "evict" /\ o.touched = {} =>
             \A m, n \in DOMAIN o.order : m < n => <<o.order[m], o.order[n]>> \in last_used

IInv ==
    /\ TypeOK
    /\ CacheOK /\ QueryOK /\ RegistryOK /\ UnderOK /\ KnownOK /\ ReadingOK /\ WarningsOK
    /\ SettingOK
    /\ \A s \in Scans : CallOK(s) /\ UnseenOK(s) /\ RoomOK(s)

-----------------------------------------------------------------------------
(* Sequences of distinct stages, and the memory of sets of stages *)

\* An order of a finite set has each of its elements once
LEMMA Orders ==
    ASSUME NEW S, IsFiniteSet(S), NEW o \in SetToSeqs(S)
    PROVE  /\ o \in Seq(S) /\ Range(o) = S
           /\ \A m, n \in DOMAIN o : m # n => o[m] # o[n]
<1> DEFINE D == 1 .. Cardinality(S)
<1>1. Cardinality(S) \in Nat
  BY FS_CardinalityType
<1>2. o \in [D -> S] /\ \A m, n \in D : m # n => o[m] # o[n]
  BY DEF SetToSeqs
<1>3. o \in Seq(S)
  BY <1>1, <1>2, SeqDef
<1>4. o \in Injection(D, S)
  BY <1>2, Fun_IsInj
<1>5. IsFiniteSet(D) /\ Cardinality(D) = Cardinality(S)
  <2>1. /\ IsFiniteSet(1 .. Cardinality(S))
        /\ Cardinality(1 .. Cardinality(S))
             = IF 1 > Cardinality(S) THEN 0 ELSE Cardinality(S) - 1 + 1
    BY <1>1, FS_Interval
  <2> QED
    BY <2>1, <1>1
<1> HIDE DEF D
<1>6. o \in Surjection(D, S)
  BY <1>4, <1>5, FS_Injection
<1>7. \A x \in S : \E m \in D : o[m] = x
  BY <1>6, Fun_SurjectionProperties
<1> QED
  BY <1>2, <1>3, <1>7 DEF Range

\* The first stage of a sequence of distinct ones, and the rest
LEMMA Tails ==
    ASSUME NEW S, NEW o \in Seq(S), o # <<>>, \A m, n \in DOMAIN o : m # n => o[m] # o[n]
    PROVE  /\ Head(o) \in S /\ Head(o) \in Range(o) /\ Head(o) = o[1] /\ 1 \in DOMAIN o
           /\ Tail(o) \in Seq(S) /\ Range(Tail(o)) = Range(o) \ {Head(o)}
           /\ \A m \in DOMAIN Tail(o) : m \in Nat /\ m + 1 \in DOMAIN o /\ Tail(o)[m] = o[m + 1]
           /\ \A m, n \in DOMAIN Tail(o) : m # n => Tail(o)[m] # Tail(o)[n]
<1>1. Len(o) \in Nat /\ Len(o) # 0 /\ DOMAIN o = 1 .. Len(o) /\ \A m \in 1 .. Len(o) : o[m] \in S
  BY EmptySeq, LenProperties
<1>2. /\ Tail(o) \in Seq(S) /\ Len(Tail(o)) = Len(o) - 1 /\ DOMAIN Tail(o) = 1 .. Len(o) - 1
      /\ \A m \in 1 .. Len(o) - 1 : Tail(o)[m] = o[m + 1]
  BY <1>1, HeadTailProperties
<1>3. Head(o) = o[1] /\ 1 \in DOMAIN o
  BY <1>1
<1>4. \A m \in DOMAIN Tail(o) : m \in Nat /\ m + 1 \in DOMAIN o /\ m # 0 /\ Tail(o)[m] = o[m + 1]
  BY <1>1, <1>2
<1>5. \A m \in DOMAIN o : m # 1 => \E n \in DOMAIN Tail(o) : o[m] = Tail(o)[n]
  <2> SUFFICES ASSUME NEW m \in DOMAIN o, m # 1 PROVE \E n \in DOMAIN Tail(o) : o[m] = Tail(o)[n]
    OBVIOUS
  <2>1. m - 1 \in DOMAIN Tail(o) /\ (m - 1) + 1 = m
    BY <1>1, <1>2
  <2> QED
    BY <2>1, <1>4
<1>6. \A m, n \in DOMAIN Tail(o) : m # n => Tail(o)[m] # Tail(o)[n]
  <2> SUFFICES ASSUME NEW m \in DOMAIN Tail(o), NEW n \in DOMAIN Tail(o), m # n
               PROVE  Tail(o)[m] # Tail(o)[n]
    OBVIOUS
  <2>1. m + 1 # n + 1
    BY <1>4
  <2> QED
    BY <2>1, <1>4
<1>7. Range(Tail(o)) = Range(o) \ {Head(o)}
  <2>1. \A m \in DOMAIN Tail(o) : Tail(o)[m] \in Range(o) \ {Head(o)}
    <3> SUFFICES ASSUME NEW m \in DOMAIN Tail(o) PROVE Tail(o)[m] \in Range(o) /\ Tail(o)[m] # o[1]
      BY <1>3
    <3>1. m + 1 # 1
      BY <1>4
    <3> QED
      BY <3>1, <1>3, <1>4 DEF Range
  <2>2. \A m \in DOMAIN o : o[m] # Head(o) => o[m] \in Range(Tail(o))
    BY <1>3, <1>5 DEF Range
  <2> QED
    BY <2>1, <2>2 DEF Range
<1> QED
  BY <1>1, <1>2, <1>3, <1>4, <1>6, <1>7 DEF Range

\* The memory of the stages ids of st, as BytesOf adds it up
Memory(st, ids) == SumFunctionOnSet([i \in ids |-> Bytes[st[i].key]], ids)

LEMMA MemoryType ==
    ASSUME NEW st, NEW ids \in SUBSET StageIds, \A i \in ids : st[i].key \in Keys
    PROVE  Memory(st, ids) \in Nat
<1> DEFINE w == [i \in ids |-> Bytes[st[i].key]]
<1>1. IsFiniteSet(ids)
  BY SharingAssumption, FS_Subset
<1>2. \A i \in ids : w[i] \in Nat
  BY SharingAssumption
<1> HIDE DEF w
<1>3. SumFunctionOnSet(w, ids) \in Nat
  BY <1>1, <1>2, SumType
<1> QED
  BY <1>3 DEF Memory, w

\* Stages of the same keys take the same memory
LEMMA MemorySame ==
    ASSUME NEW st, NEW su, NEW ids \in SUBSET StageIds,
           \A i \in ids : st[i].key \in Keys /\ su[i].key = st[i].key
    PROVE  Memory(su, ids) = Memory(st, ids)
<1> DEFINE w == [i \in ids |-> Bytes[st[i].key]]
           v == [i \in ids |-> Bytes[su[i].key]]
<1>1. IsFiniteSet(ids)
  BY SharingAssumption, FS_Subset
<1>2. \A i \in ids : v[i] = w[i] /\ w[i] \in Nat
  BY SharingAssumption
<1> HIDE DEF w, v
<1>3. SumFunctionOnSet(v, ids) = SumFunctionOnSet(w, ids)
  BY <1>1, <1>2, SumSame
<1> QED
  BY <1>3 DEF Memory, w, v

\* Without one of them, stages take as much less as it does
LEMMA MemoryRemove ==
    ASSUME NEW st, NEW ids \in SUBSET StageIds, \A j \in ids : st[j].key \in Keys, NEW i \in ids
    PROVE  /\ Memory(st, ids) = Bytes[st[i].key] + Memory(st, ids \ {i})
           /\ Memory(st, ids \ {i}) \in Nat /\ Bytes[st[i].key] \in Nat
<1> DEFINE w == [j \in ids |-> Bytes[st[j].key]]
           rest == ids \ {i}
           v == [j \in rest |-> Bytes[st[j].key]]
<1>1. IsFiniteSet(ids) /\ IsFiniteSet(rest)
  BY SharingAssumption, FS_Subset
<1>2. /\ \A j \in ids : w[j] \in Nat
      /\ \A j \in rest : v[j] = w[j] /\ w[j] \in Nat
      /\ w[i] = Bytes[st[i].key]
  BY SharingAssumption
<1>3. rest \in SUBSET StageIds /\ \A j \in rest : st[j].key \in Keys
  OBVIOUS
<1> HIDE DEF w, v
<1>4. SumFunctionOnSet(w, ids) = w[i] + SumFunctionOnSet(w, ids \ {i})
  BY <1>1, <1>2, SumRemove
<1> HIDE DEF rest
<1>5. SumFunctionOnSet(v, rest) = SumFunctionOnSet(w, rest)
  BY <1>1, <1>2, SumSame
<1>6. Memory(st, rest) \in Nat
  BY <1>3, MemoryType
<1> QED
  BY <1>2, <1>4, <1>5, <1>6 DEF Memory, w, v, rest

\* Some of the stages take no more than all
LEMMA MemorySubset ==
    ASSUME NEW st, NEW ids \in SUBSET StageIds, \A j \in ids : st[j].key \in Keys,
           NEW some \in SUBSET ids
    PROVE  Memory(st, some) <= Memory(st, ids)
<1> DEFINE w == [j \in ids |-> Bytes[st[j].key]]
           v == [j \in some |-> Bytes[st[j].key]]
<1>1. IsFiniteSet(ids) /\ IsFiniteSet(some)
  BY SharingAssumption, FS_Subset
<1>2. /\ \A j \in ids : w[j] \in Nat
      /\ \A j \in some : v[j] = w[j] /\ w[j] \in Nat
  BY SharingAssumption
<1> HIDE DEF w, v
<1>3. SumFunctionOnSet(w, some) <= SumFunctionOnSet(w, ids)
  BY <1>1, <1>2, SumSubset
<1>4. SumFunctionOnSet(v, some) = SumFunctionOnSet(w, some)
  BY <1>1, <1>2, SumSame
<1> QED
  BY <1>3, <1>4 DEF Memory, w, v

-----------------------------------------------------------------------------
(* The end of a step: what stays in use is kept *)

CacheType == [Dbs -> [Keys -> StageIds \cup {None}]]
QueryType == [Conns -> [Keys -> StageIds \cup {None}]]

\* Something refers to stage i
InUse(i) == i \in Entries(cache, op) \/ \E s \in Scans : op[s].cur = i

\* The call of t waits: its locals stay as they are
Waits(t) ==
    /\ op'[t].pc = op[t].pc /\ op'[t].key = op[t].key /\ op'[t].warns = op[t].warns
    /\ op'[t].caching = op[t].caching /\ op'[t].cur = op[t].cur /\ op'[t].snap = op[t].snap
    /\ op'[t].order = op[t].order /\ op'[t].bytes = op[t].bytes /\ op'[t].under = op[t].under

\* What a step keeps of the stages in use, and of the registered and weak references
Kept ==
    /\ \A i \in StageIds : InUse(i)' /\ stage[i].key \in Keys =>
         /\ stage'[i].key = stage[i].key /\ stage'[i].db = stage[i].db
         /\ stage[i].late => stage'[i].late
    /\ registry' \subseteq Entries(cache', op')
    /\ registry \cap Entries(cache', op') \subseteq registry'
    /\ \A c \in Conns, k \in Keys : query'[c][k] # None => InUse(query[c][k])'

\* Nothing else changes of the stages in use, of the query's stages, of last_used
StagesSame == \A i \in StageIds : InUse(i)' => stage'[i] = stage[i]
QueryFrom(qry) == \A c \in Conns, k \in Keys : query'[c][k] # None => query'[c][k] = qry[c][k]
UseFrom(use) == last_used' = use \cap (Entries(cache', op') \X Entries(cache', op'))

\* A step that changes no stage and registers none, with last_used and the query's
\* stages before it is over
Quietly(use, qry) ==
    /\ TypeOK' /\ Kept /\ StagesSame /\ registry' \subseteq registry
    /\ UseFrom(use) /\ QueryFrom(qry)

SettingsType ==
    /\ session' \in [Conns -> {"on", "off", "unset"}]
    /\ global' \subseteq Dbs
    /\ setting' \in [Conns -> {"none", "session", "global"}]
    /\ restricted' \subseteq Dbs
    /\ used' \in [Dbs -> Nat]
HistoryType ==
    /\ warned' \in [Conns -> [Keys -> 0 .. 2]] /\ quiet' \in [Conns -> SUBSET Keys]
    /\ reading' \subseteq Scans
    /\ clips' \in [Conns -> [Keys -> SUBSET {"outside", "refused"}]]

\* The end of a step, with the stages st, the registry reg and so on before it
LEMMA SettleFacts ==
    ASSUME cache' \in CacheType, op' \in [Scans -> OpType],
           NEW st \in [StageIds -> StageType], NEW reg \in SUBSET StageIds,
           NEW use \in SUBSET (StageIds \X StageIds), NEW qry \in QueryType,
           Settle(st, reg, use, qry)
    PROVE  /\ stage' \in [StageIds -> StageType] /\ registry' \subseteq StageIds
           /\ last_used' \subseteq StageIds \X StageIds /\ query' \in QueryType
           /\ \A i \in StageIds : InUse(i)' => stage'[i] = st[i]
           /\ registry' = reg \cap Entries(cache', op')
           /\ UseFrom(use)
           /\ \A c \in Conns, k \in Keys : query'[c][k] # None =>
                query'[c][k] = qry[c][k] /\ InUse(query[c][k])'
<1> DEFINE entries == Entries(cache', op')
           alive == StageIds \cap (entries \cup {op'[s].cur : s \in Scans})
<1>1. /\ stage' = [i \in StageIds |-> IF i \in alive THEN st[i] ELSE FreeStage]
      /\ registry' = reg \cap entries
      /\ last_used' = use \cap (entries \X entries)
      /\ query' = [c \in Conns |-> [k \in Keys |->
                       IF qry[c][k] \in alive THEN qry[c][k] ELSE None]]
  BY DEF Settle
<1>2. FreeStage \in StageType
  BY DEF FreeStage, StageOf, StageType
<1>3. \A i \in StageIds : i \in alive <=> InUse(i)'
  BY DEF InUse
<1>4. alive \subseteq StageIds /\ None \notin alive
  BY SharingAssumption
<1> HIDE DEF entries, alive
<1>5. stage' \in [StageIds -> StageType] /\ \A i \in StageIds : InUse(i)' => stage'[i] = st[i]
  BY <1>1, <1>2, <1>3
<1>6. \A c \in Conns, k \in Keys :
        /\ query'[c][k] = IF qry[c][k] \in alive THEN qry[c][k] ELSE None
        /\ query'[c][k] \in StageIds \cup {None}
  BY <1>1, <1>4
<1>7. query' \in QueryType
  BY <1>1, <1>4 DEF QueryType
<1>8. \A c \in Conns, k \in Keys : query'[c][k] # None =>
        query'[c][k] = qry[c][k] /\ InUse(query[c][k])'
  <2> SUFFICES ASSUME NEW c \in Conns, NEW k \in Keys, query'[c][k] # None
               PROVE  query'[c][k] = qry[c][k] /\ InUse(query[c][k])'
    OBVIOUS
  <2>1. qry[c][k] \in alive /\ query'[c][k] = qry[c][k]
    BY <1>6
  <2>2. PICK i \in StageIds : i = query'[c][k] /\ i \in alive
    BY <2>1, <1>4
  <2>3. i \in Entries(cache', op') \/ \E s \in Scans : op'[s].cur = i
    BY <2>2, <1>3 DEF InUse
  <2> QED
    BY <2>1, <2>2, <2>3 DEF InUse
<1>9. UseFrom(use) /\ registry' = reg \cap Entries(cache', op')
  BY <1>1 DEF UseFrom, entries
<1> QED
  BY <1>1, <1>5, <1>7, <1>8, <1>9

\* The entries of the caches ch and the calls o
LEMMA Entry ==
    ASSUME NEW ch, NEW o
    PROVE  /\ \A d \in Dbs, k \in Keys : ch[d][k] \in Entries(ch, o)
           /\ \A s \in Scans : o[s].snap \subseteq Entries(ch, o)
           /\ \A s \in Scans : Range(o[s].order) \subseteq Entries(ch, o)
           /\ \A s \in Scans : o[s].pc \in {"found", "add"} => o[s].cur \in Entries(ch, o)
           /\ \A i \in Entries(ch, o) :
                \/ \E d \in Dbs, k \in Keys : ch[d][k] = i
                \/ \E s \in Scans : \/ i \in Listed(o[s])
                                    \/ o[s].pc \in {"found", "add"} /\ o[s].cur = i
BY DEF Entries, Held, Listed

\* The calls that begin and end
LEMMA NoCallType ==
    ASSUME NEW p \in {"idle", "lookup", "done"}, NEW u \in BOOLEAN
    PROVE  NoCall(p, u) \in OpType
<1>1. <<>> \in Seq(StageIds)
  BY EmptySeq
<1> QED
  BY <1>1 DEF NoCall, OpType

\* The call of s goes on as o
LEMMA BecomesType ==
    ASSUME op \in [Scans -> OpType], NEW s \in Scans, NEW o \in OpType, Becomes(s, o)
    PROVE  /\ op' \in [Scans -> OpType] /\ op'[s] = o
           /\ \A t \in Scans \ {s} : op'[t] = op[t]
BY DEF Becomes

\* The same, where others notice
LEMMA DisturbsType ==
    ASSUME op \in [Scans -> OpType], NEW s \in Scans, NEW o \in OpType,
           NEW touch \in SUBSET StageIds, BecomesAndDisturbs(s, o, touch)
    PROVE  /\ op' \in [Scans -> OpType] /\ op'[s] = o
           /\ \A t \in Scans \ {s} :
                /\ Waits(t) /\ op'[t].late = op[t].late
                /\ IF op[t].pc \in {"sort", "evict", "put"} /\ Db(t) = Db(s)
                   THEN /\ op'[t].disturbed
                        /\ op'[t].touched = op[t].touched \cup (touch \cap Held(op[t]))
                   ELSE op'[t] = op[t]
<1> DEFINE noticed(t) == [op[t] EXCEPT !.touched = @ \cup (touch \cap Held(op[t])),
                                       !.disturbed = TRUE]
           hears(t) == op[t].pc \in {"sort", "evict", "put"} /\ Db(t) = Db(s)
<1>1. op' = [t \in Scans |-> IF t = s THEN o ELSE IF hears(t) THEN noticed(t) ELSE op[t]]
  BY DEF BecomesAndDisturbs
<1>2. \A t \in Scans :
        /\ noticed(t) \in OpType
        /\ noticed(t).pc = op[t].pc /\ noticed(t).key = op[t].key
        /\ noticed(t).warns = op[t].warns /\ noticed(t).caching = op[t].caching
        /\ noticed(t).cur = op[t].cur /\ noticed(t).snap = op[t].snap
        /\ noticed(t).order = op[t].order /\ noticed(t).bytes = op[t].bytes
        /\ noticed(t).under = op[t].under /\ noticed(t).late = op[t].late
        /\ noticed(t).touched = op[t].touched \cup (touch \cap Held(op[t]))
        /\ noticed(t).disturbed
  <2> SUFFICES ASSUME NEW t \in Scans
               PROVE  /\ noticed(t) \in OpType
                      /\ noticed(t).pc = op[t].pc /\ noticed(t).key = op[t].key
                      /\ noticed(t).warns = op[t].warns /\ noticed(t).caching = op[t].caching
                      /\ noticed(t).cur = op[t].cur /\ noticed(t).snap = op[t].snap
                      /\ noticed(t).order = op[t].order /\ noticed(t).bytes = op[t].bytes
                      /\ noticed(t).under = op[t].under /\ noticed(t).late = op[t].late
                      /\ noticed(t).touched = op[t].touched \cup (touch \cap Held(op[t]))
                      /\ noticed(t).disturbed
    OBVIOUS
  <2>1. op[t] \in OpType
    OBVIOUS
  <2> QED
    BY <2>1 DEF OpType
<1> HIDE DEF noticed, hears
<1>3. op' \in [Scans -> OpType] /\ op'[s] = o
  BY <1>1, <1>2
<1>4. \A t \in Scans \ {s} : op'[t] = IF hears(t) THEN noticed(t) ELSE op[t]
  BY <1>1
<1> SUFFICES ASSUME NEW t \in Scans \ {s}
             PROVE  /\ Waits(t) /\ op'[t].late = op[t].late
                    /\ IF hears(t)
                       THEN /\ op'[t].disturbed
                            /\ op'[t].touched = op[t].touched \cup (touch \cap Held(op[t]))
                       ELSE op'[t] = op[t]
  BY <1>3 DEF hears
<1>5. CASE hears(t)
  BY <1>2, <1>4, <1>5 DEF Waits
<1>6. CASE ~hears(t)
  BY <1>4, <1>6 DEF Waits
<1> QED
  BY <1>5, <1>6

\* Settings and histories keep their types
LEMMA SettingsSame ==
    ASSUME TypeOK, UNCHANGED Settings
    PROVE  SettingsType
BY DEF TypeOK, Settings, SettingsType

LEMMA HistorySame ==
    ASSUME TypeOK, NoHistory
    PROVE  HistoryType
BY DEF TypeOK, NoHistory, NoWarnings, NoClips, HistoryType

LEMMA LogType ==
    ASSUME TypeOK, NEW s \in Scans, op[s].key \in Keys, LogOpenWarnings(s), NoClips
    PROVE  HistoryType
<1> DEFINE c == Conn(s)
           k == op[s].key
<1>1. c \in Conns /\ k \in Keys
  BY SharingAssumption DEF Conn
<1>2. warned \in [Conns -> [Keys -> 0 .. 2]] /\ quiet \in [Conns -> SUBSET Keys]
  BY DEF TypeOK
<1>3. warned[c][k] \in 0 .. 2
  BY <1>1, <1>2
<1>4. /\ warned' = warned \/ (warned[c][k] < 2 /\ warned' = [warned EXCEPT ![c][k] = @ + 1])
      /\ quiet' = quiet \/ quiet' = [quiet EXCEPT ![c] = @ \cup {k}]
  BY DEF LogOpenWarnings
<1>5. warned' \in [Conns -> [Keys -> 0 .. 2]]
  <2>1. CASE warned' = warned
    BY <2>1, <1>2
  <2>2. CASE warned[c][k] < 2 /\ warned' = [warned EXCEPT ![c][k] = @ + 1]
    <3>1. warned[c][k] + 1 \in 0 .. 2
      BY <2>2, <1>3
    <3> HIDE DEF c, k
    <3> QED
      BY <2>2, <3>1, <1>1, <1>2
  <2> QED
    BY <1>4, <2>1, <2>2
<1>6. quiet' \in [Conns -> SUBSET Keys]
  BY <1>1, <1>2, <1>4
<1>7. reading' \subseteq Scans /\ clips' \in [Conns -> [Keys -> SUBSET {"outside", "refused"}]]
  BY DEF TypeOK, NoClips
<1> QED
  BY <1>5, <1>6, <1>7 DEF HistoryType

\* A step that settles with the stages st, which keep what stages are, the
\* registry reg, and so on
LEMMA Settled ==
    ASSUME TypeOK, cache' \in CacheType, op' \in [Scans -> OpType], SettingsType, HistoryType,
           NEW st \in [StageIds -> StageType],
           \A i \in StageIds : stage[i].key \in Keys =>
             /\ st[i].key = stage[i].key /\ st[i].db = stage[i].db
             /\ stage[i].late => st[i].late,
           NEW reg \in SUBSET StageIds, registry \subseteq reg,
           NEW use \in SUBSET (StageIds \X StageIds), NEW qry \in QueryType,
           Settle(st, reg, use, qry)
    PROVE  /\ TypeOK' /\ Kept
           /\ \A i \in StageIds : InUse(i)' => stage'[i] = st[i]
           /\ registry' = reg \cap Entries(cache', op')
           /\ UseFrom(use) /\ QueryFrom(qry)
<1>1. /\ stage' \in [StageIds -> StageType] /\ registry' \subseteq StageIds
      /\ last_used' \subseteq StageIds \X StageIds /\ query' \in QueryType
      /\ \A i \in StageIds : InUse(i)' => stage'[i] = st[i]
      /\ registry' = reg \cap Entries(cache', op')
      /\ UseFrom(use)
      /\ \A c \in Conns, k \in Keys : query'[c][k] # None =>
           query'[c][k] = qry[c][k] /\ InUse(query[c][k])'
  BY SettleFacts
<1>2. TypeOK'
  BY <1>1 DEF TypeOK, CacheType, QueryType, SettingsType, HistoryType
<1>3. Kept
  BY <1>1 DEF Kept
<1>4. QueryFrom(qry)
  BY <1>1 DEF QueryFrom
<1> QED
  BY <1>1, <1>2, <1>3, <1>4

\* A step that neither changes stages nor registers any
LEMMA SettledOnly ==
    ASSUME TypeOK, cache' \in CacheType, op' \in [Scans -> OpType], SettingsType, HistoryType,
           NEW use \in SUBSET (StageIds \X StageIds), NEW qry \in QueryType,
           Settle(stage, registry, use, qry)
    PROVE  Quietly(use, qry)
<1>1. stage \in [StageIds -> StageType] /\ registry \in SUBSET StageIds
  BY DEF TypeOK
<1>2. /\ TypeOK' /\ Kept
      /\ \A i \in StageIds : InUse(i)' => stage'[i] = stage[i]
      /\ registry' = registry \cap Entries(cache', op')
      /\ UseFrom(use) /\ QueryFrom(qry)
  BY <1>1, Settled
<1> QED
  BY <1>2 DEF StagesSame, Quietly

\* The same, where no cache and no setting changes
LEMMA QuietStep ==
    ASSUME TypeOK, UNCHANGED cache, op' \in [Scans -> OpType], UNCHANGED Settings, HistoryType,
           NEW use \in SUBSET (StageIds \X StageIds), NEW qry \in QueryType,
           Settle(stage, registry, use, qry)
    PROVE  Quietly(use, qry)
<1>1. cache' \in CacheType
  BY DEF TypeOK, CacheType
<1>2. SettingsType
  BY SettingsSame
<1> QED
  BY <1>1, <1>2, SettledOnly

\* The same, where nothing is touched either
LEMMA QuietStepOnly ==
    ASSUME TypeOK, UNCHANGED cache, op' \in [Scans -> OpType], UNCHANGED Settings, NoHistory,
           SettleOnly
    PROVE  Quietly(last_used, query)
<1>1. last_used \in SUBSET (StageIds \X StageIds) /\ query \in QueryType
  BY DEF TypeOK, QueryType
<1>2. HistoryType
  BY HistorySame
<1> QED
  BY <1>1, <1>2, QuietStep DEF SettleOnly

-----------------------------------------------------------------------------
(* Calls *)

\* Only the call of s goes on, and it goes on with these locals
Alone(s) == \A t \in Scans \ {s} : op'[t] = op[t]
GoesOn(s) ==
    /\ op'[s].key = op[s].key /\ op'[s].warns = op[s].warns /\ op'[s].caching = op[s].caching
    /\ op'[s].cur = op[s].cur /\ op'[s].under = op[s].under /\ op'[s].late = op[s].late

\* Open has returned
LEMMA UsingType ==
    ASSUME op \in [Scans -> OpType], NEW s \in Scans, NEW i \in StageIds
    PROVE  LET o == Using(s, i)
           IN  /\ o \in OpType /\ o.pc = "using" /\ o.key = op[s].key /\ o.warns = op[s].warns
               /\ o.cur = i /\ o.snap = {} /\ o.order = <<>> /\ ~o.caching
               /\ o.under = op[s].under
<1>1. op[s] \in OpType
  OBVIOUS
<1>2. <<>> \in Seq(StageIds)
  BY EmptySeq
<1> QED
  BY <1>1, <1>2 DEF Using, NoCall, OpType

\* A call that has ended
LEMMA EndedType ==
    ASSUME NEW p \in {"idle", "done"}, NEW u \in BOOLEAN
    PROVE  LET o == NoCall(p, u)
           IN  /\ o \in OpType /\ o.pc = p /\ o.cur = None /\ o.snap = {} /\ o.order = <<>>
               /\ ~o.caching /\ o.under = u
BY NoCallType DEF NoCall

\* Touch leaves the pairs of other stages
LEMMA TouchType ==
    ASSUME TypeOK, NEW i \in StageIds
    PROVE  /\ Touch(i) \in SUBSET (StageIds \X StageIds)
           /\ \A m, n \in StageIds : m # i /\ n # i =>
                (<<m, n>> \in Touch(i) <=> <<m, n>> \in last_used)
BY DEF TypeOK, Touch

\* A query gets a stage
LEMMA QueryGets ==
    ASSUME TypeOK, NEW c \in Conns, NEW k \in Keys, NEW i \in StageIds
    PROVE  [query EXCEPT ![c][k] = i] \in QueryType
BY DEF TypeOK, QueryType

\* What the invariant says of a call
LEMMA CallFacts ==
    ASSUME IInv, NEW s \in Scans
    PROVE  /\ TypeOK /\ op \in [Scans -> OpType] /\ op[s] \in OpType /\ CallOK(s)
           /\ Conn(s) \in Conns /\ Db(s) \in Dbs /\ Db(s) = DbOf[Conn(s)]
           /\ op[s].pc \in {"lookup", "open"} =>
                op[s].key \in Keys /\ op[s].cur = None /\ op[s].snap = {} /\ op[s].order = <<>>
           /\ op[s].pc \in {"found", "room", "sort", "evict", "put", "add", "using"} =>
                /\ op[s].key \in Keys /\ op[s].cur \in StageIds
                /\ StageIs(op[s].cur, op[s].key, Db(s))
           /\ op[s].pc # "sort" => op[s].snap = {}
           /\ op[s].pc # "evict" => op[s].order = <<>>
<1>1. /\ TypeOK /\ op \in [Scans -> OpType] /\ op[s] \in OpType /\ CallOK(s)
  BY DEF IInv, TypeOK
<1>2. Conn(s) \in Conns /\ Db(s) \in Dbs /\ Db(s) = DbOf[Conn(s)]
  BY SharingAssumption DEF Conn, Db
<1> QED
  BY <1>1, <1>2 DEF CallOK, Calls, Caches, Has, StageIs

\* BeginScan: the query's stage, or a call to Open
LEMMA BeginScanFacts ==
    ASSUME TypeOK, NEW s \in Scans, NEW k \in Keys, NEW w \in BOOLEAN, BeginScan(s, k, w)
    PROVE  /\ Quietly(last_used, query) /\ Alone(s) /\ NoHistory
           /\ UNCHANGED cache /\ UNCHANGED Settings
           /\ op[s].pc = "idle" /\ k \in KeysOf[Conn(s)]
           /\ op'[s].key = k /\ op'[s].warns = w /\ op'[s].snap = {} /\ op'[s].order = <<>>
           /\ ~op'[s].caching
           /\ op'[s].under <=>
                \/ QueryIdle(Conn(s)) /\ Db(s) \in restricted
                \/ \E t \in Scans : Conn(t) = Conn(s) /\ op[t].pc # "idle" /\ op[t].under
           /\ \/ op'[s].pc = "using" /\ op'[s].cur = query[Conn(s)][k] /\ query[Conn(s)][k] # None
              \/ op'[s].pc = "lookup" /\ op'[s].cur = None
<1> DEFINE c == Conn(s)
           under == \/ QueryIdle(c) /\ DbOf[c] \in restricted
                    \/ \E t \in Scans : Conn(t) = c /\ op[t].pc # "idle" /\ op[t].under
           call == [NoCall("lookup", under) EXCEPT !.key = k, !.warns = w]
           served == [call EXCEPT !.pc = "using", !.cur = query[c][k]]
<1>1. /\ op[s].pc = "idle" /\ k \in KeysOf[c]
      /\ \/ query[c][k] # None /\ Becomes(s, served)
         \/ query[c][k] = None /\ Becomes(s, call)
      /\ UNCHANGED cache /\ SettleOnly /\ NoHistory /\ UNCHANGED Settings
  BY DEF BeginScan
<1>2. c \in Conns /\ Db(s) = DbOf[c]
  BY SharingAssumption DEF Conn, Db
<1>3. under \in BOOLEAN
  OBVIOUS
<1>4. under <=> \/ QueryIdle(Conn(s)) /\ Db(s) \in restricted
                \/ \E t \in Scans : Conn(t) = Conn(s) /\ op[t].pc # "idle" /\ op[t].under
  BY <1>2
<1> HIDE DEF under
<1>5. NoCall("lookup", under) \in OpType
  BY <1>3, NoCallType
<1>6. op \in [Scans -> OpType] /\ query[c][k] \in StageIds \cup {None}
  BY <1>2 DEF TypeOK
<1>7. /\ call \in OpType /\ call.pc = "lookup" /\ call.key = k /\ call.warns = w
      /\ call.cur = None /\ call.snap = {} /\ call.order = <<>> /\ ~call.caching
      /\ call.under = under
  BY <1>5 DEF NoCall, OpType
<1>8. /\ served \in OpType /\ served.pc = "using" /\ served.key = k /\ served.warns = w
      /\ served.cur = query[c][k] /\ served.snap = {} /\ served.order = <<>> /\ ~served.caching
      /\ served.under = under
  <2> HIDE DEF call
  <2> QED
    BY <1>6, <1>7 DEF OpType
<1> HIDE DEF call, served, c
<1>9. /\ op' \in [Scans -> OpType] /\ \A t \in Scans \ {s} : op'[t] = op[t]
      /\ (query[c][k] # None /\ op'[s] = served) \/ (query[c][k] = None /\ op'[s] = call)
  <2>1. CASE query[c][k] # None /\ Becomes(s, served)
    BY <2>1, <1>6, <1>8, BecomesType
  <2>2. CASE query[c][k] = None /\ Becomes(s, call)
    BY <2>2, <1>6, <1>7, BecomesType
  <2> QED
    BY <2>1, <2>2, <1>1
<1>10. Quietly(last_used, query)
  BY <1>1, <1>9, QuietStepOnly
<1>11. op'[s].under = under
  BY <1>7, <1>8, <1>9
<1>12. /\ op'[s].key = k /\ op'[s].warns = w /\ op'[s].snap = {} /\ op'[s].order = <<>>
       /\ ~op'[s].caching
       /\ \/ op'[s].pc = "using" /\ op'[s].cur = query[c][k] /\ query[c][k] # None
          \/ op'[s].pc = "lookup" /\ op'[s].cur = None
  BY <1>7, <1>8, <1>9
<1> QED
  BY <1>1, <1>4, <1>9, <1>10, <1>11, <1>12 DEF Alone, c

\* Find: the cached stage i that was found, which is touched
LEMMA FindFacts ==
    ASSUME IInv, NEW s \in Scans, Find(s)
    PROVE  LET i == op[s].cur
           IN  /\ op[s].pc = "found" /\ UNCHANGED cache /\ UNCHANGED Settings
               /\ Quietly(Touch(i), [query EXCEPT ![Conn(s)][op[s].key] = i])
               /\ LogOpenWarnings(s) /\ NoClips
               /\ op' \in [Scans -> OpType] /\ op'[s] = Using(s, i)
               /\ BecomesAndDisturbs(s, Using(s, i), {i})
<1> DEFINE i == op[s].cur
           qry == [query EXCEPT ![Conn(s)][op[s].key] = i]
<1>1. /\ op[s].pc = "found" /\ UNCHANGED cache /\ UNCHANGED Settings
      /\ BecomesAndDisturbs(s, Using(s, i), {i}) /\ LogOpenWarnings(s) /\ NoClips
      /\ Settle(stage, registry, Touch(i), qry)
  BY DEF Find
<1>2. /\ TypeOK /\ op \in [Scans -> OpType] /\ op[s].key \in Keys /\ Conn(s) \in Conns
      /\ i \in StageIds
  BY <1>1, CallFacts
<1> HIDE DEF i
<1>3. qry \in QueryType
  BY <1>2, QueryGets
<1>4. Touch(i) \in SUBSET (StageIds \X StageIds)
  BY <1>2, TouchType
<1>5. Using(s, i) \in OpType
  BY <1>2, UsingType
<1>6. op' \in [Scans -> OpType] /\ op'[s] = Using(s, i)
  BY <1>1, <1>2, <1>5, DisturbsType
<1>7. HistoryType
  BY <1>1, <1>2, LogType
<1> HIDE DEF qry
<1>8. Quietly(Touch(i), qry)
  BY <1>1, <1>2, <1>3, <1>4, <1>6, <1>7, QuietStep
<1> QED
  BY <1>1, <1>6, <1>8 DEF qry, i

\* Lookup: a cached stage is found, or none is, or there is a refusal
LEMMA LookupFacts ==
    ASSUME IInv, NEW s \in Scans, Lookup(s)
    PROVE  /\ op[s].pc = "lookup" /\ UNCHANGED cache /\ UNCHANGED Settings
           /\ Quietly(last_used, query) /\ Alone(s) /\ NoHistory
           /\ op'[s].snap = {} /\ op'[s].order = <<>> /\ op'[s].under = op[s].under
           /\ \/ \E i \in StageIds :
                   /\ i = cache[Db(s)][op[s].key] /\ ~Refused(i) /\ CanAccessLayers(i)
                   /\ op'[s].pc = "found" /\ op'[s].key = op[s].key /\ op'[s].cur = i
                   /\ ~op'[s].caching
              \/ op'[s].pc = "done" /\ op'[s].cur = None /\ ~op'[s].caching
              \/ /\ op'[s].pc = "open" /\ op'[s].key = op[s].key /\ op'[s].cur = None
                 /\ op'[s].caching =>
                      /\ StageCacheEnabled(Conn(s))
                      /\ op'[s].late <=> \E c \in Conns : DbOf[c] = Db(s) /\ setting[c] # "none"
<1> DEFINE i == cache[Db(s)][op[s].key]
           late == \E c \in Conns : DbOf[c] = Db(s) /\ setting[c] # "none"
           found == [op[s] EXCEPT !.pc = "found", !.cur = i]
           opens == [op[s] EXCEPT !.pc = "open"]
           caches == [op[s] EXCEPT !.pc = "open", !.caching = TRUE, !.late = late]
<1>1. /\ op[s].pc = "lookup" /\ UNCHANGED cache /\ UNCHANGED Settings
      /\ \/ i # None /\ ~Refused(i) /\ CanAccessLayers(i) /\ Becomes(s, found)
         \/ Becomes(s, opens)
         \/ StageCacheEnabled(Conn(s)) /\ Becomes(s, caches)
         \/ Becomes(s, NoCall("done", op[s].under))
      /\ SettleOnly /\ NoHistory
  BY DEF Lookup, Fail, CachingCall, Found
<1>2. /\ TypeOK /\ op \in [Scans -> OpType] /\ op[s] \in OpType /\ Db(s) \in Dbs
      /\ op[s].key \in Keys /\ op[s].cur = None /\ op[s].snap = {} /\ op[s].order = <<>>
      /\ ~op[s].caching
  BY <1>1, CallFacts DEF CallOK
<1>3. i \in StageIds \cup {None}
  BY <1>2 DEF TypeOK
<1>4. /\ opens \in OpType /\ opens.pc = "open" /\ opens.key = op[s].key /\ opens.cur = None
      /\ opens.snap = {} /\ opens.order = <<>> /\ opens.under = op[s].under
      /\ ~opens.caching
  BY <1>2 DEF OpType
<1>5. late \in BOOLEAN /\ (late <=> \E c \in Conns : DbOf[c] = Db(s) /\ setting[c] # "none")
  OBVIOUS
<1> HIDE DEF late, i
<1>6. /\ caches \in OpType /\ caches.pc = "open" /\ caches.key = op[s].key /\ caches.cur = None
      /\ caches.snap = {} /\ caches.order = <<>> /\ caches.under = op[s].under
      /\ caches.late = late
  BY <1>2, <1>5 DEF OpType
<1>7. /\ found \in OpType /\ found.pc = "found" /\ found.key = op[s].key /\ found.cur = i
      /\ found.snap = {} /\ found.order = <<>> /\ found.under = op[s].under
      /\ ~found.caching
  BY <1>2, <1>3 DEF OpType
<1>8. LET o == NoCall("done", op[s].under)
      IN  /\ o \in OpType /\ o.pc = "done" /\ o.cur = None /\ o.snap = {} /\ o.order = <<>>
          /\ ~o.caching /\ o.under = op[s].under
  BY <1>2, EndedType DEF OpType
<1> HIDE DEF found, opens, caches
<1>9. /\ op' \in [Scans -> OpType] /\ Alone(s)
      /\ \/ i # None /\ ~Refused(i) /\ CanAccessLayers(i) /\ op'[s] = found
         \/ op'[s] = opens
         \/ StageCacheEnabled(Conn(s)) /\ op'[s] = caches
         \/ op'[s] = NoCall("done", op[s].under)
  BY <1>1, <1>2, <1>4, <1>6, <1>7, <1>8, BecomesType DEF Alone
<1>10. Quietly(last_used, query)
  BY <1>1, <1>2, <1>9, QuietStepOnly
<1>11. op'[s].snap = {} /\ op'[s].order = <<>> /\ op'[s].under = op[s].under
  BY <1>4, <1>6, <1>7, <1>8, <1>9
<1>12. \/ /\ i \in StageIds /\ i = cache[Db(s)][op[s].key] /\ ~Refused(i) /\ CanAccessLayers(i)
          /\ op'[s].pc = "found" /\ op'[s].key = op[s].key /\ op'[s].cur = i
          /\ ~op'[s].caching
       \/ op'[s].pc = "done" /\ op'[s].cur = None /\ ~op'[s].caching
       \/ /\ op'[s].pc = "open" /\ op'[s].key = op[s].key /\ op'[s].cur = None
          /\ op'[s].caching => StageCacheEnabled(Conn(s)) /\ op'[s].late = late
  <2>1. i = cache[Db(s)][op[s].key]
    BY DEF i
  <2> QED
    BY <2>1, <1>3, <1>4, <1>6, <1>7, <1>8, <1>9
<1> QED
  BY <1>1, <1>5, <1>9, <1>10, <1>11, <1>12

\* OpenStage: a new stage i, which the call may cache
LEMMA OpenStageFacts ==
    ASSUME IInv, NEW s \in Scans, OpenStage(s)
    PROVE  /\ op[s].pc = "open" /\ UNCHANGED cache /\ UNCHANGED Settings
           /\ LogOpenWarnings(s) /\ NoClips
           /\ ~(Db(s) \in restricted /\ op[s].key \in RefsOutside)
           /\ \E i \in StageIds :
                /\ stage[i] = FreeStage /\ stage'[i] = StageOf(op[s].key, Db(s))
                /\ TypeOK' /\ Kept /\ registry' \subseteq registry /\ UseFrom(last_used) /\ Alone(s)
                /\ \A j \in StageIds : j # i /\ InUse(j)' => stage'[j] = stage[j]
                /\ op'[s].cur = i /\ op'[s].key = op[s].key /\ op'[s].under = op[s].under
                /\ op'[s].snap = {} /\ op'[s].order = <<>>
                /\ \/ /\ op'[s].pc = "room" /\ op[s].caching /\ op'[s].caching
                      /\ op'[s].late = op[s].late /\ QueryFrom(query)
                   \/ /\ op'[s].pc = "using" /\ ~op'[s].caching
                      /\ QueryFrom([query EXCEPT ![Conn(s)][op[s].key] = i])
<1>1. /\ op[s].pc = "open" /\ UNCHANGED Settings /\ LogOpenWarnings(s) /\ NoClips
      /\ ~(Db(s) \in restricted /\ op[s].key \in RefsOutside)
  BY DEF OpenStage
<1>2. PICK i \in StageIds :
        /\ stage[i] = FreeStage
        /\ Becomes(s, IF op[s].caching THEN [op[s] EXCEPT !.pc = "room", !.cur = i] ELSE Using(s, i))
        /\ UNCHANGED cache
        /\ Settle([stage EXCEPT ![i] = StageOf(op[s].key, Db(s))], registry, last_used,
                  IF op[s].caching THEN query ELSE [query EXCEPT ![Conn(s)][op[s].key] = i])
  BY DEF OpenStage
<1>3. /\ TypeOK /\ op \in [Scans -> OpType] /\ op[s] \in OpType /\ Db(s) \in Dbs /\ Conn(s) \in Conns
      /\ op[s].key \in Keys /\ op[s].snap = {} /\ op[s].order = <<>>
  BY <1>1, CallFacts
<1> DEFINE new == StageOf(op[s].key, Db(s))
           st == [stage EXCEPT ![i] = new]
           waits == [op[s] EXCEPT !.pc = "room", !.cur = i]
           qry == [query EXCEPT ![Conn(s)][op[s].key] = i]
<1>4. new \in StageType
  BY <1>3 DEF StageOf, StageType
<1>5. stage \in [StageIds -> StageType] /\ registry \in SUBSET StageIds
      /\ last_used \in SUBSET (StageIds \X StageIds) /\ query \in QueryType
  BY <1>3 DEF TypeOK, QueryType
<1>6. FreeStage.key \notin Keys
  BY SharingAssumption DEF FreeStage, StageOf
<1> HIDE DEF new
<1>7. /\ st \in [StageIds -> StageType] /\ st[i] = new
      /\ \A j \in StageIds : j # i => st[j] = stage[j]
  BY <1>4, <1>5
<1>8. /\ waits \in OpType /\ waits.pc = "room" /\ waits.cur = i /\ waits.key = op[s].key
      /\ waits.under = op[s].under /\ waits.snap = {} /\ waits.order = <<>>
      /\ waits.caching = op[s].caching /\ waits.late = op[s].late
  BY <1>3 DEF OpType
<1>9. qry \in QueryType
  BY <1>3, QueryGets
<1>10. LET o == Using(s, i)
       IN  /\ o \in OpType /\ o.pc = "using" /\ o.key = op[s].key /\ o.cur = i
           /\ o.snap = {} /\ o.order = <<>> /\ ~o.caching /\ o.under = op[s].under
  BY <1>3, UsingType
<1> HIDE DEF st, waits, qry
<1>11. \A j \in StageIds : stage[j].key \in Keys =>
         /\ st[j].key = stage[j].key /\ st[j].db = stage[j].db
         /\ stage[j].late => st[j].late
  BY <1>2, <1>6, <1>7
<1>12. /\ op' \in [Scans -> OpType] /\ Alone(s)
       /\ \/ op[s].caching /\ op'[s] = waits
          \/ ~op[s].caching /\ op'[s] = Using(s, i)
  BY <1>2, <1>3, <1>8, <1>10, BecomesType DEF Alone, waits
<1>13. HistoryType
  BY <1>1, <1>3, LogType
<1>14. cache' \in CacheType /\ SettingsType
  BY <1>1, <1>2, <1>3, SettingsSame DEF TypeOK, CacheType
<1>15. PICK q \in QueryType : /\ Settle(st, registry, last_used, q)
                              /\ \/ op[s].caching /\ q = query
                                 \/ ~op[s].caching /\ q = qry
  BY <1>2, <1>5, <1>9 DEF st, qry, new
<1>16. /\ TypeOK' /\ Kept
       /\ \A j \in StageIds : InUse(j)' => stage'[j] = st[j]
       /\ registry' = registry \cap Entries(cache', op')
       /\ UseFrom(last_used) /\ QueryFrom(q)
  BY <1>3, <1>5, <1>7, <1>11, <1>12, <1>13, <1>14, <1>15, Settled
<1>17. op'[s].cur = i
  BY <1>8, <1>10, <1>12
<1>18. stage'[i] = new
  <2>1. InUse(i)'
    BY <1>17 DEF InUse
  <2> QED
    BY <2>1, <1>7, <1>16
<1>19. \A j \in StageIds : j # i /\ InUse(j)' => stage'[j] = stage[j]
  BY <1>7, <1>16
<1>20. /\ op'[s].key = op[s].key /\ op'[s].under = op[s].under
       /\ op'[s].snap = {} /\ op'[s].order = <<>>
       /\ \/ /\ op'[s].pc = "room" /\ op[s].caching /\ op'[s].caching
             /\ op'[s].late = op[s].late /\ QueryFrom(query)
          \/ op'[s].pc = "using" /\ ~op'[s].caching /\ QueryFrom(qry)
  BY <1>8, <1>10, <1>12, <1>15, <1>16
<1> QED
  BY <1>1, <1>2, <1>12, <1>16, <1>17, <1>18, <1>19, <1>20 DEF new, qry

\* The scan has its rows, or composing the stage was refused
LEMMA EndFacts ==
    ASSUME IInv, NEW s \in Scans, OpenRefused(s) \/ FinishScan(s)
    PROVE  /\ Quietly(last_used, query) /\ Alone(s) /\ NoHistory
           /\ UNCHANGED cache /\ UNCHANGED Settings
           /\ op[s].pc \in {"open", "using"} /\ (op[s].pc = "using" => s \notin reading)
           /\ op'[s].pc = "done" /\ op'[s].cur = None /\ op'[s].snap = {} /\ op'[s].order = <<>>
           /\ ~op'[s].caching /\ op'[s].under = op[s].under
<1>1. /\ op[s].pc \in {"open", "using"} /\ (op[s].pc = "using" => s \notin reading)
      /\ Becomes(s, NoCall("done", op[s].under))
      /\ UNCHANGED cache /\ SettleOnly /\ NoHistory /\ UNCHANGED Settings
  BY DEF OpenRefused, FinishScan, Fail
<1>2. TypeOK /\ op \in [Scans -> OpType] /\ op[s].under \in BOOLEAN
  BY CallFacts DEF OpType
<1>3. LET o == NoCall("done", op[s].under)
      IN  /\ o \in OpType /\ o.pc = "done" /\ o.cur = None /\ o.snap = {} /\ o.order = <<>>
          /\ ~o.caching /\ o.under = op[s].under
  BY <1>2, EndedType
<1>4. /\ op' \in [Scans -> OpType] /\ Alone(s) /\ op'[s] = NoCall("done", op[s].under)
  BY <1>1, <1>2, <1>3, BecomesType DEF Alone
<1>5. Quietly(last_used, query)
  BY <1>1, <1>2, <1>4, QuietStepOnly
<1> QED
  BY <1>1, <1>3, <1>4, <1>5

\* Registered stages have keys, whose sizes are known
LEMMA OwnKeys ==
    ASSUME IInv, NEW d
    PROVE  /\ OwnStages(d) \in SUBSET StageIds
           /\ \A i \in OwnStages(d) : i \in registry /\ stage[i].key \in Keys /\ stage[i].db = d
BY DEF IInv, TypeOK, RegistryOK, OwnStages

\* What BytesOf adds up
LEMMA BytesAreMemory ==
    ASSUME NEW ids
    PROVE  BytesOf(ids) = Memory(stage, ids)
BY DEF BytesOf, Memory

\* MakeRoom: the snapshot of the registry
LEMMA MakeRoomFacts ==
    ASSUME IInv, NEW s \in Scans, MakeRoom(s)
    PROVE  /\ Quietly(last_used, query) /\ Alone(s) /\ NoHistory
           /\ UNCHANGED cache /\ UNCHANGED Settings
           /\ op[s].pc = "room" /\ op'[s].pc = "sort" /\ GoesOn(s)
           /\ op'[s].snap = OwnStages(Db(s)) /\ op'[s].order = <<>>
           /\ op'[s].bytes = BytesOf(OwnStages(Db(s)))
           /\ op'[s].disturbed <=>
                \E t \in Scans \ {s} : Db(t) = Db(s) /\ op[t].pc \in {"found", "sort", "evict", "put", "add"}
<1> DEFINE own == OwnStages(Db(s))
           others == \E t \in Scans \ {s} : Db(t) = Db(s) /\ op[t].pc \in {"found", "sort", "evict", "put", "add"}
           o == [op[s] EXCEPT !.pc = "sort", !.bytes = BytesOf(own),
                              !.snap = own, !.disturbed = others]
<1>1. /\ op[s].pc = "room" /\ Becomes(s, o)
      /\ UNCHANGED cache /\ SettleOnly /\ NoHistory /\ UNCHANGED Settings
  BY DEF MakeRoom, BytesCounted
<1>2. TypeOK /\ op \in [Scans -> OpType] /\ op[s] \in OpType /\ op[s].order = <<>>
  BY <1>1, CallFacts
<1>3. own \in SUBSET StageIds /\ \A i \in own : stage[i].key \in Keys
  BY OwnKeys
<1>4. BytesOf(own) \in Nat
  BY <1>3, BytesAreMemory, MemoryType
<1>5. others \in BOOLEAN /\ (others <=> \E t \in Scans \ {s} : Db(t) = Db(s)
                                         /\ op[t].pc \in {"found", "sort", "evict", "put", "add"})
  OBVIOUS
<1> HIDE DEF own, others
<1>6. /\ o \in OpType /\ o.pc = "sort" /\ o.key = op[s].key /\ o.warns = op[s].warns
      /\ o.caching = op[s].caching /\ o.cur = op[s].cur /\ o.under = op[s].under
      /\ o.late = op[s].late /\ o.snap = own /\ o.order = <<>> /\ o.bytes = BytesOf(own)
      /\ o.disturbed = others
  BY <1>2, <1>3, <1>4, <1>5 DEF OpType
<1> HIDE DEF o
<1>7. /\ op' \in [Scans -> OpType] /\ Alone(s) /\ op'[s] = o
  BY <1>1, <1>2, <1>6, BecomesType DEF Alone
<1>8. Quietly(last_used, query)
  BY <1>1, <1>2, <1>7, QuietStepOnly
<1>9. GoesOn(s)
  BY <1>6, <1>7 DEF GoesOn
<1> QED
  BY <1>1, <1>5, <1>6, <1>7, <1>8, <1>9 DEF own

\* Sort: an order of the snapshot, by last_used unless that changed meanwhile
LEMMA SortFacts ==
    ASSUME IInv, NEW s \in Scans, Sort(s)
    PROVE  /\ Quietly(last_used, query) /\ Alone(s) /\ NoHistory
           /\ UNCHANGED cache /\ UNCHANGED Settings
           /\ op[s].pc = "sort" /\ op'[s].pc = "evict" /\ GoesOn(s)
           /\ op'[s].snap = {} /\ op'[s].bytes = op[s].bytes
           /\ op'[s].disturbed = op[s].disturbed /\ op'[s].touched = op[s].touched
           /\ Range(op'[s].order) = op[s].snap
           /\ \A m, n \in DOMAIN op'[s].order : m # n => op'[s].order[m] # op'[s].order[n]
           /\ op'[s].touched = {} => \A m, n \in DOMAIN op'[s].order :
                m < n => <<op'[s].order[m], op'[s].order[n]>> \in last_used
<1> DEFINE orders == IF op[s].touched = {} THEN Sorted(op[s].snap) ELSE SetToSeqs(op[s].snap)
<1>1. op[s].pc = "sort" /\ UNCHANGED cache /\ SettleOnly /\ NoHistory /\ UNCHANGED Settings
  BY DEF Sort
<1>2. PICK order \in orders :
        Becomes(s, [op[s] EXCEPT !.pc = "evict", !.snap = {}, !.order = order])
  BY DEF Sort
<1>3. TypeOK /\ op \in [Scans -> OpType] /\ op[s] \in OpType
  BY CallFacts
<1>4. op[s].snap \in SUBSET StageIds
  BY <1>3 DEF OpType
<1>5. IsFiniteSet(op[s].snap)
  BY <1>4, SharingAssumption, FS_Subset
<1>6. order \in SetToSeqs(op[s].snap)
  BY <1>2 DEF Sorted
<1>7. /\ order \in Seq(op[s].snap) /\ Range(order) = op[s].snap
      /\ \A m, n \in DOMAIN order : m # n => order[m] # order[n]
  BY <1>5, <1>6, Orders
<1>8. order \in Seq(StageIds)
  BY <1>4, <1>7, SeqMonotonic
<1>9. op[s].touched = {} => \A m, n \in DOMAIN order : m < n => <<order[m], order[n]>> \in last_used
  BY <1>2 DEF Sorted
<1> DEFINE o == [op[s] EXCEPT !.pc = "evict", !.snap = {}, !.order = order]
<1>10. /\ o \in OpType /\ o.pc = "evict" /\ o.key = op[s].key /\ o.warns = op[s].warns
       /\ o.caching = op[s].caching /\ o.cur = op[s].cur /\ o.under = op[s].under
       /\ o.late = op[s].late /\ o.snap = {} /\ o.order = order /\ o.bytes = op[s].bytes
       /\ o.disturbed = op[s].disturbed /\ o.touched = op[s].touched
  BY <1>3, <1>8 DEF OpType
<1>11. Becomes(s, o)
  BY <1>2
<1> HIDE DEF o
<1>12. /\ op' \in [Scans -> OpType] /\ Alone(s) /\ op'[s] = o
  BY <1>11, <1>3, <1>10, BecomesType DEF Alone
<1>13. Quietly(last_used, query)
  BY <1>1, <1>3, <1>12, QuietStepOnly
<1>14. GoesOn(s)
  BY <1>10, <1>12 DEF GoesOn
<1> QED
  BY <1>1, <1>7, <1>9, <1>10, <1>12, <1>13, <1>14

\* The stages a call may drop, and the first of them
LEMMA ListedFacts ==
    ASSUME IInv, NEW s \in Scans, op[s].pc = "evict", op[s].order # <<>>
    PROVE  LET i == Head(op[s].order)
           IN  /\ op[s].order \in Seq(StageIds) /\ op[s].snap = {}
               /\ Listed(op[s]) = Range(op[s].order) /\ Listed(op[s]) \in SUBSET StageIds
               /\ i \in StageIds /\ i \in Listed(op[s]) /\ i \in registry
               /\ stage[i].key \in Keys /\ stage[i].db = Db(s)
               /\ Tail(op[s].order) \in Seq(StageIds)
               /\ Range(Tail(op[s].order)) = Listed(op[s]) \ {i}
               /\ op[s].bytes = BytesOf(Listed(op[s]))
               /\ op[s].bytes - Bytes[stage[i].key] = BytesOf(Range(Tail(op[s].order)))
               /\ op[s].bytes - Bytes[stage[i].key] \in Nat
               /\ i = op[s].order[1] /\ 1 \in DOMAIN op[s].order
               /\ \A m \in DOMAIN Tail(op[s].order) : m \in Nat /\ m + 1 \in DOMAIN op[s].order
                    /\ Tail(op[s].order)[m] = op[s].order[m + 1]
               /\ \A m, n \in DOMAIN Tail(op[s].order) :
                    m # n => Tail(op[s].order)[m] # Tail(op[s].order)[n]
<1> DEFINE o == op[s].order
           i == Head(o)
           ids == Listed(op[s])
<1>1. CallOK(s) /\ op[s] \in OpType
  BY CallFacts
<1>2. /\ o \in Seq(StageIds) /\ op[s].snap = {} /\ o # <<>>
      /\ \A m, n \in DOMAIN o : m # n => o[m] # o[n]
      /\ \A j \in ids : j \in registry /\ stage[j].key \in Keys /\ stage[j].db = Db(s)
      /\ op[s].bytes = BytesOf(ids)
  BY <1>1 DEF CallOK, OpType
<1>3. ids = Range(o)
  BY <1>2 DEF Listed
<1> HIDE DEF o, ids
<1>4. /\ i \in StageIds /\ i \in Range(o) /\ i = o[1] /\ 1 \in DOMAIN o
      /\ Tail(o) \in Seq(StageIds) /\ Range(Tail(o)) = Range(o) \ {i}
      /\ \A m \in DOMAIN Tail(o) : m \in Nat /\ m + 1 \in DOMAIN o /\ Tail(o)[m] = o[m + 1]
      /\ \A m, n \in DOMAIN Tail(o) : m # n => Tail(o)[m] # Tail(o)[n]
  BY <1>2, Tails
<1> HIDE DEF i
<1>5. registry \subseteq StageIds
  BY DEF IInv, TypeOK
<1>6. ids \in SUBSET StageIds /\ i \in ids /\ \A j \in ids : stage[j].key \in Keys
  BY <1>2, <1>3, <1>4, <1>5
<1>7. /\ Memory(stage, ids) = Bytes[stage[i].key] + Memory(stage, ids \ {i})
      /\ Memory(stage, ids \ {i}) \in Nat /\ Bytes[stage[i].key] \in Nat
  BY <1>6, MemoryRemove
<1>8. op[s].bytes = Memory(stage, ids) /\ BytesOf(Range(Tail(o))) = Memory(stage, ids \ {i})
  BY <1>2, <1>3, <1>4, BytesAreMemory
<1>9. op[s].bytes - Bytes[stage[i].key] = BytesOf(Range(Tail(o)))
      /\ BytesOf(Range(Tail(o))) \in Nat
  BY <1>7, <1>8
<1> QED
  BY <1>2, <1>3, <1>4, <1>6, <1>9 DEF o, ids, i

\* Evict: the first stage leaves the order, and the cache if it is there
LEMMA EvictFacts ==
    ASSUME IInv, NEW s \in Scans, Evict(s)
    PROVE  /\ Quietly(last_used, query) /\ NoHistory /\ UNCHANGED Settings
           /\ op[s].pc = "evict" /\ ~Fits(s) /\ op[s].order # <<>>
           /\ op'[s].pc = "evict" /\ GoesOn(s) /\ op'[s].snap = {}
           /\ op'[s].order = Tail(op[s].order) /\ op'[s].bytes = BytesOf(Range(op'[s].order))
           /\ op'[s].disturbed = op[s].disturbed /\ op'[s].touched = op[s].touched
           /\ op'[s] \in OpType /\ BecomesAndDisturbs(s, op'[s], {})
           /\ \A d \in Dbs, k \in Keys :
                cache'[d][k] = IF /\ d = Db(s) /\ k = stage[Head(op[s].order)].key
                                  /\ cache[d][k] = Head(op[s].order)
                               THEN None ELSE cache[d][k]
<1> DEFINE i == Head(op[s].order)
           k == stage[i].key
           o == [op[s] EXCEPT !.order = Tail(@), !.bytes = @ - Bytes[k]]
<1>1. /\ op[s].pc = "evict" /\ ~Fits(s) /\ op[s].order # <<>>
      /\ cache' = IF cache[Db(s)][k] = i THEN [cache EXCEPT ![Db(s)][k] = None] ELSE cache
      /\ BecomesAndDisturbs(s, o, {}) /\ SettleOnly /\ NoHistory /\ UNCHANGED Settings
  BY DEF Evict
<1>2. TypeOK /\ op \in [Scans -> OpType] /\ op[s] \in OpType /\ Db(s) \in Dbs
  BY CallFacts
<1>3. /\ i \in StageIds /\ k \in Keys /\ op[s].snap = {} /\ Tail(op[s].order) \in Seq(StageIds)
      /\ op[s].bytes - Bytes[k] = BytesOf(Range(Tail(op[s].order)))
      /\ op[s].bytes - Bytes[k] \in Nat
  BY <1>1, ListedFacts
<1>4. cache \in CacheType
  BY <1>2 DEF TypeOK, CacheType
<1> HIDE DEF i, k
<1>5. /\ o \in OpType /\ o.pc = "evict" /\ o.key = op[s].key /\ o.warns = op[s].warns
      /\ o.caching = op[s].caching /\ o.cur = op[s].cur /\ o.under = op[s].under
      /\ o.late = op[s].late /\ o.snap = {} /\ o.order = Tail(op[s].order)
      /\ o.bytes = op[s].bytes - Bytes[k]
      /\ o.disturbed = op[s].disturbed /\ o.touched = op[s].touched
  BY <1>1, <1>2, <1>3 DEF OpType
<1> HIDE DEF o
<1>6. /\ cache' \in CacheType
      /\ \A d \in Dbs, l \in Keys :
           cache'[d][l] = IF d = Db(s) /\ l = k /\ cache[d][l] = i THEN None ELSE cache[d][l]
  BY <1>1, <1>2, <1>3, <1>4 DEF CacheType
<1>7. {} \in SUBSET StageIds
  OBVIOUS
<1>8. op' \in [Scans -> OpType] /\ op'[s] = o
  BY <1>1, <1>2, <1>5, <1>7, DisturbsType
<1>9. last_used \in SUBSET (StageIds \X StageIds) /\ query \in QueryType
  BY <1>2 DEF TypeOK, QueryType
<1>10. SettingsType /\ HistoryType
  BY <1>1, <1>2, SettingsSame, HistorySame
<1>11. Settle(stage, registry, last_used, query)
  BY <1>1 DEF SettleOnly
<1>12. Quietly(last_used, query)
  BY <1>2, <1>6, <1>8, <1>9, <1>10, <1>11, SettledOnly
<1>13. GoesOn(s)
  BY <1>5, <1>8 DEF GoesOn
<1> QED
  BY <1>1, <1>3, <1>5, <1>6, <1>8, <1>12, <1>13 DEF i, k

\* RoomMade: the stage fits, or is not cached
LEMMA RoomMadeFacts ==
    ASSUME IInv, NEW s \in Scans, RoomMade(s)
    PROVE  /\ \/ /\ Fits(s) /\ op'[s].pc = "put" /\ GoesOn(s)
                 /\ op'[s].snap = {} /\ op'[s].order = <<>>
                 /\ op'[s].disturbed = op[s].disturbed /\ Quietly(last_used, query)
              \/ /\ op'[s] = Using(s, op[s].cur)
                 /\ Quietly(last_used, [query EXCEPT ![Conn(s)][op[s].key] = op[s].cur])
           /\ Alone(s) /\ NoHistory /\ UNCHANGED cache /\ UNCHANGED Settings
           /\ op[s].pc = "evict"
<1> DEFINE o == [op[s] EXCEPT !.pc = "put", !.order = <<>>]
           qry == [query EXCEPT ![Conn(s)][op[s].key] = op[s].cur]
<1>1. /\ op[s].pc = "evict" /\ UNCHANGED cache /\ NoHistory /\ UNCHANGED Settings
      /\ \/ Fits(s) /\ Becomes(s, o) /\ SettleOnly
         \/ Becomes(s, Using(s, op[s].cur)) /\ Settle(stage, registry, last_used, qry)
  BY DEF RoomMade
<1>2. /\ TypeOK /\ op \in [Scans -> OpType] /\ op[s] \in OpType /\ Conn(s) \in Conns
      /\ op[s].key \in Keys /\ op[s].cur \in StageIds /\ op[s].snap = {}
  BY <1>1, CallFacts
<1>3. HistoryType
  BY <1>1, <1>2, HistorySame
<1>4. CASE Fits(s) /\ Becomes(s, o) /\ SettleOnly
  <2>1. <<>> \in Seq(StageIds)
    BY EmptySeq
  <2>2. /\ o \in OpType /\ o.pc = "put" /\ o.key = op[s].key /\ o.warns = op[s].warns
        /\ o.caching = op[s].caching /\ o.cur = op[s].cur /\ o.under = op[s].under
        /\ o.late = op[s].late /\ o.snap = {} /\ o.order = <<>>
        /\ o.disturbed = op[s].disturbed
    BY <1>2, <2>1 DEF OpType
  <2> HIDE DEF o
  <2>3. /\ op' \in [Scans -> OpType] /\ Alone(s) /\ op'[s] = o
    BY <1>2, <1>4, <2>2, BecomesType DEF Alone
  <2>4. Quietly(last_used, query)
    BY <1>1, <1>2, <1>4, <2>3, QuietStepOnly
  <2>5. GoesOn(s)
    BY <2>2, <2>3 DEF GoesOn
  <2> QED
    BY <1>1, <1>4, <2>2, <2>3, <2>4, <2>5
<1>5. CASE Becomes(s, Using(s, op[s].cur)) /\ Settle(stage, registry, last_used, qry)
  <2>1. Using(s, op[s].cur) \in OpType
    BY <1>2, UsingType
  <2>2. /\ op' \in [Scans -> OpType] /\ Alone(s) /\ op'[s] = Using(s, op[s].cur)
    BY <1>2, <1>5, <2>1, BecomesType DEF Alone
  <2>3. qry \in QueryType
    BY <1>2, QueryGets
  <2>4. last_used \in SUBSET (StageIds \X StageIds)
    BY <1>2 DEF TypeOK
  <2> HIDE DEF qry
  <2>5. Quietly(last_used, qry)
    BY <1>1, <1>2, <1>3, <1>5, <2>2, <2>3, <2>4, QuietStep
  <2> QED
    BY <1>1, <2>2, <2>5 DEF qry
<1> QED
  BY <1>1, <1>4, <1>5

\* Put: the cache has the new stage, which is touched
LEMMA PutFacts ==
    ASSUME IInv, NEW s \in Scans, Put(s)
    PROVE  /\ Quietly(Touch(op[s].cur), query) /\ NoHistory /\ UNCHANGED Settings
           /\ op[s].pc = "put" /\ op'[s].pc = "add" /\ GoesOn(s)
           /\ op'[s].snap = {} /\ op'[s].order = <<>> /\ op'[s].disturbed = op[s].disturbed
           /\ op'[s] \in OpType /\ BecomesAndDisturbs(s, op'[s], {})
           /\ \A d \in Dbs, k \in Keys :
                cache'[d][k] = IF d = Db(s) /\ k = op[s].key THEN op[s].cur ELSE cache[d][k]
<1> DEFINE i == op[s].cur
           o == [op[s] EXCEPT !.pc = "add"]
<1>1. /\ op[s].pc = "put" /\ cache' = [cache EXCEPT ![Db(s)][op[s].key] = i]
      /\ BecomesAndDisturbs(s, o, {}) /\ Settle(stage, registry, Touch(i), query)
      /\ NoHistory /\ UNCHANGED Settings
  BY DEF Put
<1>2. /\ TypeOK /\ op \in [Scans -> OpType] /\ op[s] \in OpType /\ Db(s) \in Dbs
      /\ op[s].key \in Keys /\ i \in StageIds /\ op[s].snap = {} /\ op[s].order = <<>>
  BY <1>1, CallFacts
<1>3. cache \in CacheType /\ query \in QueryType
  BY <1>2 DEF TypeOK, CacheType, QueryType
<1> HIDE DEF i
<1>4. /\ cache' \in CacheType
      /\ \A d \in Dbs, k \in Keys :
           cache'[d][k] = IF d = Db(s) /\ k = op[s].key THEN i ELSE cache[d][k]
  BY <1>1, <1>2, <1>3 DEF CacheType
<1>5. /\ o \in OpType /\ o.pc = "add" /\ o.key = op[s].key /\ o.warns = op[s].warns
      /\ o.caching = op[s].caching /\ o.cur = op[s].cur /\ o.under = op[s].under
      /\ o.late = op[s].late /\ o.snap = {} /\ o.order = <<>>
      /\ o.disturbed = op[s].disturbed
  BY <1>2 DEF OpType
<1> HIDE DEF o
<1>6. {} \in SUBSET StageIds
  OBVIOUS
<1>7. op' \in [Scans -> OpType] /\ op'[s] = o
  BY <1>1, <1>2, <1>5, <1>6, DisturbsType
<1>8. SettingsType /\ HistoryType
  BY <1>1, <1>2, SettingsSame, HistorySame
<1>9. Touch(i) \in SUBSET (StageIds \X StageIds)
  BY <1>2, TouchType
<1>10. Quietly(Touch(i), query)
  BY <1>1, <1>2, <1>3, <1>4, <1>7, <1>8, <1>9, SettledOnly
<1>11. GoesOn(s)
  BY <1>5, <1>7 DEF GoesOn
<1> QED
  BY <1>1, <1>4, <1>5, <1>7, <1>10, <1>11 DEF i

\* Add: the stage is registered, and the query has it
LEMMA AddFacts ==
    ASSUME IInv, NEW s \in Scans, Add(s)
    PROVE  LET i == op[s].cur
           IN  /\ TypeOK' /\ Kept /\ registry' = (registry \cup {i}) \cap Entries(cache', op')
               /\ \A j \in StageIds : j # i /\ InUse(j)' => stage'[j] = stage[j]
               /\ stage'[i] = [stage[i] EXCEPT !.late = op[s].late]
               /\ UseFrom(last_used) /\ QueryFrom([query EXCEPT ![Conn(s)][op[s].key] = i])
               /\ NoHistory /\ UNCHANGED cache /\ UNCHANGED Settings
               /\ op[s].pc = "add" /\ op'[s] = Using(s, i)
               /\ BecomesAndDisturbs(s, Using(s, i), {})
<1> DEFINE i == op[s].cur
           reg == registry \cup {i}
           new == [stage[i] EXCEPT !.late = op[s].late]
           st == [stage EXCEPT ![i].late = op[s].late]
           qry == [query EXCEPT ![Conn(s)][op[s].key] = i]
<1>1. /\ op[s].pc = "add" /\ BecomesAndDisturbs(s, Using(s, i), {}) /\ UNCHANGED cache
      /\ Settle(st, reg, last_used, qry) /\ NoHistory /\ UNCHANGED Settings
  BY DEF Add
<1>2. /\ TypeOK /\ op \in [Scans -> OpType] /\ op[s] \in OpType /\ Conn(s) \in Conns
      /\ op[s].key \in Keys /\ i \in StageIds
  BY <1>1, CallFacts
<1>3. ~stage[i].late
  BY <1>1 DEF IInv, UnseenOK, Caches
<1>4. stage \in [StageIds -> StageType] /\ registry \subseteq StageIds
      /\ last_used \in SUBSET (StageIds \X StageIds)
  BY <1>2 DEF TypeOK
<1>5. qry \in QueryType
  BY <1>2, QueryGets
<1> HIDE DEF qry
<1>6. Using(s, i) \in OpType /\ Using(s, i).cur = i
  BY <1>2, UsingType
<1> HIDE DEF i
<1>7. stage[i] \in StageType /\ op[s].late \in BOOLEAN
  BY <1>2, <1>4 DEF OpType
<1>8. new \in StageType /\ new.key = stage[i].key /\ new.db = stage[i].db
  BY <1>7 DEF StageType
<1>9. /\ st \in [StageIds -> StageType] /\ st[i] = new
      /\ \A j \in StageIds : j # i => st[j] = stage[j]
  <2>1. st = [stage EXCEPT ![i] = new]
    OBVIOUS
  <2> HIDE DEF st, new
  <2> QED
    BY <2>1, <1>2, <1>4, <1>8
<1> HIDE DEF st, new
<1>10. \A j \in StageIds : stage[j].key \in Keys =>
         /\ st[j].key = stage[j].key /\ st[j].db = stage[j].db
         /\ stage[j].late => st[j].late
  BY <1>3, <1>8, <1>9 DEF i
<1>11. reg \in SUBSET StageIds /\ registry \subseteq reg
  BY <1>2, <1>4
<1>12. {} \in SUBSET StageIds
  OBVIOUS
<1>13. op' \in [Scans -> OpType] /\ op'[s] = Using(s, i)
  BY <1>1, <1>2, <1>6, <1>12, DisturbsType
<1>14. SettingsType /\ HistoryType /\ cache' \in CacheType
  BY <1>1, <1>2, SettingsSame, HistorySame DEF TypeOK, CacheType
<1>15. /\ TypeOK' /\ Kept
       /\ \A j \in StageIds : InUse(j)' => stage'[j] = st[j]
       /\ registry' = reg \cap Entries(cache', op')
       /\ UseFrom(last_used) /\ QueryFrom(qry)
  BY <1>1, <1>2, <1>4, <1>5, <1>9, <1>10, <1>11, <1>13, <1>14, Settled
<1>16. stage'[i] = new
  <2>1. PICK j \in StageIds : j = i
    BY <1>2
  <2>2. op'[s].cur = j
    BY <1>6, <1>13, <2>1
  <2>3. InUse(j)'
    BY <2>2 DEF InUse
  <2>4. stage'[j] = st[j]
    BY <2>3, <1>15
  <2> QED
    BY <2>1, <2>4, <1>9
<1>17. \A j \in StageIds : j # i /\ InUse(j)' => stage'[j] = stage[j]
  BY <1>9, <1>15
<1> QED
  BY <1>1, <1>13, <1>15, <1>16, <1>17 DEF i, reg, new, qry

\* A value clip marks the stage and the queries that have it
MarkedNow(i, what) ==
    \A c \in Given(i) : what \in clips'[c][stage[i].key]
ClipsGrow == \A c \in Conns, k \in Keys : clips[c][k] \subseteq clips'[c][k]

LEMMA MeetFacts ==
    ASSUME TypeOK, NEW i \in StageIds, stage[i].key \in Keys,
           NEW what \in {"outside", "refused"}, Meet(i, what)
    PROVE  /\ clips' \in [Conns -> [Keys -> SUBSET {"outside", "refused"}]]
           /\ ClipsGrow /\ MarkedNow(i, what)
<1> DEFINE k == stage[i].key
           marked(c) == [clips[c] EXCEPT ![k] = @ \cup {what}]
<1>1. clips' = [c \in Conns |-> IF c \in Given(i) THEN marked(c) ELSE clips[c]]
  BY DEF Meet
<1>2. clips \in [Conns -> [Keys -> SUBSET {"outside", "refused"}]] /\ k \in Keys
  BY DEF TypeOK
<1> HIDE DEF k
<1>3. \A c \in Conns : /\ marked(c) \in [Keys -> SUBSET {"outside", "refused"}]
                       /\ what \in marked(c)[k]
                       /\ \A l \in Keys : clips[c][l] \subseteq marked(c)[l]
  BY <1>2
<1>4. Given(i) \subseteq Conns
  BY DEF Given
<1> HIDE DEF marked
<1>5. clips' \in [Conns -> [Keys -> SUBSET {"outside", "refused"}]]
  BY <1>1, <1>2, <1>3
<1>6. ClipsGrow
  BY <1>1, <1>3 DEF ClipsGrow
<1>7. MarkedNow(i, what)
  BY <1>1, <1>3, <1>4 DEF MarkedNow, k
<1> QED
  BY <1>5, <1>6, <1>7

\* Stage i alone changes, into new
LEMMA StageChanges ==
    ASSUME IInv, NEW i \in StageIds, NEW new \in StageType,
           new.key = stage[i].key, new.db = stage[i].db, new.late = stage[i].late,
           Settle([stage EXCEPT ![i] = new], registry, last_used, query),
           UNCHANGED <<op, cache>>, HistoryType, UNCHANGED Settings,
           NEW s \in Scans, op[s].cur = i
    PROVE  /\ TypeOK' /\ Kept /\ registry' \subseteq registry
           /\ \A j \in StageIds : j # i /\ InUse(j)' => stage'[j] = stage[j]
           /\ stage'[i] = new /\ UseFrom(last_used) /\ QueryFrom(query)
<1> DEFINE st == [stage EXCEPT ![i] = new]
<1>1. Settle(st, registry, last_used, query)
  OBVIOUS
<1>2. TypeOK
  BY DEF IInv
<1>3. stage \in [StageIds -> StageType] /\ registry \in SUBSET StageIds
      /\ last_used \in SUBSET (StageIds \X StageIds) /\ query \in QueryType
  BY <1>2 DEF TypeOK, QueryType
<1>4. /\ st \in [StageIds -> StageType] /\ st[i] = new
      /\ \A j \in StageIds : j # i => st[j] = stage[j]
  BY <1>3
<1> HIDE DEF st
<1>5. \A j \in StageIds : stage[j].key \in Keys =>
        /\ st[j].key = stage[j].key /\ st[j].db = stage[j].db
        /\ stage[j].late => st[j].late
  BY <1>4
<1>6. SettingsType /\ cache' \in CacheType /\ op' \in [Scans -> OpType]
  BY <1>2, SettingsSame DEF TypeOK, CacheType
<1>7. /\ TypeOK' /\ Kept
      /\ \A j \in StageIds : InUse(j)' => stage'[j] = st[j]
      /\ registry' = registry \cap Entries(cache', op')
      /\ UseFrom(last_used) /\ QueryFrom(query)
  BY <1>1, <1>2, <1>3, <1>4, <1>5, <1>6, Settled
<1>8. InUse(i)'
  BY DEF InUse
<1> QED
  BY <1>4, <1>7, <1>8

\* CheckClip: the stage is refused the clip, or the scan may open it
LEMMA CheckClipFacts ==
    ASSUME IInv, NEW s \in Scans, CheckClip(s)
    PROVE  LET i == op[s].cur
           IN  /\ op[s].pc = "using" /\ UNCHANGED <<op, cache>>
               /\ NoWarnings /\ UNCHANGED Settings
               /\ TypeOK' /\ Kept /\ registry' \subseteq registry
               /\ \A j \in StageIds : j # i /\ InUse(j)' => stage'[j] = stage[j]
               /\ stage'[i].key = stage[i].key /\ stage'[i].db = stage[i].db
               /\ stage'[i].late = stage[i].late /\ stage'[i].outside = stage[i].outside
               /\ stage'[i].refused => stage[i].refused \/ MarkedNow(i, "refused")
               /\ UseFrom(last_used) /\ QueryFrom(query)
               /\ ClipsGrow /\ reading' \subseteq reading \cup {s}
<1> DEFINE i == op[s].cur
           new == [stage[i] EXCEPT !.refused = TRUE]
<1>1. /\ op[s].pc = "using" /\ UNCHANGED <<op, cache>> /\ NoWarnings /\ UNCHANGED Settings
      /\ \/ /\ Settle([stage EXCEPT ![i].refused = TRUE], registry, last_used, query)
            /\ Meet(i, "refused") /\ UNCHANGED reading
         \/ reading' = reading \cup {s} /\ SettleOnly /\ UNCHANGED clips
  BY DEF CheckClip
<1>2. TypeOK /\ i \in StageIds /\ stage[i].key \in Keys
  BY <1>1, CallFacts DEF StageIs
<1>3. stage \in [StageIds -> StageType]
  BY <1>2 DEF TypeOK
<1>4. /\ warned' \in [Conns -> [Keys -> 0 .. 2]] /\ quiet' \in [Conns -> SUBSET Keys]
  BY <1>1, <1>2 DEF TypeOK, NoWarnings
<1>5. CASE /\ Settle([stage EXCEPT ![i].refused = TRUE], registry, last_used, query)
           /\ Meet(i, "refused") /\ UNCHANGED reading
  <2>1. /\ clips' \in [Conns -> [Keys -> SUBSET {"outside", "refused"}]]
        /\ ClipsGrow /\ MarkedNow(i, "refused")
    BY <1>2, <1>5, MeetFacts
  <2>2. HistoryType
    BY <1>2, <1>4, <1>5, <2>1 DEF HistoryType, TypeOK
  <2>3. stage[i] \in StageType
    BY <1>2, <1>3
  <2>4. /\ new \in StageType /\ new.key = stage[i].key /\ new.db = stage[i].db
        /\ new.late = stage[i].late /\ new.outside = stage[i].outside
    BY <2>3 DEF StageType
  <2>5. Settle([stage EXCEPT ![i] = new], registry, last_used, query)
    BY <1>5
  <2> HIDE DEF new
  <2>6. op[s].cur = i
    OBVIOUS
  <2> HIDE DEF i
  <2>7. /\ TypeOK' /\ Kept /\ registry' \subseteq registry
        /\ \A j \in StageIds : j # i /\ InUse(j)' => stage'[j] = stage[j]
        /\ stage'[i] = new /\ UseFrom(last_used) /\ QueryFrom(query)
    BY <1>1, <1>2, <2>2, <2>4, <2>5, <2>6, StageChanges
  <2> QED
    BY <1>1, <1>5, <2>1, <2>4, <2>7 DEF i
<1>6. CASE reading' = reading \cup {s} /\ SettleOnly /\ UNCHANGED clips
  <2>1. HistoryType
    BY <1>2, <1>4, <1>6 DEF HistoryType, TypeOK
  <2>2. /\ op' \in [Scans -> OpType] /\ last_used \in SUBSET (StageIds \X StageIds)
        /\ query \in QueryType /\ Settle(stage, registry, last_used, query)
    BY <1>1, <1>2, <1>6 DEF TypeOK, QueryType, SettleOnly
  <2>3. Quietly(last_used, query)
    BY <1>1, <1>2, <2>1, <2>2, QuietStep
  <2>4. PICK j \in StageIds : j = i
    BY <1>2
  <2>5. InUse(j)'
    BY <1>1, <2>4 DEF InUse
  <2>6. stage'[i] = stage[i]
    BY <2>3, <2>4, <2>5 DEF Quietly, StagesSame
  <2>7. ClipsGrow
    BY <1>6 DEF ClipsGrow
  <2> QED
    BY <1>1, <1>6, <2>3, <2>6, <2>7 DEF Quietly, StagesSame
<1> QED
  BY <1>1, <1>5, <1>6

\* OpenClip: the stage is outside from now on
LEMMA OpenClipFacts ==
    ASSUME IInv, NEW s \in Scans, OpenClip(s)
    PROVE  LET i == op[s].cur
           IN  /\ op[s].pc = "using" /\ UNCHANGED <<op, cache>>
               /\ NoWarnings /\ UNCHANGED Settings
               /\ TypeOK' /\ Kept /\ registry' \subseteq registry
               /\ \A j \in StageIds : j # i /\ InUse(j)' => stage'[j] = stage[j]
               /\ stage'[i].key = stage[i].key /\ stage'[i].db = stage[i].db
               /\ stage'[i].late = stage[i].late /\ stage'[i].refused = stage[i].refused
               /\ stage[i].outside \/ MarkedNow(i, "outside")
               /\ UseFrom(last_used) /\ QueryFrom(query)
               /\ ClipsGrow /\ reading' \subseteq reading
<1> DEFINE i == op[s].cur
           new == [stage[i] EXCEPT !.outside = TRUE]
<1>1. /\ s \in reading /\ reading' = reading \ {s}
      /\ UNCHANGED <<op, cache>> /\ NoWarnings /\ UNCHANGED Settings
      /\ Settle([stage EXCEPT ![i].outside = TRUE], registry, last_used, query)
      /\ IF stage[i].outside THEN UNCHANGED clips ELSE Meet(i, "outside")
  BY DEF OpenClip
<1>2. op[s].pc = "using"
  BY <1>1 DEF IInv, ReadingOK
<1>3. TypeOK /\ i \in StageIds /\ stage[i].key \in Keys
  BY <1>2, CallFacts DEF StageIs
<1>4. stage[i] \in StageType
  BY <1>3 DEF TypeOK
<1>5. /\ clips' \in [Conns -> [Keys -> SUBSET {"outside", "refused"}]]
      /\ ClipsGrow /\ (stage[i].outside \/ MarkedNow(i, "outside"))
  <2>1. CASE stage[i].outside
    BY <1>1, <1>3, <2>1 DEF TypeOK, ClipsGrow
  <2>2. CASE ~stage[i].outside
    BY <1>1, <1>3, <2>2, MeetFacts
  <2> QED
    BY <2>1, <2>2
<1>6. HistoryType
  BY <1>1, <1>3, <1>5 DEF HistoryType, TypeOK, NoWarnings
<1>7. /\ new \in StageType /\ new.key = stage[i].key /\ new.db = stage[i].db
      /\ new.late = stage[i].late /\ new.refused = stage[i].refused
  BY <1>4 DEF StageType
<1>8. Settle([stage EXCEPT ![i] = new], registry, last_used, query)
  BY <1>1
<1> HIDE DEF new
<1>9. op[s].cur = i
  OBVIOUS
<1> HIDE DEF i
<1>10. /\ TypeOK' /\ Kept /\ registry' \subseteq registry
       /\ \A j \in StageIds : j # i /\ InUse(j)' => stage'[j] = stage[j]
       /\ stage'[i] = new /\ UseFrom(last_used) /\ QueryFrom(query)
  BY <1>1, <1>3, <1>6, <1>7, <1>8, <1>9, StageChanges
<1> QED
  BY <1>1, <1>2, <1>5, <1>7, <1>10 DEF i

\* EndQuery: the calls of c are idle again
LEMMA EndQueryFacts ==
    ASSUME IInv, NEW c \in Conns, EndQuery(c)
    PROVE  /\ Quietly(last_used, QueryEnd(c)) /\ UNCHANGED Settings /\ UNCHANGED cache
           /\ \A s \in Scans :
                IF Conn(s) = c
                THEN op[s].pc \in {"idle", "done"} /\ op'[s] = NoCall("idle", FALSE)
                ELSE op'[s] = op[s]
           /\ warned' = [warned EXCEPT ![c] = [k \in Keys |-> 0]]
           /\ quiet' = [quiet EXCEPT ![c] = {}] /\ reading' = reading
           /\ \A e \in Conns, k \in Keys : e # c => clips'[e][k] = clips[e][k]
<1>1. /\ \A s \in Scans : Conn(s) = c => op[s].pc \in {"idle", "done"}
      /\ op' = [s \in Scans |-> IF Conn(s) = c THEN NoCall("idle", FALSE) ELSE op[s]]
      /\ UNCHANGED cache /\ Settle(stage, registry, last_used, QueryEnd(c))
      /\ warned' = [warned EXCEPT ![c] = [k \in Keys |-> 0]]
      /\ quiet' = [quiet EXCEPT ![c] = {}] /\ UNCHANGED Settings
      /\ clips' = [clips EXCEPT ![c] = [k \in Keys |-> {}]] /\ reading' = reading
  BY DEF EndQuery
<1>2. TypeOK
  BY DEF IInv
<1>3. NoCall("idle", FALSE) \in OpType
  BY NoCallType
<1>4. op' \in [Scans -> OpType]
  BY <1>1, <1>2, <1>3 DEF TypeOK
<1>5. /\ QueryEnd(c) \in QueryType /\ last_used \in SUBSET (StageIds \X StageIds)
  BY <1>2 DEF TypeOK, QueryType, QueryEnd
<1>6. HistoryType
  BY <1>1, <1>2 DEF TypeOK, HistoryType
<1>7. Quietly(last_used, QueryEnd(c))
  BY <1>1, <1>2, <1>4, <1>5, <1>6, QuietStep
<1>8. \A e \in Conns, k \in Keys : e # c => clips'[e][k] = clips[e][k]
  BY <1>1, <1>2 DEF TypeOK
<1> QED
  BY <1>1, <1>7, <1>8

\* SetStageCache: the registered stages leave the cache
LEMMA SetStageCacheFacts ==
    ASSUME IInv, NEW c \in Conns, NEW scope \in Scopes, SetStageCache(c, scope)
    PROVE  LET d == DbOf[c]
           IN  /\ d \in Dbs /\ Quietly(last_used, query) /\ NoHistory
               /\ UNCHANGED <<session, global, restricted, used>>
               /\ setting' = [setting EXCEPT ![c] = scope] /\ scope # "none"
               /\ \A s \in Scans :
                    /\ Waits(s) /\ op'[s].touched = op[s].touched
                    /\ IF Db(s) = d /\ Caching(s)
                       THEN op'[s].disturbed /\ op'[s].late ELSE op'[s] = op[s]
               /\ \A e \in Dbs, k \in Keys :
                    cache'[e][k] = IF e = d /\ cache[e][k] \in OwnStages(d) THEN None
                                   ELSE cache[e][k]
<1> DEFINE d == DbOf[c]
           changed(s) == [op[s] EXCEPT !.late = TRUE, !.disturbed = TRUE]
<1>1. /\ setting' = [setting EXCEPT ![c] = scope]
      /\ cache' = [cache EXCEPT ![d] = [k \in Keys |->
                       IF cache[d][k] \in OwnStages(d) THEN None ELSE cache[d][k]]]
      /\ op' = [s \in Scans |-> IF Db(s) = d /\ Caching(s) THEN changed(s) ELSE op[s]]
      /\ SettleOnly /\ NoHistory /\ UNCHANGED <<session, global, restricted, used>>
  BY DEF SetStageCache, Overlapping, DroppedStages
<1>2. TypeOK /\ op \in [Scans -> OpType] /\ cache \in CacheType
  BY DEF IInv, TypeOK, CacheType
<1>3. d \in Dbs /\ scope \in {"session", "global"}
  BY SharingAssumption
<1>4. \A s \in Scans :
        /\ changed(s) \in OpType
        /\ changed(s).pc = op[s].pc /\ changed(s).key = op[s].key
        /\ changed(s).warns = op[s].warns /\ changed(s).caching = op[s].caching
        /\ changed(s).cur = op[s].cur /\ changed(s).snap = op[s].snap
        /\ changed(s).order = op[s].order /\ changed(s).bytes = op[s].bytes
        /\ changed(s).under = op[s].under /\ changed(s).touched = op[s].touched
        /\ changed(s).late /\ changed(s).disturbed
  <2> SUFFICES ASSUME NEW s \in Scans
               PROVE  /\ changed(s) \in OpType
                      /\ changed(s).pc = op[s].pc /\ changed(s).key = op[s].key
                      /\ changed(s).warns = op[s].warns /\ changed(s).caching = op[s].caching
                      /\ changed(s).cur = op[s].cur /\ changed(s).snap = op[s].snap
                      /\ changed(s).order = op[s].order /\ changed(s).bytes = op[s].bytes
                      /\ changed(s).under = op[s].under /\ changed(s).touched = op[s].touched
                      /\ changed(s).late /\ changed(s).disturbed
    OBVIOUS
  <2>1. op[s] \in OpType
    BY <1>2
  <2> QED
    BY <2>1 DEF OpType
<1> HIDE DEF changed
<1>5. op' \in [Scans -> OpType]
      /\ \A s \in Scans : op'[s] = IF Db(s) = d /\ Caching(s) THEN changed(s) ELSE op[s]
  BY <1>1, <1>2, <1>4
<1>6. \A s \in Scans :
        /\ Waits(s) /\ op'[s].touched = op[s].touched
        /\ IF Db(s) = d /\ Caching(s) THEN op'[s].disturbed /\ op'[s].late ELSE op'[s] = op[s]
  <2> SUFFICES ASSUME NEW s \in Scans
               PROVE  /\ Waits(s) /\ op'[s].touched = op[s].touched
                      /\ IF Db(s) = d /\ Caching(s)
                         THEN op'[s].disturbed /\ op'[s].late ELSE op'[s] = op[s]
    OBVIOUS
  <2>1. CASE Db(s) = d /\ Caching(s)
    BY <2>1, <1>4, <1>5 DEF Waits
  <2>2. CASE ~(Db(s) = d /\ Caching(s))
    BY <2>2, <1>5 DEF Waits
  <2> QED
    BY <2>1, <2>2
<1>7. /\ cache' \in CacheType
      /\ \A e \in Dbs, k \in Keys :
           cache'[e][k] = IF e = d /\ cache[e][k] \in OwnStages(d) THEN None ELSE cache[e][k]
  <2> DEFINE row == [k \in Keys |-> IF cache[d][k] \in OwnStages(d) THEN None ELSE cache[d][k]]
  <2>1. row \in [Keys -> StageIds \cup {None}]
    BY <1>2, <1>3 DEF CacheType
  <2>2. \A k \in Keys : row[k] = IF cache[d][k] \in OwnStages(d) THEN None ELSE cache[d][k]
    OBVIOUS
  <2>3. cache' = [cache EXCEPT ![d] = row]
    BY <1>1
  <2> HIDE DEF row
  <2>4. cache' \in CacheType
    BY <2>1, <2>3, <1>2, <1>3 DEF CacheType
  <2>5. \A e \in Dbs : cache'[e] = IF e = d THEN row ELSE cache[e]
    BY <2>3, <1>2, <1>3 DEF CacheType
  <2> QED
    BY <2>2, <2>4, <2>5
<1>8. SettingsType /\ HistoryType
  BY <1>1, <1>2, <1>3, HistorySame DEF TypeOK, SettingsType
<1>9. last_used \in SUBSET (StageIds \X StageIds) /\ query \in QueryType
  BY <1>2 DEF TypeOK, QueryType
<1>10. Settle(stage, registry, last_used, query)
  BY <1>1 DEF SettleOnly
<1>11. Quietly(last_used, query)
  BY <1>2, <1>5, <1>7, <1>8, <1>9, <1>10, SettledOnly
<1> HIDE DEF d
<1>12. scope # "none"
  BY <1>3
<1> QED
  BY <1>1, <1>3, <1>6, <1>7, <1>11, <1>12 DEF d

\* UseMemory: DuckDB evicts all but the kept stages
LEMMA UseMemoryFacts ==
    ASSUME IInv, NEW d \in Dbs, NEW n \in Needs, NEW kept \in SUBSET Keys, UseMemory(d, n, kept)
    PROVE  /\ Quietly(last_used, query) /\ NoHistory
           /\ UNCHANGED <<session, global, restricted, setting>>
           /\ \A e \in Dbs : e # d => used'[e] = used[e]
           /\ \A s \in Scans :
                /\ Waits(s) /\ op'[s].touched = op[s].touched /\ op'[s].late = op[s].late
                /\ IF Db(s) = d THEN op'[s].disturbed <=> Caching(s) ELSE op'[s] = op[s]
           /\ \A e \in Dbs, k \in Keys :
                cache'[e][k] = IF e = d /\ k \notin kept THEN None ELSE cache[e][k]
<1> DEFINE changed(s) == [op[s] EXCEPT !.disturbed = Caching(s)]
<1>1. /\ used' = [used EXCEPT ![d] = n]
      /\ cache' = [cache EXCEPT ![d] = [k \in Keys |-> IF k \in kept THEN cache[d][k] ELSE None]]
      /\ op' = [s \in Scans |-> IF Db(s) = d THEN changed(s) ELSE op[s]]
      /\ SettleOnly /\ NoHistory /\ UNCHANGED <<session, global, restricted, setting>>
  BY DEF UseMemory
<1>2. TypeOK /\ op \in [Scans -> OpType] /\ cache \in CacheType /\ used \in [Dbs -> Nat]
  BY DEF IInv, TypeOK, CacheType
<1>3. n \in Nat
  BY SharingAssumption
<1>4. \A s \in Scans :
        /\ changed(s) \in OpType
        /\ changed(s).pc = op[s].pc /\ changed(s).key = op[s].key
        /\ changed(s).warns = op[s].warns /\ changed(s).caching = op[s].caching
        /\ changed(s).cur = op[s].cur /\ changed(s).snap = op[s].snap
        /\ changed(s).order = op[s].order /\ changed(s).bytes = op[s].bytes
        /\ changed(s).under = op[s].under /\ changed(s).touched = op[s].touched
        /\ changed(s).late = op[s].late /\ (changed(s).disturbed <=> Caching(s))
  <2> SUFFICES ASSUME NEW s \in Scans
               PROVE  /\ changed(s) \in OpType
                      /\ changed(s).pc = op[s].pc /\ changed(s).key = op[s].key
                      /\ changed(s).warns = op[s].warns /\ changed(s).caching = op[s].caching
                      /\ changed(s).cur = op[s].cur /\ changed(s).snap = op[s].snap
                      /\ changed(s).order = op[s].order /\ changed(s).bytes = op[s].bytes
                      /\ changed(s).under = op[s].under /\ changed(s).touched = op[s].touched
                      /\ changed(s).late = op[s].late /\ (changed(s).disturbed <=> Caching(s))
    OBVIOUS
  <2>1. op[s] \in OpType
    BY <1>2
  <2>2. Caching(s) \in BOOLEAN
    BY <2>1 DEF Caching, OpType
  <2> DEFINE b == Caching(s)
  <2>3. changed(s) = [op[s] EXCEPT !.disturbed = b] /\ b \in BOOLEAN /\ b = Caching(s)
    BY <2>2
  <2> HIDE DEF b, changed
  <2>4. /\ changed(s) \in OpType
        /\ changed(s).pc = op[s].pc /\ changed(s).key = op[s].key
        /\ changed(s).warns = op[s].warns /\ changed(s).caching = op[s].caching
        /\ changed(s).cur = op[s].cur /\ changed(s).snap = op[s].snap
        /\ changed(s).order = op[s].order /\ changed(s).bytes = op[s].bytes
        /\ changed(s).under = op[s].under /\ changed(s).touched = op[s].touched
        /\ changed(s).late = op[s].late /\ changed(s).disturbed = b
    BY <2>1, <2>3 DEF OpType
  <2> QED
    BY <2>3, <2>4
<1> HIDE DEF changed
<1>5. op' \in [Scans -> OpType]
      /\ \A s \in Scans : op'[s] = IF Db(s) = d THEN changed(s) ELSE op[s]
  BY <1>1, <1>2, <1>4
<1>6. \A s \in Scans :
        /\ Waits(s) /\ op'[s].touched = op[s].touched /\ op'[s].late = op[s].late
        /\ IF Db(s) = d THEN op'[s].disturbed <=> Caching(s) ELSE op'[s] = op[s]
  <2> SUFFICES ASSUME NEW s \in Scans
               PROVE  /\ Waits(s) /\ op'[s].touched = op[s].touched /\ op'[s].late = op[s].late
                      /\ IF Db(s) = d THEN op'[s].disturbed <=> Caching(s) ELSE op'[s] = op[s]
    OBVIOUS
  <2>1. CASE Db(s) = d
    BY <2>1, <1>4, <1>5 DEF Waits
  <2>2. CASE Db(s) # d
    BY <2>2, <1>5 DEF Waits
  <2> QED
    BY <2>1, <2>2
<1>7. /\ cache' \in CacheType
      /\ \A e \in Dbs, k \in Keys :
           cache'[e][k] = IF e = d /\ k \notin kept THEN None ELSE cache[e][k]
  <2> DEFINE row == [k \in Keys |-> IF k \in kept THEN cache[d][k] ELSE None]
  <2>1. row \in [Keys -> StageIds \cup {None}]
    BY <1>2 DEF CacheType
  <2>2. \A k \in Keys : row[k] = IF k \in kept THEN cache[d][k] ELSE None
    OBVIOUS
  <2>3. cache' = [cache EXCEPT ![d] = row]
    BY <1>1
  <2> HIDE DEF row
  <2>4. cache' \in CacheType
    BY <2>1, <2>3, <1>2 DEF CacheType
  <2>5. \A e \in Dbs : cache'[e] = IF e = d THEN row ELSE cache[e]
    BY <2>3, <1>2 DEF CacheType
  <2> QED
    BY <2>2, <2>4, <2>5
<1>8. SettingsType /\ HistoryType
  BY <1>1, <1>2, <1>3, HistorySame DEF TypeOK, SettingsType
<1>9. last_used \in SUBSET (StageIds \X StageIds) /\ query \in QueryType
  BY <1>2 DEF TypeOK, QueryType
<1>10. Settle(stage, registry, last_used, query)
  BY <1>1 DEF SettleOnly
<1>11. Quietly(last_used, query)
  BY <1>2, <1>5, <1>7, <1>8, <1>9, <1>10, SettledOnly
<1>12. \A e \in Dbs : e # d => used'[e] = used[e]
  BY <1>1, <1>2
<1> QED
  BY <1>1, <1>6, <1>7, <1>11, <1>12

-----------------------------------------------------------------------------
(* Which changes keep the parts of the invariant: calls and their stages *)

\* What calls and caches refer to is in use
LEMMA Uses ==
    \A i \in StageIds :
        /\ \A s \in Scans : op'[s].cur = i => InUse(i)'
        /\ \A s \in Scans : i \in Listed(op'[s]) => i \in Entries(cache', op') /\ InUse(i)'
        /\ \A d \in Dbs, k \in Keys : cache'[d][k] = i => i \in Entries(cache', op') /\ InUse(i)'
        /\ \A s \in Scans : op'[s].pc \in {"found", "add"} /\ op'[s].cur = i =>
             i \in Entries(cache', op')
        /\ i \in Entries(cache', op') => InUse(i)'
BY DEF InUse, Entries, Held, Listed

\* A stage in use remains that of its key
LEMMA StillIs ==
    ASSUME Kept, NEW i \in StageIds, NEW k \in Keys, NEW d, StageIs(i, k, d), InUse(i)'
    PROVE  /\ stage'[i].key = k /\ stage'[i].db = d
           /\ stage[i].late => stage'[i].late
BY DEF Kept, StageIs

\* The stages a call lists stay registered, and take what they took
LEMMA ListedKept ==
    ASSUME IInv, TypeOK', Kept, NEW s \in Scans,
           \A i \in Listed(op'[s]) : i \in registry /\ stage[i].key \in Keys /\ stage[i].db = Db(s)
    PROVE  /\ \A i \in Listed(op'[s]) :
                i \in registry' /\ stage'[i].key \in Keys /\ stage'[i].db = Db(s)
           /\ BytesOf(Listed(op[s]))' = BytesOf(Listed(op'[s]))
           /\ BytesOf(Listed(op'[s])) \in Nat
<1> DEFINE ids == Listed(op'[s])
<1>1. registry \subseteq StageIds
  BY DEF IInv, TypeOK
<1>2. \A i \in ids : /\ i \in registry' /\ i \in StageIds /\ stage[i].key \in Keys
                     /\ stage'[i].key = stage[i].key /\ stage'[i].db = Db(s)
  <2> SUFFICES ASSUME NEW i \in ids
               PROVE  /\ i \in registry' /\ i \in StageIds /\ stage[i].key \in Keys
                      /\ stage'[i].key = stage[i].key /\ stage'[i].db = Db(s)
    OBVIOUS
  <2>1. i \in StageIds /\ i \in registry /\ stage[i].key \in Keys /\ stage[i].db = Db(s)
    BY <1>1
  <2>2. i \in Entries(cache', op') /\ InUse(i)'
    BY <2>1, Uses
  <2> QED
    BY <2>1, <2>2 DEF Kept
<1>3. BytesOf(Listed(op[s]))' = Memory(stage', ids) /\ BytesOf(ids) = Memory(stage, ids)
  BY DEF BytesOf, Memory
<1> HIDE DEF ids
<1>4. ids \in SUBSET StageIds
  BY <1>2
<1>5. Memory(stage', ids) = Memory(stage, ids)
  BY <1>2, <1>4, MemorySame
<1>6. Memory(stage, ids) \in Nat
  BY <1>2, <1>4, MemoryType
<1> QED
  BY <1>2, <1>3, <1>5, <1>6 DEF ids

\* A call that lists nothing
LEMMA PlainCall ==
    ASSUME NEW s \in Scans, op'[s].snap = {}, op'[s].order = <<>>,
           op'[s].pc \notin {"sort", "evict"},
           op'[s].pc \in {"idle", "done", "lookup", "open"} => op'[s].cur = None,
           op'[s].pc \in {"idle", "done"} \/ op'[s].key \in Keys,
           op'[s].pc \in Caches => op'[s].caching,
           op'[s].pc \in {"lookup", "found"} => ~op'[s].caching,
           op'[s].pc \in Has =>
             op'[s].cur \in StageIds /\ stage'[op'[s].cur].key = op'[s].key
             /\ stage'[op'[s].cur].db = Db(s),
           op'[s].pc = "idle" => ~op'[s].under
    PROVE  CallOK(s)'
<1>1. Listed(op'[s]) = {} /\ \A m \in DOMAIN op'[s].order : FALSE
  BY DEF Listed, Range
<1>2. op'[s].pc \in Calls => op'[s].key \in Keys
  BY DEF Calls, Caches, Has
<1>3. op'[s].pc \in Has => StageIs(op[s].cur, op[s].key, Db(s))'
  BY DEF StageIs, Db
<1> QED
  BY <1>1, <1>2, <1>3 DEF CallOK, Db

\* The stage of a call remains that of its key
LEMMA CurIs ==
    ASSUME IInv, Kept, NEW s \in Scans, op[s].pc \in Has, op'[s].cur = op[s].cur
    PROVE  /\ op'[s].cur \in StageIds
           /\ stage'[op'[s].cur].key = op[s].key /\ stage'[op'[s].cur].db = Db(s)
<1>1. op[s].key \in Keys /\ op[s].cur \in StageIds /\ StageIs(op[s].cur, op[s].key, Db(s))
  BY CallFacts DEF Caches, Has
<1>2. PICK i \in StageIds : i = op[s].cur
  BY <1>1
<1>3. InUse(i)'
  BY <1>2, Uses
<1>4. stage'[i].key = op[s].key /\ stage'[i].db = Db(s)
  BY <1>1, <1>2, <1>3, StillIs
<1> QED
  BY <1>2, <1>4

\* A call that waits
LEMMA WaitingCall ==
    ASSUME IInv, TypeOK', Kept, NEW t \in Scans, Waits(t)
    PROVE  CallOK(t)'
<1>1. CallOK(t)
  BY CallFacts
<1>2. Listed(op'[t]) = Listed(op[t])
  BY DEF Waits, Listed
<1>3. \A i \in Listed(op'[t]) : i \in registry /\ stage[i].key \in Keys /\ stage[i].db = Db(t)
  BY <1>1, <1>2 DEF CallOK
<1>4. /\ \A i \in Listed(op'[t]) :
           i \in registry' /\ stage'[i].key \in Keys /\ stage'[i].db = Db(t)
      /\ BytesOf(Listed(op[t]))' = BytesOf(Listed(op'[t]))
  BY <1>3, ListedKept
<1>5. op'[t].pc \in {"sort", "evict"} => op'[t].bytes = BytesOf(Listed(op[t]))'
  BY <1>1, <1>2, <1>4 DEF CallOK, Waits
<1>6. op'[t].pc \in Has =>
        op'[t].cur \in StageIds /\ stage'[op'[t].cur].key = op'[t].key
        /\ stage'[op'[t].cur].db = Db(t)
  BY CurIs DEF Waits
<1>7. op'[t].pc \in Has => StageIs(op[t].cur, op[t].key, Db(t))'
  BY <1>6 DEF StageIs, Db
<1> QED
  BY <1>1, <1>4, <1>5, <1>7 DEF CallOK, Waits, Db

\* No call, cache or query gets a stage other than x that it did not have
CallsGet(x) == \A s \in Scans : op'[s].cur \in {op[s].cur, None, x}
CachesGet(x) == \A d \in Dbs, k \in Keys : cache'[d][k] \in {cache[d][k], None, x}
QueriesGet(x) == \A c \in Conns, k \in Keys : query'[c][k] \in {query[c][k], None, x}

\* A stage that is a call's own remains so
LEMMA StillUnseen ==
    ASSUME IInv, TypeOK', NEW t \in Scans, op'[t].cur = op[t].cur,
           op'[t].pc \in Caches => op[t].pc \in Caches,
           op'[t].pc \in Unseen => op[t].pc \in Unseen,
           op'[t].pc \in Caches =>
             /\ stage'[op[t].cur].late = stage[op[t].cur].late
             /\ op[t].cur \notin registry' \ registry
             /\ \A s \in Scans \ {t} : op'[s].pc \in Caches =>
                  (op[s].pc \in Caches /\ op'[s].cur = op[s].cur) \/ op'[s].cur # op[t].cur,
           NEW x, op[t].pc \in Unseen => op[t].cur # x,
           CallsGet(x), CachesGet(x), QueriesGet(x)
    PROVE  UnseenOK(t)'
<1>1. UnseenOK(t) /\ TypeOK
  BY DEF IInv
<1>2. op'[t].pc \in Caches => op[t].pc \in Caches /\ op[t].cur \in StageIds
  BY CallFacts DEF Caches
<1>3. op'[t].pc \in Unseen => op[t].pc \in Unseen /\ op[t].cur # None
  BY <1>2, SharingAssumption DEF Caches, Unseen
<1>4. op'[t].pc \in Caches =>
        /\ op'[t].cur \notin registry' /\ ~stage'[op'[t].cur].late
        /\ \A s \in Scans \ {t} : op'[s].pc \in Caches => op'[s].cur # op'[t].cur
  BY <1>1, <1>2 DEF UnseenOK
<1>5. op'[t].pc \in Unseen =>
        /\ \A d \in Dbs, k \in Keys : cache'[d][k] # op'[t].cur
        /\ \A c \in Conns, k \in Keys : query'[c][k] # op'[t].cur
        /\ \A s \in Scans \ {t} : op'[s].cur # op'[t].cur
  BY <1>1, <1>3 DEF UnseenOK, CallsGet, CachesGet, QueriesGet
<1> QED
  BY <1>4, <1>5 DEF UnseenOK

\* The caches may get x, that of its key
LEMMA CacheKept ==
    ASSUME IInv, TypeOK', Kept, NEW x,
           \A d \in Dbs, k \in Keys : cache'[d][k] = x /\ x # None =>
             /\ x \in StageIds /\ stage'[x].key = k /\ stage'[x].db = d
             /\ x \in registry' \/ \E s \in Scans : op'[s].pc = "add" /\ op'[s].cur = x,
           CachesGet(x),
           \A s \in Scans : op[s].pc = "add" /\ op[s].cur \in Entries(cache', op') =>
             (op'[s].pc = "add" /\ op'[s].cur = op[s].cur) \/ op[s].cur \in registry'
    PROVE  CacheOK'
<1>1. CacheOK /\ TypeOK
  BY DEF IInv
<1> SUFFICES ASSUME NEW d \in Dbs, NEW k \in Keys, cache'[d][k] # None
             PROVE  /\ StageIs(cache[d][k], k, d)'
                    /\ cache'[d][k] \in registry'
                         \/ \E s \in Scans : op'[s].pc = "add" /\ op'[s].cur = cache'[d][k]
  BY DEF CacheOK
<1>2. PICK i \in StageIds : i = cache'[d][k]
  BY DEF TypeOK
<1>3. CASE i = x
  <2>1. cache'[d][k] = x /\ x # None
    BY <1>2, <1>3, SharingAssumption
  <2>2. /\ x \in StageIds /\ stage'[x].key = k /\ stage'[x].db = d
        /\ x \in registry' \/ \E s \in Scans : op'[s].pc = "add" /\ op'[s].cur = x
    BY <2>1
  <2> QED
    BY <2>1, <2>2 DEF StageIs
<1>4. CASE i # x
  <2>1. cache[d][k] = i /\ i # None
    BY <1>2, <1>4, SharingAssumption DEF CachesGet
  <2>2. /\ StageIs(i, k, d)
        /\ i \in registry \/ \E s \in Scans : op[s].pc = "add" /\ op[s].cur = i
    BY <1>1, <2>1 DEF CacheOK
  <2>3. i \in Entries(cache', op') /\ InUse(i)'
    BY <1>2, Uses
  <2>4. stage'[i].key = k /\ stage'[i].db = d
    BY <2>2, <2>3, StillIs
  <2>5. i \in registry' \/ \E s \in Scans : op'[s].pc = "add" /\ op'[s].cur = i
    BY <2>2, <2>3 DEF Kept
  <2> QED
    BY <1>2, <2>4, <2>5 DEF StageIs
<1> QED
  BY <1>3, <1>4

\* Queries keep their stages
LEMMA QueryKept ==
    ASSUME IInv, TypeOK', Kept, QueryFrom(query)
    PROVE  QueryOK' /\ QueriesGet(None)
<1>1. QueryOK /\ TypeOK
  BY DEF IInv
<1>2. QueryOK'
  <2> SUFFICES ASSUME NEW c \in Conns, NEW k \in Keys, query'[c][k] # None
               PROVE  StageIs(query[c][k], k, DbOf[c])'
    BY DEF QueryOK
  <2>1. query'[c][k] = query[c][k]
    BY DEF QueryFrom
  <2>2. StageIs(query[c][k], k, DbOf[c])
    BY <1>1, <2>1 DEF QueryOK
  <2>3. InUse(query[c][k])'
    BY DEF Kept
  <2>4. PICK i \in StageIds : i = query'[c][k]
    BY <2>1, <2>2 DEF StageIs
  <2>5. InUse(i)'
    BY <2>3, <2>4 DEF InUse
  <2>6. stage'[i].key = k /\ stage'[i].db = DbOf[c]
    BY <2>1, <2>2, <2>4, <2>5, StillIs
  <2> QED
    BY <2>4, <2>6 DEF StageIs
<1>3. QueriesGet(None)
  BY DEF QueryFrom, QueriesGet
<1> QED
  BY <1>2, <1>3

\* A query gets stage i, that of its key
LEMMA QueryGetsStage ==
    ASSUME IInv, TypeOK', Kept, NEW c \in Conns, NEW k \in Keys, NEW i \in StageIds,
           stage'[i].key = k, stage'[i].db = DbOf[c], QueryFrom([query EXCEPT ![c][k] = i])
    PROVE  /\ QueryOK' /\ QueriesGet(i)
           /\ \A e \in Conns, l \in Keys : query'[e][l] # None =>
                query'[e][l] = query[e][l] \/ (e = c /\ l = k /\ query'[e][l] = i)
<1>1. QueryOK /\ TypeOK
  BY DEF IInv
<1>2. \A e \in Conns, l \in Keys : query'[e][l] # None =>
        query'[e][l] = query[e][l] \/ (e = c /\ l = k /\ query'[e][l] = i)
  <2> DEFINE qry == [query EXCEPT ![c][k] = i]
  <2>1. \A e \in Conns, l \in Keys : qry[e][l] = IF e = c /\ l = k THEN i ELSE query[e][l]
    BY <1>1 DEF TypeOK
  <2> HIDE DEF qry
  <2>2. QueryFrom(qry)
    BY DEF qry
  <2> QED
    BY <2>1, <2>2 DEF QueryFrom
<1>3. QueriesGet(i)
  BY <1>2 DEF QueriesGet
<1>4. QueryOK'
  <2> SUFFICES ASSUME NEW e \in Conns, NEW l \in Keys, query'[e][l] # None
               PROVE  StageIs(query[e][l], l, DbOf[e])'
    BY DEF QueryOK
  <2>1. CASE e = c /\ l = k /\ query'[e][l] = i
    BY <2>1 DEF StageIs
  <2>2. CASE query'[e][l] = query[e][l]
    <3>1. StageIs(query[e][l], l, DbOf[e])
      BY <1>1, <2>2 DEF QueryOK
    <3>2. InUse(query[e][l])'
      BY DEF Kept
    <3>3. PICK j \in StageIds : j = query'[e][l]
      BY <2>2, <3>1 DEF StageIs
    <3>4. InUse(j)'
      BY <3>2, <3>3 DEF InUse
    <3>5. stage'[j].key = l /\ stage'[j].db = DbOf[e]
      BY <2>2, <3>1, <3>3, <3>4, StillIs
    <3> QED
      BY <3>3, <3>5 DEF StageIs
  <2> QED
    BY <1>2, <2>1, <2>2
<1> QED
  BY <1>2, <1>3, <1>4

\* What stays registered is cached or held
LEMMA Registered ==
    ASSUME TypeOK', Kept, CacheOK', \A s \in Scans : CallOK(s)'
    PROVE  RegistryOK'
<1> SUFFICES ASSUME NEW i \in registry'
             PROVE  /\ stage'[i].key \in Keys /\ stage'[i].db \in Dbs
                    /\ cache'[stage'[i].db][stage'[i].key] = i
                         \/ \E s \in Scans : i \in Held(op'[s])
  BY DEF RegistryOK
<1>1. i \in Entries(cache', op') /\ i \in StageIds
  BY DEF Kept, TypeOK
<1>2. \A s \in Scans : Db(s) \in Dbs
  BY SharingAssumption DEF Db
<1>3. CASE \E d \in Dbs, k \in Keys : cache'[d][k] = i
  <2>1. PICK d \in Dbs, k \in Keys : cache'[d][k] = i
    BY <1>3
  <2>2. cache'[d][k] # None
    BY <1>1, <2>1, SharingAssumption
  <2>3. StageIs(cache[d][k], k, d)'
    BY <2>2 DEF CacheOK
  <2>4. stage'[i].key = k /\ stage'[i].db = d
    BY <2>1, <2>3 DEF StageIs
  <2> QED
    BY <2>1, <2>4
<1>4. CASE \E s \in Scans : i \in Listed(op'[s])
  <2>1. PICK s \in Scans : i \in Listed(op'[s])
    BY <1>4
  <2>2. stage'[i].key \in Keys /\ stage'[i].db = Db(s)
    BY <2>1 DEF CallOK, Db
  <2>3. i \in Held(op'[s])
    BY <2>1 DEF Held, Listed
  <2> QED
    BY <1>2, <2>2, <2>3
<1>5. CASE \E s \in Scans : op'[s].pc \in {"found", "add"} /\ op'[s].cur = i
  <2>1. PICK s \in Scans : op'[s].pc \in {"found", "add"} /\ op'[s].cur = i
    BY <1>5
  <2>2. StageIs(op[s].cur, op[s].key, Db(s))' /\ op'[s].key \in Keys
    BY <2>1 DEF CallOK, Caches, Has, Calls
  <2>3. stage'[i].key \in Keys /\ stage'[i].db = Db(s)
    BY <2>1, <2>2 DEF StageIs, Db
  <2>4. i \in Held(op'[s])
    BY <2>1 DEF Held
  <2> QED
    BY <1>2, <2>3, <2>4
<1> QED
  BY <1>1, <1>3, <1>4, <1>5, Entry

-----------------------------------------------------------------------------
(* Which changes keep the parts of the invariant: access, warnings, setting *)

\* The calls of a query keep the access it began with
LEMMA UnderKept ==
    ASSUME IInv,
           \A s \in Scans : op'[s].under = op[s].under /\ (op'[s].pc = "idle" <=> op[s].pc = "idle"),
           restricted \subseteq restricted',
           \A c \in Conns, k \in Keys :
             query'[c][k] \in {query[c][k], None} \/ ~QueryIdle(c)
    PROVE  UnderOK'
<1>1. UnderOK
  BY DEF IInv
<1>2. \A c \in Conns : QueryIdle(c)' <=> QueryIdle(c)
  BY DEF QueryIdle, Conn
<1>3. \A s \in Scans : op'[s].under => Db(s)' \in restricted'
  BY <1>1 DEF UnderOK, Db
<1>4. \A s, t \in Scans : Conn(s)' = Conn(t)' /\ op'[s].pc # "idle" /\ op'[t].pc # "idle" =>
         (op'[s].under <=> op'[t].under)
  BY <1>1 DEF UnderOK, Conn
<1>5. \A c \in Conns, k \in Keys : QueryIdle(c)' => query'[c][k] = None
  BY <1>1, <1>2 DEF UnderOK
<1> QED
  BY <1>3, <1>4, <1>5 DEF UnderOK

\* A stage that gets a layer outside, or is refused one, is marked for the queries that
\* have it, and what calls and queries get is known
KnownNow(c, k, i, u) ==
    /\ u /\ stage'[i].outside => "outside" \in clips'[c][k]
    /\ stage'[i].refused => "refused" \in clips'[c][k]

LEMMA KnownKept ==
    ASSUME IInv, TypeOK', Kept,
           \A s \in Scans : op'[s].pc # "idle" =>
             /\ op[s].pc # "idle" /\ (op'[s].under <=> op[s].under)
             /\ \A k \in Keys : clips[Conn(s)][k] \subseteq clips'[Conn(s)][k],
           \A i \in StageIds : InUse(i)' /\ stage[i].key \in Keys =>
             /\ stage'[i].outside => stage[i].outside \/ MarkedNow(i, "outside")
             /\ stage'[i].refused => stage[i].refused \/ MarkedNow(i, "refused"),
           \A s \in Scans : op'[s].pc \in Has =>
             \/ op[s].pc \in Has /\ op'[s].key = op[s].key /\ op'[s].cur = op[s].cur
             \/ KnownNow(Conn(s), op'[s].key, op'[s].cur, op[s].under),
           \A c \in Conns, k \in Keys : query'[c][k] # None =>
             \/ query'[c][k] = query[c][k]
             \/ \E s \in Scans : /\ Conn(s) = c /\ op[s].pc # "idle"
                                 /\ KnownNow(c, k, query'[c][k], op[s].under)
    PROVE  KnownOK'
<1>1. KnownOK /\ UnderOK /\ QueryOK /\ TypeOK
  BY DEF IInv
<1> SUFFICES ASSUME NEW s \in Scans, op'[s].pc # "idle"
             PROVE  /\ op'[s].pc \in Has =>
                         KnownNow(Conn(s), op'[s].key, op'[s].cur, op[s].under)
                    /\ \A k \in Keys : query'[Conn(s)][k] # None =>
                         KnownNow(Conn(s), k, query'[Conn(s)][k], op[s].under)
  <2>1. \A s \in Scans : op'[s].pc \in Has => op'[s].pc # "idle"
    BY DEF Has, Caches
  <2> QED
    BY <2>1 DEF KnownOK, Known, KnownNow, Conn
<1>2. /\ op[s].pc # "idle" /\ Conn(s) \in Conns /\ Db(s) = DbOf[Conn(s)]
      /\ \A k \in Keys : clips[Conn(s)][k] \subseteq clips'[Conn(s)][k]
  BY CallFacts
\* A stage that the query has, and keeps
<1>3. ASSUME NEW k \in Keys, NEW i \in StageIds, stage[i].key = k, InUse(i)',
             Conn(s) \in Given(i), Known(Conn(s), k, i, op[s].under)
      PROVE  KnownNow(Conn(s), k, i, op[s].under)
  BY <1>2, <1>3 DEF Known, KnownNow, MarkedNow
<1>4. ASSUME op'[s].pc \in Has
      PROVE  KnownNow(Conn(s), op'[s].key, op'[s].cur, op[s].under)
  <2>1. CASE op[s].pc \in Has /\ op'[s].key = op[s].key /\ op'[s].cur = op[s].cur
    <3>1. op[s].key \in Keys /\ op[s].cur \in StageIds /\ StageIs(op[s].cur, op[s].key, Db(s))
      BY <2>1, CallFacts DEF Caches, Has
    <3>2. PICK i \in StageIds : i = op[s].cur
      BY <3>1
    <3>3. InUse(i)'
      BY <2>1, <3>2, Uses
    <3>4. Conn(s) \in Given(i)
      BY <1>2, <3>2 DEF Given
    <3>5. Known(Conn(s), op[s].key, i, op[s].under) /\ stage[i].key = op[s].key
      BY <1>1, <2>1, <3>1, <3>2 DEF KnownOK, StageIs
    <3>6. KnownNow(Conn(s), op[s].key, i, op[s].under)
      BY <1>3, <3>1, <3>3, <3>4, <3>5
    <3> QED
      BY <2>1, <3>2, <3>6
  <2> QED
    BY <1>4, <2>1
<1>5. ASSUME NEW k \in Keys, query'[Conn(s)][k] # None
      PROVE  KnownNow(Conn(s), k, query'[Conn(s)][k], op[s].under)
  <2>1. CASE query'[Conn(s)][k] = query[Conn(s)][k]
    <3>1. StageIs(query[Conn(s)][k], k, Db(s))
      BY <1>1, <1>2, <1>5, <2>1 DEF QueryOK
    <3>2. PICK i \in StageIds : i = query[Conn(s)][k]
      BY <3>1 DEF StageIs
    <3>3. PICK c \in Conns : c = Conn(s)
      BY <1>2
    <3>4. InUse(query[c][k])'
      BY <1>5, <3>3 DEF Kept
    <3>5. InUse(i)'
      BY <2>1, <3>2, <3>3, <3>4 DEF InUse
    <3>6. c \in Given(i)
      BY <3>2, <3>3 DEF Given
    <3>7. Known(c, k, i, op[s].under) /\ stage[i].key = k
      BY <1>1, <1>2, <1>5, <2>1, <3>1, <3>2, <3>3 DEF KnownOK, StageIs
    <3>8. KnownNow(Conn(s), k, i, op[s].under)
      BY <1>3, <3>3, <3>5, <3>6, <3>7
    <3> QED
      BY <2>1, <3>2, <3>8
  <2>2. CASE \E t \in Scans : /\ Conn(t) = Conn(s) /\ op[t].pc # "idle"
                              /\ KnownNow(Conn(s), k, query'[Conn(s)][k], op[t].under)
    BY <1>1, <1>2, <2>2 DEF UnderOK, KnownNow
  <2> QED
    BY <1>2, <1>5, <2>1, <2>2
<1> QED
  BY <1>4, <1>5

\* Who opens a clip goes on using the stage
LEMMA ReadingKept ==
    ASSUME IInv, UNCHANGED reading, \A s \in Scans : op[s].pc = "using" /\ s \in reading =>
                                      op'[s].pc = "using"
    PROVE  ReadingOK'
BY DEF IInv, ReadingOK, TypeOK

\* Warned, after the step, and no warning is taken back
WarnedNow(c, k) == k \in WithErrors => warned'[c][k] > 0 \/ k \in quiet'[c]
Warns == \A c \in Conns, k \in Keys : Warned(c, k) => WarnedNow(c, k)

LEMMA NoHistoryWarns ==
    ASSUME NoHistory
    PROVE  Warns
BY DEF NoHistory, NoWarnings, Warns, Warned, WarnedNow

\* LogOpenWarnings takes back none, and warns of the call's key
LEMMA LogWarns ==
    ASSUME IInv, NEW s \in Scans, op[s].key \in Keys, LogOpenWarnings(s)
    PROVE  Warns /\ WarnedNow(Conn(s), op[s].key)
<1> DEFINE c == Conn(s)
           k == op[s].key
<1>1. c \in Conns /\ k \in Keys /\ op[s] \in OpType
  BY CallFacts
<1>2. warned \in [Conns -> [Keys -> 0 .. 2]] /\ quiet \in [Conns -> SUBSET Keys]
  BY DEF IInv, TypeOK
<1>3. warned[c][k] \in 0 .. 2
  BY <1>1, <1>2
<1>4. /\ warned' = IF op[s].warns /\ k \in WithErrors /\ warned[c][k] < 2
                   THEN [warned EXCEPT ![c][k] = @ + 1] ELSE warned
      /\ quiet' = IF op[s].warns \/ k \notin WithErrors THEN quiet
                  ELSE [quiet EXCEPT ![c] = @ \cup {k}]
  BY DEF LogOpenWarnings
<1> HIDE DEF c, k
<1>5. \A e \in Conns, l \in Keys :
        /\ warned'[e][l] = IF /\ e = c /\ l = k
                              /\ op[s].warns /\ k \in WithErrors /\ warned[c][k] < 2
                           THEN warned[c][k] + 1 ELSE warned[e][l]
        /\ quiet'[e] = IF e = c /\ ~(op[s].warns \/ k \notin WithErrors)
                       THEN quiet[c] \cup {k} ELSE quiet[e]
  BY <1>1, <1>2, <1>4
<1>6. Warns
  <2> SUFFICES ASSUME NEW e \in Conns, NEW l \in Keys, l \in WithErrors,
                      warned[e][l] > 0 \/ l \in quiet[e]
               PROVE  warned'[e][l] > 0 \/ l \in quiet'[e]
    BY DEF Warns, Warned, WarnedNow
  <2>1. warned[e][l] \in 0 .. 2
    BY <1>2
  <2>2. warned'[e][l] = warned[e][l]
        \/ (e = c /\ l = k /\ warned'[e][l] = warned[c][k] + 1)
    BY <1>5
  <2>3. quiet[e] \subseteq quiet'[e]
    BY <1>5
  <2> QED
    BY <2>1, <2>2, <2>3
<1>7. WarnedNow(c, k)
  <2>1. CASE op[s].warns /\ k \in WithErrors
    <3>1. CASE warned[c][k] < 2
      <4>1. warned'[c][k] = warned[c][k] + 1
        BY <1>1, <1>5, <2>1, <3>1
      <4> QED
        BY <1>3, <4>1 DEF WarnedNow
    <3>2. CASE ~(warned[c][k] < 2)
      <4>1. warned'[c][k] = warned[c][k]
        BY <1>1, <1>5, <3>2
      <4> QED
        BY <1>3, <3>2, <4>1 DEF WarnedNow
    <3> QED
      BY <3>1, <3>2
  <2>2. CASE ~op[s].warns /\ k \in WithErrors
    BY <1>1, <1>5, <2>2 DEF WarnedNow
  <2> QED
    BY <2>1, <2>2 DEF WarnedNow
<1> QED
  BY <1>6, <1>7 DEF c, k

\* Stages that scans and queries get have been warned of
LEMMA WarningsKept ==
    ASSUME IInv, Warns,
           \A s \in Scans : op'[s].pc \in Caches \cup {"using"} =>
             \/ op[s].pc \in Caches \cup {"using"} /\ op'[s].key = op[s].key
             \/ WarnedNow(Conn(s), op'[s].key),
           \A c \in Conns, k \in Keys : query'[c][k] # None =>
             query'[c][k] = query[c][k] \/ WarnedNow(c, k)
    PROVE  WarningsOK'
<1>1. WarningsOK
  BY DEF IInv
<1>2. \A s \in Scans : op'[s].pc \in Caches \cup {"using"} => WarnedNow(Conn(s), op'[s].key)
  <2> SUFFICES ASSUME NEW s \in Scans, op[s].pc \in Caches \cup {"using"}, op'[s].key = op[s].key
               PROVE  WarnedNow(Conn(s), op'[s].key)
    OBVIOUS
  <2>1. Conn(s) \in Conns /\ op[s].key \in Keys
    BY CallFacts DEF Caches
  <2> QED
    BY <1>1, <2>1 DEF WarningsOK, Warns
<1>3. \A c \in Conns, k \in Keys : query'[c][k] # None => WarnedNow(c, k)
  BY <1>1 DEF WarningsOK, Warns
<1> QED
  BY <1>2, <1>3 DEF WarningsOK, Warned, WarnedNow, Conn

\* While the settings are the same, only late calls and stages are added
LEMMA SettingKept ==
    ASSUME IInv, TypeOK', Kept, UNCHANGED <<session, global, setting>>,
           \A d \in Dbs, k \in Keys : cache'[d][k] # None =>
             \/ cache'[d][k] = cache[d][k]
             \/ \E s \in Scans : /\ Db(s) = d /\ Caching(s) /\ op'[s].pc = "add"
                                 /\ op'[s].late = op[s].late /\ op'[s].cur = cache'[d][k],
           \A s \in Scans : op[s].pc = "add" =>
             \/ /\ op'[s].pc = "add" /\ op'[s].cur = op[s].cur
                /\ op[s].late => op'[s].late
             \/ op[s].late => stage'[op[s].cur].late,
           \A s \in Scans : Caching(s)' =>
             \/ /\ Caching(s)
                /\ op[s].late => op'[s].late
             \/ Off(Db(s)) \/ Changing(Db(s)) => op'[s].late
    PROVE  SettingOK'
<1>1. SettingOK /\ TypeOK
  BY DEF IInv
<1> SUFFICES ASSUME NEW d \in Dbs, Off(d)' \/ Changing(d)'
             PROVE  /\ \A k \in Keys : cache'[d][k] # None =>
                         \/ stage'[cache'[d][k]].late
                         \/ \E s \in Scans : /\ op'[s].pc = "add" /\ op'[s].late
                                             /\ op'[s].cur = cache'[d][k]
                    /\ \A s \in Scans : Db(s) = d /\ Caching(s)' => op'[s].late
  BY DEF SettingOK, Db
<1>2. Off(d) \/ Changing(d)
  BY DEF Off, Changing, StageCacheEnabled
<1>3. /\ \A k \in Keys : cache[d][k] # None =>
           \/ stage[cache[d][k]].late
           \/ \E s \in Scans : op[s].pc = "add" /\ op[s].late /\ op[s].cur = cache[d][k]
      /\ \A s \in Scans : Db(s) = d /\ Caching(s) => op[s].late
  BY <1>1, <1>2 DEF SettingOK
<1>4. ASSUME NEW k \in Keys, cache'[d][k] # None
      PROVE  \/ stage'[cache'[d][k]].late
             \/ \E s \in Scans : op'[s].pc = "add" /\ op'[s].late /\ op'[s].cur = cache'[d][k]
  <2>1. PICK i \in StageIds : i = cache'[d][k]
    BY <1>4 DEF TypeOK
  <2>2. CASE i = cache[d][k]
    <3>1. i # None
      BY SharingAssumption
    <3>2. CASE stage[i].late
      <4>1. InUse(i)'
        BY <2>1, Uses
      <4>2. StageIs(i, k, d)
        BY <2>2, <3>1 DEF IInv, CacheOK
      <4>3. stage'[i].late
        BY <3>2, <4>1, <4>2, StillIs
      <4> QED
        BY <2>1, <4>3
    <3>3. CASE \E s \in Scans : op[s].pc = "add" /\ op[s].late /\ op[s].cur = i
      <4>1. PICK s \in Scans : op[s].pc = "add" /\ op[s].late /\ op[s].cur = i
        BY <3>3
      <4>2. \/ op'[s].pc = "add" /\ op'[s].cur = i /\ op'[s].late
            \/ stage'[i].late
        BY <4>1
      <4> QED
        BY <2>1, <4>2
    <3> QED
      BY <1>3, <2>2, <3>1, <3>2, <3>3
  <2>3. CASE \E s \in Scans : /\ Db(s) = d /\ Caching(s) /\ op'[s].pc = "add"
                              /\ op'[s].late = op[s].late /\ op'[s].cur = cache'[d][k]
    BY <1>3, <2>3
  <2> QED
    BY <1>4, <2>1, <2>2, <2>3
<1>5. ASSUME NEW s \in Scans, Db(s) = d, Caching(s)' PROVE op'[s].late
  BY <1>2, <1>3, <1>5
<1> QED
  BY <1>4, <1>5

-----------------------------------------------------------------------------
(* Which changes keep the parts of the invariant: room in the cache *)

\* The stages of a cache, and their memory
LEMMA CachedFacts ==
    ASSUME IInv, NEW d \in Dbs
    PROVE  /\ Cached(d) \in SUBSET StageIds
           /\ \A i \in Cached(d) :
                stage[i].key \in Keys /\ stage[i].db = d /\ cache[d][stage[i].key] = i
           /\ BytesOf(Cached(d)) = Memory(stage, Cached(d)) /\ BytesOf(Cached(d)) \in Nat
           /\ CachedBytes(d) = BytesOf(Cached(d))
<1>1. cache \in [Dbs -> [Keys -> StageIds \cup {None}]] /\ CacheOK
  BY DEF IInv, TypeOK
<1>2. Cached(d) \in SUBSET StageIds
  BY <1>1 DEF Cached
<1>3. \A i \in Cached(d) : stage[i].key \in Keys /\ stage[i].db = d /\ cache[d][stage[i].key] = i
  BY <1>1 DEF Cached, CacheOK, StageIs
<1>4. BytesOf(Cached(d)) = Memory(stage, Cached(d))
  BY BytesAreMemory
<1>5. Memory(stage, Cached(d)) \in Nat
  BY <1>2, <1>3, MemoryType
<1>6. Range(cache[d]) \ {None} = Cached(d)
  BY <1>1 DEF Cached, Range
<1> QED
  BY <1>2, <1>3, <1>4, <1>5, <1>6 DEF CachedBytes

\* A cache that does not change takes what it took
LEMMA CachedSame ==
    ASSUME IInv, TypeOK', Kept, NEW d \in Dbs, \A k \in Keys : cache'[d][k] = cache[d][k]
    PROVE  /\ Cached(d)' = Cached(d) /\ BytesOf(Cached(d))' = BytesOf(Cached(d))
           /\ BytesOf(Cached(d)) \in Nat
<1>1. Cached(d)' = Cached(d)
  BY DEF Cached
<1>2. /\ Cached(d) \in SUBSET StageIds
      /\ \A i \in Cached(d) : stage[i].key \in Keys /\ cache[d][stage[i].key] = i
      /\ BytesOf(Cached(d)) = Memory(stage, Cached(d)) /\ BytesOf(Cached(d)) \in Nat
  BY CachedFacts
<1>3. \A i \in Cached(d) : stage[i].key \in Keys /\ stage'[i].key = stage[i].key
  <2> SUFFICES ASSUME NEW i \in Cached(d) PROVE stage'[i].key = stage[i].key
    BY <1>2
  <2>1. i \in StageIds /\ stage[i].key \in Keys /\ cache'[d][stage[i].key] = i
    BY <1>2
  <2>2. InUse(i)'
    BY <2>1, Uses
  <2> QED
    BY <2>1, <2>2 DEF Kept
<1>4. Memory(stage', Cached(d)) = Memory(stage, Cached(d))
  BY <1>2, <1>3, MemorySame
<1>5. BytesOf(Cached(d))' = Memory(stage', Cached(d))
  BY <1>1 DEF BytesOf, Memory
<1> QED
  BY <1>1, <1>2, <1>4, <1>5

\* What a waiting call knows stays true, or it was disturbed
LEMMA WaitingRoom ==
    ASSUME IInv, TypeOK', Kept, NEW t \in Scans, Waits(t),
           op[t].pc \in {"sort", "evict", "put"} =>
             \/ op'[t].disturbed
             \/ /\ ~op[t].disturbed /\ used'[Db(t)] <= used[Db(t)]
                /\ \A k \in Keys : cache'[Db(t)][k] = cache[Db(t)][k],
           op[t].pc = "evict" /\ op'[t].touched = {} =>
             /\ op[t].touched = {}
             /\ \A i, j \in Listed(op[t]) : <<i, j>> \in last_used => <<i, j>> \in last_used'
    PROVE  RoomOK(t)'
<1> DEFINE d == Db(t)
<1>1. /\ RoomOK(t) /\ CallOK(t) /\ op[t] \in OpType /\ d \in Dbs /\ d' = d
  BY CallFacts DEF IInv, Db
<1>2. Listed(op'[t]) = Listed(op[t])
  BY DEF Waits, Listed
<1>3. ASSUME op'[t].pc \in {"sort", "evict", "put"}, ~op'[t].disturbed
      PROVE  /\ ~op[t].disturbed /\ used'[d] <= used[d]
             /\ Cached(d)' = Cached(d) /\ BytesOf(Cached(d))' = BytesOf(Cached(d))
             /\ BytesOf(Cached(d)) \in Nat
  <2>1. /\ ~op[t].disturbed /\ used'[d] <= used[d]
        /\ \A k \in Keys : cache'[d][k] = cache[d][k]
    BY <1>3 DEF Waits
  <2> HIDE DEF d
  <2> QED
    BY <1>1, <2>1, CachedSame
<1>4. op'[t].pc \in {"sort", "evict"} /\ ~op'[t].disturbed => Cached(d)' = Listed(op'[t])
  BY <1>1, <1>2, <1>3 DEF RoomOK, Waits
<1>5. ASSUME op'[t].pc = "put", ~op'[t].disturbed
      PROVE  /\ BytesOf(Cached(d))' + Bytes[op'[t].key] <= Half(d)
             /\ used'[d] + BytesOf(Cached(d))' + Bytes[op'[t].key] <= Limit[d]
  <2>1. op[t].pc = "put" /\ op[t].key \in Keys /\ op'[t].key = op[t].key
    BY <1>1, <1>5 DEF Waits, CallOK, Calls, Caches, Has
  <2>2. /\ BytesOf(Cached(d)) + Bytes[op[t].key] <= Half(d)
        /\ used[d] + BytesOf(Cached(d)) + Bytes[op[t].key] <= Limit[d]
    BY <1>1, <1>3, <1>5, <2>1 DEF RoomOK
  <2>3. used[d] \in Nat /\ used'[d] \in Nat /\ Bytes[op[t].key] \in Nat /\ Limit[d] \in Nat
    BY <1>1, <2>1, SharingAssumption DEF IInv, TypeOK
  <2> HIDE DEF d
  <2> QED
    BY <1>3, <1>5, <2>1, <2>2, <2>3
<1>6. ASSUME op'[t].pc = "evict", op'[t].touched = {},
             NEW m \in DOMAIN op'[t].order, NEW n \in DOMAIN op'[t].order, m < n
      PROVE  <<op'[t].order[m], op'[t].order[n]>> \in last_used'
  <2>1. op[t].pc = "evict" /\ op[t].touched = {} /\ op'[t].order = op[t].order
    BY <1>6 DEF Waits
  <2>2. <<op[t].order[m], op[t].order[n]>> \in last_used
    BY <1>1, <1>6, <2>1 DEF RoomOK
  <2>3. op[t].order[m] \in Listed(op[t]) /\ op[t].order[n] \in Listed(op[t])
    BY <1>6, <2>1 DEF Listed, Range
  <2> QED
    BY <1>6, <2>1, <2>2, <2>3
<1>7. Half(d)' = Half(d) /\ Limit[d]' = Limit[d]
  BY DEF Half, Db
<1> QED
  BY <1>1, <1>4, <1>5, <1>6, <1>7 DEF RoomOK, Db, Half

\* A call that caches nothing
LEMMA NotCaching ==
    ASSUME NEW s \in Scans, op'[s].pc \notin Caches
    PROVE  UnseenOK(s)' /\ RoomOK(s)'
BY DEF UnseenOK, RoomOK, Caches, Unseen

\* The order of the stages a waiting call lists
LEMMA OrderKept ==
    ASSUME IInv, NEW t \in Scans, Waits(t), NEW use, UseFrom(use),
           \A i, j \in Listed(op[t]) : <<i, j>> \in last_used => <<i, j>> \in use
    PROVE  \A i, j \in Listed(op[t]) : <<i, j>> \in last_used => <<i, j>> \in last_used'
<1>1. CallOK(t) /\ registry \subseteq StageIds
  BY CallFacts DEF IInv, TypeOK
<1>2. Listed(op'[t]) = Listed(op[t])
  BY DEF Waits, Listed
<1>3. \A i \in Listed(op[t]) : i \in Entries(cache', op')
  BY <1>1, <1>2, Uses DEF CallOK
<1> QED
  BY <1>3 DEF UseFrom

\* All calls but that of s wait, and keep their part of the invariant
Others(s) ==
    \A t \in Scans \ {s} :
        CallOK(t)' /\ RoomOK(t)' /\ Waits(t) /\ op'[t].late = op[t].late

\* What a step of s alone means for them
LEMMA AloneOthers ==
    ASSUME IInv, TypeOK', Kept, NEW s \in Scans, Alone(s), UNCHANGED cache, used' = used,
           UseFrom(last_used)
    PROVE  Others(s)
<1> SUFFICES ASSUME NEW t \in Scans \ {s}
             PROVE  CallOK(t)' /\ RoomOK(t)' /\ Waits(t) /\ op'[t].late = op[t].late
  BY DEF Others
<1>1. op'[t] = op[t] /\ Waits(t)
  BY DEF Alone, Waits
<1>2. CallOK(t)'
  BY <1>1, WaitingCall
<1>3. \A i, j \in Listed(op[t]) : <<i, j>> \in last_used => <<i, j>> \in last_used'
  BY <1>1, OrderKept
<1>4. Db(t) \in Dbs /\ op[t] \in OpType /\ used \in [Dbs -> Nat]
  BY CallFacts DEF IInv, TypeOK
<1>5. used'[Db(t)] <= used[Db(t)]
  BY <1>4
<1>6. RoomOK(t)'
  BY <1>1, <1>3, <1>5, WaitingRoom
<1> QED
  BY <1>1, <1>2, <1>6

\* What a step of s that others notice means for them: x is what it touches
LEMMA DisturbedOthers ==
    ASSUME IInv, TypeOK', Kept, NEW s \in Scans, used' = used,
           NEW o \in OpType, NEW touch \in SUBSET StageIds, BecomesAndDisturbs(s, o, touch),
           \A d \in Dbs, k \in Keys : d # Db(s) => cache'[d][k] = cache[d][k],
           NEW use, UseFrom(use), NEW x \in StageIds,
           \A m, n \in StageIds : m # x /\ n # x /\ <<m, n>> \in last_used => <<m, n>> \in use,
           x \in registry => use = last_used \/ (x \in touch /\ stage[x].db = Db(s))
    PROVE  Others(s)
<1> SUFFICES ASSUME NEW t \in Scans \ {s}
             PROVE  CallOK(t)' /\ RoomOK(t)' /\ Waits(t) /\ op'[t].late = op[t].late
  BY DEF Others
<1> DEFINE hears == op[t].pc \in {"sort", "evict", "put"} /\ Db(t) = Db(s)
<1>1. /\ op \in [Scans -> OpType] /\ CallOK(t) /\ Db(t) \in Dbs /\ used \in [Dbs -> Nat]
      /\ op[t] \in OpType
  BY CallFacts DEF IInv, TypeOK
<1>2. /\ Waits(t) /\ op'[t].late = op[t].late
      /\ IF hears THEN /\ op'[t].disturbed
                       /\ op'[t].touched = op[t].touched \cup (touch \cap Held(op[t]))
         ELSE op'[t] = op[t]
  BY <1>1, DisturbsType
<1>3. CallOK(t)'
  BY <1>2, WaitingCall
<1>4. op[t].pc \in {"sort", "evict", "put"} =>
        \/ op'[t].disturbed
        \/ /\ ~op[t].disturbed /\ used'[Db(t)] <= used[Db(t)]
           /\ \A k \in Keys : cache'[Db(t)][k] = cache[Db(t)][k]
  <2>1. CASE hears
    BY <1>2, <2>1
  <2>2. CASE ~hears
    <3>1. used'[Db(t)] <= used[Db(t)]
      BY <1>1
    <3>2. op[t].pc \in {"sort", "evict", "put"} => Db(t) # Db(s)
      BY <2>2
    <3> QED
      BY <1>1, <1>2, <2>2, <3>1, <3>2
  <2> QED
    BY <2>1, <2>2
<1>5. ASSUME op[t].pc = "evict", op'[t].touched = {}
      PROVE  /\ op[t].touched = {}
             /\ \A i, j \in Listed(op[t]) : <<i, j>> \in last_used => <<i, j>> \in last_used'
  <2>1. op[t].touched = {}
    BY <1>2, <1>5
  <2>2. \A i \in Listed(op[t]) : i \in StageIds /\ i \in registry /\ stage[i].db = Db(t)
    BY <1>1 DEF CallOK, IInv, TypeOK
  <2>3. x \in Listed(op[t]) => use = last_used
    <3> SUFFICES ASSUME x \in Listed(op[t]), use # last_used PROVE FALSE
      OBVIOUS
    <3>1. x \in touch /\ hears
      BY <1>5, <2>2
    <3>2. x \in Held(op[t])
      BY DEF Listed, Held
    <3> QED
      BY <1>2, <1>5, <3>1, <3>2
  <2>4. \A i, j \in Listed(op[t]) : <<i, j>> \in last_used => <<i, j>> \in use
    BY <2>2, <2>3
  <2>5. \A i, j \in Listed(op[t]) : <<i, j>> \in last_used => <<i, j>> \in last_used'
    BY <1>2, <2>4, OrderKept
  <2> QED
    BY <2>1, <2>5
<1>6. RoomOK(t)'
  BY <1>2, <1>4, <1>5, WaitingRoom
<1> QED
  BY <1>2, <1>3, <1>6

\* The parts of the invariant, together
LEMMA Together ==
    ASSUME TypeOK', Kept, CacheOK', QueryOK', UnderOK', KnownOK', ReadingOK',
           WarningsOK', SettingOK',
           \A s \in Scans : CallOK(s)' /\ UnseenOK(s)' /\ RoomOK(s)'
    PROVE  IInv'
<1>1. RegistryOK'
  BY Registered
<1> QED
  BY <1>1 DEF IInv

-----------------------------------------------------------------------------
(* Every action keeps the invariant *)

\* The stages of the other calls remain their own
LEMMA OthersUnseen ==
    ASSUME IInv, TypeOK', Kept, NEW s \in Scans, Others(s),
           NEW x, CallsGet(x), CachesGet(x), QueriesGet(x),
           \A t \in Scans \ {s} : op[t].pc \in Unseen => op[t].cur # x,
           \A t \in Scans \ {s} : op[t].pc \in Caches =>
             /\ stage'[op[t].cur].late = stage[op[t].cur].late
             /\ op[t].cur \notin registry' \ registry,
           op'[s].pc \in Caches =>
             \/ op[s].pc \in Caches /\ op'[s].cur = op[s].cur
             \/ \A t \in Scans \ {s} : op[t].pc \in Caches => op'[s].cur # op[t].cur
    PROVE  \A t \in Scans \ {s} : UnseenOK(t)'
<1> SUFFICES ASSUME NEW t \in Scans \ {s} PROVE UnseenOK(t)'
  OBVIOUS
<1>1. \A u \in Scans \ {s} : op'[u].pc = op[u].pc /\ op'[u].cur = op[u].cur
  BY DEF Others, Waits
<1>2. op'[t].pc \in Caches => \A u \in Scans \ {t} : op'[u].pc \in Caches =>
        (op[u].pc \in Caches /\ op'[u].cur = op[u].cur) \/ op'[u].cur # op[t].cur
  BY <1>1
<1> QED
  BY <1>1, <1>2, StillUnseen

\* The stage of a call stays as it is when a step changes none
LEMMA CurSame ==
    ASSUME IInv, Kept, StagesSame, NEW t \in Scans, op[t].pc \in Has,
           op'[t].cur = op[t].cur
    PROVE  stage'[op[t].cur] = stage[op[t].cur]
<1>1. PICK i \in StageIds : i = op[t].cur
  BY CallFacts DEF Caches, Has
<1>2. InUse(i)'
  BY <1>1, Uses
<1> QED
  BY <1>1, <1>2 DEF StagesSame

\* BeginScan
LEMMA BeginScanKeeps ==
    ASSUME IInv, NEW s \in Scans, NEW k \in Keys, NEW w \in BOOLEAN, BeginScan(s, k, w)
    PROVE  IInv'
<1>1. /\ Quietly(last_used, query) /\ Alone(s) /\ NoHistory
      /\ UNCHANGED cache /\ UNCHANGED Settings
      /\ op[s].pc = "idle" /\ k \in KeysOf[Conn(s)]
      /\ op'[s].key = k /\ op'[s].snap = {} /\ op'[s].order = <<>> /\ ~op'[s].caching
      /\ op'[s].under <=>
           \/ QueryIdle(Conn(s)) /\ Db(s) \in restricted
           \/ \E t \in Scans : Conn(t) = Conn(s) /\ op[t].pc # "idle" /\ op[t].under
      /\ \/ op'[s].pc = "using" /\ op'[s].cur = query[Conn(s)][k] /\ query[Conn(s)][k] # None
         \/ op'[s].pc = "lookup" /\ op'[s].cur = None
  BY BeginScanFacts DEF IInv
<1>2. /\ TypeOK' /\ Kept /\ StagesSame /\ registry' \subseteq registry
      /\ UseFrom(last_used) /\ QueryFrom(query)
  BY <1>1 DEF Quietly
<1>3. /\ TypeOK /\ QueryOK /\ UnderOK /\ KnownOK /\ WarningsOK /\ Conn(s) \in Conns
      /\ Db(s) = DbOf[Conn(s)] /\ \A t \in Scans : CallOK(t) /\ UnseenOK(t)
  BY CallFacts DEF IInv
<1>4. used' = used /\ session' = session /\ global' = global /\ setting' = setting
      /\ restricted' = restricted
  BY <1>1 DEF Settings
<1>5. Others(s)
  BY <1>1, <1>2, <1>4, AloneOthers
<1>6. op[s].cur = None
  BY <1>1, <1>3 DEF CallOK
<1>7. op'[s].pc \notin Caches
  BY <1>1 DEF Caches, Has
<1> DEFINE c == Conn(s)
<1>8. op'[s].pc = "using" =>
        /\ op'[s].cur \in StageIds /\ StageIs(op'[s].cur, k, Db(s))
        /\ stage'[op'[s].cur] = stage[op'[s].cur]
  <2> SUFFICES ASSUME op'[s].pc = "using"
               PROVE  /\ op'[s].cur \in StageIds /\ StageIs(op'[s].cur, k, Db(s))
                      /\ stage'[op'[s].cur] = stage[op'[s].cur]
    OBVIOUS
  <2>1. query[c][k] # None /\ op'[s].cur = query[c][k]
    BY <1>1
  <2>2. StageIs(query[c][k], k, Db(s))
    BY <1>3, <2>1 DEF QueryOK
  <2>3. PICK i \in StageIds : i = op'[s].cur
    BY <2>1, <2>2 DEF StageIs
  <2>4. InUse(i)'
    BY <2>3, Uses
  <2> QED
    BY <1>2, <2>1, <2>2, <2>3, <2>4 DEF StagesSame
<1>9. CallOK(s)'
  <2>1. op'[s].pc \in Has =>
          op'[s].cur \in StageIds /\ stage'[op'[s].cur].key = op'[s].key
          /\ stage'[op'[s].cur].db = Db(s)
    BY <1>1, <1>7, <1>8 DEF StageIs, Has, Caches
  <2> QED
    BY <1>1, <1>7, <2>1, PlainCall
<1>10. UnseenOK(s)' /\ RoomOK(s)'
  BY <1>7, NotCaching
<1>11. \A t \in Scans \ {s} : UnseenOK(t)'
  <2>1. PICK x : x = op'[s].cur
    OBVIOUS
  <2>2. CallsGet(x) /\ CachesGet(x) /\ QueriesGet(x)
    BY <1>1, <1>2, <2>1 DEF Alone, CallsGet, CachesGet, QueriesGet, QueryFrom
  <2>3. \A t \in Scans \ {s} : op[t].pc \in Unseen => op[t].cur # x
    <3> SUFFICES ASSUME NEW t \in Scans \ {s}, op[t].pc \in Unseen PROVE op[t].cur # x
      OBVIOUS
    <3>1. op[t].cur # None
      BY CallFacts, SharingAssumption DEF Unseen
    <3>2. query[c][k] # op[t].cur
      BY <1>3 DEF UnseenOK
    <3> QED
      BY <1>1, <2>1, <3>1, <3>2
  <2>4. \A t \in Scans \ {s} : op[t].pc \in Caches =>
          /\ stage'[op[t].cur].late = stage[op[t].cur].late
          /\ op[t].cur \notin registry' \ registry
    BY <1>1, <1>2, CurSame DEF Alone, Has
  <2> QED
    BY <1>2, <1>5, <1>7, <2>2, <2>3, <2>4, OthersUnseen
<1>12. CacheOK'
  <2>1. CachesGet(None)
    BY <1>1 DEF CachesGet
  <2>2. \A t \in Scans : op[t].pc = "add" => op'[t].pc = "add" /\ op'[t].cur = op[t].cur
    BY <1>1 DEF Alone
  <2> QED
    BY <1>2, <2>1, <2>2, CacheKept
<1>13. QueryOK'
  BY <1>2, QueryKept
<1>14. \A t \in Scans : Conn(t) = c /\ op[t].pc # "idle" => (op'[s].under <=> op[t].under)
  <2> SUFFICES ASSUME NEW t \in Scans, Conn(t) = c, op[t].pc # "idle"
               PROVE  op'[s].under <=> op[t].under
    OBVIOUS
  <2>1. ~QueryIdle(c)
    BY DEF QueryIdle
  <2> QED
    BY <1>1, <1>3, <2>1 DEF UnderOK
<1>15. op'[s].under => Db(s) \in restricted
  <2>1. \A t \in Scans : Conn(t) = c => Db(t) = Db(s)
    BY DEF Db, Conn
  <2> QED
    BY <1>1, <1>3, <2>1 DEF UnderOK
<1>16. UnderOK'
  <2>1. \A t \in Scans : op'[t].under => Db(t)' \in restricted'
    BY <1>1, <1>3, <1>4, <1>15 DEF Alone, UnderOK, Db
  <2>2. \A t, u \in Scans : Conn(t)' = Conn(u)' /\ op'[t].pc # "idle" /\ op'[u].pc # "idle" =>
          (op'[t].under <=> op'[u].under)
    <3>1. \A t \in Scans : Conn(t)' = Conn(t)
      BY DEF Conn
    <3>2. \A t, u \in Scans \ {s} : Conn(t) = Conn(u) /\ op[t].pc # "idle" /\ op[u].pc # "idle" =>
            (op[t].under <=> op[u].under)
      BY <1>3 DEF UnderOK
    <3> QED
      BY <1>1, <1>14, <3>1, <3>2 DEF Alone
  <2>3. \A e \in Conns, l \in Keys : QueryIdle(e)' => query'[e][l] = None
    <3> SUFFICES ASSUME NEW e \in Conns, NEW l \in Keys, QueryIdle(e)' PROVE query'[e][l] = None
      OBVIOUS
    <3>1. e # c
      BY <1>1 DEF QueryIdle, Conn
    <3>2. QueryIdle(e)
      BY <1>1, <3>1 DEF QueryIdle, Alone, Conn
    <3> QED
      BY <1>2, <1>3, <3>2 DEF UnderOK, QueryFrom
  <2> QED
    BY <2>1, <2>2, <2>3 DEF UnderOK
<1>17. \A e \in Conns, l \in Keys : query'[e][l] # None =>
         query'[e][l] = query[e][l] /\ stage'[query'[e][l]] = stage[query[e][l]]
  <2> SUFFICES ASSUME NEW e \in Conns, NEW l \in Keys, query'[e][l] # None
               PROVE  query'[e][l] = query[e][l] /\ stage'[query'[e][l]] = stage[query[e][l]]
    OBVIOUS
  <2>1. query'[e][l] = query[e][l] /\ InUse(query[e][l])'
    BY <1>2 DEF QueryFrom, Kept
  <2>2. PICK i \in StageIds : i = query'[e][l]
    BY <1>3, <2>1 DEF QueryOK, StageIs
  <2>3. InUse(i)'
    BY <2>1, <2>2 DEF InUse
  <2> QED
    BY <1>2, <2>1, <2>2, <2>3 DEF StagesSame
<1>18. KnownOK'
  <2>1. \A e, l : clips'[e][l] = clips[e][l]
    BY <1>1 DEF NoHistory, NoClips
  <2> SUFFICES ASSUME NEW t \in Scans, op'[t].pc # "idle"
               PROVE  /\ op'[t].pc \in Has =>
                           KnownNow(Conn(t), op'[t].key, op'[t].cur, op'[t].under)
                      /\ \A l \in Keys : query'[Conn(t)][l] # None =>
                           KnownNow(Conn(t), l, query'[Conn(t)][l], op'[t].under)
    <3>1. \A t \in Scans : op'[t].pc \in Has => op'[t].pc # "idle"
      BY DEF Has, Caches
    <3> QED
      BY <3>1 DEF KnownOK, Known, KnownNow, Conn
  <2>2. CASE t # s
    <3>1. op'[t] = op[t] /\ Conn(t) \in Conns
      BY <1>1, <2>2, CallFacts DEF Alone
    <3>2. op[t].pc \in Has => stage'[op[t].cur] = stage[op[t].cur]
      BY <1>2, <3>1, CurSame
    <3> QED
      BY <1>3, <1>17, <2>1, <3>1, <3>2 DEF KnownOK, Known, KnownNow
  <2>3. CASE t = s
    <3>1. \A l \in Keys : query[c][l] # None => Known(c, l, query[c][l], op'[s].under)
      <4> SUFFICES ASSUME NEW l \in Keys, query[c][l] # None
                   PROVE  Known(c, l, query[c][l], op'[s].under)
        OBVIOUS
      <4>1. PICK u \in Scans : Conn(u) = c /\ op[u].pc # "idle"
        BY <1>3 DEF UnderOK, QueryIdle
      <4> QED
        BY <1>3, <1>14, <4>1 DEF KnownOK, Known
    <3>2. \A l \in Keys : query'[c][l] # None => KnownNow(c, l, query'[c][l], op'[s].under)
      BY <1>3, <1>17, <2>1, <3>1 DEF Known, KnownNow
    <3>3. op'[s].pc \in Has => KnownNow(c, k, op'[s].cur, op'[s].under)
      <4>1. op'[s].pc \in Has => op'[s].pc = "using"
        BY <1>1 DEF Has, Caches
      <4>2. k \in Keys
        OBVIOUS
      <4> QED
        BY <1>1, <1>8, <2>1, <3>1, <4>1, <4>2 DEF Known, KnownNow
    <3> QED
      BY <1>1, <2>3, <3>2, <3>3
  <2> QED
    BY <2>2, <2>3
<1>19. WarningsOK'
  <2>1. Warns
    BY <1>1, NoHistoryWarns
  <2>2. op'[s].pc = "using" => WarnedNow(c, k)
    BY <1>1, <1>3, <2>1 DEF WarningsOK, Warns
  <2> QED
    BY <1>1, <1>2, <1>7, <2>1, <2>2, WarningsKept DEF Alone, QueryFrom
<1>21. ReadingOK'
  <2>1. \A t \in Scans : op[t].pc = "using" => op'[t].pc = "using"
    BY <1>1 DEF Alone
  <2> QED
    BY <1>1, <2>1, ReadingKept DEF NoHistory, NoClips
<1>20. SettingOK'
  <2>1. \A t \in Scans : Caching(t)' => Caching(t) /\ op'[t].late = op[t].late
    BY <1>1 DEF Caching, Alone
  <2>2. \A t \in Scans : op[t].pc = "add" =>
          op'[t].pc = "add" /\ op'[t].cur = op[t].cur /\ op'[t].late = op[t].late
    BY <1>1 DEF Alone
  <2> QED
    BY <1>1, <1>2, <1>4, <2>1, <2>2, SettingKept
<1> QED
  BY <1>2, <1>5, <1>9, <1>10, <1>11, <1>12, <1>13, <1>16, <1>18, <1>19, <1>20, <1>21,
     Together DEF Others

\* A step of one call that changes no stage, no cache and no setting, where the call may
\* get stage x
LEMMA QuietGets ==
    ASSUME IInv, Quietly(last_used, query), NEW s \in Scans, Alone(s), NoHistory,
           UNCHANGED cache, UNCHANGED Settings,
           op'[s].under = op[s].under,
           op[s].pc \notin {"idle", "add"}, op'[s].pc \notin {"idle", "add"},
           op[s].pc = "using" => s \notin reading \/ op'[s].pc = "using",
           NEW x, \A t \in Scans : op[t].pc \in Unseen => op[t].cur # x,
           CallOK(s)', RoomOK(s)', op'[s].cur \in {op[s].cur, None, x},
           op'[s].pc \in Has =>
             \/ op[s].pc \in Has /\ op'[s].key = op[s].key /\ op'[s].cur = op[s].cur
             \/ KnownNow(Conn(s), op'[s].key, op'[s].cur, op[s].under),
           op'[s].pc \in Caches \cup {"using"} =>
             op[s].pc \in Caches \cup {"using"} /\ op'[s].key = op[s].key,
           op'[s].pc \in Caches => op[s].pc \in Caches /\ op'[s].cur = op[s].cur,
           op'[s].pc \in Unseen => op[s].pc \in Unseen,
           Caching(s)' =>
             \/ /\ Caching(s)
                /\ op[s].late => op'[s].late
             \/ Off(Db(s)) \/ Changing(Db(s)) => op'[s].late
    PROVE  IInv'
<1>1. /\ TypeOK' /\ Kept /\ StagesSame /\ registry' \subseteq registry
      /\ UseFrom(last_used) /\ QueryFrom(query)
  BY DEF Quietly
<1>2. used' = used /\ session' = session /\ global' = global /\ setting' = setting
      /\ restricted' = restricted
  BY DEF Settings
<1>3. Others(s)
  BY <1>1, <1>2, AloneOthers
<1>4. CallsGet(x) /\ CachesGet(x) /\ CachesGet(None)
  BY DEF Alone, CallsGet, CachesGet
<1>5. QueryOK' /\ QueriesGet(x) /\ QueriesGet(None)
  BY <1>1, QueryKept DEF QueriesGet
<1>6. \A t \in Scans : op'[t].pc \in Caches =>
        /\ op[t].pc \in Caches /\ op'[t].cur = op[t].cur
        /\ stage'[op[t].cur] = stage[op[t].cur]
  BY <1>1, CurSame DEF Alone, Has
<1>7. \A t \in Scans : UnseenOK(t)'
  <2> SUFFICES ASSUME NEW t \in Scans PROVE UnseenOK(t)'
    OBVIOUS
  <2>1. CASE op'[t].pc \notin Caches
    BY <2>1, NotCaching
  <2>2. CASE op'[t].pc \in Caches
    <3>1. op'[t].cur = op[t].cur /\ stage'[op[t].cur].late = stage[op[t].cur].late
      BY <1>6, <2>2
    <3>2. op[t].cur \notin registry' \ registry
      BY <1>1
    <3>3. \A u \in Scans \ {t} : op'[u].pc \in Caches =>
            (op[u].pc \in Caches /\ op'[u].cur = op[u].cur) \/ op'[u].cur # op[t].cur
      BY <1>6
    <3>4. op[t].pc \in Unseen => op[t].cur # x
      OBVIOUS
    <3>5. /\ op'[t].pc \in Caches => op[t].pc \in Caches
          /\ op'[t].pc \in Unseen => op[t].pc \in Unseen
      BY DEF Alone
    <3> QED
      BY <1>1, <1>4, <1>5, <3>1, <3>2, <3>3, <3>4, <3>5, StillUnseen
  <2> QED
    BY <2>1, <2>2
<1>8. CacheOK'
  <2>1. \A t \in Scans : op[t].pc = "add" => op'[t].pc = "add" /\ op'[t].cur = op[t].cur
    BY DEF Alone
  <2> QED
    BY <1>1, <1>4, <2>1, SharingAssumption, CacheKept
<1>9. UnderOK'
  <2>1. \A t \in Scans :
          op'[t].under = op[t].under /\ (op'[t].pc = "idle" <=> op[t].pc = "idle")
    BY DEF Alone
  <2>2. \A c \in Conns, k \in Keys : query'[c][k] \in {query[c][k], None}
    BY <1>5 DEF QueriesGet
  <2> QED
    BY <1>2, <2>1, <2>2, UnderKept
<1>10. KnownOK'
  <2>1. \A t \in Scans : op'[t].pc # "idle" =>
          /\ op[t].pc # "idle" /\ (op'[t].under <=> op[t].under)
          /\ \A k \in Keys : clips[Conn(t)][k] \subseteq clips'[Conn(t)][k]
    BY DEF Alone, NoHistory, NoClips
  <2>2. \A i \in StageIds : InUse(i)' =>
          /\ stage'[i].outside => stage[i].outside
          /\ stage'[i].refused => stage[i].refused
    BY <1>1 DEF StagesSame
  <2>3. \A t \in Scans : op'[t].pc \in Has =>
          \/ op[t].pc \in Has /\ op'[t].key = op[t].key /\ op'[t].cur = op[t].cur
          \/ KnownNow(Conn(t), op'[t].key, op'[t].cur, op[t].under)
    BY DEF Alone
  <2>4. \A c \in Conns, k \in Keys : query'[c][k] # None => query'[c][k] = query[c][k]
    BY <1>1 DEF QueryFrom
  <2> QED
    BY <1>1, <2>1, <2>2, <2>3, <2>4, KnownKept
<1>11. WarningsOK'
  <2>1. Warns
    BY NoHistoryWarns
  <2>2. \A t \in Scans : op'[t].pc \in Caches \cup {"using"} =>
          op[t].pc \in Caches \cup {"using"} /\ op'[t].key = op[t].key
    BY DEF Alone
  <2>3. \A c \in Conns, k \in Keys : query'[c][k] # None => query'[c][k] = query[c][k]
    BY <1>1 DEF QueryFrom
  <2> QED
    BY <2>1, <2>2, <2>3, WarningsKept
<1>12. SettingOK'
  <2>1. \A t \in Scans : Caching(t)' =>
          \/ /\ Caching(t)
             /\ op[t].late => op'[t].late
          \/ Off(Db(t)) \/ Changing(Db(t)) => op'[t].late
    BY DEF Caching, Alone
  <2>2. \A t \in Scans : op[t].pc = "add" =>
          op'[t].pc = "add" /\ op'[t].cur = op[t].cur /\ op'[t].late = op[t].late
    BY DEF Alone
  <2> QED
    BY <1>1, <1>2, <2>1, <2>2, SettingKept
<1>13. \A t \in Scans : CallOK(t)' /\ RoomOK(t)'
  BY <1>3 DEF Others
<1>14. ReadingOK'
  <2>1. \A t \in Scans : op[t].pc = "using" /\ t \in reading => op'[t].pc = "using"
    BY DEF Alone
  <2> QED
    BY <2>1, ReadingKept DEF NoHistory, NoClips
<1> QED
  BY <1>1, <1>5, <1>7, <1>8, <1>9, <1>10, <1>11, <1>12, <1>13, <1>14, Together

\* The same, where the call gets no stage
LEMMA QuietKeeps ==
    ASSUME IInv, Quietly(last_used, query), NEW s \in Scans, Alone(s), NoHistory,
           UNCHANGED cache, UNCHANGED Settings,
           op'[s].under = op[s].under,
           op[s].pc \notin {"idle", "add"}, op'[s].pc \notin {"idle", "add"},
           op[s].pc = "using" => s \notin reading \/ op'[s].pc = "using",
           CallOK(s)', RoomOK(s)', op'[s].cur \in {op[s].cur, None},
           op'[s].pc \in Has =>
             /\ op[s].pc \in Caches \cup {"using"} /\ op'[s].key = op[s].key
             /\ op'[s].cur = op[s].cur,
           op'[s].pc \in Caches => op[s].pc \in Caches,
           op'[s].pc \in Unseen => op[s].pc \in Unseen,
           Caching(s)' =>
             \/ /\ Caching(s)
                /\ op[s].late => op'[s].late
             \/ Off(Db(s)) \/ Changing(Db(s)) => op'[s].late
    PROVE  IInv'
<1>1. \A t \in Scans : op[t].pc \in Unseen => op[t].cur # None
  BY CallFacts, SharingAssumption DEF Unseen
<1>2. /\ op'[s].pc \in Has =>
           op[s].pc \in Has /\ op'[s].key = op[s].key /\ op'[s].cur = op[s].cur
      /\ op'[s].pc \in Caches \cup {"using"} =>
           op[s].pc \in Caches \cup {"using"} /\ op'[s].key = op[s].key
      /\ op'[s].pc \in Caches => op[s].pc \in Caches /\ op'[s].cur = op[s].cur
  BY DEF Has
<1> QED
  BY <1>1, <1>2, QuietGets

\* OpenRefused, FinishScan
LEMMA EndKeeps ==
    ASSUME IInv, NEW s \in Scans, OpenRefused(s) \/ FinishScan(s)
    PROVE  IInv'
<1>1. /\ Quietly(last_used, query) /\ Alone(s) /\ NoHistory
      /\ UNCHANGED cache /\ UNCHANGED Settings
      /\ op[s].pc \in {"open", "using"} /\ (op[s].pc = "using" => s \notin reading)
      /\ op'[s].pc = "done" /\ op'[s].cur = None /\ op'[s].snap = {} /\ op'[s].order = <<>>
      /\ ~op'[s].caching /\ op'[s].under = op[s].under
  BY EndFacts
<1>2. op'[s].pc \notin Has /\ op'[s].pc \notin Caches /\ op'[s].pc \notin Unseen
  BY <1>1 DEF Caches, Has, Unseen
<1>3. CallOK(s)'
  BY <1>1, <1>2, PlainCall
<1>4. RoomOK(s)'
  BY <1>2, NotCaching
<1>5. ~Caching(s)'
  BY <1>1 DEF Caching
<1> QED
  BY <1>1, <1>2, <1>3, <1>4, <1>5, QuietKeeps

\* Lookup
LEMMA LookupKeeps ==
    ASSUME IInv, NEW s \in Scans, Lookup(s)
    PROVE  IInv'
<1>1. /\ op[s].pc = "lookup" /\ UNCHANGED cache /\ UNCHANGED Settings
      /\ Quietly(last_used, query) /\ Alone(s) /\ NoHistory
      /\ op'[s].snap = {} /\ op'[s].order = <<>> /\ op'[s].under = op[s].under
      /\ \/ \E i \in StageIds :
              /\ i = cache[Db(s)][op[s].key] /\ ~Refused(i) /\ CanAccessLayers(i)
              /\ op'[s].pc = "found" /\ op'[s].key = op[s].key /\ op'[s].cur = i
              /\ ~op'[s].caching
         \/ op'[s].pc = "done" /\ op'[s].cur = None /\ ~op'[s].caching
         \/ /\ op'[s].pc = "open" /\ op'[s].key = op[s].key /\ op'[s].cur = None
            /\ op'[s].caching =>
                 /\ StageCacheEnabled(Conn(s))
                 /\ op'[s].late <=> \E c \in Conns : DbOf[c] = Db(s) /\ setting[c] # "none"
  BY LookupFacts
<1>2. op[s].key \in Keys /\ Conn(s) \in Conns /\ Db(s) = DbOf[Conn(s)] /\ Db(s) \in Dbs
  BY <1>1, CallFacts
<1>3. CASE op'[s].pc = "found"
  <2>1. PICK i \in StageIds :
          /\ i = cache[Db(s)][op[s].key] /\ ~Refused(i) /\ CanAccessLayers(i)
          /\ op'[s].key = op[s].key /\ op'[s].cur = i /\ ~op'[s].caching
    BY <1>1, <1>3
  <2>2. /\ CacheOK /\ UnderOK /\ Kept /\ StagesSame /\ \A t \in Scans : UnseenOK(t)
    BY <1>1 DEF IInv, Quietly
  <2>3. StageIs(i, op[s].key, Db(s))
    <3>1. i # None
      BY SharingAssumption
    <3> QED
      BY <1>2, <2>1, <2>2, <3>1 DEF CacheOK
  <2>4. stage'[i] = stage[i]
    BY <2>1, <2>2, Uses DEF StagesSame
  <2>5. KnownNow(Conn(s), op'[s].key, op'[s].cur, op[s].under)
    <3>1. ~(op[s].under /\ stage[i].outside)
      BY <2>1, <2>2, <2>3 DEF UnderOK, CanAccessLayers, StageIs
    <3> QED
      BY <2>1, <2>4, <3>1 DEF KnownNow, Refused
  <2>6. \A t \in Scans : op[t].pc \in Unseen => op[t].cur # i
    BY <1>2, <2>1, <2>2 DEF UnseenOK
  <2>7. op'[s].pc \notin Caches \cup {"using"} /\ op'[s].pc \notin Unseen
    BY <1>3 DEF Caches, Unseen
  <2>8. CallOK(s)'
    <3>1. stage'[op'[s].cur].key = op'[s].key /\ stage'[op'[s].cur].db = Db(s)
      BY <2>1, <2>3, <2>4 DEF StageIs
    <3> QED
      BY <1>1, <1>2, <1>3, <2>1, <2>7, <3>1, PlainCall
  <2>9. RoomOK(s)'
    BY <2>7, NotCaching
  <2>10. ~Caching(s)'
    BY <2>1 DEF Caching
  <2>11. /\ op[s].pc \notin {"idle", "add", "using"} /\ op'[s].pc \notin {"idle", "add"}
         /\ op'[s].cur \in {op[s].cur, None, i}
    BY <1>1, <1>3, <2>1
  <2> QED
    BY <1>1, <2>5, <2>6, <2>7, <2>8, <2>9, <2>10, <2>11, QuietGets
<1>4. CASE op'[s].pc # "found"
  <2>1. /\ op'[s].cur = None
        /\ \/ op'[s].pc = "done" /\ ~op'[s].caching
           \/ /\ op'[s].pc = "open" /\ op'[s].key = op[s].key
              /\ op'[s].caching =>
                   /\ StageCacheEnabled(Conn(s))
                   /\ op'[s].late <=> \E c \in Conns : DbOf[c] = Db(s) /\ setting[c] # "none"
    BY <1>1, <1>4
  <2>2. op'[s].pc \notin Has /\ op'[s].pc \notin Unseen /\ op'[s].pc \notin Caches
    BY <2>1 DEF Caches, Has, Unseen
  <2>3. CallOK(s)'
    BY <1>1, <1>2, <2>1, <2>2, PlainCall
  <2>4. RoomOK(s)'
    BY <2>2, NotCaching
  <2>5. Caching(s)' => (Off(Db(s)) \/ Changing(Db(s)) => op'[s].late)
    BY <1>2, <2>1 DEF Caching, Off, Changing
  <2> QED
    BY <1>1, <2>1, <2>2, <2>3, <2>4, <2>5, QuietKeeps
<1> QED
  BY <1>3, <1>4

\* MakeRoom
LEMMA MakeRoomKeeps ==
    ASSUME IInv, NEW s \in Scans, MakeRoom(s)
    PROVE  IInv'
<1> DEFINE own == OwnStages(Db(s))
<1>1. /\ Quietly(last_used, query) /\ Alone(s) /\ NoHistory
      /\ UNCHANGED cache /\ UNCHANGED Settings
      /\ op[s].pc = "room" /\ op'[s].pc = "sort" /\ GoesOn(s)
      /\ op'[s].snap = own /\ op'[s].order = <<>> /\ op'[s].bytes = BytesOf(own)
      /\ op'[s].disturbed <=>
           \E t \in Scans \ {s} : Db(t) = Db(s) /\ op[t].pc \in {"found", "sort", "evict", "put", "add"}
  BY MakeRoomFacts
<1>2. TypeOK' /\ Kept
  BY <1>1 DEF Quietly
<1>3. /\ op[s].key \in Keys /\ CallOK(s) /\ Db(s) \in Dbs
      /\ \A i \in own : i \in registry /\ stage[i].key \in Keys /\ stage[i].db = Db(s)
  BY <1>1, CallFacts, OwnKeys
<1>4. Listed(op'[s]) = own
  BY <1>1 DEF Listed, Range
<1>5. /\ \A i \in Listed(op'[s]) :
           i \in registry' /\ stage'[i].key \in Keys /\ stage'[i].db = Db(s)
      /\ BytesOf(Listed(op[s]))' = BytesOf(Listed(op'[s]))
  BY <1>2, <1>3, <1>4, ListedKept
<1>6. /\ op'[s].cur \in StageIds
      /\ stage'[op'[s].cur].key = op[s].key /\ stage'[op'[s].cur].db = Db(s)
  BY <1>1, <1>2, CurIs DEF Caches, Has, GoesOn
<1>7. CallOK(s)'
  <2>1. StageIs(op[s].cur, op[s].key, Db(s))'
    BY <1>1, <1>6 DEF StageIs, Db, GoesOn
  <2>2. op'[s].bytes = BytesOf(Listed(op[s]))'
    BY <1>1, <1>4, <1>5
  <2>3. op'[s].caching /\ op'[s].key \in Keys
    BY <1>1, <1>3 DEF CallOK, Caches, GoesOn
  <2> QED
    BY <1>1, <1>5, <2>1, <2>2, <2>3 DEF CallOK, Db
<1>8. RoomOK(s)'
  <2> SUFFICES ASSUME ~op'[s].disturbed PROVE Cached(Db(s))' = Listed(op'[s])
    BY <1>1 DEF RoomOK, Db
  <2>1. Cached(Db(s))' = Cached(Db(s))
    BY <1>1 DEF Cached, Db
  <2>2. \A i \in Cached(Db(s)) : i \in own
    <3> SUFFICES ASSUME NEW i \in Cached(Db(s)) PROVE i \in own
      OBVIOUS
    <3>1. PICK k \in Keys : i = cache[Db(s)][k] /\ i # None
      BY DEF Cached
    <3>2. /\ StageIs(i, k, Db(s))
          /\ i \in registry \/ \E t \in Scans : op[t].pc = "add" /\ op[t].cur = i
      BY <1>3, <3>1 DEF IInv, CacheOK
    <3>3. ~ \E t \in Scans : op[t].pc = "add" /\ op[t].cur = i
      <4> SUFFICES ASSUME NEW t \in Scans, op[t].pc = "add", op[t].cur = i PROVE FALSE
        OBVIOUS
      <4>1. StageIs(i, op[t].key, Db(t))
        BY CallFacts
      <4>2. Db(t) = Db(s) /\ t # s
        BY <1>1, <3>2, <4>1 DEF StageIs
      <4> QED
        BY <1>1, <4>2
    <3> QED
      BY <3>2, <3>3 DEF OwnStages, StageIs
  <2>3. \A i \in own : i \in Cached(Db(s))
    <3> SUFFICES ASSUME NEW i \in own PROVE i \in Cached(Db(s))
      OBVIOUS
    <3>1. i \in registry /\ stage[i].key \in Keys /\ stage[i].db = Db(s) /\ i \in StageIds
      BY <1>3, OwnKeys
    <3>2. cache[Db(s)][stage[i].key] = i \/ \E t \in Scans : i \in Held(op[t])
      BY <3>1 DEF IInv, RegistryOK
    <3>3. ~ \E t \in Scans : i \in Held(op[t])
      <4> SUFFICES ASSUME NEW t \in Scans, i \in Held(op[t]) PROVE FALSE
        OBVIOUS
      <4>1. CASE i \in Listed(op[t])
        <5>1. Db(t) = Db(s)
          BY <3>1, <4>1, CallFacts DEF CallOK
        <5>2. op[t].pc \in {"sort", "evict"}
          <6>1. op[t].pc \notin {"sort", "evict"} => op[t].snap = {} /\ op[t].order = <<>>
            BY CallFacts
          <6>2. op[t].order = <<>> => Range(op[t].order) = {}
            BY DEF Range
          <6> QED
            BY <4>1, <6>1, <6>2 DEF Listed
        <5> QED
          BY <1>1, <5>1, <5>2
      <4>2. CASE op[t].pc = "add" /\ op[t].cur = i
        BY <3>1, <4>2 DEF IInv, UnseenOK, Caches
      <4>3. CASE op[t].pc = "found" /\ op[t].cur = i
        <5>1. Db(t) = Db(s) /\ t # s
          BY <1>1, <3>1, <4>3, CallFacts DEF StageIs
        <5> QED
          BY <1>1, <4>3, <5>1
      <4> QED
        BY <4>1, <4>2, <4>3 DEF Held, Listed
    <3>4. i # None
      BY <3>1, SharingAssumption
    <3> QED
      BY <3>1, <3>2, <3>3, <3>4 DEF Cached
  <2> QED
    BY <1>4, <2>1, <2>2, <2>3
<1>9. Caching(s)' => Caching(s) /\ op'[s].late = op[s].late
  BY <1>1 DEF Caching, GoesOn
<1> QED
  BY <1>1, <1>7, <1>8, <1>9, QuietKeeps DEF Caches, Unseen, GoesOn

\* Sort
LEMMA SortKeeps ==
    ASSUME IInv, NEW s \in Scans, Sort(s)
    PROVE  IInv'
<1>1. /\ Quietly(last_used, query) /\ Alone(s) /\ NoHistory
      /\ UNCHANGED cache /\ UNCHANGED Settings
      /\ op[s].pc = "sort" /\ op'[s].pc = "evict" /\ GoesOn(s)
      /\ op'[s].snap = {} /\ op'[s].bytes = op[s].bytes
      /\ op'[s].disturbed = op[s].disturbed /\ op'[s].touched = op[s].touched
      /\ Range(op'[s].order) = op[s].snap
      /\ \A m, n \in DOMAIN op'[s].order : m # n => op'[s].order[m] # op'[s].order[n]
      /\ op'[s].touched = {} => \A m, n \in DOMAIN op'[s].order :
           m < n => <<op'[s].order[m], op'[s].order[n]>> \in last_used
  BY SortFacts
<1>2. TypeOK' /\ Kept /\ UseFrom(last_used)
  BY <1>1 DEF Quietly
<1>3. op[s].key \in Keys /\ CallOK(s) /\ op[s].order = <<>> /\ RoomOK(s)
      /\ registry \subseteq StageIds
  BY <1>1, CallFacts DEF IInv, TypeOK
<1>4. Listed(op'[s]) = Listed(op[s])
  BY <1>1, <1>3 DEF Listed, Range
<1>5. \A i \in Listed(op'[s]) : i \in registry /\ stage[i].key \in Keys /\ stage[i].db = Db(s)
  BY <1>3, <1>4 DEF CallOK
<1>6. /\ \A i \in Listed(op'[s]) :
           i \in registry' /\ stage'[i].key \in Keys /\ stage'[i].db = Db(s)
      /\ BytesOf(Listed(op[s]))' = BytesOf(Listed(op'[s]))
  BY <1>2, <1>5, ListedKept
<1>7. /\ op'[s].cur \in StageIds
      /\ stage'[op'[s].cur].key = op[s].key /\ stage'[op'[s].cur].db = Db(s)
  BY <1>1, <1>2, CurIs DEF Caches, Has, GoesOn
<1>8. CallOK(s)'
  <2>1. StageIs(op[s].cur, op[s].key, Db(s))'
    BY <1>1, <1>7 DEF StageIs, Db, GoesOn
  <2>2. op'[s].bytes = BytesOf(Listed(op[s]))'
    BY <1>1, <1>3, <1>4, <1>6 DEF CallOK
  <2>3. op'[s].caching /\ op'[s].key \in Keys
    BY <1>1, <1>3 DEF CallOK, Caches, GoesOn
  <2> QED
    BY <1>1, <1>6, <2>1, <2>2, <2>3 DEF CallOK, Db
<1>9. RoomOK(s)'
  <2>1. ~op'[s].disturbed => Cached(Db(s))' = Listed(op'[s])
    <3>1. Cached(Db(s))' = Cached(Db(s))
      BY <1>1 DEF Cached, Db
    <3> QED
      BY <1>1, <1>3, <1>4, <3>1 DEF RoomOK
  <2>2. ASSUME op'[s].touched = {},
               NEW m \in DOMAIN op'[s].order, NEW n \in DOMAIN op'[s].order, m < n
        PROVE  <<op'[s].order[m], op'[s].order[n]>> \in last_used'
    <3>1. <<op'[s].order[m], op'[s].order[n]>> \in last_used
      BY <1>1, <2>2
    <3>2. op'[s].order[m] \in Listed(op'[s]) /\ op'[s].order[n] \in Listed(op'[s])
      BY <2>2 DEF Listed, Range
    <3>3. op'[s].order[m] \in Entries(cache', op') /\ op'[s].order[n] \in Entries(cache', op')
      BY <1>3, <1>5, <3>2, Uses
    <3> QED
      BY <1>2, <3>1, <3>3 DEF UseFrom
  <2> QED
    BY <1>1, <2>1, <2>2 DEF RoomOK, Db
<1>10. Caching(s)' => Caching(s) /\ op'[s].late = op[s].late
  BY <1>1 DEF Caching, GoesOn
<1> QED
  BY <1>1, <1>8, <1>9, <1>10, QuietKeeps DEF Caches, Unseen, GoesOn

\* Open returns stage i to scan s
LEMMA UsesKeeps ==
    ASSUME IInv, TypeOK', Kept, NEW s \in Scans, NEW i \in StageIds, Others(s),
           op[s].pc \in {"found", "open", "evict", "add"},
           op'[s].pc = "using", op'[s].cur = i, op'[s].key = op[s].key,
           op'[s].snap = {}, op'[s].order = <<>>, ~op'[s].caching, op'[s].under = op[s].under,
           UNCHANGED cache, UNCHANGED Settings,
           QueryFrom([query EXCEPT ![Conn(s)][op[s].key] = i]),
           stage'[i].key = op[s].key, stage'[i].db = Db(s),
           \A j \in StageIds : j # i /\ InUse(j)' => stage'[j] = stage[j],
           stage[i].key \in Keys =>
             stage'[i].outside = stage[i].outside /\ stage'[i].refused = stage[i].refused,
           NoClips, KnownNow(Conn(s), op[s].key, i, op[s].under),
           registry' \subseteq registry \cup {i},
           \A t \in Scans \ {s} : op[t].pc \in Unseen => op[t].cur # i,
           \A t \in Scans \ {s} : op[t].pc \in Caches =>
             op[t].cur # i \/ (stage'[i].late = stage[i].late /\ i \notin registry' \ registry),
           op[s].pc = "add" =>
             /\ op[s].cur = i
             /\ op[s].late => stage'[i].late
             /\ i \in Entries(cache', op') => i \in registry',
           Warns, WarnedNow(Conn(s), op[s].key)
    PROVE  IInv'
<1>1. /\ TypeOK /\ op[s].key \in Keys /\ Conn(s) \in Conns /\ Db(s) = DbOf[Conn(s)]
      /\ op[s].pc # "idle"
  BY CallFacts
<1>2. session' = session /\ global' = global /\ setting' = setting /\ restricted' = restricted
  BY DEF Settings
<1>3. \A t \in Scans \ {s} :
        /\ op'[t].pc = op[t].pc /\ op'[t].cur = op[t].cur /\ op'[t].key = op[t].key
        /\ op'[t].caching = op[t].caching /\ op'[t].late = op[t].late
        /\ op'[t].under = op[t].under
  BY DEF Others, Waits
<1>4. op'[s].pc \notin Caches
  BY DEF Caches, Has
<1>5. CallOK(s)'
  BY <1>1, <1>4, PlainCall
<1>6. UnseenOK(s)' /\ RoomOK(s)'
  BY <1>4, NotCaching
<1>7. CallsGet(i) /\ CachesGet(None) /\ CachesGet(i)
  BY <1>3 DEF CallsGet, CachesGet
<1>8. /\ QueryOK' /\ QueriesGet(i)
      /\ \A e \in Conns, l \in Keys : query'[e][l] # None =>
           query'[e][l] = query[e][l] \/ (e = Conn(s) /\ l = op[s].key /\ query'[e][l] = i)
  <2>1. PICK c \in Conns, k \in Keys : c = Conn(s) /\ k = op[s].key
    BY <1>1
  <2>2. stage'[i].key = k /\ stage'[i].db = DbOf[c] /\ QueryFrom([query EXCEPT ![c][k] = i])
    BY <1>1, <2>1
  <2>3. /\ QueryOK' /\ QueriesGet(i)
        /\ \A e \in Conns, l \in Keys : query'[e][l] # None =>
             query'[e][l] = query[e][l] \/ (e = c /\ l = k /\ query'[e][l] = i)
    BY <2>2, QueryGetsStage
  <2> QED
    BY <2>1, <2>3
<1>9. \A t \in Scans \ {s} : UnseenOK(t)'
  <2>1. \A t \in Scans \ {s} : op[t].pc \in Caches =>
          /\ stage'[op[t].cur].late = stage[op[t].cur].late
          /\ op[t].cur \notin registry' \ registry
    <3> SUFFICES ASSUME NEW t \in Scans \ {s}, op[t].pc \in Caches, op[t].cur # i
                 PROVE  /\ stage'[op[t].cur].late = stage[op[t].cur].late
                        /\ op[t].cur \notin registry' \ registry
      OBVIOUS
    <3>1. PICK j \in StageIds : j = op[t].cur
      BY CallFacts DEF Caches, Has
    <3>2. InUse(j)'
      BY <1>3, <3>1, Uses
    <3> QED
      BY <3>1, <3>2
  <2> QED
    BY <1>4, <1>7, <1>8, <2>1, OthersUnseen
<1>10. CacheOK'
  <2>1. \A t \in Scans : op[t].pc = "add" /\ op[t].cur \in Entries(cache', op') =>
          (op'[t].pc = "add" /\ op'[t].cur = op[t].cur) \/ op[t].cur \in registry'
    BY <1>3
  <2> QED
    BY <1>7, <2>1, CacheKept
<1>11. UnderOK'
  <2>1. \A t \in Scans :
          op'[t].under = op[t].under /\ (op'[t].pc = "idle" <=> op[t].pc = "idle")
    BY <1>1, <1>3
  <2>2. \A e \in Conns, l \in Keys : query'[e][l] \in {query[e][l], None} \/ ~QueryIdle(e)
    BY <1>1, <1>8 DEF QueryIdle
  <2> QED
    BY <1>2, <2>1, <2>2, UnderKept
<1>12. KnownOK'
  <2>1. \A t \in Scans : op'[t].pc # "idle" =>
          /\ op[t].pc # "idle" /\ (op'[t].under <=> op[t].under)
          /\ \A k \in Keys : clips[Conn(t)][k] \subseteq clips'[Conn(t)][k]
    BY <1>1, <1>3 DEF NoClips
  <2>2. \A j \in StageIds : InUse(j)' /\ stage[j].key \in Keys =>
          /\ stage'[j].outside => stage[j].outside
          /\ stage'[j].refused => stage[j].refused
    OBVIOUS
  <2>3. \A t \in Scans : op'[t].pc \in Has =>
          \/ op[t].pc \in Has /\ op'[t].key = op[t].key /\ op'[t].cur = op[t].cur
          \/ KnownNow(Conn(t), op'[t].key, op'[t].cur, op[t].under)
    BY <1>3
  <2>4. \A e \in Conns, l \in Keys : query'[e][l] # None =>
          \/ query'[e][l] = query[e][l]
          \/ \E t \in Scans : /\ Conn(t) = e /\ op[t].pc # "idle"
                              /\ KnownNow(e, l, query'[e][l], op[t].under)
    BY <1>1, <1>8
  <2> QED
    BY <2>1, <2>2, <2>3, <2>4, KnownKept
<1>13. WarningsOK'
  <2>1. \A t \in Scans : op'[t].pc \in Caches \cup {"using"} =>
          \/ op[t].pc \in Caches \cup {"using"} /\ op'[t].key = op[t].key
          \/ WarnedNow(Conn(t), op'[t].key)
    BY <1>3
  <2>2. \A e \in Conns, l \in Keys : query'[e][l] # None =>
          query'[e][l] = query[e][l] \/ WarnedNow(e, l)
    BY <1>8
  <2> QED
    BY <2>1, <2>2, WarningsKept
<1>14. SettingOK'
  <2>1. \A t \in Scans : Caching(t)' => Caching(t) /\ op'[t].late = op[t].late
    BY <1>3 DEF Caching
  <2>2. \A t \in Scans : op[t].pc = "add" =>
          \/ /\ op'[t].pc = "add" /\ op'[t].cur = op[t].cur
             /\ op[t].late => op'[t].late
          \/ op[t].late => stage'[op[t].cur].late
    BY <1>3
  <2> QED
    BY <1>2, <2>1, <2>2, SettingKept
<1>15. ReadingOK'
  <2>1. \A t \in Scans : op[t].pc = "using" => op'[t].pc = "using"
    BY <1>3
  <2> QED
    BY <2>1, ReadingKept DEF NoClips
<1> QED
  BY <1>5, <1>6, <1>8, <1>9, <1>10, <1>11, <1>12, <1>13, <1>14, <1>15, Together DEF Others

\* The call of s goes on towards caching its own stage i, or puts it in the cache
LEMMA CachingKeeps ==
    ASSUME IInv, TypeOK', Kept, NEW s \in Scans, NEW i \in StageIds, Others(s),
           op[s].pc \in {"open", "room", "sort", "evict", "put"}, op'[s].pc \in Caches,
           op[s].caching, op'[s].cur = i, op'[s].key = op[s].key, op'[s].under = op[s].under,
           op'[s].late = op[s].late,
           CallOK(s)', RoomOK(s)', UNCHANGED Settings, QueryFrom(query),
           \A j \in StageIds : j # i /\ InUse(j)' => stage'[j] = stage[j],
           stage[i].key \in Keys =>
             stage'[i].outside = stage[i].outside /\ stage'[i].refused = stage[i].refused,
           NoClips, KnownNow(Conn(s), op[s].key, i, op[s].under), ~stage'[i].late,
           registry' \subseteq registry, i \notin registry,
           \A t \in Scans \ {s} : op[t].cur # i,
           \A d \in Dbs, k \in Keys : cache[d][k] # i,
           \A c \in Conns, k \in Keys : query[c][k] # i,
           \A d \in Dbs, k \in Keys :
             \/ cache'[d][k] \in {cache[d][k], None}
             \/ d = Db(s) /\ k = op[s].key /\ cache'[d][k] = i /\ op'[s].pc = "add",
           Warns, WarnedNow(Conn(s), op[s].key)
    PROVE  IInv'
<1>1. /\ TypeOK /\ op[s].key \in Keys /\ Conn(s) \in Conns /\ Db(s) = DbOf[Conn(s)]
      /\ i # None
  BY CallFacts, SharingAssumption
<1>2. session' = session /\ global' = global /\ setting' = setting /\ restricted' = restricted
  BY DEF Settings
<1>3. \A t \in Scans \ {s} :
        /\ op'[t].pc = op[t].pc /\ op'[t].cur = op[t].cur /\ op'[t].key = op[t].key
        /\ op'[t].caching = op[t].caching /\ op'[t].late = op[t].late
        /\ op'[t].under = op[t].under
  BY DEF Others, Waits
<1>4. QueryOK' /\ QueriesGet(None)
  BY QueryKept
<1>5. CallsGet(i) /\ CachesGet(i) /\ QueriesGet(i)
  BY <1>3, <1>4 DEF CallsGet, CachesGet, QueriesGet
<1>6. stage'[i].key = op[s].key /\ stage'[i].db = Db(s)
  BY DEF CallOK, StageIs, Db, Has
<1>7. UnseenOK(s)'
  <2>1. op'[s].pc \in Unseen => \A d \in Dbs, k \in Keys : cache'[d][k] # i
    BY <1>1 DEF Unseen
  <2>2. \A c \in Conns, k \in Keys : query'[c][k] # i
    BY <1>1, <1>4 DEF QueriesGet
  <2> QED
    BY <1>3, <2>1, <2>2 DEF UnseenOK
<1>8. \A t \in Scans \ {s} : UnseenOK(t)'
  <2>1. \A t \in Scans \ {s} : op[t].pc \in Caches =>
          /\ stage'[op[t].cur].late = stage[op[t].cur].late
          /\ op[t].cur \notin registry' \ registry
    <3> SUFFICES ASSUME NEW t \in Scans \ {s}, op[t].pc \in Caches
                 PROVE  stage'[op[t].cur].late = stage[op[t].cur].late
      OBVIOUS
    <3>1. PICK j \in StageIds : j = op[t].cur
      BY CallFacts DEF Caches, Has
    <3>2. InUse(j)'
      BY <1>3, <3>1, Uses
    <3> QED
      BY <3>1, <3>2
  <2> QED
    BY <1>5, <2>1, OthersUnseen
<1>9. CacheOK'
  <2>1. \A d \in Dbs, k \in Keys : cache'[d][k] = i =>
          /\ stage'[i].key = k /\ stage'[i].db = d
          /\ op'[s].pc = "add" /\ op'[s].cur = i
    BY <1>1, <1>6
  <2>2. \A t \in Scans : op[t].pc = "add" => op'[t].pc = "add" /\ op'[t].cur = op[t].cur
    BY <1>3
  <2> QED
    BY <1>5, <2>1, <2>2, CacheKept
<1>10. UnderOK'
  <2>1. \A t \in Scans :
          op'[t].under = op[t].under /\ (op'[t].pc = "idle" <=> op[t].pc = "idle")
    BY <1>3 DEF Caches, Has
  <2>2. \A e \in Conns, l \in Keys : query'[e][l] \in {query[e][l], None}
    BY <1>4 DEF QueriesGet
  <2> QED
    BY <1>2, <2>1, <2>2, UnderKept
<1>11. \A e \in Conns, l \in Keys : query'[e][l] # None => query'[e][l] = query[e][l]
  BY DEF QueryFrom
<1>12. KnownOK'
  <2>1. \A t \in Scans : op'[t].pc # "idle" =>
          /\ op[t].pc # "idle" /\ (op'[t].under <=> op[t].under)
          /\ \A k \in Keys : clips[Conn(t)][k] \subseteq clips'[Conn(t)][k]
    BY <1>1, <1>3 DEF NoClips
  <2>2. \A j \in StageIds : InUse(j)' /\ stage[j].key \in Keys =>
          /\ stage'[j].outside => stage[j].outside
          /\ stage'[j].refused => stage[j].refused
    OBVIOUS
  <2>3. \A t \in Scans : op'[t].pc \in Has =>
          \/ op[t].pc \in Has /\ op'[t].key = op[t].key /\ op'[t].cur = op[t].cur
          \/ KnownNow(Conn(t), op'[t].key, op'[t].cur, op[t].under)
    BY <1>3
  <2> QED
    BY <1>11, <2>1, <2>2, <2>3, KnownKept
<1>13. WarningsOK'
  <2>1. \A t \in Scans : op'[t].pc \in Caches \cup {"using"} =>
          \/ op[t].pc \in Caches \cup {"using"} /\ op'[t].key = op[t].key
          \/ WarnedNow(Conn(t), op'[t].key)
    BY <1>3
  <2> QED
    BY <1>11, <2>1, WarningsKept
<1>14. SettingOK'
  <2>1. \A t \in Scans : Caching(t)' => Caching(t) /\ op'[t].late = op[t].late
    BY <1>3 DEF Caching
  <2>2. \A t \in Scans : op[t].pc = "add" =>
          /\ op'[t].pc = "add" /\ op'[t].cur = op[t].cur /\ op'[t].late = op[t].late
    BY <1>3
  <2>3. \A d \in Dbs, k \in Keys : cache'[d][k] # None =>
          \/ cache'[d][k] = cache[d][k]
          \/ \E t \in Scans : /\ Db(t) = d /\ Caching(t) /\ op'[t].pc = "add"
                              /\ op'[t].late = op[t].late /\ op'[t].cur = cache'[d][k]
    BY DEF Caching
  <2> QED
    BY <1>2, <2>1, <2>2, <2>3, SettingKept
<1>15. ReadingOK'
  <2>1. \A t \in Scans : op[t].pc = "using" => op'[t].pc = "using"
    BY <1>3
  <2> QED
    BY <2>1, ReadingKept DEF NoClips
<1> QED
  BY <1>4, <1>7, <1>8, <1>9, <1>10, <1>12, <1>13, <1>14, <1>15, Together DEF Others

\* Find: the cached stage
LEMMA FindKeeps ==
    ASSUME IInv, NEW s \in Scans, Find(s)
    PROVE  IInv'
<1>1. op[s].pc = "found" /\ UNCHANGED cache /\ UNCHANGED Settings
  BY FindFacts
<1> PICK i \in StageIds : i = op[s].cur
  BY <1>1, CallFacts
<1>2. /\ Quietly(Touch(i), [query EXCEPT ![Conn(s)][op[s].key] = i])
      /\ LogOpenWarnings(s) /\ NoClips /\ op' \in [Scans -> OpType] /\ op'[s] = Using(s, i)
      /\ BecomesAndDisturbs(s, Using(s, i), {i})
  BY FindFacts
<1>3. /\ TypeOK' /\ Kept /\ StagesSame /\ registry' \subseteq registry
      /\ UseFrom(Touch(i)) /\ QueryFrom([query EXCEPT ![Conn(s)][op[s].key] = i])
  BY <1>2 DEF Quietly
<1>4. /\ TypeOK /\ op \in [Scans -> OpType] /\ op[s].key \in Keys /\ Db(s) \in Dbs
      /\ Conn(s) \in Conns /\ KnownOK /\ \A t \in Scans : UnseenOK(t)
  BY <1>1, CallFacts DEF IInv
<1>5. /\ Using(s, i) \in OpType /\ op'[s].pc = "using" /\ op'[s].key = op[s].key
      /\ op'[s].cur = i /\ op'[s].snap = {} /\ op'[s].order = <<>> /\ ~op'[s].caching
      /\ op'[s].under = op[s].under
  BY <1>2, <1>4, UsingType
<1>6. StageIs(i, op[s].key, Db(s))
  BY <1>1, CallFacts
<1>7. stage'[i] = stage[i]
  BY <1>3, <1>5, Uses DEF StagesSame
<1>8. Others(s)
  <2>1. /\ Touch(i) \in SUBSET (StageIds \X StageIds)
        /\ \A m, n \in StageIds : m # i /\ n # i /\ <<m, n>> \in last_used => <<m, n>> \in Touch(i)
    BY <1>4, TouchType
  <2>2. used' = used
    BY <1>1 DEF Settings
  <2>3. i \in {i} /\ {i} \in SUBSET StageIds /\ stage[i].db = Db(s)
    BY <1>6 DEF StageIs
  <2> HIDE DEF Touch
  <2>4. PICK use \in SUBSET (StageIds \X StageIds) : use = Touch(i)
    BY <2>1
  <2>5. PICK o \in OpType : o = Using(s, i)
    BY <1>5
  <2>6. PICK touch \in SUBSET StageIds : touch = {i}
    BY <2>3
  <2>7. BecomesAndDisturbs(s, o, touch)
    BY <1>2, <2>5, <2>6
  <2>8. UseFrom(use) /\ TypeOK' /\ Kept
    BY <1>3, <2>4
  <2>9. \A d \in Dbs, k \in Keys : d # Db(s) => cache'[d][k] = cache[d][k]
    BY <1>1
  <2>10. /\ \A m, n \in StageIds : m # i /\ n # i /\ <<m, n>> \in last_used => <<m, n>> \in use
         /\ i \in registry => use = last_used \/ (i \in touch /\ stage[i].db = Db(s))
    BY <2>1, <2>3, <2>4, <2>6
  <2> HIDE <1>1, <1>2, <1>3, <2>4, <2>5, <2>6
  <2> QED
    BY <2>2, <2>7, <2>8, <2>9, <2>10, DisturbedOthers
<1>9. KnownNow(Conn(s), op[s].key, i, op[s].under)
  BY <1>1, <1>2, <1>4, <1>7 DEF KnownOK, Known, KnownNow, Has, NoClips
<1>10. \A t \in Scans \ {s} : op[t].pc \in Unseen => op[t].cur # i
  BY <1>4 DEF UnseenOK
<1>11. Warns /\ WarnedNow(Conn(s), op[s].key)
  BY <1>2, <1>4, LogWarns
<1>12. stage'[i].key = op[s].key /\ stage'[i].db = Db(s)
  BY <1>6, <1>7 DEF StageIs
<1> QED
  BY <1>1, <1>2, <1>3, <1>5, <1>7, <1>8, <1>9, <1>10, <1>11, <1>12, UsesKeeps DEF StagesSame

\* A stage that does not exist yet
LEMMA FreeFacts ==
    ASSUME IInv, NEW i \in StageIds, stage[i] = FreeStage
    PROVE  /\ stage[i].key \notin Keys /\ i \notin registry
           /\ \A t \in Scans : op[t].cur # i
           /\ \A d \in Dbs, k \in Keys : cache[d][k] # i
           /\ \A c \in Conns, k \in Keys : query[c][k] # i
<1>1. stage[i].key \notin Keys /\ i # None
  BY SharingAssumption DEF FreeStage, StageOf
<1>2. i \notin registry
  BY <1>1 DEF IInv, RegistryOK
<1>3. \A t \in Scans : op[t].cur # i
  <2> SUFFICES ASSUME NEW t \in Scans, op[t].cur = i PROVE FALSE
    OBVIOUS
  <2>1. /\ op[t] \in OpType
        /\ op[t].pc \in {"idle", "done", "lookup", "open"} => op[t].cur = None
        /\ op[t].pc \in {"found", "room", "sort", "evict", "put", "add", "using"} =>
             op[t].key \in Keys /\ StageIs(op[t].cur, op[t].key, Db(t))
    BY CallFacts DEF CallOK
  <2>2. \/ op[t].pc \in {"idle", "done", "lookup", "open"}
        \/ op[t].pc \in {"found", "room", "sort", "evict", "put", "add", "using"}
    BY <2>1 DEF OpType
  <2> QED
    BY <1>1, <2>1, <2>2 DEF StageIs
<1>4. \A d \in Dbs, k \in Keys : cache[d][k] # i
  BY <1>1 DEF IInv, CacheOK, StageIs
<1>5. \A c \in Conns, k \in Keys : query[c][k] # i
  BY <1>1 DEF IInv, QueryOK, StageIs
<1> QED
  BY <1>1, <1>2, <1>3, <1>4, <1>5

\* A new stage
LEMMA StageOfFacts ==
    ASSUME NEW k, NEW d
    PROVE  /\ StageOf(k, d).key = k /\ StageOf(k, d).db = d /\ StageOf(k, d).late = FALSE
           /\ ~StageOf(k, d).refused /\ (k \notin RefsOutside => ~StageOf(k, d).outside)
  BY DEF StageOf

\* OpenStage
LEMMA OpenStageKeeps ==
    ASSUME IInv, NEW s \in Scans, OpenStage(s)
    PROVE  IInv'
<1>1. /\ op[s].pc = "open" /\ UNCHANGED cache /\ UNCHANGED Settings /\ LogOpenWarnings(s)
      /\ NoClips
      /\ ~(Db(s) \in restricted /\ op[s].key \in RefsOutside)
  BY OpenStageFacts
<1>2. PICK i \in StageIds :
        /\ stage[i] = FreeStage /\ stage'[i] = StageOf(op[s].key, Db(s))
        /\ TypeOK' /\ Kept /\ registry' \subseteq registry /\ UseFrom(last_used) /\ Alone(s)
        /\ \A j \in StageIds : j # i /\ InUse(j)' => stage'[j] = stage[j]
        /\ op'[s].cur = i /\ op'[s].key = op[s].key /\ op'[s].under = op[s].under
        /\ op'[s].snap = {} /\ op'[s].order = <<>>
        /\ \/ /\ op'[s].pc = "room" /\ op[s].caching /\ op'[s].caching
              /\ op'[s].late = op[s].late /\ QueryFrom(query)
           \/ /\ op'[s].pc = "using" /\ ~op'[s].caching
              /\ QueryFrom([query EXCEPT ![Conn(s)][op[s].key] = i])
  BY OpenStageFacts
<1>3. TypeOK /\ op[s].key \in Keys /\ Db(s) \in Dbs /\ Conn(s) \in Conns /\ UnderOK
  BY <1>1, CallFacts DEF IInv
<1>4. /\ stage[i].key \notin Keys /\ i \notin registry
      /\ \A t \in Scans : op[t].cur # i
      /\ \A d \in Dbs, k \in Keys : cache[d][k] # i
      /\ \A c \in Conns, k \in Keys : query[c][k] # i
  BY <1>2, FreeFacts
<1>5. Others(s)
  BY <1>1, <1>2, AloneOthers DEF Settings
<1>6. /\ stage'[i].key = op[s].key /\ stage'[i].db = Db(s) /\ ~stage'[i].late
      /\ KnownNow(Conn(s), op[s].key, i, op[s].under)
  <2>1. stage'[i] = StageOf(op[s].key, Db(s))
    BY <1>2
  <2>2. /\ stage'[i].key = op[s].key /\ stage'[i].db = Db(s) /\ ~stage'[i].late
        /\ ~stage'[i].refused /\ (op[s].key \notin RefsOutside => ~stage'[i].outside)
    <3>1. PICK k, d : k = op[s].key /\ d = Db(s)
      OBVIOUS
    <3>2. stage'[i] = StageOf(k, d)
      BY <2>1, <3>1
    <3>3. StageOf(k, d).key = k /\ StageOf(k, d).db = d
      BY StageOfFacts
    <3>4. ~StageOf(k, d).late
      BY StageOfFacts
    <3>5. ~StageOf(k, d).refused /\ (k \notin RefsOutside => ~StageOf(k, d).outside)
      BY StageOfFacts
    <3> QED
      BY <3>1, <3>2, <3>3, <3>4, <3>5
  <2>3. op[s].under => Db(s) \in restricted
    BY <1>3 DEF UnderOK
  <2> QED
    BY <1>1, <2>2, <2>3 DEF KnownNow
<1>7. Warns /\ WarnedNow(Conn(s), op[s].key)
  BY <1>1, <1>3, LogWarns
<1>8. CASE op'[s].pc = "room"
  <2>1. /\ op'[s].pc \in Caches /\ op[s].caching /\ op'[s].caching /\ op'[s].late = op[s].late
        /\ QueryFrom(query)
    BY <1>2, <1>8 DEF Caches
  <2>2. CallOK(s)'
    BY <1>2, <1>3, <1>6, <1>8, <2>1, PlainCall
  <2>3. RoomOK(s)'
    BY <1>8 DEF RoomOK
  <2> QED
    BY <1>1, <1>2, <1>4, <1>5, <1>6, <1>7, <2>1, <2>2, <2>3, CachingKeeps
<1>9. CASE op'[s].pc = "using"
  BY <1>1, <1>2, <1>4, <1>5, <1>6, <1>7, <1>9, UsesKeeps
<1> QED
  BY <1>2, <1>8, <1>9

\* The stage that a call is about to cache
LEMMA UnseenFacts ==
    ASSUME IInv, Kept, StagesSame, NoHistory, NEW s \in Scans, op[s].pc \in Unseen,
           op'[s].cur = op[s].cur, NEW i \in StageIds, i = op[s].cur
    PROVE  /\ op[s].caching /\ stage'[i] = stage[i] /\ ~stage'[i].late /\ i \notin registry
           /\ KnownNow(Conn(s), op[s].key, i, op[s].under)
           /\ \A t \in Scans \ {s} : op[t].cur # i
           /\ \A d \in Dbs, k \in Keys : cache[d][k] # i
           /\ \A c \in Conns, k \in Keys : query[c][k] # i
           /\ Warns /\ WarnedNow(Conn(s), op[s].key)
<1>1. /\ CallOK(s) /\ UnseenOK(s) /\ KnownOK /\ WarningsOK /\ op[s].key \in Keys
      /\ Conn(s) \in Conns /\ op[s].pc \in Caches
  BY CallFacts DEF IInv, Unseen, Caches
<1>2. stage'[i] = stage[i]
  BY <1>1, CurSame DEF Has
<1>3. op[s].caching
  BY <1>1 DEF CallOK
<1>4. /\ ~stage[i].late /\ i \notin registry
      /\ \A t \in Scans \ {s} : op[t].cur # i
      /\ \A d \in Dbs, k \in Keys : cache[d][k] # i
      /\ \A c \in Conns, k \in Keys : query[c][k] # i
  BY <1>1 DEF UnseenOK
<1>5. KnownNow(Conn(s), op[s].key, i, op[s].under)
  BY <1>1, <1>2 DEF KnownOK, Known, KnownNow, Has, NoHistory, NoClips
<1>6. Warns /\ WarnedNow(Conn(s), op[s].key)
  BY <1>1, NoHistoryWarns DEF WarningsOK, Warns
<1> QED
  BY <1>2, <1>3, <1>4, <1>5, <1>6

\* A call that makes room or puts its stage goes on
LEMMA GoesOnKeeps ==
    ASSUME IInv, NEW use, Quietly(use, query), NEW s \in Scans, Others(s),
           op[s].pc \in Unseen, op'[s].pc \in Caches, GoesOn(s), CallOK(s)', RoomOK(s)',
           UNCHANGED Settings, NoHistory,
           \A d \in Dbs, k \in Keys :
             \/ cache'[d][k] \in {cache[d][k], None}
             \/ d = Db(s) /\ k = op[s].key /\ cache'[d][k] = op[s].cur /\ op'[s].pc = "add"
    PROVE  IInv'
<1>1. /\ TypeOK' /\ Kept /\ StagesSame /\ registry' \subseteq registry /\ QueryFrom(query)
  BY DEF Quietly
<1>2. PICK i \in StageIds : i = op[s].cur
  BY CallFacts DEF Unseen
<1>3. /\ op'[s].cur = i /\ op'[s].key = op[s].key /\ op'[s].under = op[s].under
      /\ op'[s].late = op[s].late
  BY <1>2 DEF GoesOn
<1>4. /\ op[s].caching /\ stage'[i] = stage[i] /\ ~stage'[i].late /\ i \notin registry
      /\ KnownNow(Conn(s), op[s].key, i, op[s].under)
      /\ \A t \in Scans \ {s} : op[t].cur # i
      /\ \A d \in Dbs, k \in Keys : cache[d][k] # i
      /\ \A c \in Conns, k \in Keys : query[c][k] # i
      /\ Warns /\ WarnedNow(Conn(s), op[s].key)
  BY <1>1, <1>2, <1>3, UnseenFacts
<1>5. op[s].pc \in {"open", "room", "sort", "evict", "put"}
  BY DEF Unseen
<1>6. NoClips
  BY DEF NoHistory
<1> QED
  BY <1>1, <1>2, <1>3, <1>4, <1>5, <1>6, CachingKeeps DEF StagesSame

\* Evict
LEMMA EvictKeeps ==
    ASSUME IInv, NEW s \in Scans, Evict(s)
    PROVE  IInv'
<1>1. /\ Quietly(last_used, query) /\ NoHistory /\ UNCHANGED Settings
      /\ op[s].pc = "evict" /\ op[s].order # <<>>
      /\ op'[s].pc = "evict" /\ GoesOn(s) /\ op'[s].snap = {}
      /\ op'[s].order = Tail(op[s].order) /\ op'[s].bytes = BytesOf(Range(op'[s].order))
      /\ op'[s].disturbed = op[s].disturbed /\ op'[s].touched = op[s].touched
      /\ op'[s] \in OpType /\ BecomesAndDisturbs(s, op'[s], {})
  BY EvictFacts
<1> PICK h \in StageIds : h = Head(op[s].order)
  BY <1>1, ListedFacts
<1>2. \A d \in Dbs, k \in Keys :
        cache'[d][k] = IF d = Db(s) /\ k = stage[h].key /\ cache[d][k] = h
                       THEN None ELSE cache[d][k]
  BY EvictFacts
<1>3. /\ h \in Listed(op[s]) /\ h \in registry /\ stage[h].key \in Keys /\ stage[h].db = Db(s)
      /\ Range(Tail(op[s].order)) = Listed(op[s]) \ {h}
      /\ \A m \in DOMAIN Tail(op[s].order) : m \in Nat /\ m + 1 \in DOMAIN op[s].order
           /\ Tail(op[s].order)[m] = op[s].order[m + 1]
      /\ \A m, n \in DOMAIN Tail(op[s].order) :
           m # n => Tail(op[s].order)[m] # Tail(op[s].order)[n]
  BY <1>1, ListedFacts
<1>4. /\ TypeOK' /\ Kept /\ UseFrom(last_used) /\ used' = used
  BY <1>1 DEF Quietly, Settings
<1>5. /\ op[s].key \in Keys /\ CallOK(s) /\ RoomOK(s) /\ Db(s) \in Dbs
      /\ registry \subseteq StageIds /\ CacheOK
  BY <1>1, CallFacts DEF IInv, TypeOK
<1>6. Others(s)
  <2>1. \A d \in Dbs, k \in Keys : d # Db(s) => cache'[d][k] = cache[d][k]
    BY <1>2
  <2>2. PICK o \in OpType : o = op'[s]
    BY <1>1
  <2>3. PICK touch \in SUBSET StageIds : touch = {}
    OBVIOUS
  <2> QED
    BY <1>1, <1>4, <2>1, <2>2, <2>3, DisturbedOthers
<1>7. Listed(op'[s]) = Listed(op[s]) \ {h} /\ Listed(op'[s]) = Range(op'[s].order)
  BY <1>1, <1>3 DEF Listed
<1>8. \A i \in Listed(op'[s]) : i \in registry /\ stage[i].key \in Keys /\ stage[i].db = Db(s)
  BY <1>5, <1>7 DEF CallOK
<1>9. /\ \A i \in Listed(op'[s]) :
           i \in registry' /\ stage'[i].key \in Keys /\ stage'[i].db = Db(s)
      /\ BytesOf(Listed(op[s]))' = BytesOf(Listed(op'[s]))
  BY <1>4, <1>8, ListedKept
<1>10. CallOK(s)'
  <2>1. StageIs(op[s].cur, op[s].key, Db(s))'
    BY <1>1, <1>4, CurIs DEF StageIs, Db, GoesOn, Caches, Has
  <2>2. op'[s].bytes = BytesOf(Listed(op[s]))'
    BY <1>1, <1>7, <1>9
  <2>3. op'[s].caching /\ op'[s].key \in Keys
    BY <1>1, <1>5 DEF CallOK, Caches, GoesOn
  <2>4. \A m, n \in DOMAIN op'[s].order : m # n => op'[s].order[m] # op'[s].order[n]
    BY <1>1, <1>3
  <2> QED
    BY <1>1, <1>9, <2>1, <2>2, <2>3, <2>4 DEF CallOK, Db
<1>11. RoomOK(s)'
  <2>1. ~op'[s].disturbed => Cached(Db(s))' = Listed(op'[s])
    <3> SUFFICES ASSUME ~op'[s].disturbed PROVE Cached(Db(s))' = Listed(op'[s])
      OBVIOUS
    <3>1. Cached(Db(s)) = Listed(op[s])
      BY <1>1, <1>5 DEF RoomOK
    <3>2. cache[Db(s)][stage[h].key] = h
      BY <1>3, <1>5, <3>1, CachedFacts
    <3>3. \A k \in Keys : cache[Db(s)][k] = h => k = stage[h].key
      BY <1>5, SharingAssumption DEF CacheOK, StageIs
    <3>4. \A k \in Keys : cache'[Db(s)][k] = IF cache[Db(s)][k] = h THEN None ELSE cache[Db(s)][k]
      BY <1>2, <1>5, <3>3
    <3>5. Cached(Db(s))' = Cached(Db(s)) \ {h}
      BY <3>4 DEF Cached, Db
    <3> QED
      BY <1>7, <3>1, <3>5
  <2>2. ASSUME op'[s].touched = {},
               NEW m \in DOMAIN op'[s].order, NEW n \in DOMAIN op'[s].order, m < n
        PROVE  <<op'[s].order[m], op'[s].order[n]>> \in last_used'
    <3>1. /\ m \in Nat /\ n \in Nat /\ m + 1 \in DOMAIN op[s].order /\ n + 1 \in DOMAIN op[s].order
          /\ op'[s].order[m] = op[s].order[m + 1] /\ op'[s].order[n] = op[s].order[n + 1]
      BY <1>1, <1>3, <2>2
    <3>2. m + 1 < n + 1
      BY <2>2, <3>1
    <3>3. <<op'[s].order[m], op'[s].order[n]>> \in last_used
      BY <1>1, <1>5, <2>2, <3>1, <3>2 DEF RoomOK
    <3>4. op'[s].order[m] \in Listed(op'[s]) /\ op'[s].order[n] \in Listed(op'[s])
      BY <2>2 DEF Listed, Range
    <3>5. op'[s].order[m] \in Entries(cache', op') /\ op'[s].order[n] \in Entries(cache', op')
      BY <1>5, <1>8, <3>4, Uses
    <3> QED
      BY <1>4, <3>3, <3>5 DEF UseFrom
  <2> QED
    BY <1>1, <2>1, <2>2 DEF RoomOK, Db
<1>12. \A d \in Dbs, k \in Keys : cache'[d][k] \in {cache[d][k], None}
  BY <1>2
<1>13. op[s].pc \in Unseen /\ op'[s].pc \in Caches
  BY <1>1 DEF Unseen, Caches
<1> QED
  BY <1>1, <1>6, <1>10, <1>11, <1>12, <1>13, GoesOnKeeps

\* RoomMade
LEMMA RoomMadeKeeps ==
    ASSUME IInv, NEW s \in Scans, RoomMade(s)
    PROVE  IInv'
<1>1. /\ \/ /\ Fits(s) /\ op'[s].pc = "put" /\ GoesOn(s)
            /\ op'[s].snap = {} /\ op'[s].order = <<>>
            /\ op'[s].disturbed = op[s].disturbed /\ Quietly(last_used, query)
         \/ /\ op'[s] = Using(s, op[s].cur)
            /\ Quietly(last_used, [query EXCEPT ![Conn(s)][op[s].key] = op[s].cur])
      /\ Alone(s) /\ NoHistory /\ UNCHANGED cache /\ UNCHANGED Settings
      /\ op[s].pc = "evict"
  BY RoomMadeFacts
<1>2. /\ op[s].key \in Keys /\ CallOK(s) /\ RoomOK(s) /\ UnseenOK(s) /\ Db(s) \in Dbs
      /\ op \in [Scans -> OpType] /\ op[s].pc \in Unseen
  BY <1>1, CallFacts DEF IInv, Unseen
<1>3. TypeOK' /\ Kept /\ StagesSame /\ registry' \subseteq registry /\ UseFrom(last_used)
  BY <1>1 DEF Quietly
<1>4. used' = used
  BY <1>1 DEF Settings
<1>5. Others(s)
  BY <1>1, <1>3, <1>4, AloneOthers
<1>6. PICK i \in StageIds : i = op[s].cur
  BY <1>2, CallFacts DEF Unseen
<1>7. CASE /\ Fits(s) /\ op'[s].pc = "put" /\ GoesOn(s)
           /\ op'[s].snap = {} /\ op'[s].order = <<>>
           /\ op'[s].disturbed = op[s].disturbed /\ Quietly(last_used, query)
  <2>1. op'[s].caching /\ op'[s].key = op[s].key /\ op'[s].pc \in Caches
    BY <1>1, <1>2, <1>7 DEF CallOK, GoesOn, Caches
  <2>2. /\ op'[s].cur \in StageIds
        /\ stage'[op'[s].cur].key = op[s].key /\ stage'[op'[s].cur].db = Db(s)
    BY <1>1, <1>3, <1>7, CurIs DEF GoesOn, Caches, Has
  <2>3. CallOK(s)'
    BY <1>2, <1>7, <2>1, <2>2, PlainCall
  <2>4. RoomOK(s)'
    <3> SUFFICES ASSUME ~op[s].disturbed
                 PROVE  /\ BytesOf(Cached(Db(s)))' + Bytes[op[s].key] <= Half(Db(s))
                        /\ used[Db(s)] + BytesOf(Cached(Db(s)))' + Bytes[op[s].key] <= Limit[Db(s)]
      BY <1>4, <1>7, <2>1 DEF RoomOK, Db, Half
    <3>1. Cached(Db(s)) = Listed(op[s])
      BY <1>1, <1>2 DEF RoomOK
    <3>2. op[s].bytes = BytesOf(Cached(Db(s)))
      BY <1>1, <1>2, <3>1 DEF CallOK
    <3>3. BytesOf(Cached(Db(s)))' = BytesOf(Cached(Db(s)))
      BY <1>1, <1>2, <1>3, CachedSame
    <3>4. CachedBytes(Db(s)) = BytesOf(Cached(Db(s)))
      BY <1>2, CachedFacts
    <3> QED
      BY <1>7, <3>2, <3>3, <3>4 DEF Fits, UsedMemory
  <2> QED
    BY <1>1, <1>2, <1>5, <1>7, <2>1, <2>3, <2>4, GoesOnKeeps
<1>8. CASE /\ op'[s] = Using(s, op[s].cur)
           /\ Quietly(last_used, [query EXCEPT ![Conn(s)][op[s].key] = op[s].cur])
  <2>1. /\ op'[s].pc = "using" /\ op'[s].key = op[s].key
        /\ op'[s].cur = i /\ op'[s].snap = {} /\ op'[s].order = <<>> /\ ~op'[s].caching
        /\ op'[s].under = op[s].under
    BY <1>2, <1>6, <1>8, UsingType
  <2>2. /\ stage'[i] = stage[i] /\ i \notin registry
        /\ KnownNow(Conn(s), op[s].key, i, op[s].under)
        /\ \A t \in Scans \ {s} : op[t].cur # i
        /\ Warns /\ WarnedNow(Conn(s), op[s].key)
    BY <1>1, <1>2, <1>3, <1>6, <2>1, UnseenFacts
  <2>3. stage'[i].key = op[s].key /\ stage'[i].db = Db(s)
    BY <1>1, <1>3, <1>6, <2>1, CurIs DEF Caches, Has
  <2>4. QueryFrom([query EXCEPT ![Conn(s)][op[s].key] = i])
    BY <1>6, <1>8 DEF Quietly
  <2>5. NoClips
    BY <1>1 DEF NoHistory
  <2> QED
    BY <1>1, <1>3, <1>5, <2>1, <2>2, <2>3, <2>4, <2>5, UsesKeeps DEF StagesSame
<1> QED
  BY <1>1, <1>7, <1>8

\* Put
LEMMA PutKeeps ==
    ASSUME IInv, NEW s \in Scans, Put(s)
    PROVE  IInv'
<1>1. /\ Quietly(Touch(op[s].cur), query) /\ NoHistory /\ UNCHANGED Settings
      /\ op[s].pc = "put" /\ op'[s].pc = "add" /\ GoesOn(s)
      /\ op'[s].snap = {} /\ op'[s].order = <<>>
      /\ op'[s] \in OpType /\ BecomesAndDisturbs(s, op'[s], {})
      /\ \A d \in Dbs, k \in Keys :
           cache'[d][k] = IF d = Db(s) /\ k = op[s].key THEN op[s].cur ELSE cache[d][k]
  BY PutFacts
<1>2. /\ TypeOK /\ op[s].key \in Keys /\ CallOK(s) /\ UnseenOK(s)
      /\ op[s].pc \in Unseen /\ op[s].pc \in Caches
  BY <1>1, CallFacts DEF IInv, Unseen, Caches
<1>3. PICK i \in StageIds : i = op[s].cur
  BY <1>2, CallFacts DEF Unseen
<1>4. TypeOK' /\ Kept /\ UseFrom(Touch(i)) /\ used' = used
  BY <1>1, <1>3 DEF Quietly, Settings
<1>5. Others(s)
  <2>1. /\ Touch(i) \in SUBSET (StageIds \X StageIds)
        /\ \A m, n \in StageIds : m # i /\ n # i /\ <<m, n>> \in last_used => <<m, n>> \in Touch(i)
    BY <1>2, TouchType
  <2>2. i \notin registry
    BY <1>2, <1>3 DEF UnseenOK
  <2>3. PICK use \in SUBSET (StageIds \X StageIds) : use = Touch(i)
    BY <2>1
  <2>4. PICK o \in OpType : o = op'[s]
    BY <1>1
  <2>5. PICK touch \in SUBSET StageIds : touch = {}
    OBVIOUS
  <2> HIDE DEF Touch
  <2>6. \A d \in Dbs, k \in Keys : d # Db(s) => cache'[d][k] = cache[d][k]
    BY <1>1
  <2> QED
    BY <1>1, <1>4, <2>1, <2>2, <2>3, <2>4, <2>5, <2>6, DisturbedOthers
<1>6. op'[s].caching /\ op'[s].key = op[s].key /\ op'[s].pc \in Caches
  BY <1>1, <1>2 DEF CallOK, GoesOn, Caches
<1>7. /\ op'[s].cur \in StageIds
      /\ stage'[op'[s].cur].key = op[s].key /\ stage'[op'[s].cur].db = Db(s)
  BY <1>1, <1>2, <1>4, CurIs DEF GoesOn, Has
<1>8. CallOK(s)'
  BY <1>1, <1>2, <1>6, <1>7, PlainCall
<1>9. RoomOK(s)'
  BY <1>1 DEF RoomOK
<1>10. PICK use : use = Touch(op[s].cur)
  OBVIOUS
<1> QED
  BY <1>1, <1>2, <1>5, <1>6, <1>8, <1>9, <1>10, GoesOnKeeps

\* Add
LEMMA AddKeeps ==
    ASSUME IInv, NEW s \in Scans, Add(s)
    PROVE  IInv'
<1>1. PICK i \in StageIds : i = op[s].cur
  <2>1. op[s].pc = "add"
    BY AddFacts
  <2> QED
    BY <2>1, CallFacts
<1>2. /\ TypeOK' /\ Kept /\ registry' = (registry \cup {i}) \cap Entries(cache', op')
      /\ \A j \in StageIds : j # i /\ InUse(j)' => stage'[j] = stage[j]
      /\ stage'[i] = [stage[i] EXCEPT !.late = op[s].late]
      /\ UseFrom(last_used) /\ QueryFrom([query EXCEPT ![Conn(s)][op[s].key] = i])
      /\ NoHistory /\ UNCHANGED cache /\ UNCHANGED Settings
      /\ op[s].pc = "add" /\ op'[s] = Using(s, i)
      /\ BecomesAndDisturbs(s, Using(s, i), {})
  BY <1>1, AddFacts
<1>3. /\ TypeOK /\ op[s].key \in Keys /\ UnseenOK(s) /\ \A t \in Scans : UnseenOK(t)
      /\ op \in [Scans -> OpType] /\ StageIs(i, op[s].key, Db(s)) /\ KnownOK /\ WarningsOK
      /\ op[s].pc \in Caches /\ stage[i] \in StageType /\ used' = used
      /\ Conn(s) \in Conns
  BY <1>1, <1>2, CallFacts DEF IInv, Caches, TypeOK, Settings
<1>4. /\ Using(s, i) \in OpType /\ op'[s].pc = "using" /\ op'[s].key = op[s].key
      /\ op'[s].cur = i /\ op'[s].snap = {} /\ op'[s].order = <<>> /\ ~op'[s].caching
      /\ op'[s].under = op[s].under
  BY <1>2, <1>3, UsingType
<1>5. /\ stage'[i].key = op[s].key /\ stage'[i].db = Db(s)
      /\ stage'[i].outside = stage[i].outside /\ stage'[i].refused = stage[i].refused
      /\ stage'[i].late = op[s].late
  BY <1>2, <1>3 DEF StageIs, StageType
<1>6. Others(s)
  <2>1. PICK o \in OpType : o = Using(s, i)
    BY <1>4
  <2>2. PICK touch \in SUBSET StageIds : touch = {}
    OBVIOUS
  <2> QED
    BY <1>2, <1>3, <2>1, <2>2, DisturbedOthers
<1>7. NoClips /\ KnownNow(Conn(s), op[s].key, i, op[s].under)
  BY <1>1, <1>2, <1>3, <1>5 DEF KnownOK, Known, KnownNow, Has, NoHistory, NoClips
<1>8. /\ \A t \in Scans \ {s} : op[t].pc \in Unseen => op[t].cur # i
      /\ \A t \in Scans \ {s} : op[t].pc \in Caches => op[t].cur # i
  BY <1>1, <1>3 DEF UnseenOK
<1>9. Warns /\ WarnedNow(Conn(s), op[s].key)
  BY <1>2, <1>3, NoHistoryWarns DEF WarningsOK, Warns
<1>10. /\ op[s].cur = i
       /\ op[s].late => stage'[i].late
       /\ i \in Entries(cache', op') => i \in registry'
  BY <1>1, <1>2, <1>5
<1> QED
  BY <1>2, <1>3, <1>4, <1>5, <1>6, <1>7, <1>8, <1>9, <1>10, UsesKeeps

\* A call that a step of none of the calls leaves waiting
LEMMA AllWait ==
    ASSUME IInv, TypeOK', Kept, UseFrom(last_used), NEW t \in Scans, Waits(t),
           op'[t].touched = op[t].touched,
           \/ Caching(t) /\ op'[t].disturbed
           \/ /\ op'[t] = op[t] /\ used'[Db(t)] <= used[Db(t)]
              /\ \A k \in Keys : cache'[Db(t)][k] = cache[Db(t)][k]
           \/ ~Caching(t)
    PROVE  CallOK(t)' /\ RoomOK(t)'
<1>1. CallOK(t)'
  BY WaitingCall
<1>2. op[t].pc \in {"sort", "evict", "put"} => Caching(t)
  BY CallFacts DEF CallOK, Caches, Caching
<1>3. op[t].pc \in {"sort", "evict", "put"} =>
        \/ op'[t].disturbed
        \/ /\ ~op[t].disturbed /\ used'[Db(t)] <= used[Db(t)]
           /\ \A k \in Keys : cache'[Db(t)][k] = cache[Db(t)][k]
  BY <1>2
<1>4. \A i, j \in Listed(op[t]) : <<i, j>> \in last_used => <<i, j>> \in last_used'
  BY OrderKept
<1> QED
  BY <1>1, <1>3, <1>4, WaitingRoom

\* The calls that wait, and those that end, when nobody gets a stage
LEMMA AllUnseen ==
    ASSUME IInv, TypeOK', Kept,
           \A t \in Scans : Waits(t) \/ (op'[t].pc \notin Caches /\ op'[t].cur = None),
           \A j \in StageIds : InUse(j)' => stage'[j].late = stage[j].late,
           registry' \subseteq registry, CachesGet(None), QueriesGet(None)
    PROVE  \A t \in Scans : UnseenOK(t)'
<1> SUFFICES ASSUME NEW t \in Scans PROVE UnseenOK(t)'
  OBVIOUS
<1>1. CASE op'[t].pc \notin Caches
  BY <1>1, NotCaching
<1>2. CASE op'[t].pc \in Caches
  <2>1. op'[t].pc = op[t].pc /\ op'[t].cur = op[t].cur
    BY <1>2 DEF Waits
  <2>2. PICK j \in StageIds : j = op[t].cur
    BY <1>2, <2>1, CallFacts DEF Caches
  <2>3. InUse(j)'
    BY <2>1, <2>2, Uses
  <2>4. CallsGet(None)
    BY DEF Waits, CallsGet
  <2>5. \A u \in Scans \ {t} : op'[u].pc \in Caches =>
          (op[u].pc \in Caches /\ op'[u].cur = op[u].cur) \/ op'[u].cur # op[t].cur
    BY DEF Waits
  <2>6. j # None
    BY SharingAssumption
  <2> QED
    BY <2>1, <2>2, <2>3, <2>4, <2>5, <2>6, StillUnseen
<1> QED
  BY <1>1, <1>2

\* CheckClip, OpenClip
LEMMA ClipKeeps ==
    ASSUME IInv, NEW s \in Scans, CheckClip(s) \/ OpenClip(s)
    PROVE  IInv'
<1>1. op[s].pc = "using"
  BY CheckClipFacts, OpenClipFacts
<1>2. PICK i \in StageIds : i = op[s].cur
  BY <1>1, CallFacts
<1>3. /\ TypeOK' /\ Kept /\ registry' \subseteq registry
      /\ \A j \in StageIds : j # i /\ InUse(j)' => stage'[j] = stage[j]
      /\ stage'[i].late = stage[i].late
      /\ stage'[i].outside => stage[i].outside \/ MarkedNow(i, "outside")
      /\ stage'[i].refused => stage[i].refused \/ MarkedNow(i, "refused")
      /\ UseFrom(last_used) /\ QueryFrom(query)
      /\ ClipsGrow /\ reading' \subseteq reading \cup {s}
      /\ NoWarnings /\ UNCHANGED Settings /\ op' = op /\ cache' = cache
  <2>1. CASE CheckClip(s)
    BY <1>2, <2>1, CheckClipFacts
  <2>2. CASE OpenClip(s)
    BY <1>2, <2>2, OpenClipFacts
  <2> QED
    BY <2>1, <2>2
<1>4. used' = used /\ session' = session /\ global' = global /\ setting' = setting
      /\ restricted' = restricted
  BY <1>3 DEF Settings
<1>5. TypeOK /\ ReadingOK
  BY DEF IInv
<1>6. \A t \in Scans : Waits(t)
  BY <1>3 DEF Waits
<1>7. \A t \in Scans : CallOK(t)' /\ RoomOK(t)'
  <2> SUFFICES ASSUME NEW t \in Scans PROVE CallOK(t)' /\ RoomOK(t)'
    OBVIOUS
  <2>1. used[Db(t)] <= used[Db(t)]
    BY <1>5, CallFacts DEF TypeOK
  <2> QED
    BY <1>3, <1>4, <1>6, <2>1, AllWait
<1>8. CachesGet(None)
  BY <1>3 DEF CachesGet
<1>9. QueryOK' /\ QueriesGet(None)
  BY <1>3, QueryKept
<1>10. \A t \in Scans : UnseenOK(t)'
  BY <1>3, <1>6, <1>8, <1>9, AllUnseen
<1>11. CacheOK'
  BY <1>3, <1>8, SharingAssumption, CacheKept
<1>12. UnderOK'
  BY <1>3, <1>4, <1>9, UnderKept DEF QueriesGet
<1>13. \A c \in Conns, k \in Keys : query'[c][k] # None => query'[c][k] = query[c][k]
  BY <1>3 DEF QueryFrom
<1>14. KnownOK'
  <2>1. \A t \in Scans : op'[t].pc # "idle" =>
          /\ op[t].pc # "idle" /\ (op'[t].under <=> op[t].under)
          /\ \A k \in Keys : clips[Conn(t)][k] \subseteq clips'[Conn(t)][k]
    BY <1>3, CallFacts DEF ClipsGrow
  <2>2. \A j \in StageIds : InUse(j)' =>
          /\ stage'[j].outside => stage[j].outside \/ MarkedNow(j, "outside")
          /\ stage'[j].refused => stage[j].refused \/ MarkedNow(j, "refused")
    BY <1>3
  <2>3. \A t \in Scans : op'[t].pc \in Has =>
          op[t].pc \in Has /\ op'[t].key = op[t].key /\ op'[t].cur = op[t].cur
    BY <1>3
  <2> QED
    BY <1>3, <1>13, <2>1, <2>2, <2>3, KnownKept
<1>15. WarningsOK'
  <2>1. Warns
    BY <1>3 DEF NoWarnings, Warns, Warned, WarnedNow
  <2> QED
    BY <1>3, <1>13, <2>1, WarningsKept
<1>16. SettingOK'
  <2>1. \A t \in Scans : Caching(t)' => Caching(t) /\ op'[t].late = op[t].late
    BY <1>3 DEF Caching
  <2> QED
    BY <1>3, <1>4, <2>1, SettingKept
<1>17. ReadingOK'
  BY <1>1, <1>3, <1>5 DEF ReadingOK
<1> QED
  BY <1>3, <1>7, <1>9, <1>10, <1>11, <1>12, <1>14, <1>15, <1>16, <1>17, Together

\* EndQuery
LEMMA EndQueryKeeps ==
    ASSUME IInv, NEW c \in Conns, EndQuery(c)
    PROVE  IInv'
<1>1. /\ Quietly(last_used, QueryEnd(c)) /\ UNCHANGED Settings /\ UNCHANGED cache
      /\ \A s \in Scans :
           IF Conn(s) = c
           THEN op[s].pc \in {"idle", "done"} /\ op'[s] = NoCall("idle", FALSE)
           ELSE op'[s] = op[s]
      /\ warned' = [warned EXCEPT ![c] = [k \in Keys |-> 0]]
      /\ quiet' = [quiet EXCEPT ![c] = {}] /\ reading' = reading
      /\ \A e \in Conns, k \in Keys : e # c => clips'[e][k] = clips[e][k]
  BY EndQueryFacts
<1>2. /\ TypeOK' /\ Kept /\ StagesSame /\ registry' \subseteq registry /\ UseFrom(last_used)
      /\ QueryFrom(QueryEnd(c))
  BY <1>1 DEF Quietly
<1>3. used' = used /\ session' = session /\ global' = global /\ setting' = setting
      /\ restricted' = restricted
  BY <1>1 DEF Settings
<1>4. TypeOK /\ UnderOK /\ WarningsOK /\ ReadingOK
  BY DEF IInv
<1>5. \A s \in Scans : Conn(s) = c =>
        /\ op[s].pc \in {"idle", "done"} /\ op'[s].pc = "idle" /\ op'[s].cur = None
        /\ op'[s].snap = {} /\ op'[s].order = <<>> /\ ~op'[s].caching /\ ~op'[s].under
  BY <1>1 DEF NoCall
<1>6. \A s \in Scans : Conn(s) # c => op'[s] = op[s] /\ Waits(s)
  BY <1>1 DEF Waits
<1>7. \A e \in Conns, k \in Keys : query'[e][k] # None => e # c /\ query'[e][k] = query[e][k]
  BY <1>2, <1>4 DEF QueryFrom, QueryEnd, TypeOK
<1>8. QueryFrom(query)
  BY <1>7 DEF QueryFrom
<1>9. \A t \in Scans : CallOK(t)' /\ RoomOK(t)'
  <2> SUFFICES ASSUME NEW t \in Scans PROVE CallOK(t)' /\ RoomOK(t)'
    OBVIOUS
  <2>1. CASE Conn(t) = c
    <3>1. op'[t].pc \notin Has /\ op'[t].pc \notin Caches
      BY <1>5, <2>1 DEF Caches, Has
    <3> QED
      BY <1>5, <2>1, <3>1, PlainCall, NotCaching
  <2>2. CASE Conn(t) # c
    <3>1. used[Db(t)] <= used[Db(t)]
      BY <1>4, CallFacts DEF TypeOK
    <3> QED
      BY <1>1, <1>2, <1>3, <1>6, <2>2, <3>1, AllWait
  <2> QED
    BY <2>1, <2>2
<1>10. CachesGet(None)
  BY <1>1 DEF CachesGet
<1>11. QueryOK' /\ QueriesGet(None)
  BY <1>2, <1>8, QueryKept
<1>12. \A t \in Scans : UnseenOK(t)'
  <2>1. \A t \in Scans : Waits(t) \/ (op'[t].pc \notin Caches /\ op'[t].cur = None)
    BY <1>5, <1>6 DEF Caches, Has
  <2>2. \A j \in StageIds : InUse(j)' => stage'[j].late = stage[j].late
    BY <1>2 DEF StagesSame
  <2> QED
    BY <1>2, <1>10, <1>11, <2>1, <2>2, AllUnseen
<1>13. CacheOK'
  <2>1. \A t \in Scans : op[t].pc = "add" => op'[t].pc = "add" /\ op'[t].cur = op[t].cur
    BY <1>5, <1>6
  <2> QED
    BY <1>2, <1>10, <2>1, SharingAssumption, CacheKept
<1>14. UnderOK'
  <2>1. \A t \in Scans : op'[t].under => Db(t)' \in restricted'
    BY <1>3, <1>4, <1>5, <1>6 DEF UnderOK, Db
  <2>2. \A t, u \in Scans : Conn(t)' = Conn(u)' /\ op'[t].pc # "idle" /\ op'[u].pc # "idle" =>
          (op'[t].under <=> op'[u].under)
    BY <1>4, <1>5, <1>6 DEF UnderOK, Conn
  <2>3. \A e \in Conns, k \in Keys : QueryIdle(e)' => query'[e][k] = None
    <3> SUFFICES ASSUME NEW e \in Conns, NEW k \in Keys, QueryIdle(e)', e # c
                 PROVE  query'[e][k] = None
      BY <1>7
    <3>1. QueryIdle(e)
      BY <1>6 DEF QueryIdle, Conn
    <3> QED
      BY <1>4, <1>7, <3>1 DEF UnderOK
  <2> QED
    BY <2>1, <2>2, <2>3 DEF UnderOK
<1>15. KnownOK'
  <2>1. \A t \in Scans : op'[t].pc # "idle" => Conn(t) # c /\ op'[t] = op[t]
    BY <1>5, <1>6
  <2>2. \A t \in Scans : op'[t].pc # "idle" =>
          /\ op[t].pc # "idle" /\ (op'[t].under <=> op[t].under)
          /\ \A k \in Keys : clips[Conn(t)][k] \subseteq clips'[Conn(t)][k]
    BY <1>1, <2>1, CallFacts
  <2>3. \A j \in StageIds : InUse(j)' =>
          /\ stage'[j].outside => stage[j].outside
          /\ stage'[j].refused => stage[j].refused
    BY <1>2 DEF StagesSame
  <2>4. \A t \in Scans : op'[t].pc \in Has =>
          op[t].pc \in Has /\ op'[t].key = op[t].key /\ op'[t].cur = op[t].cur
    BY <2>1 DEF Has, Caches
  <2> QED
    BY <1>2, <1>7, <2>2, <2>3, <2>4, KnownKept
<1>16. WarningsOK'
  <2>1. \A e \in Conns, k \in Keys : e # c => warned'[e][k] = warned[e][k] /\ quiet'[e] = quiet[e]
    BY <1>1, <1>4 DEF TypeOK
  <2>2. \A t \in Scans : op'[t].pc \in Caches \cup {"using"} => WarnedNow(Conn(t), op'[t].key)
    <3> SUFFICES ASSUME NEW t \in Scans, op'[t].pc \in Caches \cup {"using"}
                 PROVE  WarnedNow(Conn(t), op'[t].key)
      OBVIOUS
    <3>1. Conn(t) # c /\ op'[t] = op[t]
      BY <1>5, <1>6 DEF Caches
    <3>2. Conn(t) \in Conns /\ op[t].key \in Keys
      BY <3>1, CallFacts DEF Caches
    <3> QED
      BY <1>4, <2>1, <3>1, <3>2 DEF WarningsOK, Warned, WarnedNow
  <2>3. \A e \in Conns, k \in Keys : query'[e][k] # None => WarnedNow(e, k)
    BY <1>4, <1>7, <2>1 DEF WarningsOK, Warned, WarnedNow
  <2> QED
    BY <2>2, <2>3 DEF WarningsOK, Warned, WarnedNow, Conn
<1>17. SettingOK'
  <2>1. \A t \in Scans : Caching(t)' => Caching(t) /\ op'[t].late = op[t].late
    BY <1>5, <1>6 DEF Caching
  <2>2. \A t \in Scans : op[t].pc = "add" =>
          op'[t].pc = "add" /\ op'[t].cur = op[t].cur /\ op'[t].late = op[t].late
    BY <1>5, <1>6
  <2> QED
    BY <1>1, <1>2, <1>3, <2>1, <2>2, SettingKept
<1>18. ReadingOK'
  BY <1>1, <1>4, <1>5, <1>6 DEF ReadingOK, TypeOK
<1> QED
  BY <1>2, <1>9, <1>11, <1>12, <1>13, <1>14, <1>15, <1>16, <1>17, <1>18, Together

\* A step of none of the calls that takes stages from the caches
LEMMA CallsKeep ==
    ASSUME IInv, Quietly(last_used, query), NoHistory, restricted' = restricted,
           CachesGet(None), SettingOK',
           \A t \in Scans :
             /\ Waits(t) /\ op'[t].touched = op[t].touched
             /\ \/ Caching(t) /\ op'[t].disturbed
                \/ /\ op'[t] = op[t] /\ used'[Db(t)] <= used[Db(t)]
                   /\ \A k \in Keys : cache'[Db(t)][k] = cache[Db(t)][k]
                \/ ~Caching(t)
    PROVE  IInv'
<1>1. /\ TypeOK' /\ Kept /\ StagesSame /\ registry' \subseteq registry /\ UseFrom(last_used)
      /\ QueryFrom(query)
  BY DEF Quietly
<1>2. \A t \in Scans : CallOK(t)' /\ RoomOK(t)'
  BY <1>1, AllWait
<1>3. QueryOK' /\ QueriesGet(None)
  BY <1>1, QueryKept
<1>4. \A t \in Scans : UnseenOK(t)'
  <2>1. \A j \in StageIds : InUse(j)' => stage'[j].late = stage[j].late
    BY <1>1 DEF StagesSame
  <2> QED
    BY <1>1, <1>3, <2>1, AllUnseen
<1>5. \A t \in Scans :
        /\ op'[t].pc = op[t].pc /\ op'[t].key = op[t].key /\ op'[t].cur = op[t].cur
        /\ op'[t].under = op[t].under
  BY DEF Waits
<1>6. CacheOK'
  BY <1>1, <1>5, SharingAssumption, CacheKept
<1>7. UnderOK'
  BY <1>3, <1>5, UnderKept DEF QueriesGet
<1>8. \A c \in Conns, k \in Keys : query'[c][k] # None => query'[c][k] = query[c][k]
  BY <1>1 DEF QueryFrom
<1>9. KnownOK' /\ ReadingOK'
  <2>1. \A j \in StageIds : InUse(j)' =>
          /\ stage'[j].outside => stage[j].outside
          /\ stage'[j].refused => stage[j].refused
    BY <1>1 DEF StagesSame
  <2>2. \A t \in Scans : op'[t].pc # "idle" =>
          /\ op[t].pc # "idle" /\ (op'[t].under <=> op[t].under)
          /\ \A k \in Keys : clips[Conn(t)][k] \subseteq clips'[Conn(t)][k]
    BY <1>5 DEF NoHistory, NoClips
  <2>3. \A t \in Scans : op'[t].pc \in Has =>
          op[t].pc \in Has /\ op'[t].key = op[t].key /\ op'[t].cur = op[t].cur
    BY <1>5
  <2>4. KnownOK'
    BY <1>1, <1>8, <2>1, <2>2, <2>3, KnownKept
  <2>5. ReadingOK'
    BY <1>5, ReadingKept DEF NoHistory, NoClips
  <2> QED
    BY <2>4, <2>5
<1>10. WarningsOK'
  <2>1. Warns
    BY NoHistoryWarns
  <2> QED
    BY <1>5, <1>8, <2>1, WarningsKept
<1> QED
  BY <1>1, <1>2, <1>3, <1>4, <1>6, <1>7, <1>9, <1>10, Together

\* SetStageCache: what stays in the cache, or will be put there, overlaps the change
LEMMA SetStageCacheKeeps ==
    ASSUME IInv, NEW c \in Conns, NEW scope \in Scopes, SetStageCache(c, scope)
    PROVE  IInv'
<1> PICK d \in Dbs : d = DbOf[c]
  BY SetStageCacheFacts
<1>1. /\ Quietly(last_used, query) /\ NoHistory
      /\ session' = session /\ global' = global /\ restricted' = restricted /\ used' = used
      /\ setting' = [setting EXCEPT ![c] = scope] /\ scope # "none"
      /\ \A s \in Scans :
           /\ Waits(s) /\ op'[s].touched = op[s].touched
           /\ IF Db(s) = d /\ Caching(s) THEN op'[s].disturbed /\ op'[s].late ELSE op'[s] = op[s]
      /\ \A e \in Dbs, k \in Keys :
           cache'[e][k] = IF e = d /\ cache[e][k] \in OwnStages(d) THEN None ELSE cache[e][k]
  BY SetStageCacheFacts
<1>2. /\ TypeOK /\ CacheOK /\ SettingOK /\ \A s \in Scans : CallOK(s)
      /\ \A s \in Scans : Db(s) \in Dbs
  BY CallFacts DEF IInv
<1>3. TypeOK' /\ Kept /\ StagesSame
  BY <1>1 DEF Quietly
<1>4. CachesGet(None)
  BY <1>1 DEF CachesGet
<1>5. \A s \in Scans :
        /\ op'[s].pc = op[s].pc /\ op'[s].cur = op[s].cur /\ op'[s].caching = op[s].caching
        /\ op[s].late => op'[s].late
  BY <1>1 DEF Waits
<1>6. \A s \in Scans : (Caching(s)' <=> Caching(s))
  BY <1>5 DEF Caching
<1>7. SettingOK'
  <2> SUFFICES ASSUME NEW e \in Dbs, (Off(e) \/ Changing(e))'
               PROVE  /\ \A k \in Keys : cache'[e][k] # None =>
                           \/ stage'[cache'[e][k]].late
                           \/ \E s \in Scans :
                                op'[s].pc = "add" /\ op'[s].late /\ op'[s].cur = cache'[e][k]
                      /\ \A s \in Scans : Db(s) = e /\ Caching(s)' => op'[s].late
    BY DEF SettingOK, Db
  <2>1. CASE e = d
    <3>1. \A s \in Scans : Db(s) = e /\ Caching(s)' => op'[s].late
      BY <1>1, <1>6, <2>1
    <3>2. ASSUME NEW k \in Keys, cache'[e][k] # None
          PROVE  \E s \in Scans : op'[s].pc = "add" /\ op'[s].late /\ op'[s].cur = cache'[e][k]
      <4>1. cache'[e][k] = cache[e][k] /\ cache[e][k] \notin OwnStages(d)
        BY <1>1, <2>1, <3>2
      <4>2. /\ StageIs(cache[e][k], k, e)
            /\ cache[e][k] \in registry \/ \E s \in Scans : op[s].pc = "add" /\ op[s].cur = cache[e][k]
        BY <1>2, <3>2, <4>1 DEF CacheOK
      <4>3. PICK s \in Scans : op[s].pc = "add" /\ op[s].cur = cache[e][k]
        BY <2>1, <4>1, <4>2 DEF OwnStages, StageIs
      <4>4. Db(s) = e /\ Caching(s)
        BY <1>2, <4>2, <4>3 DEF CallOK, StageIs, Has, Caches, Caching
      <4> QED
        BY <1>1, <1>5, <2>1, <4>1, <4>3, <4>4
    <3> QED
      BY <3>1, <3>2
  <2>2. CASE e # d
    <3>1. \A f \in Conns : DbOf[f] = e => f # c /\ setting'[f] = setting[f]
      BY <1>1, <1>2, <2>2 DEF TypeOK
    <3>2. Off(e) \/ Changing(e)
      BY <1>1, <3>1 DEF Off, Changing, StageCacheEnabled
    <3>3. \A s \in Scans : Db(s) = e /\ Caching(s) => op[s].late
      BY <1>2, <3>2 DEF SettingOK
    <3>4. \A s \in Scans : Db(s) = e /\ Caching(s)' => op'[s].late
      BY <1>5, <1>6, <3>3
    <3>5. ASSUME NEW k \in Keys, cache'[e][k] # None
          PROVE  \/ stage'[cache'[e][k]].late
                 \/ \E s \in Scans : op'[s].pc = "add" /\ op'[s].late /\ op'[s].cur = cache'[e][k]
      <4>1. cache'[e][k] = cache[e][k]
        BY <1>1, <2>2
      <4>2. PICK j \in StageIds : j = cache[e][k]
        BY <1>2, <3>5, <4>1 DEF CacheOK, StageIs
      <4>3. stage'[j] = stage[j]
        BY <1>3, <4>1, <4>2, Uses DEF StagesSame
      <4>4. \/ stage[j].late
            \/ \E s \in Scans : op[s].pc = "add" /\ op[s].late /\ op[s].cur = j
        BY <1>2, <3>2, <3>5, <4>1, <4>2 DEF SettingOK
      <4> QED
        BY <1>5, <4>1, <4>2, <4>3, <4>4
    <3> QED
      BY <3>4, <3>5
  <2> QED
    BY <2>1, <2>2
<1>8. \A t \in Scans :
        \/ Caching(t) /\ op'[t].disturbed
        \/ /\ op'[t] = op[t] /\ used'[Db(t)] <= used[Db(t)]
           /\ \A k \in Keys : cache'[Db(t)][k] = cache[Db(t)][k]
        \/ ~Caching(t)
  <2>1. \A e \in Dbs : used[e] <= used[e]
    BY <1>2 DEF TypeOK
  <2> QED
    BY <1>1, <1>2, <2>1
<1> QED
  BY <1>1, <1>4, <1>7, <1>8, CallsKeep

\* UseMemory
LEMMA UseMemoryKeeps ==
    ASSUME IInv, NEW d \in Dbs, NEW n \in Needs, NEW kept \in SUBSET Keys, UseMemory(d, n, kept)
    PROVE  IInv'
<1>1. /\ Quietly(last_used, query) /\ NoHistory
      /\ session' = session /\ global' = global /\ restricted' = restricted /\ setting' = setting
      /\ \A e \in Dbs : e # d => used'[e] = used[e]
      /\ \A s \in Scans :
           /\ Waits(s) /\ op'[s].touched = op[s].touched /\ op'[s].late = op[s].late
           /\ IF Db(s) = d THEN op'[s].disturbed <=> Caching(s) ELSE op'[s] = op[s]
      /\ \A e \in Dbs, k \in Keys :
           cache'[e][k] = IF e = d /\ k \notin kept THEN None ELSE cache[e][k]
  BY UseMemoryFacts
<1>2. TypeOK /\ \A s \in Scans : Db(s) \in Dbs
  BY CallFacts DEF IInv
<1>3. TypeOK' /\ Kept
  BY <1>1 DEF Quietly
<1>4. CachesGet(None)
  BY <1>1 DEF CachesGet
<1>5. SettingOK'
  <2>1. \A t \in Scans : op[t].pc = "add" =>
          op'[t].pc = "add" /\ op'[t].cur = op[t].cur /\ op'[t].late = op[t].late
    BY <1>1 DEF Waits
  <2>2. \A t \in Scans : Caching(t)' => Caching(t) /\ op'[t].late = op[t].late
    BY <1>1 DEF Caching, Waits
  <2>3. \A e \in Dbs, k \in Keys : cache'[e][k] # None => cache'[e][k] = cache[e][k]
    BY <1>1
  <2> QED
    BY <1>1, <1>3, <2>1, <2>2, <2>3, SettingKept
<1>6. \A t \in Scans :
        \/ Caching(t) /\ op'[t].disturbed
        \/ /\ op'[t] = op[t] /\ used'[Db(t)] <= used[Db(t)]
           /\ \A k \in Keys : cache'[Db(t)][k] = cache[Db(t)][k]
        \/ ~Caching(t)
  <2>1. \A e \in Dbs : used[e] <= used[e]
    BY <1>2 DEF TypeOK
  <2> QED
    BY <1>1, <1>2, <2>1
<1> QED
  BY <1>1, <1>4, <1>5, <1>6, CallsKeep

\* A change of the settings only
LEMMA SettingsKeep ==
    ASSUME IInv, TypeOK', UNCHANGED <<stage, cache, registry, last_used, query, op>>, NoHistory,
           restricted \subseteq restricted', \A d \in Dbs : used'[d] <= used[d],
           \A d \in Dbs : (Off(d) \/ Changing(d))' => Off(d) \/ Changing(d)
    PROVE  IInv'
<1>1. /\ stage' = stage /\ cache' = cache /\ registry' = registry /\ last_used' = last_used
      /\ query' = query /\ op' = op
  OBVIOUS
<1>2. warned' = warned /\ quiet' = quiet /\ reading' = reading /\ clips' = clips
  BY DEF NoHistory, NoWarnings, NoClips
<1>3. TypeOK /\ \A d \in Dbs : used[d] \in Nat /\ used'[d] \in Nat /\ Limit[d] \in Nat
  BY SharingAssumption DEF IInv, TypeOK
<1>4. CacheOK'
  BY <1>1 DEF IInv, CacheOK, StageIs
<1>5. QueryOK'
  BY <1>1 DEF IInv, QueryOK, StageIs
<1>6. RegistryOK'
  BY <1>1 DEF IInv, RegistryOK, Held
<1>7. UnderOK'
  BY <1>1 DEF IInv, UnderOK, QueryIdle, Db, Conn
<1>8. KnownOK' /\ ReadingOK'
  BY <1>1, <1>2 DEF IInv, KnownOK, Known, ReadingOK, Conn
<1>9. WarningsOK'
  BY <1>1, <1>2 DEF IInv, WarningsOK, Warned, Conn
<1>10. SettingOK'
  BY <1>1 DEF IInv, SettingOK, Caching, Db
<1>11. ASSUME NEW t \in Scans
       PROVE  CallOK(t)' /\ UnseenOK(t)' /\ RoomOK(t)'
  <2>1. CallOK(t)'
    <3>1. BytesOf(Listed(op[t]))' = BytesOf(Listed(op[t]))
      BY <1>1 DEF BytesOf, Listed
    <3> QED
      BY <1>1, <3>1 DEF IInv, CallOK, StageIs, Db
  <2>2. UnseenOK(t)'
    BY <1>1 DEF IInv, UnseenOK
  <2>3. RoomOK(t)'
    <3>1. BytesOf(Cached(Db(t)))' = BytesOf(Cached(Db(t))) /\ BytesOf(Cached(Db(t))) \in Nat
      <4>1. BytesOf(Cached(Db(t)))' = BytesOf(Cached(Db(t)))
        BY <1>1 DEF BytesOf, Cached, Db
      <4> QED
        BY <4>1, CallFacts, CachedFacts
    <3>2. Cached(Db(t))' = Cached(Db(t))
      BY <1>1 DEF Cached, Db
    <3>3. RoomOK(t) /\ Db(t) \in Dbs /\ op[t] \in OpType
      BY CallFacts DEF IInv
    <3>4. op[t].pc = "put" => Bytes[op[t].key] \in Nat
      BY CallFacts, SharingAssumption
    <3>5. /\ used[Db(t)] \in Nat /\ used'[Db(t)] \in Nat /\ used'[Db(t)] <= used[Db(t)]
          /\ Limit[Db(t)] \in Nat
      BY <1>3, <3>3
    <3>6. op[t].pc \in {"sort", "evict"} /\ ~op[t].disturbed => Cached(Db(t)) = Listed(op[t])
      BY <3>3 DEF RoomOK
    <3>7. op[t].pc = "put" /\ ~op[t].disturbed =>
            /\ BytesOf(Cached(Db(t))) + Bytes[op[t].key] <= Half(Db(t))
            /\ used[Db(t)] + BytesOf(Cached(Db(t))) + Bytes[op[t].key] <= Limit[Db(t)]
      BY <3>3 DEF RoomOK
    <3>8. op[t].pc = "evict" /\ op[t].touched = {} =>
            \A m, n \in DOMAIN op[t].order : m < n => <<op[t].order[m], op[t].order[n]>> \in last_used
      BY <3>3 DEF RoomOK
    <3>9. op[t].pc = "put" /\ ~op[t].disturbed =>
            used'[Db(t)] + BytesOf(Cached(Db(t))) + Bytes[op[t].key] <= Limit[Db(t)]
      BY <3>1, <3>4, <3>5, <3>7
    <3> QED
      BY <1>1, <3>1, <3>2, <3>6, <3>7, <3>8, <3>9 DEF RoomOK, Db, Half
  <2> QED
    BY <2>1, <2>2, <2>3
<1> QED
  BY <1>4, <1>5, <1>6, <1>7, <1>8, <1>9, <1>10, <1>11 DEF IInv

\* StoreSetting: what may have been on for a database being changed is off
LEMMA StoreSettingKeeps ==
    ASSUME IInv, NEW c \in Conns, StoreSetting(c)
    PROVE  IInv'
<1>1. TypeOK /\ \A e \in Dbs : used[e] <= used[e]
  BY DEF IInv, TypeOK
<1>2. /\ setting[c] # "none" /\ setting' = [setting EXCEPT ![c] = "none"]
      /\ session' = IF setting[c] = "session" THEN [session EXCEPT ![c] = "off"] ELSE session
      /\ global' = IF setting[c] = "global" THEN global \ {DbOf[c]} ELSE global
      /\ UNCHANGED <<stage, cache, registry, last_used, query, op>> /\ NoHistory
      /\ restricted' = restricted /\ used' = used
  BY DEF StoreSetting
<1>3. /\ \A f \in Conns : f # c => setting'[f] = setting[f] /\ session'[f] = session[f]
      /\ \A e \in Dbs : e # DbOf[c] => (e \in global' <=> e \in global)
  BY <1>1, <1>2 DEF TypeOK
<1>4. TypeOK'
  BY <1>1, <1>2 DEF TypeOK, NoHistory, NoWarnings, NoClips
<1>5. \A e \in Dbs : (Off(e) \/ Changing(e))' => Off(e) \/ Changing(e)
  <2> SUFFICES ASSUME NEW e \in Dbs, (Off(e) \/ Changing(e))' PROVE Off(e) \/ Changing(e)
    OBVIOUS
  <2>1. CASE e = DbOf[c]
    BY <1>2, <2>1 DEF Changing
  <2>2. CASE e # DbOf[c]
    BY <1>3, <2>2 DEF Off, Changing, StageCacheEnabled
  <2> QED
    BY <2>1, <2>2
<1> QED
  BY <1>1, <1>2, <1>4, <1>5, SettingsKeep

\* EnableCache: who has the cache on keeps it on
LEMMA EnableCacheKeeps ==
    ASSUME IInv, NEW c \in Conns, NEW scope \in Scopes, EnableCache(c, scope)
    PROVE  IInv'
<1>1. TypeOK /\ \A e \in Dbs : used[e] <= used[e]
  BY DEF IInv, TypeOK
<1>2. /\ ~StageCacheEnabled(c) /\ setting' = setting
      /\ session' = IF scope = "session" THEN [session EXCEPT ![c] = "on"] ELSE session
      /\ global' = IF scope = "global" THEN global \cup {DbOf[c]} ELSE global
      /\ UNCHANGED <<stage, cache, registry, last_used, query, op>> /\ NoHistory
      /\ restricted' = restricted /\ used' = used
  BY DEF EnableCache
<1>3. TypeOK'
  BY <1>1, <1>2, SharingAssumption DEF TypeOK, NoHistory, NoWarnings, NoClips
<1>4. \A f \in Conns : StageCacheEnabled(f) => StageCacheEnabled(f)'
  BY <1>1, <1>2 DEF StageCacheEnabled, TypeOK
<1>5. \A e \in Dbs : (Off(e) \/ Changing(e))' => Off(e) \/ Changing(e)
  BY <1>2, <1>4 DEF Off, Changing
<1> QED
  BY <1>1, <1>2, <1>3, <1>5, SettingsKeep

\* RestrictAccess
LEMMA RestrictAccessKeeps ==
    ASSUME IInv, NEW d \in Dbs, RestrictAccess(d)
    PROVE  IInv'
<1>1. TypeOK /\ \A e \in Dbs : used[e] <= used[e]
  BY DEF IInv, TypeOK
<1>2. TypeOK'
  BY <1>1 DEF RestrictAccess, NoHistory, NoWarnings, NoClips, TypeOK
<1>3. \A e \in Dbs : (Off(e) \/ Changing(e))' => Off(e) \/ Changing(e)
  BY DEF RestrictAccess, Off, Changing, StageCacheEnabled
<1> QED
  BY <1>1, <1>2, <1>3, SettingsKeep DEF RestrictAccess

\* FreeMemory
LEMMA FreeMemoryKeeps ==
    ASSUME IInv, NEW d \in Dbs, FreeMemory(d)
    PROVE  IInv'
<1>1. TypeOK
  BY DEF IInv
<1>2. TypeOK' /\ \A e \in Dbs : used'[e] <= used[e]
  BY <1>1 DEF FreeMemory, NoHistory, NoWarnings, NoClips, TypeOK
<1>3. \A e \in Dbs : (Off(e) \/ Changing(e))' => Off(e) \/ Changing(e)
  BY DEF FreeMemory, Off, Changing, StageCacheEnabled
<1> QED
  BY <1>2, <1>3, SettingsKeep DEF FreeMemory

\* No step at all
LEMMA StutterKeeps ==
    ASSUME IInv, UNCHANGED vars
    PROVE  IInv'
<1>1. TypeOK /\ \A e \in Dbs : used[e] <= used[e]
  BY DEF IInv, TypeOK
<1>2. TypeOK'
  BY <1>1 DEF vars, TypeOK
<1>3. \A e \in Dbs : (Off(e) \/ Changing(e))' => Off(e) \/ Changing(e)
  BY DEF vars, Off, Changing, StageCacheEnabled
<1> QED
  BY <1>1, <1>2, <1>3, SettingsKeep DEF vars, NoHistory, NoWarnings, NoClips

\* The first state
LEMMA InitKeeps ==
    ASSUME Init
    PROVE  IInv
<1>1. /\ stage = [i \in StageIds |-> FreeStage] /\ cache = [d \in Dbs |-> [k \in Keys |-> None]]
      /\ registry = {} /\ last_used = {} /\ query = [c \in Conns |-> [k \in Keys |-> None]]
      /\ session = [c \in Conns |-> "unset"] /\ global = Dbs
      /\ setting = [c \in Conns |-> "none"] /\ restricted = {} /\ used = [d \in Dbs |-> 0]
      /\ op = [s \in Scans |-> NoCall("idle", FALSE)]
      /\ warned = [c \in Conns |-> [k \in Keys |-> 0]] /\ quiet = [c \in Conns |-> {}]
      /\ reading = {} /\ clips = [c \in Conns |-> [k \in Keys |-> {}]]
  BY DEF Init
<1>2. \A s \in Scans :
        /\ op[s] \in OpType /\ op[s].pc = "idle" /\ op[s].cur = None /\ op[s].snap = {}
        /\ op[s].order = <<>> /\ ~op[s].caching /\ ~op[s].under
  <2>1. NoCall("idle", FALSE) \in OpType
    BY NoCallType
  <2> QED
    BY <1>1, <2>1 DEF NoCall
<1>3. TypeOK
  <2>1. stage \in [StageIds -> StageType]
    <3>1. FreeStage \in StageType
      BY DEF FreeStage, StageOf, StageType
    <3> HIDE DEF FreeStage, StageType
    <3> QED
      BY <1>1, <3>1
  <2>2. op \in [Scans -> OpType]
    BY <1>1, <1>2
  <2>3. /\ cache \in [Dbs -> [Keys -> StageIds \cup {None}]] /\ registry \subseteq StageIds
        /\ last_used \subseteq StageIds \X StageIds
        /\ query \in [Conns -> [Keys -> StageIds \cup {None}]]
    BY <1>1
  <2>4. /\ session \in [Conns -> {"on", "off", "unset"}] /\ global \subseteq Dbs
        /\ setting \in [Conns -> {"none", "session", "global"}] /\ restricted \subseteq Dbs
        /\ quiet \in [Conns -> SUBSET Keys]
    BY <1>1
  <2>5. /\ used \in [Dbs -> Nat] /\ warned \in [Conns -> [Keys -> 0 .. 2]]
        /\ reading \subseteq Scans
        /\ clips \in [Conns -> [Keys -> SUBSET {"outside", "refused"}]]
    BY <1>1
  <2> QED
    BY <2>1, <2>2, <2>3, <2>4, <2>5 DEF TypeOK
<1>4. \A s \in Scans : CallOK(s)
  <2> SUFFICES ASSUME NEW s \in Scans PROVE CallOK(s)
    OBVIOUS
  <2>1. Listed(op[s]) = {}
    BY <1>2 DEF Listed, Range
  <2> QED
    BY <1>2, <2>1 DEF CallOK, Calls, Has, Caches
<1>5. \A s \in Scans : UnseenOK(s) /\ RoomOK(s)
  BY <1>2 DEF UnseenOK, RoomOK, Caches, Unseen
<1>6. CacheOK /\ QueryOK /\ RegistryOK
  BY <1>1 DEF CacheOK, QueryOK, RegistryOK
<1>7. UnderOK /\ KnownOK /\ ReadingOK /\ WarningsOK
  BY <1>1, <1>2 DEF UnderOK, KnownOK, ReadingOK, WarningsOK, Has, Caches
<1>8. SettingOK
  BY <1>1, <1>2 DEF SettingOK, Caching
<1> QED
  BY <1>3, <1>4, <1>5, <1>6, <1>7, <1>8 DEF IInv

\* A step of a call to Open
LEMMA WorkKeeps ==
    ASSUME IInv, NEW s \in Scans, Work(s)
    PROVE  IInv'
<1>1. CASE Lookup(s)
  BY <1>1, LookupKeeps
<1>10. CASE Find(s)
  BY <1>10, FindKeeps
<1>2. CASE OpenStage(s)
  BY <1>2, OpenStageKeeps
<1>3. CASE OpenRefused(s)
  BY <1>3, EndKeeps
<1>4. CASE MakeRoom(s)
  BY <1>4, MakeRoomKeeps
<1>5. CASE Sort(s)
  BY <1>5, SortKeeps
<1>6. CASE Evict(s)
  BY <1>6, EvictKeeps
<1>7. CASE RoomMade(s)
  BY <1>7, RoomMadeKeeps
<1>8. CASE Put(s)
  BY <1>8, PutKeeps
<1>9. CASE Add(s)
  BY <1>9, AddKeeps
<1> QED
  BY <1>1, <1>2, <1>3, <1>4, <1>5, <1>6, <1>7, <1>8, <1>9, <1>10 DEF Work

\* Any step
LEMMA StepKeeps ==
    ASSUME IInv, [Next]_vars
    PROVE  IInv'
<1>1. CASE \E s \in Scans : Work(s)
  BY <1>1, WorkKeeps
<1>2. CASE \E s \in Scans : CheckClip(s) \/ OpenClip(s)
  BY <1>2, ClipKeeps
<1>3. CASE \E s \in Scans : FinishScan(s)
  BY <1>3, EndKeeps
<1>4. CASE \E s \in Scans, k \in Keys, w \in BOOLEAN : BeginScan(s, k, w)
  BY <1>4, BeginScanKeeps
<1>5. CASE \E c \in Conns : EndQuery(c)
  BY <1>5, EndQueryKeeps
<1>6. CASE \E c \in Conns : StoreSetting(c)
  BY <1>6, StoreSettingKeeps
<1>7. CASE \E c \in Conns, scope \in Scopes : SetStageCache(c, scope)
  BY <1>7, SetStageCacheKeeps
<1>8. CASE \E c \in Conns, scope \in Scopes : EnableCache(c, scope)
  BY <1>8, EnableCacheKeeps
<1>9. CASE \E d \in Dbs : RestrictAccess(d)
  BY <1>9, RestrictAccessKeeps
<1>10. CASE \E d \in Dbs : FreeMemory(d)
  BY <1>10, FreeMemoryKeeps
<1>11. CASE \E d \in Dbs, n \in Needs, kept \in SUBSET Keys : UseMemory(d, n, kept)
  BY <1>11, UseMemoryKeeps
<1>12. CASE UNCHANGED vars
  BY <1>12, StutterKeeps
<1> QED
  BY <1>1, <1>2, <1>3, <1>4, <1>5, <1>6, <1>7, <1>8, <1>9, <1>10, <1>11, <1>12 DEF Next

-----------------------------------------------------------------------------
(* Who moves in a step *)

\* A step of a call to Open leaves the others where they are
LEMMA WorkMoves ==
    ASSUME IInv, NEW t \in Scans, Work(t)
    PROVE  \A s \in Scans \ {t} : op'[s].pc = op[s].pc /\ op'[s].order = op[s].order
<1>1. op \in [Scans -> OpType]
  BY CallFacts
<1>2. Alone(t) \/ \E o \in OpType, touch \in SUBSET StageIds : BecomesAndDisturbs(t, o, touch)
  <2>1. CASE Lookup(t)
    BY <2>1, LookupFacts
  <2>10. CASE Find(t)
    <3>1. PICK i \in StageIds : i = op[t].cur
      <4>1. op[t].pc = "found"
        BY <2>10, FindFacts
      <4> QED
        BY <4>1, CallFacts
    <3>2. BecomesAndDisturbs(t, Using(t, i), {i})
      BY <2>10, <3>1, FindFacts
    <3>3. Using(t, i) \in OpType /\ {i} \in SUBSET StageIds
      BY <1>1, UsingType
    <3> HIDE DEF Using, BecomesAndDisturbs
    <3> QED
      BY <3>2, <3>3
  <2>2. CASE OpenStage(t)
    BY <2>2, OpenStageFacts
  <2>3. CASE OpenRefused(t)
    BY <2>3, EndFacts
  <2>4. CASE MakeRoom(t)
    BY <2>4, MakeRoomFacts
  <2>5. CASE Sort(t)
    BY <2>5, SortFacts
  <2>6. CASE Evict(t)
    BY <2>6, EvictFacts
  <2>7. CASE RoomMade(t)
    BY <2>7, RoomMadeFacts
  <2>8. CASE Put(t)
    BY <2>8, PutFacts
  <2>9. CASE Add(t)
    <3>1. PICK i \in StageIds : i = op[t].cur
      <4>1. op[t].pc = "add"
        BY <2>9, AddFacts
      <4> QED
        BY <4>1, CallFacts
    <3>2. BecomesAndDisturbs(t, Using(t, i), {})
      BY <2>9, <3>1, AddFacts
    <3>3. Using(t, i) \in OpType
      BY <1>1, UsingType
    <3> HIDE DEF Using, BecomesAndDisturbs
    <3> QED
      BY <3>2, <3>3
  <2> QED
    BY <2>1, <2>2, <2>3, <2>4, <2>5, <2>6, <2>7, <2>8, <2>9, <2>10 DEF Work
<1>3. ASSUME NEW o \in OpType, NEW touch \in SUBSET StageIds, BecomesAndDisturbs(t, o, touch)
      PROVE  \A s \in Scans \ {t} : Waits(s)
  BY <1>1, <1>3, DisturbsType
<1> QED
  BY <1>2, <1>3 DEF Alone, Waits

\* What a call to Open does next
LEMMA WorkAt ==
    ASSUME IInv, NEW s \in Scans, Work(s)
    PROVE  /\ op[s].pc = "lookup" => Lookup(s)
           /\ op[s].pc = "found" => Find(s)
           /\ op[s].pc = "evict" => Evict(s) \/ RoomMade(s)
           /\ op[s].pc = "put" => Put(s)
<1>1. OpenStage(s) => op[s].pc = "open"
  BY OpenStageFacts
<1>2. OpenRefused(s) => op[s].pc \in {"open", "using"}
  BY EndFacts
<1>3. MakeRoom(s) => op[s].pc = "room"
  BY MakeRoomFacts
<1>4. Sort(s) => op[s].pc = "sort"
  BY SortFacts
<1>5. Add(s) => op[s].pc = "add"
  BY AddFacts
<1>6. /\ Lookup(s) => op[s].pc = "lookup"
      /\ Find(s) => op[s].pc = "found"
      /\ Evict(s) \/ RoomMade(s) => op[s].pc = "evict"
      /\ Put(s) => op[s].pc = "put"
  BY LookupFacts, FindFacts, EvictFacts, RoomMadeFacts, PutFacts
<1> QED
  BY <1>1, <1>2, <1>3, <1>4, <1>5, <1>6 DEF Work

\* A call to Open goes on in its own steps only
LEMMA Moves ==
    ASSUME IInv, [Next]_vars, NEW s \in Scans
    PROVE  \/ op'[s].pc = op[s].pc /\ op'[s].order = op[s].order
           \/ op[s].pc \in {"idle", "done", "using"}
           \/ Work(s)
<1>1. CASE \E t \in Scans : Work(t)
  BY <1>1, WorkMoves
<1>2. CASE \E t \in Scans : CheckClip(t) \/ OpenClip(t)
  BY <1>2 DEF CheckClip, OpenClip
<1>3. CASE \E t \in Scans : FinishScan(t)
  <2>1. PICK t \in Scans : FinishScan(t)
    BY <1>3
  <2>2. Alone(t) /\ op[t].pc = "using"
    BY <2>1, EndFacts DEF FinishScan
  <2> QED
    BY <2>2 DEF Alone
<1>4. CASE \E t \in Scans, k \in Keys, w \in BOOLEAN : BeginScan(t, k, w)
  <2>1. PICK t \in Scans, k \in Keys, w \in BOOLEAN : BeginScan(t, k, w)
    BY <1>4
  <2>2. Alone(t) /\ op[t].pc = "idle"
    BY <2>1, BeginScanFacts DEF IInv
  <2> QED
    BY <2>2 DEF Alone
<1>5. CASE \E c \in Conns : EndQuery(c)
  BY <1>5, EndQueryFacts
<1>6. CASE \E c \in Conns : StoreSetting(c)
  BY <1>6 DEF StoreSetting
<1>7. CASE \E c \in Conns, scope \in Scopes : SetStageCache(c, scope)
  BY <1>7, SetStageCacheFacts DEF Waits
<1>8. CASE \E c \in Conns, scope \in Scopes : EnableCache(c, scope)
  BY <1>8 DEF EnableCache
<1>9. CASE \E d \in Dbs : RestrictAccess(d)
  BY <1>9 DEF RestrictAccess
<1>10. CASE \E d \in Dbs : FreeMemory(d)
  BY <1>10 DEF FreeMemory
<1>11. CASE \E d \in Dbs, n \in Needs, kept \in SUBSET Keys : UseMemory(d, n, kept)
  BY <1>11, UseMemoryFacts DEF Waits
<1>12. CASE UNCHANGED vars
  BY <1>12 DEF vars
<1> QED
  BY <1>1, <1>2, <1>3, <1>4, <1>5, <1>6, <1>7, <1>8, <1>9, <1>10, <1>11, <1>12 DEF Next

\* Put adds no more than the new stage takes
LEMMA PutAdds ==
    ASSUME IInv, NEW s \in Scans, Put(s)
    PROVE  LET d == Db(s)
           IN  /\ CachedBytes(d)' \in Nat
               /\ CachedBytes(d)' <= BytesOf(Cached(d)) + Bytes[op[s].key]
<1>1. PICK d \in Dbs : d = Db(s)
  BY CallFacts
<1>2. /\ Quietly(Touch(op[s].cur), query) /\ op[s].pc = "put" /\ GoesOn(s)
      /\ \A e \in Dbs, k \in Keys :
           cache'[e][k] = IF e = d /\ k = op[s].key THEN op[s].cur ELSE cache[e][k]
  BY <1>1, PutFacts
<1>3. PICK i \in StageIds : i = op[s].cur /\ stage[i].key = op[s].key /\ op[s].key \in Keys
  BY <1>2, CallFacts DEF StageIs
<1>4. TypeOK' /\ StagesSame
  BY <1>2 DEF Quietly
<1>5. /\ Cached(d) \in SUBSET StageIds
      /\ \A j \in Cached(d) : stage[j].key \in Keys
      /\ BytesOf(Cached(d)) = Memory(stage, Cached(d)) /\ BytesOf(Cached(d)) \in Nat
  BY CachedFacts
<1>6. PICK new \in SUBSET StageIds : new = Cached(d)'
  <2>1. cache' \in [Dbs -> [Keys -> StageIds \cup {None}]]
    BY <1>4 DEF TypeOK
  <2>2. \A k \in Keys : cache'[d][k] \in StageIds \cup {None}
    BY <2>1
  <2>3. Cached(d)' \in SUBSET StageIds
    BY <2>2 DEF Cached
  <2> QED
    BY <2>3
<1>7. i \in new /\ new \ {i} \subseteq Cached(d)
  <2>1. /\ cache'[d][op[s].key] = i
        /\ \A k \in Keys : k # op[s].key => cache'[d][k] = cache[d][k]
    BY <1>2, <1>3
  <2>2. i # None
    BY SharingAssumption
  <2>3. \A j : j \in new <=> j # None /\ \E k \in Keys : cache'[d][k] = j
    BY <1>6 DEF Cached
  <2>4. \A j : j \in Cached(d) <=> j # None /\ \E k \in Keys : cache[d][k] = j
    BY DEF Cached
  <2> QED BY <1>3, <2>1, <2>2, <2>3, <2>4
<1>8. \A j \in new : stage'[j] = stage[j] /\ stage[j].key \in Keys
  <2> SUFFICES ASSUME NEW j \in new PROVE stage'[j] = stage[j] /\ stage[j].key \in Keys
    OBVIOUS
  <2>1. PICK k \in Keys : cache'[d][k] = j
    BY <1>6 DEF Cached
  <2>2. InUse(j)'
    BY <2>1, Uses
  <2> QED
    BY <1>3, <1>4, <1>5, <1>7, <2>2 DEF StagesSame
<1>9. /\ Memory(stage, new) = Bytes[op[s].key] + Memory(stage, new \ {i})
      /\ Memory(stage, new \ {i}) \in Nat /\ Bytes[op[s].key] \in Nat
  <2>1. \A j \in new : stage[j].key \in Keys
    BY <1>8
  <2>2. /\ Memory(stage, new) = Bytes[stage[i].key] + Memory(stage, new \ {i})
        /\ Memory(stage, new \ {i}) \in Nat /\ Bytes[stage[i].key] \in Nat
    BY <1>7, <2>1, MemoryRemove
  <2> QED
    BY <1>3, <2>2
<1>10. Memory(stage, new \ {i}) <= Memory(stage, Cached(d))
  BY <1>5, <1>7, MemorySubset
<1>11. Memory(stage', new) = Memory(stage, new)
  BY <1>8, MemorySame
<1>12. CachedBytes(d)' = Memory(stage', new)
  <2>1. Range(cache'[d]) \ {None} = new
    BY <1>4, <1>6 DEF Cached, Range, TypeOK
  <2> QED
    BY <2>1 DEF CachedBytes, BytesOf, Memory
<1>13. CachedBytes(Db(s))' = CachedBytes(d)'
  BY <1>1 DEF CachedBytes, Db
<1> QED
  BY <1>1, <1>5, <1>9, <1>10, <1>11, <1>12, <1>13

-----------------------------------------------------------------------------
(* What calls that overlap can exceed the half by *)

\* A finite set of integers has a greatest element
LEMMA MaxIs ==
    ASSUME NEW S, \A x \in S : x \in Int, IsFiniteSet(S), S # {}
    PROVE  Max(S) \in S /\ \A x \in S : x <= Max(S)
<1> DEFINE Without == {T \in SUBSET S : T # {} /\ ~ \E x \in T : \A y \in T : x >= y}
<1>1. Without = {}
  <2> SUFFICES ASSUME Without # {} PROVE FALSE
    OBVIOUS
  <2>1. Without \in SUBSET SUBSET S /\ Without # {} /\ IsFiniteSet(S)
    OBVIOUS
  <2>2. \A T : T \in Without <=> T \subseteq S /\ T # {} /\ ~ \E x \in T : \A y \in T : x >= y
    OBVIOUS
  <2> HIDE DEF Without
  <2>3. PICK T \in Without : \A U \in Without : U \subseteq T => U = T
    BY <2>1, SmallestSet
  <2>4. PICK x \in T : TRUE
    BY <2>2
  <2>5. T \ {x} \subseteq S /\ T \ {x} \subseteq T /\ T \ {x} # T /\ x \in Int
    BY <2>2, <2>4
  <2>6. T \ {x} \notin Without
    BY <2>3, <2>5
  <2>7. CASE T \ {x} = {}
    <3>1. \A y \in T : x >= y
      BY <2>5, <2>7
    <3> QED
      BY <3>1, <2>2, <2>4
  <2>8. CASE T \ {x} # {}
    <3>1. PICK z \in T \ {x} : \A y \in T \ {x} : z >= y
      BY <2>2, <2>5, <2>6, <2>8
    <3>2. z \in T /\ z \in Int /\ \A y \in T : y \in Int
      BY <2>2, <3>1
    <3>3. CASE z >= x
      <4>1. \A y \in T : z >= y
        BY <3>1, <3>3
      <4> QED
        BY <2>2, <3>2, <4>1
    <3>4. CASE ~(z >= x)
      <4>1. \A y \in T : x >= y
        <5> SUFFICES ASSUME NEW y \in T PROVE x >= y
          OBVIOUS
        <5>1. y = x \/ z >= y
          BY <3>1
        <5> QED
          BY <2>5, <3>2, <3>4, <5>1
      <4> QED
        BY <2>2, <2>4, <4>1
    <3> QED
      BY <3>3, <3>4
  <2> QED
    BY <2>7, <2>8
<1>2. \E x \in S : \A y \in S : x >= y
  BY <1>1
<1>3. Max(S) \in S /\ \A y \in S : Max(S) >= y
  BY <1>2 DEF Max
<1> QED
  BY <1>3

\* Some of the stages take at most their number times the largest size
LEMMA MemoryAtMost ==
    ASSUME NEW st, NEW ids \in SUBSET StageIds, \A j \in ids : st[j].key \in Keys,
           NEW some \in SUBSET ids, NEW M \in Nat, \A k \in Keys : Bytes[k] <= M
    PROVE  Memory(st, ids) <= Memory(st, ids \ some) + Cardinality(some) * M
<1> DEFINE Above == {U \in SUBSET some :
                       ~(Memory(st, ids) <= Memory(st, ids \ U) + Cardinality(U) * M)}
<1> SUFFICES ASSUME Above # {} PROVE FALSE
  OBVIOUS
<1>0. IsFiniteSet(some) /\ IsFiniteSet(ids)
  BY SharingAssumption, FS_Subset
<1>1. Above \in SUBSET SUBSET some
  OBVIOUS
<1>2. \A U : U \in Above <=>
        /\ U \subseteq some
        /\ ~(Memory(st, ids) <= Memory(st, ids \ U) + Cardinality(U) * M)
  OBVIOUS
<1> HIDE DEF Above
<1>3. PICK U \in Above : \A X \in Above : X \subseteq U => X = U
  BY <1>0, <1>1, SmallestSet
<1>4. U \in SUBSET some /\ U \in SUBSET ids /\ IsFiniteSet(U) /\ Memory(st, ids) \in Nat
  BY <1>0, <1>2, FS_Subset, MemoryType
<1>5. U # {}
  <2> SUFFICES ASSUME U = {} PROVE FALSE
    OBVIOUS
  <2>1. Cardinality(U) = 0 /\ ids \ U = ids
    BY FS_EmptySet
  <2>2. Cardinality(U) * M = 0
    BY <2>1
  <2> QED
    BY <1>2, <1>4, <2>1, <2>2
<1>6. PICK i \in U : TRUE
  BY <1>5
<1> DEFINE V == U \ {i}
<1>7. V \subseteq some /\ V \subseteq U /\ V # U
  BY <1>4, <1>6
<1>8. Memory(st, ids) <= Memory(st, ids \ V) + Cardinality(V) * M
  BY <1>2, <1>3, <1>7
<1>9. Cardinality(V) = Cardinality(U) - 1 /\ Cardinality(U) \in Nat /\ Cardinality(V) \in Nat
  BY <1>4, <1>6, FS_RemoveElement, FS_CardinalityType
<1>10. /\ Memory(st, ids \ V) = Bytes[st[i].key] + Memory(st, ids \ U)
       /\ Memory(st, ids \ U) \in Nat /\ Bytes[st[i].key] \in Nat /\ Bytes[st[i].key] <= M
  <2>1. PICK rest \in SUBSET StageIds : rest = ids \ V
    OBVIOUS
  <2>2. i \in rest /\ rest \ {i} = ids \ U /\ \A j \in rest : st[j].key \in Keys
    BY <1>4, <1>6, <2>1
  <2>3. /\ Memory(st, rest) = Bytes[st[i].key] + Memory(st, rest \ {i})
        /\ Memory(st, rest \ {i}) \in Nat /\ Bytes[st[i].key] \in Nat
    BY <2>2, MemoryRemove
  <2>4. Bytes[st[i].key] <= M
    BY <2>2
  <2> QED
    BY <2>1, <2>2, <2>3, <2>4
<1>11. Cardinality(V) * M + M = Cardinality(U) * M /\ Cardinality(V) * M \in Nat
  BY <1>9
<1> HIDE DEF V
<1>12. Memory(st, ids) <= Memory(st, ids \ U) + Cardinality(U) * M
  BY <1>4, <1>8, <1>10, <1>11
<1> QED
  BY <1>2, <1>12

\* The call of s has taken its snapshot and not yet put its stage
Counts(s) == op[s].pc \in {"sort", "evict", "put"}

SizeOf(i) == IF i = None THEN 0 ELSE Bytes[stage[i].key]

\* `counted[s]' are the stages of the snapshot of a call that the cache still has, and
\* `last[s]' the stage that the thread put last, if the cache still has it
CountOK(s, d, base, last, counted) ==
    /\ counted[s] \subseteq registry
    /\ last[s] # None => last[s] \in counted[s]
    /\ counted[s] \subseteq base \/ base \subseteq counted[s]
    /\ op[s].pc \in {"sort", "evict"} => counted[s] = Listed(op[s]) \cap Cached(d)
    /\ op[s].pc = "put" => BytesOf(counted[s]) + Bytes[op[s].key] <= Half(d)

\* Some call, of thread b, counted all stages of the cache but the last ones of each
\* thread when it put its own: `base' is what is left of those it counted.  Of two
\* snapshots the later one has what the cache still has of the earlier one
Accounts(d, b, base, last, counted) ==
    /\ Db(b) = d /\ base \subseteq registry
    /\ BytesOf(base) + SizeOf(last[b]) <= Half(d)
    /\ Counts(b) => base \subseteq counted[b]
    /\ \A i \in Cached(d) \ base : \E s \in Scans : Db(s) = d /\ last[s] = i
    /\ \A s \in Scans : Db(s) = d =>
         /\ last[s] \in registry \cup {None} \/ (op[s].pc = "add" /\ last[s] = op[s].cur)
         /\ Counts(s) => CountOK(s, d, base, last, counted)
    /\ \A s, t \in Scans : Db(s) = d /\ Db(t) = d /\ Counts(s) /\ Counts(t) =>
         counted[s] \subseteq counted[t] \/ counted[t] \subseteq counted[s]

OverlapAt(d) ==
    \E b \in Scans, base \in SUBSET Cached(d), last \in [Scans -> Cached(d) \cup {None}],
       counted \in [Scans -> SUBSET Cached(d)] : Accounts(d, b, base, last, counted)

OverlapOK == \A s \in Scans : OverlapAt(Db(s))

\* The stages that the cache of d keeps are what they were; it only loses some
Stays(d) ==
    /\ \A i \in Cached(d)' : stage'[i].key = stage[i].key
    /\ registry \cap Cached(d)' \subseteq registry'
Loses(d) == Stays(d) /\ Cached(d)' \subseteq Cached(d)

\* The call of s goes on with what it has counted, or counts no longer
StillCounts(s, d) ==
    /\ Counts(s)' =>
         \/ /\ op[s].pc \in {"sort", "evict"} /\ op'[s].pc \in {"sort", "evict"}
            /\ Listed(op'[s]) \cap Cached(d)' = Listed(op[s]) \cap Cached(d)'
         \/ op[s].pc = "put" /\ op'[s].pc = "put" /\ op'[s].key = op[s].key
         \/ /\ op[s].pc = "evict" /\ op'[s].pc = "put" /\ op'[s].key = op[s].key
            /\ BytesOf(Listed(op[s])) + Bytes[op[s].key] <= Half(d)
    /\ op[s].pc = "add" =>
         \/ op'[s].pc = "add" /\ op'[s].cur = op[s].cur
         \/ op[s].cur \in Cached(d)' => op[s].cur \in registry'

\* The memory of stages that are cached before and after a step
LEMMA StillTake ==
    ASSUME IInv, NEW d \in Dbs, NEW ids \in SUBSET StageIds,
           \A i \in ids : i \in Cached(d) /\ stage'[i].key = stage[i].key
    PROVE  BytesOf(ids)' = BytesOf(ids) /\ BytesOf(ids) \in Nat
<1>1. \A i \in ids : stage[i].key \in Keys
  BY CachedFacts
<1>2. Memory(stage', ids) = Memory(stage, ids) /\ Memory(stage, ids) \in Nat
  BY <1>1, MemorySame, MemoryType
<1>3. BytesOf(ids)' = Memory(stage', ids) /\ BytesOf(ids) = Memory(stage, ids)
  BY BytesAreMemory DEF BytesOf, Memory
<1> QED
  BY <1>2, <1>3

\* Some of the stages of a cache take no more than all
LEMMA FewerTake ==
    ASSUME IInv, NEW d \in Dbs, NEW ids \in SUBSET StageIds, \A i \in ids : stage[i].key \in Keys,
           NEW some \in SUBSET ids
    PROVE  /\ BytesOf(some) <= BytesOf(ids) /\ BytesOf(ids) \in Nat /\ BytesOf(some) \in Nat
           /\ Half(d) \in Nat
<1>1. /\ Memory(stage, some) <= Memory(stage, ids) /\ Memory(stage, ids) \in Nat
      /\ Memory(stage, some) \in Nat
  BY MemorySubset, MemoryType
<1>2. BytesOf(ids) = Memory(stage, ids) /\ BytesOf(some) = Memory(stage, some)
  BY BytesAreMemory
<1>3. Half(d) \in Nat
  BY SharingAssumption DEF Half
<1> QED
  BY <1>1, <1>2, <1>3

\* What some stages still take, of those that the cache had
LEMMA LessTakes ==
    ASSUME IInv, NEW d \in Dbs, Stays(d), NEW ids \in SUBSET StageIds,
           \A i \in ids : stage[i].key \in Keys, NEW some \in SUBSET ids,
           some \subseteq Cached(d), some \subseteq Cached(d)'
    PROVE  /\ BytesOf(some)' <= BytesOf(ids) /\ BytesOf(ids) \in Nat /\ BytesOf(some)' \in Nat
           /\ Half(d) \in Nat
<1>1. \A i \in some : i \in Cached(d) /\ stage'[i].key = stage[i].key
  BY DEF Stays
<1>2. BytesOf(some)' = BytesOf(some)
  BY <1>1, StillTake
<1>3. /\ BytesOf(some) <= BytesOf(ids) /\ BytesOf(ids) \in Nat /\ BytesOf(some) \in Nat
      /\ Half(d) \in Nat
  BY FewerTake
<1> QED
  BY <1>2, <1>3

\* What a base and a last stage still take
LEMMA LessTakesLast ==
    ASSUME IInv, NEW d \in Dbs, Stays(d), NEW base \in SUBSET Cached(d),
           NEW i \in Cached(d) \cup {None}, BytesOf(base) + SizeOf(i) <= Half(d),
           NEW base2 \in SUBSET base, base2 \subseteq Cached(d)', NEW j,
           (j = i /\ i \in Cached(d)') \/ j = None
    PROVE  BytesOf(base2)' + SizeOf(j)' <= Half(d)
<1>1. /\ Cached(d) \in SUBSET StageIds /\ \A x \in Cached(d) : stage[x].key \in Keys
      /\ None \notin Cached(d)
  BY CachedFacts DEF Cached
<1>2. /\ BytesOf(base2)' <= BytesOf(base) /\ BytesOf(base) \in Nat /\ BytesOf(base2)' \in Nat
      /\ Half(d) \in Nat
  BY <1>1, LessTakes
<1>3. SizeOf(i) \in Nat
  BY <1>1, SharingAssumption DEF SizeOf
<1>4. CASE j = i /\ i \in Cached(d)'
  <2>1. SizeOf(j)' = IF i = None THEN 0 ELSE Bytes[stage'[i].key]
    BY <1>4 DEF SizeOf
  <2>2. SizeOf(j)' = SizeOf(i)
    BY <1>4, <2>1 DEF SizeOf, Stays
  <2> QED
    BY <1>2, <1>3, <2>2
<1>5. CASE j = None
  <2>1. SizeOf(j)' = 0
    BY <1>5 DEF SizeOf
  <2> QED
    BY <1>2, <1>3, <2>1
<1> QED
  BY <1>4, <1>5

\* A call goes on with what the cache still has of the stages it counted
LEMMA StillCountOK ==
    ASSUME IInv, NEW d \in Dbs, Stays(d), NEW s \in Scans, Db(s) = d, StillCounts(s, d),
           NEW base, NEW last, NEW counted \in [Scans -> SUBSET Cached(d)],
           CountOK(s, d, base, last, counted), Counts(s)',
           Listed(op[s]) \cap Cached(d)' \subseteq Cached(d),
           NEW base2, NEW last2, NEW counted2,
           counted2[s] = counted[s] \cap Cached(d)',
           (last2[s] = last[s] /\ last[s] \in Cached(d)') \/ last2[s] = None,
           counted2[s] \subseteq base2 \/ base2 \subseteq counted2[s]
    PROVE  CountOK(s, d, base2, last2, counted2)'
<1>1. /\ Cached(d) \in SUBSET StageIds /\ \A i \in Cached(d) : stage[i].key \in Keys
      /\ None \notin Cached(d) /\ registry \subseteq StageIds
  BY CachedFacts DEF Cached, IInv, TypeOK
<1>2. counted[s] \subseteq Cached(d) /\ counted2[s] \subseteq Cached(d)' /\ counted2[s] \subseteq Cached(d)
  OBVIOUS
<1>3. Counts(s)
  BY DEF StillCounts, Counts
<1>4. counted2[s] \subseteq registry'
  BY DEF CountOK, Stays
<1>5. last2[s] # None => last2[s] \in counted2[s]
  BY DEF CountOK
<1>6. op'[s].pc \in {"sort", "evict"} => counted2[s] = Listed(op'[s]) \cap Cached(d)'
  <2> SUFFICES ASSUME op'[s].pc \in {"sort", "evict"}
               PROVE  counted2[s] = Listed(op'[s]) \cap Cached(d)'
    OBVIOUS
  <2>1. op[s].pc \in {"sort", "evict"}
        /\ Listed(op'[s]) \cap Cached(d)' = Listed(op[s]) \cap Cached(d)'
    BY DEF StillCounts
  <2>2. counted[s] = Listed(op[s]) \cap Cached(d)
    BY <2>1 DEF CountOK
  <2> QED
    BY <2>1, <2>2
<1>7. op'[s].pc = "put" => BytesOf(counted2[s])' + Bytes[op'[s].key] <= Half(d)
  <2> SUFFICES ASSUME op'[s].pc = "put"
               PROVE  BytesOf(counted2[s])' + Bytes[op'[s].key] <= Half(d)
    OBVIOUS
  <2>1. op'[s].key = op[s].key /\ Bytes[op[s].key] \in Nat
    <3>1. op'[s].key = op[s].key
      BY DEF StillCounts
    <3>2. op[s].key \in Keys
      BY <1>3, CallFacts DEF Counts
    <3> QED
      BY <3>1, <3>2, SharingAssumption
  <2>2. CASE op[s].pc = "put"
    <3>1. BytesOf(counted[s]) + Bytes[op[s].key] <= Half(d)
      BY <2>2 DEF CountOK
    <3>2. counted[s] \in SUBSET StageIds /\ \A i \in counted[s] : stage[i].key \in Keys
      BY <1>1, <1>2
    <3>3. counted2[s] \in SUBSET counted[s]
      OBVIOUS
    <3>4. /\ BytesOf(counted2[s])' <= BytesOf(counted[s]) /\ BytesOf(counted[s]) \in Nat
          /\ BytesOf(counted2[s])' \in Nat /\ Half(d) \in Nat
      BY <1>2, <3>2, <3>3, LessTakes
    <3> QED
      BY <2>1, <3>1, <3>4
  <2>3. CASE op[s].pc # "put"
    <3>1. op[s].pc = "evict" /\ BytesOf(Listed(op[s])) + Bytes[op[s].key] <= Half(d)
      BY <2>3 DEF StillCounts
    <3>2. CallOK(s) /\ counted[s] = Listed(op[s]) \cap Cached(d)
      BY <3>1, CallFacts DEF CountOK
    <3>3. Listed(op[s]) \in SUBSET StageIds /\ \A i \in Listed(op[s]) : stage[i].key \in Keys
      BY <1>1, <3>2 DEF CallOK
    <3>4. counted2[s] \in SUBSET Listed(op[s])
      BY <3>2
    <3>5. /\ BytesOf(counted2[s])' <= BytesOf(Listed(op[s])) /\ BytesOf(Listed(op[s])) \in Nat
          /\ BytesOf(counted2[s])' \in Nat /\ Half(d) \in Nat
      BY <1>2, <3>3, <3>4, LessTakes
    <3> QED
      BY <2>1, <3>1, <3>5
  <2> QED
    BY <2>2, <2>3
<1> QED
  BY <1>4, <1>5, <1>6, <1>7 DEF CountOK, Half

\* The last stage of a thread stays registered, or about to be
LEMMA StillLast ==
    ASSUME NEW d \in Dbs, Stays(d), NEW s \in Scans, StillCounts(s, d), NEW i, NEW j,
           i \in registry \cup {None} \/ (op[s].pc = "add" /\ i = op[s].cur),
           (j = i /\ i \in Cached(d)') \/ j = None
    PROVE  j \in registry' \cup {None} \/ (op'[s].pc = "add" /\ j = op'[s].cur)
BY DEF Stays, StillCounts

\* A cache that only loses stages exceeds the half by no more than before
LEMMA Shrinks ==
    ASSUME IInv, NEW d \in Dbs, Loses(d), \A s \in Scans : Db(s) = d => StillCounts(s, d),
           OverlapAt(d)
    PROVE  OverlapAt(d)'
<1>1. PICK b \in Scans, base \in SUBSET Cached(d), last \in [Scans -> Cached(d) \cup {None}],
           counted \in [Scans -> SUBSET Cached(d)] : Accounts(d, b, base, last, counted)
  BY DEF OverlapAt
<1>2. PICK base2 : base2 = base \cap Cached(d)'
  OBVIOUS
<1>3. PICK last2 : last2 = [s \in Scans |-> IF last[s] \in Cached(d)' THEN last[s] ELSE None]
  OBVIOUS
<1>4. PICK counted2 : counted2 = [s \in Scans |-> counted[s] \cap Cached(d)']
  OBVIOUS
<1>5. Stays(d) /\ Cached(d)' \subseteq Cached(d)
  BY DEF Loses
<1>6. \A s \in Scans : /\ counted2[s] = counted[s] \cap Cached(d)'
                       /\ (last2[s] = last[s] /\ last[s] \in Cached(d)') \/ last2[s] = None
                       /\ last[s] \in Cached(d)' => last2[s] = last[s]
                       /\ Db(s)' = Db(s)
  BY <1>3, <1>4 DEF Db
<1>7. base2 \in SUBSET base /\ base2 \subseteq Cached(d)' /\ base2 \subseteq registry' /\ Db(b) = d
  BY <1>1, <1>2, <1>5 DEF Stays, Accounts
<1>8. BytesOf(base2)' + SizeOf(last2[b])' <= Half(d)
  <2>1. BytesOf(base) + SizeOf(last[b]) <= Half(d)
    BY <1>1 DEF Accounts
  <2>2. PICK i \in Cached(d) \cup {None} : i = last[b]
    BY <1>1
  <2>3. PICK j : j = last2[b]
    OBVIOUS
  <2>4. (j = i /\ i \in Cached(d)') \/ j = None
    BY <1>6, <2>2, <2>3
  <2>5. BytesOf(base2)' + SizeOf(j)' <= Half(d)
    BY <1>1, <1>5, <1>7, <2>1, <2>2, <2>4, LessTakesLast
  <2> QED
    BY <2>3, <2>5 DEF SizeOf
<1>9. \A s \in Scans : Db(s) = d /\ Counts(s)' => Counts(s)
  BY DEF StillCounts, Counts
<1>10. Counts(b)' => base2 \subseteq counted2[b]
  BY <1>1, <1>2, <1>6, <1>7, <1>9 DEF Accounts
<1>11. \A i \in Cached(d)' \ base2 : \E s \in Scans : Db(s) = d /\ last2[s] = i
  BY <1>1, <1>2, <1>5, <1>6 DEF Accounts
<1>12. ASSUME NEW s \in Scans, Db(s) = d
       PROVE  /\ last2[s] \in registry' \cup {None} \/ (op'[s].pc = "add" /\ last2[s] = op'[s].cur)
              /\ Counts(s)' => CountOK(s, d, base2, last2, counted2)'
  <2>1. last[s] \in registry \cup {None} \/ (op[s].pc = "add" /\ last[s] = op[s].cur)
    BY <1>1, <1>12 DEF Accounts
  <2>2. last2[s] \in registry' \cup {None} \/ (op'[s].pc = "add" /\ last2[s] = op'[s].cur)
    BY <1>5, <1>6, <1>12, <2>1, StillLast
  <2>3. ASSUME Counts(s)' PROVE CountOK(s, d, base2, last2, counted2)'
    <3>1. CountOK(s, d, base, last, counted)
      BY <1>1, <1>9, <1>12, <2>3 DEF Accounts
    <3>2. counted2[s] \subseteq base2 \/ base2 \subseteq counted2[s]
      BY <1>2, <1>6, <3>1 DEF CountOK
    <3>3. Listed(op[s]) \cap Cached(d)' \subseteq Cached(d)
      BY <1>5
    <3>4. (last2[s] = last[s] /\ last[s] \in Cached(d)') \/ last2[s] = None
      BY <1>6
    <3> QED
      BY <1>1, <1>5, <1>6, <1>12, <2>3, <3>1, <3>2, <3>3, <3>4, StillCountOK
  <2> QED
    BY <2>2, <2>3
<1>13. ASSUME NEW s \in Scans, NEW t \in Scans, Db(s) = d, Db(t) = d, Counts(s)', Counts(t)'
       PROVE  counted2[s] \subseteq counted2[t] \/ counted2[t] \subseteq counted2[s]
  <2>1. counted[s] \subseteq counted[t] \/ counted[t] \subseteq counted[s]
    BY <1>1, <1>9, <1>13 DEF Accounts
  <2> QED
    BY <1>6, <2>1
<1>14. Accounts(d, b, base2, last2, counted2)'
  BY <1>6, <1>7, <1>8, <1>10, <1>11, <1>12, <1>13 DEF Accounts, Half
<1>15. /\ base2 \in SUBSET Cached(d)' /\ last2 \in [Scans -> Cached(d)' \cup {None}]
       /\ counted2 \in [Scans -> SUBSET Cached(d)']
  BY <1>2, <1>3, <1>4
<1> QED
  BY <1>14, <1>15 DEF OverlapAt

\* The stages of a cache stay what they were, as far as it keeps them
LEMMA KeptStays ==
    ASSUME IInv, TypeOK', Kept, NEW d \in Dbs,
           \A i \in Cached(d)' : i \in StageIds /\ stage[i].key \in Keys
    PROVE  Stays(d)
<1>1. \A i \in Cached(d)' : i \in Entries(cache', op') /\ InUse(i)'
  <2> SUFFICES ASSUME NEW i \in Cached(d)'
               PROVE  i \in Entries(cache', op') /\ InUse(i)'
    OBVIOUS
  <2>1. PICK k \in Keys : cache'[d][k] = i
    BY DEF Cached
  <2>2. i \in StageIds
    OBVIOUS
  <2> QED
    BY <2>1, <2>2, Uses
<1> QED
  BY <1>1 DEF Kept, Stays

\* A cache that gets no stage
LEMMA KeptLoses ==
    ASSUME IInv, TypeOK', Kept, NEW d \in Dbs, \A k \in Keys : cache'[d][k] \in {cache[d][k], None}
    PROVE  Loses(d)
<1>1. Cached(d)' \subseteq Cached(d)
  BY DEF Cached
<1>2. \A i \in Cached(d) : i \in StageIds /\ stage[i].key \in Keys
  BY CachedFacts
<1>3. Stays(d)
  BY <1>1, <1>2, KeptStays
<1> QED
  BY <1>1, <1>3 DEF Loses

\* A call that waits, and one that counts no longer
LEMMA WaitsCounts ==
    ASSUME NEW s \in Scans, Waits(s), NEW d
    PROVE  StillCounts(s, d)
<1>1. Listed(op'[s]) = Listed(op[s])
  BY DEF Waits, Listed
<1> QED
  BY <1>1 DEF Waits, StillCounts, Counts

LEMMA CountsNoMore ==
    ASSUME NEW s \in Scans, op'[s].pc \notin {"sort", "evict", "put"}, op[s].pc # "add", NEW d
    PROVE  StillCounts(s, d)
BY DEF StillCounts, Counts

\* A step that puts no stage, while calls go on with what they counted
LEMMA ShrinksAll ==
    ASSUME IInv, OverlapOK, TypeOK', Kept,
           \A d \in Dbs, k \in Keys : cache'[d][k] \in {cache[d][k], None},
           \A s \in Scans : StillCounts(s, Db(s))
    PROVE  OverlapOK'
<1> SUFFICES ASSUME NEW s \in Scans PROVE OverlapAt(Db(s))'
  BY DEF OverlapOK
<1>1. PICK d \in Dbs : d = Db(s)
  BY CallFacts
<1>2. OverlapAt(d)
  BY <1>1 DEF OverlapOK
<1>3. Loses(d)
  BY KeptLoses
<1>4. OverlapAt(d)'
  BY <1>2, <1>3, Shrinks
<1> QED
  BY <1>1, <1>4 DEF Db

\* A step of s alone
LEMMA ShrinksAlone ==
    ASSUME IInv, OverlapOK, TypeOK', Kept,
           \A d \in Dbs, k \in Keys : cache'[d][k] \in {cache[d][k], None},
           NEW s \in Scans, \A t \in Scans \ {s} : Waits(t), StillCounts(s, Db(s))
    PROVE  OverlapOK'
<1>1. ASSUME NEW t \in Scans PROVE StillCounts(t, Db(t))
  <2>1. CASE t = s
    BY <2>1
  <2>2. CASE t # s
    <3>1. Waits(t)
      BY <2>2
    <3> QED
      BY <3>1, WaitsCounts
  <2> QED
    BY <2>1, <2>2
<1> QED
  BY <1>1, ShrinksAll

\* The other databases, when s takes a snapshot or puts its stage
LEMMA ShrinksElsewhere ==
    ASSUME IInv, OverlapOK, TypeOK', Kept, NEW s \in Scans, \A t \in Scans \ {s} : Waits(t),
           \A d \in Dbs, k \in Keys : d # Db(s) => cache'[d][k] = cache[d][k],
           OverlapAt(Db(s))'
    PROVE  OverlapOK'
<1> SUFFICES ASSUME NEW t \in Scans PROVE OverlapAt(Db(t))'
  BY DEF OverlapOK
<1>1. PICK d \in Dbs : d = Db(t)
  BY CallFacts
<1>2. CASE d = Db(s)
  BY <1>1, <1>2 DEF Db
<1>3. CASE d # Db(s)
  <2>1. OverlapAt(d)
    BY <1>1 DEF OverlapOK
  <2>2. \A k \in Keys : cache'[d][k] \in {cache[d][k], None}
    BY <1>3
  <2>3. Loses(d)
    BY <2>2, KeptLoses
  <2>4. ASSUME NEW u \in Scans, Db(u) = d PROVE StillCounts(u, d)
    <3>1. Waits(u)
      BY <1>3, <2>4
    <3> QED
      BY <3>1, WaitsCounts
  <2>5. OverlapAt(d)'
    BY <2>1, <2>3, <2>4, Shrinks
  <2> QED
    BY <1>1, <2>5 DEF Db
<1> QED
  BY <1>2, <1>3

-----------------------------------------------------------------------------
(* Every action keeps what overlapping calls can exceed the half by *)

\* MakeRoom: the snapshot has all that is registered, so what earlier ones still have
LEMMA MakeRoomOverlap ==
    ASSUME IInv, OverlapOK, NEW s \in Scans, MakeRoom(s)
    PROVE  OverlapOK'
<1>1. /\ Quietly(last_used, query) /\ Alone(s) /\ UNCHANGED cache
      /\ op[s].pc = "room" /\ op'[s].pc = "sort"
      /\ op'[s].snap = OwnStages(Db(s)) /\ op'[s].order = <<>>
  BY MakeRoomFacts
<1>2. TypeOK' /\ Kept
  BY <1>1 DEF Quietly
<1>3. PICK d \in Dbs : d = Db(s)
  BY CallFacts
<1>4. PICK b \in Scans, base \in SUBSET Cached(d), last \in [Scans -> Cached(d) \cup {None}],
           counted \in [Scans -> SUBSET Cached(d)] : Accounts(d, b, base, last, counted)
  BY <1>3 DEF OverlapOK, OverlapAt
<1>5. Loses(d) /\ Stays(d)
  <2>1. \A k \in Keys : cache'[d][k] \in {cache[d][k], None}
    BY <1>1
  <2> QED
    BY <1>2, <2>1, KeptLoses DEF Loses
<1>6. Cached(d)' = Cached(d)
  BY <1>1 DEF Cached
<1>7. PICK own : own = registry \cap Cached(d)
  OBVIOUS
<1>8. own = OwnStages(d) \cap Cached(d) /\ own \subseteq registry' /\ own \subseteq Cached(d)
  <2>1. \A i \in Cached(d) : stage[i].db = d
    BY CachedFacts
  <2> QED
    BY <1>5, <1>6, <1>7, <2>1 DEF OwnStages, Stays
<1>9. PICK counted2 : counted2 = [counted EXCEPT ![s] = own]
  OBVIOUS
<1>10. /\ counted2 \in [Scans -> SUBSET Cached(d)] /\ counted2[s] = own
       /\ \A t \in Scans \ {s} : counted2[t] = counted[t] /\ op'[t] = op[t]
  BY <1>1, <1>4, <1>8, <1>9 DEF Alone
<1>11. base \subseteq own
  BY <1>4, <1>7 DEF Accounts
<1>12. BytesOf(base)' + SizeOf(last[b])' <= Half(d)
  <2>1. BytesOf(base) + SizeOf(last[b]) <= Half(d)
    BY <1>4 DEF Accounts
  <2>2. PICK i \in Cached(d) \cup {None} : i = last[b]
    BY <1>4
  <2>3. (i = i /\ i \in Cached(d)') \/ i = None
    BY <1>6
  <2>4. BytesOf(base)' + SizeOf(i)' <= Half(d)
    BY <1>4, <1>5, <1>6, <2>1, <2>2, <2>3, LessTakesLast
  <2> QED
    BY <2>2, <2>4 DEF SizeOf
<1>13. Counts(b)' => base \subseteq counted2[b]
  <2>1. b # s => (Counts(b)' => Counts(b))
    BY <1>10 DEF Counts
  <2> QED
    BY <1>4, <1>10, <1>11, <2>1 DEF Accounts
<1>14. ASSUME NEW t \in Scans, t # s, Db(t) = d, Counts(t)'
       PROVE  Counts(t) /\ CountOK(t, d, base, last, counted) /\ counted2[t] \subseteq own
  <2>1. Counts(t)
    BY <1>10, <1>14 DEF Counts
  <2>2. CountOK(t, d, base, last, counted)
    BY <1>4, <1>14, <2>1 DEF Accounts
  <2> QED
    BY <1>4, <1>7, <1>10, <1>14, <2>1, <2>2 DEF CountOK
<1>15. ASSUME NEW t \in Scans, Db(t) = d
       PROVE  /\ last[t] \in registry' \cup {None} \/ (op'[t].pc = "add" /\ last[t] = op'[t].cur)
              /\ Counts(t)' => CountOK(t, d, base, last, counted2)'
  <2>1. last[t] \in registry \cup {None} \/ (op[t].pc = "add" /\ last[t] = op[t].cur)
    BY <1>4, <1>15 DEF Accounts
  <2>2. last[t] \in Cached(d) \cup {None}
    BY <1>4
  <2>3. CASE t = s
    <3>1. last[s] # None => last[s] \in own
      BY <1>1, <1>7, <2>1, <2>2, <2>3
    <3>2. Listed(op'[s]) = OwnStages(d)
      BY <1>1, <1>3 DEF Listed, Range
    <3>3. CountOK(s, d, base, last, counted2)'
      BY <1>1, <1>6, <1>8, <1>10, <1>11, <3>1, <3>2 DEF CountOK
    <3> QED
      BY <1>8, <2>3, <3>1, <3>3
  <2>4. CASE t # s
    <3>1. op'[t] = op[t]
      BY <1>10, <2>4
    <3>2. StillCounts(t, d)
      BY <3>1 DEF StillCounts, Counts
    <3>3. (last[t] = last[t] /\ last[t] \in Cached(d)') \/ last[t] = None
      BY <1>6, <2>2
    <3>4. last[t] \in registry' \cup {None} \/ (op'[t].pc = "add" /\ last[t] = op'[t].cur)
      BY <1>5, <2>1, <3>2, <3>3, StillLast
    <3>5. ASSUME Counts(t)' PROVE CountOK(t, d, base, last, counted2)'
      <4>1. CountOK(t, d, base, last, counted)
        BY <1>14, <1>15, <2>4, <3>5
      <4>2. counted2[t] = counted[t] \cap Cached(d)'
        BY <1>4, <1>6, <1>10, <2>4
      <4>3. counted2[t] \subseteq base \/ base \subseteq counted2[t]
        BY <1>10, <2>4, <4>1 DEF CountOK
      <4>4. Listed(op[t]) \cap Cached(d)' \subseteq Cached(d)
        BY <1>6
      <4> QED
        BY <1>4, <1>5, <1>15, <3>2, <3>3, <3>5, <4>1, <4>2, <4>3, <4>4, StillCountOK
    <3> QED
      BY <3>4, <3>5
  <2> QED
    BY <2>3, <2>4
<1>16. ASSUME NEW t \in Scans, NEW u \in Scans, Db(t) = d, Db(u) = d, Counts(t)', Counts(u)'
       PROVE  counted2[t] \subseteq counted2[u] \/ counted2[u] \subseteq counted2[t]
  <2>1. CASE t = s \/ u = s
    BY <1>10, <1>14, <1>16, <2>1
  <2>2. CASE t # s /\ u # s
    <3>1. Counts(t) /\ Counts(u)
      BY <1>14, <1>16, <2>2
    <3> QED
      BY <1>4, <1>10, <1>16, <2>2, <3>1 DEF Accounts
  <2> QED
    BY <2>1, <2>2
<1>17. \A t \in Scans : Db(t)' = Db(t)
  BY DEF Db
<1>18. Accounts(d, b, base, last, counted2)'
  <2>1. Db(b) = d /\ base \subseteq registry'
    BY <1>4, <1>8, <1>11 DEF Accounts
  <2>2. \A i \in Cached(d)' \ base : \E t \in Scans : Db(t) = d /\ last[t] = i
    BY <1>4, <1>6 DEF Accounts
  <2> QED
    BY <1>12, <1>13, <1>15, <1>16, <1>17, <2>1, <2>2 DEF Accounts, Half
<1>19. OverlapAt(d)'
  BY <1>4, <1>6, <1>10, <1>18 DEF OverlapAt
<1>20. OverlapAt(Db(s))'
  BY <1>3, <1>19 DEF Db
<1>21. \A t \in Scans \ {s} : Waits(t)
  BY <1>1 DEF Alone, Waits
<1> QED
  BY <1>1, <1>2, <1>20, <1>21, ShrinksElsewhere

\* Put, which replaces the stage of the same key: the stage is the last of its thread.
\* What the call had counted is the base now, unless a later snapshot had that too
LEMMA PutOverlap ==
    ASSUME IInv, OverlapOK, NEW s \in Scans, Put(s)
    PROVE  OverlapOK'
<1>1. /\ Quietly(Touch(op[s].cur), query) /\ op[s].pc = "put" /\ op'[s].pc = "add"
      /\ GoesOn(s) /\ op'[s] \in OpType /\ BecomesAndDisturbs(s, op'[s], {})
      /\ \A d \in Dbs, k \in Keys :
           cache'[d][k] = IF d = Db(s) /\ k = op[s].key THEN op[s].cur ELSE cache[d][k]
  BY PutFacts
<1>2. TypeOK' /\ Kept
  BY <1>1 DEF Quietly
<1>3. PICK d \in Dbs : d = Db(s)
  BY CallFacts
<1>4. /\ op \in [Scans -> OpType] /\ op[s].key \in Keys /\ UnseenOK(s) /\ op[s].pc \in Caches
      /\ op[s].pc \in Unseen /\ StageIs(op[s].cur, op[s].key, d)
  BY <1>1, <1>3, CallFacts DEF IInv, Caches, Unseen
<1>5. PICK i \in StageIds : i = op[s].cur /\ stage[i].key = op[s].key
  BY <1>4 DEF StageIs
<1>6. i \notin registry /\ i \notin Cached(d) /\ i # None
  BY <1>4, <1>5, SharingAssumption DEF UnseenOK, Cached
<1>7. Cached(d)' \subseteq Cached(d) \cup {i} /\ i \in Cached(d)'
  <2>1. \A k \in Keys : cache'[d][k] = IF k = op[s].key THEN i ELSE cache[d][k]
    BY <1>1, <1>3, <1>5
  <2> QED
    BY <1>4, <1>6, <2>1 DEF Cached
<1>8. Stays(d)
  <2>1. \A j \in Cached(d) : j \in StageIds /\ stage[j].key \in Keys
    BY CachedFacts
  <2>2. \A j \in Cached(d)' : j \in StageIds /\ stage[j].key \in Keys
    BY <1>4, <1>5, <1>7, <2>1
  <2> QED
    BY <1>2, <2>2, KeptStays
<1>9. \A t \in Scans \ {s} : Waits(t) /\ StillCounts(t, d)
  <2>1. PICK o \in OpType : o = op'[s]
    BY <1>1
  <2>2. PICK touch \in SUBSET StageIds : touch = {}
    OBVIOUS
  <2>3. \A t \in Scans \ {s} : Waits(t)
    BY <1>1, <1>4, <2>1, <2>2, DisturbsType
  <2> QED
    BY <2>3, WaitsCounts
<1>10. PICK b \in Scans, base \in SUBSET Cached(d), last \in [Scans -> Cached(d) \cup {None}],
            counted \in [Scans -> SUBSET Cached(d)] : Accounts(d, b, base, last, counted)
  BY <1>3 DEF OverlapOK, OverlapAt
<1>11. CountOK(s, d, base, last, counted)
  BY <1>1, <1>3, <1>10 DEF Accounts, Counts
<1>12. PICK last2 : last2 = [t \in Scans |-> IF t = s THEN i
                                             ELSE IF last[t] \in Cached(d)' THEN last[t] ELSE None]
  OBVIOUS
<1>13. PICK counted2 : counted2 = [t \in Scans |-> counted[t] \cap Cached(d)']
  OBVIOUS
<1>14. /\ last2[s] = i /\ counted2 \in [Scans -> SUBSET Cached(d)']
       /\ last2 \in [Scans -> Cached(d)' \cup {None}]
       /\ \A t \in Scans : counted2[t] = counted[t] \cap Cached(d)' /\ Db(t)' = Db(t)
       /\ \A t \in Scans \ {s} : /\ (last2[t] = last[t] /\ last[t] \in Cached(d)') \/ last2[t] = None
                                 /\ last[t] \in Cached(d)' => last2[t] = last[t]
  BY <1>7, <1>12, <1>13 DEF Db
<1>15. ~Counts(s)' /\ \A t \in Scans : Db(t) = d /\ Counts(t)' => Counts(t)
  <2>1. ~Counts(s)'
    BY <1>1 DEF Counts
  <2> QED
    BY <1>9, <2>1 DEF Waits, Counts
<1>16. ASSUME NEW t \in Scans, Db(t) = d
       PROVE  last2[t] \in registry' \cup {None} \/ (op'[t].pc = "add" /\ last2[t] = op'[t].cur)
  <2>1. CASE t = s
    BY <1>1, <1>5, <1>14, <2>1 DEF GoesOn
  <2>2. CASE t # s
    <3>1. last[t] \in registry \cup {None} \/ (op[t].pc = "add" /\ last[t] = op[t].cur)
      BY <1>10, <1>16 DEF Accounts
    <3>2. StillCounts(t, d) /\ ((last2[t] = last[t] /\ last[t] \in Cached(d)') \/ last2[t] = None)
      BY <1>9, <1>14, <2>2
    <3> QED
      BY <1>8, <3>1, <3>2, StillLast
  <2> QED
    BY <2>1, <2>2
<1>17. ASSUME NEW t \in Scans, Db(t) = d, Counts(t)', NEW base2,
              counted2[t] \subseteq base2 \/ base2 \subseteq counted2[t]
       PROVE  CountOK(t, d, base2, last2, counted2)'
  <2>1. t # s /\ Counts(t)
    BY <1>15, <1>17
  <2>2. CountOK(t, d, base, last, counted) /\ StillCounts(t, d)
    BY <1>9, <1>10, <1>17, <2>1 DEF Accounts
  <2>3. Listed(op[t]) \cap Cached(d)' \subseteq Cached(d)
    <3>1. i \notin Listed(op[t])
      BY <1>6, CallFacts DEF CallOK
    <3> QED
      BY <1>7, <3>1
  <2>4. /\ counted2[t] = counted[t] \cap Cached(d)'
        /\ (last2[t] = last[t] /\ last[t] \in Cached(d)') \/ last2[t] = None
    BY <1>14, <2>1
  <2> QED
    BY <1>8, <1>10, <1>17, <2>2, <2>3, <2>4, StillCountOK
<1>18. ASSUME NEW t \in Scans, NEW u \in Scans, Db(t) = d, Db(u) = d, Counts(t)', Counts(u)'
       PROVE  counted2[t] \subseteq counted2[u] \/ counted2[u] \subseteq counted2[t]
  <2>1. counted[t] \subseteq counted[u] \/ counted[u] \subseteq counted[t]
    BY <1>10, <1>15, <1>18 DEF Accounts
  <2> QED
    BY <1>14, <2>1
<1>19. ASSUME base \subseteq counted[s] PROVE OverlapAt(d)'
  <2>1. PICK base2 : base2 = counted[s] \cap Cached(d)'
    OBVIOUS
  <2>2. base2 \in SUBSET counted[s] /\ base2 \subseteq Cached(d)' /\ base2 \subseteq registry'
    BY <1>8, <1>11, <2>1 DEF CountOK, Stays
  <2>3. BytesOf(base2)' + SizeOf(last2[s])' <= Half(d)
    <3>1. BytesOf(counted[s]) + Bytes[op[s].key] <= Half(d)
      BY <1>1, <1>11 DEF CountOK
    <3>2. counted[s] \in SUBSET StageIds /\ \A j \in counted[s] : stage[j].key \in Keys
      BY <1>10, CachedFacts
    <3>3. base2 \subseteq Cached(d)
      BY <1>10, <2>2
    <3>4. /\ BytesOf(base2)' <= BytesOf(counted[s]) /\ BytesOf(counted[s]) \in Nat
          /\ BytesOf(base2)' \in Nat /\ Half(d) \in Nat
      BY <1>8, <2>2, <3>2, <3>3, LessTakes
    <3>5. SizeOf(i)' = Bytes[op[s].key] /\ Bytes[op[s].key] \in Nat
      <4>1. SizeOf(i)' = Bytes[stage'[i].key]
        BY <1>6 DEF SizeOf
      <4> QED
        BY <1>4, <1>5, <1>7, <1>8, <4>1, SharingAssumption DEF Stays
    <3>6. SizeOf(last2[s])' = SizeOf(i)'
      BY <1>14 DEF SizeOf
    <3> QED
      BY <3>1, <3>4, <3>5, <3>6
  <2>4. ASSUME NEW j \in Cached(d)' \ base2 PROVE \E t \in Scans : Db(t) = d /\ last2[t] = j
    <3>1. CASE j = i
      BY <1>3, <1>14, <3>1
    <3>2. CASE j # i
      <4>1. j \in Cached(d) /\ j \notin counted[s] /\ j \notin base /\ j # None
        BY <1>7, <1>19, <2>1, <2>4, <3>2 DEF Cached
      <4>2. PICK t \in Scans : Db(t) = d /\ last[t] = j
        BY <1>10, <4>1 DEF Accounts
      <4>3. t # s
        BY <1>11, <4>1, <4>2 DEF CountOK
      <4> QED
        BY <1>14, <2>4, <4>2, <4>3
    <3> QED
      BY <3>1, <3>2
  <2>5. ASSUME NEW t \in Scans, Db(t) = d, Counts(t)' PROVE CountOK(t, d, base2, last2, counted2)'
    <3>1. counted[t] \subseteq counted[s] \/ counted[s] \subseteq counted[t]
      BY <1>1, <1>3, <1>10, <1>15, <2>5 DEF Accounts, Counts
    <3>2. counted2[t] \subseteq base2 \/ base2 \subseteq counted2[t]
      BY <1>14, <2>1, <3>1
    <3> QED
      BY <1>17, <2>5, <3>2
  <2>6. Accounts(d, s, base2, last2, counted2)'
    BY <1>3, <1>14, <1>15, <1>16, <1>18, <2>2, <2>3, <2>4, <2>5 DEF Accounts, Half
  <2> QED
    BY <1>14, <2>2, <2>6 DEF OverlapAt
<1>20. ASSUME ~(base \subseteq counted[s]) PROVE OverlapAt(d)'
  <2>1. PICK base2 : base2 = base \cap Cached(d)'
    OBVIOUS
  <2>2. base2 \in SUBSET base /\ base2 \subseteq Cached(d)' /\ base2 \subseteq registry'
    BY <1>8, <1>10, <2>1 DEF Accounts, Stays
  <2>3. counted[s] \subseteq base /\ b # s /\ Db(b) = d
    <3>1. Counts(s)
      BY <1>1 DEF Counts
    <3> QED
      BY <1>10, <1>11, <1>20, <3>1 DEF CountOK, Accounts
  <2>4. BytesOf(base2)' + SizeOf(last2[b])' <= Half(d)
    <3>1. BytesOf(base) + SizeOf(last[b]) <= Half(d)
      BY <1>10 DEF Accounts
    <3>2. PICK x \in Cached(d) \cup {None} : x = last[b]
      BY <1>10
    <3>3. PICK j : j = last2[b]
      OBVIOUS
    <3>4. (j = x /\ x \in Cached(d)') \/ j = None
      BY <1>14, <2>3, <3>2, <3>3
    <3>5. BytesOf(base2)' + SizeOf(j)' <= Half(d)
      BY <1>8, <1>10, <2>2, <3>1, <3>2, <3>4, LessTakesLast
    <3> QED
      BY <3>3, <3>5 DEF SizeOf
  <2>5. Counts(b)' => base2 \subseteq counted2[b]
    BY <1>10, <1>14, <1>15, <2>1, <2>3 DEF Accounts
  <2>6. ASSUME NEW j \in Cached(d)' \ base2 PROVE \E t \in Scans : Db(t) = d /\ last2[t] = j
    <3>1. CASE j = i
      BY <1>3, <1>14, <3>1
    <3>2. CASE j # i
      <4>1. j \in Cached(d) /\ j \notin base /\ j # None
        BY <1>7, <2>1, <2>6, <3>2 DEF Cached
      <4>2. PICK t \in Scans : Db(t) = d /\ last[t] = j
        BY <1>10, <4>1 DEF Accounts
      <4>3. t # s
        BY <1>11, <2>3, <4>1, <4>2 DEF CountOK
      <4> QED
        BY <1>14, <2>6, <4>2, <4>3
    <3> QED
      BY <3>1, <3>2
  <2>7. ASSUME NEW t \in Scans, Db(t) = d, Counts(t)' PROVE CountOK(t, d, base2, last2, counted2)'
    <3>1. counted[t] \subseteq base \/ base \subseteq counted[t]
      BY <1>10, <1>15, <2>7 DEF Accounts, CountOK
    <3>2. counted2[t] \subseteq base2 \/ base2 \subseteq counted2[t]
      BY <1>14, <2>1, <3>1
    <3> QED
      BY <1>17, <2>7, <3>2
  <2>8. Accounts(d, b, base2, last2, counted2)'
    BY <1>14, <1>16, <1>18, <2>2, <2>3, <2>4, <2>5, <2>6, <2>7 DEF Accounts, Half
  <2> QED
    BY <1>14, <2>2, <2>8 DEF OverlapAt
<1>21. OverlapAt(d)'
  BY <1>19, <1>20
<1>22. OverlapAt(Db(s))'
  BY <1>3, <1>21 DEF Db
<1>23. \A e \in Dbs, k \in Keys : e # Db(s) => cache'[e][k] = cache[e][k]
  BY <1>1
<1> QED
  BY <1>2, <1>9, <1>22, <1>23, ShrinksElsewhere

\* The beginning and the end of a call, and what it does before it takes its snapshot
LEMMA BeginEndOverlap ==
    ASSUME IInv, OverlapOK, NEW s \in Scans,
           \/ \E k \in Keys, w \in BOOLEAN : BeginScan(s, k, w)
           \/ Lookup(s) \/ Find(s) \/ OpenStage(s) \/ OpenRefused(s) \/ FinishScan(s)
    PROVE  OverlapOK'
<1> DEFINE Plainly == /\ TypeOK' /\ Kept /\ UNCHANGED cache /\ \A t \in Scans \ {s} : Waits(t)
                      /\ op[s].pc # "add" /\ op'[s].pc \notin {"sort", "evict", "put"}
<1>1. ASSUME Plainly PROVE OverlapOK'
  <2>1. StillCounts(s, Db(s))
    BY <1>1, CountsNoMore
  <2> QED
    BY <1>1, <2>1, ShrinksAlone
<1> HIDE DEF Plainly
<1>2. CASE \E k \in Keys, w \in BOOLEAN : BeginScan(s, k, w)
  <2>1. PICK k \in Keys, w \in BOOLEAN : BeginScan(s, k, w)
    BY <1>2
  <2>2. TypeOK
    BY DEF IInv
  <2>3. /\ Quietly(last_used, query) /\ Alone(s) /\ UNCHANGED cache /\ op[s].pc = "idle"
        /\ op'[s].pc \in {"using", "lookup"}
    BY <2>1, <2>2, BeginScanFacts
  <2> QED
    BY <1>1, <2>3 DEF Plainly, Quietly, Alone, Waits
<1>3. CASE Lookup(s)
  <2>1. /\ Quietly(last_used, query) /\ Alone(s) /\ UNCHANGED cache /\ op[s].pc = "lookup"
        /\ op'[s].pc \in {"found", "done", "open"}
    BY <1>3, LookupFacts
  <2> QED
    BY <1>1, <2>1 DEF Plainly, Quietly, Alone, Waits
<1>6. CASE Find(s)
  <2>1. op[s].pc = "found" /\ UNCHANGED cache
    BY <1>6, FindFacts
  <2>2. PICK i \in StageIds : i = op[s].cur
    BY <2>1, CallFacts
  <2>3. /\ Quietly(Touch(i), [query EXCEPT ![Conn(s)][op[s].key] = i])
        /\ op'[s] = Using(s, i) /\ BecomesAndDisturbs(s, Using(s, i), {i})
    BY <1>6, <2>2, FindFacts
  <2>4. op \in [Scans -> OpType]
    BY CallFacts
  <2>5. PICK o \in OpType : o = Using(s, i) /\ o.pc = "using"
    BY <2>4, UsingType
  <2>6. PICK touch \in SUBSET StageIds : touch = {i}
    OBVIOUS
  <2>7. \A t \in Scans \ {s} : Waits(t)
    BY <2>3, <2>4, <2>5, <2>6, DisturbsType
  <2> QED
    BY <1>1, <2>1, <2>3, <2>5, <2>7 DEF Plainly, Quietly
<1>4. CASE OpenStage(s)
  <2>1. /\ TypeOK' /\ Kept /\ UNCHANGED cache /\ Alone(s) /\ op[s].pc = "open"
        /\ op'[s].pc \in {"room", "using"}
    BY <1>4, OpenStageFacts
  <2> QED
    BY <1>1, <2>1 DEF Plainly, Alone, Waits
<1>5. CASE OpenRefused(s) \/ FinishScan(s)
  <2>1. /\ Quietly(last_used, query) /\ Alone(s) /\ UNCHANGED cache
        /\ op[s].pc \in {"open", "using"} /\ op'[s].pc = "done"
    BY <1>5, EndFacts
  <2> QED
    BY <1>1, <2>1 DEF Plainly, Quietly, Alone, Waits
<1> QED
  BY <1>2, <1>3, <1>4, <1>5, <1>6

\* Sort: the call lists the same stages
LEMMA SortOverlap ==
    ASSUME IInv, OverlapOK, NEW s \in Scans, Sort(s)
    PROVE  OverlapOK'
<1>1. /\ Quietly(last_used, query) /\ Alone(s) /\ UNCHANGED cache
      /\ op[s].pc = "sort" /\ op'[s].pc = "evict" /\ op'[s].snap = {}
      /\ Range(op'[s].order) = op[s].snap
  BY SortFacts
<1>2. op[s].order = <<>>
  BY <1>1, CallFacts
<1>3. Listed(op'[s]) = Listed(op[s])
  BY <1>1, <1>2 DEF Listed, Range
<1>4. StillCounts(s, Db(s))
  BY <1>1, <1>3 DEF StillCounts
<1>5. TypeOK' /\ Kept /\ \A t \in Scans \ {s} : Waits(t)
  BY <1>1 DEF Quietly, Alone, Waits
<1> QED
  BY <1>1, <1>4, <1>5, ShrinksAlone

\* Evict: the call lists one stage less, which has left the cache
LEMMA EvictOverlap ==
    ASSUME IInv, OverlapOK, NEW s \in Scans, Evict(s)
    PROVE  OverlapOK'
<1>1. /\ Quietly(last_used, query) /\ op[s].pc = "evict" /\ op[s].order # <<>>
      /\ op'[s].pc = "evict" /\ op'[s].snap = {} /\ op'[s].order = Tail(op[s].order)
      /\ op'[s] \in OpType /\ BecomesAndDisturbs(s, op'[s], {})
      /\ \A d \in Dbs, k \in Keys :
           cache'[d][k] = IF /\ d = Db(s) /\ k = stage[Head(op[s].order)].key
                             /\ cache[d][k] = Head(op[s].order)
                          THEN None ELSE cache[d][k]
  BY EvictFacts
<1>2. PICK i : i = Head(op[s].order)
  OBVIOUS
<1>3. /\ i \in StageIds /\ Range(Tail(op[s].order)) = Listed(op[s]) \ {i}
  BY <1>1, <1>2, ListedFacts
<1>4. Listed(op'[s]) = Listed(op[s]) \ {i}
  BY <1>1, <1>3 DEF Listed
<1>5. PICK d \in Dbs : d = Db(s)
  BY CallFacts
<1>6. i \notin Cached(d)'
  <2> SUFFICES ASSUME NEW k \in Keys, cache'[d][k] = i PROVE FALSE
    BY DEF Cached
  <2>1. i # None
    BY <1>3, SharingAssumption
  <2>2. cache[d][k] = i
    BY <1>1, <1>2, <2>1
  <2>3. stage[i].key = k
    BY <2>1, <2>2 DEF IInv, CacheOK, StageIs
  <2> QED
    BY <1>1, <1>2, <1>5, <2>1, <2>2, <2>3
<1>7. Listed(op'[s]) \cap Cached(d)' = Listed(op[s]) \cap Cached(d)'
  BY <1>4, <1>6
<1>8. StillCounts(s, d)
  BY <1>1, <1>7 DEF StillCounts
<1>9. \A t \in Scans \ {s} : Waits(t)
  <2>1. PICK o \in OpType : o = op'[s]
    BY <1>1
  <2>2. PICK touch \in SUBSET StageIds : touch = {}
    OBVIOUS
  <2>3. op \in [Scans -> OpType]
    BY CallFacts
  <2> QED
    BY <1>1, <2>1, <2>2, <2>3, DisturbsType
<1>10. \A e \in Dbs, k \in Keys : cache'[e][k] \in {cache[e][k], None}
  BY <1>1
<1>11. TypeOK' /\ Kept
  BY <1>1 DEF Quietly
<1> QED
  BY <1>5, <1>8, <1>9, <1>10, <1>11, ShrinksAlone

\* RoomMade: what the call still lists leaves room for its stage
LEMMA RoomMadeOverlap ==
    ASSUME IInv, OverlapOK, NEW s \in Scans, RoomMade(s)
    PROVE  OverlapOK'
<1>1. /\ op[s].pc = "evict" /\ Alone(s) /\ UNCHANGED cache
      /\ \/ Fits(s) /\ op'[s].pc = "put" /\ GoesOn(s) /\ Quietly(last_used, query)
         \/ /\ op'[s] = Using(s, op[s].cur)
            /\ Quietly(last_used, [query EXCEPT ![Conn(s)][op[s].key] = op[s].cur])
  BY RoomMadeFacts
<1>2. TypeOK' /\ Kept /\ \A t \in Scans \ {s} : Waits(t)
  BY <1>1 DEF Quietly, Alone, Waits
<1>3. PICK d \in Dbs : d = Db(s)
  BY CallFacts
<1>4. CASE Fits(s) /\ op'[s].pc = "put" /\ GoesOn(s)
  <2>1. op[s].bytes + Bytes[op[s].key] <= Half(d)
    BY <1>3, <1>4 DEF Fits
  <2>2. op[s].bytes = BytesOf(Listed(op[s]))
    BY <1>1, CallFacts DEF CallOK
  <2>3. StillCounts(s, d)
    BY <1>1, <1>4, <2>1, <2>2 DEF StillCounts, GoesOn
  <2> QED
    BY <1>1, <1>2, <1>3, <2>3, ShrinksAlone
<1>5. CASE op'[s] = Using(s, op[s].cur)
  <2>1. op'[s].pc = "using"
    <3>1. op \in [Scans -> OpType] /\ op[s].cur \in StageIds
      BY <1>1, CallFacts
    <3> QED
      BY <1>5, <3>1, UsingType
  <2>2. StillCounts(s, d)
    BY <1>1, <2>1, CountsNoMore
  <2> QED
    BY <1>1, <1>2, <1>3, <2>2, ShrinksAlone
<1> QED
  BY <1>1, <1>4, <1>5

\* Add: the stage the thread has put is registered if the cache still has it
LEMMA AddOverlap ==
    ASSUME IInv, OverlapOK, NEW s \in Scans, Add(s)
    PROVE  OverlapOK'
<1>1. op[s].pc = "add"
  BY AddFacts
<1>2. PICK i \in StageIds : i = op[s].cur
  BY <1>1, CallFacts
<1>3. /\ TypeOK' /\ Kept /\ registry' = (registry \cup {i}) \cap Entries(cache', op')
      /\ UNCHANGED cache /\ op'[s] = Using(s, i) /\ BecomesAndDisturbs(s, Using(s, i), {})
  BY <1>2, AddFacts
<1>4. op \in [Scans -> OpType]
  BY CallFacts
<1>5. PICK o \in OpType : o = Using(s, i) /\ o.pc = "using"
  BY <1>4, UsingType
<1>6. \A t \in Scans \ {s} : Waits(t)
  <2>1. PICK touch \in SUBSET StageIds : touch = {}
    OBVIOUS
  <2> QED
    BY <1>3, <1>4, <1>5, <2>1, DisturbsType
<1>7. PICK d \in Dbs : d = Db(s)
  BY CallFacts
<1>8. i \in Cached(d)' => i \in registry'
  <2> SUFFICES ASSUME NEW k \in Keys, cache'[d][k] = i PROVE i \in registry'
    BY DEF Cached
  <2>1. i \in Entries(cache', op')
    BY Uses
  <2> QED
    BY <1>3, <2>1
<1>9. StillCounts(s, d)
  BY <1>1, <1>2, <1>3, <1>5, <1>8 DEF StillCounts, Counts
<1> QED
  BY <1>3, <1>6, <1>7, <1>9, ShrinksAlone

\* Steps of no call to Open, which take stages from the caches or leave them
LEMMA OtherOverlap ==
    ASSUME IInv, OverlapOK, TypeOK', Kept, \A s \in Scans : Waits(s),
           \A d \in Dbs, k \in Keys : cache'[d][k] \in {cache[d][k], None}
    PROVE  OverlapOK'
<1>1. \A s \in Scans : StillCounts(s, Db(s))
  BY WaitsCounts
<1> QED
  BY <1>1, ShrinksAll

LEMMA ClipOverlap ==
    ASSUME IInv, OverlapOK, NEW s \in Scans, CheckClip(s) \/ OpenClip(s)
    PROVE  OverlapOK'
<1>1. TypeOK' /\ Kept /\ UNCHANGED <<op, cache>>
  BY CheckClipFacts, OpenClipFacts
<1>2. \A t \in Scans : Waits(t)
  BY <1>1 DEF Waits
<1> QED
  BY <1>1, <1>2, OtherOverlap

LEMMA EndQueryOverlap ==
    ASSUME IInv, OverlapOK, NEW c \in Conns, EndQuery(c)
    PROVE  OverlapOK'
<1>1. /\ Quietly(last_used, QueryEnd(c)) /\ UNCHANGED cache
      /\ \A s \in Scans :
           IF Conn(s) = c
           THEN op[s].pc \in {"idle", "done"} /\ op'[s] = NoCall("idle", FALSE)
           ELSE op'[s] = op[s]
  BY EndQueryFacts
<1>2. TypeOK' /\ Kept
  BY <1>1 DEF Quietly
<1>3. ASSUME NEW s \in Scans PROVE StillCounts(s, Db(s))
  <2>1. CASE Conn(s) = c
    <3>1. op[s].pc # "add" /\ op'[s].pc = "idle"
      BY <1>1, <2>1 DEF NoCall
    <3> QED
      BY <3>1, CountsNoMore
  <2>2. CASE Conn(s) # c
    <3>1. Waits(s)
      BY <1>1, <2>2 DEF Waits
    <3> QED
      BY <3>1, WaitsCounts
  <2> QED
    BY <2>1, <2>2
<1> QED
  BY <1>1, <1>2, <1>3, ShrinksAll

LEMMA SetStageCacheOverlap ==
    ASSUME IInv, OverlapOK, NEW c \in Conns, NEW scope \in Scopes, SetStageCache(c, scope)
    PROVE  OverlapOK'
<1>1. /\ Quietly(last_used, query) /\ \A s \in Scans : Waits(s)
      /\ \A e \in Dbs, k \in Keys :
           cache'[e][k] = IF e = DbOf[c] /\ cache[e][k] \in OwnStages(DbOf[c]) THEN None
                          ELSE cache[e][k]
  BY SetStageCacheFacts
<1>2. TypeOK' /\ Kept
  BY <1>1 DEF Quietly
<1> QED
  BY <1>1, <1>2, OtherOverlap

LEMMA UseMemoryOverlap ==
    ASSUME IInv, OverlapOK, NEW d \in Dbs, NEW n \in Needs, NEW kept \in SUBSET Keys,
           UseMemory(d, n, kept)
    PROVE  OverlapOK'
<1>1. /\ Quietly(last_used, query) /\ \A s \in Scans : Waits(s)
      /\ \A e \in Dbs, k \in Keys :
           cache'[e][k] = IF e = d /\ k \notin kept THEN None ELSE cache[e][k]
  BY UseMemoryFacts
<1>2. TypeOK' /\ Kept
  BY <1>1 DEF Quietly
<1> QED
  BY <1>1, <1>2, OtherOverlap

\* Steps that only change settings, and none at all
LEMMA SettingsOverlap ==
    ASSUME IInv, OverlapOK, UNCHANGED <<stage, cache, registry, op>>
    PROVE  OverlapOK'
<1>1. \A s \in Scans : Waits(s)
  BY DEF Waits
<1> SUFFICES ASSUME NEW s \in Scans PROVE OverlapAt(Db(s))'
  BY DEF OverlapOK
<1>2. PICK d \in Dbs : d = Db(s)
  BY CallFacts
<1>3. OverlapAt(d)
  BY <1>2 DEF OverlapOK
<1>4. Loses(d)
  BY DEF Loses, Stays, Cached
<1>5. \A t \in Scans : StillCounts(t, d)
  BY <1>1, WaitsCounts
<1>6. OverlapAt(d)'
  BY <1>3, <1>4, <1>5, Shrinks
<1> QED
  BY <1>2, <1>6 DEF Db

\* Any step
LEMMA StepOverlap ==
    ASSUME IInv, OverlapOK, [Next]_vars
    PROVE  OverlapOK'
<1>1. CASE \E s \in Scans : Work(s)
  <2>1. PICK s \in Scans : Work(s)
    BY <1>1
  <2>2. CASE Lookup(s) \/ Find(s) \/ OpenStage(s) \/ OpenRefused(s)
    BY <2>2, BeginEndOverlap
  <2>3. CASE MakeRoom(s)
    BY <2>3, MakeRoomOverlap
  <2>4. CASE Sort(s)
    BY <2>4, SortOverlap
  <2>5. CASE Evict(s)
    BY <2>5, EvictOverlap
  <2>6. CASE RoomMade(s)
    BY <2>6, RoomMadeOverlap
  <2>7. CASE Put(s)
    BY <2>7, PutOverlap
  <2>8. CASE Add(s)
    BY <2>8, AddOverlap
  <2> QED
    BY <2>1, <2>2, <2>3, <2>4, <2>5, <2>6, <2>7, <2>8 DEF Work
<1>2. CASE \E s \in Scans : CheckClip(s) \/ OpenClip(s)
  BY <1>2, ClipOverlap
<1>3. CASE \E s \in Scans : FinishScan(s)
  BY <1>3, BeginEndOverlap
<1>4. CASE \E s \in Scans, k \in Keys, w \in BOOLEAN : BeginScan(s, k, w)
  BY <1>4, BeginEndOverlap
<1>5. CASE \E c \in Conns : EndQuery(c)
  BY <1>5, EndQueryOverlap
<1>6. CASE \E c \in Conns : StoreSetting(c)
  BY <1>6, SettingsOverlap DEF StoreSetting
<1>7. CASE \E c \in Conns, scope \in Scopes : SetStageCache(c, scope)
  BY <1>7, SetStageCacheOverlap
<1>8. CASE \E c \in Conns, scope \in Scopes : EnableCache(c, scope)
  BY <1>8, SettingsOverlap DEF EnableCache
<1>9. CASE \E d \in Dbs : RestrictAccess(d)
  BY <1>9, SettingsOverlap DEF RestrictAccess
<1>10. CASE \E d \in Dbs : FreeMemory(d)
  BY <1>10, SettingsOverlap DEF FreeMemory
<1>11. CASE \E d \in Dbs, n \in Needs, kept \in SUBSET Keys : UseMemory(d, n, kept)
  BY <1>11, UseMemoryOverlap
<1>12. CASE UNCHANGED vars
  BY <1>12, SettingsOverlap DEF vars
<1> QED
  BY <1>1, <1>2, <1>3, <1>4, <1>5, <1>6, <1>7, <1>8, <1>9, <1>10, <1>11, <1>12 DEF Next

\* The first state
LEMMA InitOverlap ==
    ASSUME Init
    PROVE  OverlapOK
<1> SUFFICES ASSUME NEW s \in Scans PROVE OverlapAt(Db(s))
  BY DEF OverlapOK
<1>1. PICK d : d = Db(s)
  OBVIOUS
<1>2. d \in Dbs
  BY <1>1, SharingAssumption DEF Db
<1>3. Cached(d) = {}
  BY <1>2 DEF Init, Cached
<1>4. PICK last : last = [t \in Scans |-> None]
  OBVIOUS
<1>5. PICK counted : counted = [t \in Scans |-> {}]
  OBVIOUS
<1>6. PICK base : base = {}
  OBVIOUS
<1>7. \A t \in Scans : ~Counts(t)
  BY DEF Init, NoCall, Counts
<1>8. BytesOf(base) + SizeOf(last[s]) <= Half(d)
  <2>1. BytesOf(base) = 0
    BY <1>6, SumEmpty DEF BytesOf
  <2>2. SizeOf(last[s]) = 0
    BY <1>4 DEF SizeOf
  <2>3. Half(d) \in Nat
    BY <1>2, SharingAssumption DEF Half
  <2> QED
    BY <2>1, <2>2, <2>3
<1>9. Accounts(d, s, base, last, counted)
  BY <1>1, <1>3, <1>4, <1>6, <1>7, <1>8 DEF Accounts
<1>10. /\ base \in SUBSET Cached(d) /\ last \in [Scans -> Cached(d) \cup {None}]
       /\ counted \in [Scans -> SUBSET Cached(d)]
  BY <1>4, <1>5, <1>6
<1> QED
  BY <1>1, <1>9, <1>10 DEF OverlapAt

\* The largest of the stages
LEMMA LargestStage ==
    LET M == Max({Bytes[k] : k \in Keys}) IN M \in Nat /\ \A k \in Keys : Bytes[k] <= M
<1> DEFINE S == {Bytes[k] : k \in Keys}
<1>1. /\ IsFiniteSet(Keys) /\ Keys # {} /\ Bytes \in [Keys -> S]
      /\ \A k \in Keys : Bytes[k] \in Nat
  BY SharingAssumption
<1>2. (\A n \in S : n \in Nat) /\ S # {} /\ \A n \in S : \E k \in Keys : Bytes[k] = n
  BY <1>1
<1>3. \A k \in Keys : Bytes[k] \in S
  OBVIOUS
<1> HIDE DEF S
<1>4. Bytes \in Surjection(Keys, S)
  BY <1>1, <1>2, Fun_IsSurj
<1>5. IsFiniteSet(S)
  BY <1>1, <1>4, FS_Surjection
<1>6. \A n \in S : n \in Int
  BY <1>2
<1>7. Max(S) \in S /\ \A n \in S : n <= Max(S)
  BY <1>2, <1>5, <1>6, MaxIs
<1>8. Max(S) \in Nat /\ \A k \in Keys : Bytes[k] <= Max(S)
  BY <1>2, <1>3, <1>7
<1> QED
  BY <1>8 DEF S

\* The stages that a set of threads put last are no more than the threads
LEMMA LastStages ==
    ASSUME NEW T, IsFiniteSet(T), NEW rest, NEW last, \A i \in rest : \E s \in T : last[s] = i
    PROVE  IsFiniteSet(rest) /\ Cardinality(rest) <= Cardinality(T)
<1> DEFINE U == {s \in T : last[s] \in rest}
           f == [s \in U |-> last[s]]
<1>1. U \in SUBSET T
  OBVIOUS
<1>2. f \in [U -> rest] /\ \A i \in rest : \E s \in U : f[s] = i
  OBVIOUS
<1> HIDE DEF U, f
<1>3. f \in Surjection(U, rest)
  BY <1>2, Fun_IsSurj
<1>4. IsFiniteSet(U) /\ Cardinality(U) <= Cardinality(T)
  BY <1>1, FS_Subset
<1>5. IsFiniteSet(rest) /\ Cardinality(rest) <= Cardinality(U)
  BY <1>3, <1>4, FS_Surjection
<1>6. Cardinality(T) \in Nat /\ Cardinality(U) \in Nat /\ Cardinality(rest) \in Nat
  BY <1>4, <1>5, FS_CardinalityType
<1> QED
  BY <1>4, <1>5, <1>6

\* So many stages take no more than so many of the largest
LEMMA AtMostTimes ==
    ASSUME NEW m \in Nat, NEW n \in Nat, m <= n, NEW M \in Nat
    PROVE  m * M <= n * M /\ m * M \in Nat /\ n * M \in Nat
<1>1. PICK x \in Nat : n = m + x
  <2>1. n - m \in Nat /\ n = m + (n - m)
    OBVIOUS
  <2> QED
    BY <2>1
<1>2. (m + x) * M = m * M + x * M /\ m * M \in Nat /\ x * M \in Nat
  OBVIOUS
<1> QED
  BY <1>1, <1>2

\* What was counted and the last stage of its thread take at most half the limit, so
\* all exceed it by no more than the last stages of the other threads
LEMMA OverlapExceeds ==
    ASSUME IInv, OverlapOK
    PROVE  OverlapExceedsByOneStageEach
<1> SUFFICES ASSUME NEW d \in {Db(s) : s \in Scans}
             PROVE  CachedBytes(d) <= Half(d) + (Cardinality({s \in Scans : Db(s) = d}) - 1)
                                                  * Max({Bytes[k] : k \in Keys})
  BY DEF OverlapExceedsByOneStageEach
<1>1. d \in Dbs /\ OverlapAt(d)
  BY CallFacts DEF OverlapOK
<1>2. PICK b \in Scans, base \in SUBSET Cached(d), last \in [Scans -> Cached(d) \cup {None}],
           counted \in [Scans -> SUBSET Cached(d)] : Accounts(d, b, base, last, counted)
  BY <1>1 DEF OverlapAt
<1>3. PICK T : T = {s \in Scans : Db(s) = d}
  OBVIOUS
<1>4. PICK M : M = Max({Bytes[k] : k \in Keys})
  OBVIOUS
<1>5. M \in Nat /\ \A k \in Keys : Bytes[k] <= M
  BY <1>4, LargestStage
<1>6. IsFiniteSet(T) /\ b \in T
  <2>1. T \in SUBSET Scans /\ IsFiniteSet(Scans)
    BY <1>3, SharingAssumption
  <2> QED
    BY <1>2, <1>3, <2>1, FS_Subset DEF Accounts
<1>7. PICK rest : rest = {i \in Cached(d) : i \notin base /\ i # last[b]}
  OBVIOUS
<1>8. /\ Cardinality(rest) \in Nat /\ Cardinality(T) - 1 \in Nat
      /\ Cardinality(rest) <= Cardinality(T) - 1
  <2>1. \A i \in rest : \E s \in T \ {b} : last[s] = i
    BY <1>2, <1>3, <1>7 DEF Accounts
  <2>2. IsFiniteSet(T \ {b}) /\ Cardinality(T \ {b}) = Cardinality(T) - 1
    BY <1>6, FS_RemoveElement
  <2>3. IsFiniteSet(rest) /\ Cardinality(rest) <= Cardinality(T \ {b})
    BY <2>1, <2>2, LastStages
  <2>4. Cardinality(rest) \in Nat /\ Cardinality(T \ {b}) \in Nat
    BY <2>2, <2>3, FS_CardinalityType
  <2> QED
    BY <2>2, <2>3, <2>4
<1>9. PICK ids \in SUBSET StageIds : ids = Cached(d) /\ \A i \in ids : stage[i].key \in Keys
  BY <1>1, CachedFacts
<1>10. PICK some \in SUBSET StageIds : some = ids \ rest
  BY <1>9
<1>11. Memory(stage, ids) <= Memory(stage, some) + Cardinality(rest) * M
  <2>1. rest \in SUBSET ids
    BY <1>7, <1>9
  <2> QED
    BY <1>5, <1>9, <1>10, <2>1, MemoryAtMost
<1>12. Memory(stage, some) <= Half(d) /\ Memory(stage, some) \in Nat /\ Half(d) \in Nat
  <2>1. \A i \in some : stage[i].key \in Keys
    BY <1>9, <1>10
  <2>2. Memory(stage, some) \in Nat /\ Half(d) \in Nat
    BY <1>1, <2>1, MemoryType, SharingAssumption DEF Half
  <2>3. BytesOf(base) + SizeOf(last[b]) <= Half(d)
    BY <1>2 DEF Accounts
  <2>4. base \in SUBSET StageIds /\ \A i \in base : stage[i].key \in Keys
    BY <1>2, <1>9
  <2>5. BytesOf(base) = Memory(stage, base) /\ Memory(stage, base) \in Nat
    BY <2>4, BytesAreMemory, MemoryType
  <2>6. None \notin ids /\ last[b] \in ids \cup {None}
    BY <1>2, <1>9 DEF Cached
  <2>7. CASE last[b] \in ids /\ last[b] \notin base
    <3>1. last[b] \in some /\ some \ {last[b]} = base
      BY <1>2, <1>7, <1>9, <1>10, <2>7
    <3>2. PICK i \in some : i = last[b]
      BY <3>1
    <3>3. /\ Memory(stage, some) = Bytes[stage[i].key] + Memory(stage, some \ {i})
      BY <2>1, MemoryRemove
    <3>4. SizeOf(last[b]) = Bytes[stage[i].key] /\ Bytes[stage[i].key] \in Nat
      BY <2>1, <2>6, <2>7, <3>2, SharingAssumption DEF SizeOf
    <3> QED
      BY <2>2, <2>3, <2>5, <3>1, <3>2, <3>3, <3>4
  <2>8. CASE ~(last[b] \in ids /\ last[b] \notin base)
    <3>1. some = base
      BY <1>2, <1>7, <1>9, <1>10, <2>8
    <3>2. SizeOf(last[b]) \in Nat
      BY <1>9, <2>6, SharingAssumption DEF SizeOf
    <3> QED
      BY <2>2, <2>3, <2>5, <3>1, <3>2
  <2> QED
    BY <2>7, <2>8
<1>13. CachedBytes(d) = Memory(stage, ids) /\ Memory(stage, ids) \in Nat
  BY <1>1, <1>9, CachedFacts, MemoryType
<1>14. /\ Cardinality(rest) * M <= (Cardinality(T) - 1) * M
       /\ Cardinality(rest) * M \in Nat /\ (Cardinality(T) - 1) * M \in Nat
  BY <1>5, <1>8, AtMostTimes
<1>15. CachedBytes(d) <= Half(d) + (Cardinality(T) - 1) * M
  BY <1>11, <1>12, <1>13, <1>14
<1> QED
  BY <1>3, <1>4, <1>15

-----------------------------------------------------------------------------
(* The theorems *)

\* The invariant: the calls of all threads to UsdStageProvider::Open, and the
\* caches, query stages, registry and settings they share, fit together
THEOREM CallsOrderly == Spec => []IInv
<1>1. Init => IInv
  BY InitKeeps
<1>2. IInv /\ [Next]_vars => IInv'
  BY StepKeeps
<1> QED
  BY <1>1, <1>2, PTL DEF Spec

\* Every variable has its type.
THEOREM TypeCorrect == Spec => []TypeOK
<1>1. IInv => TypeOK
  BY DEF IInv
<1> QED
  BY <1>1, CallsOrderly, PTL

\* A query that began with enable_external_access off is given no stage that uses
\* a file outside the allowed directories, at whatever step of the calls that open,
\* check, cache and read it the access was turned off.  A stage that it has already
\* comes to use one only while the query has it.
THEOREM QueriesStayInside == Spec => []RestrictedQueriesStayInside
<1>1. IInv => RestrictedQueriesStayInside
  BY DEF IInv, KnownOK, Known, Has, RestrictedQueriesStayInside
<1> QED
  BY <1>1, CallsOrderly, PTL

\* A query whose scan uses a stage that was refused a file had the stage when that
\* happened, or had passed the checks for it: no later query is given the stage,
\* neither from the cache nor from its own stages.
THEOREM RefusedStagesServeNoNew == Spec => []RefusedStagesServeNoNewQuery
<1>1. IInv => RefusedStagesServeNoNewQuery
  BY DEF IInv, KnownOK, Known, Has, RefusedStagesServeNoNewQuery
<1> QED
  BY <1>1, CallsOrderly, PTL

\* Who reads a stage with composition errors was warned of them, or its query
\* opened the stage through usd_composition_errors, which does not warn.
THEOREM WarningsPrecedeReads == Spec => []ReadersAreWarned
<1>1. IInv => ReadersAreWarned
  BY DEF IInv, WarningsOK, Warned, ReadersAreWarned
<1> QED
  BY <1>1, CallsOrderly, PTL

\* While usd_stage_cache is off for a whole database, its cache has only the
\* stages of calls to Open that overlapped the SET.
THEOREM OffHoldsOnlyLate == Spec => []OffKeepsOnlyOverlapping
<1>1. IInv => OffKeepsOnlyOverlapping
  <2> SUFFICES ASSUME IInv, NEW d \in Dbs,
                      \A c \in Conns : DbOf[c] = d => ~StageCacheEnabled(c) /\ setting[c] = "none",
                      NEW k \in Keys, cache[d][k] # None
               PROVE  \/ stage[cache[d][k]].late
                      \/ \E s \in Scans : op[s].pc = "add" /\ op[s].late /\ op[s].cur = cache[d][k]
    BY DEF OffKeepsOnlyOverlapping
  <2>1. Off(d)
    BY DEF Off
  <2> QED
    BY <2>1 DEF IInv, SettingOK
<1> QED
  BY <1>1, CallsOrderly, PTL

\* A call drops a stage only for lack of memory, unless others changed the cache
\* since its snapshot, and before the stages used later, unless others used them.
THEOREM OldestDropped == Spec => DropsOldestForRoom
<1>1. ASSUME IInv, [Next]_vars, NEW s \in Scans, op[s].pc = "evict",
             Len(op'[s].order) < Len(op[s].order), op'[s].pc = "evict"
      PROVE  /\ ~op[s].disturbed =>
                  \/ CachedBytes(Db(s)) + Bytes[op[s].key] > Half(Db(s))
                  \/ UsedMemory(Db(s)) + Bytes[op[s].key] > Limit[Db(s)]
             /\ op[s].touched = {} =>
                  \A i \in Range(op'[s].order) : <<Head(op[s].order), i>> \in last_used
  <2>1. op'[s].order # op[s].order
    <3>1. op[s].order \in Seq(StageIds)
      BY <1>1, CallFacts DEF OpType
    <3>2. Len(op[s].order) \in Nat
      BY <3>1
    <3> QED
      BY <1>1, <3>2
  <2>2. Work(s)
    BY <1>1, <2>1, Moves
  <2>3. Evict(s)
    <3>1. ~RoomMade(s)
      <4> SUFFICES ASSUME RoomMade(s) PROVE FALSE
        OBVIOUS
      <4>1. op'[s].pc = "put" \/ op'[s] = Using(s, op[s].cur)
        BY <1>1, RoomMadeFacts
      <4>2. op[s].cur \in StageIds /\ op \in [Scans -> OpType]
        BY <1>1, CallFacts
      <4>3. Using(s, op[s].cur).pc = "using"
        BY <4>2, UsingType
      <4> QED
        BY <1>1, <4>1, <4>3
    <3> QED
      BY <1>1, <2>2, <3>1, WorkAt
  <2>4. /\ ~Fits(s) /\ op[s].order # <<>> /\ op'[s].order = Tail(op[s].order)
    BY <1>1, <2>3, EvictFacts
  <2>5. /\ CallOK(s) /\ RoomOK(s) /\ op[s].key \in Keys /\ Db(s) \in Dbs /\ TypeOK
    BY <1>1, CallFacts DEF IInv
  <2>6. ~op[s].disturbed =>
          \/ CachedBytes(Db(s)) + Bytes[op[s].key] > Half(Db(s))
          \/ UsedMemory(Db(s)) + Bytes[op[s].key] > Limit[Db(s)]
    <3> SUFFICES ASSUME ~op[s].disturbed
                 PROVE  \/ CachedBytes(Db(s)) + Bytes[op[s].key] > Half(Db(s))
                        \/ UsedMemory(Db(s)) + Bytes[op[s].key] > Limit[Db(s)]
      OBVIOUS
    <3>1. Cached(Db(s)) = Listed(op[s])
      BY <1>1, <2>5 DEF RoomOK
    <3>2. op[s].bytes = CachedBytes(Db(s)) /\ CachedBytes(Db(s)) \in Nat
      <4>1. op[s].bytes = BytesOf(Cached(Db(s)))
        BY <1>1, <2>5, <3>1 DEF CallOK
      <4>2. CachedBytes(Db(s)) = BytesOf(Cached(Db(s))) /\ BytesOf(Cached(Db(s))) \in Nat
        BY <1>1, <2>5, CachedFacts
      <4> QED
        BY <4>1, <4>2
    <3>3. /\ Bytes[op[s].key] \in Nat /\ used[Db(s)] \in Nat /\ Limit[Db(s)] \in Nat
          /\ Half(Db(s)) \in Int /\ UsedMemory(Db(s)) \in Nat
      BY <2>5, <3>2, SharingAssumption DEF Half, UsedMemory, TypeOK
    <3> QED
      BY <2>4, <3>2, <3>3 DEF Fits
  <2>7. ASSUME op[s].touched = {}, NEW i \in Range(op'[s].order)
        PROVE  <<Head(op[s].order), i>> \in last_used
    <3>1. PICK n \in DOMAIN op'[s].order : op'[s].order[n] = i
      BY <2>7 DEF Range
    <3>2. /\ Head(op[s].order) = op[s].order[1] /\ 1 \in DOMAIN op[s].order
          /\ n \in Nat /\ n + 1 \in DOMAIN op[s].order /\ op'[s].order[n] = op[s].order[n + 1]
          /\ op[s].order \in Seq(StageIds)
      BY <1>1, <2>4, <3>1, ListedFacts
    <3>3. 1 < n + 1
      <4>1. n \in 1 .. Len(Tail(op[s].order))
        BY <2>4, <3>1, <3>2
      <4> QED
        BY <4>1
    <3> QED
      BY <1>1, <2>5, <2>7, <3>1, <3>2, <3>3 DEF RoomOK
  <2> QED
    BY <2>6, <2>7
<1>2. IInv /\ [Next]_vars =>
        [\A s \in Scans : op[s].pc = "evict" /\ Len(op'[s].order) < Len(op[s].order)
                          /\ op'[s].pc = "evict" =>
           /\ ~op[s].disturbed =>
                \/ CachedBytes(Db(s)) + Bytes[op[s].key] > Half(Db(s))
                \/ UsedMemory(Db(s)) + Bytes[op[s].key] > Limit[Db(s)]
           /\ op[s].touched = {} =>
                \A i \in Range(op'[s].order) : <<Head(op[s].order), i>> \in last_used]_vars
  BY <1>1
<1> QED
  BY <1>2, CallsOrderly, PTL DEF Spec, DropsOldestForRoom

\* A call that no other disturbed since its snapshot caches its stage within half
\* of memory_limit, and within what DuckDB's other memory leaves.
THEOREM LoneCallsStayWithin == Spec => LoneCallsKeepTheLimits
<1>1. ASSUME IInv, [Next]_vars, NEW s \in Scans, op[s].pc = "put", op'[s].pc = "add",
             ~op[s].disturbed
      PROVE  CachedBytes(Db(s))' <= Half(Db(s)) /\ UsedMemory(Db(s))' <= Limit[Db(s)]
  <2>1. Work(s)
    BY <1>1, Moves
  <2>2. Put(s)
    BY <1>1, <2>1, WorkAt
  <2>3. /\ CachedBytes(Db(s))' \in Nat
        /\ CachedBytes(Db(s))' <= BytesOf(Cached(Db(s))) + Bytes[op[s].key]
    BY <1>1, <2>2, PutAdds
  <2>4. RoomOK(s) /\ Db(s) \in Dbs /\ op[s].key \in Keys /\ TypeOK
    BY <1>1, CallFacts DEF IInv
  <2>5. /\ BytesOf(Cached(Db(s))) + Bytes[op[s].key] <= Half(Db(s))
        /\ used[Db(s)] + BytesOf(Cached(Db(s))) + Bytes[op[s].key] <= Limit[Db(s)]
    BY <1>1, <2>4 DEF RoomOK
  <2>6. /\ BytesOf(Cached(Db(s))) \in Nat /\ Bytes[op[s].key] \in Nat /\ used[Db(s)] \in Nat
        /\ Half(Db(s)) \in Int /\ Limit[Db(s)] \in Nat
    BY <1>1, <2>4, CachedFacts, SharingAssumption DEF Half, TypeOK
  <2>7. used' = used
    BY <1>1, <2>2, PutFacts DEF Settings
  <2>8. UsedMemory(Db(s))' = used[Db(s)] + CachedBytes(Db(s))'
    BY <2>7 DEF UsedMemory, Db
  <2> QED
    BY <2>3, <2>5, <2>6, <2>8
<1>2. IInv /\ [Next]_vars =>
        [\A s \in Scans : op[s].pc = "put" /\ op'[s].pc = "add" /\ ~op[s].disturbed =>
           /\ CachedBytes(Db(s))' <= Half(Db(s))
           /\ UsedMemory(Db(s))' <= Limit[Db(s)]]_vars
  BY <1>1
<1> QED
  BY <1>2, CallsOrderly, PTL DEF Spec, LoneCallsKeepTheLimits

\* Calls that overlap each count the cached stages before the others put theirs.
\* The cache exceeds half the memory limit by no more than one stage of the largest
\* size for each thread but one, whatever number of calls follow each other.
THEOREM OverlapsStayWithin == Spec => []OverlapExceedsByOneStageEach
<1>1. Init => IInv /\ OverlapOK
  BY InitKeeps, InitOverlap
<1>2. IInv /\ OverlapOK /\ [Next]_vars => IInv' /\ OverlapOK'
  BY StepKeeps, StepOverlap
<1>3. IInv /\ OverlapOK => OverlapExceedsByOneStageEach
  BY OverlapExceeds
<1> QED
  BY <1>1, <1>2, <1>3, PTL DEF Spec
=============================================================================
