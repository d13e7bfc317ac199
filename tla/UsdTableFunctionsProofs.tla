---------------------- MODULE UsdTableFunctionsProofs ----------------------
(***************************************************************************)
(* A call of a table function implements UsdPushdown, so that what is      *)
(* proved of the pushdown alone holds until the last row is returned; its  *)
(* bind lists the files that it should; and its rows are those that        *)
(* producers of their own return for each prim of a morsel.                *)
(* Such rows show the prim's own arcs, and are the same for the prims of a *)
(* subtree that is scanned alone.                                          *)
(***************************************************************************)
EXTENDS UsdTableFunctions, UsdProducersProofs

-----------------------------------------------------------------------------
(* The pushdown *)

(* The names pushed down include every name that all filters accept, and   *)
(* only names that the pushable filters looked at accept.                  *)
PushdownInv ==
    /\ PushdownTypeOK
    /\ filter_property_names =>
           \A n \in Names : (\A filter \in where : Passes(filter, n)) => n \in property_names
    /\ \A filter \in where \ pending : Collects(filter) =>
           filter_property_names /\ property_names \subseteq CollectPropertyNames(filter)

\* A filter that only compares the name with constants accepts the names collected from it.
LEMMA CollectedNames ==
    ASSUME NEW filter, Collects(filter), NEW n \in Names
    PROVE  Passes(filter, n) <=> n \in CollectPropertyNames(filter)
<1>1. \A c \in filter : Accepts(c, n) <=> n \in c.values
  BY DEF Collects, Accepts
<1>2. n # Null
  BY PushdownAssumption
<1>3. n \in CollectPropertyNames(filter) <=> \E c \in filter : n \in c.values
  BY <1>2 DEF CollectPropertyNames
<1> QED
  BY <1>1, <1>3 DEF Passes

\* The names collected are names a query may mention.
LEMMA CollectedType ==
    ASSUME NEW filter \in Filters
    PROVE  CollectPropertyNames(filter) \subseteq Names
BY PushdownAssumption DEF CollectPropertyNames, Comparison

\* The invariant holds before the first filter is pushed.
LEMMA PushdownInvInit == PushdownInit => PushdownInv
BY DEF PushdownInit, PushdownInv, PushdownTypeOK

\* Every round of the loop, and every repetition of the pushdown, keeps it.
LEMMA PushdownInvNext == PushdownInv /\ [PushdownNext]_pushdown => PushdownInv'
<1> SUFFICES ASSUME PushdownInv, [PushdownNext]_pushdown PROVE PushdownInv'
  OBVIOUS
<1>1. CASE PushFilter
  <2>1. PICK filter \in pending :
          /\ pending' = pending \ {filter}
          /\ UNCHANGED where
          /\ IF Collects(filter)
             THEN /\ filter_property_names' = TRUE
                  /\ property_names' = IF filter_property_names
                                       THEN CollectPropertyNames(filter) \cap property_names
                                       ELSE CollectPropertyNames(filter)
             ELSE UNCHANGED <<filter_property_names, property_names>>
    BY <1>1 DEF PushFilter
  <2>2. filter \in where /\ filter \in Filters
    BY <2>1 DEF PushdownInv, PushdownTypeOK
  <2>3. PushdownTypeOK'
    BY <2>1, <2>2, CollectedType DEF PushdownInv, PushdownTypeOK
  <2>4. CASE Collects(filter)
    <3>1. ASSUME NEW n \in Names, \A f \in where : Passes(f, n)
          PROVE  n \in property_names'
      <4>1. n \in CollectPropertyNames(filter)
        BY <3>1, <2>2, <2>4, CollectedNames
      <4> QED
        BY <4>1, <3>1, <2>1, <2>4 DEF PushdownInv
    <3>2. ASSUME NEW f \in (where \ pending)', Collects(f)
          PROVE  filter_property_names' /\ property_names' \subseteq CollectPropertyNames(f)
      <4>1. CASE f = filter
        BY <4>1, <2>1, <2>4
      <4>2. CASE f # filter
        <5>1. f \in where \ pending
          BY <4>2, <3>2, <2>1
        <5> QED
          BY <5>1, <3>2, <2>1, <2>4 DEF PushdownInv
      <4> QED
        BY <4>1, <4>2
    <3>3. where' = where
      BY <2>1
    <3> QED
      BY <2>3, <3>1, <3>2, <3>3 DEF PushdownInv, Passes, Accepts, ComparesNames, IsScanColumn, Collects,
         CollectPropertyNames
  <2>5. CASE ~Collects(filter)
    <3>1. UNCHANGED <<where, filter_property_names, property_names>>
      BY <2>1, <2>5
    <3>2. \A f \in (where \ pending)' : Collects(f) => f \in where \ pending
      BY <2>1, <2>5
    <3> QED
      BY <2>3, <3>1, <3>2 DEF PushdownInv, Passes, Accepts, ComparesNames, IsScanColumn, Collects,
         CollectPropertyNames
  <2> QED
    BY <2>4, <2>5
<1>2. CASE PushAgain
  <2>1. UNCHANGED <<where, filter_property_names, property_names>> /\ pending' \subseteq where
    BY <1>2 DEF PushAgain
  <2>2. where \ pending = where
    BY <1>2 DEF PushAgain
  <2> QED
    BY <2>1, <2>2 DEF PushdownInv, PushdownTypeOK, Passes, Accepts, ComparesNames, IsScanColumn, Collects,
       CollectPropertyNames
<1>3. CASE UNCHANGED pushdown
  BY <1>3 DEF pushdown, PushdownInv, PushdownTypeOK, Passes, Accepts, ComparesNames, IsScanColumn, Collects,
     CollectPropertyNames
<1> QED
  BY <1>1, <1>2, <1>3 DEF PushdownNext

\* What the invariant says of the answer.
LEMMA PushdownInvKeeps == PushdownInv => PushdownKeepsProperties
<1> SUFFICES ASSUME PushdownInv, NEW prim \in DOMAIN PropertyNames
             PROVE  Kept(Get(prim)) = Kept(PropertyNames[prim])
  BY DEF PushdownKeepsProperties
<1>1. Get(prim) \subseteq PropertyNames[prim]
  BY DEF Get
<1>2. ASSUME NEW n \in PropertyNames[prim], \A filter \in where : Passes(filter, n)
      PROVE  n \in Get(prim)
  <2>1. n \in ValidNames /\ n \in Names
    BY <1>2, PushdownAssumption
  <2> QED
    BY <2>1, <1>2 DEF PushdownInv, Get
<1> QED
  BY <1>1, <1>2 DEF Kept

\* What the invariant says of the rows the other filters see.
LEMMA PushdownInvNamed == PushdownInv => OthersSeeNamedProperties
<1> SUFFICES ASSUME PushdownInv, pending = {}, NEW filter \in where, Collects(filter),
                    NEW prim \in DOMAIN PropertyNames, NEW n \in Get(prim)
             PROVE  Passes(filter, n)
  BY DEF OthersSeeNamedProperties
<1>1. filter_property_names /\ property_names \subseteq CollectPropertyNames(filter)
  BY DEF PushdownInv
<1>2. n \in Names /\ n \in CollectPropertyNames(filter)
  BY <1>1, PushdownAssumption DEF Get
<1> QED
  BY <1>2, CollectedNames

\* The invariant holds in every reachable state.
LEMMA PushdownInvariance == PushdownSpec => []PushdownInv
BY PushdownInvInit, PushdownInvNext, PTL DEF PushdownSpec

\* Every variable keeps its type: only names of the query's filters are
\* looked up (UsdScanPushdownComplexFilter).
THEOREM PushdownTypeCorrect == PushdownSpec => []PushdownTypeOK
<1>1. PushdownInv => PushdownTypeOK
  BY DEF PushdownInv
<1> QED
  BY <1>1, PushdownInvariance, PTL

\* Reading only the names pushed down never changes which properties the
\* query's filters keep (usd_scan.cpp:467).
THEOREM KeepsProperties == PushdownSpec => []PushdownKeepsProperties
BY PushdownInvariance, PushdownInvKeeps, PTL

\* Pushed filters hold of every row the scan returns, so that other filters
\* see only the properties named (usd_scan.cpp:467).
THEOREM SeesNamedProperties == PushdownSpec => []OthersSeeNamedProperties
BY PushdownInvariance, PushdownInvNamed, PTL

-----------------------------------------------------------------------------
(* A call and its pushdown *)

\* The call starts as UsdPushdown does.
LEMMA InitImplements == Init => PushdownInit
BY DEF Init

\* Only planning changes the filters and the names pushed down.
LEMMA NextImplements == [Next]_vars => [PushdownNext]_pushdown
<1> SUFFICES ASSUME [Next]_vars PROVE [PushdownNext]_pushdown
  OBVIOUS
<1>1. CASE Bind
  BY <1>1 DEF Bind
<1>2. CASE Change
  BY <1>2 DEF Change
<1>3. CASE Pushdown
  BY <1>3 DEF Pushdown
<1>4. CASE InitScan
  BY <1>4 DEF InitScan
<1>5. CASE Fill
  BY <1>5 DEF Fill
<1>6. CASE Emit
  BY <1>6 DEF Emit
<1>7. CASE Exhausted
  BY <1>7 DEF Exhausted
<1>8. CASE TakeMorsel
  BY <1>8 DEF TakeMorsel
<1>9. CASE OpenFile
  BY <1>9 DEF OpenFile
<1>10. CASE NoMoreFiles
  BY <1>10 DEF NoMoreFiles
<1>11. CASE Ended \/ UNCHANGED vars
  BY <1>11 DEF Ended, vars
<1> QED
  BY <1>1, <1>2, <1>3, <1>4, <1>5, <1>6, <1>7, <1>8, <1>9, <1>10, <1>11 DEF Next

\* Every behavior of a call is one of the pushdown: the bind, the scan and
\* other threads leave its options alone (UsdScanPushdownComplexFilter).
THEOREM ImplementsPushdown == Spec => PushdownSpec
BY InitImplements, NextImplements, PTL DEF Spec, PushdownSpec

\* Whatever is bound and scanned, reading only the names pushed down never
\* changes which properties the query's filters keep (usd_scan.cpp:467).
THEOREM ScanKeepsProperties == Spec => []PushdownKeepsProperties
BY ImplementsPushdown, KeepsProperties, PTL

\* From the end of the pushdown to the last row, the query's other filters
\* see only the properties named (usd_scan.cpp:467).
THEOREM ScanSeesNamedProperties == Spec => []OthersSeeNamedProperties
BY ImplementsPushdown, SeesNamedProperties, PTL

-----------------------------------------------------------------------------
(* The files of a bind *)

\* The files that the paths match, in the order they are listed
Listing(paths) == FlattenSeq([i \in DOMAIN paths |-> Matches[paths[i]]])

\* The files that nobody changed, and those of them that can be read
Steady == CallFiles \ changed
Readable == {f \in Steady : state[f] = "usd"}

\* It was right to pass over f, which the path matches
Fine(f, path) ==
    /\ state[f] # "denied"
    /\ ~options.ignore_errors =>
         state[f] = "usd" \/ (state[f] \in {"missing", "directory"} /\ path \in Globs)

\* The paths of a call that was not rejected
PathsOK(paths) == paths # Null /\ ~HasNull(paths) /\ paths \in Seq(DOMAIN Matches)

\* The paths from the m-th on
Rest(m) == SubSeq(call.paths, m, Len(call.paths))

\* The first n paths have been listed, and what they match was accepted, rightly
\* passed over, or is still listed
Listed(n) ==
    /\ n \in 0 .. Len(call.paths)
    /\ entries = Rest(n + 1)
    /\ \A i \in 1 .. n : \A f \in ToSet(Matches[call.paths[i]]) \ changed :
         f \in ToSet(listed) \/ Fine(f, call.paths[i])

\* The files accepted so far, those still listed and those of the paths that are
\* left include every readable file, in the order of the paths
NoneMissed ==
    Among(files, Steady) \o (Among(listed, Readable) \o Among(Listing(entries), Readable))
        = Among(Matched, Readable)

\* The next path matched no file when DuckDB listed it, and is validated next
Unmatched ==
    /\ listed = <<>> /\ entries # <<>> /\ Head(entries) \notin Globs \cup Remote
    /\ \A f \in ToSet(Matches[Head(entries)]) \ changed :
         state[f] \notin {"usd", "unsupported", "denied"}

\* Where the bind is, until it fails
BindOK ==
    /\ PathsOK(call.paths)
    /\ files \in Seq(CallFiles) /\ listed \in Seq(CallFiles)
    /\ \E n \in Nat : Listed(n)
    /\ NoneMissed
    /\ pc = "report" => Unmatched
    /\ pc \notin {"bind", "report"} => listed = <<>> /\ entries = <<>> /\ files # <<>>

\* The inductive invariant of the bind
BInv ==
    /\ call \in Calls
    /\ state \in [CallFiles -> FileStates]
    /\ pc = "call" => files = <<>> /\ listed = <<>>
    /\ pc \notin {"call", "failed"} => BindOK

\* The paths of a bind match the files of the call.
LEMMA PathFacts ==
    ASSUME PathsOK(call.paths)
    PROVE  /\ Matched = Listing(call.paths) /\ CallFiles = ToSet(Matched)
           /\ Len(call.paths) \in Nat /\ DOMAIN call.paths = 1 .. Len(call.paths)
           /\ \A i \in 1 .. Len(call.paths) : call.paths[i] \in DOMAIN Matches
           /\ \A i \in 1 .. Len(call.paths) : Matches[call.paths[i]] \in Seq(CallFiles)
           /\ \A f \in CallFiles : \E i \in 1 .. Len(call.paths) : f \in ToSet(Matches[call.paths[i]])
           /\ Rest(1) = call.paths
<1> DEFINE paths == call.paths
           lists == [i \in DOMAIN paths |-> Matches[paths[i]]]
<1>1. /\ paths \in Seq(DOMAIN Matches) /\ Len(paths) \in Nat /\ DOMAIN paths = 1 .. Len(paths)
      /\ \A i \in 1 .. Len(paths) : paths[i] \in DOMAIN Matches
  BY LenProperties, ElementOfSeq DEF PathsOK
<1>2. \A i \in 1 .. Len(paths) : Matches[paths[i]] \in Seq(DOMAIN Files)
  BY <1>1, BindAssumption
<1>3. lists \in Seq(Seq(DOMAIN Files))
  <2>1. lists \in [1 .. Len(paths) -> Seq(DOMAIN Files)]
    BY <1>1, <1>2
  <2> HIDE DEF lists
  <2> QED BY <1>1, <2>1
<1>4. Matched = Listing(paths) /\ CallFiles = ToSet(Matched) /\ Matched = FlattenSeq(lists)
  BY DEF Matched, CallFiles, Listing, PathsOK
<1>5. \A f : f \in CallFiles <=> \E i \in 1 .. Len(paths) : f \in ToSet(Matches[paths[i]])
  <2>1. \A f : f \in ToSet(FlattenSeq(lists)) <=> \E x \in ToSet(lists) : f \in ToSet(x)
    <3> HIDE DEF lists
    <3> QED BY <1>3, FlattenElements
  <2>2. ToSet(lists) = {Matches[paths[i]] : i \in 1 .. Len(paths)}
    BY <1>1 DEF ToSet
  <2> HIDE DEF lists
  <2> QED BY <1>4, <2>1, <2>2
<1>6. ASSUME NEW i \in 1 .. Len(paths) PROVE Matches[paths[i]] \in Seq(CallFiles)
  <2> DEFINE m == Matches[paths[i]]
  <2>1. m \in Seq(DOMAIN Files) /\ \A f \in ToSet(m) : f \in CallFiles
    BY <1>2, <1>5
  <2> HIDE DEF m
  <2>2. Len(m) \in Nat /\ DOMAIN m = 1 .. Len(m) /\ m \in [1 .. Len(m) -> DOMAIN Files]
    BY <2>1, LenProperties
  <2>3. \A j \in 1 .. Len(m) : m[j] \in CallFiles
    BY <2>1, <2>2 DEF ToSet
  <2>4. m \in [1 .. Len(m) -> CallFiles]
    BY <2>2, <2>3
  <2>5. m \in Seq(CallFiles)
    BY <2>2, <2>4
  <2> QED BY <2>5 DEF m
<1>7. Rest(1) = paths
  BY <1>1, SubSeqFull DEF Rest
<1> QED BY <1>1, <1>4, <1>5, <1>6, <1>7

\* Listings of paths list files.
LEMMA ListingType ==
    ASSUME NEW paths \in Seq(DOMAIN Matches),
           \A i \in 1 .. Len(paths) : Matches[paths[i]] \in Seq(CallFiles)
    PROVE  /\ Listing(paths) \in Seq(CallFiles)
           /\ [i \in DOMAIN paths |-> Matches[paths[i]]] \in Seq(Seq(CallFiles))
<1> DEFINE lists == [i \in DOMAIN paths |-> Matches[paths[i]]]
<1>1. Len(paths) \in Nat /\ DOMAIN paths = 1 .. Len(paths)
  BY LenProperties
<1>2. lists \in [1 .. Len(paths) -> Seq(CallFiles)]
  BY <1>1
<1>3. Listing(paths) = FlattenSeq(lists)
  BY DEF Listing
<1> HIDE DEF lists
<1>4. lists \in Seq(Seq(CallFiles))
  BY <1>1, <1>2
<1> QED BY <1>3, <1>4, FlattenType DEF lists

\* The paths from the m-th on are the m-th and those after it.
LEMMA RestFacts ==
    ASSUME PathsOK(call.paths), NEW m \in 1 .. Len(call.paths) + 1
    PROVE  /\ Rest(m) \in Seq(DOMAIN Matches) /\ Listing(Rest(m)) \in Seq(CallFiles)
           /\ m = Len(call.paths) + 1 => Rest(m) = <<>> /\ Listing(Rest(m)) = <<>>
           /\ m <= Len(call.paths) =>
                /\ Rest(m) # <<>> /\ Head(Rest(m)) = call.paths[m] /\ Tail(Rest(m)) = Rest(m + 1)
                /\ Listing(Rest(m)) = Matches[call.paths[m]] \o Listing(Rest(m + 1))
<1> DEFINE paths == call.paths
<1>1. /\ Len(paths) \in Nat /\ paths \in Seq(DOMAIN Matches)
      /\ \A i \in 1 .. Len(paths) : paths[i] \in DOMAIN Matches
      /\ \A i \in 1 .. Len(paths) : Matches[paths[i]] \in Seq(CallFiles)
  BY PathFacts DEF PathsOK
<1>2. ASSUME NEW k \in 1 .. Len(paths) + 1
      PROVE  /\ Rest(k) \in Seq(DOMAIN Matches)
             /\ Len(Rest(k)) = Len(paths) + 1 - k
             /\ \A i \in 1 .. Len(paths) + 1 - k : Rest(k)[i] = paths[k + i - 1]
             /\ \A i \in 1 .. Len(Rest(k)) : Matches[Rest(k)[i]] \in Seq(CallFiles)
             /\ Listing(Rest(k)) \in Seq(CallFiles)
  <2>1. k \in Int /\ Len(paths) \in Int /\ \A i \in k .. Len(paths) : paths[i] \in DOMAIN Matches
    BY <1>1
  <2>2. /\ Rest(k) \in Seq(DOMAIN Matches)
        /\ Len(Rest(k)) = IF k <= Len(paths) THEN Len(paths) - k + 1 ELSE 0
        /\ \A i \in 1 .. Len(paths) - k + 1 : Rest(k)[i] = paths[k + i - 1]
    BY <2>1, SubSeqProperties DEF Rest
  <2>3. /\ Len(Rest(k)) = Len(paths) + 1 - k /\ Len(paths) - k + 1 = Len(paths) + 1 - k
    BY <1>1, <2>2
  <2>4. ASSUME NEW i \in 1 .. Len(paths) + 1 - k PROVE Matches[Rest(k)[i]] \in Seq(CallFiles)
    <3>1. k + i - 1 \in 1 .. Len(paths) /\ Rest(k)[i] = paths[k + i - 1]
      BY <1>1, <2>2, <2>3
    <3> QED BY <1>1, <3>1
  <2>5. Listing(Rest(k)) \in Seq(CallFiles)
    BY <2>2, <2>3, <2>4, ListingType
  <2> QED BY <2>2, <2>3, <2>4, <2>5
<1>3. ASSUME m = Len(paths) + 1 PROVE Rest(m) = <<>> /\ Listing(Rest(m)) = <<>>
  <2>1. Rest(m) = <<>>
    BY <1>1, <1>3, SubSeqEmpty DEF Rest
  <2>2. [i \in DOMAIN <<>> |-> Matches[<<>>[i]]] = <<>>
    OBVIOUS
  <2> QED BY <2>1, <2>2, FlattenEmpty DEF Listing
<1>4. ASSUME m <= Len(paths)
      PROVE  /\ Rest(m) # <<>> /\ Head(Rest(m)) = paths[m] /\ Tail(Rest(m)) = Rest(m + 1)
             /\ Listing(Rest(m)) = Matches[paths[m]] \o Listing(Rest(m + 1))
  <2>1. m \in 1 .. Len(paths) /\ Len(paths) \in m .. Len(paths) /\ m + 1 \in 1 .. Len(paths) + 1
    BY <1>1, <1>4
  <2>2. Head(Rest(m)) = paths[m] /\ Tail(Rest(m)) = Rest(m + 1)
    BY <1>1, <2>1, HeadTailOfSubSeq DEF Rest
  <2>3. Rest(m) # <<>>
    <3>1. Len(Rest(m)) # 0 /\ Len(<<>>) = 0
      BY <1>1, <1>2, <1>4
    <3> QED BY <3>1
  <2> DEFINE lists(k) == [i \in DOMAIN Rest(k) |-> Matches[Rest(k)[i]]]
             one == <<Matches[paths[m]]>>
  <2>4. /\ lists(m) \in Seq(Seq(CallFiles)) /\ lists(m + 1) \in Seq(Seq(CallFiles))
        /\ one \in Seq(Seq(CallFiles))
    <3>1. /\ Rest(m) \in Seq(DOMAIN Matches) /\ Rest(m + 1) \in Seq(DOMAIN Matches)
          /\ \A i \in 1 .. Len(Rest(m)) : Matches[Rest(m)[i]] \in Seq(CallFiles)
          /\ \A i \in 1 .. Len(Rest(m + 1)) : Matches[Rest(m + 1)[i]] \in Seq(CallFiles)
      BY <1>2, <2>1
    <3>2. [i \in DOMAIN Rest(m) |-> Matches[Rest(m)[i]]] \in Seq(Seq(CallFiles))
      BY <3>1, ListingType
    <3>3. [i \in DOMAIN Rest(m + 1) |-> Matches[Rest(m + 1)[i]]] \in Seq(Seq(CallFiles))
      BY <3>1, ListingType
    <3>4. Matches[paths[m]] \in Seq(CallFiles)
      BY <1>1, <2>1
    <3>5. one \in Seq(Seq(CallFiles))
      <4> DEFINE S == Seq(CallFiles)
                 x == Matches[paths[m]]
      <4>1. x \in S
        BY <3>4
      <4> HIDE DEF S, x
      <4>2. <<x>> \in Seq(S)
        BY <4>1
      <4> QED BY <4>2 DEF S, x
    <3> QED BY <3>2, <3>3, <3>5
  <2>5. /\ DOMAIN Rest(m) = 1 .. Len(paths) + 1 - m
        /\ DOMAIN Rest(m + 1) = 1 .. Len(paths) - m
    BY <1>1, <1>2, <2>1, LenProperties
  <2>6. lists(m) = one \o lists(m + 1)
    <3>1. /\ DOMAIN lists(m) = 1 .. Len(paths) + 1 - m /\ DOMAIN lists(m + 1) = 1 .. Len(paths) - m
          /\ Len(one) = 1 /\ Len(paths) - m \in Nat
      BY <1>1, <2>1, <2>5
    <3>2. Len(lists(m)) = Len(paths) + 1 - m /\ Len(lists(m + 1)) = Len(paths) - m
      <4> HIDE DEF lists
      <4> QED BY <1>1, <2>1, <2>4, <3>1, LenProperties
    <3>3. /\ one \o lists(m + 1) \in Seq(Seq(CallFiles))
          /\ Len(one \o lists(m + 1)) = Len(paths) + 1 - m
          /\ \A i \in 1 .. 1 + (Len(paths) - m) : (one \o lists(m + 1))[i] =
                IF i <= 1 THEN one[i] ELSE lists(m + 1)[i - 1]
      <4> HIDE DEF lists, one
      <4>1. /\ one \o lists(m + 1) \in Seq(Seq(CallFiles))
            /\ Len(one \o lists(m + 1)) = Len(one) + Len(lists(m + 1))
            /\ \A i \in 1 .. Len(one) + Len(lists(m + 1)) : (one \o lists(m + 1))[i] =
                  IF i <= Len(one) THEN one[i] ELSE lists(m + 1)[i - Len(one)]
        BY <2>4, ConcatProperties
      <4>2. Len(one) = 1 /\ Len(one) + Len(lists(m + 1)) = 1 + (Len(paths) - m)
            /\ 1 + (Len(paths) - m) = Len(paths) + 1 - m
        BY <1>1, <2>1, <3>1, <3>2
      <4> QED BY <4>1, <4>2
    <3>4. m \in Nat /\ Len(paths) \in Nat
      BY <1>1
    <3>5. \A j \in 1 .. Len(paths) - m : Rest(m + 1)[j] = paths[m + j]
      <4> DEFINE k == m + 1
      <4>1. \A j \in 1 .. Len(paths) - m : k + j - 1 = m + j /\ j \in 1 .. Len(paths) + 1 - k
        <5> HIDE DEF lists, one, paths
        <5> QED BY <3>4
      <4>2. k \in 1 .. Len(paths) + 1
        BY <2>1
      <4> HIDE DEF k, lists, one
      <4>3. \A j \in 1 .. Len(paths) + 1 - k : Rest(k)[j] = paths[k + j - 1]
        BY <1>2, <4>2
      <4> HIDE DEF paths
      <4>4. \A j \in 1 .. Len(paths) - m : Rest(k)[j] = paths[m + j]
        BY <4>1, <4>3
      <4> QED BY <4>4 DEF k
    <3>6. ASSUME NEW i \in 1 .. Len(paths) + 1 - m
          PROVE  lists(m)[i] = (one \o lists(m + 1))[i]
      <4>1. /\ lists(m)[i] = Matches[Rest(m)[i]] /\ Rest(m)[i] = paths[m + i - 1]
            /\ i \in 1 .. 1 + (Len(paths) - m)
        BY <1>1, <1>2, <2>5
      <4>2. CASE i = 1
        <5>1. m + i - 1 = m /\ i <= 1 /\ one[i] = Matches[paths[m]]
          BY <4>2
        <5>2. (one \o lists(m + 1))[i] = one[i]
          <6> HIDE DEF lists, one
          <6> QED BY <3>3, <4>1, <5>1
        <5>3. Rest(m)[i] = paths[m]
          BY <4>1, <5>1
        <5> HIDE DEF lists, one
        <5> QED BY <4>1, <5>1, <5>2, <5>3
      <4>3. CASE i # 1
        <5>1. i - 1 \in 1 .. Len(paths) - m /\ ~(i <= 1) /\ m + (i - 1) = m + i - 1
          <6> HIDE DEF lists, one, paths
          <6> QED BY <3>4, <4>3
        <5>2. Rest(m + 1)[i - 1] = paths[m + i - 1]
          <6> HIDE DEF lists, one, paths
          <6> QED BY <3>5, <5>1
        <5>3. lists(m + 1)[i - 1] = Matches[Rest(m + 1)[i - 1]]
          BY <2>5, <5>1
        <5>4. (one \o lists(m + 1))[i] = lists(m + 1)[i - 1]
          <6> HIDE DEF lists, one
          <6> QED BY <3>3, <4>1, <5>1
        <5> HIDE DEF lists, one
        <5> QED BY <4>1, <5>2, <5>3, <5>4
      <4> QED BY <4>2, <4>3
    <3> HIDE DEF lists, one
    <3> QED BY <2>4, <3>2, <3>3, <3>6, SeqEqual
  <2>7. FlattenSeq(one) = Matches[paths[m]]
    <3>1. Matches[paths[m]] \in Seq(CallFiles) /\ one = Append(<<>>, Matches[paths[m]])
      BY <1>1, <2>1
    <3>2. <<>> \in Seq(Seq(CallFiles)) /\ FlattenSeq(<<>>) \in Seq(CallFiles)
      BY EmptySeq, FlattenEmpty
    <3>3. FlattenSeq(one) = <<>> \o Matches[paths[m]]
      BY <3>1, <3>2, FlattenAppend, FlattenEmpty
    <3> QED BY <3>1, <3>3, ConcatEmptySeq
  <2>8. FlattenSeq(lists(m)) = FlattenSeq(one) \o FlattenSeq(lists(m + 1))
    <3> HIDE DEF lists, one
    <3> QED BY <2>4, <2>6, FlattenConcat
  <2>9. Listing(Rest(m)) = FlattenSeq(lists(m)) /\ Listing(Rest(m + 1)) = FlattenSeq(lists(m + 1))
    BY DEF Listing
  <2> QED BY <2>2, <2>3, <2>7, <2>8, <2>9
<1> QED BY <1>2, <1>3, <1>4

\* The files of a call are files.
LEMMA CallFilesExist ==
    ASSUME call \in Calls
    PROVE  CallFiles \subseteq DOMAIN Files
<1>1. CASE call.paths = Null \/ HasNull(call.paths)
  BY <1>1 DEF CallFiles
<1>2. CASE ~(call.paths = Null \/ HasNull(call.paths))
  <2> DEFINE paths == call.paths
             lists == [i \in DOMAIN paths |-> Matches[paths[i]]]
  <2>1. paths \in Seq(DOMAIN Matches \cup {Null}) /\ \A i \in DOMAIN paths : paths[i] # Null
    BY <1>2, BindAssumption DEF HasNull
  <2>2. Len(paths) \in Nat /\ DOMAIN paths = 1 .. Len(paths)
    BY <2>1, LenProperties
  <2>3. \A i \in 1 .. Len(paths) : paths[i] \in DOMAIN Matches
    BY <2>1, <2>2, ElementOfSeq
  <2>4. lists \in [1 .. Len(paths) -> Seq(DOMAIN Files)]
    BY <2>2, <2>3, BindAssumption
  <2>5. CallFiles = ToSet(FlattenSeq(lists))
    BY <1>2 DEF CallFiles, Matched
  <2> HIDE DEF lists
  <2>6. lists \in Seq(Seq(DOMAIN Files))
    BY <2>2, <2>4
  <2>7. FlattenSeq(lists) \in Seq(DOMAIN Files)
    BY <2>6, FlattenType
  <2>8. \A i \in DOMAIN FlattenSeq(lists) : FlattenSeq(lists)[i] \in DOMAIN Files
    BY <2>7, LenProperties, ElementOfSeq
  <2> QED BY <2>5, <2>8 DEF ToSet
<1> QED BY <1>1, <1>2

\* The paths of a call that is not rejected are paths.
LEMMA AcceptedPaths ==
    ASSUME call \in Calls, ~Rejected(call)
    PROVE  PathsOK(call.paths)
<1> DEFINE paths == call.paths
<1>1. paths # Null /\ ~HasNull(paths)
  BY DEF Rejected
<1>2. paths \in Seq(DOMAIN Matches \cup {Null}) /\ \A i \in DOMAIN paths : paths[i] # Null
  BY <1>1, BindAssumption DEF HasNull
<1> HIDE DEF paths
<1>3. Len(paths) \in Nat /\ DOMAIN paths = 1 .. Len(paths)
      /\ paths \in [1 .. Len(paths) -> DOMAIN Matches \cup {Null}]
  BY <1>2, LenProperties
<1>4. paths \in [1 .. Len(paths) -> DOMAIN Matches]
  BY <1>2, <1>3
<1>5. paths \in Seq(DOMAIN Matches)
  BY <1>3, <1>4
<1> QED BY <1>1, <1>5 DEF PathsOK, paths

\* The definitions of this chapter depend on the files, not on the progress.
LEMMA BindFrame ==
    ASSUME UNCHANGED <<call, state, changed>>
    PROVE  /\ Steady' = Steady /\ Readable' = Readable /\ Matched' = Matched
           /\ CallFiles' = CallFiles
           /\ PathsOK(call.paths)' = PathsOK(call.paths)
           /\ \A n : Rest(n)' = Rest(n)
<1>1. Matched' = Matched /\ CallFiles' = CallFiles
  BY DEF Matched, CallFiles
<1>2. Steady' = Steady
  BY <1>1 DEF Steady
<1>3. Readable' = Readable
  BY <1>2 DEF Readable
<1> QED BY <1>1, <1>2, <1>3 DEF Rest, PathsOK

\* Nothing is listed yet.
LEMMA BindInits == Init => BInv
<1> SUFFICES ASSUME Init PROVE BInv
  OBVIOUS
<1>1. call \in Calls /\ pc = "call" /\ files = <<>> /\ listed = <<>> /\ state \in [CallFiles -> FileStates]
  BY DEF Init, BindInit
<1> QED BY <1>1 DEF BInv

\* The bind starts with all its paths.
LEMMA BindCallKeeps ==
    ASSUME BInv, BindCall
    PROVE  BInv'
<1>1. /\ pc = "call" /\ UNCHANGED <<call, listed, files, state, changed>>
      /\ \/ pc' = "failed"
         \/ pc' = "bind" /\ entries' = call.paths /\ ~Rejected(call)
  BY DEF BindCall, Throw
<1>2. /\ call \in Calls /\ state \in [CallFiles -> FileStates] /\ files = <<>> /\ listed = <<>>
      /\ CallFiles' = CallFiles /\ Steady' = Steady /\ Readable' = Readable /\ Matched' = Matched
      /\ \A n : Rest(n)' = Rest(n)
      /\ PathsOK(call.paths)' = PathsOK(call.paths)
  BY <1>1, BindFrame DEF BInv
<1>3. ASSUME pc' = "bind", entries' = call.paths, ~Rejected(call) PROVE BindOK'
  <2>1. PathsOK(call.paths)
    BY <1>2, <1>3, AcceptedPaths
  <2>2. /\ Matched = Listing(call.paths) /\ Rest(1) = call.paths /\ Len(call.paths) \in Nat
        /\ 1 \in 1 .. Len(call.paths) + 1
    BY <2>1, PathFacts
  <2>3. Matched \in Seq(CallFiles)
    BY <2>1, <2>2, RestFacts
  <2>4. files' = <<>> /\ listed' = <<>> /\ files' \in Seq(CallFiles') /\ listed' \in Seq(CallFiles')
    BY <1>1, <1>2, EmptySeq
  <2>5. Listed(0)'
    <3>1. /\ 0 \in 0 .. Len(call'.paths) /\ entries' = Rest(0 + 1)'
          /\ ~ \E i : i \in 1 .. 0
      BY <1>1, <1>2, <1>3, <2>2
    <3> QED BY <3>1 DEF Listed
  <2>6. NoneMissed'
    <3>1. Among(Matched, Readable) \in Seq(CallFiles)
      BY <2>3, AmongType
    <3>2. <<>> \o (<<>> \o Among(Matched, Readable)) = Among(Matched, Readable)
      BY <3>1, ConcatEmptySeq
    <3>3. Among(files', Steady') = <<>> /\ Among(listed', Readable') = <<>>
      BY <2>4, AmongEmpty
    <3>4. Listing(entries)' = Listing(call.paths)
      BY <1>3 DEF Listing
    <3> QED BY <1>2, <2>2, <3>2, <3>3, <3>4 DEF NoneMissed
  <2> QED BY <1>2, <1>3, <2>1, <2>4, <2>5, <2>6 DEF BindOK
<1>4. pc' # "call" /\ call' \in Calls /\ state' \in [CallFiles' -> FileStates]
  BY <1>1, <1>2
<1> QED BY <1>1, <1>3, <1>4 DEF BInv

\* Lists can be joined in any order of the joints.
LEMMA ConcatFacts ==
    ASSUME NEW A, NEW a \in Seq(A), NEW b \in Seq(A), NEW c \in Seq(A)
    PROVE  /\ a \o (b \o c) = (a \o b) \o c
           /\ a \o b \in Seq(A)
           /\ <<>> \o a = a /\ a \o <<>> = a
BY ConcatAssociative, ConcatProperties, ConcatEmptySeq

\* A list without elements is empty.
LEMMA NoElements ==
    ASSUME NEW A, NEW s \in Seq(A), ToSet(s) = {}
    PROVE  s = <<>>
<1>1. Len(s) \in Nat /\ DOMAIN s = 1 .. Len(s)
  BY LenProperties
<1>2. ~ \E i \in 1 .. Len(s) : TRUE
  BY <1>1 DEF ToSet
<1>3. Len(s) = 0
  BY <1>1, <1>2
<1> QED BY <1>3, EmptySeq

\* A list is its head and its tail.
LEMMA HeadAndTail ==
    ASSUME NEW A, NEW s \in Seq(A), s # <<>>
    PROVE  /\ Head(s) \in A /\ Tail(s) \in Seq(A)
           /\ s = <<Head(s)>> \o Tail(s)
           /\ ToSet(s) = {Head(s)} \cup ToSet(Tail(s))
           /\ \A S : Among(s, S) = One(Head(s), S) \o Among(Tail(s), S)
<1> DEFINE h == Head(s)
           t == Tail(s)
<1>1. h \in A /\ t \in Seq(A) /\ Len(s) \in Nat /\ Len(s) # 0 /\ Len(t) = Len(s) - 1
      /\ s[1] = h /\ \A i \in 1 .. Len(t) : t[i] = s[i + 1]
  BY HeadTailProperties, LenProperties, EmptySeq
<1> HIDE DEF h, t
<1>2. <<h>> \in Seq(A) /\ Len(<<h>>) = 1 /\ <<h>>[1] = h
  BY <1>1
<1>3. <<h>> \o t = s
  <2>1. /\ <<h>> \o t \in Seq(A)
        /\ Len(<<h>> \o t) = Len(<<h>>) + Len(t)
        /\ \A i \in 1 .. Len(<<h>>) + Len(t) : (<<h>> \o t)[i] =
              IF i <= Len(<<h>>) THEN <<h>>[i] ELSE t[i - Len(<<h>>)]
    BY <1>1, <1>2, ConcatProperties
  <2>2. Len(<<h>> \o t) = Len(s) /\ Len(<<h>>) + Len(t) = Len(s)
    BY <1>1, <1>2, <2>1
  <2>3. ASSUME NEW i \in 1 .. Len(s) PROVE (<<h>> \o t)[i] = s[i]
    <3>1. CASE i = 1
      BY <1>1, <1>2, <2>1, <2>2, <3>1
    <3>2. CASE i # 1
      <4>1. i - 1 \in 1 .. Len(t) /\ (i - 1) + 1 = i /\ ~(i <= 1)
        BY <1>1, <3>2
      <4>2. (<<h>> \o t)[i] = t[i - 1]
        BY <1>2, <2>1, <2>2, <4>1
      <4> QED BY <1>1, <4>1, <4>2
    <3> QED BY <3>1, <3>2
  <2> QED BY <2>1, <2>2, <2>3, SeqEqual
<1>4. ToSet(s) = {h} \cup ToSet(t)
  <2>1. ToSet(<<h>>) = {h}
    <3>1. DOMAIN <<h>> = {1}
      BY <1>2, LenProperties
    <3> QED BY <1>2, <3>1 DEF ToSet
  <2> DEFINE one == <<h>>
  <2>2. one \in Seq(A) /\ t \in Seq(A) /\ one \o t = s /\ ToSet(one) = {h}
    BY <1>1, <1>2, <1>3, <2>1
  <2> HIDE DEF one
  <2>3. \A u, v \in Seq(A) : ToSet(u \o v) = ToSet(u) \cup ToSet(v)
    BY ConcatElements
  <2>4. ToSet(one \o t) = ToSet(one) \cup ToSet(t)
    BY <2>2, <2>3
  <2> QED BY <2>2, <2>4
<1>5. ASSUME NEW S PROVE Among(s, S) = One(h, S) \o Among(t, S)
  <2>1. Among(<<h>> \o t, S) = Among(<<h>>, S) \o Among(t, S)
    <3> DEFINE one == <<h>>
    <3>1. one \in Seq(A)
      BY <1>2
    <3> HIDE DEF one
    <3>2. Among(one \o t, S) = Among(one, S) \o Among(t, S)
      BY <1>1, <3>1, AmongConcat
    <3> QED BY <3>2 DEF one
  <2>2. Among(<<h>>, S) = One(h, S)
    BY <1>1, OneType
  <2> QED BY <1>3, <2>1, <2>2
<1> QED BY <1>1, <1>3, <1>4, <1>5 DEF h, t

\* Steps that leave the bind alone.
LEMMA BoundKeeps ==
    ASSUME BInv, UNCHANGED <<call, options, entries, listed, files, state, changed>>,
           pc' = pc \/ pc' = "failed"
             \/ (pc = "bind" /\ pc' = "report" /\ Unmatched)
             \/ (pc' \notin {"call", "report"} /\ pc \notin {"call", "failed"}
                 /\ listed = <<>> /\ entries = <<>> /\ files # <<>>)
    PROVE  BInv'
<1>1. /\ CallFiles' = CallFiles /\ Steady' = Steady /\ Readable' = Readable /\ Matched' = Matched
      /\ \A n : Rest(n)' = Rest(n)
      /\ PathsOK(call.paths)' = PathsOK(call.paths)
  BY BindFrame
<1>2. /\ call' \in Calls /\ state' \in [CallFiles' -> FileStates]
      /\ (pc' = "call" => files' = <<>> /\ listed' = <<>>)
  BY <1>1 DEF BInv
<1>3. CASE pc' \in {"call", "failed"}
  BY <1>2, <1>3 DEF BInv
<1>4. CASE pc' \notin {"call", "failed"}
  <2>1. BindOK
    BY <1>4 DEF BInv
  <2>2. \A n \in Nat : Listed(n) => Listed(n)'
    BY <1>1 DEF Listed, Fine
  <2>3. NoneMissed'
    BY <1>1, <2>1 DEF BindOK, NoneMissed, Listing
  <2>4. /\ pc' = "report" => Unmatched'
        /\ pc' \notin {"bind", "report"} => listed' = <<>> /\ entries' = <<>> /\ files' # <<>>
    BY <1>4, <2>1 DEF BindOK, Unmatched
  <2>5. BindOK'
    BY <1>1, <2>1, <2>2, <2>3, <2>4 DEF BindOK
  <2> QED BY <1>2, <2>5 DEF BInv
<1> QED BY <1>3, <1>4

\* The next path of a bind, and the files it matches.
LEMMA NextEntry ==
    ASSUME BInv, pc \in {"bind", "report"}, entries # <<>>, NEW n \in Nat, Listed(n)
    PROVE  LET e == Head(entries)
               m == n + 1
           IN  /\ m \in 0 .. Len(call.paths) /\ e = call.paths[m] /\ Tail(entries) = Rest(m + 1)
               /\ Listing(entries) = Matches[e] \o Listing(Rest(m + 1))
               /\ e \in DOMAIN Matches /\ Matches[e] \in Seq(CallFiles)
               /\ Listing(Rest(m + 1)) \in Seq(CallFiles)
<1> DEFINE e == Head(entries)
           paths == call.paths
           m == n + 1
<1>1. /\ PathsOK(paths) /\ Len(paths) \in Nat /\ n \in 0 .. Len(paths) /\ entries = Rest(m)
      /\ m \in 1 .. Len(paths) + 1 /\ m \in Nat
  BY PathFacts DEF BInv, BindOK, Listed
<1>2. m <= Len(paths)
  <2> SUFFICES ASSUME ~(m <= Len(paths)) PROVE FALSE
    OBVIOUS
  <2>1. m = Len(paths) + 1
    BY <1>1
  <2> HIDE DEF m
  <2> QED BY <1>1, <2>1, RestFacts
<1>3. /\ e = paths[m] /\ Tail(entries) = Rest(m + 1)
      /\ Listing(entries) = Matches[e] \o Listing(Rest(m + 1))
      /\ m + 1 \in 1 .. Len(paths) + 1
  <2> HIDE DEF m
  <2>1. /\ Head(Rest(m)) = paths[m] /\ Tail(Rest(m)) = Rest(m + 1)
        /\ Listing(Rest(m)) = Matches[paths[m]] \o Listing(Rest(m + 1))
    BY <1>1, <1>2, RestFacts
  <2>2. m + 1 \in 1 .. Len(paths) + 1
    BY <1>1, <1>2
  <2> QED BY <1>1, <2>1, <2>2
<1>4. e \in DOMAIN Matches /\ Matches[e] \in Seq(CallFiles)
  <2>1. m \in 1 .. Len(paths)
    BY <1>1, <1>2
  <2> HIDE DEF m
  <2> QED BY <1>1, <1>3, <2>1, PathFacts
<1>5. Listing(Rest(m + 1)) \in Seq(CallFiles)
  <2> HIDE DEF m
  <2> QED BY <1>1, <1>3, RestFacts
<1>6. m \in 0 .. Len(paths)
  BY <1>1, <1>2
<1> QED BY <1>3, <1>4, <1>5, <1>6

\* A bind goes on to the next path: what this one matches is listed, or fine.
LEMMA EntryKeeps ==
    ASSUME BInv, pc \in {"bind", "report"}, listed = <<>>, entries # <<>>,
           pc' = "bind", entries' = Tail(entries), files' = files, listed' \in Seq(CallFiles),
           UNCHANGED <<call, options, state, changed>>,
           Among(listed', Readable) = Among(Matches[Head(entries)], Readable),
           \A f \in ToSet(Matches[Head(entries)]) \ changed :
               f \in ToSet(listed') \/ Fine(f, Head(entries))
    PROVE  BInv'
<1> DEFINE e == Head(entries)
<1>1. /\ call \in Calls /\ state \in [CallFiles -> FileStates] /\ BindOK
      /\ CallFiles' = CallFiles /\ Steady' = Steady /\ Readable' = Readable /\ Matched' = Matched
      /\ \A n : Rest(n)' = Rest(n)
      /\ PathsOK(call.paths)' = PathsOK(call.paths)
  BY BindFrame DEF BInv
<1>2. PICK n \in Nat : Listed(n)
  BY <1>1 DEF BindOK
<1> DEFINE paths == call.paths
           m == n + 1
<1>3. /\ m \in 0 .. Len(paths) /\ e = paths[m] /\ Tail(entries) = Rest(m + 1)
      /\ Listing(entries) = Matches[e] \o Listing(Rest(m + 1))
      /\ Matches[e] \in Seq(CallFiles) /\ Listing(Rest(m + 1)) \in Seq(CallFiles)
  BY <1>2, NextEntry
<1>4. \A f \in ToSet(Matches[e]) \ changed : f \in ToSet(listed') \/ Fine(f, e)
  OBVIOUS
<1>5. Among(listed', Readable) = Among(Matches[e], Readable)
  OBVIOUS
<1> HIDE DEF e
<1>6. Listed(m)'
  <2>1. ASSUME NEW i \in 1 .. m, NEW f \in ToSet(Matches[paths[i]]) \ changed
        PROVE  f \in ToSet(listed') \/ Fine(f, paths[i])
    <3>1. CASE i = m
      BY <1>3, <1>4, <2>1, <3>1
    <3>2. CASE i # m
      <4>1. i \in 1 .. n
        BY <3>2
      <4>2. f \in ToSet(listed) \/ Fine(f, paths[i])
        BY <1>2, <2>1, <4>1 DEF Listed
      <4>3. ToSet(listed) = {}
        BY DEF ToSet
      <4> QED BY <4>2, <4>3
    <3> QED BY <3>1, <3>2
  <2>2. m \in 0 .. Len(paths) /\ entries' = Rest(m + 1)'
    BY <1>1, <1>3
  <2>3. \A f, p : Fine(f, p)' = Fine(f, p)
    BY DEF Fine
  <2> HIDE DEF m
  <2> QED BY <2>1, <2>2, <2>3 DEF Listed, Fine
<1>7. NoneMissed'
  <2> DEFINE a == Among(files, Steady)
             b == Among(Matches[e], Readable)
             c == Among(Listing(Rest(m + 1)), Readable)
  <2>1. a \in Seq(CallFiles) /\ b \in Seq(CallFiles) /\ c \in Seq(CallFiles)
    BY <1>1, <1>3, AmongType DEF BindOK
  <2>2. Among(Listing(entries), Readable) = b \o c /\ Among(listed, Readable) = <<>>
    <3> DEFINE rest == Listing(Rest(m + 1))
    <3>1. rest \in Seq(CallFiles)
      BY <1>3
    <3> HIDE DEF rest, m
    <3>2. Among(Matches[e] \o rest, Readable) = Among(Matches[e], Readable) \o Among(rest, Readable)
      <4>1. \A u, v \in Seq(CallFiles) : Among(u \o v, Readable) = Among(u, Readable) \o Among(v, Readable)
        BY AmongConcat
      <4>2. Matches[e] \in Seq(CallFiles)
        BY <1>3
      <4> QED BY <3>1, <4>1, <4>2
    <3>3. Listing(entries) = Matches[e] \o rest
      BY <1>3 DEF rest
    <3>4. Among(listed, Readable) = <<>>
      BY AmongEmpty
    <3>5. b = Among(Matches[e], Readable) /\ c = Among(rest, Readable)
      BY DEF rest
    <3> HIDE DEF b, c
    <3> QED BY <3>2, <3>3, <3>4, <3>5
  <2>3. a \o (<<>> \o (b \o c)) = Among(Matched, Readable)
    BY <1>1, <2>2 DEF BindOK, NoneMissed
  <2>4. Among(files', Steady') = a /\ Among(listed', Readable') = b
    BY <1>1, <1>5
  <2>5. Listing(entries)' = Listing(Rest(m + 1))
    BY <1>3 DEF Listing
  <2> HIDE DEF a, b, c
  <2>6. b \o c \in Seq(CallFiles)
    BY <2>1, ConcatFacts
  <2>7. a \o (b \o c) = Among(Matched, Readable)
    BY <2>1, <2>3, <2>6, ConcatFacts
  <2> QED BY <1>1, <2>4, <2>5, <2>7 DEF NoneMissed, c
<1>8. files' \in Seq(CallFiles') /\ listed' \in Seq(CallFiles') /\ m \in Nat
  BY <1>1 DEF BindOK
<1>9. BindOK'
  <2> HIDE DEF m
  <2> QED BY <1>1, <1>6, <1>7, <1>8 DEF BindOK
<1> QED BY <1>1, <1>9 DEF BInv

\* The files of the next path are listed, and no readable one is left out (UsdScanBind).
LEMMA ListEntryKeeps ==
    ASSUME BInv, ListEntry
    PROVE  BInv'
<1> DEFINE e == Head(entries)
           F == {f \in DOMAIN state : state[f] \in {"usd", "unsupported", "denied"}}
<1>1. /\ pc = "bind" /\ listed = <<>> /\ entries # <<>>
      /\ UNCHANGED <<call, options, files, state, changed>>
      /\ \/ pc' = "failed"
         \/ /\ pc' = "report" /\ UNCHANGED <<entries, listed>>
            /\ Found(e) = <<>> /\ e \notin Globs /\ e \notin Remote
         \/ /\ pc' = "bind" /\ listed' = Found(e) /\ entries' = Tail(entries)
            /\ ~(Found(e) = <<>> /\ e \notin Globs) /\ e \notin Remote
  BY DEF ListEntry, Throw
<1>2. /\ call \in Calls /\ state \in [CallFiles -> FileStates] /\ BindOK
      /\ CallFiles' = CallFiles
  BY <1>1, BindFrame DEF BInv
<1>3. PICK n \in Nat : Listed(n)
  BY <1>2 DEF BindOK
<1>4. e \in DOMAIN Matches /\ Matches[e] \in Seq(CallFiles)
  BY <1>1, <1>3, NextEntry
<1>5. /\ Found(e) \in Seq(CallFiles) /\ ToSet(Found(e)) = ToSet(Matches[e]) \cap F
      /\ Among(Found(e), Readable) = Among(Matches[e], Readable)
  <2>1. F \cap Readable = Readable
    BY <1>2 DEF Readable, Steady
  <2>2. Found(e) = Among(Matches[e], F)
    BY DEF Found
  <2> HIDE DEF F, e
  <2> QED BY <1>4, <2>1, <2>2, AmongType, AmongElements, AmongTwice
<1>6. ASSUME NEW f \in ToSet(Matches[e])
      PROVE  f \in CallFiles /\ state[f] \in FileStates /\ f \in DOMAIN state
  <2>1. f \in CallFiles
    BY <1>4, <1>6, LenProperties, ElementOfSeq DEF ToSet
  <2> QED BY <1>2, <2>1
<1> HIDE DEF e
<1>7. CASE pc' = "failed"
  <2>1. call' \in Calls /\ state' \in [CallFiles' -> FileStates]
    BY <1>1, <1>2
  <2> QED BY <1>7, <2>1 DEF BInv
<1>8. CASE pc' = "report"
  <2>1. \A f \in ToSet(Matches[e]) : state[f] \notin {"usd", "unsupported", "denied"}
    <3>1. Found(e) = <<>>
      BY <1>1, <1>8
    <3>2. ToSet(Found(e)) = {}
      BY <3>1 DEF ToSet
    <3> QED BY <1>5, <1>6, <3>2
  <2>2. Unmatched
    BY <1>1, <1>8, <2>1 DEF Unmatched, e
  <2>3. UNCHANGED <<call, options, entries, listed, files, state, changed>>
    BY <1>1, <1>8
  <2> QED BY <1>1, <1>8, <2>2, <2>3, BoundKeeps
<1>9. CASE pc' = "bind"
  <2>1. ASSUME NEW f \in ToSet(Matches[e]) \ changed PROVE f \in ToSet(Found(e)) \/ Fine(f, e)
    <3>1. CASE f \in F
      BY <1>5, <3>1
    <3>2. CASE f \notin F
      <4>1. state[f] \in {"missing", "directory"}
        BY <1>6, <3>2 DEF FileStates
      <4>2. CASE e \in Globs
        BY <4>1, <4>2 DEF Fine
      <4>3. CASE e \notin Globs
        <5>1. Len(Matches[e]) = 1
          BY <1>1, <1>4, <1>9, <4>3, BindAssumption
        <5>2. DOMAIN Matches[e] = {1}
          BY <1>4, <5>1, LenProperties
        <5>3. ToSet(Matches[e]) = {f}
          BY <5>2 DEF ToSet
        <5>4. ToSet(Found(e)) = {}
          BY <1>5, <3>2, <5>3
        <5>5. Found(e) = <<>>
          BY <1>5, <5>4, NoElements
        <5> QED BY <1>1, <1>9, <4>3, <5>5
      <4> QED BY <4>2, <4>3
    <3> QED BY <3>1, <3>2
  <2>2. listed' = Found(e) /\ entries' = Tail(entries) /\ files' = files
    BY <1>1, <1>9
  <2> HIDE DEF F
  <2> QED BY <1>1, <1>5, <1>9, <2>1, <2>2, EntryKeeps DEF e
<1> QED BY <1>1, <1>7, <1>8, <1>9

\* A path that matched no file is passed over rightly, or the bind fails (UsdScanBind).
LEMMA ReportEntryKeeps ==
    ASSUME BInv, ReportEntry
    PROVE  BInv'
<1> DEFINE e == Head(entries)
           g == Matches[e][1]
<1>1. /\ pc = "report" /\ entries' = Tail(entries) /\ AcceptFile(g, files)
      /\ UNCHANGED <<call, options, listed, state, changed>>
  BY DEF ReportEntry
<1>2. /\ call \in Calls /\ state \in [CallFiles -> FileStates] /\ BindOK /\ Unmatched
      /\ CallFiles' = CallFiles
  BY <1>1, BindFrame DEF BInv, BindOK
<1>3. listed = <<>> /\ entries # <<>> /\ e \notin Globs \cup Remote
  BY <1>2 DEF Unmatched
<1>4. PICK n \in Nat : Listed(n)
  BY <1>2 DEF BindOK
<1>5. e \in DOMAIN Matches /\ Matches[e] \in Seq(CallFiles)
  BY <1>1, <1>3, <1>4, NextEntry
<1>6. ToSet(Matches[e]) = {g} /\ g \in CallFiles
  <2>1. Len(Matches[e]) = 1
    BY <1>3, <1>5, BindAssumption
  <2>2. DOMAIN Matches[e] = {1}
    BY <1>5, <2>1, LenProperties
  <2> HIDE DEF e
  <2>3. Matches[e][1] \in CallFiles
    <3>1. 1 \in 1 .. Len(Matches[e])
      BY <2>1
    <3> QED BY <1>5, <3>1, ElementOfSeq
  <2> QED BY <2>2, <2>3 DEF ToSet
<1>7. g \notin changed => state[g] \in {"missing", "directory"}
  BY <1>2, <1>6 DEF Unmatched, FileStates
<1> HIDE DEF e, g
<1>8. CASE pc' = "failed"
  <2>1. call' \in Calls /\ state' \in [CallFiles' -> FileStates]
    BY <1>1, <1>2
  <2> QED BY <1>8, <2>1 DEF BInv
<1>9. CASE pc' # "failed"
  <2>1. /\ pc' = "bind" /\ files' = files
        /\ ValidatePath(g) = "none" \/ Skippable(ValidatePath(g))
    BY <1>1, <1>9 DEF AcceptFile, Throw
  <2>2. \A f \in ToSet(Matches[e]) \ changed : Fine(f, e)
    <3> SUFFICES ASSUME g \notin changed PROVE Fine(g, e)
      BY <1>6
    <3>1. ValidatePath(g) # "none"
      BY <1>7 DEF ValidatePath
    <3> QED BY <1>7, <2>1, <3>1 DEF Skippable, Fine
  <2>3. ToSet(Matches[e]) \cap Readable = {}
    BY <1>6, <1>7 DEF Readable, Steady
  <2>4. Among(Matches[e], Readable) = <<>>
    <3>1. Among(Matches[e], Readable) \in Seq(CallFiles) /\ ToSet(Among(Matches[e], Readable)) = {}
      BY <1>5, <2>3, AmongType, AmongElements
    <3> QED BY <3>1, NoElements
  <2>5. listed' = <<>> /\ listed' \in Seq(CallFiles) /\ Among(listed', Readable) = <<>>
    BY <1>1, <1>3, EmptySeq, AmongEmpty
  <2> QED BY <1>1, <1>3, <2>1, <2>2, <2>4, <2>5, EntryKeeps DEF e
<1> QED BY <1>8, <1>9

\* The next file is accepted, or passed over rightly (AcceptFile).
LEMMA ValidateFileKeeps ==
    ASSUME BInv, ValidateFile
    PROVE  BInv'
<1> DEFINE g == Head(listed)
           rest == Tail(listed)
           type == ValidatePath(g)
<1>1. /\ pc = "bind" /\ listed # <<>> /\ listed' = rest
      /\ AcceptFile(g, Append(files, g))
      /\ UNCHANGED <<call, options, entries, state, changed>>
  BY DEF ValidateFile
<1> HIDE DEF g, rest
<1>2. /\ call \in Calls /\ state \in [CallFiles -> FileStates] /\ BindOK
      /\ CallFiles' = CallFiles /\ Steady' = Steady /\ Readable' = Readable /\ Matched' = Matched
      /\ \A n : Rest(n)' = Rest(n)
      /\ PathsOK(call.paths)' = PathsOK(call.paths)
  BY <1>1, BindFrame DEF BInv
<1>3. call' \in Calls /\ state' \in [CallFiles' -> FileStates]
  BY <1>1, <1>2
<1>4. CASE pc' = "failed"
  BY <1>3, <1>4 DEF BInv
<1>5. CASE pc' # "failed"
  <2>1. /\ type = "none" \/ Skippable(type)
        /\ pc' = "bind"
        /\ files' = IF type = "none" THEN Append(files, g) ELSE files
    BY <1>1, <1>5 DEF AcceptFile, Throw
  <2>2. /\ files \in Seq(CallFiles) /\ listed \in Seq(CallFiles)
        /\ g \in CallFiles /\ rest \in Seq(CallFiles) /\ ToSet(listed) = {g} \cup ToSet(rest)
        /\ \A S : Among(listed, S) = One(g, S) \o Among(rest, S)
    <3>1. files \in Seq(CallFiles) /\ listed \in Seq(CallFiles)
      BY <1>2 DEF BindOK
    <3> QED BY <1>1, <3>1, HeadAndTail DEF g, rest
  <2>3. state[g] \in FileStates /\ (type = "none" => state[g] = "usd")
        /\ (type # "none" => state[g] # "usd")
    BY <1>2, <2>2 DEF ValidatePath, FileStates
  <2>4. \A p : Fine(g, p)
    <3>1. CASE type = "none"
      BY <2>3, <3>1 DEF Fine
    <3>2. CASE type # "none"
      BY <2>1, <2>3, <3>2 DEF Skippable, Fine, ValidatePath, FileStates
    <3> QED BY <3>1, <3>2
  <2>5. files' \in Seq(CallFiles') /\ listed' \in Seq(CallFiles')
    <3>1. Append(files, g) \in Seq(CallFiles)
      BY <2>2, AppendProperties
    <3> QED BY <1>1, <1>2, <2>1, <2>2, <3>1
  <2>6. PICK n \in Nat : Listed(n)
    BY <1>2 DEF BindOK
  <2>7. Listed(n)'
    <3>1. \A f, p : Fine(f, p)' = Fine(f, p)
      BY <1>1 DEF Fine
    <3>2. \A f \in ToSet(listed) : f \in ToSet(listed') \/ \A p : Fine(f, p)
      BY <1>1, <2>2, <2>4
    <3>3. n \in 0 .. Len(call.paths) /\ entries = Rest(n + 1)
      BY <2>6 DEF Listed
    <3>4. entries' = Rest(n + 1)'
      BY <1>1, <1>2, <3>3
    <3>5. ASSUME NEW i \in 1 .. n, NEW f \in ToSet(Matches[call.paths[i]]) \ changed
          PROVE  f \in ToSet(listed') \/ Fine(f, call.paths[i])
      <4>1. f \in ToSet(listed) \/ Fine(f, call.paths[i])
        BY <2>6, <3>5 DEF Listed
      <4> QED BY <3>2, <4>1
    <3> QED BY <1>1, <3>1, <3>3, <3>4, <3>5 DEF Listed, Fine
  <2>8. Among(files', Steady) = Among(files, Steady) \o One(g, Readable)
        /\ One(g, Readable) \in Seq(CallFiles)
    <3>1. One(g, Readable) \in Seq(CallFiles)
      BY <2>2, OneType
    <3>2. CASE type = "none"
      <4>1. files' = Append(files, g)
        BY <2>1, <3>2
      <4>2. Among(Append(files, g), Steady) = Among(files, Steady) \o One(g, Steady)
        BY <2>2, AmongAppend
      <4>3. One(g, Steady) = One(g, Readable)
        BY <2>3, <3>2 DEF One, Readable
      <4> QED BY <3>1, <4>1, <4>2, <4>3
    <3>3. CASE type # "none"
      <4>1. files' = files
        BY <2>1, <3>3
      <4>2. One(g, Readable) = <<>>
        BY <2>3, <3>3 DEF One, Readable
      <4>3. Among(files, Steady) \in Seq(CallFiles)
        BY <2>2, AmongType
      <4>4. Among(files, Steady) \o <<>> = Among(files, Steady)
        BY <4>3, ConcatFacts
      <4> QED BY <3>1, <4>1, <4>2, <4>4
    <3> QED BY <3>2, <3>3
  <2>9. NoneMissed'
    <3> DEFINE a == Among(files, Steady)
               b == One(g, Readable)
               c == Among(rest, Readable)
               d == Among(Listing(entries), Readable)
    <3>1. a \in Seq(CallFiles) /\ b \in Seq(CallFiles) /\ c \in Seq(CallFiles)
      BY <2>2, <2>8, AmongType
    <3>2. Listing(entries) \in Seq(CallFiles)
      <4>1. /\ PathsOK(call.paths) /\ entries = Rest(n + 1) /\ n \in 0 .. Len(call.paths)
        BY <1>2, <2>6 DEF BindOK, Listed
      <4>2. Len(call.paths) \in Nat
        BY <4>1, PathFacts
      <4> DEFINE m == n + 1
      <4>3. m \in 1 .. Len(call.paths) + 1 /\ entries = Rest(m)
        BY <2>6, <4>1, <4>2
      <4> HIDE DEF m
      <4> QED BY <4>1, <4>3, RestFacts
    <3>3. d \in Seq(CallFiles)
      BY <3>2, AmongType
    <3>4. a \o ((b \o c) \o d) = Among(Matched, Readable)
      BY <1>2, <2>2 DEF BindOK, NoneMissed
    <3>5. /\ Among(files', Steady') = a \o b /\ Among(listed', Readable') = c
          /\ Among(Listing(entries)', Readable') = d
      <4>1. Listing(entries)' = Listing(entries)
        BY <1>1 DEF Listing
      <4> QED BY <1>1, <1>2, <2>8, <4>1
    <3> HIDE DEF a, b, c, d
    <3>6. a \o ((b \o c) \o d) = (a \o b) \o (c \o d)
      <4> DEFINE e == c \o d
      <4>1. \A u, v, w \in Seq(CallFiles) : u \o (v \o w) = (u \o v) \o w
        BY ConcatFacts
      <4>2. e \in Seq(CallFiles)
        BY <3>1, <3>3, ConcatFacts
      <4>3. b \o e = (b \o c) \o d
        BY <3>1, <3>3, <4>1
      <4> HIDE DEF e
      <4>4. a \o (b \o e) = (a \o b) \o e
        BY <3>1, <4>1, <4>2
      <4> QED BY <4>3, <4>4 DEF e
    <3> QED BY <1>2, <3>4, <3>5, <3>6 DEF NoneMissed
  <2> QED BY <1>2, <1>3, <2>1, <2>5, <2>7, <2>9 DEF BInv, BindOK
<1> QED BY <1>4, <1>5

\* A file that changes is not counted any more, and the others stay in order.
LEMMA ChangeFileKeeps ==
    ASSUME BInv, ChangeFile
    PROVE  BInv'
<1>1. PICK f \in CallFiles, s \in UNION {Files[x] : x \in DOMAIN Files} :
        /\ s \in Files[f]
        /\ pc \notin {"failed", "done"} /\ f \notin changed
        /\ state' = [state EXCEPT ![f] = s] /\ changed' = changed \cup {f}
        /\ UNCHANGED <<binding, pc>>
  <2>1. CallFiles \subseteq DOMAIN Files
    BY CallFilesExist DEF BInv
  <2> QED BY <2>1 DEF ChangeFile
<1>2. UNCHANGED <<call, options, entries, listed, files, pc>>
  BY <1>1 DEF binding
<1>3. call \in Calls /\ state \in [CallFiles -> FileStates] /\ CallFiles \subseteq DOMAIN Files
  BY CallFilesExist DEF BInv
<1>4. CallFiles' = CallFiles /\ Matched' = Matched
  BY <1>2 DEF CallFiles, Matched
<1>5. s \in FileStates
  BY <1>1, <1>3, BindAssumption
<1>6. call' \in Calls /\ state' \in [CallFiles' -> FileStates]
  BY <1>1, <1>2, <1>3, <1>4, <1>5
<1>7. CASE pc \in {"call", "failed"}
  BY <1>2, <1>6, <1>7 DEF BInv
<1>8. CASE pc \notin {"call", "failed"}
  <2> DEFINE V == CallFiles \ changed'
  <2>1. BindOK
    BY <1>8 DEF BInv
  <2>2. V = CallFiles \ (changed \cup {f})
    BY <1>1
  <2>3. Steady' = Steady \cap V
    BY <1>1, <1>4, <2>2 DEF Steady
  <2>4. \A x \in CallFiles : x # f => state'[x] = state[x]
    BY <1>1, <1>3
  <2>5. Readable' = Readable \cap V
    <3>1. \A x \in Steady' : state'[x] = state[x] /\ x \in V
      BY <2>2, <2>3, <2>4 DEF Steady
    <3>2. Readable' = {x \in Steady' : state'[x] = "usd"}
      BY DEF Readable
    <3> HIDE DEF V
    <3> QED BY <2>3, <3>1, <3>2 DEF Readable
  <2>6. PICK n \in Nat : Listed(n)
    BY <2>1 DEF BindOK
  <2>7. Listed(n)'
    <3>1. n \in 0 .. Len(call.paths) /\ entries' = Rest(n + 1)'
      BY <1>2, <2>6 DEF Listed, Rest
    <3>2. /\ PathsOK(call.paths) /\ Len(call.paths) \in Nat
          /\ \A i \in 1 .. Len(call.paths) : Matches[call.paths[i]] \in Seq(CallFiles)
      BY <2>1, PathFacts DEF BindOK
    <3>3. ASSUME NEW i \in 1 .. n, NEW x \in ToSet(Matches[call.paths[i]]) \ changed'
          PROVE  x \in ToSet(listed') \/ Fine(x, call.paths[i])'
      <4>1. x \notin changed /\ x # f
        BY <1>1, <3>3
      <4>2. x \in CallFiles
        <5>1. Matches[call.paths[i]] \in Seq(CallFiles)
          BY <3>1, <3>2
        <5> QED BY <5>1, LenProperties, ElementOfSeq DEF ToSet
      <4>3. x \in ToSet(listed) \/ Fine(x, call.paths[i])
        BY <2>6, <4>1 DEF Listed
      <4>4. state'[x] = state[x]
        BY <2>4, <4>1, <4>2
      <4> QED BY <1>2, <4>3, <4>4 DEF Fine
    <3> QED BY <1>2, <3>1, <3>3 DEF Listed
  <2>8. NoneMissed'
    <3> DEFINE a == Among(files, Steady)
               b == Among(listed, Readable)
               c == Among(Listing(entries), Readable)
    <3>1. files \in Seq(CallFiles) /\ listed \in Seq(CallFiles) /\ Listing(entries) \in Seq(CallFiles)
          /\ Matched \in Seq(CallFiles)
      <4>1. /\ PathsOK(call.paths) /\ entries = Rest(n + 1) /\ n \in 0 .. Len(call.paths)
        BY <2>1, <2>6 DEF BindOK, Listed
      <4>2. Len(call.paths) \in Nat /\ Matched = Listing(Rest(1))
        BY <4>1, PathFacts
      <4> DEFINE m == n + 1
      <4>3. m \in 1 .. Len(call.paths) + 1 /\ 1 \in 1 .. Len(call.paths) + 1 /\ entries = Rest(m)
        BY <2>6, <4>1, <4>2
      <4> HIDE DEF m
      <4> QED BY <2>1, <4>1, <4>2, <4>3, RestFacts DEF BindOK
    <3>2. a \in Seq(CallFiles) /\ b \in Seq(CallFiles) /\ c \in Seq(CallFiles)
      BY <3>1, AmongType
    <3>3. a \o (b \o c) = Among(Matched, Readable)
      BY <2>1 DEF BindOK, NoneMissed
    <3>4. Listing(entries)' = Listing(entries)
      BY <1>2 DEF Listing
    <3>5. /\ Among(files, Steady') = Among(a, V) /\ Among(listed, Readable') = Among(b, V)
          /\ Among(Listing(entries), Readable') = Among(c, V)
          /\ Among(Matched, Readable') = Among(Among(Matched, Readable), V)
      <4> HIDE DEF V
      <4> QED BY <2>3, <2>5, <3>1, AmongTwice
    <3> HIDE DEF V, a, b, c
    <3>6. Among(a \o (b \o c), V) = Among(a, V) \o (Among(b, V) \o Among(c, V))
      <4> DEFINE d == b \o c
      <4>0. \A u, v \in Seq(CallFiles) :
              u \o v \in Seq(CallFiles) /\ Among(u \o v, V) = Among(u, V) \o Among(v, V)
        BY ConcatFacts, AmongConcat
      <4>1. d \in Seq(CallFiles) /\ Among(d, V) = Among(b, V) \o Among(c, V)
        BY <3>2, <4>0
      <4> HIDE DEF d
      <4>2. Among(a \o d, V) = Among(a, V) \o Among(d, V)
        BY <3>2, <4>0, <4>1
      <4> QED BY <4>1, <4>2 DEF d
    <3>7. Among(files', Steady') \o (Among(listed', Readable') \o Among(Listing(entries)', Readable'))
             = Among(Matched', Readable')
      BY <1>2, <1>4, <3>3, <3>4, <3>5, <3>6
    <3> QED BY <3>7 DEF NoneMissed
  <2>9. PathsOK(call.paths)' /\ files' \in Seq(CallFiles') /\ listed' \in Seq(CallFiles')
        /\ (pc' \notin {"bind", "report"} => listed' = <<>> /\ entries' = <<>> /\ files' # <<>>)
    BY <1>2, <1>4, <2>1 DEF BindOK, PathsOK
  <2>10. ASSUME pc' = "report" PROVE Unmatched'
    <3>1. Unmatched /\ pc = "report"
      BY <1>2, <2>1, <2>10 DEF BindOK
    <3>2. Matches[Head(entries)] \in Seq(CallFiles)
      BY <2>6, <3>1, NextEntry DEF Unmatched
    <3>3. ASSUME NEW x \in ToSet(Matches[Head(entries)]) \ changed' PROVE state'[x] = state[x]
      <4>1. x \in CallFiles
        BY <3>2, <3>3, LenProperties, ElementOfSeq DEF ToSet
      <4> QED BY <1>1, <2>4, <4>1
    <3> QED BY <1>1, <1>2, <3>1, <3>3 DEF Unmatched
  <2>11. BindOK'
    BY <2>7, <2>8, <2>9, <2>10 DEF BindOK
  <2> QED BY <1>2, <1>6, <1>8, <2>11 DEF BInv
<1> QED BY <1>7, <1>8

\* Every step of the call keeps the invariant.
LEMMA BInvNext == BInv /\ [Next]_vars => BInv'
<1> SUFFICES ASSUME BInv, [Next]_vars PROVE BInv'
  OBVIOUS
<1>1. CASE Bind
  <2>1. CASE FinishBind
    <3>1. /\ pc = "bind" /\ listed = <<>> /\ entries = <<>>
          /\ UNCHANGED <<call, options, entries, listed, files, state, changed>>
          /\ pc' = "failed" \/ (pc' = "plan" /\ files # <<>>)
      BY <2>1 DEF FinishBind, Throw
    <3> QED BY <3>1, BoundKeeps
  <2> QED BY <1>1, <2>1, BindCallKeeps, ListEntryKeeps, ReportEntryKeeps, ValidateFileKeeps
          DEF Bind, BindStep
<1>2. CASE Change
  BY <1>2, ChangeFileKeeps DEF Change
<1>3. CASE Pushdown
  BY <1>3, BoundKeeps DEF Pushdown, bindVars, binding
<1>4. CASE \/ InitScan \/ Fill \/ Emit \/ Exhausted
           \/ TakeMorsel \/ OpenFile \/ NoMoreFiles
  <2>1. /\ UNCHANGED <<call, options, entries, listed, files, state, changed>>
        /\ pc \notin {"call", "failed", "bind", "report"}
        /\ pc' = pc \/ pc' \notin {"call", "report"}
    <3>1. CASE InitScan
      BY <3>1 DEF InitScan, Planned, binding
    <3>2. CASE Fill
      BY <3>2 DEF Fill, bindVars, binding
    <3>3. CASE Emit
      BY <3>3 DEF Emit, bindVars, binding
    <3>4. CASE Exhausted
      BY <3>4 DEF Exhausted, binding
    <3>5. CASE TakeMorsel
      BY <3>5 DEF TakeMorsel, Deal, binding
    <3>6. CASE OpenFile
      BY <3>6 DEF OpenFile, Deal, Throw
    <3>7. CASE NoMoreFiles
      BY <3>7 DEF NoMoreFiles, binding
    <3> QED BY <1>4, <3>1, <3>2, <3>3, <3>4, <3>5, <3>6, <3>7
  <2>2. listed = <<>> /\ entries = <<>> /\ files # <<>>
    BY <2>1 DEF BInv, BindOK
  <2> QED BY <2>1, <2>2, BoundKeeps
<1>5. CASE Ended \/ UNCHANGED vars
  BY <1>5, BoundKeeps DEF Ended, vars, bindVars, binding
<1> QED BY <1>1, <1>2, <1>3, <1>4, <1>5 DEF Next

\* What the invariant says of a scan that starts.
LEMMA BInvBinds == BInv => BindsEveryReadableFile
<1> SUFFICES ASSUME BInv, pc \notin {"call", "bind", "report", "failed"}
             PROVE  /\ Among(files, Steady) = Among(Matched, Readable)
                    /\ files # <<>>
                    /\ \A f \in Steady :
                         /\ state[f] # "denied"
                         /\ ~options.ignore_errors =>
                               \/ state[f] = "usd"
                               \/ state[f] \in {"missing", "directory"}
                                     /\ \A e \in ToSet(call.paths) :
                                          f \in ToSet(Matches[e]) => e \in Globs
  BY DEF BindsEveryReadableFile, Steady, Readable
<1>1. BindOK /\ listed = <<>> /\ entries = <<>> /\ files # <<>>
  BY DEF BInv, BindOK
<1>2. PICK n \in Nat : Listed(n)
  BY <1>1 DEF BindOK
<1>3. /\ PathsOK(call.paths) /\ Len(call.paths) \in Nat /\ n \in 0 .. Len(call.paths)
      /\ DOMAIN call.paths = 1 .. Len(call.paths)
      /\ \A f \in CallFiles : \E i \in 1 .. Len(call.paths) : f \in ToSet(Matches[call.paths[i]])
  BY <1>1, <1>2, PathFacts DEF BindOK, Listed
<1>4. n = Len(call.paths)
  <2> DEFINE m == n + 1
  <2>1. entries = Rest(m) /\ m \in 1 .. Len(call.paths) + 1
    BY <1>2, <1>3 DEF Listed
  <2>2. m <= Len(call.paths) => FALSE
    <3> HIDE DEF m
    <3> QED BY <1>1, <1>3, <2>1, RestFacts
  <2> QED BY <1>3, <2>2
<1>5. Among(files, Steady) = Among(Matched, Readable)
  <2>1. Among(listed, Readable) = <<>> /\ Among(Listing(entries), Readable) = <<>>
    <3>1. Listing(<<>>) = <<>>
      <4>1. [i \in DOMAIN <<>> |-> Matches[<<>>[i]]] = <<>>
        OBVIOUS
      <4> QED BY <4>1, FlattenEmpty DEF Listing
    <3> QED BY <1>1, <3>1, AmongEmpty
  <2>2. Among(files, Steady) \in Seq(CallFiles)
    BY <1>1, AmongType DEF BindOK
  <2>3. Among(files, Steady) \o (<<>> \o <<>>) = Among(files, Steady)
    BY <2>2, ConcatEmptySeq, EmptySeq
  <2> QED BY <1>1, <2>1, <2>3 DEF BindOK, NoneMissed
<1>6. ASSUME NEW f \in Steady, NEW i \in 1 .. Len(call.paths), f \in ToSet(Matches[call.paths[i]])
      PROVE  Fine(f, call.paths[i])
  <2>1. f \notin changed /\ ToSet(listed) = {}
    BY <1>1 DEF Steady, ToSet
  <2> QED BY <1>2, <1>4, <1>6, <2>1 DEF Listed
<1>7. ASSUME NEW f \in Steady
      PROVE  /\ state[f] # "denied"
             /\ ~options.ignore_errors =>
                   \/ state[f] = "usd"
                   \/ state[f] \in {"missing", "directory"}
                         /\ \A e \in ToSet(call.paths) : f \in ToSet(Matches[e]) => e \in Globs
  <2>1. PICK i \in 1 .. Len(call.paths) : Fine(f, call.paths[i])
    BY <1>3, <1>6 DEF Steady
  <2>2. ASSUME NEW e \in ToSet(call.paths), f \in ToSet(Matches[e]) PROVE Fine(f, e)
    BY <1>3, <1>6, <2>2 DEF ToSet
  <2> QED BY <2>1, <2>2 DEF Fine
<1> QED BY <1>1, <1>5, <1>7

\* A scan that starts has every file that its paths match and that was readable
\* all the time, in the order of the list, and passes over no file that DuckDB may
\* not access, whatever changes between listing and validating (UsdScanBind).
THEOREM BindsReadableFiles == Spec => []BindsEveryReadableFile
BY BindInits, BInvNext, BInvBinds, PTL DEF Spec

-----------------------------------------------------------------------------
(* Calls whose options are equal *)

\* The members of UsdScanOptions.
OptionNames ==
    {"root", "mask_path", "instance_proxies", "active_only", "include_abstract",
     "include_undefined", "load_payloads", "filename", "ignore_errors", "time", "times",
     "max_array_length", "authored_only", "forwarded", "purposes", "use_extents_hint",
     "include_ancestral", "material_purpose", "start_time", "end_time"}

\* o has them all, and no other.
IsOptions(o) == o = [x \in OptionNames |-> o[x]]

\* The options start with all of them.
LEMMA DefaultNames == DOMAIN DefaultOptions = OptionNames
BY DEF DefaultOptions, OptionNames

\* Whatever the parameters, a bind makes options with those members.
LEMMA BoundOptions ==
    ASSUME NEW p
    PROVE  IsOptions(BindOptions(p))
<1>1. IsOptions(Given(p))
  BY DefaultNames DEF Given, IsOptions
<1>2. IsOptions(ParseScanOptions(p))
  BY <1>1 DEF ParseScanOptions, IsOptions
<1>3. \A o : IsOptions(o) => IsOptions(BindMaterialPurpose(o))
  BY DEF BindMaterialPurpose, IsOptions
<1> QED BY <1>2, <1>3 DEF BindOptions

\* UsdScanOptions::Tie compares every member: options it finds equal are the same.
LEMMA SameTie ==
    ASSUME NEW o, NEW r, IsOptions(o), IsOptions(r),
           NEW named, NEW names, NEW others, NEW other, Tie(o, named, names) = Tie(r, others, other)
    PROVE  o = r /\ named = others /\ names = other
<1>1. named = others /\ names = other
  BY DEF Tie
<1>2. \A x \in OptionNames : o[x] = r[x]
  BY DEF Tie, OptionNames
<1> QED BY <1>1, <1>2 DEF IsOptions

\* From the bind on, the options are those of the parameters of the call.
BoundInv ==
    /\ call \in Calls
    /\ pc \notin {"call", "failed"} =>
         /\ options = BindOptions(call.parameters)
         /\ DOMAIN call.parameters \subseteq AcceptedOptions(Functions[call.function])

\* So they are of a call that is not bound.
LEMMA BoundInit == Init => BoundInv
BY DEF Init, BindInit, BoundInv

\* No step after the bind changes them.
LEMMA BoundNext == BoundInv /\ [Next]_vars => BoundInv'
<1> SUFFICES ASSUME BoundInv, [Next]_vars PROVE BoundInv'
  OBVIOUS
<1>1. CASE Bind
  <2>1. CASE BindCall
    BY <2>1 DEF BindCall, Throw, BoundInv
  <2>2. CASE ListEntry \/ ReportEntry \/ ValidateFile \/ FinishBind
    <3>1. pc \in {"bind", "report"} /\ UNCHANGED <<call, options>>
      BY <2>2 DEF ListEntry, ReportEntry, ValidateFile, FinishBind
    <3> QED BY <3>1 DEF BoundInv
  <2> QED BY <1>1, <2>1, <2>2 DEF Bind, BindStep
<1>2. CASE Change
  BY <1>2 DEF Change, ChangeFile, binding, BoundInv
<1>3. CASE Pushdown
  BY <1>3 DEF Pushdown, bindVars, binding, BoundInv
<1>4. CASE InitScan \/ Fill \/ Emit \/ Exhausted \/ TakeMorsel \/ OpenFile \/ NoMoreFiles
  <2>1. UNCHANGED <<call, options>> /\ pc \notin {"call", "failed"}
    <3>1. CASE InitScan
      BY <3>1 DEF InitScan, Planned, binding
    <3>2. CASE Fill
      BY <3>2 DEF Fill, bindVars, binding
    <3>3. CASE Emit
      BY <3>3 DEF Emit, bindVars, binding
    <3>4. CASE Exhausted
      BY <3>4 DEF Exhausted, binding
    <3>5. CASE TakeMorsel
      BY <3>5 DEF TakeMorsel, binding
    <3>6. CASE OpenFile
      BY <3>6 DEF OpenFile
    <3>7. CASE NoMoreFiles
      BY <3>7 DEF NoMoreFiles, binding
    <3> QED BY <1>4, <3>1, <3>2, <3>3, <3>4, <3>5, <3>6, <3>7
  <2> QED BY <2>1 DEF BoundInv
<1>5. CASE Ended \/ UNCHANGED vars
  BY <1>5 DEF Ended, vars, bindVars, binding, BoundInv
<1> QED BY <1>1, <1>2, <1>3, <1>4, <1>5 DEF Next

\* A scan that reads the names collected from some filters of a query, or all
\* properties if there are none, reads those that the query's filters keep.
LEMMA PushedNamesSuffice ==
    ASSUME NEW filters, NEW pushed, pushed \subseteq filters, \A filter \in pushed : Collects(filter),
           pushed = {} => ~filter_property_names,
           pushed # {} => property_names =
               {n \in Names : \A filter \in pushed : n \in CollectPropertyNames(filter)},
           NEW prim \in DOMAIN PropertyNames
    PROVE  {n \in Get(prim) : \A filter \in filters : Passes(filter, n)}
             = {n \in PropertyNames[prim] : \A filter \in filters : Passes(filter, n)}
<1>1. Get(prim) \subseteq PropertyNames[prim]
  BY DEF Get
<1>2. ASSUME NEW n \in PropertyNames[prim], \A filter \in filters : Passes(filter, n)
      PROVE  n \in Get(prim)
  <2>1. n \in ValidNames /\ n \in Names
    BY PushdownAssumption
  <2>2. \A filter \in pushed : n \in CollectPropertyNames(filter)
    BY <1>2, <2>1, CollectedNames
  <2>3. pushed # {} => n \in property_names
    BY <2>1, <2>2
  <2> QED BY <2>1, <2>3 DEF Get
<1> QED BY <1>1, <1>2

\* Queries whose options are tied therefore get the same rows from one scan, and
\* each the properties that its filters keep.
LEMMA BoundEqual == BoundInv => EqualScansAnswerBoth
<1> SUFFICES ASSUME BoundInv, pc = "plan", NEW c \in Calls,
                    NEW pushed \in SUBSET {filter \in c.filters : Function.property_name /\ Collects(filter)},
                    NEW o, o = BindOptions(c.parameters), NEW names,
                    names = {n \in Names : \A filter \in pushed : n \in CollectPropertyNames(filter)},
                    Tie(o, pushed # {}, IF pushed = {} THEN {} ELSE names)
                      = Tie(options, filter_property_names, property_names)
             PROVE  /\ o = options
                    /\ \A prim \in DOMAIN PropertyNames :
                         {n \in Get(prim) : \A filter \in c.filters : Passes(filter, n)}
                           = {n \in PropertyNames[prim] : \A filter \in c.filters : Passes(filter, n)}
  BY DEF EqualScansAnswerBoth, Planned
<1>1. options = BindOptions(call.parameters) /\ call \in Calls
  BY DEF BoundInv
<1>2. IsOptions(o) /\ IsOptions(options)
  BY <1>1, BoundOptions
<1>3. /\ o = options
      /\ (pushed # {}) = filter_property_names
      /\ (IF pushed = {} THEN {} ELSE names) = property_names
  BY <1>2, SameTie
<1>4. ASSUME NEW prim \in DOMAIN PropertyNames
      PROVE  {n \in Get(prim) : \A filter \in c.filters : Passes(filter, n)}
               = {n \in PropertyNames[prim] : \A filter \in c.filters : Passes(filter, n)}
  <2>1. pushed \subseteq c.filters /\ \A filter \in pushed : Collects(filter)
    OBVIOUS
  <2>2. /\ pushed = {} => ~filter_property_names
        /\ pushed # {} => property_names =
               {n \in Names : \A filter \in pushed : n \in CollectPropertyNames(filter)}
    BY <1>3
  <2> QED BY <2>1, <2>2, PushedNamesSuffice
<1> QED BY <1>3, <1>4

\* A scan that DuckDB runs for two queries, because it finds their options equal,
\* makes the rows both ask for, and reads all properties that the filters of either
\* keep, whichever of them were pushed down (UsdScanBindData::Equals).
THEOREM EqualScansServeBoth == Spec => []EqualScansAnswerBoth
BY BoundInit, BoundNext, BoundEqual, PTL DEF Spec

-----------------------------------------------------------------------------
(* What producers of their own return *)

\* What a producer of its own makes of a prim
FreshDone(f, q, t, o) ==
    AddPrim(call.function, SetTime(call.function, FreshProducer(f, o), t), f, q, o)
FreshIs == \A f, q, t, o : FreshRows(f, q, t, o) = WrittenRows(FreshDone(f, q, t, o), f, o)

\* Its rows are those a producer of its own returns.
LEMMA FreshRowsIs == FreshIs
BY DEF FreshRows, FreshDone, FreshIs, With

\* What a producer of its own returns for a prim depends on the call and the filters.
LEMMA FreshFrame ==
    ASSUME UNCHANGED <<pushdown, call>>, NEW f, NEW q, NEW t, NEW o
    PROVE  FreshRows(f, q, t, o)' = FreshRows(f, q, t, o)
<1> DEFINE fn == call.function
           start == SetTime(fn, FreshProducer(f, o), t)
           pr == AddPrim(fn, start, f, q, o)
<1>1. fn' = fn /\ Function' = Function
  BY DEF Function
<1>2. start' = start
  BY <1>1 DEF FreshProducer
<1>3. pr' = pr
  <2>1. \A p : AddPrim(fn, p, f, q, o)' = AddPrim(fn, p, f, q, o)
    BY AddFrame
  <2> QED BY <1>2, <2>1
<1>4. WrittenRows(pr, f, o)' = WrittenRows(pr, f, o)
  BY <1>1, <1>3 DEF WrittenRows
<1>5. FreshIs /\ FreshIs'
  BY FreshRowsIs, PTL
<1>6. /\ FreshRows(f, q, t, o) = WrittenRows(FreshDone(f, q, t, o), f, o)
      /\ FreshRows(f, q, t, o)' = WrittenRows(FreshDone(f, q, t, o), f, o)'
  BY <1>5 DEF FreshIs
<1>7. pr = FreshDone(f, q, t, o) /\ pr' = FreshDone(f, q, t, o)'
  BY DEF FreshDone
<1>8. /\ WrittenRows(pr, f, o) = WrittenRows(FreshDone(f, q, t, o), f, o)
      /\ WrittenRows(pr, f, o)' = WrittenRows(FreshDone(f, q, t, o), f, o)'
  BY <1>7 DEF WrittenRows
<1> HIDE DEF pr
<1> QED BY <1>4, <1>6, <1>8

\* A producer that does only what the columns C need.
Values == {"value", "array_length"}
Fetches(pr, C) == pr.fetch_values = (Values \cap C # {})

\* The producer adds, in the columns C, the rows a producer of its own returns.
AddsFresh(pr, added, rows, new, f, q, o, C) ==
    /\ Adds(call.function, pr, added, f, q, o)
    /\ IsList(rows) /\ IsList(new) /\ Len(new) = Len(rows)
    /\ added.rows = pr.rows \o new
    /\ \A n \in 1 .. Len(new) : \A c \in C :
         Write(call.function, added, f, new[n], c, o) = rows[n][c]

\* So does every producer of the function that is in order.
LEMMA FreshAdds ==
    ASSUME call.function \in PrimFunctions, NEW f \in DOMAIN Stages, NEW o, IsList(o.mask_path),
           NEW q \in Composed(f, o), NEW pr, Sound(call.function, pr, f, o),
           NEW C, C \subseteq Function.columns, Fetches(pr, C)
    PROVE  \E new : AddsFresh(pr, AddPrim(call.function, pr, f, q, o), FreshRows(f, q, pr.time, o),
                              new, f, q, o, C)
<1> DEFINE fn == call.function
           none == NewProducer(o, Function.columns)
           begun == BeginStage(fn, none, f)
           fresh == SetTime(fn, begun, pr.time)
           done == AddPrim(fn, fresh, f, q, o)
           added == AddPrim(fn, pr, f, q, o)
           rows == FreshRows(f, q, pr.time, o)
<1>1. fn \in PrimFunctions \cup StageFunctions
  OBVIOUS
<1>2. Bare(fn, none) /\ none.fetch_values = (Values \cap Function.columns # {})
  <2>1. Bare(fn, none)
    BY NewIsBare
  <2>2. none.fetch_values = (Values \cap Function.columns # {})
    BY NewIsBare DEF Values
  <2> QED BY <2>1, <2>2
<1> HIDE DEF none
<1>3. Sound(fn, begun, f, o) /\ begun.fetch_values = none.fetch_values /\ begun.rows = <<>>
  <2>1. Begins(fn, begun, f, o) /\ SameSetting(begun, none) /\ begun.rows = Begun(fn, f)
    BY <1>1, <1>2, BeginOK
  <2>2. Begun(fn, f) = <<>>
    BY DEF Begun, PrimFunctions
  <2> QED BY <2>1, <2>2 DEF Begins, SameSetting
<1> HIDE DEF begun
<1>4. Sound(fn, fresh, f, o) /\ fresh.time = pr.time /\ fresh.fetch_values = none.fetch_values /\ fresh.rows = <<>>
  <2>1. Sound(fn, fresh, f, o) /\ fresh.time = pr.time
    BY <1>3, SetTimeOK
  <2>2. \A x \in Fields \ {"time", "spaces"} : fresh[x] = begun[x]
    BY <1>3, SetTimeOK
  <2> HIDE DEF fresh
  <2> QED BY <1>3, <2>1, <2>2 DEF Fields
<1> HIDE DEF fresh
<1>5. Comparable(fn, pr, fresh, f, o, C)
  <2>1. pr.fetch_values = fresh.fetch_values \/ Values \cap C = {}
    BY <1>2, <1>4 DEF Fetches
  <2> QED BY <1>4, <2>1 DEF Comparable, Values
<1>6. AddOK(fn, pr, fresh, f, q, o, C)
  BY <1>5, AddPrimOK
<1>7. Adds(fn, pr, added, f, q, o) /\ Alike(fn, pr, added, fresh, done, f, o, C)
  BY <1>6 DEF AddOK
<1>8. PICK new, old : AlikeBy(fn, pr, added, fresh, done, f, o, C, new, old)
  BY <1>7 DEF Alike
<1>9. IsList(new) /\ IsList(old) /\ Len(new) = Len(old) /\ added.rows = pr.rows \o new
  BY <1>8 DEF AlikeBy
<1>10. done.rows = old
  <2>1. done.rows = fresh.rows \o old
    BY <1>8 DEF AlikeBy
  <2> DEFINE s == fresh.rows
  <2>2. s = <<>> /\ done.rows = s \o old
    BY <1>4, <2>1
  <2> HIDE DEF s
  <2>3. s \o old = <<>> \o old
    BY <2>2
  <2>4. <<>> \o old = old
    BY <1>9, ConcatIsList, EmptyIsList
  <2> QED BY <2>2, <2>3, <2>4
<1>11. rows = WrittenRows(done, f, o)
  <2>1. done = FreshDone(f, q, pr.time, o)
    BY DEF FreshDone, FreshProducer, fresh, begun, none
  <2>2. rows = WrittenRows(FreshDone(f, q, pr.time, o), f, o)
    BY FreshRowsIs DEF FreshIs
  <2> HIDE DEF done, rows
  <2> QED BY <2>1, <2>2
<1>12. DOMAIN old = 1 .. Len(old) /\ Len(old) \in Nat
  BY <1>9, ListFacts
<1> HIDE DEF done, added, rows
<1>13. rows = [n \in 1 .. Len(old) |-> [c \in Function.columns |-> Write(fn, done, f, old[n], c, o)]]
  BY <1>10, <1>11, <1>12 DEF WrittenRows
<1>14. /\ rows = [n \in 1 .. Len(old) |-> rows[n]]
       /\ \A n \in 1 .. Len(old) : \A c \in C : rows[n][c] = Write(fn, done, f, old[n], c, o)
  BY <1>13
<1>15. IsList(rows) /\ Len(rows) = Len(old)
  BY <1>12, <1>14, FunctionIsList
<1>16. \A n \in 1 .. Len(new) : \A c \in C : Write(fn, added, f, new[n], c, o) = rows[n][c]
  <2>1. \A n \in 1 .. Len(new) : \A c \in C :
          Write(fn, added, f, new[n], c, o) = Write(fn, done, f, old[n], c, o)
    BY <1>8 DEF AlikeBy
  <2> QED BY <1>9, <1>14, <2>1
<1>17. AddsFresh(pr, added, rows, new, f, q, o, C)
  BY <1>7, <1>9, <1>15, <1>16 DEF AddsFresh
<1> QED BY <1>17 DEF added, rows

\* What a producer of its own returns is a list.
LEMMA FreshIsList ==
    ASSUME call.function \in PrimFunctions, NEW f \in DOMAIN Stages, NEW o, IsList(o.mask_path),
           NEW q \in Composed(f, o), NEW t
    PROVE  IsList(FreshRows(f, q, t, o))
<1> DEFINE fn == call.function
           none == NewProducer(o, {})
           begun == BeginStage(fn, none, f)
           fresh == SetTime(fn, begun, t)
<1>1. Bare(fn, none) /\ none.fetch_values = (Values \cap {} # {})
  <2>1. Bare(fn, none)
    BY NewIsBare
  <2>2. none.fetch_values = (Values \cap {} # {})
    BY NewIsBare DEF Values
  <2> QED BY <2>1, <2>2
<1> HIDE DEF none
<1>2. Sound(fn, begun, f, o) /\ begun.fetch_values = none.fetch_values
  <2>1. Begins(fn, begun, f, o) /\ SameSetting(begun, none)
    BY <1>1, BeginOK
  <2> QED BY <2>1 DEF Begins, SameSetting
<1> HIDE DEF begun
<1>3. Sound(fn, fresh, f, o) /\ fresh.time = t /\ fresh.fetch_values = none.fetch_values
  <2>1. Sound(fn, fresh, f, o) /\ fresh.time = t
    BY <1>2, SetTimeOK
  <2>2. \A x \in Fields \ {"time", "spaces"} : fresh[x] = begun[x]
    BY <1>2, SetTimeOK
  <2> HIDE DEF fresh
  <2> QED BY <1>2, <2>1, <2>2 DEF Fields
<1> HIDE DEF fresh
<1>4. Fetches(fresh, {}) /\ {} \subseteq Function.columns
  BY <1>1, <1>3 DEF Fetches
<1>5. \E new : AddsFresh(fresh, AddPrim(fn, fresh, f, q, o), FreshRows(f, q, fresh.time, o), new, f, q, o, {})
  BY <1>3, <1>4, FreshAdds
<1> QED BY <1>3, <1>5 DEF AddsFresh

\* The rows of the prims of a morsel at each of the scan's times, by prim and then
\* by time
Block(f, q, t) == Timed(t, FreshRows(f, q, t, options))
Blocks(f, prims, t) == [i \in DOMAIN prims |-> Block(f, prims[i], t)]
AllBlocks(f, prims) == [j \in DOMAIN Times(options) |-> Blocks(f, prims, Times(options)[j])]
Runs(f, prims) == [j \in DOMAIN Times(options) |-> FlattenSeq(Blocks(f, prims, Times(options)[j]))]
StageRows(f) == Timed(Null, WrittenRows(FreshProducer(f, options), f, options))

\* They are what is expected of the morsel.
ExpectedIs ==
    \A f, prims : Expected(f, prims) = IF StageUnit THEN StageRows(f) ELSE FlattenSeq(Runs(f, prims))

\* The rows of a morsel are made up like that.
LEMMA ExpectedRows == ExpectedIs
<1>1. \A f, prims, t : RowsAt(f, prims, t) = FlattenSeq(Blocks(f, prims, t))
  <2> SUFFICES ASSUME NEW f, NEW prims, NEW t
               PROVE  RowsAt(f, prims, t) = FlattenSeq(Blocks(f, prims, t))
    OBVIOUS
  <2>1. [i \in DOMAIN prims |->
           With(FreshRows(f, prims[i], t, options), LAMBDA rows : Timed(t, rows))]
          = Blocks(f, prims, t)
    <3>1. \A i \in DOMAIN prims :
            With(FreshRows(f, prims[i], t, options), LAMBDA rows : Timed(t, rows)) = Block(f, prims[i], t)
      BY DEF With, Block
    <3> QED BY <3>1 DEF Blocks
  <2> QED BY <2>1 DEF RowsAt
<1>2. \A f, prims : StageUnit => Expected(f, prims) = StageRows(f)
  BY DEF Expected, StageRows, With
<1>3. \A f, prims : ~StageUnit => Expected(f, prims) = FlattenSeq(Runs(f, prims))
  <2> SUFFICES ASSUME NEW f, NEW prims, ~StageUnit
               PROVE  Expected(f, prims) = FlattenSeq(Runs(f, prims))
    OBVIOUS
  <2>1. Expected(f, prims)
          = FlattenSeq([j \in DOMAIN Times(options) |-> RowsAt(f, prims, Times(options)[j])])
    BY DEF Expected
  <2>2. [j \in DOMAIN Times(options) |-> RowsAt(f, prims, Times(options)[j])] = Runs(f, prims)
    BY <1>1 DEF Runs
  <2> QED BY <2>1, <2>2
<1> QED BY <1>2, <1>3 DEF ExpectedIs

\* Nothing of this changes while the call and its filters are the same.
LEMMA RowsFrame ==
    ASSUME UNCHANGED <<pushdown, call, options>>, NEW f, NEW prims
    PROVE  /\ Runs(f, prims)' = Runs(f, prims) /\ AllBlocks(f, prims)' = AllBlocks(f, prims)
           /\ Expected(f, prims)' = Expected(f, prims)
           /\ StageUnit' = StageUnit /\ Function' = Function /\ ProducerColumns' = ProducerColumns
<1>1. /\ StageUnit' = StageUnit /\ Function' = Function /\ ProducerColumns' = ProducerColumns
      /\ Times(options)' = Times(options)
  BY DEF StageUnit, Function, ProducerColumns
<1>2. ASSUME NEW q, NEW t PROVE Block(f, q, t)' = Block(f, q, t)
  <2>1. \A o : FreshRows(f, q, t, o)' = FreshRows(f, q, t, o)
    BY FreshFrame
  <2> QED BY <2>1 DEF Block
<1>3. ASSUME NEW t PROVE Blocks(f, prims, t)' = Blocks(f, prims, t)
  BY <1>2 DEF Blocks
<1>4. Runs(f, prims)' = Runs(f, prims) /\ AllBlocks(f, prims)' = AllBlocks(f, prims)
  BY <1>1, <1>3 DEF Runs, AllBlocks
<1>5. StageRows(f)' = StageRows(f)
  BY <1>1 DEF StageRows, WrittenRows, FreshProducer
<1>6. ExpectedIs /\ ExpectedIs'
  BY ExpectedRows, PTL
<1>7. /\ Expected(f, prims) = IF StageUnit THEN StageRows(f) ELSE FlattenSeq(Runs(f, prims))
      /\ Expected(f, prims)' = IF StageUnit' THEN StageRows(f)' ELSE FlattenSeq(Runs(f, prims)')
  BY <1>6 DEF ExpectedIs
<1>8. Expected(f, prims)' = Expected(f, prims)
  BY <1>1, <1>4, <1>5, <1>7
<1> QED BY <1>1, <1>4, <1>8

\* A function is one of prims or of stages.
LEMMA UnitFacts ==
    ASSUME call \in Calls
    PROVE  /\ call.function \in PrimFunctions \cup StageFunctions
           /\ StageUnit <=> call.function \in StageFunctions
           /\ StageUnit <=> call.function \notin PrimFunctions
<1>1. call.function \in DOMAIN Functions
  BY FunctionsAssumption
<1>2. call.function \in PrimFunctions \cup StageFunctions
  BY <1>1, FunctionsAssumption
<1>3. StageUnit <=> call.function \in StageFunctions
  BY <1>1, FunctionsAssumption DEF StageUnit, Function
<1> QED BY <1>2, <1>3 DEF PrimFunctions, StageFunctions

\* There is at least one time.
LEMMA TimesFacts ==
    ASSUME IsList(options.times)
    PROVE  /\ IsList(Times(options)) /\ Len(Times(options)) \in Nat /\ 1 \in 1 .. Len(Times(options))
           /\ DOMAIN Times(options) = 1 .. Len(Times(options))
           /\ options.times = <<>> => Len(Times(options)) = 1 /\ Times(options)[1] = options.time
           /\ options.times # <<>> => Times(options) = options.times
<1>1. CASE options.times = <<>>
  <2>1. Times(options) = <<options.time>>
    BY <1>1 DEF Times
  <2>2. IsList(<<options.time>>) /\ Len(<<options.time>>) = 1 /\ <<options.time>>[1] = options.time
    BY SingleIsList
  <2> DEFINE t == <<options.time>>
  <2> HIDE DEF t
  <2>3. DOMAIN t = 1 .. Len(t)
    BY <2>2, ListFacts DEF t
  <2> QED BY <1>1, <2>1, <2>2, <2>3 DEF t
<1>2. CASE options.times # <<>>
  <2> DEFINE t == options.times
  <2>1. IsList(t) /\ t # <<>> /\ Times(options) = t
    BY <1>2 DEF Times
  <2> HIDE DEF t
  <2>2. Len(t) \in Nat /\ DOMAIN t = 1 .. Len(t)
    BY <2>1, ListFacts
  <2>3. Len(t) # 0
    <3>1. t \in Seq(ToSet(t))
      BY <2>1 DEF IsList
    <3> QED BY <2>1, <3>1, EmptySeq
  <2> QED BY <1>2, <2>1, <2>2, <2>3 DEF t
<1> QED BY <1>1, <1>2

\* The prims of a morsel
PrimsOK(f, prims) ==
    /\ f \in DOMAIN Stages
    /\ IsList(prims) /\ ToSet(prims) \subseteq Composed(f, options)

\* The rows of a morsel before the i-th prim at the j-th time
Progress(f, prims, j, i) ==
    IF StageUnit THEN Expected(f, prims) ELSE Position(Runs(f, prims), AllBlocks(f, prims), j, i)

\* The rows of a prim are a list.
LEMMA BlockFacts ==
    ASSUME call.function \in PrimFunctions, IsList(options.mask_path),
           NEW f \in DOMAIN Stages, NEW q \in Composed(f, options), NEW t
    PROVE  /\ IsList(Block(f, q, t)) /\ Len(Block(f, q, t)) = Len(FreshRows(f, q, t, options))
           /\ \A n \in 1 .. Len(FreshRows(f, q, t, options)) :
                /\ Block(f, q, t)[n].time = t
                /\ Block(f, q, t)[n].row = FreshRows(f, q, t, options)[n]
<1> DEFINE rows == FreshRows(f, q, t, options)
           b == Block(f, q, t)
<1>1. IsList(rows)
  BY FreshIsList
<1>2. b = [n \in DOMAIN rows |-> [time |-> t, row |-> rows[n]]]
  BY DEF Block, Timed
<1> HIDE DEF rows, b
<1>3. Len(rows) \in Nat /\ DOMAIN rows = 1 .. Len(rows)
  BY <1>1, ListFacts
<1>4. b = [n \in 1 .. Len(rows) |-> b[n]]
  BY <1>2, <1>3
<1>5. IsList(b) /\ Len(b) = Len(rows)
  BY <1>3, <1>4, FunctionIsList
<1>6. \A n \in 1 .. Len(rows) : b[n].time = t /\ b[n].row = rows[n]
  BY <1>2, <1>3
<1> QED BY <1>5, <1>6 DEF rows, b

\* The rows of a morsel are lists of lists.
LEMMA RunsNested ==
    ASSUME call.function \in PrimFunctions, IsList(options.mask_path), IsList(options.times),
           NEW f, NEW prims, PrimsOK(f, prims)
    PROVE  /\ Nested(Runs(f, prims), AllBlocks(f, prims))
           /\ Len(Runs(f, prims)) = Len(Times(options))
           /\ \A j \in 1 .. Len(Times(options)) :
                /\ Len(AllBlocks(f, prims)[j]) = Len(prims)
                /\ \A i \in 1 .. Len(prims) :
                     AllBlocks(f, prims)[j][i] = Block(f, prims[i], Times(options)[j])
<1> DEFINE times == Times(options)
           runs == Runs(f, prims)
           blocks == AllBlocks(f, prims)
<1>1. Len(times) \in Nat /\ DOMAIN times = 1 .. Len(times)
  BY TimesFacts
<1>2. f \in DOMAIN Stages /\ IsList(prims) /\ ToSet(prims) \subseteq Composed(f, options)
  BY DEF PrimsOK
<1>3. /\ Len(prims) \in Nat /\ DOMAIN prims = 1 .. Len(prims)
      /\ \A i \in 1 .. Len(prims) : prims[i] \in Composed(f, options)
  BY <1>2, ListFacts
<1>4. ASSUME NEW t
      PROVE  /\ IsLists(Blocks(f, prims, t)) /\ Len(Blocks(f, prims, t)) = Len(prims)
             /\ \A i \in 1 .. Len(prims) : Blocks(f, prims, t)[i] = Block(f, prims[i], t)
  <2> DEFINE b == Blocks(f, prims, t)
  <2>1. b = [i \in 1 .. Len(prims) |-> Block(f, prims[i], t)]
    BY <1>3 DEF Blocks
  <2>2. \A i \in 1 .. Len(prims) : IsList(Block(f, prims[i], t))
    BY <1>2, <1>3, BlockFacts
  <2> HIDE DEF b
  <2>3. b = [i \in 1 .. Len(prims) |-> b[i]] /\ \A i \in 1 .. Len(prims) : b[i] = Block(f, prims[i], t)
    BY <2>1
  <2>4. IsList(b) /\ Len(b) = Len(prims)
    BY <1>3, <2>3, FunctionIsList
  <2>5. IsLists(b)
    BY <2>2, <2>3, <2>4 DEF IsLists
  <2> QED BY <2>3, <2>4, <2>5 DEF b
<1>5. /\ runs = [j \in 1 .. Len(times) |-> FlattenSeq(Blocks(f, prims, times[j]))]
      /\ blocks = [j \in 1 .. Len(times) |-> Blocks(f, prims, times[j])]
  BY <1>1 DEF Runs, AllBlocks
<1> HIDE DEF times, runs, blocks
<1>6. /\ runs = [j \in 1 .. Len(times) |-> runs[j]] /\ blocks = [j \in 1 .. Len(times) |-> blocks[j]]
      /\ \A j \in 1 .. Len(times) :
           blocks[j] = Blocks(f, prims, times[j]) /\ runs[j] = FlattenSeq(blocks[j])
  BY <1>5
<1>7. IsList(runs) /\ Len(runs) = Len(times) /\ IsList(blocks) /\ Len(blocks) = Len(times)
  <2>1. IsList(runs) /\ Len(runs) = Len(times)
    BY <1>1, <1>6, FunctionIsList
  <2>2. IsList(blocks) /\ Len(blocks) = Len(times)
    BY <1>1, <1>6, FunctionIsList
  <2> QED BY <2>1, <2>2
<1>8. \A j \in 1 .. Len(times) :
        /\ IsLists(blocks[j]) /\ Len(blocks[j]) = Len(prims)
        /\ \A i \in 1 .. Len(prims) : blocks[j][i] = Block(f, prims[i], times[j])
  <2> SUFFICES ASSUME NEW j \in 1 .. Len(times)
               PROVE  /\ IsLists(blocks[j]) /\ Len(blocks[j]) = Len(prims)
                      /\ \A i \in 1 .. Len(prims) : blocks[j][i] = Block(f, prims[i], times[j])
    OBVIOUS
  <2> DEFINE t == times[j]
             b == Blocks(f, prims, t)
  <2>1. blocks[j] = b
    BY <1>6
  <2>2. /\ IsLists(b) /\ Len(b) = Len(prims)
        /\ \A i \in 1 .. Len(prims) : b[i] = Block(f, prims[i], t)
    BY <1>4
  <2> HIDE DEF b
  <2> QED BY <2>1, <2>2
<1>9. Nested(runs, blocks)
  BY <1>6, <1>7, <1>8 DEF Nested
<1> QED BY <1>7, <1>8, <1>9 DEF times, runs, blocks

\* Each prim adds its rows.
Grows(f, prims, j) ==
    \A i \in 1 .. Len(prims) :
        Progress(f, prims, j, i + 1)
          = Progress(f, prims, j, i) \o Block(f, prims[i], Times(options)[j])

\* Prim by prim and time by time, the rows of a morsel are all there.
LEMMA ProgressFacts ==
    ASSUME ~StageUnit, call.function \in PrimFunctions, IsList(options.mask_path),
           IsList(options.times), NEW f, NEW prims, PrimsOK(f, prims),
           NEW j \in 1 .. Len(Times(options))
    PROVE  /\ j = 1 => Progress(f, prims, j, 1) = <<>>
           /\ Grows(f, prims, j)
           /\ j + 1 \in 1 .. Len(Times(options)) =>
                Progress(f, prims, j, Len(prims) + 1) = Progress(f, prims, j + 1, 1)
           /\ \A i \in 1 .. Len(prims) + 1 :
                /\ IsList(Progress(f, prims, j, i))
                /\ \A n \in 1 .. Len(Progress(f, prims, j, i)) :
                     Expected(f, prims)[n] = Progress(f, prims, j, i)[n]
<1> DEFINE runs == Runs(f, prims)
           blocks == AllBlocks(f, prims)
           times == Times(options)
<1>1. /\ Nested(runs, blocks) /\ Len(runs) = Len(times)
      /\ Len(blocks[j]) = Len(prims)
      /\ \A i \in 1 .. Len(prims) : blocks[j][i] = Block(f, prims[i], times[j])
  BY RunsNested
<1>2. Expected(f, prims) = FlattenSeq(runs)
  BY ExpectedRows DEF ExpectedIs
<1>3. \A k, i : Progress(f, prims, k, i) = Position(runs, blocks, k, i)
  BY DEF Progress
<1> HIDE DEF runs, blocks, times
<1>4. j \in 1 .. Len(runs)
  BY <1>1 DEF times
<1>5. j = 1 => Position(runs, blocks, j, 1) = <<>>
  BY <1>1, <1>4, PositionFacts
<1>6. \A i \in 1 .. Len(prims) :
        Position(runs, blocks, j, i + 1) = Position(runs, blocks, j, i) \o blocks[j][i]
  BY <1>1, <1>4, PositionFacts
<1>7. j + 1 \in 1 .. Len(runs) =>
        Position(runs, blocks, j, Len(prims) + 1) = Position(runs, blocks, j + 1, 1)
  BY <1>1, <1>4, PositionFacts
<1>8. \A i \in 1 .. Len(prims) + 1 :
        /\ IsList(Position(runs, blocks, j, i))
        /\ \E rest : IsList(rest) /\ FlattenSeq(runs) = Position(runs, blocks, j, i) \o rest
  <2>1. Nested(runs, blocks) /\ Len(blocks[j]) = Len(prims)
    BY <1>1
  <2>2. Reaches(runs, blocks, j)
    BY <1>4, <2>1, PositionFacts
  <2> QED BY <2>1, <2>2 DEF Reaches
<1>9. ASSUME NEW i \in 1 .. Len(prims) + 1
      PROVE  /\ IsList(Progress(f, prims, j, i))
             /\ \A n \in 1 .. Len(Progress(f, prims, j, i)) :
                  Expected(f, prims)[n] = Progress(f, prims, j, i)[n]
  <2> DEFINE p == Progress(f, prims, j, i)
             all == Expected(f, prims)
  <2>1. IsList(p) /\ \E rest : IsList(rest) /\ all = p \o rest
    BY <1>2, <1>3, <1>8
  <2> HIDE DEF p, all
  <2>2. PICK rest : IsList(rest) /\ all = p \o rest
    BY <2>1
  <2>3. \A n \in 1 .. Len(p) : all[n] = p[n]
    BY <2>1, <2>2, ConcatIs
  <2> QED BY <2>1, <2>3 DEF p, all
<1>10. ASSUME NEW i \in 1 .. Len(prims)
       PROVE  Progress(f, prims, j, i + 1) = Progress(f, prims, j, i) \o Block(f, prims[i], times[j])
  <2> DEFINE p == Position(runs, blocks, j, i)
             b == blocks[j][i]
             d == Block(f, prims[i], times[j])
             u == Progress(f, prims, j, i)
  <2>1. u = p /\ b = d /\ Progress(f, prims, j, i + 1) = p \o b
    BY <1>1, <1>3, <1>6
  <2> HIDE DEF p, b, d, u
  <2>2. Progress(f, prims, j, i + 1) = u \o d
    BY <2>1
  <2> QED BY <2>2 DEF d, u
<1>13. Grows(f, prims, j)
  BY <1>10 DEF Grows, times
<1>11. j = 1 => Progress(f, prims, j, 1) = <<>>
  BY <1>3, <1>5
<1>12. j + 1 \in 1 .. Len(times) =>
         Progress(f, prims, j, Len(prims) + 1) = Progress(f, prims, j + 1, 1)
  BY <1>1, <1>3, <1>7
<1> QED BY <1>9, <1>11, <1>12, <1>13 DEF times

\* The rows of a producer are those of a list, with their times, in the columns C
Shows(fn, C, o, f, pr, times, list) ==
    /\ IsList(list) /\ IsList(pr.rows) /\ Len(pr.rows) = Len(list)
    /\ \A n \in 1 .. Len(list) : \A c \in C : Write(fn, pr, f, pr.rows[n], c, o) = list[n].row[c]
    /\ o.times = <<>> => times = <<>>
    /\ o.times # <<>> => /\ IsList(times) /\ Len(times) = Len(list)
                         /\ \A n \in 1 .. Len(list) : times[n] = list[n].time

\* u is s, and then t.
Joins(s, t, u) ==
    /\ IsList(u) /\ Len(u) = Len(s) + Len(t) /\ DOMAIN u = 1 .. Len(s) + Len(t)
    /\ \A n \in 1 .. Len(s) : u[n] = s[n]
    /\ \A n \in 1 .. Len(t) : u[Len(s) + n] = t[n]
    /\ \A n \in DOMAIN u : n \in 1 .. Len(s) \/ \E m \in 1 .. Len(t) : n = Len(s) + m

\* Two lists are joined like that.
LEMMA ConcatJoins ==
    ASSUME NEW s, NEW t, IsList(s), IsList(t)
    PROVE  Joins(s, t, s \o t)
<1> SUFFICES ASSUME NEW u, u = s \o t PROVE Joins(s, t, u)
  OBVIOUS
<1>1. IsList(u) /\ Len(u) = Len(s) + Len(t) /\ DOMAIN u = 1 .. Len(s) + Len(t)
  BY ConcatIs
<1>2. \A n \in 1 .. Len(s) : u[n] = s[n]
  BY ConcatIs
<1>3. \A n \in 1 .. Len(t) : u[Len(s) + n] = t[n]
  BY ConcatIs
<1>4. \A n \in DOMAIN u : n \in 1 .. Len(s) \/ \E m \in 1 .. Len(t) : n = Len(s) + m
  <2>1. Len(s) \in Nat /\ Len(t) \in Nat
    BY ListFacts
  <2> SUFFICES ASSUME NEW n \in 1 .. Len(s) + Len(t), n \notin 1 .. Len(s)
               PROVE  \E m \in 1 .. Len(t) : n = Len(s) + m
    BY <1>1
  <2>2. n - Len(s) \in 1 .. Len(t) /\ n = Len(s) + (n - Len(s))
    BY <2>1
  <2> QED BY <2>2
<1> QED BY <1>1, <1>2, <1>3, <1>4 DEF Joins

\* Rows are added to those that show a list, and more of the list to it: elements
\* that the new rows show, at the time t.
Continues(fn, C, o, f, pr, list, a, new, more, t) ==
    /\ IsList(new) /\ IsList(more) /\ Len(new) = Len(more)
    /\ a.rows = pr.rows \o new
    /\ \A n \in 1 .. Len(list) : \A c \in C :
         Write(fn, a, f, pr.rows[n], c, o) = Write(fn, pr, f, pr.rows[n], c, o)
    /\ \A n \in 1 .. Len(more) : \A c \in C : Write(fn, a, f, new[n], c, o) = more[n].row[c]
    /\ \A n \in 1 .. Len(more) : more[n].time = t

\* Rows are added to both.
LEMMA ShowsMore ==
    ASSUME NEW fn, NEW C, NEW o, NEW f, NEW pr, NEW times, NEW list,
           Shows(fn, C, o, f, pr, times, list),
           NEW a, NEW new, NEW more, NEW t, Continues(fn, C, o, f, pr, list, a, new, more, t)
    PROVE  Shows(fn, C, o, f, a,
                 IF o.times = <<>> THEN <<>> ELSE Resize(times, Len(a.rows), t), list \o more)
<1> DEFINE s == pr.rows
           u == a.rows
           d == list \o more
           T == IF o.times = <<>> THEN <<>> ELSE Resize(times, Len(a.rows), t)
<1>1. /\ IsList(list) /\ IsList(s) /\ Len(s) = Len(list)
      /\ \A n \in 1 .. Len(list) : \A c \in C : Write(fn, pr, f, s[n], c, o) = list[n].row[c]
      /\ o.times # <<>> => /\ IsList(times) /\ Len(times) = Len(list)
                           /\ \A n \in 1 .. Len(list) : times[n] = list[n].time
  BY DEF Shows
<1>2. /\ IsList(new) /\ IsList(more) /\ Len(new) = Len(more) /\ u = s \o new
      /\ \A n \in 1 .. Len(more) : \A c \in C : Write(fn, a, f, new[n], c, o) = more[n].row[c]
      /\ \A n \in 1 .. Len(more) : more[n].time = t
  BY DEF Continues
<1>3. /\ \A n \in 1 .. Len(list) : \A c \in C :
           Write(fn, a, f, s[n], c, o) = Write(fn, pr, f, s[n], c, o)
  BY DEF Continues
<1> HIDE DEF s, u, d
<1>4. /\ IsList(u) /\ Len(u) = Len(s) + Len(new) /\ DOMAIN u = 1 .. Len(s) + Len(new)
      /\ \A n \in 1 .. Len(s) : u[n] = s[n]
      /\ \A n \in 1 .. Len(new) : u[Len(s) + n] = new[n]
      /\ \A n \in DOMAIN u : n \in 1 .. Len(s) \/ \E m \in 1 .. Len(new) : n = Len(s) + m
  <2>1. Joins(s, new, u)
    BY <1>1, <1>2, ConcatJoins
  <2> QED BY <2>1 DEF Joins
<1>5. /\ IsList(d) /\ Len(d) = Len(list) + Len(more)
      /\ \A n \in 1 .. Len(list) : d[n] = list[n]
      /\ \A n \in 1 .. Len(more) : d[Len(list) + n] = more[n]
  <2>1. Joins(list, more, d)
    BY <1>1, <1>2, ConcatJoins DEF d
  <2> QED BY <2>1 DEF Joins
<1>6. Len(u) = Len(d) /\ Len(list) \in Nat /\ Len(more) \in Nat /\ Len(u) \in Nat
  BY <1>1, <1>2, <1>4, <1>5, ListFacts
<1>7. \A n \in 1 .. Len(d) : n \in 1 .. Len(list) \/ \E m \in 1 .. Len(more) : n = Len(list) + m
  BY <1>1, <1>2, <1>4, <1>5
<1>8. ASSUME NEW n \in 1 .. Len(d), NEW c \in C
      PROVE  Write(fn, a, f, u[n], c, o) = d[n].row[c]
  <2>1. CASE n \in 1 .. Len(list)
    <3>1. u[n] = s[n] /\ d[n] = list[n]
      BY <1>1, <1>4, <1>5, <2>1
    <3> QED BY <1>1, <1>3, <2>1, <3>1
  <2>2. CASE \E m \in 1 .. Len(more) : n = Len(list) + m
    <3>1. PICK m \in 1 .. Len(more) : n = Len(list) + m
      BY <2>2
    <3>2. u[n] = new[m] /\ d[n] = more[m]
      BY <1>1, <1>2, <1>4, <1>5, <3>1
    <3> QED BY <1>2, <3>2
  <2> QED BY <1>7, <2>1, <2>2
<1>9. ASSUME o.times # <<>>
      PROVE  IsList(T) /\ Len(T) = Len(d) /\ \A n \in 1 .. Len(d) : T[n] = d[n].time
  <2>1. T = [n \in 1 .. Len(u) |-> IF n <= Len(times) THEN times[n] ELSE t]
    BY <1>9 DEF Resize, u
  <2> HIDE DEF T
  <2>2. T = [n \in 1 .. Len(u) |-> T[n]]
    BY <2>1
  <2>3. IsList(T) /\ Len(T) = Len(d)
    BY <1>6, <2>2, FunctionIsList
  <2>4. ASSUME NEW n \in 1 .. Len(d) PROVE T[n] = d[n].time
    <3>1. T[n] = IF n <= Len(times) THEN times[n] ELSE t
      BY <1>6, <2>1
    <3>2. CASE n \in 1 .. Len(list)
      BY <1>1, <1>5, <1>6, <1>9, <3>1, <3>2
    <3>3. CASE \E m \in 1 .. Len(more) : n = Len(list) + m
      <4>1. PICK m \in 1 .. Len(more) : n = Len(list) + m
        BY <3>3
      <4>2. ~(n <= Len(times))
        BY <1>1, <1>6, <1>9, <4>1
      <4>3. d[n] = more[m]
        BY <1>5, <4>1
      <4> QED BY <1>2, <3>1, <4>2, <4>3
    <3> QED BY <1>7, <3>2, <3>3
  <2> QED BY <2>3, <2>4
<1>10. o.times = <<>> => T = <<>>
  OBVIOUS
<1> HIDE DEF T
<1>11. Shows(fn, C, o, f, a, T, d)
  BY <1>4, <1>5, <1>6, <1>8, <1>9, <1>10 DEF Shows, u
<1> QED BY <1>11 DEF T, d

-----------------------------------------------------------------------------
(* The options and the files of a scan *)

\* What the options are, whatever is bound
OptionsOK ==
    /\ DOMAIN options = OptionNames
    /\ IsList(options.times) /\ IsList(options.mask_path)
    /\ options.times # <<>> => call.function \in TimedFunctions

\* Options that a bind makes, and those before it, are in order.
LEMMA AcceptedOptionsOK ==
    ASSUME call \in Calls, ~Rejected(call),
           DOMAIN call.parameters \subseteq AcceptedOptions(Functions[call.function])
    PROVE  LET o == BindOptions(call.parameters)
           IN  /\ DOMAIN o = OptionNames /\ IsList(o.times) /\ IsList(o.mask_path)
               /\ o.times # <<>> => call.function \in TimedFunctions
<1> DEFINE p == call.parameters
           fn == call.function
           g == Given(p)
           o == BindOptions(p)
<1>1. fn \in DOMAIN Functions
  BY FunctionsAssumption
<1>2. /\ Functions[fn].time_dependent => fn \in TimedFunctions
      /\ {"time", "times", "mask_path"} \cap Functions[fn].options = {}
  BY <1>1, FunctionsAssumption
<1>3. /\ "mask_path" \notin DOMAIN p
      /\ "times" \in DOMAIN p => fn \in TimedFunctions
  BY <1>2 DEF AcceptedOptions, SharedOptions
<1>4. \A x \in {"root", "times"} \cap DOMAIN p :
        \/ p[x] = Null \/ IsList(p[x])
        \/ x = "root" /\ p[x] = NotAPath
  BY BindAssumption
<1>5. /\ \A x \in DOMAIN p : p[x] # Null
      /\ "root" \in DOMAIN p => p["root"] # NotAPath
  BY DEF Rejected, SharedErrors
<1>6. g = [x \in OptionNames |-> IF x \in DOMAIN p THEN p[x] ELSE DefaultOptions[x]]
  BY DefaultNames DEF Given
<1>7. o = [x \in OptionNames |->
             IF x = "mask_path" /\ "root" \in DOMAIN p THEN p["root"]
             ELSE IF x = "material_purpose" /\ g.material_purpose = "allPurpose" THEN ""
             ELSE g[x]]
  BY <1>6 DEF BindOptions, BindMaterialPurpose, ParseScanOptions, OptionNames
<1>8. DOMAIN o = OptionNames
  BY <1>7
<1> HIDE DEF o, g
<1>9. o.times = g.times /\ o.mask_path = IF "root" \in DOMAIN p THEN p["root"] ELSE g.mask_path
  BY <1>7 DEF OptionNames
<1>10. /\ g.times = IF "times" \in DOMAIN p THEN p["times"] ELSE <<>>
       /\ g.mask_path = <<>>
  BY <1>3, <1>6 DEF OptionNames, DefaultOptions
<1>11. IsList(o.times) /\ IsList(o.mask_path)
  BY <1>4, <1>5, <1>9, <1>10, EmptyIsList
<1>12. o.times # <<>> => fn \in TimedFunctions
  BY <1>3, <1>9, <1>10
<1> QED BY <1>8, <1>11, <1>12 DEF o

\* So they are before the bind.
LEMMA OptionsInit == Init => OptionsOK
<1>1. DOMAIN DefaultOptions = OptionNames
  BY DefaultNames
<1>2. DefaultOptions.times = <<>> /\ DefaultOptions.mask_path = <<>>
  BY DEF DefaultOptions
<1> QED BY <1>1, <1>2, EmptyIsList DEF Init, BindInit, OptionsOK

\* Only the bind makes options.
LEMMA OptionsNext == call \in Calls /\ OptionsOK /\ [Next]_vars => call' = call /\ OptionsOK'
<1> SUFFICES ASSUME call \in Calls, OptionsOK, [Next]_vars PROVE call' = call /\ OptionsOK'
  OBVIOUS
<1>1. CASE UNCHANGED <<call, options>>
  BY <1>1 DEF OptionsOK
<1>2. CASE BindCall /\ ~Rejected(call)
  <2>1. /\ DOMAIN call.parameters \subseteq AcceptedOptions(Functions[call.function])
        /\ call' = call /\ options' = BindOptions(call.parameters)
    BY <1>2 DEF BindCall
  <2> DEFINE o == BindOptions(call.parameters)
  <2>2. /\ DOMAIN o = OptionNames /\ IsList(o.times) /\ IsList(o.mask_path)
        /\ o.times # <<>> => call.function \in TimedFunctions
    BY <1>2, <2>1, AcceptedOptionsOK
  <2>3. options' = o /\ call' = call
    BY <2>1
  <2> HIDE DEF o
  <2> QED BY <2>2, <2>3 DEF OptionsOK
<1>3. CASE BindCall /\ Rejected(call)
  BY <1>1, <1>3 DEF BindCall
<1>4. CASE ListEntry \/ ReportEntry \/ ValidateFile \/ FinishBind
  BY <1>1, <1>4 DEF ListEntry, ReportEntry, ValidateFile, FinishBind
<1>5. CASE Change
  BY <1>1, <1>5 DEF Change, ChangeFile, binding
<1>6. CASE Pushdown \/ Fill \/ Emit
  BY <1>1, <1>6 DEF Pushdown, Fill, Emit, bindVars, binding
<1>7. CASE InitScan \/ Exhausted \/ TakeMorsel \/ NoMoreFiles
  BY <1>1, <1>7 DEF InitScan, Exhausted, TakeMorsel, NoMoreFiles, binding
<1>8. CASE OpenFile
  BY <1>1, <1>8 DEF OpenFile
<1>9. CASE Ended \/ UNCHANGED vars
  BY <1>1, <1>9 DEF Ended, vars, bindVars, binding
<1> QED BY <1>2, <1>3, <1>4, <1>5, <1>6, <1>7, <1>8, <1>9 DEF Next, Bind, BindStep

\* Where the call is, and how it ended
PcOK ==
    /\ pc \in {"call", "bind", "report", "plan", "next", "fill", "done", "failed"}
    /\ error \in {"none", "BINDER", "NOT_IMPLEMENTED", "IO", "INVALID_INPUT", "PERMISSION"}
    /\ (error = "none") = (pc # "failed")

\* The files of the scan are files of the call, each found as it may be
FilesOK ==
    /\ files \in Seq(CallFiles)
    /\ state \in [CallFiles -> FileStates]
    /\ \A f \in CallFiles : state[f] \in Files[f]

\* What holds whether rows have been read or not
BaseInv == BInv /\ OptionsOK /\ PcOK /\ FilesOK

\* At the start
LEMMA BaseInit == Init => BaseInv
<1> SUFFICES ASSUME Init PROVE BaseInv
  OBVIOUS
<1>1. /\ pc = "call" /\ error = "none" /\ files = <<>>
      /\ state \in [CallFiles -> FileStates] /\ \A f \in CallFiles : state[f] \in Files[f]
  BY DEF Init, BindInit
<1>2. PcOK
  BY <1>1 DEF PcOK
<1>3. FilesOK
  BY <1>1, EmptySeq DEF FilesOK
<1> QED BY <1>2, <1>3, BindInits, OptionsInit DEF BaseInv

\* An error ends the call
LEMMA PcNext == PcOK /\ FilesOK /\ BInv /\ [Next]_vars => PcOK'
<1> SUFFICES ASSUME PcOK, FilesOK, BInv, [Next]_vars PROVE PcOK'
  OBVIOUS
<1> DEFINE Errors == {"BINDER", "NOT_IMPLEMENTED", "IO", "INVALID_INPUT", "PERMISSION"}
<1>1. ASSUME pc # "failed", pc' \in {"call", "bind", "report", "plan", "next", "fill", "done"},
             error' = error
      PROVE  PcOK'
  BY <1>1 DEF PcOK
<1>2. ASSUME NEW type \in Errors, Throw(type)
      PROVE  PcOK'
  BY <1>2 DEF Throw, PcOK
<1>3. ASSUME NEW f, NEW accepted, AcceptFile(f, accepted), pc # "failed", f \in CallFiles
      PROVE  PcOK'
  <2>1. ValidatePath(f) \in Errors \cup {"none"}
    <3>1. state[f] \in FileStates
      BY <1>3 DEF FilesOK
    <3> QED BY <3>1 DEF ValidatePath, FileStates
  <2>2. CASE ValidatePath(f) = "none" \/ Skippable(ValidatePath(f))
    BY <1>1, <1>3, <2>2 DEF AcceptFile
  <2>3. CASE ~(ValidatePath(f) = "none" \/ Skippable(ValidatePath(f)))
    BY <1>2, <1>3, <2>1, <2>3 DEF AcceptFile
  <2> QED BY <2>2, <2>3
<1>4. CASE BindCall
  BY <1>1, <1>2, <1>4 DEF BindCall
<1>5. CASE ListEntry \/ ReportEntry
  <2>1. CASE ListEntry
    BY <1>1, <1>2, <2>1 DEF ListEntry
  <2>2. CASE ReportEntry
    <3> DEFINE e == Head(entries)
    <3>1. /\ pc = "report" /\ entries # <<>> /\ e \notin Globs \cup Remote
          /\ AcceptFile(Matches[e][1], files)
      BY <2>2 DEF ReportEntry, BInv, BindOK, Unmatched
    <3>2. PICK n \in Nat : Listed(n)
      BY <3>1 DEF BInv, BindOK
    <3>3. Matches[e] \in Seq(CallFiles) /\ e \in DOMAIN Matches
      BY <3>1, <3>2, NextEntry
    <3> HIDE DEF e
    <3>4. Len(Matches[e]) = 1
      BY <3>1, <3>3, BindAssumption
    <3>5. Matches[e][1] \in CallFiles
      BY <3>3, <3>4, ElementOfSeq
    <3> QED BY <1>3, <3>1, <3>5
  <2> QED BY <1>5, <2>1, <2>2
<1>6. CASE ValidateFile
  <2>1. pc = "bind" /\ listed # <<>> /\ AcceptFile(Head(listed), Append(files, Head(listed)))
    BY <1>6 DEF ValidateFile
  <2>2. listed \in Seq(CallFiles)
    BY <2>1 DEF BInv, BindOK
  <2>3. Head(listed) \in CallFiles
    BY <2>1, <2>2, HeadAndTail
  <2> QED BY <1>3, <2>1, <2>3
<1>7. CASE FinishBind
  BY <1>1, <1>2, <1>7 DEF FinishBind
<1>8. CASE UNCHANGED <<pc, error>>
  BY <1>8 DEF PcOK
<1>9. CASE Change
  BY <1>8, <1>9 DEF Change, ChangeFile, binding
<1>10. CASE Pushdown \/ Fill \/ Emit
  BY <1>8, <1>10 DEF Pushdown, Fill, Emit, bindVars, binding
<1>11. CASE InitScan \/ Exhausted \/ TakeMorsel \/ NoMoreFiles
  BY <1>1, <1>11 DEF InitScan, Planned, Exhausted, TakeMorsel, Deal, NoMoreFiles, binding
<1>12. CASE OpenFile
  <2>1. pc = "next"
    BY <1>12 DEF OpenFile
  <2>2. \/ pc' \in {"next", "fill"} /\ error' = error
        \/ Throw("PERMISSION") \/ Throw("IO")
    BY <1>12 DEF OpenFile, Deal
  <2> QED BY <1>1, <1>2, <2>1, <2>2
<1>13. CASE Ended \/ UNCHANGED vars
  BY <1>8, <1>13 DEF Ended, vars, bindVars, binding
<1> QED BY <1>4, <1>5, <1>6, <1>7, <1>9, <1>10, <1>11, <1>12, <1>13 DEF Next, Bind, BindStep

\* Files are those of the call, and change as they may
LEMMA FilesNext == FilesOK /\ BInv /\ [Next]_vars => FilesOK'
<1> SUFFICES ASSUME FilesOK, BInv, [Next]_vars PROVE FilesOK'
  OBVIOUS
<1>1. ASSUME call' = call, state' = state, files' \in Seq(CallFiles) PROVE FilesOK'
  <2>1. CallFiles' = CallFiles
    BY <1>1 DEF CallFiles, Matched
  <2> QED BY <1>1, <2>1 DEF FilesOK
<1>2. CASE UNCHANGED <<call, state, files>>
  BY <1>1, <1>2 DEF FilesOK
<1>3. CASE BindCall \/ ListEntry \/ ReportEntry \/ FinishBind
  BY <1>2, <1>3 DEF BindCall, ListEntry, ReportEntry, FinishBind, AcceptFile
<1>4. CASE ValidateFile
  <2>1. /\ pc = "bind" /\ listed # <<>> /\ UNCHANGED <<call, state>>
        /\ files' \in {files, Append(files, Head(listed))}
    BY <1>4 DEF ValidateFile, AcceptFile
  <2>2. listed \in Seq(CallFiles)
    BY <2>1 DEF BInv, BindOK
  <2>3. Head(listed) \in CallFiles
    BY <2>1, <2>2, HeadAndTail
  <2>4. Append(files, Head(listed)) \in Seq(CallFiles)
    BY <2>3, AppendProperties DEF FilesOK
  <2> QED BY <1>1, <2>1, <2>4 DEF FilesOK
<1>5. CASE Change
  <2>0. PICK f \in CallFiles :
          \E s \in Files[f] : state' = [state EXCEPT ![f] = s] /\ UNCHANGED <<call, files>>
    BY <1>5 DEF Change, ChangeFile, binding
  <2>1. PICK s \in Files[f] : state' = [state EXCEPT ![f] = s] /\ UNCHANGED <<call, files>>
    BY <2>0
  <2>2. CallFiles \subseteq DOMAIN Files
    BY CallFilesExist DEF BInv
  <2>3. s \in FileStates
    BY <2>1, <2>2, BindAssumption
  <2>4. CallFiles' = CallFiles
    BY <2>1 DEF CallFiles, Matched
  <2> QED BY <2>1, <2>3, <2>4 DEF FilesOK
<1>6. CASE Pushdown \/ Fill \/ Emit
  BY <1>2, <1>6 DEF Pushdown, Fill, Emit, bindVars, binding
<1>7. CASE InitScan \/ Exhausted \/ TakeMorsel \/ NoMoreFiles \/ OpenFile
  BY <1>2, <1>7 DEF InitScan, Exhausted, TakeMorsel, NoMoreFiles, OpenFile, binding
<1>8. CASE Ended \/ UNCHANGED vars
  BY <1>2, <1>8 DEF Ended, vars, bindVars, binding
<1> QED BY <1>3, <1>4, <1>5, <1>6, <1>7, <1>8 DEF Next, Bind, BindStep

\* Every step keeps this part of the invariant.
LEMMA BaseNext == BaseInv /\ [Next]_vars => call' = call /\ BaseInv'
<1> SUFFICES ASSUME BaseInv, [Next]_vars PROVE call' = call /\ BaseInv'
  OBVIOUS
<1>1. BInv /\ OptionsOK /\ PcOK /\ FilesOK /\ call \in Calls
  BY DEF BaseInv, BInv
<1>2. BInv'
  BY <1>1, BInvNext
<1>3. call' = call /\ OptionsOK'
  BY <1>1, OptionsNext
<1>4. PcOK' /\ FilesOK'
  BY <1>1, PcNext, FilesNext
<1> QED BY <1>2, <1>3, <1>4 DEF BaseInv

-----------------------------------------------------------------------------
(* The scan *)

\* The prims that are not dealt are of the file opened last.
LeftOK ==
    left # <<>> => /\ ~StageUnit
                   /\ next_file \in 1 .. Len(files)
                   /\ PrimsOK(files[next_file], left)

\* The thread has no rows.
NoRows ==
    /\ next_prim = 1 /\ time_index = 1
    /\ row_times = <<>> /\ row_offset = 0
    /\ chunk = NoChunk

\* Before the scan
Idle ==
    /\ next_file = 0 /\ left = <<>>
    /\ morsel = NoMorsel
    /\ producer = Null
    /\ NoRows

\* A producer does what the columns need, at the time that is asked for.
Asked(pr, C, o) == Fetches(pr, C) /\ (o.times = <<>> => pr.time = o.time)

\* A producer that may be kept for the same file, or told of another.
Cleared(fn, pr, f, o) ==
    /\ f \in DOMAIN Stages
    /\ Begins(fn, pr, f, o) /\ pr.rows = <<>>
    /\ DOMAIN pr.prototype_arcs \subseteq PrototypePrims(f, o)

\* Between two morsels
Resting ==
    /\ next_file \in 0 .. Len(files)
    /\ LeftOK
    /\ morsel = [index |-> morsel.index, prims |-> <<>>] /\ morsel.index \in 0 .. next_file
    /\ Asked(producer, ProducerColumns, options)
    /\ IF morsel.index = 0 THEN Bare(call.function, producer)
       ELSE Cleared(call.function, producer, files[morsel.index], options)
    /\ NoRows

\* A producer that has made rows of the prims before the i-th at the j-th time
Working(fn, C, o, f, prims, pr, j, i) ==
    /\ Sound(fn, pr, f, o)
    /\ Asked(pr, C, o)
    /\ o.times # <<>> /\ i > 1 => pr.time = o.times[j]
    /\ DOMAIN pr.bindings \subseteq UNION {Prefixes(q) : q \in ToSet(prims)}
    /\ DOMAIN pr.prototype_arcs \subseteq PrototypePrims(f, o)
    /\ Len(pr.prim_arcs) <= i - 1

\* What a column of a row of the morsel must be
Shown(expected, c, f) ==
    IF c = "time" /\ options.times # <<>> THEN expected.time
    ELSE IF c = "filename" /\ options.filename THEN f
    ELSE IF c \in Function.columns THEN expected.row[c] ELSE Null

\* Every row that a chunk returns is what it must be.
RowsShown ==
    \A i \in DOMAIN chunk.rows : \A c \in call.columns :
        chunk.rows[i][c] = Shown(Expected(files[chunk.index], chunk.prims)[chunk.first + i - 1],
                                 c, files[chunk.index])

\* With a morsel
HasMorsel ==
    /\ next_file \in 0 .. Len(files)
    /\ LeftOK
    /\ morsel = [index |-> morsel.index, prims |-> morsel.prims]
    /\ morsel.index \in 1 .. next_file
    /\ PrimsOK(files[morsel.index], morsel.prims)
    /\ StageUnit => morsel.prims = <<>>

\* The producer has the rows of the prims before the next one, and those only
HasRows ==
    /\ next_prim \in 1 .. Len(morsel.prims) + 1
    /\ time_index \in 1 .. Len(Times(options))
    /\ Working(call.function, ProducerColumns, options, files[morsel.index], morsel.prims,
               producer, time_index, next_prim)
    /\ Shows(call.function, ProducerColumns, options, files[morsel.index], producer, row_times,
             Progress(files[morsel.index], morsel.prims, time_index, next_prim))
    /\ row_offset \in 0 .. Len(producer.rows)

\* While rows are made of a morsel
Filling == HasMorsel /\ HasRows /\ RowsShown

\* The invariant of the scan
ScanInv ==
    /\ pc \in {"call", "bind", "report", "plan"} => Idle
    /\ pc \in {"next", "done"} => Resting
    /\ pc = "fill" => Filling
    /\ pc = "failed" => Idle \/ Resting

\* The inductive invariant of a call
CallInv == BaseInv /\ ScanInv

\* The columns and the unit of the scan are those of the call.
LEMMA UnitFrame ==
    ASSUME UNCHANGED call
    PROVE  StageUnit' = StageUnit /\ Function' = Function /\ ProducerColumns' = ProducerColumns
BY DEF StageUnit, Function, ProducerColumns

\* Before the scan and between two morsels, nothing depends on the filters.
LEMMA RestingFrame ==
    ASSUME UNCHANGED <<call, options, files, scanning>>
    PROVE  (Idle => Idle') /\ (Resting => Resting')
<1>1. Idle => Idle'
  BY DEF Idle, NoRows, scanning
<1>2. StageUnit' = StageUnit /\ ProducerColumns' = ProducerColumns
  BY UnitFrame
<1>3. LeftOK => LeftOK'
  BY <1>2 DEF LeftOK, PrimsOK, scanning
<1>4. Resting => Resting'
  BY <1>2, <1>3 DEF Resting, NoRows, scanning
<1> QED BY <1>1, <1>4

\* With a morsel, it does on the filters too.
LEMMA FillingFrame ==
    ASSUME UNCHANGED <<pushdown, call, options, files, scanning>>, Filling
    PROVE  Filling'
<1> DEFINE f == files[morsel.index]
           list == Progress(f, morsel.prims, time_index, next_prim)
<1>1. StageUnit' = StageUnit /\ ProducerColumns' = ProducerColumns /\ Function' = Function
  BY UnitFrame
<1>2. LeftOK => LeftOK'
  BY <1>1 DEF LeftOK, PrimsOK, scanning
<1>3. HasMorsel'
  BY <1>1, <1>2 DEF Filling, HasMorsel, PrimsOK, scanning
<1>4. ASSUME NEW g, NEW prims PROVE Expected(g, prims)' = Expected(g, prims)
  BY RowsFrame
<1>5. ASSUME NEW g, NEW prims, NEW j, NEW i PROVE Progress(g, prims, j, i)' = Progress(g, prims, j, i)
  <2>1. Runs(g, prims)' = Runs(g, prims) /\ AllBlocks(g, prims)' = AllBlocks(g, prims)
    BY RowsFrame
  <2> QED BY <1>1, <1>4, <2>1 DEF Progress
<1>6. UNCHANGED <<next_prim, time_index, producer, row_times, row_offset, chunk>> /\ morsel' = morsel
  BY DEF scanning
<1>7. list' = list
  BY <1>5, <1>6
<1> HIDE DEF list
<1>8. HasRows
  BY DEF Filling
<1>9. HasRows'
  <2>1. /\ next_prim \in 1 .. Len(morsel.prims) + 1
        /\ time_index \in 1 .. Len(Times(options))
        /\ Working(call.function, ProducerColumns, options, f, morsel.prims, producer, time_index, next_prim)
        /\ Shows(call.function, ProducerColumns, options, f, producer, row_times, list)
        /\ row_offset \in 0 .. Len(producer.rows)
    BY <1>8 DEF HasRows, list
  <2> QED BY <1>1, <1>6, <1>7, <2>1 DEF HasRows, list
<1>10. RowsShown'
  <2> DEFINE e == Expected(files[chunk.index], chunk.prims)
  <2>1. e' = e
    BY <1>4, <1>6
  <2> HIDE DEF e
  <2>2. RowsShown
    BY DEF Filling
  <2>3. \A i \in DOMAIN chunk.rows : \A c \in call.columns :
          chunk.rows[i][c] = Shown(e[chunk.first + i - 1], c, files[chunk.index])
    BY <2>2 DEF RowsShown, e
  <2> QED BY <1>1, <1>6, <2>1, <2>3 DEF RowsShown, Shown, e
<1> QED BY <1>3, <1>9, <1>10 DEF Filling

\* At the start
LEMMA ScanInit == Init => ScanInv
BY DEF Init, BindInit, ScanInv, Idle, NoRows

\* The scan begins with a new producer.
LEMMA InitScanOK ==
    ASSUME FilesOK, Idle, InitScan
    PROVE  pc' = "next" /\ Resting'
<1>1. /\ UNCHANGED <<call, options, files, next_file, left, morsel, next_prim, time_index, row_times,
                     row_offset, chunk>>
      /\ pc' = "next" /\ producer' = NewProducer(options, ProducerColumns)
  BY DEF InitScan, binding
<1>2. StageUnit' = StageUnit /\ ProducerColumns' = ProducerColumns
  BY <1>1, UnitFrame
<1>3. Len(files) \in Nat
  BY DEF FilesOK
<1>4. Bare(call.function, producer') /\ Asked(producer', ProducerColumns, options)
  BY <1>1, NewIsBare DEF Asked, Fetches, Values
<1> QED BY <1>1, <1>2, <1>3, <1>4 DEF Idle, Resting, LeftOK, NoRows, NoMorsel

\* Both parts of a list are lists.
LEMMA ListSplit ==
    ASSUME NEW s, IsList(s), NEW n \in 0 .. Len(s)
    PROVE  /\ IsList(SubSeq(s, 1, n)) /\ ToSet(SubSeq(s, 1, n)) \subseteq ToSet(s)
           /\ IsList(SubSeq(s, n + 1, Len(s))) /\ ToSet(SubSeq(s, n + 1, Len(s))) \subseteq ToSet(s)
<1>1. s \in Seq(ToSet(s)) /\ Len(s) \in Nat
  BY ListFacts DEF IsList
<1> DEFINE A == ToSet(s)
<1> HIDE DEF A
<1>2. \A i \in 1 .. n : s[i] \in A
  BY <1>1, ListFacts DEF A
<1>3. \A i \in n + 1 .. Len(s) : s[i] \in A
  BY <1>1, ListFacts DEF A
<1>4. SubSeq(s, 1, n) \in Seq(A) /\ SubSeq(s, n + 1, Len(s)) \in Seq(A)
  BY <1>1 DEF A
<1> QED BY <1>4, SequenceIsList DEF A

\* The rows of a whole stage are those a producer of its own has of it.
LEMMA StageRowsShown ==
    ASSUME call \in Calls, StageUnit, NEW f \in DOMAIN Stages, NEW prims, NEW pr,
           pr.rows = Begun(call.function, f), options.times = <<>>
    PROVE  Shows(call.function, ProducerColumns, options, f, pr, <<>>, Expected(f, prims))
<1> DEFINE fn == call.function
           none == NewProducer(options, Function.columns)
           fresh == FreshProducer(f, options)
           rows == Begun(fn, f)
           written == WrittenRows(fresh, f, options)
           list == Expected(f, prims)
<1>1. fn \in StageFunctions
  BY UnitFacts
<1>2. fresh.rows = rows
  <2>1. Bare(fn, none)
    BY NewIsBare
  <2> HIDE DEF none
  <2>2. BeginStage(fn, none, f).rows = Begun(fn, f)
    BY <1>1, <2>1, BeginOK
  <2> QED BY <2>2 DEF FreshProducer, none
<1>3. IsList(rows)
  BY StageLists, EmptyIsList DEF Begun
<1>4. list = Timed(Null, written)
  <2>1. list = StageRows(f)
    BY ExpectedRows DEF ExpectedIs
  <2> QED BY <2>1 DEF StageRows
<1>5. \A n, c : Write(fn, pr, f, rows[n], c, options) = Write(fn, fresh, f, rows[n], c, options)
  <2> HIDE DEF fresh, rows
  <2> QED BY <1>1 DEF Write, StageFunctions
<1> HIDE DEF fresh, rows
<1>6. Len(rows) \in Nat /\ DOMAIN rows = 1 .. Len(rows)
  BY <1>3, ListFacts
<1>7. written = [n \in 1 .. Len(rows) |->
                   [c \in Function.columns |-> Write(fn, fresh, f, rows[n], c, options)]]
  BY <1>2, <1>6 DEF WrittenRows
<1>8. list = [n \in 1 .. Len(rows) |-> [time |-> Null, row |-> written[n]]]
  BY <1>4, <1>7 DEF Timed
<1> HIDE DEF written, list
<1>9. list = [n \in 1 .. Len(rows) |-> list[n]] /\ \A n \in 1 .. Len(rows) : list[n].row = written[n]
  BY <1>8
<1>10. IsList(list) /\ Len(list) = Len(rows)
  BY <1>6, <1>9, FunctionIsList
<1>11. ASSUME NEW n \in 1 .. Len(list), NEW c \in ProducerColumns
       PROVE  Write(fn, pr, f, rows[n], c, options) = list[n].row[c]
  <2>1. c \in Function.columns /\ n \in 1 .. Len(rows)
    BY <1>10 DEF ProducerColumns
  <2>2. written[n][c] = Write(fn, fresh, f, rows[n], c, options)
    BY <1>7, <2>1
  <2> QED BY <1>5, <1>9, <2>1, <2>2
<1>12. pr.rows = rows
  BY DEF rows
<1> QED BY <1>3, <1>10, <1>11, <1>12 DEF Shows, list

\* A producer that is told of a stage, or kept for it, has nothing of a prim.
LEMMA DealtProducer ==
    ASSUME call \in Calls, Resting, NEW index \in 1 .. Len(files), NEW prims,
           files[index] \in DOMAIN Stages, Deal(index, prims)
    PROVE  /\ Begins(call.function, producer', files[index], options)
           /\ SameSetting(producer', producer)
           /\ producer'.rows = IF StageUnit THEN Begun(call.function, files[index]) ELSE <<>>
           /\ DOMAIN producer'.prototype_arcs \subseteq PrototypePrims(files[index], options)
<1> DEFINE fn == call.function
           f == files[index]
<1>1. fn \in PrimFunctions \cup StageFunctions /\ (StageUnit <=> fn \notin PrimFunctions)
  BY UnitFacts
<1>2. CASE StageUnit \/ morsel.index # index
  <2>1. producer' = BeginStage(fn, producer, f)
    BY <1>2 DEF Deal
  <2>2. Bare(fn, producer)
    BY BeginsBare DEF Resting, Cleared
  <2>3. /\ Begins(fn, producer', f, options) /\ SameSetting(producer', producer)
        /\ producer'.rows = Begun(fn, f) /\ producer'.prototype_arcs = <<>>
    BY <1>1, <2>1, <2>2, BeginOK
  <2>4. fn \in PrimFunctions => Begun(fn, f) = <<>>
    BY DEF Begun, PrimFunctions
  <2> QED BY <1>1, <2>3, <2>4
<1>3. CASE ~(StageUnit \/ morsel.index # index)
  <2>1. producer' = producer /\ morsel.index = index /\ index # 0
    BY <1>3 DEF Deal
  <2>2. Cleared(fn, producer, f, options)
    BY <2>1 DEF Resting
  <2> QED BY <1>3, <2>1, <2>2 DEF Cleared, SameSetting
<1> QED BY <1>2, <1>3

\* A thread that is dealt a morsel has made no rows of its prims.
LEMMA DealOK ==
    ASSUME call \in Calls, OptionsOK, Resting, NEW index \in 1 .. Len(files), NEW prims,
           PrimsOK(files[index], prims), StageUnit => prims = <<>>, Deal(index, prims),
           UNCHANGED <<pushdown, call, options, files, next_prim, time_index, row_times, row_offset,
                       chunk>>
    PROVE  pc' = "fill" /\ HasRows' /\ RowsShown'
<1> DEFINE fn == call.function
           C == ProducerColumns
           f == files[index]
           list == Progress(f, prims, 1, 1)
<1>1. f \in DOMAIN Stages /\ IsList(prims) /\ Len(prims) \in Nat
  BY ListFacts DEF PrimsOK
<1>2. /\ Begins(fn, producer', f, options) /\ SameSetting(producer', producer)
      /\ producer'.rows = IF StageUnit THEN Begun(fn, f) ELSE <<>>
      /\ DOMAIN producer'.prototype_arcs \subseteq PrototypePrims(f, options)
  BY <1>1, DealtProducer
<1>3. /\ next_prim = 1 /\ time_index = 1 /\ row_times = <<>> /\ row_offset = 0 /\ chunk = NoChunk
      /\ Asked(producer, C, options)
  BY DEF Resting, NoRows
<1>4. /\ IsList(options.times) /\ IsList(options.mask_path)
      /\ options.times # <<>> => fn \in TimedFunctions
  BY DEF OptionsOK
<1>5. fn \in PrimFunctions \cup StageFunctions /\ (StageUnit <=> fn \notin PrimFunctions)
  BY UnitFacts
<1>6. /\ StageUnit' = StageUnit /\ Function' = Function /\ ProducerColumns' = ProducerColumns
      /\ list' = list
  <2>1. Expected(f, prims)' = Expected(f, prims)
    BY RowsFrame
  <2>2. Runs(f, prims)' = Runs(f, prims) /\ AllBlocks(f, prims)' = AllBlocks(f, prims)
    BY RowsFrame
  <2> QED BY <2>1, <2>2, UnitFrame DEF Progress
<1>7. Shows(fn, C, options, f, producer', <<>>, list)
  <2>1. CASE StageUnit
    <3>1. fn \notin TimedFunctions
      BY <1>5, <2>1 DEF TimedFunctions, PrimFunctions
    <3>2. list = Expected(f, prims)
      BY <2>1 DEF Progress
    <3>3. options.times = <<>> /\ producer'.rows = Begun(fn, f)
      BY <1>2, <1>4, <2>1, <3>1
    <3>4. \A pr : pr.rows = Begun(fn, f) => Shows(fn, C, options, f, pr, <<>>, Expected(f, prims))
      BY <1>1, <2>1, <3>3, StageRowsShown
    <3> QED BY <3>2, <3>3, <3>4
  <2>2. CASE ~StageUnit
    <3>1. 1 \in 1 .. Len(Times(options))
      BY <1>4, TimesFacts
    <3>2. list = <<>>
      BY <1>4, <1>5, <2>2, <3>1, ProgressFacts
    <3>3. producer'.rows = <<>> /\ IsList(<<>>) /\ Len(<<>>) = 0
      BY <1>2, <2>2, EmptyIsList
    <3> HIDE DEF list
    <3> QED BY <3>2, <3>3 DEF Shows
  <2> QED BY <2>1, <2>2
<1> HIDE DEF list
<1>8. Working(fn, C, options, f, prims, producer', 1, 1)
  <2>1. /\ Sound(fn, producer', f, options)
        /\ producer'.prim_arcs = <<>> /\ producer'.bindings = <<>>
    BY <1>2 DEF Begins
  <2>2. Asked(producer', C, options)
    BY <1>2, <1>3 DEF Asked, Fetches, SameSetting
  <2>3. Len(producer'.prim_arcs) = 0 /\ DOMAIN producer'.bindings = {}
    BY <2>1, EmptyIsList
  <2> QED BY <1>2, <2>1, <2>2, <2>3 DEF Working
<1>9. morsel' = [index |-> index, prims |-> prims] /\ pc' = "fill"
  BY DEF Deal
<1>10. 1 \in 1 .. Len(Times(options)) /\ 1 \in 1 .. Len(prims) + 1 /\ 0 \in 0 .. Len(producer'.rows)
  <2>1. Len(producer'.rows) \in Nat
    BY <1>7, ListFacts DEF Shows
  <2> QED BY <1>1, <1>4, <2>1, TimesFacts
<1>11. HasRows'
  BY <1>3, <1>6, <1>7, <1>8, <1>9, <1>10 DEF HasRows, list
<1>12. RowsShown'
  BY <1>3 DEF RowsShown, NoChunk
<1> QED BY <1>9, <1>11, <1>12

\* A run of prims is dealt to this thread or another.
LEMMA TakeMorselOK ==
    ASSUME call \in Calls, OptionsOK, FilesOK, Resting, TakeMorsel
    PROVE  \/ pc' = "fill" /\ Filling'
           \/ pc' = "next" /\ Resting'
<1> DEFINE run == SubSeq(left, 1, RunSize)
           rest == SubSeq(left, RunSize + 1, Len(left))
           f == files[next_file]
<1>1. /\ left # <<>> /\ left' = rest /\ pc = "next"
      /\ Deal(next_file, run) \/ UNCHANGED <<morsel, producer, pc>>
      /\ UNCHANGED <<pushdown, call, options, files, next_file, next_prim, time_index, row_times,
                     row_offset, chunk>>
  BY DEF TakeMorsel, binding
<1>2. ~StageUnit /\ next_file \in 1 .. Len(files) /\ PrimsOK(f, left)
  BY <1>1 DEF Resting, LeftOK
<1>3. /\ StageUnit' = StageUnit /\ Function' = Function /\ ProducerColumns' = ProducerColumns
  BY <1>1, UnitFrame
<1>4. RunSize \in 0 .. Len(left)
  <2>1. Len(left) \in Nat
    BY <1>2, ListFacts DEF PrimsOK
  <2> QED BY <2>1, SizesAssumption DEF RunSize
<1>5. PrimsOK(f, run) /\ PrimsOK(f, rest)
  BY <1>2, <1>4, ListSplit DEF PrimsOK
<1> HIDE DEF run, rest
<1>6. LeftOK' /\ next_file' \in 0 .. Len(files')
  BY <1>1, <1>2, <1>3, <1>5 DEF LeftOK, PrimsOK
<1>7. CASE Deal(next_file, run)
  <2>1. pc' = "fill" /\ HasRows' /\ RowsShown'
    BY <1>1, <1>2, <1>5, <1>7, DealOK
  <2>2. morsel' = [index |-> next_file, prims |-> run]
    BY <1>7 DEF Deal
  <2>3. HasMorsel'
    BY <1>1, <1>2, <1>3, <1>5, <1>6, <2>2 DEF HasMorsel, PrimsOK
  <2> QED BY <2>1, <2>3 DEF Filling
<1>8. CASE UNCHANGED <<morsel, producer, pc>>
  <2>1. /\ morsel = [index |-> morsel.index, prims |-> <<>>] /\ morsel.index \in 0 .. next_file
        /\ Asked(producer, ProducerColumns, options) /\ NoRows
        /\ IF morsel.index = 0 THEN Bare(call.function, producer)
           ELSE Cleared(call.function, producer, files[morsel.index], options)
    BY DEF Resting
  <2>2. NoRows'
    BY <1>1, <2>1 DEF NoRows
  <2>3. Resting'
    BY <1>1, <1>3, <1>6, <1>8, <2>1, <2>2 DEF Resting
  <2> QED BY <1>1, <1>8, <2>3
<1> QED BY <1>1, <1>7, <1>8

\* What a traversal visits is composed.
LEMMA TraversalOK ==
    ASSUME NEW f \in DOMAIN Stages, NEW o
    PROVE  /\ IsList(StartTraversal(f, o))
           /\ ToSet(StartTraversal(f, o)) \subseteq Composed(f, o)
<1> DEFINE matches(q) == Prim(f, q).flags \cap Hidden(o) = {}
           visits(q) == /\ q \in Composed(f, o)
                        /\ IsPrefix(o.root, q)
                        /\ \A r \in Prefixes(q) \ {<<>>} : IsPrefix(o.root, r) => matches(r)
           S == {q \in Paths(f) : visits(q)}
<1>1. StartTraversal(f, o) = Among(Stages[f].order, S)
  BY DEF StartTraversal
<1>2. S \subseteq Composed(f, o)
  OBVIOUS
<1> HIDE DEF S
<1>3. IsList(Stages[f].order)
  BY StagesAssumption
<1> QED BY <1>1, <1>2, <1>3, AmongIsList

\* The next file is opened, for this thread or another, skipped or failed on.
LEMMA OpenFileOK ==
    ASSUME call \in Calls, OptionsOK, FilesOK, BInv, Resting, OpenFile
    PROVE  \/ pc' = "fill" /\ Filling'
           \/ pc' \in {"next", "failed"} /\ Resting'
<1> DEFINE n == next_file + 1
           f == files[n]
<1>1. /\ pc = "next" /\ left = <<>> /\ next_file < Len(files) /\ next_file' = n
      /\ UNCHANGED <<pushdown, call, options, files, next_prim, time_index, row_times, row_offset,
                     chunk>>
  BY DEF OpenFile
<1>2. /\ StageUnit' = StageUnit /\ Function' = Function /\ ProducerColumns' = ProducerColumns
  BY <1>1, UnitFrame
<1>3. /\ next_file \in 0 .. Len(files) /\ morsel.index \in 0 .. next_file /\ Len(files) \in Nat
  BY DEF Resting, FilesOK
<1>4. n \in 1 .. Len(files) /\ n \in 0 .. Len(files) /\ morsel.index \in 0 .. n
  BY <1>1, <1>3
<1>5. f \in CallFiles
  BY <1>4 DEF FilesOK
<1> HIDE DEF n
<1>6. ASSUME state[f] = "usd" PROVE f \in DOMAIN Stages
  <2>1. f \in DOMAIN Files
    BY <1>5, CallFilesExist DEF BInv
  <2>2. "usd" \in Files[f]
    BY <1>5, <1>6 DEF FilesOK
  <2> QED BY <2>1, <2>2, StagesAssumption
<1>7. ASSUME UNCHANGED <<morsel, producer>>, LeftOK' PROVE Resting'
  BY <1>1, <1>2, <1>4, <1>7 DEF Resting, NoRows
<1>8. ASSUME left' = <<>> PROVE LeftOK'
  BY <1>8 DEF LeftOK
<1>9. CASE state[f] = "usd" /\ StageUnit /\ left' = left /\ Deal(n, <<>>)
  <2>1. PrimsOK(f, <<>>)
    BY <1>6, <1>9, EmptyIsList DEF PrimsOK
  <2>2. pc' = "fill" /\ HasRows' /\ RowsShown'
    BY <1>1, <1>4, <1>9, <2>1, DealOK
  <2>3. morsel' = [index |-> n, prims |-> <<>>]
    BY <1>9 DEF Deal
  <2>4. LeftOK'
    BY <1>1, <1>8, <1>9
  <2>5. n \in 1 .. n
    BY <1>4
  <2>6. HasMorsel'
    BY <1>1, <1>2, <1>4, <2>1, <2>3, <2>4, <2>5 DEF HasMorsel, PrimsOK
  <2> QED BY <2>2, <2>6 DEF Filling
<1>10. CASE left' = left /\ UNCHANGED <<morsel, producer>> /\ pc' \in {"next", "failed"}
  BY <1>1, <1>7, <1>8, <1>10
<1>11. CASE /\ state[f] = "usd" /\ ~StageUnit /\ left' = StartTraversal(f, options)
            /\ UNCHANGED <<morsel, producer, pc>>
  <2>1. PrimsOK(f, left')
    BY <1>6, <1>11, TraversalOK DEF PrimsOK
  <2>2. LeftOK'
    BY <1>1, <1>2, <1>4, <1>11, <2>1 DEF LeftOK, PrimsOK
  <2> QED BY <1>1, <1>7, <1>11, <2>2
<1> QED BY <1>1, <1>9, <1>10, <1>11 DEF OpenFile, Throw, n

\* A morsel without rows left is done with.
LEMMA ExhaustedOK ==
    ASSUME Filling, Exhausted
    PROVE  pc' = "next" /\ Resting'
<1> DEFINE fn == call.function
           f == files[morsel.index]
           index == morsel.index
<1>1. /\ producer' = Clear(fn, producer) /\ row_offset' = 0 /\ next_prim' = 1 /\ time_index' = 1
      /\ row_times' = <<>> /\ morsel' = [morsel EXCEPT !.prims = <<>>]
      /\ pc' = "next" /\ chunk' = NoChunk
      /\ UNCHANGED <<call, options, files, next_file, left>>
  BY DEF Exhausted, binding
<1>2. /\ StageUnit' = StageUnit /\ ProducerColumns' = ProducerColumns
  BY <1>1, UnitFrame
<1>3. /\ next_file \in 0 .. Len(files) /\ LeftOK
      /\ morsel = [index |-> index, prims |-> morsel.prims] /\ index \in 1 .. next_file
      /\ f \in DOMAIN Stages
  BY DEF Filling, HasMorsel, PrimsOK
<1>4. /\ Sound(fn, producer, f, options) /\ Asked(producer, ProducerColumns, options)
      /\ DOMAIN producer.prototype_arcs \subseteq PrototypePrims(f, options)
  BY DEF Filling, HasRows, Working
<1>5. /\ Begins(fn, producer', f, options) /\ SameSetting(producer', producer)
      /\ producer'.rows = <<>> /\ producer'.prototype_arcs = producer.prototype_arcs
  BY <1>1, <1>4, ClearOK
<1>6. Asked(producer', ProducerColumns, options)
  BY <1>4, <1>5 DEF Asked, Fetches, SameSetting
<1>7. Cleared(fn, producer', f, options)
  BY <1>3, <1>4, <1>5 DEF Cleared
<1>8. morsel' = [index |-> index, prims |-> <<>>]
  BY <1>1, <1>3
<1>9. LeftOK'
  BY <1>1, <1>2, <1>3 DEF LeftOK, PrimsOK
<1>10. morsel'.index = index /\ index \in 0 .. next_file /\ index # 0
  BY <1>3, <1>8
<1> QED BY <1>1, <1>2, <1>3, <1>6, <1>7, <1>8, <1>9, <1>10 DEF Resting, NoRows

\* The producer that adds a prim: at the time of the rows it makes of it
Timely(o, fn, pr, j, i) ==
    IF o.times # <<>> /\ i = 1 THEN SetTime(fn, pr, o.times[j]) ELSE pr

\* It is the one that made the rows before, but for the time.
LEMMA TimelyOK ==
    ASSUME NEW fn \in PrimFunctions, NEW C, NEW o, NEW f, NEW prims, NEW pr, NEW j, NEW i \in Nat \ {0},
           Working(fn, C, o, f, prims, pr, j, i)
    PROVE  LET b == Timely(o, fn, pr, j, i)
           IN  /\ Sound(fn, b, f, o) /\ Fetches(b, C)
               /\ b.time = IF o.times = <<>> THEN o.time ELSE o.times[j]
               /\ \A x \in Fields \ {"time", "spaces"} : b[x] = pr[x]
               /\ \A row, c : Write(fn, b, f, row, c, o) = Write(fn, pr, f, row, c, o)
<1> DEFINE b == Timely(o, fn, pr, j, i)
<1>1. /\ Sound(fn, pr, f, o) /\ Fetches(pr, C)
      /\ o.times = <<>> => pr.time = o.time
      /\ o.times # <<>> /\ i > 1 => pr.time = o.times[j]
  BY DEF Working, Asked
<1>2. CASE o.times # <<>> /\ i = 1
  <2>1. b = SetTime(fn, pr, o.times[j])
    BY <1>2 DEF Timely
  <2>2. /\ Sound(fn, b, f, o) /\ b.time = o.times[j]
        /\ \A x \in Fields \ {"time", "spaces"} : b[x] = pr[x]
        /\ \A row, c : Write(fn, b, f, row, c, o) = Write(fn, pr, f, row, c, o)
    BY <1>1, <2>1, SetTimeOK
  <2>3. Fetches(b, C)
    BY <1>1, <2>2 DEF Fetches, Fields
  <2> QED BY <1>2, <2>2, <2>3
<1>3. CASE ~(o.times # <<>> /\ i = 1)
  <2>1. b = pr
    BY <1>3 DEF Timely
  <2>2. o.times = <<>> \/ i > 1
    BY <1>3
  <2> QED BY <1>1, <2>1, <2>2
<1> QED BY <1>2, <1>3

\* Having added a prim, the producer is on to the next prim.
LEMMA WorkingOn ==
    ASSUME NEW fn \in PrimFunctions, NEW C, NEW o, NEW f \in DOMAIN Stages, NEW prims, NEW pr, NEW j,
           NEW i \in Nat \ {0}, Working(fn, C, o, f, prims, pr, j, i),
           NEW q \in ToSet(prims), IsList(o.mask_path), q \in Composed(f, o),
           NEW a,
           Adds(fn, Timely(o, fn, pr, j, i), a, f, q, o)
    PROVE  /\ Working(fn, C, o, f, prims, a, j, i + 1)
           /\ fn \in TimedFunctions => \A k : Working(fn, C, o, f, prims, a, k, 1)
<1> DEFINE b == Timely(o, fn, pr, j, i)
           near == UNION {Prefixes(r) : r \in ToSet(prims)}
<1>1. /\ Sound(fn, b, f, o) /\ Fetches(b, C)
      /\ b.time = IF o.times = <<>> THEN o.time ELSE o.times[j]
      /\ b.bindings = pr.bindings /\ b.prototype_arcs = pr.prototype_arcs /\ b.prim_arcs = pr.prim_arcs
  BY TimelyOK DEF Fields
<1>2. /\ DOMAIN pr.bindings \subseteq near /\ DOMAIN pr.prototype_arcs \subseteq PrototypePrims(f, o)
      /\ Len(pr.prim_arcs) <= i - 1
  BY DEF Working
<1>3. /\ Sound(fn, a, f, o) /\ a.time = b.time /\ a.fetch_values = b.fetch_values
      /\ DOMAIN a.bindings \subseteq DOMAIN b.bindings \cup Prefixes(q)
      /\ DOMAIN a.prototype_arcs \subseteq DOMAIN b.prototype_arcs \cup ListOf(f, o, q)
      /\ Len(a.prim_arcs) <= Len(b.prim_arcs) + 1
  BY DEF Adds
<1>4. Prefixes(q) \subseteq near
  OBVIOUS
<1> HIDE DEF b, near
<1>5. ListOf(f, o, q) \subseteq PrototypePrims(f, o)
  BY DEF ListOf, PrototypePrims
<1>6. Len(a.prim_arcs) <= i
  <2>1. Len(a.prim_arcs) \in Nat /\ Len(b.prim_arcs) \in Nat
    BY <1>1, <1>3, ListFacts DEF Sound
  <2> QED BY <1>1, <1>2, <1>3, <2>1
<1>7. Asked(a, C, o)
  BY <1>1, <1>3 DEF Asked, Fetches
<1>8. DOMAIN a.bindings \subseteq near /\ DOMAIN a.prototype_arcs \subseteq PrototypePrims(f, o)
  BY <1>1, <1>2, <1>3, <1>4, <1>5
<1>9. Working(fn, C, o, f, prims, a, j, i + 1)
  <2>1. (i + 1) - 1 = i
    OBVIOUS
  <2> QED BY <1>1, <1>3, <1>6, <1>7, <1>8, <2>1 DEF Working, near
<1>10. ASSUME fn \in TimedFunctions, NEW k PROVE Working(fn, C, o, f, prims, a, k, 1)
  <2>1. Len(a.prim_arcs) = 0
    <3>1. a.prim_arcs = <<>>
      BY <1>3, <1>10 DEF Sound, TimedFunctions
    <3> QED BY <3>1, EmptyIsList
  <2>2. ~(1 > 1) /\ Len(a.prim_arcs) <= 1 - 1
    BY <2>1
  <2> QED BY <1>3, <1>7, <1>8, <2>2 DEF Working, near
<1> QED BY <1>9, <1>10

\* The time and the prim that follow
NextTime == IF Repeats THEN time_index + 1 ELSE time_index
NextPrim == IF Repeats THEN 1 ELSE next_prim + 1

\* After the last prim of a time, the first is added at the next time.
LEMMA StepsOn ==
    ASSUME call \in Calls, OptionsOK, Filling, next_prim <= Len(morsel.prims)
    PROVE  LET f == files[morsel.index]
               q == morsel.prims[next_prim]
           IN  /\ ~StageUnit /\ call.function \in PrimFunctions
               /\ next_prim \in 1 .. Len(morsel.prims) /\ q \in ToSet(morsel.prims)
               /\ q \in Composed(f, options)
               /\ NextPrim \in 1 .. Len(morsel.prims) + 1 /\ NextTime \in 1 .. Len(Times(options))
               /\ Progress(f, morsel.prims, NextTime, NextPrim)
                    = Progress(f, morsel.prims, time_index, next_prim)
                        \o Block(f, q, Times(options)[time_index])
               /\ Repeats => options.times # <<>> /\ call.function \in TimedFunctions
<1> DEFINE f == files[morsel.index]
           prims == morsel.prims
           times == Times(options)
           i == next_prim
           j == time_index
<1>1. /\ PrimsOK(f, prims)
      /\ StageUnit => prims = <<>>
      /\ i \in 1 .. Len(prims) + 1 /\ j \in 1 .. Len(times)
  BY DEF Filling, HasMorsel, HasRows
<1>2. /\ IsList(prims) /\ Len(prims) \in Nat /\ ToSet(prims) \subseteq Composed(f, options)
      /\ \A k \in 1 .. Len(prims) : prims[k] \in ToSet(prims)
  BY <1>1, ListFacts DEF PrimsOK
<1>3. /\ IsList(options.times) /\ IsList(options.mask_path)
      /\ options.times # <<>> => call.function \in TimedFunctions
  BY DEF OptionsOK
<1>4. i \in 1 .. Len(prims)
  BY <1>1, <1>2
<1>5. prims # <<>>
  <2>1. Len(prims) # 0
    BY <1>2, <1>4
  <2> QED BY <2>1, EmptyIsList
<1>6. ~StageUnit /\ call.function \in PrimFunctions
  BY <1>1, <1>5, UnitFacts
<1>7. /\ IsList(times) /\ Len(times) \in Nat /\ 1 \in 1 .. Len(times)
      /\ options.times = <<>> => Len(times) = 1
      /\ options.times # <<>> => times = options.times
  BY <1>3, TimesFacts
<1>8. Repeats => options.times # <<>> /\ j + 1 \in 1 .. Len(times) /\ i = Len(prims)
  <2>1. ASSUME Repeats PROVE options.times # <<>>
    <3>1. options.times = <<>> => Len(options.times) = 0
      BY EmptyIsList
    <3>2. j < Len(options.times) /\ j >= 1 /\ j \in Nat
      BY <1>1, <1>7, <2>1 DEF Repeats
    <3> QED BY <3>1, <3>2
  <2>2. ASSUME Repeats PROVE j + 1 \in 1 .. Len(times) /\ i = Len(prims)
    <3>1. times = options.times /\ j < Len(options.times) /\ i = Len(prims)
      BY <1>7, <2>1, <2>2 DEF Repeats
    <3> HIDE DEF times
    <3> QED BY <1>1, <1>7, <3>1
  <2> QED BY <2>1, <2>2
<1>9. /\ Progress(f, prims, j, i + 1) = Progress(f, prims, j, i) \o Block(f, prims[i], times[j])
      /\ j + 1 \in 1 .. Len(times) =>
           Progress(f, prims, j, Len(prims) + 1) = Progress(f, prims, j + 1, 1)
  <2>1. \A k \in 1 .. Len(prims) :
          Progress(f, prims, j, k + 1) = Progress(f, prims, j, k) \o Block(f, prims[k], times[j])
    <3>1. Grows(f, prims, j)
      BY <1>1, <1>3, <1>6, ProgressFacts
    <3> QED BY <3>1 DEF Grows
  <2>2. j + 1 \in 1 .. Len(times) =>
           Progress(f, prims, j, Len(prims) + 1) = Progress(f, prims, j + 1, 1)
    BY <1>1, <1>3, <1>6, ProgressFacts
  <2> QED BY <1>4, <2>1, <2>2
<1>10. Progress(f, prims, NextTime, NextPrim) = Progress(f, prims, j, i + 1)
  BY <1>8, <1>9 DEF NextTime, NextPrim
<1>11. NextPrim \in 1 .. Len(prims) + 1 /\ NextTime \in 1 .. Len(times)
  BY <1>1, <1>2, <1>4, <1>8 DEF NextTime, NextPrim
<1> QED BY <1>2, <1>3, <1>4, <1>6, <1>8, <1>9, <1>10, <1>11

\* A prim adds the rows that are expected of it.
LEMMA FillOK ==
    ASSUME call \in Calls, OptionsOK, Filling, Fill
    PROVE  pc' = "fill" /\ Filling'
<1> DEFINE fn == call.function
           C == ProducerColumns
           o == options
           f == files[morsel.index]
           prims == morsel.prims
           times == Times(options)
           i == next_prim
           j == time_index
           q == prims[i]
           b == Timely(o, fn, producer, j, i)
           list == Progress(f, prims, j, i)
           more == Block(f, q, times[j])
           fresh == FreshRows(f, q, times[j], o)
           shown == IF o.times = <<>> THEN <<>> ELSE Resize(row_times, Len(producer'.rows), times[j])
<1>1. pc = "fill" /\ i <= Len(prims)
  BY DEF Fill, Fillable
<1>2. /\ ~StageUnit /\ fn \in PrimFunctions
      /\ i \in 1 .. Len(prims) /\ q \in ToSet(prims) /\ q \in Composed(f, o)
      /\ NextPrim \in 1 .. Len(prims) + 1 /\ NextTime \in 1 .. Len(times)
      /\ Progress(f, prims, NextTime, NextPrim) = list \o more
      /\ Repeats => o.times # <<>> /\ fn \in TimedFunctions
  BY <1>1, StepsOn
<1>3. /\ IsList(o.times) /\ IsList(o.mask_path) /\ f \in DOMAIN Stages
      /\ Working(fn, C, o, f, prims, producer, j, i)
      /\ Shows(fn, C, o, f, producer, row_times, list)
      /\ row_offset \in 0 .. Len(producer.rows) /\ j \in 1 .. Len(times)
  BY DEF OptionsOK, Filling, HasMorsel, HasRows, PrimsOK
<1>4. /\ o.times = <<>> => Len(times) = 1 /\ times[1] = o.time
      /\ o.times # <<>> => times = o.times
  BY <1>3, TimesFacts
<1>5. times[j] = IF o.times = <<>> THEN o.time ELSE o.times[j]
  BY <1>3, <1>4
<1>6. /\ pc' = pc /\ next_prim' = NextPrim /\ time_index' = NextTime
      /\ producer' = AddPrim(fn, b, f, q, o)
      /\ UNCHANGED <<pushdown, call, options, files, next_file, left, morsel, row_offset, chunk>>
  BY DEF Fill, NextPrim, NextTime, Timely, bindVars, binding
<1>7. row_times' = shown
  <2>1. row_times' = IF o.times = <<>> THEN <<>>
                     ELSE Resize(row_times, Len(producer'.rows), o.times[j])
    BY DEF Fill
  <2> QED BY <1>5, <2>1
<1>8. /\ Sound(fn, b, f, o) /\ Fetches(b, C) /\ b.time = times[j] /\ b.rows = producer.rows
      /\ \A row, c : Write(fn, b, f, row, c, o) = Write(fn, producer, f, row, c, o)
  <2>1. i \in Nat \ {0}
    BY <1>2
  <2> QED BY <1>2, <1>3, <1>5, <2>1, TimelyOK DEF Fields
<1> HIDE DEF b
<1>9. PICK new : AddsFresh(b, producer', fresh, new, f, q, o, C)
  <2>1. C \subseteq Function.columns
    BY DEF ProducerColumns
  <2> QED BY <1>2, <1>3, <1>6, <1>8, <2>1, FreshAdds
<1>10. Adds(fn, b, producer', f, q, o) /\ producer'.rows = producer.rows \o new
  BY <1>8, <1>9 DEF AddsFresh
<1>11. Working(fn, C, o, f, prims, producer', NextTime, NextPrim)
  <2>1. i \in Nat \ {0}
    BY <1>2
  <2>2. /\ Working(fn, C, o, f, prims, producer', j, i + 1)
        /\ fn \in TimedFunctions => \A k : Working(fn, C, o, f, prims, producer', k, 1)
    BY <1>2, <1>3, <1>10, <2>1, WorkingOn DEF b
  <2> QED BY <1>2, <2>2 DEF NextTime, NextPrim
<1>12. Shows(fn, C, o, f, producer', shown, list \o more)
  <2>1. /\ IsList(more) /\ Len(more) = Len(fresh)
        /\ \A n \in 1 .. Len(fresh) : more[n].time = times[j] /\ more[n].row = fresh[n]
    BY <1>2, <1>3, BlockFacts
  <2>2. /\ IsList(new) /\ Len(new) = Len(fresh)
        /\ \A n \in 1 .. Len(new) : \A c \in C : Write(fn, producer', f, new[n], c, o) = fresh[n][c]
    BY <1>9 DEF AddsFresh
  <2>3. DOMAIN producer.rows = 1 .. Len(list)
    BY <1>3, ListFacts DEF Shows
  <2>4. \A n \in 1 .. Len(list) : \A c \in C :
          Write(fn, producer', f, producer.rows[n], c, o) = Write(fn, producer, f, producer.rows[n], c, o)
    BY <1>8, <1>10, <2>3 DEF Adds
  <2> DEFINE t == times[j]
  <2> HIDE DEF list, more, fresh, t
  <2>5. \A n \in 1 .. Len(more) : \A c \in C :
          Write(fn, producer', f, new[n], c, o) = more[n].row[c]
    BY <2>1, <2>2
  <2>6. \A n \in 1 .. Len(more) : more[n].time = t
    BY <2>1, Zenon DEF t
  <2>8. Shows(fn, C, o, f, producer, row_times, list) /\ producer'.rows = producer.rows \o new
    BY <1>3, <1>10
  <2>9. IsList(new) /\ IsList(more) /\ Len(new) = Len(more)
    BY <2>1, <2>2
  <2>7. Shows(fn, C, o, f, producer', IF o.times = <<>> THEN <<>> ELSE Resize(row_times, Len(producer'.rows), t),
              list \o more)
    <3>1. Continues(fn, C, o, f, producer, list, producer', new, more, t)
      BY <2>4, <2>5, <2>6, <2>8, <2>9 DEF Continues
    <3> QED BY <2>8, <3>1, ShowsMore, Zenon
  <2> QED BY <2>7 DEF t
<1>13. Len(producer'.rows) \in Nat /\ row_offset \in 0 .. Len(producer'.rows)
  <2>1. IsList(producer.rows) /\ IsList(new)
    BY <1>3, <1>9 DEF Shows, AddsFresh
  <2>2. Len(producer'.rows) = Len(producer.rows) + Len(new) /\ Len(producer.rows) \in Nat /\ Len(new) \in Nat
    BY <1>10, <2>1, ConcatIsList, ListFacts
  <2> QED BY <1>3, <2>2
<1>14. /\ StageUnit' = StageUnit /\ Function' = Function /\ ProducerColumns' = ProducerColumns
  BY <1>6, UnitFrame
<1>15. ASSUME NEW g, NEW p, NEW m, NEW n PROVE Progress(g, p, m, n)' = Progress(g, p, m, n)
  <2>1. /\ Runs(g, p)' = Runs(g, p) /\ AllBlocks(g, p)' = AllBlocks(g, p)
        /\ Expected(g, p)' = Expected(g, p)
    BY <1>6, RowsFrame
  <2> QED BY <1>14, <2>1 DEF Progress
<1>16. HasMorsel'
  <2>1. HasMorsel
    BY DEF Filling
  <2>2. LeftOK'
    BY <1>6, <1>14, <2>1 DEF HasMorsel, LeftOK, PrimsOK
  <2> QED BY <1>6, <1>14, <2>1, <2>2 DEF HasMorsel, PrimsOK
<1>17. HasRows'
  <2> DEFINE all == Progress(f, prims, NextTime, NextPrim)
             P(m, n) == Progress(f, prims, m, n)
  <2>1. Shows(fn, C, o, f, producer', shown, all)
    BY <1>2, <1>12
  <2>2. f' = f /\ prims' = prims /\ fn' = fn /\ o' = o /\ C' = C /\ times' = times
    BY <1>6, <1>14
  <2>3. Progress(f, prims, time_index, next_prim)' = all
    BY <1>6, <1>15, <2>2
  <2> HIDE DEF shown
  <2> QED BY <1>2, <1>6, <1>7, <1>11, <1>13, <2>1, <2>2, <2>3 DEF HasRows
<1>18. RowsShown'
  <2> DEFINE e == Expected(files[chunk.index], chunk.prims)
  <2>1. e' = e
    BY <1>6, RowsFrame
  <2> HIDE DEF e
  <2>2. RowsShown
    BY DEF Filling
  <2>3. \A k \in DOMAIN chunk.rows : \A c \in call.columns :
          chunk.rows[k][c] = Shown(e[chunk.first + k - 1], c, files[chunk.index])
    BY <2>2 DEF RowsShown, e
  <2> QED BY <1>6, <1>14, <2>1, <2>3 DEF RowsShown, Shown, e
<1> QED BY <1>1, <1>6, <1>16, <1>17, <1>18 DEF Filling

\* A row that a producer has is expected of its morsel.
LEMMA RowExpected ==
    ASSUME call \in Calls, OptionsOK, Filling, NEW n \in 1 .. Len(producer.rows)
    PROVE  LET f == files[morsel.index]
               e == Expected(f, morsel.prims)[n]
           IN  /\ \A c \in ProducerColumns :
                    Write(call.function, producer, f, producer.rows[n], c, options) = e.row[c]
               /\ options.times # <<>> => row_times[n] = e.time
<1> DEFINE fn == call.function
           f == files[morsel.index]
           prims == morsel.prims
           list == Progress(f, prims, time_index, next_prim)
<1>1. /\ PrimsOK(f, prims)
      /\ next_prim \in 1 .. Len(prims) + 1 /\ time_index \in 1 .. Len(Times(options))
      /\ Shows(fn, ProducerColumns, options, f, producer, row_times, list)
  BY DEF Filling, HasMorsel, HasRows
<1>2. Expected(f, prims)[n] = list[n] /\ n \in 1 .. Len(list)
  <2>1. n \in 1 .. Len(list)
    BY <1>1 DEF Shows
  <2>2. CASE StageUnit
    BY <2>1, <2>2 DEF Progress
  <2>3. CASE ~StageUnit
    <3>1. fn \in PrimFunctions
      BY <2>3, UnitFacts
    <3>2. \A i \in 1 .. Len(prims) + 1 :
            \A m \in 1 .. Len(Progress(f, prims, time_index, i)) :
              Expected(f, prims)[m] = Progress(f, prims, time_index, i)[m]
      BY <1>1, <2>3, <3>1, ProgressFacts DEF OptionsOK
    <3> QED BY <1>1, <2>1, <3>2
  <2> QED BY <2>1, <2>2, <2>3
<1> HIDE DEF list
<1> QED BY <1>1, <1>2 DEF Shows

\* A chunk returns the rows that are expected.
LEMMA EmitOK ==
    ASSUME call \in Calls, OptionsOK, Filling, Emit
    PROVE  pc' = "fill" /\ Filling'
<1> DEFINE f == files[morsel.index]
           prims == morsel.prims
           count == IF Available < VectorSize THEN Available ELSE VectorSize
           at(n) == IF options.times = <<>> THEN Null ELSE row_times[n]
           row(n) == [c \in call.columns |-> Column(producer, n, c, f, at(n))]
           rows == [i \in 1 .. count |-> row(row_offset + i)]
<1>1. /\ pc = "fill" /\ pc' = pc /\ Available > 0
      /\ chunk' = [index |-> morsel.index, prims |-> prims, first |-> row_offset + 1, rows |-> rows]
      /\ row_offset' = row_offset + count
      /\ UNCHANGED <<pushdown, call, options, files, next_file, left, morsel, next_prim, time_index,
                     row_times, producer>>
  BY DEF Emit, bindVars, binding
<1>2. /\ HasMorsel /\ HasRows
      /\ row_offset \in 0 .. Len(producer.rows) /\ IsList(producer.rows)
  BY DEF Filling, HasRows, Shows
<1>3. /\ count \in Nat /\ row_offset + count \in 0 .. Len(producer.rows)
      /\ \A i \in 1 .. count : row_offset + i \in 1 .. Len(producer.rows)
  <2>1. Len(producer.rows) \in Nat /\ row_offset \in Nat /\ VectorSize \in Nat
    BY <1>2, ListFacts, SizesAssumption
  <2> QED BY <1>1, <1>2, <2>1 DEF Available
<1> HIDE DEF count
<1>4. StageUnit' = StageUnit /\ ProducerColumns' = ProducerColumns /\ Function' = Function
  BY <1>1, UnitFrame
<1>5. HasMorsel'
  <2>1. LeftOK'
    BY <1>1, <1>2, <1>4 DEF HasMorsel, LeftOK, PrimsOK
  <2> QED BY <1>1, <1>2, <1>4, <2>1 DEF HasMorsel, PrimsOK
<1>6. HasRows'
  <2> DEFINE list == Progress(f, prims, time_index, next_prim)
  <2>1. list' = list
    <3>1. ASSUME NEW g, NEW p, NEW m, NEW n PROVE Progress(g, p, m, n)' = Progress(g, p, m, n)
      <4>1. /\ Runs(g, p)' = Runs(g, p) /\ AllBlocks(g, p)' = AllBlocks(g, p)
            /\ Expected(g, p)' = Expected(g, p)
        BY <1>1, RowsFrame
      <4> QED BY <1>4, <4>1 DEF Progress
    <3> QED BY <1>1, <3>1
  <2> HIDE DEF list
  <2>2. /\ next_prim \in 1 .. Len(prims) + 1 /\ time_index \in 1 .. Len(Times(options))
        /\ Working(call.function, ProducerColumns, options, f, prims, producer, time_index, next_prim)
        /\ Shows(call.function, ProducerColumns, options, f, producer, row_times, list)
    BY <1>2 DEF HasRows, list
  <2>3. row_offset' \in 0 .. Len(producer'.rows)
    BY <1>1, <1>3
  <2> QED BY <1>1, <1>4, <2>1, <2>2, <2>3 DEF HasRows, list
<1>7. RowsShown'
  <2> DEFINE e == Expected(f, prims)
             g == chunk'
  <2>1. e' = e /\ f' = f
    BY <1>1, RowsFrame
  <2>2. /\ chunk'.index = morsel.index /\ chunk'.prims = prims /\ chunk'.first = row_offset + 1
        /\ chunk'.rows = rows
    BY <1>1
  <2>3. Expected(files[chunk.index], chunk.prims)' = e
    BY <1>1, <2>1, <2>2
  <2>4. ASSUME NEW i \in 1 .. count, NEW c \in call.columns
        PROVE  rows[i][c] = Shown(e[row_offset + 1 + i - 1], c, f)
    <3> DEFINE n == row_offset + i
    <3>1. n \in 1 .. Len(producer.rows) /\ row_offset + 1 + i - 1 = n
      BY <1>2, <1>3
    <3>2. rows[i][c] = Column(producer, n, c, f, at(n))
      OBVIOUS
    <3>3. /\ \A d \in ProducerColumns :
               Write(call.function, producer, f, producer.rows[n], d, options) = e[n].row[d]
          /\ options.times # <<>> => row_times[n] = e[n].time
      BY <3>1, RowExpected
    <3> HIDE DEF n, e, rows
    <3>4. Column(producer, n, c, f, at(n)) = Shown(e[n], c, f)
      <4>1. c \in Function.columns => c \in ProducerColumns
        BY DEF ProducerColumns
      <4> QED BY <3>3, <4>1 DEF Column, Shown
    <3> QED BY <3>1, <3>2, <3>4
  <2>5. DOMAIN rows = 1 .. count
    OBVIOUS
  <2> HIDE DEF e, rows
  <2> QED BY <1>1, <1>4, <2>1, <2>2, <2>3, <2>4, <2>5 DEF RowsShown, Shown
<1> QED BY <1>1, <1>5, <1>6, <1>7 DEF Filling

\* Every step keeps the invariant of the scan.
LEMMA ScanNext == CallInv /\ [Next]_vars => ScanInv'
<1> SUFFICES ASSUME CallInv, [Next]_vars PROVE ScanInv'
  OBVIOUS
<1>1. call \in Calls /\ BInv /\ OptionsOK /\ PcOK /\ FilesOK /\ ScanInv
  BY DEF CallInv, BaseInv, BInv
<1>2. /\ pc \in {"call", "bind", "report", "plan"} => Idle
      /\ pc \in {"next", "done"} => Resting
      /\ pc = "fill" => Filling
      /\ pc = "failed" => Idle \/ Resting
  BY <1>1 DEF ScanInv
<1>3. CASE UNCHANGED <<pushdown, call, options, files, scanning, pc>>
  BY <1>2, <1>3, RestingFrame, FillingFrame DEF ScanInv
<1>4. CASE Bind
  <2>1. /\ UNCHANGED scanning /\ pc \in {"call", "bind", "report"}
        /\ pc' \in {"call", "bind", "report", "plan", "failed"}
    BY <1>4 DEF Bind, BindStep, BindCall, ListEntry, ReportEntry, ValidateFile, FinishBind, AcceptFile,
                Throw
  <2>2. Idle'
    BY <1>2, <2>1 DEF Idle, NoRows, scanning
  <2> QED BY <2>1, <2>2 DEF ScanInv
<1>5. CASE Change
  BY <1>3, <1>5 DEF Change, ChangeFile, binding
<1>6. CASE Pushdown
  <2>1. pc = "plan" /\ pc' = pc /\ UNCHANGED scanning
    BY <1>6 DEF Pushdown, bindVars
  <2>2. Idle'
    BY <1>2, <2>1 DEF Idle, NoRows, scanning
  <2> QED BY <2>1, <2>2 DEF ScanInv
<1>7. CASE InitScan
  <2>1. pc' = "next" /\ Resting'
    BY <1>1, <1>2, <1>7, InitScanOK DEF InitScan, Planned
  <2> QED BY <2>1 DEF ScanInv
<1>8. CASE Fill
  <2>1. pc' = "fill" /\ Filling'
    BY <1>1, <1>2, <1>8, FillOK DEF Fill
  <2> QED BY <2>1 DEF ScanInv
<1>9. CASE Emit
  <2>1. pc' = "fill" /\ Filling'
    BY <1>1, <1>2, <1>9, EmitOK DEF Emit
  <2> QED BY <2>1 DEF ScanInv
<1>10. CASE Exhausted
  <2>1. pc' = "next" /\ Resting'
    BY <1>2, <1>10, ExhaustedOK DEF Exhausted
  <2> QED BY <2>1 DEF ScanInv
<1>11. CASE TakeMorsel
  <2>1. \/ pc' = "fill" /\ Filling'
        \/ pc' = "next" /\ Resting'
    BY <1>1, <1>2, <1>11, TakeMorselOK DEF TakeMorsel
  <2> QED BY <2>1 DEF ScanInv
<1>12. CASE OpenFile
  <2>1. \/ pc' = "fill" /\ Filling'
        \/ pc' \in {"next", "failed"} /\ Resting'
    BY <1>1, <1>2, <1>12, OpenFileOK DEF OpenFile
  <2> QED BY <2>1 DEF ScanInv
<1>13. CASE NoMoreFiles
  <2>1. pc = "next" /\ pc' = "done" /\ UNCHANGED <<call, options, files, scanning>>
    BY <1>13 DEF NoMoreFiles, binding
  <2>2. Resting'
    BY <1>2, <2>1, RestingFrame
  <2> QED BY <2>1, <2>2 DEF ScanInv
<1>14. CASE Ended \/ UNCHANGED vars
  BY <1>3, <1>14 DEF Ended, vars, bindVars, binding
<1> QED BY <1>4, <1>5, <1>6, <1>7, <1>8, <1>9, <1>10, <1>11, <1>12, <1>13, <1>14 DEF Next

\* The invariant of the call holds.
LEMMA CallInvariant == Spec => []CallInv
<1>1. Init => CallInv
  BY BaseInit, ScanInit DEF CallInv
<1>2. CallInv /\ [Next]_vars => CallInv'
  BY BaseNext, ScanNext DEF CallInv
<1> QED BY <1>1, <1>2, PTL DEF Spec

\* Rows are only there with a morsel.
LEMMA RowsWithMorsel == CallInv => chunk = NoChunk \/ Filling
BY DEF CallInv, ScanInv, BaseInv, PcOK, Idle, Resting, NoRows

\* Each row a chunk returns is the row a producer of its own makes of the prim at the
\* row's time, whatever caches, columns, files and times the producer went through
\* before, and however the prims were dealt in morsels and the rows in chunks
\* (UsdScanFunction, and the caches of usd_xforms.cpp:93, usd_bounds.cpp:33,
\* usd_material_bindings.cpp:60 and usd_composition_arcs.cpp:112).
THEOREM ReadsFreshRows == Spec => []RowsAreFresh
<1>1. CallInv => RowsAreFresh
  <2> SUFFICES ASSUME CallInv, chunk.rows # <<>> PROVE RowsAreFresh
    BY DEF RowsAreFresh
  <2>1. RowsShown
    BY RowsWithMorsel DEF NoChunk, Filling
  <2> QED BY <2>1 DEF RowsAreFresh, RowsShown, Shown, With
<1> QED BY <1>1, CallInvariant, PTL

\* What a producer keeps is of its file: bindings and lists of arcs of the prims of its
\* morsel, and at most what the stage has of the rest, with one list of arcs for each
\* prim of a prototype (usd_material_bindings.cpp:74-82, usd_composition_arcs.cpp:112-124).
THEOREM KeepsInBounds == Spec => []CachesStayInBounds
<1>1. CallInv => CachesStayInBounds
  <2> SUFFICES ASSUME CallInv, pc = "fill" PROVE CachesStayInBounds
    BY DEF CachesStayInBounds
  <2> DEFINE f == files[morsel.index]
             near == UNION {Prefixes(q) : q \in ToSet(morsel.prims)}
  <2>1. Filling
    BY DEF CallInv, ScanInv
  <2>2. /\ Sound(call.function, producer, f, options)
        /\ DOMAIN producer.bindings \subseteq near
        /\ DOMAIN producer.prototype_arcs \subseteq PrototypePrims(f, options)
        /\ Len(producer.prim_arcs) <= next_prim - 1
        /\ next_prim \in 1 .. Len(morsel.prims) + 1 /\ IsList(morsel.prims)
    BY <2>1 DEF Filling, HasMorsel, HasRows, Working, PrimsOK
  <2>3. Len(producer.prim_arcs) <= Len(morsel.prims)
    <3>1. Len(producer.prim_arcs) \in Nat /\ Len(morsel.prims) \in Nat
      BY <2>2, ListFacts DEF Sound
    <3> QED BY <2>2, <3>1
  <2>4. /\ \A key \in DOMAIN producer.spaces : key[1] = f
        /\ DOMAIN producer.collections \subseteq DOMAIN Stages[f].collections
    BY <2>2 DEF Sound
  <2> QED BY <2>2, <2>3, <2>4 DEF CachesStayInBounds
<1> QED BY <1>1, CallInvariant, PTL

\* The variables of a call have their types throughout.
THEOREM TypesOfCall == Spec => []TypeOK
<1>1. CallInv /\ PushdownTypeOK => TypeOK
  <2> SUFFICES ASSUME CallInv, PushdownTypeOK PROVE TypeOK
    OBVIOUS
  <2>1. call \in Calls /\ BInv /\ OptionsOK /\ PcOK /\ FilesOK /\ ScanInv
    BY DEF CallInv, BaseInv, BInv
  <2>2. /\ DOMAIN options = DOMAIN DefaultOptions
        /\ IsList(options.times)
    BY <2>1, DefaultNames DEF OptionsOK
  <2>3. ToSet(files) \subseteq DOMAIN state /\ Len(files) \in Nat
    <3>1. files \in Seq(CallFiles) /\ DOMAIN state = CallFiles
      BY <2>1 DEF FilesOK
    <3> QED BY <3>1, SequenceIsList
  <2>4. 1 \in 1 .. Len(Times(options))
    BY <2>2, TimesFacts
  <2>5. Idle \/ Resting \/ Filling
    BY <2>1 DEF ScanInv, PcOK
  <2>6. next_file \in 0 .. Len(files) /\ morsel.index \in 0 .. next_file
    BY <2>3, <2>5 DEF Idle, Resting, Filling, HasMorsel, NoMorsel
  <2>7. next_prim \in 1 .. Len(morsel.prims) + 1 /\ time_index \in 1 .. Len(Times(options))
    <3>1. CASE Idle \/ Resting
      <4>1. morsel.prims = <<>> /\ next_prim = 1 /\ time_index = 1
        BY <3>1 DEF Idle, Resting, NoMorsel, NoRows
      <4> QED BY <2>4, <4>1, EmptyIsList
    <3>2. CASE Filling
      BY <3>2 DEF Filling, HasRows
    <3> QED BY <2>5, <3>1, <3>2
  <2>8. producer # Null => /\ row_offset \in 0 .. Len(producer.rows)
                           /\ Len(row_times) \in {0, Len(producer.rows)}
    <3>1. CASE Idle
      BY <3>1 DEF Idle
    <3>2. CASE Resting
      <4>1. producer.rows = <<>> /\ row_offset = 0 /\ row_times = <<>>
        BY <3>2 DEF Resting, Bare, Cleared, NoRows
      <4> QED BY <4>1, EmptyIsList
    <3>3. CASE Filling
      <4>1. /\ row_offset \in 0 .. Len(producer.rows)
            /\ row_times = <<>> \/ Len(row_times) = Len(producer.rows)
        BY <3>3 DEF Filling, HasRows, Shows
      <4> QED BY <4>1, EmptyIsList
    <3> QED BY <2>5, <3>1, <3>2, <3>3
  <2> QED BY <2>1, <2>2, <2>3, <2>6, <2>7, <2>8 DEF TypeOK, PcOK
<1>2. Spec => []PushdownTypeOK
  BY ImplementsPushdown, PushdownTypeCorrect, PTL
<1> QED BY <1>1, <1>2, CallInvariant, PTL

-----------------------------------------------------------------------------
(* Every row returned shows an arc of its own prim. *)

\* x is a row of a prim of the morsel, made by a producer of its own
OfPrim(f, prims, x, t) ==
    \E k \in 1 .. Len(prims) : \E m \in 1 .. Len(FreshRows(f, prims[k], t, options)) :
        x.row = FreshRows(f, prims[k], t, options)[m]

\* At the first time, the rows are those of the prims.
LEMMA ProgressOfPrims ==
    ASSUME ~StageUnit, call.function \in PrimFunctions, IsList(options.mask_path),
           IsList(options.times), NEW f, NEW prims, PrimsOK(f, prims)
    PROVE  \A i \in 1 .. Len(prims) + 1 : \A n \in 1 .. Len(Progress(f, prims, 1, i)) :
             OfPrim(f, prims, Progress(f, prims, 1, i)[n], Times(options)[1])
<1> DEFINE t == Times(options)[1]
           p(i) == Progress(f, prims, 1, i)
           ok(i) == \A n \in 1 .. Len(p(i)) : OfPrim(f, prims, p(i)[n], t)
           S == {i \in Nat : i + 1 \in 1 .. Len(prims) + 1 => ok(i + 1)}
<1>1. 1 \in 1 .. Len(Times(options))
  BY TimesFacts
<1>2. /\ f \in DOMAIN Stages /\ IsList(prims) /\ Len(prims) \in Nat
      /\ \A i \in 1 .. Len(prims) : prims[i] \in Composed(f, options)
  BY ListFacts DEF PrimsOK
<1>3. p(1) = <<>> /\ \A i \in 1 .. Len(prims) + 1 : IsList(p(i))
  BY <1>1, ProgressFacts
<1>4. \A i \in 1 .. Len(prims) : p(i + 1) = p(i) \o Block(f, prims[i], t)
  <2>1. Grows(f, prims, 1)
    BY <1>1, ProgressFacts
  <2> QED BY <2>1 DEF Grows
<1> HIDE DEF p, t
<1>5. 0 \in S
  <2>1. ok(1)
    BY <1>3, EmptyIsList
  <2> QED BY <2>1
<1>6. ASSUME NEW i \in Nat, i \in S PROVE i + 1 \in S
  <2> SUFFICES ASSUME i + 2 \in 1 .. Len(prims) + 1 PROVE ok(i + 2)
    <3>1. (i + 1) + 1 = i + 2 /\ i + 1 \in Nat
      OBVIOUS
    <3> HIDE DEF ok
    <3> QED BY <3>1
  <2> DEFINE j == i + 1
             old == p(j)
             b == Block(f, prims[j], t)
             u == p(j + 1)
  <2>1. j \in 1 .. Len(prims) /\ j \in 1 .. Len(prims) + 1 /\ j + 1 = i + 2
    BY <1>2
  <2>2. ok(j)
    BY <1>6, <2>1
  <2>3. /\ IsList(b) /\ Len(b) = Len(FreshRows(f, prims[j], t, options))
        /\ \A n \in 1 .. Len(FreshRows(f, prims[j], t, options)) :
             b[n].row = FreshRows(f, prims[j], t, options)[n]
    <3>1. prims[j] \in Composed(f, options)
      BY <1>2, <2>1
    <3> HIDE DEF j
    <3> QED BY <1>2, <3>1, BlockFacts
  <2>4. IsList(old) /\ u = old \o b
    BY <1>3, <1>4, <2>1
  <2> HIDE DEF old, b, u
  <2>5. Joins(old, b, u)
    <3>1. Joins(old, b, old \o b)
      BY <2>3, <2>4, ConcatJoins
    <3> QED BY <2>4, <3>1
  <2>6. IsList(u) /\ DOMAIN u = 1 .. Len(u)
    BY <2>5, ListFacts DEF Joins
  <2>7. ASSUME NEW n \in 1 .. Len(u) PROVE OfPrim(f, prims, u[n], t)
    <3>1. CASE n \in 1 .. Len(old)
      <4>1. u[n] = old[n]
        BY <2>5, <3>1 DEF Joins
      <4>2. OfPrim(f, prims, old[n], t)
        BY <2>2, <3>1 DEF old
      <4> QED BY <4>1, <4>2
    <3>2. CASE \E m \in 1 .. Len(b) : n = Len(old) + m
      <4>1. PICK m \in 1 .. Len(b) : n = Len(old) + m
        BY <3>2
      <4>2. u[n] = b[m]
        BY <2>5, <4>1 DEF Joins
      <4>3. m \in 1 .. Len(FreshRows(f, prims[j], t, options)) /\ b[m].row = FreshRows(f, prims[j], t, options)[m]
        BY <2>3
      <4> HIDE DEF j
      <4> QED BY <2>1, <4>2, <4>3 DEF OfPrim
    <3> QED BY <2>5, <2>6, <3>1, <3>2 DEF Joins
  <2>8. ok(j + 1)
    BY <2>7 DEF u
  <2> QED BY <2>1, <2>8
<1> HIDE DEF ok
<1>7. \A i \in Nat : i \in S
  <2> HIDE DEF S
  <2> QED BY <1>5, <1>6, EveryNumber
<1>8. ASSUME NEW i \in 1 .. Len(prims) + 1 PROVE ok(i)
  <2>1. i - 1 \in Nat /\ (i - 1) + 1 = i
    BY <1>2
  <2> QED BY <1>7, <2>1
<1> QED BY <1>8 DEF ok, p, t

\* A producer of its own starts with no rows.
LEMMA FreshSound ==
    ASSUME call.function \in PrimFunctions, NEW f \in DOMAIN Stages, NEW o, NEW t
    PROVE  LET fresh == SetTime(call.function, FreshProducer(f, o), t)
           IN  Sound(call.function, fresh, f, o) /\ fresh.rows = <<>>
<1> DEFINE fn == call.function
           none == NewProducer(o, Function.columns)
           begun == BeginStage(fn, none, f)
           fresh == SetTime(fn, begun, t)
<1>1. Bare(fn, none)
  BY NewIsBare
<1> HIDE DEF none
<1>2. Sound(fn, begun, f, o) /\ begun.rows = <<>>
  <2>1. Begins(fn, begun, f, o) /\ begun.rows = Begun(fn, f)
    BY <1>1, BeginOK
  <2>2. Begun(fn, f) = <<>>
    BY DEF Begun, PrimFunctions
  <2> QED BY <2>1, <2>2 DEF Begins
<1> HIDE DEF begun
<1>3. Sound(fn, fresh, f, o)
  BY <1>2, SetTimeOK
<1>4. fresh.rows = <<>>
  <2>1. \A x \in Fields \ {"time", "spaces"} : fresh[x] = begun[x]
    BY <1>2, SetTimeOK
  <2> HIDE DEF fresh
  <2> QED BY <1>2, <2>1 DEF Fields
<1> QED BY <1>3, <1>4 DEF FreshProducer, fresh, begun, none

\* The columns of a row of an arc, of the n-th that is shown of a prim
ArcRow(f, q, row, own, n, o) ==
    /\ row["prim_path"] = q /\ row["arc_index"] = n - 1
    /\ row["arc"] = [own EXCEPT !.introducing_prim_path = Null]
    /\ \/ row["introducing_prim_path"] = own.introducing_prim_path
       \/ Unmappable(f, q, n, o)

\* The path of a row is mapped unless it is excepted.
LEMMA MappedUnless ==
    ASSUME NEW o, IsList(o.mask_path), NEW f \in DOMAIN Stages, NEW q \in Composed(f, o),
           "proxy" \in Prim(f, q).flags, NEW n, ~Unmappable(f, q, n, o)
    PROVE  LET index == IndexPath(f, o, q)
           IN  Mapped(Wanted(o, Prim(f, index).arcs)[n], Prim(f, index).instance, Prim(f, q).instance)
<1> DEFINE index == IndexPath(f, o, q)
           S == Prim(f, index).instance
           I == Prim(f, q).instance
           x == Beyond(q, Len(I))
           arc == Wanted(o, Prim(f, index).arcs)[n]
           source == SubSeq(index, 1, Len(index) - Len(q) + Len(I))
<1>1. Inside(index, S, q, I, x)
  BY SourceArcs
<1> HIDE DEF index, S, x
<1>2. Shorter(index, Len(x)) = S
  BY <1>1, InstancesAre
<1>3. Len(index) - Len(q) + Len(I) = Len(index) - Len(x)
  <2>1. /\ Len(index) \in Nat /\ Len(q) \in Nat /\ Len(I) \in Nat /\ Len(x) \in Nat
        /\ Len(q) = Len(I) + Len(x)
    BY <1>1, ListFacts DEF Inside
  <2> HIDE DEF I
  <2> QED BY <2>1
<1>4. source = S
  BY <1>2, <1>3 DEF Shorter
<1>5. /\ arc.in_root_layer
      /\ ~(~IsPrefix(source, arc.introducing_prim_path) /\ Last(source) = Last(I))
  BY DEF Unmappable, index
<1> HIDE DEF source, arc, I
<1>6. Mapped(arc, S, I)
  BY <1>4, <1>5 DEF Mapped
<1> QED BY <1>6 DEF arc, I, S, index

\* A producer of its own makes a row of each arc that is shown of a prim.
LEMMA FreshArcs ==
    ASSUME call \in Calls, call.function = "usd_composition_arcs", NEW o, IsList(o.mask_path),
           NEW f \in DOMAIN Stages, NEW q \in Composed(f, o), NEW t
    PROVE  LET rows == FreshRows(f, q, t, o)
               own == Wanted(o, Prim(f, q).arcs)
           IN  /\ Len(rows) = Len(own)
               /\ \A n \in 1 .. Len(rows) : ArcRow(f, q, rows[n], own[n], n, o)
<1> DEFINE fn == "usd_composition_arcs"
           fresh == SetTime(fn, FreshProducer(f, o), t)
           a == AddPrim(fn, fresh, f, q, o)
           rows == FreshRows(f, q, t, o)
           own == Wanted(o, Prim(f, q).arcs)
           index == IndexPath(f, o, q)
           arcs == Wanted(o, Prim(f, index).arcs)
           S == Prim(f, index).instance
           I == Prim(f, q).instance
           C == {"prim_path", "arc_index", "arc", "introducing_prim_path"}
<1>1. Sound(fn, fresh, f, o) /\ fresh.rows = <<>>
  <2>1. call.function \in PrimFunctions
    BY DEF PrimFunctions
  <2> QED BY <2>1, FreshSound
<1>2. C \subseteq Function.columns
  BY FunctionsAssumption DEF Function
<1>3. rows = WrittenRows(a, f, o)
  <2>1. rows = WrittenRows(FreshDone(f, q, t, o), f, o)
    BY FreshRowsIs DEF FreshIs
  <2>2. FreshDone(f, q, t, o) = a
    BY DEF FreshDone
  <2> HIDE DEF rows, a
  <2> QED BY <2>1, <2>2
<1> HIDE DEF fresh
<1>4. /\ IsList(a.rows) /\ Len(a.rows) = Len(own) /\ Len(own) \in Nat
      /\ \A n \in 1 .. Len(own) :
           /\ ShowsArc(a, a.rows[n], f, q, o, own[n], n)
           /\ \/ "proxy" \notin Prim(f, q).flags
              \/ Mapped(arcs[n], S, I)
              => Write(fn, a, f, a.rows[n], "introducing_prim_path", o) = own[n].introducing_prim_path
  BY <1>1, OwnArcs
<1>5. DOMAIN a.rows = 1 .. Len(own)
  <2> HIDE DEF a, own
  <2> QED BY <1>4, ListFacts
<1> HIDE DEF a, rows, own, arcs, S, I
<1>6. rows = [n \in 1 .. Len(own) |-> [c \in Function.columns |-> Write(fn, a, f, a.rows[n], c, o)]]
  BY <1>3, <1>5 DEF WrittenRows
<1>7. Len(rows) = Len(own)
  <2>1. rows = [n \in 1 .. Len(own) |-> rows[n]]
    BY <1>6
  <2> QED BY <1>4, <2>1, FunctionIsList
<1>8. ASSUME NEW n \in 1 .. Len(rows) PROVE ArcRow(f, q, rows[n], own[n], n, o)
  <2>1. \A c \in C : rows[n][c] = Write(fn, a, f, a.rows[n], c, o)
    BY <1>2, <1>6, <1>7
  <2>2. /\ rows[n]["prim_path"] = q /\ rows[n]["arc_index"] = n - 1
        /\ rows[n]["arc"] = [own[n] EXCEPT !.introducing_prim_path = Null]
    BY <1>4, <1>7, <2>1 DEF ShowsArc, ArcShown
  <2>3. "proxy" \in Prim(f, q).flags /\ ~Unmappable(f, q, n, o) => Mapped(arcs[n], S, I)
    BY MappedUnless DEF arcs, S, I
  <2>4. \/ rows[n]["introducing_prim_path"] = own[n].introducing_prim_path
        \/ Unmappable(f, q, n, o)
    BY <1>4, <1>7, <2>1, <2>3
  <2> QED BY <2>2, <2>4 DEF ArcRow
<1> QED BY <1>7, <1>8 DEF rows, own

\* The rows of a chunk are among those that were made of the morsel.
ReturnsOK ==
    chunk.rows # <<>> =>
        /\ pc = "fill"
        /\ chunk.index = morsel.index /\ chunk.prims = morsel.prims
        /\ \A i \in DOMAIN chunk.rows : chunk.first + i - 1 \in 1 .. row_offset

\* There is no chunk at the start.
LEMMA ReturnsInit == Init => ReturnsOK
BY DEF Init, NoChunk, ReturnsOK

\* Only Emit makes one, and it is gone with the morsel.
LEMMA ReturnsNext == CallInv /\ ReturnsOK /\ [Next]_vars => ReturnsOK'
<1> SUFFICES ASSUME CallInv, ReturnsOK, [Next]_vars PROVE ReturnsOK'
  OBVIOUS
<1>1. CASE Emit
  <2> DEFINE count == IF Available < VectorSize THEN Available ELSE VectorSize
  <2>1. Filling
    BY <1>1 DEF Emit, CallInv, ScanInv
  <2>2. row_offset \in 0 .. Len(producer.rows) /\ IsList(producer.rows)
    BY <2>1 DEF Filling, HasRows, Shows
  <2>3. row_offset \in Nat /\ count \in Int
    <3>1. Len(producer.rows) \in Nat
      BY <2>2, ListFacts
    <3> QED BY <2>2, <3>1, SizesAssumption DEF Available
  <2>4. /\ pc = "fill" /\ pc' = pc /\ morsel' = morsel /\ row_offset' = row_offset + count
        /\ chunk'.index = morsel.index /\ chunk'.prims = morsel.prims /\ chunk'.first = row_offset + 1
        /\ DOMAIN chunk'.rows = 1 .. count
    BY <1>1 DEF Emit, bindVars, binding
  <2> HIDE DEF count
  <2>5. \A i \in 1 .. count : row_offset + 1 + i - 1 \in 1 .. row_offset + count
    BY <2>3
  <2> QED BY <2>4, <2>5 DEF ReturnsOK
<1>2. CASE Exhausted
  BY <1>2 DEF Exhausted, NoChunk, ReturnsOK
<1>3. CASE Fill \/ Ended \/ UNCHANGED vars
  <2>1. UNCHANGED <<pc, morsel, chunk, row_offset>>
    BY <1>3 DEF Fill, Ended, vars, bindVars, binding, scanning
  <2> QED BY <2>1 DEF ReturnsOK
<1>4. CASE Bind \/ Change \/ Pushdown \/ InitScan \/ TakeMorsel \/ OpenFile \/ NoMoreFiles
  <2>1. pc # "fill" \/ (pc' = pc /\ UNCHANGED <<morsel, chunk, row_offset>>)
    BY <1>4 DEF Bind, BindStep, BindCall, ListEntry, ReportEntry, ValidateFile, FinishBind, AcceptFile,
                Change, ChangeFile, Pushdown, InitScan, Planned, TakeMorsel, OpenFile, NoMoreFiles, bindVars, binding, scanning
  <2>2. chunk' = chunk
    BY <1>4 DEF Bind, Change, Pushdown, InitScan, TakeMorsel, OpenFile, NoMoreFiles, scanning
  <2> QED BY <2>1, <2>2 DEF ReturnsOK
<1> QED BY <1>1, <1>2, <1>3, <1>4 DEF Next

\* A row that a chunk returns is a row that a producer of its own makes of a prim.
LEMMA ReturnedRow ==
    ASSUME CallInv, ReturnsOK, ~StageUnit, options.times = <<>>, NEW i \in DOMAIN chunk.rows
    PROVE  LET f == files[chunk.index]
           IN  /\ PrimsOK(f, chunk.prims)
               /\ OfPrim(f, chunk.prims, Expected(f, chunk.prims)[chunk.first + i - 1], options.time)
<1> DEFINE f == files[morsel.index]
           prims == morsel.prims
           n == chunk.first + i - 1
           list == Progress(f, prims, 1, next_prim)
<1>1. chunk.rows # <<>>
  OBVIOUS
<1>2. pc = "fill" /\ chunk.index = morsel.index /\ chunk.prims = prims /\ n \in 1 .. row_offset
  BY <1>1 DEF ReturnsOK
<1>3. Filling /\ call \in Calls /\ OptionsOK
  BY <1>2 DEF CallInv, ScanInv, BaseInv, BInv
<1>4. /\ PrimsOK(f, prims) /\ next_prim \in 1 .. Len(prims) + 1
      /\ time_index \in 1 .. Len(Times(options)) /\ row_offset \in 0 .. Len(producer.rows)
      /\ Shows(call.function, ProducerColumns, options, f, producer, row_times,
               Progress(f, prims, time_index, next_prim))
  BY <1>3 DEF Filling, HasMorsel, HasRows
<1>5. IsList(options.times) /\ IsList(options.mask_path) /\ call.function \in PrimFunctions
  BY <1>3, UnitFacts DEF OptionsOK
<1>6. Len(Times(options)) = 1 /\ Times(options)[1] = options.time
  BY <1>5, TimesFacts
<1>7. time_index = 1
  BY <1>4, <1>6
<1>8. IsList(producer.rows) /\ Len(producer.rows) = Len(list)
  BY <1>4, <1>7 DEF Shows
<1> HIDE DEF n, list
<1>9. n \in 1 .. Len(list)
  <2>1. Len(producer.rows) \in Nat
    BY <1>8, ListFacts
  <2> QED BY <1>2, <1>4, <1>8, <2>1
<1>10. Expected(f, prims)[n] = list[n]
  <2>1. 1 \in 1 .. Len(Times(options))
    BY <1>6
  <2> QED BY <1>4, <1>5, <1>9, <2>1, ProgressFacts DEF list
<1>11. OfPrim(f, prims, list[n], options.time)
  BY <1>4, <1>5, <1>6, <1>9, ProgressOfPrims DEF list
<1> QED BY <1>2, <1>4, <1>10, <1>11 DEF n

\* usd_composition_arcs returns all arcs of each prim, with the path of the prim that
\* introduces them; a prim inside an instance has those of its own instance, although
\* OpenUSD shares one prim index between instances, and the producer keeps the arcs of
\* one of them (usd_composition_arcs.cpp:125; docs/functions.md:297).
THEOREM ReadsOwnArcs == Spec => []ArcsAreTheirOwn
<1>1. CallInv /\ ReturnsOK => ArcsAreTheirOwn
  <2> DEFINE C == {"prim_path", "arc_index", "arc", "introducing_prim_path"}
             f == files[chunk.index]
             own(q) == Wanted(options, Prim(f, q).arcs)
             e == Expected(f, chunk.prims)
  <2> SUFFICES ASSUME CallInv, ReturnsOK, call.function = "usd_composition_arcs", chunk.rows # <<>>,
                      C \subseteq call.columns
               PROVE  /\ \A q \in ToSet(chunk.prims) : Len(FreshRows(f, q, Null, options)) = Len(own(q))
                      /\ \A i \in DOMAIN chunk.rows :
                           LET row == chunk.rows[i]
                               n == row.arc_index + 1
                               arc == own(row.prim_path)[n]
                           IN  /\ row.arc = [arc EXCEPT !.introducing_prim_path = Null]
                               /\ row.introducing_prim_path = arc.introducing_prim_path
                                    \/ Unmappable(f, row.prim_path, n, options)
    BY DEF ArcsAreTheirOwn
  <2>1. call \in Calls /\ OptionsOK /\ Filling
    BY DEF ReturnsOK, CallInv, ScanInv, BaseInv, BInv
  <2>2. ~StageUnit /\ options.times = <<>> /\ IsList(options.mask_path)
    BY <2>1, UnitFacts DEF OptionsOK, TimedFunctions, PrimFunctions
  <2>3. \A i \in DOMAIN chunk.rows : PrimsOK(f, chunk.prims) /\ OfPrim(f, chunk.prims, e[chunk.first + i - 1], options.time)
    BY <2>2, ReturnedRow
  <2>4. PrimsOK(f, chunk.prims)
    BY <2>1 DEF ReturnsOK, Filling, HasMorsel
  <2>5. /\ f \in DOMAIN Stages /\ \A q \in ToSet(chunk.prims) : q \in Composed(f, options)
        /\ \A k \in 1 .. Len(chunk.prims) : chunk.prims[k] \in Composed(f, options)
    BY <2>4, ListFacts DEF PrimsOK
  <2>6. ASSUME NEW q \in Composed(f, options), NEW t
        PROVE  /\ Len(FreshRows(f, q, t, options)) = Len(own(q))
               /\ \A n \in 1 .. Len(FreshRows(f, q, t, options)) :
                    ArcRow(f, q, FreshRows(f, q, t, options)[n], own(q)[n], n, options)
    <3> HIDE DEF f
    <3> QED BY <2>1, <2>2, <2>5, <2>6, FreshArcs
  <2>7. C \subseteq Function.columns /\ "time" \notin C /\ "filename" \notin C
    <3>1. C \subseteq Function.columns
      BY <2>1, FunctionsAssumption DEF Function
    <3> QED BY <3>1
  <2>8. ASSUME NEW i \in DOMAIN chunk.rows
        PROVE  LET row == chunk.rows[i]
                   n == row.arc_index + 1
                   arc == own(row.prim_path)[n]
               IN  /\ row.arc = [arc EXCEPT !.introducing_prim_path = Null]
                   /\ row.introducing_prim_path = arc.introducing_prim_path
                        \/ Unmappable(f, row.prim_path, n, options)
    <3> DEFINE row == chunk.rows[i]
               x == e[chunk.first + i - 1]
    <3>1. PICK k \in 1 .. Len(chunk.prims) :
            \E m \in 1 .. Len(FreshRows(f, chunk.prims[k], options.time, options)) :
              x.row = FreshRows(f, chunk.prims[k], options.time, options)[m]
      BY <2>3 DEF OfPrim
    <3> DEFINE q == chunk.prims[k]
    <3>2. PICK m \in 1 .. Len(FreshRows(f, q, options.time, options)) :
              x.row = FreshRows(f, q, options.time, options)[m]
      BY <3>1
    <3>3. q \in Composed(f, options)
      BY <2>5
    <3>4. ArcRow(f, q, x.row, own(q)[m], m, options)
      BY <2>6, <3>2, <3>3
    <3>5. \A c \in C : row[c] = x.row[c]
      <4>1. RowsShown
        BY <2>1 DEF Filling
      <4>2. \A c \in C : row[c] = Shown(x, c, f)
        BY <4>1 DEF RowsShown
      <4> QED BY <2>7, <4>2 DEF Shown
    <3>6. row.prim_path = q /\ row.arc_index = m - 1 /\ (m - 1) + 1 = m
      BY <3>2, <3>4, <3>5 DEF ArcRow
    <3> QED BY <3>4, <3>5, <3>6 DEF ArcRow
  <2> QED BY <2>5, <2>6, <2>8
<1> QED BY <1>1, CallInvariant, ReturnsInit, ReturnsNext, PTL DEF Spec

-----------------------------------------------------------------------------
(* The rows of a subtree are those of the same prims of the whole stage. *)

\* The subtree that is asked for, the options without it, and options that differ in it
Subtree == IF "root" \in DOMAIN call.parameters THEN call.parameters.root ELSE <<>>
Whole == [options EXCEPT !.mask_path = <<>>]
Unmasked(o, w) ==
    /\ \A x \in OptionNames \ {"mask_path"} : w[x] = o[x]
    /\ o.root = o.mask_path /\ w.mask_path = <<>>

\* The mask of a scan is the root that the call gives, and so is the root of its traversal.
LEMMA SubtreeFacts ==
    ASSUME BoundInv, pc = "plan"
    PROVE  options.root = Subtree /\ options.mask_path = Subtree /\ Unmasked(options, Whole)
<1> DEFINE p == call.parameters
           g == Given(p)
           fn == call.function
<1>1. options = BindOptions(p) /\ DOMAIN p \subseteq AcceptedOptions(Functions[fn]) /\ call \in Calls
  BY DEF BoundInv
<1>2. "mask_path" \notin DOMAIN p
  <2>1. {"time", "times", "mask_path"} \cap Functions[fn].options = {}
    BY <1>1, FunctionsAssumption
  <2> QED BY <1>1, <2>1 DEF AcceptedOptions, SharedOptions
<1>3. g = [x \in OptionNames |-> IF x \in DOMAIN p THEN p[x] ELSE DefaultOptions[x]]
  BY DefaultNames DEF Given
<1> HIDE DEF g
<1>4. g.mask_path = <<>> /\ g.root = Subtree
  BY <1>2, <1>3 DEF OptionNames, DefaultOptions, Subtree
<1> HIDE DEF p
<1>5. options = [x \in OptionNames |->
                   IF x = "mask_path" /\ "root" \in DOMAIN p THEN p["root"]
                   ELSE IF x = "material_purpose" /\ g.material_purpose = "allPurpose" THEN ""
                   ELSE g[x]]
  BY <1>1, <1>3 DEF BindOptions, BindMaterialPurpose, ParseScanOptions, OptionNames, g
<1>6. options.root = Subtree
  BY <1>4, <1>5 DEF OptionNames
<1>7. options.mask_path = Subtree
  BY <1>4, <1>5 DEF OptionNames, Subtree, p
<1>8. Unmasked(options, Whole)
  <2>1. DOMAIN options = OptionNames
    BY <1>5
  <2>2. \A x \in OptionNames \ {"mask_path"} : Whole[x] = options[x]
    BY <2>1 DEF Whole
  <2>3. Whole.mask_path = <<>>
    BY <2>1 DEF Whole, OptionNames
  <2> QED BY <1>6, <1>7, <2>2, <2>3 DEF Unmasked
<1> QED BY <1>6, <1>7, <1>8

\* Below the mask, the same prims are composed.
LEMMA ComposedBelow ==
    ASSUME NEW f \in DOMAIN Stages, NEW o, NEW w, Unmasked(o, w)
    PROVE  /\ \A q \in Paths(f) : IsPrefix(o.mask_path, q) => (q \in Composed(f, o) <=> q \in Composed(f, w))
           /\ Composed(f, o) \subseteq Composed(f, w)
<1>1. \A q \in Paths(f) : IsPrefix(w.mask_path, q)
  <2> SUFFICES ASSUME NEW q \in Paths(f) PROVE IsPrefix(<<>>, q)
    BY DEF Unmasked
  <2>1. IsList(q)
    BY StagesAssumption
  <2> QED BY <2>1, EmptyIsList, PrefixIs
<1>2. w.load_payloads = o.load_payloads
  BY DEF Unmasked, OptionNames
<1> QED BY <1>1, <1>2 DEF Composed

\* The traversal of a subtree visits what is in it of the traversal without the mask.
LEMMA TraversalSelects ==
    ASSUME NEW f \in DOMAIN Stages, NEW o, NEW w, Unmasked(o, w)
    PROVE  StartTraversal(f, o) = Among(StartTraversal(f, w), {q \in Paths(f) : IsPrefix(o.mask_path, q)})
<1> DEFINE below == {q \in Paths(f) : IsPrefix(o.mask_path, q)}
           clear(q, x) == \A r \in Prefixes(q) \ {<<>>} :
                            IsPrefix(x.root, r) => Prim(f, r).flags \cap Hidden(x) = {}
           S(x) == {q \in Paths(f) : q \in Composed(f, x) /\ IsPrefix(x.root, q) /\ clear(q, x)}
<1>1. \A x : StartTraversal(f, x) = Among(Stages[f].order, S(x))
  BY DEF StartTraversal
<1>2. w.root = o.root /\ Hidden(w) = Hidden(o)
  BY DEF Unmasked, OptionNames, Hidden
<1>3. \A q \in Paths(f) : clear(q, o) <=> clear(q, w)
  BY <1>2
<1> HIDE DEF clear
<1>4. S(o) = S(w) \cap below
  BY <1>2, <1>3, ComposedBelow DEF Unmasked
<1> HIDE DEF S, below
<1>5. Stages[f].order \in Seq(ToSet(Stages[f].order))
  BY StagesAssumption DEF IsList
<1>6. Among(Among(Stages[f].order, S(w)), below) = Among(Stages[f].order, S(w) \cap below)
  BY <1>5, AmongTwice
<1> QED BY <1>1, <1>4, <1>6 DEF below

\* Files are accepted when they can be read as stages.
StagedOK == ToSet(files) \subseteq DOMAIN Stages

\* None is accepted at the start.
LEMMA StagedInit == Init => StagedOK
BY EmptyIsList DEF Init, BindInit, StagedOK

\* Only ValidateFile accepts one.
LEMMA StagedNext == BaseInv /\ StagedOK /\ [Next]_vars => StagedOK'
<1> SUFFICES ASSUME BaseInv, StagedOK, [Next]_vars PROVE StagedOK'
  OBVIOUS
<1>1. CASE files' = files
  BY <1>1 DEF StagedOK
<1>2. CASE ValidateFile
  <2> DEFINE f == Head(listed)
  <2>1. pc = "bind" /\ listed # <<>> /\ AcceptFile(f, Append(files, f))
    BY <1>2 DEF ValidateFile
  <2>2. files \in Seq(CallFiles) /\ listed \in Seq(CallFiles)
    BY <2>1 DEF BaseInv, BInv, BindOK
  <2>3. f \in CallFiles
    BY <2>1, <2>2, HeadAndTail
  <2> HIDE DEF f
  <2>4. CASE ValidatePath(f) = "none"
    <3>1. state[f] = "usd"
      <4>1. state[f] \in FileStates
        BY <2>3 DEF BaseInv, FilesOK
      <4> QED BY <2>4, <4>1 DEF ValidatePath, FileStates
    <3>2. f \in DOMAIN Stages
      <4>1. "usd" \in Files[f]
        BY <2>3, <3>1 DEF BaseInv, FilesOK
      <4>2. f \in DOMAIN Files
        BY <2>3, CallFilesExist DEF BaseInv, BInv
      <4> QED BY <4>1, <4>2, StagesAssumption
    <3>3. files' = Append(files, f)
      BY <2>1, <2>4 DEF AcceptFile
    <3>4. ToSet(Append(files, f)) = ToSet(files) \cup {f}
      BY <2>2, <2>3, AppendElements
    <3> QED BY <3>2, <3>3, <3>4 DEF StagedOK
  <2>5. CASE ValidatePath(f) # "none"
    BY <1>1, <2>1, <2>5 DEF AcceptFile
  <2> QED BY <2>4, <2>5
<1>3. CASE BindCall \/ ListEntry \/ ReportEntry \/ FinishBind
  BY <1>1, <1>3 DEF BindCall, ListEntry, ReportEntry, FinishBind, AcceptFile
<1>4. CASE Change \/ Pushdown \/ Fill \/ Emit \/ InitScan \/ Exhausted \/ TakeMorsel \/ NoMoreFiles
  BY <1>1, <1>4 DEF Change, ChangeFile, Pushdown, Fill, Emit, InitScan, Exhausted, TakeMorsel, NoMoreFiles,
                    bindVars, binding
<1>5. CASE OpenFile
  BY <1>1, <1>5 DEF OpenFile
<1>6. CASE Ended \/ UNCHANGED vars
  BY <1>1, <1>6 DEF Ended, vars, bindVars, binding
<1> QED BY <1>2, <1>3, <1>4, <1>5, <1>6 DEF Next, Bind, BindStep

\* A new producer does not know of the mask, and neither does a row that is written.
LEMMA StartUnmasked ==
    ASSUME NEW o, NEW w, Unmasked(o, w), NEW f, NEW t
    PROVE  SetTime(call.function, FreshProducer(f, w), t) = SetTime(call.function, FreshProducer(f, o), t)
<1>1. w.time = o.time
  BY DEF Unmasked, OptionNames
<1>2. \A C : NewProducer(w, C) = NewProducer(o, C)
  BY <1>1 DEF NewProducer
<1> QED BY <1>2 DEF FreshProducer

\* The columns of a row are those with the mask.
LEMMA WriteUnmasked ==
    ASSUME NEW fn, NEW o, NEW w, Unmasked(o, w), NEW f, NEW pr, NEW row, NEW c
    PROVE  Write(fn, pr, f, row, c, w) = Write(fn, pr, f, row, c, o)
<1>1. w.max_array_length = o.max_array_length
  BY DEF Unmasked, OptionNames
<1>2. \A v : WriteValue(v, w) = WriteValue(v, o)
  BY <1>1 DEF WriteValue
<1>3. PropertiesWrite(f, row, c, w) = PropertiesWrite(f, row, c, o)
  BY <1>2 DEF PropertiesWrite
<1>4. TimeSamplesWrite(f, row, c, w) = TimeSamplesWrite(f, row, c, o)
  BY <1>3 DEF TimeSamplesWrite
<1> QED BY <1>3, <1>4 DEF Write

\* The box of a prim holds what is below it, which is below the root.
LEMMA BoundsUnmasked ==
    ASSUME NEW f \in DOMAIN Stages, NEW o, NEW w, Unmasked(o, w), IsList(o.mask_path),
           NEW q \in Paths(f), IsPrefix(o.mask_path, q), NEW pr
    PROVE  BoundsAddPrim(pr, f, q, w) = BoundsAddPrim(pr, f, q, o)
<1> DEFINE inside(x) == {r \in Composed(f, x) : IsPrefix(q, r)}
           below(x) == {r \in Composed(f, x) :
                         /\ IsPrefix(q, r)
                         /\ Prim(f, r).purpose \in ToSet(x.purposes)
                         /\ \A s \in Prefixes(r) \ {r} : IsPrefix(q, s) /\ s # <<>> =>
                              ~(x.use_extents_hint /\ "extents_hint" \in Prim(f, s).kinds)}
           needed(B) == B \cup (Prefixes(q) \ {<<>>})
           spaces(B) == Cached(pr, f, needed(B))
           rest(B) == IF "imageable" \in Prim(f, q).kinds
                      THEN Buffered([pr EXCEPT !.spaces = spaces(B)],
                                    <<[prim |-> q, time |-> pr.time,
                                       range |-> IF B = {} THEN {}
                                                 ELSE {spaces(B)[<<f, r>>] : r \in needed(B)}]>>)
                      ELSE pr
<1>1. \A x : BoundsAddPrim(pr, f, q, x) = rest(below(x))
  BY DEF BoundsAddPrim
<1>2. inside(w) = inside(o)
  <2>1. ASSUME NEW r \in Paths(f), IsPrefix(q, r) PROVE IsPrefix(o.mask_path, r)
    <3>1. IsList(q) /\ IsList(r)
      BY StagesAssumption
    <3> QED BY <2>1, <3>1, PrefixOrder
  <2>2. Composed(f, o) \subseteq Paths(f) /\ Composed(f, w) \subseteq Paths(f)
    BY DEF Composed
  <2> QED BY <2>1, <2>2, ComposedBelow
<1>3. w.purposes = o.purposes /\ w.use_extents_hint = o.use_extents_hint
  BY DEF Unmasked, OptionNames
<1>4. below(w) = below(o)
  <2> DEFINE good(r) == /\ Prim(f, r).purpose \in ToSet(o.purposes)
                        /\ \A s \in Prefixes(r) \ {r} : IsPrefix(q, s) /\ s # <<>> =>
                              ~(o.use_extents_hint /\ "extents_hint" \in Prim(f, s).kinds)
  <2>1. below(o) = {r \in inside(o) : good(r)} /\ below(w) = {r \in inside(w) : good(r)}
    <3>1. below(o) = {r \in inside(o) : good(r)}
      OBVIOUS
    <3>2. below(w) = {r \in inside(w) : good(r)}
      BY <1>3
    <3> QED BY <3>1, <3>2
  <2> HIDE DEF below, inside, good
  <2> QED BY <1>2, <2>1
<1> HIDE DEF below, rest
<1> QED BY <1>1, <1>4

\* The targets of a relationship that are not forwarded are those that are authored.
LEMMA RelationshipsUnmasked ==
    ASSUME NEW f, NEW o, NEW w, Unmasked(o, w), ~o.forwarded, NEW q, NEW pr
    PROVE  RelationshipsAddPrim(pr, f, q, w) = RelationshipsAddPrim(pr, f, q, o)
<1> DEFINE all == Prim(f, q).relationships
           targets(r) == [i \in DOMAIN r.targets |-> r.targets[i].prim]
           rows(r) == [i \in DOMAIN targets(r) |->
                         [prim |-> q, relationship_name |-> r.name,
                          target_path |-> targets(r)[i], target_index |-> i - 1]]
           new == FlattenSeq([i \in DOMAIN all |-> rows(all[i])])
<1>1. ~w.forwarded
  BY DEF Unmasked, OptionNames
<1>2. RelationshipsAddPrim(pr, f, q, o) = Buffered(pr, new)
  BY DEF RelationshipsAddPrim
<1>3. RelationshipsAddPrim(pr, f, q, w) = Buffered(pr, new)
  BY <1>1 DEF RelationshipsAddPrim
<1> QED BY <1>2, <1>3

\* The functions whose rows say nothing of prims that the mask hides
Unaware == PrimFunctions \ {"usd_material_bindings", "usd_composition_arcs"}

\* They add the same rows without it.
LEMMA AddUnmasked ==
    ASSUME NEW fn \in Unaware, NEW f \in DOMAIN Stages, NEW o, NEW w, Unmasked(o, w),
           IsList(o.mask_path), fn = "usd_relationships" => ~o.forwarded,
           NEW q \in Paths(f), IsPrefix(o.mask_path, q), NEW pr
    PROVE  AddPrim(fn, pr, f, q, w) = AddPrim(fn, pr, f, q, o)
<1>1. w.authored_only = o.authored_only /\ w.start_time = o.start_time /\ w.end_time = o.end_time
  BY DEF Unmasked, OptionNames
<1>2. CASE fn = "usd_prims"
  BY <1>2 DEF AddPrim, PrimsAddPrim
<1>3. CASE fn = "usd_properties"
  <2>1. PropertiesAddPrim(pr, f, q, w) = PropertiesAddPrim(pr, f, q, o)
    BY <1>1 DEF PropertiesAddPrim
  <2> QED BY <1>3, <2>1 DEF AddPrim
<1>4. CASE fn = "usd_time_samples"
  <2>1. TimeSamplesAddPrim(pr, f, q, w) = TimeSamplesAddPrim(pr, f, q, o)
    BY <1>1 DEF TimeSamplesAddPrim
  <2> QED BY <1>4, <2>1 DEF AddPrim
<1>5. CASE fn = "usd_relationships"
  BY <1>5, RelationshipsUnmasked DEF AddPrim
<1>6. CASE fn = "usd_variants"
  BY <1>6 DEF AddPrim, VariantsAddPrim
<1>7. CASE fn = "usd_xforms"
  BY <1>7 DEF AddPrim, XformsAddPrim
<1>8. CASE fn = "usd_bounds"
  BY <1>8, BoundsUnmasked DEF AddPrim
<1> QED BY <1>2, <1>3, <1>4, <1>5, <1>6, <1>7, <1>8 DEF Unaware, PrimFunctions

\* So a producer of its own returns the same rows.
LEMMA FreshUnmasked ==
    ASSUME call.function \in Unaware, NEW f \in DOMAIN Stages, NEW o, NEW w, Unmasked(o, w),
           IsList(o.mask_path), call.function = "usd_relationships" => ~o.forwarded,
           NEW q \in Paths(f), IsPrefix(o.mask_path, q), NEW t
    PROVE  FreshRows(f, q, t, w) = FreshRows(f, q, t, o)
<1>1. FreshDone(f, q, t, w) = FreshDone(f, q, t, o)
  BY StartUnmasked, AddUnmasked DEF FreshDone
<1>2. \A p : WrittenRows(p, f, w) = WrittenRows(p, f, o)
  BY WriteUnmasked DEF WrittenRows
<1>3. \A x : FreshRows(f, q, t, x) = WrittenRows(FreshDone(f, q, t, x), f, x)
  BY FreshRowsIs DEF FreshIs
<1> QED BY <1>1, <1>2, <1>3

\* The row of a material that is bound to q
BoundRow(f, o, q, d) ==
    [prim |-> q, binding |-> d,
     material_found |-> /\ d.binding.material \in Composed(f, o)
                        /\ "material" \in Prim(f, d.binding.material).kinds]
BoundRows(f, o, q, bound) == [i \in DOMAIN bound |-> BoundRow(f, o, q, bound[i])]

\* The columns of the row of a material, with the mask and without it
MaterialAlike(f, o, row, other) ==
    \A c \in Function.columns :
      \/ BindingsWrite(row, c) = BindingsWrite(other, c)
      \/ c = "material_found" /\ ~IsPrefix(o.mask_path, BindingsWrite(row, "material_path"))

\* Whether the material is found depends on the mask, if it is hidden.
LEMMA MaterialUnmasked ==
    ASSUME call \in Calls, call.function = "usd_material_bindings",
           NEW f \in DOMAIN Stages, NEW o, NEW w, Unmasked(o, w), NEW q, NEW d
    PROVE  MaterialAlike(f, o, BoundRow(f, o, q, d), BoundRow(f, w, q, d))
<1> DEFINE r == BoundRow(f, o, q, d)
           s == BoundRow(f, w, q, d)
           m == d.binding.material
<1>1. Function.columns = {"prim_path", "material_path", "material_found", "binding_type",
                          "collection_path", "binding_prim_path", "inherited", "strength",
                          "material_purpose"}
  BY FunctionsAssumption DEF Function
<1>2. r.prim = s.prim /\ r.binding = s.binding /\ r.binding = d
  BY DEF BoundRow
<1>3. \/ r.material_found = s.material_found
      \/ ~IsPrefix(o.mask_path, m)
  <2> SUFFICES ASSUME IsPrefix(o.mask_path, m) PROVE r.material_found = s.material_found
    OBVIOUS
  <2>1. Composed(f, o) \subseteq Paths(f) /\ Composed(f, w) \subseteq Paths(f)
    BY DEF Composed
  <2>2. m \in Composed(f, o) <=> m \in Composed(f, w)
    BY <2>1, ComposedBelow
  <2> QED BY <2>2 DEF BoundRow
<1> HIDE DEF r, s
<1>4. BindingsWrite(r, "material_path") = m
  BY <1>2 DEF BindingsWrite
<1>5. BindingsWrite(r, "material_found") = r.material_found /\ BindingsWrite(s, "material_found") = s.material_found
  BY DEF BindingsWrite
<1>6. \A c \in Function.columns \ {"material_found"} : BindingsWrite(r, c) = BindingsWrite(s, c)
  BY <1>1, <1>2 DEF BindingsWrite
<1>7. MaterialAlike(f, o, r, s)
  BY <1>3, <1>4, <1>5, <1>6 DEF MaterialAlike
<1> QED BY <1>7 DEF r, s

\* A producer of its own makes the rows of the materials that are bound to a prim.
LEMMA FreshBindings ==
    ASSUME call.function = "usd_material_bindings", NEW f \in DOMAIN Stages,
           NEW o, NEW w, Unmasked(o, w), NEW q \in Paths(f), NEW t,
           "imageable" \in Prim(f, q).kinds
    PROVE  \E bound : IsList(bound) /\ \A x \in {o, w} :
             FreshRows(f, q, t, x) = [n \in 1 .. Len(bound) |-> [c \in Function.columns |->
                                        BindingsWrite(BoundRow(f, x, q, bound[n]), c)]]
<1> DEFINE fn == "usd_material_bindings"
           pr == SetTime(fn, FreshProducer(f, o), t)
           known == [pr EXCEPT !.bindings = BindingsOf(pr, f, q), !.collections = MembersOf(pr, f)]
           bound == ComputeBoundMaterial(known.bindings, known.collections, q, o.material_purpose)
<1>1. Sound(fn, pr, f, o) /\ pr.rows = <<>>
  <2>1. call.function \in PrimFunctions
    BY DEF PrimFunctions
  <2> QED BY <2>1, FreshSound
<1>2. \A x \in {o, w} : SetTime(fn, FreshProducer(f, x), t) = pr /\ x.material_purpose = o.material_purpose
  <2>1. w.material_purpose = o.material_purpose
    BY DEF Unmasked, OptionNames
  <2> QED BY <2>1, StartUnmasked
<1> HIDE DEF pr
<1>3. known = [x \in Fields |-> known[x]] /\ known.rows = <<>>
  <2>1. pr = [x \in Fields |-> pr[x]]
    BY <1>1 DEF Sound
  <2> QED BY <1>1, <2>1 DEF Fields
<1>4. IsList(bound)
  BY BoundIsList
<1>5. ASSUME NEW x \in {o, w}
      PROVE  FreshDone(f, q, t, x) = Buffered(known, BoundRows(f, x, q, bound))
  <2>1. FreshDone(f, q, t, x) = BindingsAddPrim(pr, f, q, x)
    BY <1>2 DEF FreshDone, AddPrim
  <2>2. BindingsAddPrim(pr, f, q, x)
          = With(known, LAMBDA found :
              With(ComputeBoundMaterial(found.bindings, found.collections, q, x.material_purpose),
                   LAMBDA d : Buffered(found, BoundRows(f, x, q, d))))
    BY DEF BindingsAddPrim, BoundRow, BoundRows
  <2> HIDE DEF known
  <2>3. BindingsAddPrim(pr, f, q, x)
          = Buffered(known, BoundRows(f, x, q, ComputeBoundMaterial(known.bindings, known.collections, q, x.material_purpose)))
    BY <2>2 DEF With
  <2> QED BY <1>2, <2>1, <2>3
<1> HIDE DEF bound, known
<1>6. ASSUME NEW x \in {o, w}
      PROVE  /\ FreshDone(f, q, t, x).rows = BoundRows(f, x, q, bound)
             /\ DOMAIN BoundRows(f, x, q, bound) = 1 .. Len(bound)
             /\ \A n \in 1 .. Len(bound) : BoundRows(f, x, q, bound)[n] = BoundRow(f, x, q, bound[n])
  <2> DEFINE new == BoundRows(f, x, q, bound)
  <2>1. DOMAIN bound = 1 .. Len(bound) /\ Len(bound) \in Nat
    BY <1>4, ListFacts
  <2>2. new = [n \in 1 .. Len(bound) |-> BoundRow(f, x, q, bound[n])]
    BY <2>1 DEF BoundRows
  <2> HIDE DEF new
  <2>3. IsList(new)
    <3>1. new = [n \in 1 .. Len(bound) |-> new[n]]
      BY <2>2
    <3> QED BY <2>1, <3>1, FunctionIsList
  <2>4. Buffered(known, new).rows = known.rows \o new
    BY <1>3, <2>3, BufferedFacts
  <2>5. <<>> \o new = new
    BY <2>3, ConcatIsList, EmptyIsList
  <2>6. FreshDone(f, q, t, x).rows = new
    BY <1>3, <1>5, <2>4, <2>5 DEF new
  <2> QED BY <2>2, <2>6 DEF new
<1>7. ASSUME NEW x \in {o, w}
      PROVE  FreshRows(f, q, t, x) = [n \in 1 .. Len(bound) |-> [c \in Function.columns |->
                                        BindingsWrite(BoundRow(f, x, q, bound[n]), c)]]
  <2>1. FreshRows(f, q, t, x) = WrittenRows(FreshDone(f, q, t, x), f, x)
    BY FreshRowsIs DEF FreshIs
  <2>2. \A pr1, r, c : Write(fn, pr1, f, r, c, x) = BindingsWrite(r, c)
    BY DEF Write
  <2> QED BY <1>6, <2>1, <2>2 DEF WrittenRows
<1> QED BY <1>4, <1>7

\* What rows may say of prims that the mask hides
Outside(f, o, w, row, c) ==
    \/ c = "material_found" /\ ~IsPrefix(o.mask_path, row.material_path)
    \/ c = "introducing_prim_path" /\ call.function = "usd_composition_arcs"
           /\ \E x \in {o, w} : Unmappable(f, row.prim_path, row.arc_index + 1, x)

\* The rows are otherwise the same, unless they are those of targets that are forwarded
SameRows(f, o, w, here, there) ==
    /\ o.forwarded \/ Len(here) = Len(there)
    /\ ~o.forwarded =>
         \A i \in DOMAIN here : \A c \in Function.columns :
             here[i][c] = there[i][c] \/ Outside(f, o, w, here[i], c)

\* The rows of materials
LEMMA BindingsUnmasked ==
    ASSUME call \in Calls, call.function = "usd_material_bindings", NEW f \in DOMAIN Stages,
           NEW o, NEW w, Unmasked(o, w), NEW q \in Paths(f), NEW t
    PROVE  SameRows(f, o, w, FreshRows(f, q, t, o), FreshRows(f, q, t, w))
<1> DEFINE here == FreshRows(f, q, t, o)
           there == FreshRows(f, q, t, w)
<1>1. CASE "imageable" \notin Prim(f, q).kinds
  <2> DEFINE fn == "usd_material_bindings"
             pr == SetTime(fn, FreshProducer(f, o), t)
  <2>1. ASSUME NEW x \in {o, w} PROVE FreshDone(f, q, t, x) = pr
    <3>1. SetTime(fn, FreshProducer(f, x), t) = pr
      BY StartUnmasked
    <3> HIDE DEF pr
    <3> QED BY <1>1, <3>1 DEF FreshDone, AddPrim, BindingsAddPrim
  <2>2. \A p : WrittenRows(p, f, w) = WrittenRows(p, f, o)
    BY WriteUnmasked DEF WrittenRows
  <2>3. here = there
    <3>1. \A x : FreshRows(f, q, t, x) = WrittenRows(FreshDone(f, q, t, x), f, x)
      BY FreshRowsIs DEF FreshIs
    <3> HIDE DEF pr
    <3> QED BY <2>1, <2>2, <3>1
  <2> HIDE DEF here, there
  <2>4. SameRows(f, o, w, here, there)
    BY <2>3 DEF SameRows
  <2> QED BY <2>4 DEF here, there
<1>2. CASE "imageable" \in Prim(f, q).kinds
  <2>1. PICK bound : IsList(bound) /\ \A x \in {o, w} :
             FreshRows(f, q, t, x) = [n \in 1 .. Len(bound) |-> [c \in Function.columns |->
                                        BindingsWrite(BoundRow(f, x, q, bound[n]), c)]]
    BY <1>2, FreshBindings
  <2> DEFINE N == Len(bound)
             r(n) == BoundRow(f, o, q, bound[n])
             s(n) == BoundRow(f, w, q, bound[n])
  <2>2. /\ here = [n \in 1 .. N |-> [c \in Function.columns |-> BindingsWrite(r(n), c)]]
        /\ there = [n \in 1 .. N |-> [c \in Function.columns |-> BindingsWrite(s(n), c)]]
    BY <2>1
  <2>3. \A n \in 1 .. N : MaterialAlike(f, o, r(n), s(n))
    BY MaterialUnmasked
  <2>4. N \in Nat
    BY <2>1, ListFacts
  <2> HIDE DEF here, there, r, s, N
  <2>5. Len(here) = N /\ Len(there) = N /\ DOMAIN here = 1 .. N
    <3>1. here = [n \in 1 .. N |-> here[n]] /\ there = [n \in 1 .. N |-> there[n]]
      BY <2>2
    <3> QED BY <2>4, <3>1, FunctionIsList
  <2>6. "material_path" \in Function.columns
    BY FunctionsAssumption DEF Function
  <2>7. ASSUME NEW n \in 1 .. N, NEW c \in Function.columns
        PROVE  here[n][c] = there[n][c] \/ Outside(f, o, w, here[n], c)
    <3>1. here[n][c] = BindingsWrite(r(n), c) /\ there[n][c] = BindingsWrite(s(n), c)
      BY <2>2
    <3>2. here[n].material_path = BindingsWrite(r(n), "material_path")
      BY <2>2, <2>6
    <3>3. \/ BindingsWrite(r(n), c) = BindingsWrite(s(n), c)
          \/ c = "material_found" /\ ~IsPrefix(o.mask_path, BindingsWrite(r(n), "material_path"))
      BY <2>3 DEF MaterialAlike
    <3> QED BY <3>1, <3>2, <3>3 DEF Outside
  <2>8. SameRows(f, o, w, here, there)
    BY <2>5, <2>7 DEF SameRows
  <2> QED BY <2>8 DEF here, there
<1> QED BY <1>1, <1>2

\* The rows of arcs
LEMMA ArcsUnmasked ==
    ASSUME call \in Calls, call.function = "usd_composition_arcs", NEW f \in DOMAIN Stages,
           NEW o, NEW w, Unmasked(o, w), IsList(o.mask_path), NEW q \in Composed(f, o), NEW t
    PROVE  SameRows(f, o, w, FreshRows(f, q, t, o), FreshRows(f, q, t, w))
<1> DEFINE here == FreshRows(f, q, t, o)
           there == FreshRows(f, q, t, w)
           own == Wanted(o, Prim(f, q).arcs)
<1>1. IsList(w.mask_path) /\ q \in Composed(f, w) /\ w.include_ancestral = o.include_ancestral
  BY ComposedBelow, EmptyIsList DEF Unmasked, OptionNames
<1>2. Wanted(w, Prim(f, q).arcs) = own
  BY <1>1 DEF Wanted
<1>3. Len(here) = Len(own) /\ \A n \in 1 .. Len(here) : ArcRow(f, q, here[n], own[n], n, o)
  BY FreshArcs
<1>4. Len(there) = Len(own) /\ \A n \in 1 .. Len(there) : ArcRow(f, q, there[n], own[n], n, w)
  <2> HIDE DEF own
  <2>1. /\ Len(there) = Len(Wanted(w, Prim(f, q).arcs))
        /\ \A n \in 1 .. Len(there) : ArcRow(f, q, there[n], Wanted(w, Prim(f, q).arcs)[n], n, w)
    BY <1>1, FreshArcs
  <2> QED BY <1>2, <2>1
<1>5. IsList(here)
  <2>1. call.function \in PrimFunctions
    BY DEF PrimFunctions
  <2> QED BY <2>1, FreshIsList
<1>6. Function.columns = {"prim_path", "arc_index", "arc", "introducing_prim_path"}
  BY FunctionsAssumption DEF Function
<1> HIDE DEF here, there, own
<1>7. DOMAIN here = 1 .. Len(here)
  BY <1>5, ListFacts
<1>8. ASSUME NEW n \in 1 .. Len(here), NEW c \in Function.columns
      PROVE  here[n][c] = there[n][c] \/ Outside(f, o, w, here[n], c)
  <2>1. ArcRow(f, q, here[n], own[n], n, o) /\ ArcRow(f, q, there[n], own[n], n, w)
    BY <1>3, <1>4
  <2>2. here[n].prim_path = q /\ here[n].arc_index = n - 1 /\ (n - 1) + 1 = n
    BY <2>1 DEF ArcRow
  <2>3. CASE c # "introducing_prim_path"
    BY <1>6, <2>1, <2>3 DEF ArcRow
  <2>4. CASE c = "introducing_prim_path"
    BY <2>1, <2>2, <2>4 DEF ArcRow, Outside
  <2> QED BY <2>3, <2>4
<1>9. SameRows(f, o, w, here, there)
  BY <1>3, <1>4, <1>7, <1>8 DEF SameRows
<1> QED BY <1>9 DEF here, there

\* The rows of any function of prims
LEMMA RowsUnmasked ==
    ASSUME call \in Calls, ~StageUnit, NEW f \in DOMAIN Stages,
           NEW o, NEW w, Unmasked(o, w), IsList(o.mask_path),
           NEW q \in Composed(f, o), IsPrefix(o.mask_path, q), NEW t
    PROVE  SameRows(f, o, w, FreshRows(f, q, t, o), FreshRows(f, q, t, w))
<1>1. q \in Paths(f) /\ call.function \in PrimFunctions
  BY UnitFacts DEF Composed
<1>2. CASE call.function = "usd_relationships" /\ o.forwarded
  BY <1>2 DEF SameRows
<1>3. CASE call.function \in Unaware /\ ~(call.function = "usd_relationships" /\ o.forwarded)
  <2>1. FreshRows(f, q, t, w) = FreshRows(f, q, t, o)
    BY <1>1, <1>3, FreshUnmasked
  <2> QED BY <2>1 DEF SameRows
<1>4. CASE call.function \in {"usd_material_bindings", "usd_composition_arcs"}
  BY <1>1, <1>4, BindingsUnmasked, ArcsUnmasked
<1> QED BY <1>1, <1>2, <1>3, <1>4 DEF Unaware

\* With "root", a function of prims returns the rows it returns for the same prims of
\* the whole stage, although only the subtree is composed (usd_scan.cpp:175), except for
\* what rows say of prims outside.
THEOREM SelectsRoot == Spec => []RootOnlySelects
<1> DEFINE SInv == CallInv /\ BoundInv /\ StagedOK
<1>1. SInv => RootOnlySelects
  <2> DEFINE T == Times(options)[1]
             rows(f, q, o) == FreshRows(f, q, T, o)
  <2>1. ASSUME SInv, Planned, ~StageUnit, NEW f \in ToSet(files)
        PROVE  /\ StartTraversal(f, options)
                    = Among(StartTraversal(f, Whole), {q \in Paths(f) : IsPrefix(Subtree, q)})
               /\ \A q \in ToSet(StartTraversal(f, options)) :
                    SameRows(f, options, Whole, rows(f, q, options), rows(f, q, Whole))
    <3>1. options.root = Subtree /\ options.mask_path = Subtree /\ Unmasked(options, Whole)
      BY <2>1, SubtreeFacts DEF Planned
    <3>2. f \in DOMAIN Stages /\ IsList(options.mask_path) /\ call \in Calls
      BY <2>1 DEF StagedOK, BoundInv, CallInv, BaseInv, OptionsOK
    <3> HIDE DEF SInv
    <3>3. StartTraversal(f, options) = Among(StartTraversal(f, Whole), {q \in Paths(f) : IsPrefix(Subtree, q)})
      BY <3>1, <3>2, TraversalSelects
    <3>4. ASSUME NEW q \in ToSet(StartTraversal(f, options))
          PROVE  q \in Composed(f, options) /\ IsPrefix(options.mask_path, q)
      <4>1. q \in Composed(f, options)
        BY <3>2, TraversalOK
      <4>2. q \in {p \in Paths(f) : IsPrefix(Subtree, p)}
        <5>1. IsList(StartTraversal(f, Whole))
          BY <3>2, TraversalOK
        <5> QED BY <3>3, <5>1, AmongIsList
      <4> QED BY <3>1, <4>1, <4>2
    <3> QED BY <2>1, <3>1, <3>2, <3>3, <3>4, RowsUnmasked
  <2>2. ASSUME SInv, Planned, ~StageUnit, NEW f \in ToSet(files),
               NEW q \in ToSet(StartTraversal(f, options))
        PROVE  /\ options.forwarded \/ Len(rows(f, q, options)) = Len(rows(f, q, Whole))
               /\ ~options.forwarded =>
                    \A i \in DOMAIN rows(f, q, options) : \A c \in Function.columns :
                      \/ rows(f, q, options)[i][c] = rows(f, q, Whole)[i][c]
                      \/ c = "material_found" /\ ~IsPrefix(Subtree, rows(f, q, options)[i].material_path)
                      \/ c = "introducing_prim_path" /\ call.function = "usd_composition_arcs"
                           /\ \E x \in {options, Whole} :
                                Unmappable(f, rows(f, q, options)[i].prim_path, rows(f, q, options)[i].arc_index + 1, x)
    <3> HIDE DEF rows, SInv
    <3>1. SameRows(f, options, Whole, rows(f, q, options), rows(f, q, Whole))
      BY <2>1, <2>2
    <3>2. options.mask_path = Subtree
      BY <2>2, SubtreeFacts DEF Planned, SInv
    <3> QED BY <3>1, <3>2 DEF SameRows, Outside
  <2> DEFINE same(f, here, there) ==
               /\ options.forwarded \/ Len(here) = Len(there)
               /\ ~options.forwarded =>
                    \A i \in DOMAIN here : \A c \in Function.columns :
                      \/ here[i][c] = there[i][c]
                      \/ c = "material_found" /\ ~IsPrefix(Subtree, here[i].material_path)
                      \/ c = "introducing_prim_path" /\ call.function = "usd_composition_arcs"
                           /\ \E x \in {options, Whole} :
                                Unmappable(f, here[i].prim_path, here[i].arc_index + 1, x)
  <2>3. ASSUME SInv, Planned, ~StageUnit, NEW f \in ToSet(files),
               NEW q \in ToSet(StartTraversal(f, options))
        PROVE  With(rows(f, q, options), LAMBDA here :
                   With(rows(f, q, Whole), LAMBDA there : same(f, here, there)))
    <3>1. same(f, rows(f, q, options), rows(f, q, Whole)) = TRUE
      <4> HIDE DEF SInv, rows
      <4> QED BY <2>2, <2>3
    <3> DEFINE u == rows(f, q, options)
               v == rows(f, q, Whole)
               inner(here) == With(v, LAMBDA there : same(f, here, there))
    <3> HIDE DEF same, rows
    <3>2. inner(u) = TRUE
      <4>1. same(f, u, v) = TRUE
        BY <3>1
      <4> HIDE DEF u, v
      <4>2. {same(f, u, x) : x \in {v}} = {TRUE}
        BY <4>1
      <4>3. With(v, LAMBDA there : same(f, u, there)) = CHOOSE r \in {same(f, u, x) : x \in {v}} : TRUE
        BY DEF With
      <4>4. (CHOOSE r \in {TRUE} : TRUE) = TRUE
        OBVIOUS
      <4> QED BY <4>2, <4>3, <4>4
    <3> HIDE DEF u, v, inner
    <3>3. With(u, LAMBDA here : inner(here))
      <4>1. {inner(x) : x \in {u}} = {TRUE}
        BY <3>2
      <4>2. With(u, LAMBDA here : inner(here)) = CHOOSE r \in {inner(x) : x \in {u}} : TRUE
        BY DEF With
      <4>3. (CHOOSE r \in {TRUE} : TRUE) = TRUE
        OBVIOUS
      <4> QED BY <4>1, <4>2, <4>3
    <3> QED BY <3>3 DEF inner, u, v
  <2> HIDE DEF SInv
  <2> QED BY <2>1, <2>3 DEF RootOnlySelects, Whole, Subtree
<1> QED BY <1>1, CallInvariant, BoundInit, BoundNext, StagedInit, StagedNext, PTL DEF Spec, CallInv

=============================================================================
