-------------------------- MODULE UsdPluginsProofs --------------------------
(***************************************************************************)
(* What holds of loading the extension for any number of processes,        *)
(* databases, resources and failures.                                      *)
(*                                                                         *)
(* The invariant IInv is stated process by process (ProcessOK).  A step is *)
(* always one of a single process: Elsewhere says what it leaves to the    *)
(* others, OthersKept that this keeps their ProcessOK, and each action has *)
(* one lemma about the process that takes it.  The part that needs most    *)
(* care is AttemptsCounted: an attempt may fail because a write failed     *)
(* unnoticed in an earlier one, so what a write damages is counted until a *)
(* registration stumbles over it.                                          *)
(***************************************************************************)
EXTENDS UsdPlugins, TLAPS

-----------------------------------------------------------------------------
(* The inductive invariant, process by process *)

\* An attempt that has its directory
InAttempt(p) == writer[p].step \in {"open", "write", "rename", "register", "touch"}

\* Threads that are in a LOAD belong to a process that runs; a writer that is not
\* idle is one of them, and there is none once call_once is done
Threads(p) ==
    /\ \A d \in DbsOf(p) : load[d] \in {"waiting", "registering"} => p \in up
    /\ writer[p].step # "idle" => \E d \in DbsOf(p) : load[d] = "registering"
    /\ p \in registered => writer[p].step = "idle"

\* Where an attempt writes
PlaceOK(p) ==
    /\ ~InAttempt(p) => writer[p].dir = None /\ writer[p].at = 1
    /\ InAttempt(p) =>
         writer[p].dir = IF p \in configured THEN Shared ELSE Private(p, made[p])
    /\ InAttempt(p) /\ p \notin configured => made[p] >= 1

\* What an attempt has written so far
WrittenOK(p) ==
    LET w == writer[p] IN
    /\ w.step = "write" => files[w.dir][w.at][TemporaryName(p)] = "partial"
    /\ w.step = "rename" => files[w.dir][w.at][TemporaryName(p)] \in {"whole", "short"}
    /\ w.step \in {"open", "write", "rename"} =>
         \A r \in Resources : r < w.at => InPlace(w.dir, r) # None
    /\ w.step \in {"register", "touch"} => \A r \in Resources : InPlace(w.dir, r) # None
    /\ w.step = "touch" => \A i \in PluginInfos : registry[p][i] # None
    /\ InAttempt(p) /\ w.step # "touch" /\ p \notin configured =>
         \A i \in PluginInfos : registry[p][i] # w.dir
    /\ w.step \in {"open", "write", "rename"} => \A r \in damaged[p] : w.at <= r
    /\ w.step \in {"register", "touch"} \/ p \in registered => damaged[p] = {}

\* The private directories of a process
DirectoriesOK(p) ==
    /\ resource_directory[p] # None =>
         made[p] >= 1 /\ resource_directory[p] = Private(p, made[p])
    /\ \A n \in 1 .. MaxFailures + 1 : made[p] < n =>
         Private(p, n) \notin directories /\ files[Private(p, n)] = NoFiles
    /\ p \in configured => made[p] = 0
    /\ p \notin up /\ resource_directory[p] # None => resource_directory[p] \notin directories

\* The directories OpenUSD knows, and what is in them while the process runs
RegistryOK(p) ==
    \A i \in PluginInfos : registry[p][i] # None =>
        /\ \/ registry[p][i] = Shared /\ p \in configured
           \/ \E n \in 1 .. made[p] : registry[p][i] = Private(p, n)
        /\ p \in up => \A r \in Resources : InPlace(registry[p][i], r) # None

\* A resource of the plugin R that a write failed on unnoticed, in this attempt
Damaged(p, R) ==
    \E r \in R, n \in {"path", TemporaryName(p)} : files[writer[p].dir][r][n] = "short"

\* An earlier attempt left one where OpenUSD will still read it
DamagedBefore(p) ==
    /\ read[p] = Unread
    /\ \E r \in Resources :
         LET dir == registry[p][PluginOf[r]]
         IN  dir # None /\ dir # writer[p].dir /\ InPlace(dir, r) = "short"

One(b) == IF b THEN 1 ELSE 0

\* Every attempt but the last had a failing call of its own
AttemptsCounted(p) ==
    p \notin configured =>
      IF InAttempt(p)
      THEN made[p] - 1 + One(Damaged(p, PluginInfos)) + One(Damaged(p, Resources \ PluginInfos))
             + One(DamagedBefore(p)) <= failures
      ELSE IF p \in registered THEN made[p] <= failures + 1
      ELSE made[p] + One(DamagedBefore(p)) <= failures

ProcessOK(p) ==
    /\ Threads(p) /\ PlaceOK(p) /\ WrittenOK(p) /\ DirectoriesOK(p) /\ RegistryOK(p)
    /\ AttemptsCounted(p)

IInv ==
    /\ TypeOK
    /\ FilesInPlaceAreFinished
    /\ \A p \in Procs : ProcessOK(p)

-----------------------------------------------------------------------------
(* Directories and files *)

LEMMA DirectoryFacts ==
    /\ Shared \in Directories
    /\ \A p \in Procs, n \in 1 .. MaxFailures + 1 :
         Private(p, n) \in Directories /\ Private(p, n) # Shared
    /\ \A p, q \in Procs : \A m, n \in Nat : Private(p, m) = Private(q, n) => p = q /\ m = n
    /\ None \notin Directories /\ None \notin Contents
    /\ 1 \in Resources /\ Count \in Resources
    /\ \A r \in Resources : r \in 1 .. Count /\ PluginOf[r] \in PluginInfos
    /\ PluginInfos \subseteq Resources
BY NoneAssumption, ResourceAssumption DEF Directories, Shared, Private, Resources, PluginInfos

LEMMA NameFacts ==
    /\ "path" \in Names
    /\ \A p \in Procs : TemporaryName(p) \in Names /\ TemporaryName(p) # "path"
    /\ \A p, q \in Procs : TemporaryName(p) = TemporaryName(q) => p = q
BY ProcessAssumption DEF Names, TemporaryName

Files == [Directories -> [Resources -> [Names -> Contents \cup {None}]]]

LEMMA SetFileEffect ==
    ASSUME TypeOK, NEW p \in Procs, NEW n \in Names, NEW c \in Contents \cup {None},
           writer[p].dir \in Directories, SetFile(p, n, c)
    PROVE  /\ files' \in Files
           /\ \A d \in Directories, r \in Resources, m \in Names :
                files'[d][r][m] = IF d = writer[p].dir /\ r = writer[p].at /\ m = n
                                  THEN c ELSE files[d][r][m]
           /\ \A d \in Directories : d # writer[p].dir => files'[d] = files[d]
<1> DEFINE w == writer[p]
<1>1. files \in Files /\ w.at \in Resources
  BY DEF TypeOK, Files
<1> DEFINE g == [files[w.dir][w.at] EXCEPT ![n] = c]
           h == [files[w.dir] EXCEPT ![w.at] = g]
<1>3. /\ g \in [Names -> Contents \cup {None}]
      /\ \A m \in Names : g[m] = IF m = n THEN c ELSE files[w.dir][w.at][m]
  BY <1>1 DEF Files
<1>4. files' = [files EXCEPT ![w.dir] = h]
  BY DEF SetFile
<1> HIDE DEF g
<1>5. /\ h \in [Resources -> [Names -> Contents \cup {None}]]
      /\ \A r \in Resources : h[r] = IF r = w.at THEN g ELSE files[w.dir][r]
  BY <1>1, <1>3 DEF Files
<1> HIDE DEF h
<1>6. /\ files' \in Files
      /\ \A d \in Directories : files'[d] = IF d = w.dir THEN h ELSE files[d]
  BY <1>1, <1>4, <1>5 DEF Files
<1> QED BY <1>3, <1>5, <1>6

-----------------------------------------------------------------------------
(* What a step of one process leaves to the others *)

FilesElsewhere(p) ==
    /\ \A q \in Procs \ {p} :
         /\ \A n \in 1 .. MaxFailures + 1 : files'[Private(q, n)] = files[Private(q, n)]
         /\ \A r \in Resources :
              files'[Shared][r][TemporaryName(q)] = files[Shared][r][TemporaryName(q)]
    /\ \A r \in Resources :
         files'[Shared][r]["path"] \in {files[Shared][r]["path"], "whole", "short"}

Elsewhere(p) ==
    /\ FilesElsewhere(p)
    /\ configured' = configured
    /\ \A q \in Procs \ {p} :
         /\ writer'[q] = writer[q] /\ made'[q] = made[q]
         /\ resource_directory'[q] = resource_directory[q]
         /\ registry'[q] = registry[q] /\ read'[q] = read[q] /\ damaged'[q] = damaged[q]
         /\ q \in up' <=> q \in up
         /\ q \in registered' <=> q \in registered
         /\ \A d \in DbsOf(q) : load'[d] = load[d]
         /\ \A n \in 1 .. MaxFailures + 1 :
              Private(q, n) \in directories' => Private(q, n) \in directories
    /\ failures \in Nat /\ failures' \in Nat /\ failures <= failures'

LEMMA OthersKept ==
    ASSUME TypeOK, NEW p \in Procs, NEW q \in Procs \ {p}, Elsewhere(p), ProcessOK(q)
    PROVE  ProcessOK(q)'
<1> DEFINE w == writer[q]
<1>1. /\ w' = w /\ made[q]' = made[q] /\ resource_directory[q]' = resource_directory[q]
      /\ registry[q]' = registry[q] /\ read[q]' = read[q] /\ configured' = configured
      /\ damaged[q]' = damaged[q]
      /\ q \in up' <=> q \in up
      /\ q \in registered' <=> q \in registered
      /\ \A d \in DbsOf(q) : load'[d] = load[d]
      /\ failures \in Nat /\ failures' \in Nat /\ failures <= failures'
  BY DEF Elsewhere
<1>2. /\ made[q] \in Nat /\ made[q] \in 0 .. MaxFailures + 1
      /\ w.at \in Resources
      /\ w.dir \in Directories \cup {None}
      /\ w.step \in {"idle", "create", "open", "write", "rename", "register", "touch"}
  BY ResourceAssumption DEF TypeOK
<1>3. \A n \in 1 .. MaxFailures + 1 :
        /\ Private(q, n) \in directories' => Private(q, n) \in directories
        /\ files'[Private(q, n)] = files[Private(q, n)]
  BY DEF Elsewhere, FilesElsewhere
<1>4. \A r \in Resources :
        /\ files'[Shared][r][TemporaryName(q)] = files[Shared][r][TemporaryName(q)]
        /\ files'[Shared][r]["path"] \in {files[Shared][r]["path"], "whole", "short"}
  BY DEF Elsewhere, FilesElsewhere
<1>5. \A d : (d = Shared \/ \E n \in 1 .. made[q] : d = Private(q, n)) =>
        \A r \in Resources :
          /\ files'[d][r][TemporaryName(q)] = files[d][r][TemporaryName(q)]
          /\ files[d][r]["path"] # None => files'[d][r]["path"] # None
          /\ d # Shared => files'[d] = files[d]
  BY <1>2, <1>3, <1>4, DirectoryFacts, ResourceAssumption DEF Contents
<1>6. InAttempt(q)' = InAttempt(q)
  BY <1>1 DEF InAttempt
<1>7. Threads(q)'
  BY <1>1 DEF ProcessOK, Threads, DbsOf
<1>8. PlaceOK(q)'
  BY <1>1, <1>6 DEF ProcessOK, PlaceOK
<1>9. InAttempt(q) => /\ w.dir = Shared \/ \E n \in 1 .. made[q] : w.dir = Private(q, n)
                      /\ q \notin configured => w.dir # Shared
  BY <1>2, DirectoryFacts DEF ProcessOK, PlaceOK
<1>10. WrittenOK(q)'
  BY <1>1, <1>5, <1>6, <1>9, <1>2 DEF ProcessOK, WrittenOK, InAttempt, InPlace, TemporaryName
<1>11. DirectoriesOK(q)'
  BY <1>1, <1>2, <1>3 DEF ProcessOK, DirectoriesOK
<1>12. RegistryOK(q)'
  BY <1>1, <1>5 DEF ProcessOK, RegistryOK, InPlace
<1>13. AttemptsCounted(q)'
  <2> SUFFICES ASSUME q \notin configured PROVE AttemptsCounted(q)'
    BY <1>1 DEF AttemptsCounted
  <2>1. \A i \in PluginInfos : registry[q][i] # None => files'[registry[q][i]] = files[registry[q][i]]
    BY <1>2, <1>3, ResourceAssumption DEF ProcessOK, RegistryOK
  <2>2. DamagedBefore(q)' = DamagedBefore(q)
    BY <1>1, <2>1, DirectoryFacts DEF DamagedBefore, InPlace
  <2>3. InAttempt(q) => files'[w.dir] = files[w.dir]
    BY <1>5, <1>9, DirectoryFacts
  <2>4. InAttempt(q) => \A R : Damaged(q, R)' = Damaged(q, R)
    BY <1>1, <2>3 DEF Damaged, TemporaryName
  <2> QED
    BY <1>1, <1>2, <1>6, <2>2, <2>4 DEF ProcessOK, AttemptsCounted, One
<1> QED
  BY <1>7, <1>8, <1>10, <1>11, <1>12, <1>13 DEF ProcessOK

\* It is enough to look at the process that takes the step
LEMMA OneProcess ==
    ASSUME IInv, NEW p \in Procs, TypeOK', FilesInPlaceAreFinished', Elsewhere(p), ProcessOK(p)'
    PROVE  IInv'
BY OthersKept DEF IInv

-----------------------------------------------------------------------------
(* What is known of a process that registers *)

Steps == {"idle", "create", "open", "write", "rename", "register", "touch"}

LEMMA Attempt ==
    ASSUME IInv, NEW p \in Procs, writer[p].step # "idle"
    PROVE  /\ p \in up /\ p \notin registered
           /\ InAttempt(p) <=> writer[p].step # "create"
           /\ InAttempt(p) => writer[p].dir \in Directories
           /\ \A q \in Procs \ {p}, n \in 1 .. MaxFailures + 1 : writer[p].dir # Private(q, n)
           /\ \A n \in 1 .. MaxFailures + 1 : made[p] < n => writer[p].dir # Private(p, n)
<1> USE DEF IInv
<1>1. /\ Threads(p) /\ PlaceOK(p) /\ made[p] \in 0 .. MaxFailures + 1 /\ writer[p].step \in Steps
      /\ MaxFailures \in Nat
  BY ResourceAssumption DEF ProcessOK, TypeOK, Steps
<1>2. p \in up /\ p \notin registered
  BY <1>1 DEF Threads, DbsOf
<1>3. InAttempt(p) <=> writer[p].step # "create"
  BY <1>1 DEF InAttempt, Steps
<1>4. ~InAttempt(p) => writer[p].dir = None
  BY <1>1 DEF PlaceOK
<1>5. InAttempt(p) => \/ writer[p].dir = Shared
                      \/ writer[p].dir = Private(p, made[p]) /\ made[p] \in 1 .. MaxFailures + 1
  BY <1>1 DEF PlaceOK
<1>6. InAttempt(p) => writer[p].dir \in Directories
  BY <1>5, DirectoryFacts
<1>7. \A q \in Procs \ {p}, n \in 1 .. MaxFailures + 1 : writer[p].dir # Private(q, n)
  BY <1>1, <1>4, <1>5, DirectoryFacts
<1>8. \A n \in 1 .. MaxFailures + 1 : made[p] < n => writer[p].dir # Private(p, n)
  BY <1>1, <1>4, <1>5, DirectoryFacts
<1> QED BY <1>2, <1>3, <1>6, <1>7, <1>8

LEMMA SetTemporary ==
    ASSUME IInv, NEW p \in Procs, InAttempt(p), NEW c \in Contents \cup {None},
           SetFile(p, TemporaryName(p), c)
    PROVE  /\ files' \in Files /\ FilesElsewhere(p) /\ FilesInPlaceAreFinished'
           /\ \A d \in Directories, r \in Resources :
                files'[d][r]["path"] = files[d][r]["path"]
           /\ \A r \in Resources :
                files'[writer[p].dir][r][TemporaryName(p)] =
                  IF r = writer[p].at THEN c ELSE files[writer[p].dir][r][TemporaryName(p)]
           /\ \A d \in Directories : d # writer[p].dir => files'[d] = files[d]
<1> DEFINE w == writer[p]
<1>1. /\ TypeOK /\ w.step # "idle" /\ w.dir \in Directories
      /\ \A q \in Procs \ {p}, n \in 1 .. MaxFailures + 1 : w.dir # Private(q, n)
  BY Attempt DEF IInv, InAttempt
<1>2. /\ files' \in Files
      /\ \A d \in Directories, r \in Resources, m \in Names :
           files'[d][r][m] = IF d = w.dir /\ r = w.at /\ m = TemporaryName(p)
                             THEN c ELSE files[d][r][m]
      /\ \A d \in Directories : d # w.dir => files'[d] = files[d]
  BY <1>1, SetFileEffect, NameFacts
<1>3. \A d \in Directories, r \in Resources : files'[d][r]["path"] = files[d][r]["path"]
  BY <1>2, NameFacts
<1>4. FilesElsewhere(p)
  BY <1>1, <1>2, <1>3, NameFacts, DirectoryFacts DEF FilesElsewhere
<1>5. FilesInPlaceAreFinished'
  BY <1>3 DEF IInv, FilesInPlaceAreFinished, InPlace
<1> QED BY <1>1, <1>2, <1>3, <1>4, <1>5, NameFacts

LEMMA SameFiles ==
    ASSUME IInv, NEW p \in Procs, files' = files
    PROVE  files' \in Files /\ FilesElsewhere(p) /\ FilesInPlaceAreFinished'
BY DEF IInv, TypeOK, Files, FilesElsewhere, FilesInPlaceAreFinished, InPlace

-----------------------------------------------------------------------------
(* The steps of a LOAD outside call_once *)

\* A step that only moves a database's LOAD leaves what a process has written alone
LEMMA SameProcess ==
    ASSUME NEW p, ProcessOK(p),
           UNCHANGED <<configured, files, directories, up, registered, writer, made,
                       resource_directory, registry, read, failures, damaged>>
    PROVE  /\ PlaceOK(p)' /\ WrittenOK(p)' /\ DirectoriesOK(p)' /\ RegistryOK(p)'
           /\ AttemptsCounted(p)'
<1>1. PlaceOK(p) /\ WrittenOK(p) /\ DirectoriesOK(p) /\ RegistryOK(p) /\ AttemptsCounted(p)
  BY DEF ProcessOK
<1>2. PlaceOK(p)' <=> PlaceOK(p)
  BY DEF PlaceOK, InAttempt
<1>3. WrittenOK(p)' <=> WrittenOK(p)
  BY DEF WrittenOK, InAttempt, InPlace, TemporaryName
<1>4. DirectoriesOK(p)' <=> DirectoriesOK(p)
  BY DEF DirectoriesOK
<1>5. RegistryOK(p)' <=> RegistryOK(p)
  BY DEF RegistryOK, InPlace
<1>6. AttemptsCounted(p)' <=> AttemptsCounted(p)
  <2>1. /\ InAttempt(p)' <=> InAttempt(p)
        /\ Damaged(p, PluginInfos)' <=> Damaged(p, PluginInfos)
        /\ Damaged(p, Resources \ PluginInfos)' <=> Damaged(p, Resources \ PluginInfos)
    BY DEF InAttempt, Damaged, TemporaryName
  <2>2. DamagedBefore(p)' <=> DamagedBefore(p)
    BY DEF DamagedBefore, InPlace
  <2> QED BY <2>1, <2>2 DEF AttemptsCounted, One
<1> QED BY <1>1, <1>2, <1>3, <1>4, <1>5, <1>6

LEMMA LoadStep ==
    ASSUME IInv, NEW d \in Dbs, Load(d)
    PROVE  IInv'
<1> DEFINE p == ProcOf[d]
<1>1. /\ p \in Procs /\ TypeOK /\ ProcessOK(p)
      /\ load \in [Dbs -> {"none", "waiting", "registering", "loaded"}]
  BY ProcessAssumption DEF IInv, TypeOK
<1>2. UNCHANGED <<configured, files, directories, up, registered, writer, made, resource_directory,
                  registry, read, delegate, failures, damaged>>
  BY DEF Load, disk, process
<1>3. /\ p \in up /\ load[d] = "none"
      /\ load' = [load EXCEPT ![d] = "waiting"]
  BY DEF Load
<1>4. TypeOK'
  BY <1>1, <1>2, <1>3 DEF TypeOK
<1>5. files' \in Files /\ FilesElsewhere(p) /\ FilesInPlaceAreFinished'
  BY <1>1, <1>2, SameFiles
<1>6. Elsewhere(p)
  BY <1>1, <1>2, <1>3, <1>5, ResourceAssumption DEF Elsewhere, DbsOf, TypeOK
<1>7. Threads(p)'
  BY <1>1, <1>2, <1>3 DEF ProcessOK, Threads, DbsOf
<1>8. /\ PlaceOK(p)' /\ WrittenOK(p)' /\ DirectoriesOK(p)' /\ RegistryOK(p)' /\ AttemptsCounted(p)'
  BY <1>1, <1>2, SameProcess
<1>9. ProcessOK(p)'
  BY <1>7, <1>8 DEF ProcessOK
<1> HIDE DEF p
<1> QED BY <1>1, <1>4, <1>5, <1>6, <1>9, OneProcess

LEMMA FinishLoadStep ==
    ASSUME IInv, NEW d \in Dbs, FinishLoad(d)
    PROVE  IInv'
<1> DEFINE p == ProcOf[d]
<1>1. /\ p \in Procs /\ TypeOK /\ ProcessOK(p)
      /\ load \in [Dbs -> {"none", "waiting", "registering", "loaded"}]
  BY ProcessAssumption DEF IInv, TypeOK
<1>2. UNCHANGED <<configured, files, directories, up, registered, writer, made, resource_directory,
                  registry, read, failures, damaged>>
  BY DEF FinishLoad, disk
<1>3. /\ load[d] = "waiting" /\ load' = [load EXCEPT ![d] = "loaded"]
      /\ delegate' = [delegate EXCEPT ![p] = 1]
  BY DEF FinishLoad
<1>4. TypeOK'
  BY <1>1, <1>2, <1>3 DEF TypeOK
<1>5. files' \in Files /\ FilesElsewhere(p) /\ FilesInPlaceAreFinished'
  BY <1>1, <1>2, SameFiles
<1>6. Elsewhere(p)
  BY <1>1, <1>2, <1>3, <1>5, ResourceAssumption DEF Elsewhere, DbsOf, TypeOK
<1>7. Threads(p)'
  BY <1>1, <1>2, <1>3 DEF ProcessOK, Threads, DbsOf
<1>8. /\ PlaceOK(p)' /\ WrittenOK(p)' /\ DirectoriesOK(p)' /\ RegistryOK(p)' /\ AttemptsCounted(p)'
  BY <1>1, <1>2, SameProcess
<1>9. ProcessOK(p)'
  BY <1>7, <1>8 DEF ProcessOK
<1> HIDE DEF p
<1> QED BY <1>1, <1>4, <1>5, <1>6, <1>9, OneProcess

LEMMA CallOnceStep ==
    ASSUME IInv, NEW d \in Dbs, CallOnce(d)
    PROVE  IInv'
<1> DEFINE p == ProcOf[d]
<1>1. /\ p \in Procs /\ TypeOK /\ ProcessOK(p) /\ d \in DbsOf(p)
      /\ load \in [Dbs -> {"none", "waiting", "registering", "loaded"}]
  BY ProcessAssumption DEF IInv, TypeOK, DbsOf
<1>2. UNCHANGED <<configured, files, directories, up, registered, made, resource_directory,
                  registry, read, delegate, failures, damaged>>
  BY DEF CallOnce, disk, process
<1>3. /\ load[d] = "waiting" /\ p \notin registered
      /\ \A e \in DbsOf(p) : load[e] # "registering"
      /\ load' = [load EXCEPT ![d] = "registering"]
      /\ writer' = [writer EXCEPT ![p] = [step |-> "create", dir |-> None, at |-> 1]]
  <2>1. [Idle EXCEPT !.step = "create"] = [step |-> "create", dir |-> None, at |-> 1]
    BY DEF Idle
  <2> QED BY <2>1 DEF CallOnce
<1>4. p \in up /\ writer[p].step = "idle" /\ writer[p].dir = None
  BY <1>1, <1>3 DEF ProcessOK, Threads, PlaceOK, InAttempt
<1>5. writer[p]' = [step |-> "create", dir |-> None, at |-> 1]
  BY <1>1, <1>3 DEF TypeOK
<1>6. TypeOK'
  BY <1>1, <1>2, <1>3, DirectoryFacts DEF TypeOK
<1>7. files' \in Files /\ FilesElsewhere(p) /\ FilesInPlaceAreFinished'
  BY <1>1, <1>2, SameFiles
<1>8. Elsewhere(p)
  BY <1>1, <1>2, <1>3, <1>7, ResourceAssumption DEF Elsewhere, DbsOf, TypeOK
<1>9. Threads(p)'
  BY <1>1, <1>2, <1>3, <1>4 DEF ProcessOK, Threads, DbsOf
<1>10. ~InAttempt(p)' /\ ~InAttempt(p)
  BY <1>4, <1>5 DEF InAttempt
<1>11. PlaceOK(p)' /\ WrittenOK(p)'
  BY <1>2, <1>3, <1>5, <1>10 DEF PlaceOK, WrittenOK, InAttempt
<1>12. DirectoriesOK(p)' /\ RegistryOK(p)'
  BY <1>1, <1>2 DEF ProcessOK, DirectoriesOK, RegistryOK, InPlace
<1>13. DamagedBefore(p)' = DamagedBefore(p)
  BY <1>2, <1>4, <1>5 DEF DamagedBefore, InPlace
<1>14. AttemptsCounted(p)'
  BY <1>1, <1>2, <1>3, <1>10, <1>13 DEF ProcessOK, AttemptsCounted
<1>15. ProcessOK(p)'
  BY <1>9, <1>11, <1>12, <1>14 DEF ProcessOK
<1> HIDE DEF p
<1> QED BY <1>1, <1>6, <1>7, <1>8, <1>15, OneProcess

-----------------------------------------------------------------------------
(* An attempt that fails *)

LEMMA ThrowType ==
    ASSUME TypeOK, NEW p \in Procs, Throw(p)
    PROVE  /\ writer' = [writer EXCEPT ![p] = [step |-> "idle", dir |-> None, at |-> 1]]
           /\ writer[p]' = [step |-> "idle", dir |-> None, at |-> 1]
           /\ writer' \in [Procs -> [step : Steps, dir : Directories \cup {None}, at : Resources]]
           /\ load' \in [Dbs -> {"none", "waiting", "registering", "loaded"}]
           /\ \A d \in Dbs : load'[d] = IF ProcOf[d] = p /\ load[d] = "registering"
                                        THEN "none" ELSE load[d]
BY DirectoryFacts DEF TypeOK, Throw, Idle, Registering, Steps

\* What is left to show of an attempt that ends in an exception
LEMMA ThrowKeeps ==
    ASSUME IInv, NEW p \in Procs, writer[p].step # "idle", Throw(p),
           configured' = configured, up' = up, registered' = registered, made' = made,
           resource_directory' = resource_directory, directories' = directories,
           damaged' = damaged,
           failures' \in 0 .. MaxFailures, failures <= failures',
           \A d \in Directories : d # writer[p].dir => files'[d] = files[d],
           RegistryOK(p)',
           p \notin configured => made[p] + One(DamagedBefore(p)') <= failures'
    PROVE  ProcessOK(p)'
<1>1. TypeOK /\ ProcessOK(p)
  BY DEF IInv
<1>2. /\ writer[p]' = [step |-> "idle", dir |-> None, at |-> 1]
      /\ \A d \in Dbs : load'[d] = IF ProcOf[d] = p /\ load[d] = "registering"
                                   THEN "none" ELSE load[d]
  BY <1>1, ThrowType
<1>3. ~InAttempt(p)' /\ p \notin registered
  BY <1>2, Attempt DEF InAttempt
<1>4. Threads(p)'
  BY <1>1, <1>2, <1>3 DEF ProcessOK, Threads, DbsOf
<1>5. PlaceOK(p)' /\ WrittenOK(p)'
  BY <1>2, <1>3 DEF PlaceOK, WrittenOK, InAttempt
<1>6. \A n \in 1 .. MaxFailures + 1 : made[p] < n => files'[Private(p, n)] = files[Private(p, n)]
  BY Attempt, DirectoryFacts
<1>7. DirectoriesOK(p)'
  BY <1>1, <1>6 DEF ProcessOK, DirectoriesOK
<1>8. AttemptsCounted(p)'
  BY <1>3 DEF AttemptsCounted
<1> QED BY <1>4, <1>5, <1>7, <1>8 DEF ProcessOK

\* A failing call to the file system ends the attempt: at most the temporary file
\* is changed
LEMMA FailedCall ==
    ASSUME IInv, NEW p \in Procs, writer[p].step # "idle", Throw(p), FailingCall,
           configured' = configured, directories' = directories, up' = up,
           registered' = registered, process' = process, damaged' = damaged,
           files' \in Files, FilesElsewhere(p), FilesInPlaceAreFinished',
           \A d \in Directories, r \in Resources : files'[d][r]["path"] = files[d][r]["path"],
           \A d \in Directories : d # writer[p].dir => files'[d] = files[d]
    PROVE  IInv'
<1>1. TypeOK /\ ProcessOK(p) /\ MaxFailures \in Nat
  BY ResourceAssumption DEF IInv
<1>2. /\ configured' = configured /\ directories' = directories /\ up' = up
      /\ registered' = registered /\ made' = made /\ resource_directory' = resource_directory
      /\ registry' = registry /\ read' = read /\ delegate' = delegate
  BY DEF process
<1>3. /\ failures \in 0 .. MaxFailures /\ failures' \in 0 .. MaxFailures
      /\ failures' = failures + 1
  BY <1>1 DEF FailingCall, TypeOK
<1>5. TypeOK'
  BY <1>1, <1>2, <1>3, ThrowType DEF TypeOK, Files, Steps
<1>6. Elsewhere(p)
  BY <1>1, <1>2, <1>3, ThrowType DEF Elsewhere, DbsOf, TypeOK
<1>7. \A i \in PluginInfos : registry[p][i] \in Directories \cup {None}
  BY <1>1 DEF TypeOK
<1>8. RegistryOK(p)'
  BY <1>1, <1>2, <1>7, DirectoryFacts DEF ProcessOK, RegistryOK, InPlace
<1>9. ASSUME p \notin configured
      PROVE  made[p] + One(DamagedBefore(p)') <= failures'
  <2>1. made[p] \in Nat /\ p \notin registered
    BY <1>1, Attempt DEF TypeOK
  <2>2. writer[p]'.dir = None
    BY <1>1, ThrowType
  <2>3. CASE InAttempt(p)
    <3>1. DamagedBefore(p)' => \/ DamagedBefore(p)
                               \/ Damaged(p, PluginInfos)
                               \/ Damaged(p, Resources \ PluginInfos)
      BY <1>2, <1>7, <2>2, DirectoryFacts DEF DamagedBefore, Damaged, InPlace
    <3> QED BY <1>1, <1>3, <1>9, <2>1, <2>3, <3>1 DEF ProcessOK, AttemptsCounted, One
  <2>4. CASE ~InAttempt(p)
    <3>1. writer[p].dir = None
      BY <1>1, <2>4 DEF ProcessOK, PlaceOK
    <3>2. DamagedBefore(p)' = DamagedBefore(p)
      BY <1>2, <1>7, <2>2, <3>1, DirectoryFacts DEF DamagedBefore, InPlace
    <3> QED BY <1>1, <1>3, <1>9, <2>1, <2>4, <3>2 DEF ProcessOK, AttemptsCounted, One
  <2> QED BY <2>3, <2>4
<1>10. ProcessOK(p)'
  BY <1>1, <1>2, <1>3, <1>8, <1>9, ThrowKeeps
<1> QED BY <1>5, <1>6, <1>10, OneProcess

-----------------------------------------------------------------------------
(* The directory of an attempt; processes that end *)

LEMMA UseConfiguredStep ==
    ASSUME IInv, NEW p \in Procs, writer[p].step = "create", UseConfigured(p),
           damaged' = [damaged EXCEPT ![p] = ShortIn(writer'[p].dir)],
           UNCHANGED <<load, failures, configured, files, up, registered, registry, read, delegate>>
    PROVE  IInv'
<1>1. /\ TypeOK /\ ProcessOK(p) /\ MaxFailures \in Nat /\ p \in up /\ p \notin registered
      /\ ~InAttempt(p)
  BY ResourceAssumption, Attempt DEF IInv
<1>2. /\ p \in configured
      /\ writer' = [writer EXCEPT ![p] = [writer[p] EXCEPT !.step = "open", !.dir = Shared]]
      /\ UNCHANGED <<made, directories, resource_directory>>
  BY DEF UseConfigured
<1>3. writer[p].dir = None /\ writer[p].at = 1
  BY <1>1 DEF ProcessOK, PlaceOK
<1>4. writer[p]' = [step |-> "open", dir |-> Shared, at |-> 1]
  BY <1>1, <1>2, <1>3 DEF TypeOK
<1>5. TypeOK'
  BY <1>1, <1>2, <1>4, DirectoryFacts DEF TypeOK, ShortIn
<1>6. files' \in Files /\ FilesElsewhere(p) /\ FilesInPlaceAreFinished'
  BY SameFiles
<1>7. Elsewhere(p)
  BY <1>1, <1>2, <1>6 DEF Elsewhere, TypeOK
<1>8. Threads(p)'
  BY <1>1, <1>2 DEF ProcessOK, Threads, DbsOf
<1>9. InAttempt(p)'
  BY <1>4 DEF InAttempt
<1>10. PlaceOK(p)' /\ AttemptsCounted(p)' /\ WrittenOK(p)'
  <2>1. PlaceOK(p)'
    BY <1>2, <1>4, <1>9 DEF PlaceOK
  <2>2. AttemptsCounted(p)'
    BY <1>2 DEF AttemptsCounted
  <2>3. p \in configured'
    BY <1>2
  <2>6. p \notin registered' /\ damaged[p]' \subseteq Resources
    BY <1>1 DEF TypeOK, ShortIn
  <2>4. WrittenOK(p)'
    BY <1>4, <2>3, <2>6 DEF WrittenOK, Resources
  <2> QED BY <2>1, <2>2, <2>4
<1>11. DirectoriesOK(p)' /\ RegistryOK(p)'
  BY <1>1, <1>2 DEF ProcessOK, DirectoriesOK, RegistryOK, InPlace
<1>12. ProcessOK(p)'
  BY <1>8, <1>10, <1>11 DEF ProcessOK
<1> QED BY <1>5, <1>6, <1>7, <1>12, OneProcess

LEMMA MakePrivateStep ==
    ASSUME IInv, NEW p \in Procs, writer[p].step = "create", MakePrivate(p),
           damaged' = [damaged EXCEPT ![p] = ShortIn(writer'[p].dir)],
           UNCHANGED <<load, failures, configured, files, up, registered, registry, read, delegate>>
    PROVE  IInv'
<1> DEFINE dir == Private(p, made[p] + 1)
<1>1. /\ TypeOK /\ ProcessOK(p) /\ MaxFailures \in Nat /\ p \in up /\ p \notin registered
      /\ ~InAttempt(p)
  BY ResourceAssumption, Attempt DEF IInv
<1>2. /\ p \notin configured
      /\ made' = [made EXCEPT ![p] = made[p] + 1]
      /\ directories' = directories \cup {dir}
      /\ writer' = [writer EXCEPT ![p] = [writer[p] EXCEPT !.step = "open", !.dir = dir]]
      /\ resource_directory' = [resource_directory EXCEPT ![p] = dir]
  BY DEF MakePrivate, Remembers
<1>3. /\ writer[p].dir = None /\ writer[p].at = 1
      /\ made[p] \in Nat /\ failures \in 0 .. MaxFailures
      /\ made[p] + One(DamagedBefore(p)) <= failures
  BY <1>1, <1>2 DEF ProcessOK, PlaceOK, AttemptsCounted, TypeOK
<1>4. /\ made[p] + 1 \in 1 .. MaxFailures + 1
      /\ dir \in Directories /\ dir # Shared /\ dir # None
  BY <1>1, <1>3, DirectoryFacts DEF One
<1>5. /\ writer[p]' = [step |-> "open", dir |-> dir, at |-> 1]
      /\ made[p]' = made[p] + 1
      /\ resource_directory[p]' = dir
  BY <1>1, <1>2, <1>3 DEF TypeOK
<1>6. files[dir] = NoFiles
  BY <1>1, <1>3, <1>4 DEF ProcessOK, DirectoriesOK
<1> HIDE DEF dir
<1>7. TypeOK'
  BY <1>1, <1>2, <1>3, <1>4, <1>5, DirectoryFacts DEF TypeOK, ShortIn
<1>8. files' \in Files /\ FilesElsewhere(p) /\ FilesInPlaceAreFinished'
  BY SameFiles
<1>9. \A q \in Procs \ {p}, n \in 1 .. MaxFailures + 1 : dir # Private(q, n)
  BY <1>3, DirectoryFacts DEF dir
<1>10. Elsewhere(p)
  BY <1>1, <1>2, <1>8, <1>9 DEF Elsewhere, TypeOK
<1>11. Threads(p)'
  BY <1>1, <1>2 DEF ProcessOK, Threads, DbsOf
<1>12. InAttempt(p)'
  BY <1>5 DEF InAttempt
<1>13. PlaceOK(p)'
  BY <1>2, <1>3, <1>5, <1>12 DEF PlaceOK, dir
<1>14. \A i \in PluginInfos : registry[p][i] # dir
  BY <1>1, <1>2, <1>3, <1>4, DirectoryFacts DEF ProcessOK, RegistryOK, dir
<1>15. WrittenOK(p)'
  <2>1. p \notin registered' /\ damaged[p]' \subseteq Resources
    BY <1>1 DEF TypeOK, ShortIn
  <2> QED BY <1>5, <1>14, <2>1 DEF WrittenOK, Resources
<1>16. DirectoriesOK(p)'
  <2>1. \A n \in 1 .. MaxFailures + 1 : made[p] + 1 < n =>
           /\ Private(p, n) # dir
           /\ Private(p, n) \notin directories /\ files[Private(p, n)] = NoFiles
    BY <1>1, <1>3, DirectoryFacts DEF ProcessOK, DirectoriesOK, dir
  <2> QED
    BY <1>1, <1>2, <1>3, <1>5, <2>1 DEF DirectoriesOK, dir
<1>17. RegistryOK(p)'
  BY <1>1, <1>3, <1>5 DEF ProcessOK, RegistryOK, InPlace
<1>18. AttemptsCounted(p)'
  <2>1. \A R : R \subseteq Resources => ~Damaged(p, R)'
    <3> SUFFICES ASSUME NEW R, R \subseteq Resources PROVE ~Damaged(p, R)'
      OBVIOUS
    <3>1. \A r \in R, n \in {"path", TemporaryName(p)} : files[dir][r][n] = None
      BY <1>6, NameFacts DEF NoFiles
    <3>2. None # "short"
      BY DirectoryFacts DEF Contents
    <3> QED BY <1>5, <3>1, <3>2 DEF Damaged, TemporaryName
  <2>2. DamagedBefore(p)' => DamagedBefore(p)
    BY <1>3, <1>5 DEF DamagedBefore, InPlace
  <2>3. ~Damaged(p, PluginInfos)' /\ ~Damaged(p, Resources \ PluginInfos)'
    BY <2>1, DirectoryFacts
  <2> QED BY <1>2, <1>3, <1>5, <1>12, <2>2, <2>3 DEF AttemptsCounted, One
<1>19. ProcessOK(p)'
  BY <1>11, <1>13, <1>15, <1>16, <1>17, <1>18 DEF ProcessOK
<1> QED BY <1>7, <1>8, <1>10, <1>19, OneProcess

LEMMA CreateStep ==
    ASSUME IInv, NEW p \in Procs, CreateResourceDirectory(p)
    PROVE  IInv'
<1>1. /\ writer[p].step = "create"
      /\ UNCHANGED <<configured, files, up, registered, registry, read, delegate>>
  BY DEF CreateResourceDirectory
<1>2. CASE /\ UseConfigured(p) /\ UNCHANGED <<load, failures>>
           /\ damaged' = [damaged EXCEPT ![p] = ShortIn(writer'[p].dir)]
  BY <1>1, <1>2, UseConfiguredStep
<1>3. CASE /\ MakePrivate(p) /\ UNCHANGED <<load, failures>>
           /\ damaged' = [damaged EXCEPT ![p] = ShortIn(writer'[p].dir)]
  BY <1>1, <1>3, MakePrivateStep
<1>4. CASE FailingCall /\ Throw(p) /\ UNCHANGED <<made, directories, resource_directory, damaged>>
  <2>1. /\ configured' = configured /\ directories' = directories /\ up' = up
        /\ registered' = registered /\ process' = process
        /\ files' = files /\ damaged' = damaged /\ writer[p].step # "idle"
    BY <1>1, <1>4 DEF process
  <2>2. files' \in Files /\ FilesElsewhere(p) /\ FilesInPlaceAreFinished'
    BY <2>1, SameFiles
  <2> QED BY <1>4, <2>1, <2>2, FailedCall
<1> QED BY <1>2, <1>3, <1>4 DEF CreateResourceDirectory

LEMMA ExitStep ==
    ASSUME IInv, NEW p \in Procs, Exit(p)
    PROVE  IInv'
<1> DEFINE dir == resource_directory[p]
<1>1. TypeOK /\ ProcessOK(p) /\ MaxFailures \in Nat
  BY ResourceAssumption DEF IInv
<1>2. /\ p \in up /\ \A d \in DbsOf(p) : load[d] \in {"none", "loaded"}
      /\ up' = up \ {p}
      /\ directories' = directories \ {dir}
      /\ files' = IF dir = None THEN files ELSE [files EXCEPT ![dir] = NoFiles]
      /\ UNCHANGED <<configured, load, registered, writer, made, resource_directory,
                     registry, read, delegate, failures, damaged>>
  BY DEF Exit, process
<1>3. /\ writer[p].step = "idle"
      /\ ~InAttempt(p)
  BY <1>1, <1>2 DEF ProcessOK, Threads, InAttempt
<1>4. /\ made[p] \in 0 .. MaxFailures + 1
      /\ dir # None => dir = Private(p, made[p]) /\ made[p] \in 1 .. MaxFailures + 1
  BY <1>1 DEF ProcessOK, DirectoriesOK, TypeOK
<1>5. NoFiles \in [Resources -> [Names -> Contents \cup {None}]]
  BY DEF NoFiles
<1>6. /\ files' \in Files
      /\ \A d \in Directories : d # dir => files'[d] = files[d]
      /\ dir # None => files'[dir] = NoFiles /\ dir \in Directories
  BY <1>1, <1>2, <1>4, <1>5, DirectoryFacts DEF TypeOK, Files
<1>7. TypeOK'
  BY <1>1, <1>2, <1>6 DEF TypeOK, Files
<1>8. FilesElsewhere(p)
  BY <1>1, <1>4, <1>6, DirectoryFacts DEF FilesElsewhere
<1>9. FilesInPlaceAreFinished'
  <2> SUFFICES ASSUME NEW d \in Directories, NEW r \in Resources
               PROVE  files'[d][r]["path"] # "partial"
    BY DEF FilesInPlaceAreFinished, InPlace
  <2>1. CASE d = dir
    BY <1>6, <2>1, DirectoryFacts, NameFacts DEF NoFiles, Contents
  <2>2. CASE d # dir
    BY <1>6, <2>2 DEF IInv, FilesInPlaceAreFinished, InPlace
  <2> QED BY <2>1, <2>2
<1>10. Elsewhere(p)
  BY <1>1, <1>2, <1>8 DEF Elsewhere, TypeOK
<1>11. Threads(p)'
  BY <1>1, <1>2 DEF ProcessOK, Threads, DbsOf
<1>12. PlaceOK(p)' /\ WrittenOK(p)'
  BY <1>1, <1>2, <1>3 DEF ProcessOK, PlaceOK, WrittenOK, InAttempt
<1>13. DirectoriesOK(p)'
  <2>1. \A n \in 1 .. MaxFailures + 1 : made[p] < n => files'[Private(p, n)] = files[Private(p, n)]
    BY <1>1, <1>4, <1>6, DirectoryFacts
  <2> QED BY <1>1, <1>2, <2>1 DEF ProcessOK, DirectoriesOK
<1>14. RegistryOK(p)'
  BY <1>1, <1>2 DEF ProcessOK, RegistryOK
<1>15. DamagedBefore(p)' => DamagedBefore(p)
  <2>1. \A d \in Directories, r \in Resources : files'[d][r]["path"] = "short" =>
           files[d][r]["path"] = "short"
    BY <1>6, DirectoryFacts, NameFacts DEF NoFiles, Contents
  <2>2. \A i \in PluginInfos : registry[p][i] \in Directories \cup {None}
    BY <1>1 DEF TypeOK
  <2> QED BY <1>2, <2>1, <2>2, DirectoryFacts DEF DamagedBefore, InPlace
<1>16. AttemptsCounted(p)'
  BY <1>1, <1>2, <1>3, <1>4, <1>15 DEF ProcessOK, AttemptsCounted, InAttempt, One, TypeOK
<1>17. ProcessOK(p)'
  BY <1>11, <1>12, <1>13, <1>14, <1>16 DEF ProcessOK
<1> QED BY <1>7, <1>9, <1>10, <1>17, OneProcess

LEMMA KillStep ==
    ASSUME IInv, NEW p \in Procs, Kill(p)
    PROVE  IInv'
<1>1. TypeOK /\ ProcessOK(p) /\ MaxFailures \in Nat
  BY ResourceAssumption DEF IInv
<1>2. /\ p \in up /\ failures < MaxFailures /\ failures' = failures + 1
      /\ load' = [d \in Dbs |-> IF ProcOf[d] = p THEN "none" ELSE load[d]]
      /\ registered' = registered \ {p}
      /\ writer' = [writer EXCEPT ![p] = [step |-> "idle", dir |-> None, at |-> 1]]
      /\ resource_directory' = [resource_directory EXCEPT ![p] = None]
      /\ registry' = [registry EXCEPT ![p] = NoPlugins]
      /\ read' = [read EXCEPT ![p] = Unread]
      /\ delegate' = [delegate EXCEPT ![p] = 0]
      /\ UNCHANGED <<configured, files, directories, up, made, damaged>>
  BY DEF Kill, FailingCall, disk, Idle
<1>3. /\ writer[p]' = [step |-> "idle", dir |-> None, at |-> 1]
      /\ resource_directory[p]' = None
      /\ registry[p]' = NoPlugins
      /\ read[p]' = Unread
  BY <1>1, <1>2 DEF TypeOK
<1>4. /\ failures \in Nat /\ failures' \in 0 .. MaxFailures /\ made[p] \in Nat
  BY <1>1, <1>2 DEF TypeOK
<1>5. TypeOK'
  <2>1. /\ NoPlugins \in [PluginInfos -> Directories \cup {None}]
        /\ Unread \in [Resources -> Contents \cup {None}]
    BY DEF NoPlugins, Unread
  <2> QED BY <1>1, <1>2, <1>4, <2>1, DirectoryFacts DEF TypeOK
<1>6. files' \in Files /\ FilesElsewhere(p) /\ FilesInPlaceAreFinished'
  BY <1>2, SameFiles
<1>7. Elsewhere(p)
  BY <1>1, <1>2, <1>4, <1>6 DEF Elsewhere, DbsOf, TypeOK
<1>8. Threads(p)'
  BY <1>2, <1>3 DEF Threads, DbsOf
<1>9. ~InAttempt(p)'
  BY <1>3 DEF InAttempt
<1>10. PlaceOK(p)' /\ WrittenOK(p)'
  <2>1. p \notin registered'
    BY <1>2
  <2> QED BY <1>3, <1>9, <2>1 DEF PlaceOK, WrittenOK
<1>11. DirectoriesOK(p)'
  BY <1>1, <1>2, <1>3 DEF ProcessOK, DirectoriesOK
<1>12. \A i \in PluginInfos : registry[p]'[i] = None
  BY <1>3 DEF NoPlugins
<1>13. RegistryOK(p)' /\ ~DamagedBefore(p)'
  BY <1>12, DirectoryFacts DEF RegistryOK, DamagedBefore
<1>14. AttemptsCounted(p)'
  BY <1>1, <1>2, <1>4, <1>9, <1>13 DEF ProcessOK, AttemptsCounted, One
<1>15. ProcessOK(p)'
  BY <1>8, <1>10, <1>11, <1>13, <1>14 DEF ProcessOK
<1> QED BY <1>5, <1>6, <1>7, <1>15, OneProcess

-----------------------------------------------------------------------------
(* Writing the resources *)

LEMMA AbandonStep ==
    ASSUME IInv, NEW p \in Procs, InAttempt(p), Abandon(p),
           configured' = configured, directories' = directories, up' = up,
           registered' = registered, process' = process, damaged' = damaged
    PROVE  IInv'
<1>1. Throw(p) /\ FailingCall /\ SetFile(p, TemporaryName(p), None) /\ writer[p].step # "idle"
  BY DEF Abandon, InAttempt
<1>2. /\ files' \in Files /\ FilesElsewhere(p) /\ FilesInPlaceAreFinished'
      /\ \A d \in Directories, r \in Resources : files'[d][r]["path"] = files[d][r]["path"]
      /\ \A d \in Directories : d # writer[p].dir => files'[d] = files[d]
  BY <1>1, SetTemporary
<1> QED BY <1>1, <1>2, FailedCall

\* The temporary file is opened or written, well or (at the cost of a failure) short
LEMMA TemporaryStep ==
    ASSUME IInv, NEW p \in Procs, writer[p].step \in {"open", "write"},
           NEW c \in Contents, NEW s, SetFile(p, TemporaryName(p), c), Goto(p, s),
           \/ s = "write" /\ c = "partial"
           \/ s = "rename" /\ c \in {"whole", "short"},
           failures' \in 0 .. MaxFailures,
           failures' = failures + One(c = "short"),
           configured' = configured, directories' = directories, up' = up, load' = load,
           registered' = registered, process' = process, damaged' = damaged
    PROVE  IInv'
<1> DEFINE w == writer[p]
<1>1. /\ TypeOK /\ ProcessOK(p) /\ MaxFailures \in Nat /\ p \in up /\ p \notin registered
      /\ InAttempt(p) /\ w.dir \in Directories
      /\ \A n \in 1 .. MaxFailures + 1 : made[p] < n => w.dir # Private(p, n)
  BY ResourceAssumption, Attempt DEF IInv
<1>2. /\ made' = made /\ resource_directory' = resource_directory
      /\ registry' = registry /\ read' = read /\ delegate' = delegate
  BY DEF process
<1>3. /\ files' \in Files /\ FilesElsewhere(p) /\ FilesInPlaceAreFinished'
      /\ \A d \in Directories, r \in Resources : files'[d][r]["path"] = files[d][r]["path"]
      /\ \A r \in Resources :
           files'[w.dir][r][TemporaryName(p)] =
             IF r = w.at THEN c ELSE files[w.dir][r][TemporaryName(p)]
      /\ \A d \in Directories : d # w.dir => files'[d] = files[d]
  BY <1>1, SetTemporary
<1>4. /\ writer' = [writer EXCEPT ![p] = [w EXCEPT !.step = s]]
      /\ w.at \in Resources /\ s \in Steps
      /\ w.dir \in Directories \cup {None}
      /\ failures \in 0 .. MaxFailures /\ made[p] \in Nat
  BY <1>1 DEF Goto, TypeOK, Steps
<1>5. writer[p]' = [step |-> s, dir |-> w.dir, at |-> w.at]
  BY <1>1, <1>4 DEF TypeOK
<1>6. TypeOK'
  BY <1>1, <1>2, <1>3, <1>4, <1>5 DEF TypeOK, Files, Steps
<1>7. Elsewhere(p)
  BY <1>1, <1>2, <1>3, <1>4 DEF Elsewhere, TypeOK, One
<1>8. Threads(p)'
  BY <1>1 DEF ProcessOK, Threads, DbsOf
<1>9. InAttempt(p)'
  BY <1>5 DEF InAttempt
<1>10. PlaceOK(p)'
  BY <1>1, <1>2, <1>5, <1>9 DEF ProcessOK, PlaceOK
<1>11. WrittenOK(p)'
  <2>1. \A r \in Resources : r < w.at => InPlace(w.dir, r) # None
    BY <1>1 DEF ProcessOK, WrittenOK
  <2>2. p \notin configured => \A i \in PluginInfos : registry[p][i] # w.dir
    BY <1>1 DEF ProcessOK, WrittenOK
  <2>3. \A r \in Resources : r < w.at => files'[w.dir][r]["path"] # None
    BY <1>1, <1>3, <2>1 DEF InPlace
  <2>4. files'[w.dir][w.at][TemporaryName(p)] = c
    BY <1>3, <1>4
  <2>5. p \notin registered' /\ \A r \in damaged[p]' : w.at <= r
    BY <1>1 DEF ProcessOK, WrittenOK
  <2> QED BY <1>2, <1>5, <2>2, <2>3, <2>4, <2>5 DEF WrittenOK, InPlace, TemporaryName
<1>12. DirectoriesOK(p)'
  <2>1. \A n \in 1 .. MaxFailures + 1 : made[p] < n => files'[Private(p, n)] = files[Private(p, n)]
    BY <1>1, <1>3, DirectoryFacts
  <2> QED BY <1>1, <1>2, <2>1 DEF ProcessOK, DirectoriesOK
<1>13. \A i \in PluginInfos : registry[p][i] \in Directories \cup {None}
  BY <1>1 DEF TypeOK
<1>14. RegistryOK(p)'
  BY <1>1, <1>2, <1>3, <1>13, DirectoryFacts DEF ProcessOK, RegistryOK, InPlace
<1>15. AttemptsCounted(p)'
  <2>1. DamagedBefore(p)' => DamagedBefore(p)
    BY <1>2, <1>3, <1>5, <1>13, DirectoryFacts DEF DamagedBefore, InPlace
  <2>2. ASSUME NEW R, R \subseteq Resources, Damaged(p, R)'
        PROVE  Damaged(p, R) \/ (c = "short" /\ w.at \in R)
    BY <1>1, <1>3, <1>5, <2>2 DEF Damaged, TemporaryName
  <2>3. /\ Damaged(p, PluginInfos)' => Damaged(p, PluginInfos) \/ (c = "short" /\ w.at \in PluginInfos)
        /\ Damaged(p, Resources \ PluginInfos)' =>
             Damaged(p, Resources \ PluginInfos) \/ (c = "short" /\ w.at \notin PluginInfos)
    BY <2>2, DirectoryFacts
  <2> QED
    BY <1>1, <1>2, <1>4, <1>9, <2>1, <2>3 DEF ProcessOK, AttemptsCounted, One
<1>16. ProcessOK(p)'
  BY <1>8, <1>10, <1>11, <1>12, <1>14, <1>15 DEF ProcessOK
<1> QED BY <1>3, <1>6, <1>7, <1>16, OneProcess

LEMMA OpenTemporaryStep ==
    ASSUME IInv, NEW p \in Procs, OpenTemporary(p)
    PROVE  IInv'
<1>1. /\ writer[p].step = "open"
      /\ configured' = configured /\ directories' = directories /\ up' = up
      /\ registered' = registered /\ process' = process /\ damaged' = damaged
      /\ failures \in 0 .. MaxFailures /\ "partial" \in Contents
  BY DEF OpenTemporary, process, IInv, TypeOK, Contents
<1>2. CASE SetFile(p, TemporaryName(p), "partial") /\ Goto(p, "write") /\ UNCHANGED <<load, failures>>
  <2>1. load' = load /\ failures' \in 0 .. MaxFailures /\ failures' = failures + One("partial" = "short")
    BY <1>1, <1>2 DEF One
  <2> QED BY <1>1, <1>2, <2>1, TemporaryStep
<1>3. CASE FailingCall /\ Throw(p) /\ UNCHANGED files
  <2>1. files' \in Files /\ FilesElsewhere(p) /\ FilesInPlaceAreFinished'
    BY <1>3, SameFiles
  <2> QED BY <1>1, <1>3, <2>1, FailedCall
<1> QED BY <1>2, <1>3 DEF OpenTemporary

LEMMA WriteStep ==
    ASSUME IInv, NEW p \in Procs, Write(p)
    PROVE  IInv'
<1>1. /\ writer[p].step = "write" /\ InAttempt(p)
      /\ configured' = configured /\ directories' = directories /\ up' = up
      /\ registered' = registered /\ process' = process /\ damaged' = damaged
      /\ failures \in 0 .. MaxFailures /\ {"whole", "short"} \subseteq Contents
      /\ MaxFailures \in Nat
  BY ResourceAssumption DEF Write, process, IInv, TypeOK, Contents, InAttempt
<1>2. CASE SetFile(p, TemporaryName(p), "whole") /\ Goto(p, "rename") /\ UNCHANGED <<load, failures>>
  <2>1. load' = load /\ failures' \in 0 .. MaxFailures /\ failures' = failures + One("whole" = "short")
    BY <1>1, <1>2 DEF One
  <2> QED BY <1>1, <1>2, <2>1, TemporaryStep
<1>3. CASE /\ FailingCall /\ SetFile(p, TemporaryName(p), "short") /\ Goto(p, "rename")
           /\ UNCHANGED load
  <2>1. load' = load /\ failures' \in 0 .. MaxFailures /\ failures' = failures + One("short" = "short")
    BY <1>1, <1>3 DEF One, FailingCall
  <2> QED BY <1>1, <1>3, <2>1, TemporaryStep
<1>4. CASE Abandon(p)
  BY <1>1, <1>4, AbandonStep
<1> QED BY <1>2, <1>3, <1>4 DEF Write

\* What renaming the temporary file into place does to the files
LEMMA RenameEffect ==
    ASSUME IInv, NEW p \in Procs, InAttempt(p), NEW c \in {"whole", "short"},
           files[writer[p].dir][writer[p].at][TemporaryName(p)] = c,
           files' = [files EXCEPT ![writer[p].dir][writer[p].at] =
                       [@ EXCEPT ![TemporaryName(p)] = None, !["path"] = c]]
    PROVE  /\ files' \in Files /\ FilesElsewhere(p) /\ FilesInPlaceAreFinished'
           /\ \A d \in Directories, r \in Resources :
                files'[d][r]["path"] = IF d = writer[p].dir /\ r = writer[p].at
                                       THEN c ELSE files[d][r]["path"]
           /\ \A r \in Resources :
                files'[writer[p].dir][r][TemporaryName(p)] =
                  IF r = writer[p].at THEN None ELSE files[writer[p].dir][r][TemporaryName(p)]
           /\ \A d \in Directories : d # writer[p].dir => files'[d] = files[d]
<1> DEFINE w == writer[p]
           t == TemporaryName(p)
           g == [files[w.dir][w.at] EXCEPT ![t] = None, !["path"] = c]
           h == [files[w.dir] EXCEPT ![w.at] = g]
<1>1. /\ files \in Files /\ w.dir \in Directories /\ w.at \in Resources /\ c \in Contents
      /\ \A q \in Procs \ {p}, n \in 1 .. MaxFailures + 1 : w.dir # Private(q, n)
  BY Attempt DEF IInv, TypeOK, Files, InAttempt, Contents
<1>2. /\ g \in [Names -> Contents \cup {None}]
      /\ \A m \in Names : g[m] = IF m = "path" THEN c ELSE IF m = t THEN None
                                 ELSE files[w.dir][w.at][m]
  <2> DEFINE f == files[w.dir][w.at]
             f1 == [f EXCEPT ![t] = None]
  <2>1. f \in [Names -> Contents \cup {None}]
    BY <1>1 DEF Files
  <2>2. t \in Names /\ "path" \in Names /\ t # "path"
    BY NameFacts
  <2>3. g = [f1 EXCEPT !["path"] = c]
    OBVIOUS
  <2>4. /\ f1 \in [Names -> Contents \cup {None}]
        /\ \A m \in Names : f1[m] = IF m = t THEN None ELSE f[m]
    BY <2>1
  <2> HIDE DEF f1
  <2> QED BY <1>1, <2>2, <2>3, <2>4
<1>3. files' = [files EXCEPT ![w.dir] = h]
  OBVIOUS
<1> HIDE DEF g
<1>4. /\ h \in [Resources -> [Names -> Contents \cup {None}]]
      /\ \A r \in Resources : h[r] = IF r = w.at THEN g ELSE files[w.dir][r]
  BY <1>1, <1>2 DEF Files
<1> HIDE DEF h
<1>5. /\ files' \in Files
      /\ \A d \in Directories : files'[d] = IF d = w.dir THEN h ELSE files[d]
  BY <1>1, <1>3, <1>4 DEF Files
<1>6. \A d \in Directories, r \in Resources, m \in Names :
        files'[d][r][m] = IF d = w.dir /\ r = w.at
                          THEN IF m = "path" THEN c ELSE IF m = t THEN None ELSE files[d][r][m]
                          ELSE files[d][r][m]
  BY <1>1, <1>2, <1>4, <1>5
<1>7. \A d \in Directories, r \in Resources :
        files'[d][r]["path"] = IF d = w.dir /\ r = w.at THEN c ELSE files[d][r]["path"]
  BY <1>6, NameFacts
<1>8. \A r \in Resources :
        files'[w.dir][r][t] = IF r = w.at THEN None ELSE files[w.dir][r][t]
  BY <1>1, <1>6, NameFacts
<1>9. \A d \in Directories : d # w.dir => files'[d] = files[d]
  BY <1>5
<1>10. FilesElsewhere(p)
  <2>1. \A q \in Procs \ {p}, n \in 1 .. MaxFailures + 1 : files'[Private(q, n)] = files[Private(q, n)]
    BY <1>1, <1>9, DirectoryFacts
  <2>2. \A q \in Procs \ {p} : TemporaryName(q) \in Names /\ TemporaryName(q) # "path"
                               /\ TemporaryName(q) # t
    BY NameFacts
  <2>3. \A q \in Procs \ {p}, r \in Resources :
          files'[Shared][r][TemporaryName(q)] = files[Shared][r][TemporaryName(q)]
    BY <1>6, <2>2, DirectoryFacts
  <2>4. \A r \in Resources :
          files'[Shared][r]["path"] \in {files[Shared][r]["path"], "whole", "short"}
    BY <1>7, DirectoryFacts
  <2> QED BY <2>1, <2>3, <2>4 DEF FilesElsewhere
<1>11. FilesInPlaceAreFinished'
  BY <1>7 DEF IInv, FilesInPlaceAreFinished, InPlace
<1> QED BY <1>5, <1>7, <1>8, <1>9, <1>10, <1>11

LEMMA RenameStep ==
    ASSUME IInv, NEW p \in Procs, Rename(p)
    PROVE  IInv'
<1> DEFINE w == writer[p]
           c == files[w.dir][w.at][TemporaryName(p)]
<1>1. /\ TypeOK /\ ProcessOK(p) /\ MaxFailures \in Nat /\ p \in up /\ p \notin registered
      /\ w.step = "rename" /\ InAttempt(p) /\ w.dir \in Directories /\ w.at \in Resources
      /\ \A n \in 1 .. MaxFailures + 1 : made[p] < n => w.dir # Private(p, n)
  BY ResourceAssumption, Attempt DEF IInv, Rename, InAttempt, TypeOK
<1>2. /\ configured' = configured /\ directories' = directories /\ up' = up
      /\ registered' = registered /\ process' = process
      /\ made' = made /\ resource_directory' = resource_directory
      /\ registry' = registry /\ read' = read /\ delegate' = delegate
  BY DEF Rename, process
<1>3. c \in {"whole", "short"}
  BY <1>1 DEF ProcessOK, WrittenOK
<1>4. CASE Abandon(p) /\ damaged' = damaged
  BY <1>1, <1>2, <1>4, AbandonStep
<1>5. CASE /\ files' = [files EXCEPT ![w.dir][w.at] =
                         [@ EXCEPT ![TemporaryName(p)] = None, !["path"] = c]]
           /\ NextResource(p) /\ load' = load /\ failures' = failures
           /\ damaged' = [damaged EXCEPT ![p] = @ \ {w.at}]
  <2>1. /\ files' \in Files /\ FilesElsewhere(p) /\ FilesInPlaceAreFinished'
        /\ \A d \in Directories, r \in Resources :
             files'[d][r]["path"] = IF d = w.dir /\ r = w.at THEN c ELSE files[d][r]["path"]
        /\ \A r \in Resources :
             files'[w.dir][r][TemporaryName(p)] =
               IF r = w.at THEN None ELSE files[w.dir][r][TemporaryName(p)]
        /\ \A d \in Directories : d # w.dir => files'[d] = files[d]
    BY <1>1, <1>3, <1>5, RenameEffect
  <2>2. c # None /\ None # "short"
    BY <1>3, DirectoryFacts DEF Contents
  <2>3. w.at \in 1 .. Count /\ Count \in Nat
    BY <1>1, ResourceAssumption DEF Resources
  <2>4. /\ \/ w.at < Count /\ writer[p]' = [step |-> "open", dir |-> w.dir, at |-> w.at + 1]
           \/ w.at = Count /\ writer[p]' = [step |-> "register", dir |-> w.dir, at |-> w.at]
        /\ writer' \in [Procs -> [step : Steps, dir : Directories \cup {None}, at : Resources]]
        /\ \A q \in Procs \ {p} : writer'[q] = writer[q]
    <3>1. CASE w.at < Count
      <4>1. writer' = [writer EXCEPT ![p].step = "open", ![p].at = @ + 1]
        BY <1>5, <2>3, <3>1 DEF NextResource
      <4>2. writer[p].at + 1 \in Resources
        BY <2>3, <3>1 DEF Resources
      <4>3. /\ writer \in [Procs -> [step : Steps, dir : Directories \cup {None}, at : Resources]]
            /\ "open" \in Steps /\ p \in Procs
        BY <1>1 DEF TypeOK, Steps
      <4>4. writer[p]' = [step |-> "open", dir |-> w.dir, at |-> w.at + 1]
        BY <4>1, <4>3
      <4>5. writer[p]' \in [step : Steps, dir : Directories \cup {None}, at : Resources]
        BY <4>2, <4>3, <4>4
      <4>6. DOMAIN writer' = Procs /\ \A q \in Procs \ {p} : writer'[q] = writer[q]
        BY <4>1, <4>3
      <4>7. writer' = [q \in Procs |-> writer'[q]]
        BY <4>1, <4>3
      <4>8. writer' \in [Procs -> [step : Steps, dir : Directories \cup {None}, at : Resources]]
        BY <4>3, <4>5, <4>6, <4>7
      <4> QED BY <3>1, <4>4, <4>6, <4>8
    <3>2. CASE w.at = Count
      <4>1. writer' = [writer EXCEPT ![p].step = "register"]
        BY <1>5, <2>3, <3>2 DEF NextResource, Goto
      <4> QED BY <1>1, <3>2, <4>1 DEF TypeOK, Steps
    <3> QED BY <2>3, <3>1, <3>2
  <2>5. /\ damaged' \in [Procs -> SUBSET Resources] /\ damaged[p]' = damaged[p] \ {w.at}
         /\ \A q \in Procs \ {p} : damaged'[q] = damaged[q]
    BY <1>1, <1>5 DEF TypeOK
  <2>6. \A r \in damaged[p] : r \in 1 .. Count /\ w.at <= r
    BY <1>1 DEF TypeOK, ProcessOK, WrittenOK, Resources
  <2>7. TypeOK'
    BY <1>1, <1>2, <1>5, <2>1, <2>4, <2>5 DEF TypeOK, Files, Steps
  <2>8. writer[p]'.dir = w.dir /\ writer[p]'.step \in {"open", "register"}
    BY <2>4
  <2>9. Elsewhere(p)
    <3>1. failures \in Nat /\ failures' = failures /\ load' = load
      BY <1>1, <1>5 DEF TypeOK
    <3>2. failures' \in Nat /\ failures <= failures'
      BY <3>1
    <3> QED BY <1>2, <2>1, <2>4, <2>5, <3>1, <3>2 DEF Elsewhere
  <2>10. Threads(p)'
    BY <1>1, <1>2, <1>5 DEF ProcessOK, Threads, DbsOf
  <2>11. InAttempt(p)' /\ writer[p]'.dir = w.dir
    BY <2>8 DEF InAttempt
  <2>12. PlaceOK(p)'
    BY <1>1, <1>2, <2>11 DEF ProcessOK, PlaceOK
  <2>13. \A r \in Resources : r < w.at \/ r = w.at => files'[w.dir][r]["path"] # None
    BY <1>1, <2>1, <2>2 DEF ProcessOK, WrittenOK, InPlace
  <2>14. WrittenOK(p)'
    <3>1. p \notin configured => \A i \in PluginInfos : registry[p][i] # w.dir
      BY <1>1 DEF ProcessOK, WrittenOK
    <3>2. CASE w.at < Count
      <4>1. \A r \in Resources : r < w.at + 1 => files'[w.dir][r]["path"] # None
        BY <2>3, <2>13 DEF Resources
      <4>2. writer[p]' = [step |-> "open", dir |-> w.dir, at |-> w.at + 1]
        BY <2>3, <2>4, <3>2
      <4>3. \A r \in damaged[p]' : w.at + 1 <= r
        <5> SUFFICES ASSUME NEW r \in damaged[p] \ {w.at} PROVE w.at + 1 <= r
          BY <2>5
        <5>1. r \in damaged[p] /\ r # w.at
          OBVIOUS
        <5>2. r \in 1 .. Count /\ w.at <= r
          BY <2>6, <5>1
        <5> QED BY <2>3, <5>1, <5>2
      <4> QED BY <1>1, <1>2, <3>1, <4>1, <4>2, <4>3 DEF WrittenOK, InPlace
    <3>3. CASE w.at = Count
      <4>1. \A r \in Resources : files'[w.dir][r]["path"] # None
        BY <2>3, <2>13, <3>3 DEF Resources
      <4>2. writer[p]' = [step |-> "register", dir |-> w.dir, at |-> w.at]
        BY <2>3, <2>4, <3>3
      <4>3. damaged[p]' = {}
        <5> SUFFICES ASSUME NEW r \in damaged[p] \ {w.at} PROVE FALSE
          BY <2>5
        <5>1. r \in damaged[p] /\ r # w.at
          OBVIOUS
        <5>2. r \in 1 .. Count /\ w.at <= r
          BY <2>6, <5>1
        <5> QED BY <2>3, <3>3, <5>1, <5>2
      <4> QED BY <1>2, <3>1, <4>1, <4>2, <4>3 DEF WrittenOK, InPlace
    <3> QED BY <2>4, <3>2, <3>3
  <2>15. DirectoriesOK(p)'
    <3>1. \A n \in 1 .. MaxFailures + 1 : made[p] < n =>
             files'[Private(p, n)] = files[Private(p, n)]
      BY <1>1, <2>1, DirectoryFacts
    <3> QED BY <1>1, <1>2, <3>1 DEF ProcessOK, DirectoriesOK
  <2>16. \A i \in PluginInfos : registry[p][i] \in Directories \cup {None}
    BY <1>1 DEF TypeOK
  <2>17. RegistryOK(p)'
    BY <1>1, <1>2, <2>1, <2>2, <2>16, DirectoryFacts DEF ProcessOK, RegistryOK, InPlace
  <2>18. AttemptsCounted(p)'
    <3>1. DamagedBefore(p)' => DamagedBefore(p)
      BY <1>2, <2>1, <2>11, <2>16, DirectoryFacts DEF DamagedBefore, InPlace
    <3>2. ASSUME NEW R, R \subseteq Resources, Damaged(p, R)'
          PROVE  Damaged(p, R)
      <4>1. \A r \in R, n \in {"path", TemporaryName(p)} :
              files'[w.dir][r][n] = "short" =>
                \E m \in {"path", TemporaryName(p)} : files[w.dir][r][m] = "short"
        BY <1>1, <2>1, <2>2, <3>2, NameFacts
      <4> QED BY <2>11, <3>2, <4>1 DEF Damaged, TemporaryName
    <3>3. /\ Damaged(p, PluginInfos)' => Damaged(p, PluginInfos)
          /\ Damaged(p, Resources \ PluginInfos)' => Damaged(p, Resources \ PluginInfos)
      BY <3>2, DirectoryFacts
    <3>4. made[p] \in Nat /\ failures \in Nat
      BY <1>1 DEF TypeOK
    <3> QED BY <1>1, <1>2, <1>5, <2>11, <3>1, <3>3, <3>4 DEF ProcessOK, AttemptsCounted, One
  <2>19. ProcessOK(p)'
    BY <2>10, <2>12, <2>14, <2>15, <2>17, <2>18 DEF ProcessOK
  <2> QED BY <2>1, <2>7, <2>9, <2>19, OneProcess
<1> QED BY <1>4, <1>5 DEF Rename

-----------------------------------------------------------------------------
(* Registering the plugins and touching them *)

\* The resources of an attempt that wrote them all are in place, finished
LEMMA AllWritten ==
    ASSUME IInv, NEW p \in Procs, writer[p].step \in {"register", "touch"}
    PROVE  \A r \in Resources : InPlace(writer[p].dir, r) \in {"whole", "short"}
<1>1. writer[p].dir \in Directories /\ TypeOK /\ ProcessOK(p)
  BY Attempt DEF IInv, InAttempt
<1>2. \A r \in Resources : /\ InPlace(writer[p].dir, r) # None
                           /\ InPlace(writer[p].dir, r) # "partial"
                           /\ InPlace(writer[p].dir, r) \in Contents \cup {None}
  BY <1>1, NameFacts DEF IInv, ProcessOK, WrittenOK, FilesInPlaceAreFinished, InPlace, TypeOK
<1> QED BY <1>2 DEF Contents

LEMMA RegisterStep ==
    ASSUME IInv, NEW p \in Procs, Register(p)
    PROVE  IInv'
<1> DEFINE w == writer[p]
<1>1. /\ TypeOK /\ ProcessOK(p) /\ MaxFailures \in Nat /\ p \in up /\ p \notin registered
      /\ w.step = "register" /\ InAttempt(p) /\ w.dir \in Directories /\ w.at \in Resources
  BY ResourceAssumption, Attempt DEF IInv, Register, InAttempt, TypeOK
<1>2. /\ registry' = [registry EXCEPT ![p] = Registered(p)]
      /\ configured' = configured /\ files' = files /\ directories' = directories /\ up' = up
      /\ registered' = registered /\ made' = made /\ resource_directory' = resource_directory
      /\ read' = read /\ delegate' = delegate /\ failures' = failures /\ damaged' = damaged
  BY DEF Register, disk
<1>3. /\ made[p] \in Nat /\ failures \in 0 .. MaxFailures
      /\ \A i \in PluginInfos : registry[p][i] \in Directories \cup {None}
  BY <1>1 DEF TypeOK
<1>4. /\ Registered(p) \in [PluginInfos -> Directories \cup {None}]
      /\ \A i \in PluginInfos :
           Registered(p)[i] = IF registry[p][i] = None /\ InPlace(w.dir, i) = "whole"
                              THEN w.dir ELSE registry[p][i]
  BY <1>1, <1>3 DEF Registered
<1>5. /\ registry' \in [Procs -> [PluginInfos -> Directories \cup {None}]]
      /\ registry[p]' = Registered(p)
      /\ \A q \in Procs \ {p} : registry'[q] = registry[q]
  BY <1>1, <1>2, <1>4 DEF TypeOK
<1>6. /\ \A r \in Resources : InPlace(w.dir, r) \in {"whole", "short"}
      /\ w.dir # None
      /\ None \notin {"whole", "short"}
  BY <1>1, AllWritten, DirectoryFacts DEF Contents
<1>7. /\ w.dir = IF p \in configured THEN Shared ELSE Private(p, made[p])
      /\ p \notin configured => made[p] >= 1
      /\ p \notin configured => \A i \in PluginInfos : registry[p][i] # w.dir
  BY <1>1 DEF ProcessOK, PlaceOK, WrittenOK
<1>8. RegistryOK(p)'
  <2> SUFFICES ASSUME NEW i \in PluginInfos, Registered(p)[i] # None
               PROVE  /\ \/ Registered(p)[i] = Shared /\ p \in configured
                         \/ \E n \in 1 .. made[p] : Registered(p)[i] = Private(p, n)
                      /\ \A r \in Resources : InPlace(Registered(p)[i], r) # None
    BY <1>2, <1>5 DEF RegistryOK, InPlace
  <2>1. CASE Registered(p)[i] = w.dir
    BY <1>3, <1>6, <1>7, <2>1
  <2>2. CASE Registered(p)[i] = registry[p][i]
    BY <1>1, <2>2 DEF ProcessOK, RegistryOK
  <2> QED BY <1>4, <2>1, <2>2
<1>9. files' \in Files /\ FilesElsewhere(p) /\ FilesInPlaceAreFinished'
  BY <1>2, SameFiles
<1>10. CASE (\A r \in PluginInfos : Registered(p)[r] # None) /\ Goto(p, "touch") /\ load' = load
  <2>1. writer' = [writer EXCEPT ![p] = [step |-> "touch", dir |-> w.dir, at |-> w.at]]
    <3>1. w = [step |-> w.step, dir |-> w.dir, at |-> w.at]
      BY <1>1 DEF TypeOK
    <3>2. [w EXCEPT !.step = "touch"] = [step |-> "touch", dir |-> w.dir, at |-> w.at]
      BY <3>1
    <3> QED BY <1>10, <3>2 DEF Goto
  <2>2. writer[p]' = [step |-> "touch", dir |-> w.dir, at |-> w.at]
    BY <1>1, <2>1 DEF TypeOK
  <2>3. TypeOK'
    BY <1>1, <1>2, <1>5, <1>10, <2>1 DEF TypeOK
  <2>4. Elsewhere(p)
    BY <1>1, <1>2, <1>3, <1>5, <1>9, <1>10, <2>1 DEF Elsewhere, TypeOK
  <2>5. Threads(p)'
    BY <1>1, <1>2, <1>10 DEF ProcessOK, Threads, DbsOf
  <2>6. InAttempt(p)'
    BY <2>2 DEF InAttempt
  <2>7. PlaceOK(p)'
    BY <1>2, <1>7, <2>2, <2>6 DEF PlaceOK
  <2>8. WrittenOK(p)'
    <3>1. damaged[p]' = {}
      BY <1>1, <1>2 DEF ProcessOK, WrittenOK
    <3> QED BY <1>2, <1>5, <1>6, <1>10, <2>2, <3>1 DEF WrittenOK, InPlace
  <2>9. DirectoriesOK(p)'
    BY <1>1, <1>2 DEF ProcessOK, DirectoriesOK
  <2>10. AttemptsCounted(p)'
    <3>1. DamagedBefore(p)' => DamagedBefore(p)
      BY <1>2, <1>4, <1>5, <2>2, DirectoryFacts DEF DamagedBefore, InPlace
    <3>2. \A R : Damaged(p, R)' <=> Damaged(p, R)
      BY <1>2, <2>2 DEF Damaged, TemporaryName
    <3> QED BY <1>1, <1>2, <1>3, <2>6, <3>1, <3>2 DEF ProcessOK, AttemptsCounted, One
  <2>11. ProcessOK(p)'
    BY <1>8, <2>5, <2>7, <2>8, <2>9, <2>10 DEF ProcessOK
  <2> QED BY <1>9, <2>3, <2>4, <2>11, OneProcess
<1>11. CASE (\E r \in PluginInfos : Registered(p)[r] = None) /\ Throw(p)
  <2>1. TypeOK'
    BY <1>1, <1>2, <1>5, <1>11, ThrowType DEF TypeOK, Steps
  <2>2. Elsewhere(p)
    BY <1>1, <1>2, <1>3, <1>5, <1>9, <1>11, ThrowType DEF Elsewhere, DbsOf, TypeOK
  <2>3. ASSUME p \notin configured
        PROVE  made[p] + One(DamagedBefore(p)') <= failures'
    <3>1. Damaged(p, PluginInfos)
      <4>1. PICK i \in PluginInfos : Registered(p)[i] = None
        BY <1>11
      <4>2. InPlace(w.dir, i) = "short"
        BY <1>4, <1>6, <4>1, DirectoryFacts
      <4> QED BY <4>2 DEF Damaged, InPlace
    <3>2. DamagedBefore(p)' => DamagedBefore(p) \/ Damaged(p, Resources \ PluginInfos)
      <4> SUFFICES ASSUME read[p] = Unread, NEW r \in Resources,
                          Registered(p)[PluginOf[r]] # None,
                          InPlace(Registered(p)[PluginOf[r]], r) = "short"
                   PROVE  DamagedBefore(p) \/ Damaged(p, Resources \ PluginInfos)
        BY <1>2, <1>5, DirectoryFacts DEF DamagedBefore, InPlace
      <4> DEFINE i == PluginOf[r]
      <4>1. i \in PluginInfos
        BY DirectoryFacts
      <4>2. CASE registry[p][i] # None
        <5>1. registry[p][i] # w.dir
          BY <1>7, <2>3, <4>1
        <5> QED BY <1>4, <4>1, <4>2, <5>1 DEF DamagedBefore
      <4>3. CASE registry[p][i] = None
        <5>1. InPlace(w.dir, i) = "whole" /\ Registered(p)[i] = w.dir
          BY <1>4, <4>1, <4>3
        <5>2. r # i
          BY <5>1
        <5>3. r \in Resources \ PluginInfos
          BY <5>2 DEF PluginInfos
        <5> QED BY <5>1, <5>3 DEF Damaged, InPlace
      <4> QED BY <4>2, <4>3
    <3> QED BY <1>1, <1>2, <1>3, <2>3, <3>1, <3>2 DEF ProcessOK, AttemptsCounted, One
  <2>4. ProcessOK(p)'
    BY <1>1, <1>2, <1>3, <1>8, <1>11, <2>3, ThrowKeeps
  <2> QED BY <1>9, <2>1, <2>2, <2>4, OneProcess
<1> QED BY <1>10, <1>11 DEF Register

LEMMA TouchStep ==
    ASSUME IInv, NEW p \in Procs, Touch(p)
    PROVE  IInv'
<1> DEFINE w == writer[p]
<1>1. /\ TypeOK /\ ProcessOK(p) /\ MaxFailures \in Nat /\ p \in up /\ p \notin registered
      /\ w.step = "touch" /\ InAttempt(p) /\ w.dir \in Directories
  BY ResourceAssumption, Attempt DEF IInv, Touch, InAttempt, TypeOK
<1>2. /\ read' = [read EXCEPT ![p] = Schemas(p)]
      /\ configured' = configured /\ files' = files /\ directories' = directories /\ up' = up
      /\ made' = made /\ resource_directory' = resource_directory
      /\ registry' = registry /\ delegate' = delegate /\ damaged' = damaged
  BY DEF Touch, disk
<1>3. /\ made[p] \in Nat /\ failures \in 0 .. MaxFailures
      /\ read[p] \in [Resources -> Contents \cup {None}]
  BY <1>1 DEF TypeOK
<1>4. \A r \in Resources :
        /\ registry[p][PluginOf[r]] \in Directories
        /\ InPlace(registry[p][PluginOf[r]], r) \in {"whole", "short"}
  <2> SUFFICES ASSUME NEW r \in Resources
               PROVE  /\ registry[p][PluginOf[r]] \in Directories
                      /\ InPlace(registry[p][PluginOf[r]], r) \in {"whole", "short"}
    OBVIOUS
  <2> DEFINE d == registry[p][PluginOf[r]]
  <2>1. PluginOf[r] \in PluginInfos
    BY DirectoryFacts
  <2>2. d # None
    BY <1>1, <2>1 DEF ProcessOK, WrittenOK
  <2>3. d \in Directories
    BY <1>1, <2>1, <2>2 DEF TypeOK
  <2>4. InPlace(d, r) # None
    BY <1>1, <2>1, <2>2 DEF ProcessOK, RegistryOK
  <2>5. InPlace(d, r) # "partial" /\ InPlace(d, r) \in Contents \cup {None}
    BY <1>1, <2>3, NameFacts DEF IInv, FilesInPlaceAreFinished, InPlace, TypeOK
  <2> QED BY <2>3, <2>4, <2>5 DEF Contents
<1>5. /\ Schemas(p) \in [Resources -> Contents \cup {None}]
      /\ Schemas(p) # Unread
  <2>1. CASE read[p] # Unread
    BY <1>3, <2>1 DEF Schemas
  <2>2. CASE read[p] = Unread
    <3>1. Schemas(p) = [r \in Resources |-> InPlace(registry[p][PluginOf[r]], r)]
      BY <2>2 DEF Schemas
    <3>2. Schemas(p)[1] \in {"whole", "short"}
      BY <1>4, <3>1, DirectoryFacts
    <3>3. Unread[1] = None
      BY DirectoryFacts DEF Unread
    <3>4. Schemas(p) # Unread
      BY <3>2, <3>3, DirectoryFacts DEF Contents
    <3> QED BY <1>4, <3>1, <3>4 DEF Contents
  <2> QED BY <2>1, <2>2
<1>6. /\ read' \in [Procs -> [Resources -> Contents \cup {None}]]
      /\ read[p]' # Unread
      /\ \A q \in Procs \ {p} : read'[q] = read[q]
  BY <1>1, <1>2, <1>5 DEF TypeOK
<1>7. ~DamagedBefore(p)'
  BY <1>6 DEF DamagedBefore, Unread
<1>8. files' \in Files /\ FilesElsewhere(p) /\ FilesInPlaceAreFinished'
  BY <1>2, SameFiles
<1>9. RegistryOK(p)'
  BY <1>1, <1>2 DEF ProcessOK, RegistryOK, InPlace
<1>10. CASE /\ registered' = registered \cup {p}
            /\ writer' = [writer EXCEPT ![p] = Idle]
            /\ load' = Registering(p, "waiting")
            /\ failures' = failures
  <2>1. /\ writer[p]' = [step |-> "idle", dir |-> None, at |-> 1]
        /\ writer' \in [Procs -> [step : Steps, dir : Directories \cup {None}, at : Resources]]
        /\ \A q \in Procs \ {p} : writer'[q] = writer[q]
    BY <1>1, <1>10, DirectoryFacts DEF TypeOK, Idle, Steps
  <2>2. /\ load' \in [Dbs -> {"none", "waiting", "registering", "loaded"}]
        /\ \A d \in Dbs : load'[d] = IF ProcOf[d] = p /\ load[d] = "registering"
                                     THEN "waiting" ELSE load[d]
    BY <1>1, <1>10 DEF Registering, TypeOK
  <2>3. TypeOK'
    BY <1>1, <1>2, <1>6, <1>10, <2>1, <2>2 DEF TypeOK, Steps
  <2>4. Elsewhere(p)
    BY <1>1, <1>2, <1>3, <1>6, <1>8, <1>10, <2>1, <2>2 DEF Elsewhere, DbsOf
  <2>5. Threads(p)'
    BY <1>1, <1>2, <2>1, <2>2 DEF ProcessOK, Threads, DbsOf
  <2>6. ~InAttempt(p)'
    BY <2>1 DEF InAttempt
  <2>7. PlaceOK(p)' /\ WrittenOK(p)'
    <3>1. damaged[p]' = {}
      BY <1>1, <1>2 DEF ProcessOK, WrittenOK
    <3> QED BY <2>1, <2>6, <3>1 DEF PlaceOK, WrittenOK
  <2>8. DirectoriesOK(p)'
    BY <1>1, <1>2 DEF ProcessOK, DirectoriesOK
  <2>9. AttemptsCounted(p)'
    BY <1>1, <1>2, <1>3, <1>10, <2>6 DEF ProcessOK, AttemptsCounted, One
  <2>10. ProcessOK(p)'
    BY <1>9, <2>5, <2>7, <2>8, <2>9 DEF ProcessOK
  <2> QED BY <1>8, <2>3, <2>4, <2>10, OneProcess
<1>11. CASE /\ Throw(p) /\ registered' = registered
            /\ (Errors(p) /\ failures' = failures) \/ FailingCall
  <2>1. /\ failures' \in 0 .. MaxFailures /\ failures <= failures'
        /\ failures' = failures + 1 \/ (Errors(p) /\ failures' = failures)
    BY <1>1, <1>3, <1>11 DEF FailingCall
  <2>2. TypeOK'
    BY <1>1, <1>2, <1>6, <1>11, <2>1, ThrowType DEF TypeOK, Steps
  <2>3. Elsewhere(p)
    BY <1>1, <1>2, <1>3, <1>6, <1>8, <1>11, <2>1, ThrowType DEF Elsewhere, DbsOf, TypeOK
  <2>4. ASSUME p \notin configured
        PROVE  made[p] + One(DamagedBefore(p)') <= failures'
    <3>1. ASSUME Errors(p)
          PROVE  \/ DamagedBefore(p)
                 \/ Damaged(p, PluginInfos)
                 \/ Damaged(p, Resources \ PluginInfos)
      <4>1. PICK r \in Resources : Schemas(p)[r] # "whole" /\ read[p] = Unread
        BY <3>1 DEF Errors
      <4>2. Schemas(p) = [s \in Resources |-> InPlace(registry[p][PluginOf[s]], s)]
        BY <4>1 DEF Schemas
      <4>3. /\ InPlace(registry[p][PluginOf[r]], r) = "short"
            /\ registry[p][PluginOf[r]] # None
        BY <1>4, <4>1, <4>2, DirectoryFacts
      <4> QED BY <4>1, <4>3 DEF DamagedBefore, Damaged, InPlace
    <3> QED BY <1>1, <1>3, <1>7, <2>1, <2>4, <3>1 DEF ProcessOK, AttemptsCounted, One
  <2>5. ProcessOK(p)'
    BY <1>1, <1>2, <1>3, <1>9, <1>11, <2>1, <2>4, ThrowKeeps
  <2> QED BY <1>8, <2>2, <2>3, <2>5, OneProcess
<1> QED BY <1>10, <1>11 DEF Touch

-----------------------------------------------------------------------------
(* The invariant *)

LEMMA InitOK == Init => IInv
<1> SUFFICES ASSUME Init PROVE IInv
  OBVIOUS
<1>1. TypeOK
  BY ResourceAssumption, DirectoryFacts DEF Init, TypeOK, NoFiles, NoPlugins, Unread, Idle
<1>2. FilesInPlaceAreFinished
  BY DirectoryFacts, NameFacts DEF Init, FilesInPlaceAreFinished, InPlace, NoFiles, Contents
<1>3. ASSUME NEW p \in Procs
      PROVE  ProcessOK(p)
  <2>1. /\ writer[p] = [step |-> "idle", dir |-> None, at |-> 1]
        /\ made[p] = 0 /\ resource_directory[p] = None /\ p \in up /\ p \notin registered
        /\ failures = 0
    BY DEF Init, Idle
  <2>2. ~InAttempt(p)
    BY <2>1 DEF InAttempt
  <2>3. \A i \in PluginInfos : registry[p][i] = None
    BY DEF Init, NoPlugins
  <2>4. Threads(p) /\ PlaceOK(p) /\ WrittenOK(p)
    BY <2>1, <2>2 DEF Threads, PlaceOK, WrittenOK
  <2>5. DirectoriesOK(p)
    BY <2>1, DirectoryFacts DEF DirectoriesOK, Init
  <2>6. RegistryOK(p) /\ ~DamagedBefore(p)
    BY <2>3, DirectoryFacts DEF RegistryOK, DamagedBefore
  <2>7. AttemptsCounted(p)
    BY <2>1, <2>2, <2>6 DEF AttemptsCounted, One
  <2> QED BY <2>4, <2>5, <2>6, <2>7 DEF ProcessOK
<1> QED BY <1>1, <1>2, <1>3 DEF IInv

LEMMA StutterOK == IInv /\ UNCHANGED vars => IInv'
<1> SUFFICES ASSUME IInv, UNCHANGED vars PROVE IInv'
  OBVIOUS
<1>1. /\ configured' = configured /\ files' = files /\ directories' = directories /\ up' = up
      /\ load' = load /\ registered' = registered /\ writer' = writer /\ made' = made
      /\ resource_directory' = resource_directory /\ registry' = registry /\ read' = read
      /\ delegate' = delegate /\ failures' = failures /\ damaged' = damaged
  BY DEF vars
<1>2. TypeOK' /\ FilesInPlaceAreFinished'
  BY <1>1 DEF IInv, TypeOK, FilesInPlaceAreFinished, InPlace
<1>3. ASSUME NEW p \in Procs PROVE ProcessOK(p)'
  <2>1. ProcessOK(p)
    BY DEF IInv
  <2>2. InAttempt(p)' <=> InAttempt(p)
    BY <1>1 DEF InAttempt
  <2>3. Threads(p)' /\ PlaceOK(p)' /\ DirectoriesOK(p)' /\ RegistryOK(p)'
    BY <1>1, <2>1, <2>2 DEF ProcessOK, Threads, PlaceOK, DirectoriesOK, RegistryOK, InPlace, DbsOf
  <2>4. WrittenOK(p)'
    BY <1>1, <2>1, <2>2 DEF ProcessOK, WrittenOK, InPlace, TemporaryName
  <2>5. (DamagedBefore(p)' <=> DamagedBefore(p)) /\ \A R : Damaged(p, R)' <=> Damaged(p, R)
    BY <1>1 DEF DamagedBefore, Damaged, InPlace, TemporaryName
  <2>6. AttemptsCounted(p)'
    BY <1>1, <2>1, <2>2, <2>5 DEF ProcessOK, AttemptsCounted, One
  <2> QED BY <2>3, <2>4, <2>6 DEF ProcessOK
<1> QED BY <1>2, <1>3 DEF IInv

LEMMA StepOK == IInv /\ [Next]_vars => IInv'
<1> SUFFICES ASSUME IInv, [Next]_vars PROVE IInv'
  OBVIOUS
<1>1. ASSUME NEW p \in Procs, RegisterPlugins(p) PROVE IInv'
  BY <1>1, CreateStep, OpenTemporaryStep, WriteStep, RenameStep, RegisterStep, TouchStep
     DEF RegisterPlugins
<1>2. ASSUME NEW p \in Procs, Exit(p) PROVE IInv'
  BY <1>2, ExitStep
<1>3. ASSUME NEW p \in Procs, Kill(p) PROVE IInv'
  BY <1>3, KillStep
<1>4. ASSUME NEW d \in Dbs, Load(d) PROVE IInv'
  BY <1>4, LoadStep
<1>5. ASSUME NEW d \in Dbs, CallOnce(d) PROVE IInv'
  BY <1>5, CallOnceStep
<1>6. ASSUME NEW d \in Dbs, FinishLoad(d) PROVE IInv'
  BY <1>6, FinishLoadStep
<1>7. CASE UNCHANGED vars
  BY <1>7, StutterOK
<1> QED BY <1>1, <1>2, <1>3, <1>4, <1>5, <1>6, <1>7 DEF Next

\* However processes interleave, fail, exit or are killed, each of them is in an
\* orderly state: an attempt has a directory of its own or the configured one, wrote
\* every resource it passed, and every attempt but the last had a failing call
THEOREM ProcessesOrderly == Spec => []IInv
BY InitOK, StepOK, PTL DEF Spec

\* Every variable keeps its type; in particular a process never makes more private
\* directories than there are failures, and one
THEOREM TypeCorrect == Spec => []TypeOK
<1>1. IInv => TypeOK
  BY DEF IInv
<1> QED BY <1>1, ProcessesOrderly, PTL

\* Whatever processes do together in one resource directory, no file is in place
\* before its writer closed it: WriteResource's "write, then rename"
THEOREM FilesFinished == Spec => []FilesInPlaceAreFinished
<1>1. IInv => FilesInPlaceAreFinished
  BY DEF IInv
<1> QED BY <1>1, ProcessesOrderly, PTL

\* The resources of a registered plugin stay where OpenUSD was told to find them as
\* long as the process runs
THEOREM PluginsKeepResources == Spec => []PluginsKeepTheirResources
<1>1. IInv => PluginsKeepTheirResources
  BY DirectoryFacts DEF IInv, TypeOK, ProcessOK, RegistryOK, PluginsKeepTheirResources
<1> QED BY <1>1, ProcessesOrderly, PTL

\* A process that exits removes the directory of its last attempt
THEOREM ExitLeavesOnlyFailed == Spec => []ExitLeavesOnlyFailedAttempts
<1>1. IInv => ExitLeavesOnlyFailedAttempts
  <2> SUFFICES ASSUME IInv, NEW p \in Procs \ up, NEW n \in 1 .. MaxFailures + 1,
                      Private(p, n) \in directories, resource_directory[p] # None
               PROVE  n < made[p]
    BY DEF ExitLeavesOnlyFailedAttempts
  <2>1. DirectoriesOK(p) /\ made[p] \in Nat /\ n \in Nat
    BY ResourceAssumption DEF IInv, ProcessOK, TypeOK
  <2>2. ~(made[p] < n)
    BY <2>1 DEF DirectoriesOK
  <2>3. n # made[p]
    BY <2>1 DEF DirectoriesOK
  <2> QED BY <2>1, <2>2, <2>3
<1> QED BY <1>1, ProcessesOrderly, PTL

\* One private directory more than the calls that failed is the most a process can
\* make: an attempt is repeated only if a call of its own failed before
AttemptsBounded == \A p \in Procs : made[p] <= failures + 1

\* RegisterPlugins runs again only after a failure (std::call_once)
THEOREM AttemptsAreBounded == Spec => []AttemptsBounded
<1>1. IInv => AttemptsBounded
  <2> SUFFICES ASSUME IInv, NEW p \in Procs PROVE made[p] <= failures + 1
    BY DEF AttemptsBounded
  <2>1. made[p] \in Nat /\ failures \in Nat /\ AttemptsCounted(p) /\ DirectoriesOK(p)
    BY DEF IInv, ProcessOK, TypeOK
  <2> QED BY <2>1 DEF AttemptsCounted, DirectoriesOK, One
<1> QED BY <1>1, ProcessesOrderly, PTL

\* Every attempt replaces whatever it found short, so that neither a failure that
\* nobody noticed nor a process that was killed spoils the directory for the next one:
\* RegisterPlugins writes each resource again, those that are there already too
THEOREM ShortFilesReplaced == Spec => []ShortFilesAreReplaced
<1>1. IInv => ShortFilesAreReplaced
  BY DEF IInv, ProcessOK, WrittenOK, ShortFilesAreReplaced
<1> QED BY <1>1, ProcessesOrderly, PTL
=============================================================================
