----------------------------- MODULE UsdPlugins -----------------------------
(***************************************************************************)
(* Loading the extension: LoadInternal (src/src/usd_extension.cpp), which  *)
(* registers OpenUSD's plugins once per process (src/src/usd_plugins.cpp). *)
(* The plugins' resources are embedded in the binary; registering writes   *)
(* them to a directory, which several processes may share                  *)
(* (DUCKDB_USD_RESOURCE_DIR) or which is private to the process and        *)
(* removed when it exits, and makes OpenUSD read them there.               *)
(*                                                                         *)
(* Each database of a process loads the extension from a thread of its     *)
(* own.  Any call to the file system may fail, processes may be killed and *)
(* start again, and a failed LOAD may be repeated.                         *)
(***************************************************************************)
EXTENDS Integers, FiniteSets

CONSTANTS
    Procs,       \* processes
    Pid,         \* the process id of each process
    Dbs,         \* databases
    ProcOf,      \* the process that opened each database
    Count,       \* the number of resources, written in order
    PluginOf,    \* the plugInfo.json (a resource) of the plugin each resource is part of
    None,        \* no directory, no contents
    MaxFailures  \* bound: failing calls and killed processes, together

Resources == 1 .. Count
PluginInfos == {r \in Resources : PluginOf[r] = r}

ASSUME ProcessAssumption ==
    /\ ProcOf \in [Dbs -> Procs]
    /\ \A p, q \in Procs : Pid[p] = Pid[q] => p = q
    /\ \A p \in Procs : Pid[p] # "path"  \* "<path>.<pid>.tmp"

ASSUME ResourceAssumption ==
    /\ Count \in Nat \ {0}
    /\ PluginOf \in [Resources -> Resources]
    /\ \A r \in Resources : PluginOf[r] \in PluginInfos
    /\ MaxFailures \in Nat

\* (deviation: the file is written under a name all processes use)
TemporaryNameShared(p) == "tmp"

\* The name a process writes a resource under before renaming it into place
TemporaryName(p) == Pid[p]
Names == {"path"} \cup {TemporaryName(p) : p \in Procs}

\* A file while it is written, complete, and complete as far as its writer could
\* tell: `out' is checked before the stream is flushed by its destructor
Contents == {"partial", "whole", "short"}

Shared == <<"shared", 0>>
Private(p, n) == <<p, n>>
Directories == {Shared} \cup {Private(p, n) : p \in Procs, n \in 1 .. MaxFailures + 1}

ASSUME NoneAssumption == None \notin Contents \cup Directories

VARIABLES
    configured,  \* the processes with DUCKDB_USD_RESOURCE_DIR set
    files,       \* the contents of each file of each directory
    directories, \* the private directories that exist
    up,          \* the processes that are running
    load,        \* the LOAD of each database
    registered,  \* the processes whose std::call_once is done
    writer,      \* locals of RegisterPlugins, for each process
    made,        \* the number of private directories each process made
    resource_directory,
    registry,    \* OpenUSD's plugins: the directory each was registered from
    read,        \* what OpenUSD's schemas, read once, found in each resource
    delegate,    \* the diagnostic delegates each process added
    failures,    \* the calls that failed so far
    damaged      \* for the properties: the resources that were short in the directory of
                 \* each process's attempt when it began and that it has not replaced

vars == <<configured, files, directories, up, load, registered, writer, made,
          resource_directory, registry, read, delegate, failures, damaged>>
disk == <<files, directories>>
process == <<made, resource_directory, registry, read, delegate>>

DbsOf(p) == {d \in Dbs : ProcOf[d] = p}
Idle == [step |-> "idle", dir |-> None, at |-> 1]
NoFiles == [r \in Resources |-> [n \in Names |-> None]]
NoPlugins == [r \in PluginInfos |-> None]
Unread == [r \in Resources |-> None]

TypeOK ==
    /\ configured \subseteq Procs
    /\ files \in [Directories -> [Resources -> [Names -> Contents \cup {None}]]]
    /\ directories \subseteq Directories \ {Shared}
    /\ up \subseteq Procs
    /\ load \in [Dbs -> {"none", "waiting", "registering", "loaded"}]
    /\ registered \subseteq Procs
    /\ writer \in [Procs -> [step : {"idle", "create", "open", "write", "rename", "register", "touch"},
                             dir : Directories \cup {None}, at : Resources]]
    /\ made \in [Procs -> 0 .. MaxFailures + 1]
    /\ resource_directory \in [Procs -> Directories \cup {None}]
    /\ registry \in [Procs -> [PluginInfos -> Directories \cup {None}]]
    /\ read \in [Procs -> [Resources -> Contents \cup {None}]]
    /\ delegate \in [Procs -> 0 .. 1]
    /\ failures \in 0 .. MaxFailures
    /\ damaged \in [Procs -> SUBSET Resources]

Init ==
    /\ configured \in SUBSET Procs
    /\ files = [d \in Directories |-> NoFiles]
    /\ directories = {}
    /\ up = Procs
    /\ load = [d \in Dbs |-> "none"]
    /\ registered = {}
    /\ writer = [p \in Procs |-> Idle]
    /\ made = [p \in Procs |-> 0]
    /\ resource_directory = [p \in Procs |-> None]
    /\ registry = [p \in Procs |-> NoPlugins]
    /\ read = [p \in Procs |-> Unread]
    /\ delegate = [p \in Procs |-> 0]
    /\ failures = 0
    /\ damaged = [p \in Procs |-> {}]

-----------------------------------------------------------------------------
(* LOAD, and std::call_once in UsdRegisterPlugins *)

Load(d) ==
    /\ ProcOf[d] \in up /\ load[d] = "none"
    /\ load' = [load EXCEPT ![d] = "waiting"]
    /\ UNCHANGED <<configured, disk, up, registered, writer, process, failures, damaged>>

\* One thread at a time registers, until one succeeds
CallOnce(d) ==
    /\ load[d] = "waiting" /\ ProcOf[d] \notin registered
    /\ \A e \in DbsOf(ProcOf[d]) : load[e] # "registering"
    /\ load' = [load EXCEPT ![d] = "registering"]
    /\ writer' = [writer EXCEPT ![ProcOf[d]] = [Idle EXCEPT !.step = "create"]]
    /\ UNCHANGED <<configured, disk, up, registered, process, failures, damaged>>

\* UsdRegisterPlugins is done: UsdInitialize, and the functions, the replacement
\* scan and the setting of the database
FinishLoad(d) ==
    /\ load[d] = "waiting" /\ ProcOf[d] \in registered
    /\ load' = [load EXCEPT ![d] = "loaded"]
    /\ delegate' = [delegate EXCEPT ![ProcOf[d]] = 1]
    /\ UNCHANGED <<configured, disk, up, registered, writer, made, resource_directory,
                   registry, read, failures, damaged>>

\* The thread of p that registers goes on in state s
Registering(p, s) ==
    [d \in Dbs |-> IF ProcOf[d] = p /\ load[d] = "registering" THEN s ELSE load[d]]

\* (deviation: a registration that throws leaves the flag taken)
ThrowLocked(p) ==
    /\ writer' = [writer EXCEPT ![p] = Idle]
    /\ UNCHANGED load

\* An exception leaves call_once, and the LOAD: the next one tries again
Throw(p) ==
    /\ writer' = [writer EXCEPT ![p] = Idle]
    /\ load' = Registering(p, "none")

\* A call to the file system fails
FailingCall == failures < MaxFailures /\ failures' = failures + 1

Goto(p, s) == writer' = [writer EXCEPT ![p].step = s]

-----------------------------------------------------------------------------
(* CreateResourceDirectory and RemoveResourceDirectory *)

\* What is in place of resource r of a directory
InPlace(d, r) == files[d][r]["path"]

\* The resources of directory d that somebody left incomplete
ShortIn(d) == {r \in Resources : InPlace(d, r) = "short"}

\* (deviation: the directory of the first attempt is remembered)
RemembersFirst(p, dir) == IF resource_directory[p] = None THEN dir ELSE resource_directory[p]

\* What the process will remove when it exits
Remembers(p, dir) == dir

\* (deviation: a configured directory is removed at exit as well)
UseConfiguredAsOwn(p) ==
    /\ p \in configured
    /\ writer' = [writer EXCEPT ![p].step = "open", ![p].dir = Shared]
    /\ resource_directory' = [resource_directory EXCEPT ![p] = Shared]
    /\ UNCHANGED <<made, directories>>

UseConfigured(p) ==
    /\ p \in configured
    /\ writer' = [writer EXCEPT ![p].step = "open", ![p].dir = Shared]
    /\ UNCHANGED <<made, directories, resource_directory>>

MakePrivate(p) ==
    LET dir == Private(p, made[p] + 1)
    IN  /\ p \notin configured
        /\ made' = [made EXCEPT ![p] = @ + 1]
        /\ directories' = directories \cup {dir}
        /\ writer' = [writer EXCEPT ![p].step = "open", ![p].dir = dir]
        /\ resource_directory' = [resource_directory EXCEPT ![p] = Remembers(p, dir)]

CreateResourceDirectory(p) ==
    /\ writer[p].step = "create"
    /\ \/ /\ UseConfigured(p) \/ MakePrivate(p)
          /\ damaged' = [damaged EXCEPT ![p] = ShortIn(writer'[p].dir)]
          /\ UNCHANGED <<load, failures>>
       \/ /\ p \notin configured /\ FailingCall /\ Throw(p)
          /\ UNCHANGED <<made, directories, resource_directory, damaged>>
    /\ UNCHANGED <<configured, files, up, registered, registry, read, delegate>>

\* exit() with no LOAD running: the private directory remembered is removed
Exit(p) ==
    /\ p \in up
    /\ \A d \in DbsOf(p) : load[d] \in {"none", "loaded"}
    /\ up' = up \ {p}
    /\ directories' = directories \ {resource_directory[p]}
    /\ files' = IF resource_directory[p] = None THEN files
                ELSE [files EXCEPT ![resource_directory[p]] = NoFiles]
    /\ UNCHANGED <<configured, load, registered, writer, process, failures, damaged>>

\* The process is killed, leaving its files as they are, and started again
Kill(p) ==
    /\ p \in up /\ FailingCall
    /\ load' = [d \in Dbs |-> IF ProcOf[d] = p THEN "none" ELSE load[d]]
    /\ registered' = registered \ {p}
    /\ writer' = [writer EXCEPT ![p] = Idle]
    /\ resource_directory' = [resource_directory EXCEPT ![p] = None]
    /\ registry' = [registry EXCEPT ![p] = NoPlugins]
    /\ read' = [read EXCEPT ![p] = Unread]
    /\ delegate' = [delegate EXCEPT ![p] = 0]
    /\ UNCHANGED <<configured, disk, up, made, damaged>>

-----------------------------------------------------------------------------
(* WriteResource, for the resource writer[p].at *)

\* The file named n of the resource becomes c
SetFile(p, n, c) ==
    files' = [files EXCEPT ![writer[p].dir][writer[p].at][n] = c]

\* An error path: the temporary file is removed
Abandon(p) ==
    /\ FailingCall /\ Throw(p)
    /\ SetFile(p, TemporaryName(p), None)

\* (deviation: one resource too many)
NextResourceLate(p) ==
    writer' = [writer EXCEPT ![p].step = "open", ![p].at = @ + 1]

\* The loop over USD_EMBEDDED_RESOURCES, the resolver's plugInfo.json after it
NextResource(p) ==
    \/ writer[p].at < Count /\ writer' = [writer EXCEPT ![p].step = "open", ![p].at = @ + 1]
    \/ writer[p].at = Count /\ Goto(p, "register")

\* (deviation: a resource that is in place already is not written again)
OpenMissing(p) ==
    /\ writer[p].step = "open"
    /\ IF InPlace(writer[p].dir, writer[p].at) # None
       THEN NextResource(p) /\ UNCHANGED <<files, load, failures>>
       ELSE /\ SetFile(p, TemporaryName(p), "partial")
            /\ Goto(p, "write")
            /\ UNCHANGED <<load, failures>>
    /\ UNCHANGED <<configured, directories, up, registered, process, damaged>>

\* The parent directory is made if need be, and the file created or truncated
OpenTemporary(p) ==
    /\ writer[p].step = "open"
    /\ \/ /\ SetFile(p, TemporaryName(p), "partial")
          /\ Goto(p, "write")
          /\ UNCHANGED <<load, failures>>
       \/ FailingCall /\ Throw(p) /\ UNCHANGED files
    /\ UNCHANGED <<configured, directories, up, registered, process, damaged>>

\* The data is written; what the stream still buffers is flushed after the check
\* of `out', and an error there goes unnoticed
Write(p) ==
    /\ writer[p].step = "write"
    /\ \/ /\ SetFile(p, TemporaryName(p), "whole")
          /\ Goto(p, "rename")
          /\ UNCHANGED <<load, failures>>
       \/ /\ FailingCall
          /\ SetFile(p, TemporaryName(p), "short")
          /\ Goto(p, "rename")
          /\ UNCHANGED load
       \/ Abandon(p)
    /\ UNCHANGED <<configured, directories, up, registered, process, damaged>>

Rename(p) ==
    LET w == writer[p]
        content == files[w.dir][w.at][TemporaryName(p)]
    IN  /\ w.step = "rename"
        /\ \/ /\ content # None
              /\ files' = [files EXCEPT ![w.dir][w.at] =
                             [@ EXCEPT ![TemporaryName(p)] = None, !["path"] = content]]
              /\ NextResource(p)
              /\ damaged' = [damaged EXCEPT ![p] = @ \ {w.at}]
              /\ UNCHANGED <<load, failures>>
           \/ Abandon(p) /\ UNCHANGED damaged
    /\ UNCHANGED <<configured, directories, up, registered, process>>

-----------------------------------------------------------------------------
(* RegisterPlugins, once the resources are written *)

\* PlugRegistry::RegisterPlugins: a plugin whose plugInfo.json can be read, and
\* that is not registered yet
Registered(p) ==
    [r \in PluginInfos |-> IF registry[p][r] = None /\ InPlace(writer[p].dir, r) = "whole"
                           THEN writer[p].dir
                           ELSE registry[p][r]]

Register(p) ==
    /\ writer[p].step = "register"
    /\ registry' = [registry EXCEPT ![p] = Registered(p)]
    /\ \/ (\A r \in PluginInfos : Registered(p)[r] # None) /\ Goto(p, "touch") /\ UNCHANGED load
       \/ (\E r \in PluginInfos : Registered(p)[r] = None) /\ Throw(p)
    /\ UNCHANGED <<configured, disk, up, registered, made, resource_directory, read,
                   delegate, failures, damaged>>

\* OpenUSD's schemas are built the first time only, from the directories the
\* plugins were registered from
Schemas(p) ==
    IF read[p] # Unread THEN read[p]
    ELSE [r \in Resources |-> InPlace(registry[p][PluginOf[r]], r)]

\* The error mark is not clean: a schema was built from a damaged resource
Errors(p) == read[p] = Unread /\ \E r \in Resources : Schemas(p)[r] # "whole"

\* The file formats, the schemas and the resolver are touched; doing so again in
\* a later attempt may raise errors of its own
Touch(p) ==
    /\ writer[p].step = "touch"
    /\ read' = [read EXCEPT ![p] = Schemas(p)]
    /\ \/ /\ ~Errors(p)
          /\ registered' = registered \cup {p}
          /\ writer' = [writer EXCEPT ![p] = Idle]
          /\ load' = Registering(p, "waiting")
          /\ UNCHANGED failures
       \/ Errors(p) /\ Throw(p) /\ UNCHANGED <<registered, failures>>
       \/ FailingCall /\ Throw(p) /\ UNCHANGED registered
    /\ UNCHANGED <<configured, disk, up, made, resource_directory, registry, delegate,
                   damaged>>

RegisterPlugins(p) ==
    CreateResourceDirectory(p) \/ OpenTemporary(p) \/ Write(p) \/ Rename(p)
    \/ Register(p) \/ Touch(p)

Next ==
    \/ \E p \in Procs : RegisterPlugins(p) \/ Exit(p) \/ Kill(p)
    \/ \E d \in Dbs : Load(d) \/ CallOnce(d) \/ FinishLoad(d)

Spec == Init /\ [][Next]_vars

\* A thread in a LOAD keeps running
FairSpec ==
    /\ Spec
    /\ \A p \in Procs : WF_vars(RegisterPlugins(p))
    /\ \A d \in Dbs : WF_vars(CallOnce(d)) /\ WF_vars(FinishLoad(d))

-----------------------------------------------------------------------------
(* Properties *)

\* "written next to the file and renamed into place: another process may be
\* reading a shared resource directory" (usd_plugins.cpp:61): whatever processes
\* do together, nobody finds a file in place that is still being written
FilesInPlaceAreFinished ==
    \A d \in Directories, r \in Resources : InPlace(d, r) # "partial"

\* OpenUSD may read a plugin's resources at any time after it registered the
\* plugin: as long as the process runs, all of them are in the directory it was
\* registered from, whichever attempt that was and whatever the other processes
\* sharing the directory do or however they end
PluginsKeepTheirResources ==
    \A p \in up : \A r \in Resources :
        LET dir == registry[p][PluginOf[r]]
        IN  dir # None => InPlace(dir, r) # None

\* An error that `out' does not show leaves a short file in place, and a directory the
\* processes share keeps it after its writer threw, was killed or went on.  No other
\* process, and no later attempt, registers the plugins over it: what was short when an
\* attempt began it has replaced, every single resource, before OpenUSD reads them
ShortFilesAreReplaced ==
    \A p \in Procs :
        (writer[p].step \in {"register", "touch"} \/ p \in registered) => damaged[p] = {}

\* "The directory the resources were written to, removed when the process exits"
\* (usd_plugins.cpp:26): a process that was not killed leaves only the private
\* directories of attempts before its last one
ExitLeavesOnlyFailedAttempts ==
    \A p \in Procs \ up : \A n \in 1 .. MaxFailures + 1 :
        (Private(p, n) \in directories) => n < made[p] \/ resource_directory[p] = None

\* "if registration throws, the next call tries again" (usd_plugins.cpp:125):
\* every LOAD returns, whether registration fails in its own thread or in the
\* one it waits for
LoadReturns ==
    \A d \in Dbs : load[d] = "waiting" ~> load[d] \in {"loaded", "none"}
=============================================================================
