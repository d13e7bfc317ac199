------------------------------ MODULE UsdBind ------------------------------
(***************************************************************************)
(* Binding a call of a usd_* table function (src/src/usd_scan.cpp,         *)
(* UsdScanBind, and the BindOptions of the functions): the named           *)
(* parameters become the options of the scan, and the paths the list of    *)
(* the files to read.  Files change under the bind: each is looked at when *)
(* DuckDB lists it, and again when it is validated.                        *)
(***************************************************************************)
EXTENDS UsdPushdown, FiniteSets, TLC, SequencesExt

CONSTANTS
    Functions,     \* the table functions: their UsdTableFunctionDefinitions
    Calls,         \* the calls queries make
    NotAPath,      \* a "root" that is not an absolute prim path
    Matches,       \* the files each path can match, in the order DuckDB lists them
    Globs,         \* the paths with wildcards
    Remote,        \* the paths on other machines
    Files          \* what each file can be found as, see FileStates

\* A file with a USD extension, one without, a directory, nothing, and a file
\* DuckDB may not access
FileStates == {"usd", "unsupported", "directory", "missing", "denied"}

IsList(s) == s \in Seq(ToSet(s))

\* DuckDB has checked the types of the paths and of the options
ASSUME BindAssumption ==
    /\ \A c \in Calls : c.paths = Null \/ c.paths \in Seq(DOMAIN Matches \cup {Null})
    /\ \A c \in Calls : \A o \in {"root", "times"} \cap DOMAIN c.parameters :
           \/ c.parameters[o] = Null
           \/ o = "root" /\ c.parameters[o] = NotAPath
           \/ IsList(c.parameters[o])
    /\ \A path \in DOMAIN Matches : Matches[path] \in Seq(DOMAIN Files)
    /\ \A path \in DOMAIN Matches \ (Globs \cup Remote) : Len(Matches[path]) = 1
    /\ \A f \in DOMAIN Files : Files[f] \subseteq FileStates

VARIABLES
    call,          \* the call: function, parameters, paths and columns
    pc,            \* where the bind, and then the scan, is
    error,         \* the error the call ended with
    options,       \* the scan's options, apart from the property names
    entries,       \* paths that have not been listed
    listed,        \* files DuckDB listed that have not been validated
    files,         \* the files of the bind data
    state,         \* what each file is now
    changed        \* history: the files that changed

binding == <<call, error, options, entries, listed, files>>
bindVars == <<binding, pc, state, changed>>

-----------------------------------------------------------------------------
(* Options *)

\* The options every function accepts
SharedOptions ==
    {"root", "instance_proxies", "active_only", "include_abstract", "include_undefined",
     "load_payloads", "filename", "ignore_errors"}

AcceptedOptions(function) ==
    SharedOptions \cup function.options
        \cup (IF function.time_dependent THEN {"time", "times"} ELSE {})
        \cup (IF function.returns_values THEN {"max_array_length"} ELSE {})

\* The members of UsdScanOptions, before the call's parameters are read.  Paths
\* are sequences of names: <<>> is "/".  A `time' of NULL is the default time
DefaultOptions ==
    [root |-> <<>>, mask_path |-> <<>>, instance_proxies |-> FALSE, active_only |-> FALSE,
     include_abstract |-> FALSE, include_undefined |-> FALSE, load_payloads |-> TRUE,
     filename |-> FALSE, ignore_errors |-> FALSE, time |-> Null, times |-> <<>>,
     max_array_length |-> 1000, authored_only |-> FALSE, forwarded |-> FALSE,
     purposes |-> <<"default", "render">>, use_extents_hint |-> TRUE, include_ancestral |-> FALSE,
     material_purpose |-> "", start_time |-> -1000, end_time |-> 1000]

HasNull(list) == \E i \in DOMAIN list : list[i] = Null

\* The parameters ParseScanOptions rejects
SharedErrors(p) ==
    \/ \E o \in DOMAIN p : p[o] = Null
    \/ "root" \in DOMAIN p /\ p.root = NotAPath
    \/ {"time", "times"} \subseteq DOMAIN p
    \/ "times" \in DOMAIN p /\ (p.times = <<>> \/ HasNull(p.times))
    \/ "max_array_length" \in DOMAIN p /\ p.max_array_length < 0

PurposesErrors(p) ==
    "purposes" \in DOMAIN p /\ ~(ToSet(p.purposes) \subseteq {"default", "render", "proxy", "guide"})

MaterialPurposeErrors(p) ==
    "material_purpose" \in DOMAIN p
        /\ p.material_purpose \notin {"allPurpose", "full", "preview"}

\* The options with those that are given
Given(p) == [o \in DOMAIN DefaultOptions |-> IF o \in DOMAIN p THEN p[o] ELSE DefaultOptions[o]]

IntervalErrors(p) == Given(p).start_time > Given(p).end_time

\* (deviation: "root" is only the mask of the stage)
ParseMaskOnly(p) ==
    IF "root" \in DOMAIN p THEN [Given(p) EXCEPT !.mask_path = p.root, !.root = <<>>] ELSE Given(p)

\* The options of the parameters.  Only the subtree of "root" is composed
ParseScanOptions(p) ==
    IF "root" \in DOMAIN p THEN [Given(p) EXCEPT !.mask_path = p.root] ELSE Given(p)

\* The all-purpose material purpose is the empty token
BindMaterialPurpose(o) ==
    IF o.material_purpose = "allPurpose" THEN [o EXCEPT !.material_purpose = ""] ELSE o

BindOptions(p) == BindMaterialPurpose(ParseScanOptions(p))

\* (deviation: the property names are not compared)
TieUnnamed(o, named, names) == o

\* UsdScanOptions::Tie, with what UsdStageOptions compares: DuckDB takes scans of
\* the same files that agree in it for the same scan.  The last two members come
\* from the filters pushed down: filter_property_names and property_names
Tie(o, named, names) ==
    <<o.load_payloads, o.mask_path, o.root, o.instance_proxies, o.active_only, o.include_abstract,
      o.include_undefined, o.filename, o.ignore_errors, o.time, o.times, o.max_array_length,
      o.authored_only, o.forwarded, o.purposes, o.use_extents_hint, o.include_ancestral,
      o.material_purpose, o.start_time, o.end_time, named, names>>

-----------------------------------------------------------------------------
(* The files *)

Throw(type) ==
    /\ pc' = "failed"
    /\ error' = type

Rejected(c) ==
    \/ c.paths = Null \/ HasNull(c.paths)
    \/ SharedErrors(c.parameters)
    \/ PurposesErrors(c.parameters)
    \/ MaterialPurposeErrors(c.parameters)
    \/ IntervalErrors(c.parameters)

\* DuckDB calls UsdScanBind.  It has checked the names of the options
BindCall ==
    /\ pc = "call"
    /\ DOMAIN call.parameters \subseteq AcceptedOptions(Functions[call.function])
    /\ UNCHANGED <<call, listed, files, state, changed>>
    /\ IF Rejected(call)
       THEN /\ Throw("BINDER")
            /\ UNCHANGED <<options, entries>>
       ELSE /\ pc' = "bind"
            /\ options' = BindOptions(call.parameters)
            /\ entries' = call.paths
            /\ UNCHANGED error

\* The type of the exception ValidatePath throws for a file
ValidatePath(f) ==
    CASE state[f] = "usd" -> "none"
      [] state[f] = "missing" -> "IO"
      [] state[f] \in {"directory", "unsupported"} -> "INVALID_INPUT"
      [] state[f] = "denied" -> "PERMISSION"

\* (deviation: every error is skipped)
SkippableAny(type) == options.ignore_errors

Skippable(type) == options.ignore_errors /\ type \in {"IO", "INVALID_INPUT"}

\* AcceptFile, and what is done with a file it accepts
AcceptFile(f, accepted) ==
    LET type == ValidatePath(f)
    IN  IF type = "none" \/ Skippable(type)
        THEN /\ pc' = "bind"
             /\ files' = IF type = "none" THEN accepted ELSE files
             /\ UNCHANGED error
        ELSE /\ Throw(type)
             /\ UNCHANGED files

\* What is in S of a list, in the order of the list
Among(list, S) == FlattenSeq([i \in DOMAIN list |-> IF list[i] \in S THEN <<list[i]>> ELSE <<>>])

\* The files of a path that DuckDB lists
Found(entry) ==
    Among(Matches[entry], {f \in DOMAIN state : state[f] \in {"usd", "unsupported", "denied"}})

\* Paths on other machines are rejected before DuckDB looks for files
ListEntry ==
    /\ pc = "bind"
    /\ listed = <<>>
    /\ entries # <<>>
    /\ UNCHANGED <<call, options, files, state, changed>>
    /\ LET entry == Head(entries)
       IN  IF entry \in Remote
           THEN /\ Throw("NOT_IMPLEMENTED")
                /\ UNCHANGED <<entries, listed>>
           ELSE /\ UNCHANGED error
                /\ IF Found(entry) = <<>> /\ entry \notin Globs
                   THEN /\ pc' = "report"
                        /\ UNCHANGED <<entries, listed>>
                   ELSE /\ listed' = Found(entry)
                        /\ entries' = Tail(entries)
                        /\ UNCHANGED pc

\* A plain path that matched no file is validated, to report why.  A file there
\* by now is not read
ReportEntry ==
    /\ pc = "report"
    /\ entries' = Tail(entries)
    /\ AcceptFile(Matches[Head(entries)][1], files)
    /\ UNCHANGED <<call, options, listed, state, changed>>

ValidateFile ==
    /\ pc = "bind"
    /\ listed # <<>>
    /\ listed' = Tail(listed)
    /\ AcceptFile(Head(listed), Append(files, Head(listed)))
    /\ UNCHANGED <<call, options, entries, state, changed>>

\* The end of UsdScanBind.  No file left is an error even with ignore_errors
FinishBind ==
    /\ pc = "bind"
    /\ listed = <<>>
    /\ entries = <<>>
    /\ IF files = <<>>
       THEN Throw("IO")
       ELSE /\ pc' = "plan"
            /\ UNCHANGED error
    /\ UNCHANGED <<call, options, entries, listed, files, state, changed>>

\* The files that the paths of the call match, each time it is named
Matched == FlattenSeq([i \in DOMAIN call.paths |-> Matches[call.paths[i]]])
CallFiles == IF call.paths = Null \/ HasNull(call.paths) THEN {} ELSE ToSet(Matched)

\* A file is created, replaced, deleted, or its permission changes (once each)
ChangeFile ==
    \E f \in CallFiles : \E s \in Files[f] \ {state[f]} :
        /\ pc \notin {"failed", "done"}
        /\ f \notin changed
        /\ state' = [state EXCEPT ![f] = s]
        /\ changed' = changed \cup {f}
        /\ UNCHANGED <<binding, pc>>

BindInit ==
    /\ call \in Calls
    /\ pc = "call"
    /\ error = "none"
    /\ options = DefaultOptions
    /\ entries = <<>>
    /\ listed = <<>>
    /\ files = <<>>
    /\ state \in {s \in [CallFiles -> FileStates] : \A f \in CallFiles : s[f] \in Files[f]}
    /\ changed = {}
    /\ where = call.filters

BindStep == BindCall \/ ListEntry \/ ReportEntry \/ ValidateFile \/ FinishBind

-----------------------------------------------------------------------------
(* A scan that starts reads every file its paths match that was readable    *)
(* all the time, in the order of the list, and no file DuckDB may not       *)
(* access was passed over: ignore_errors skips files that cannot be read    *)
(* and hides no other error (UsdScanBind, AcceptFile).                      *)
BindsEveryReadableFile ==
    pc \notin {"call", "bind", "report", "failed"} =>
        LET steady == CallFiles \ changed
        IN  /\ Among(files, steady) = Among(Matched, {f \in steady : state[f] = "usd"})
            /\ files # <<>>
            /\ \A f \in steady :
                   /\ state[f] # "denied"
                   /\ ~options.ignore_errors =>
                          \/ state[f] = "usd"
                          \/ state[f] \in {"missing", "directory"}
                                 /\ \A e \in ToSet(call.paths) : f \in ToSet(Matches[e]) => e \in Globs
=============================================================================
