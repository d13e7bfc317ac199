---------------------------- MODULE UsdPushdown ----------------------------
(***************************************************************************)
(* Filters on the property name of usd_properties and usd_time_samples     *)
(* (src/src/usd_scan.cpp, UsdScanPushdownComplexFilter): conditions that   *)
(* only compare the name with constants are handed to the scan before it   *)
(* starts, which then looks those properties up by name                    *)
(* (UsdPropertySelection).  DuckDB evaluates the filters again on the rows *)
(* the scan returns, in any order, and may push filters down repeatedly.   *)
(*                                                                         *)
(* A filter is the set of the comparisons it is an OR of.                  *)
(***************************************************************************)
EXTENDS Integers, Sequences

CONSTANTS
    Null,            \* SQL's NULL, and an option that is not set
    Names,           \* the names a query may mention
    ValidNames,      \* those that are valid identifiers in USD
    Filters,         \* the filters a query may have
    OtherMatches,    \* <<comparison, name>>: rows that comparisons of other kinds accept
    PropertyNames    \* the names of the properties of each prim

\* A comparison of the name column or another one, with constants of type
\* VARCHAR or with something else
Comparison ==
    [op : {"=", "IN", "other"}, column : {"property_name", "other"},
     constants : BOOLEAN, values : SUBSET (Names \cup {Null})]

ASSUME PushdownAssumption ==
    /\ Null \notin Names
    /\ ValidNames \subseteq Names
    /\ Filters \subseteq SUBSET Comparison
    /\ \A prim \in DOMAIN PropertyNames : PropertyNames[prim] \subseteq ValidNames

VARIABLES
    where,                   \* the filters of the query
    pending,                 \* those of this call of the optimizer still to be looked at
    filter_property_names,   \* the scan's options
    property_names

pushdown == <<where, pending, filter_property_names, property_names>>

-----------------------------------------------------------------------------
IsScanColumn(c) == c.column = "property_name"

ComparesNames(c) == IsScanColumn(c) /\ c.op \in {"=", "IN"} /\ c.constants

\* Whether CollectPropertyNames returns true
Collects(filter) == \A c \in filter : ComparesNames(c)

\* (deviation: only the first part of an OR counts)
FirstPropertyNames(filter) ==
    IF filter = {} THEN {} ELSE (CHOOSE c \in filter : TRUE).values \ {Null}

\* The names it collects: NULL is never equal to a name
CollectPropertyNames(filter) == (UNION {c.values : c \in filter}) \ {Null}

\* (deviation: the names of the last filter replace those of the others)
PushFilterLast ==
    \E filter \in pending :
        /\ pending' = pending \ {filter}
        /\ UNCHANGED where
        /\ IF Collects(filter)
           THEN /\ filter_property_names' = TRUE
                /\ property_names' = CollectPropertyNames(filter)
           ELSE UNCHANGED <<filter_property_names, property_names>>

\* One round of the loop of UsdScanPushdownComplexFilter
PushFilter ==
    \E filter \in pending :
        LET names == CollectPropertyNames(filter)
        IN  /\ pending' = pending \ {filter}
            /\ UNCHANGED where
            /\ IF Collects(filter)
               THEN /\ filter_property_names' = TRUE
                    /\ property_names' =
                           IF filter_property_names THEN names \cap property_names ELSE names
               ELSE UNCHANGED <<filter_property_names, property_names>>

\* The optimizer pushes filters of the query down once more
PushAgain ==
    /\ pending = {}
    /\ pending' \in SUBSET where
    /\ UNCHANGED <<where, filter_property_names, property_names>>

\* The properties the scan reads from a prim.  A name that is no identifier is
\* not looked up
Get(prim) ==
    IF filter_property_names
    THEN PropertyNames[prim] \cap property_names \cap ValidNames
    ELSE PropertyNames[prim]

-----------------------------------------------------------------------------
\* What SQL says of a row of the property `name'
Accepts(c, name) == IF ComparesNames(c) THEN name \in c.values ELSE <<c, name>> \in OtherMatches
Passes(filter, name) == \E c \in filter : Accepts(c, name)

\* The properties of a prim that the query's filters keep
Kept(names) == {n \in names : \A filter \in where : Passes(filter, n)}

PushdownInit ==
    /\ where \in SUBSET Filters
    /\ pending = where
    /\ filter_property_names = FALSE
    /\ property_names = {}

PushdownNext == PushFilter \/ PushAgain

PushdownSpec == PushdownInit /\ [][PushdownNext]_pushdown

-----------------------------------------------------------------------------
PushdownTypeOK ==
    /\ where \subseteq Filters
    /\ pending \subseteq where
    /\ filter_property_names \in BOOLEAN
    /\ property_names \subseteq Names

(* The filters keep the same properties of every prim, whether the scan     *)
(* reads only the names pushed down so far or all properties (the options   *)
(* the scan gets from UsdScanPushdownComplexFilter at usd_scan.cpp:479 are  *)
(* cumulative: filters that cannot be pushed, NULLs, ORs and repeated       *)
(* pushdowns must all leave the answer alone).                              *)
PushdownKeepsProperties ==
    \A prim \in DOMAIN PropertyNames : Kept(Get(prim)) = Kept(PropertyNames[prim])

(* Once the filters are pushed, no row of a property that one of the        *)
(* pushable filters rejects reaches the query's other filters, in whichever *)
(* order DuckDB evaluates them: `property_name = 'x' AND value::DOUBLE > 4' *)
(* never casts the value of another property (usd_scan.cpp:467).            *)
OthersSeeNamedProperties ==
    pending = {} =>
        \A filter \in where : Collects(filter) =>
            \A prim \in DOMAIN PropertyNames : \A n \in Get(prim) : Passes(filter, n)
=============================================================================
