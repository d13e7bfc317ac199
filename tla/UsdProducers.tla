---------------------------- MODULE UsdProducers ----------------------------
(***************************************************************************)
(* The row producers of the table functions (src/src/functions): what each *)
(* buffers for a prim or a stage, and the caches it keeps between prims.   *)
(* A producer is a record; BeginStage, SetTime, AddPrim, Clear and Write   *)
(* are operators on it.                                                    *)
(*                                                                         *)
(* What OpenUSD knows of the files is the constant Stages.  A value that   *)
(* OpenUSD computes is represented by what it was computed from, so that a *)
(* value from a cache that is out of date differs from a fresh one.        *)
(***************************************************************************)
EXTENDS UsdBind

CONSTANT Stages    \* the contents of the stage of each file, see MCUsdTableFunctions

Paths(f) == DOMAIN Stages[f].prim
Prim(f, q) == Stages[f].prim[q]

\* What an arc is to the producer: a type of PcpArcType and a path among others
IsArc(a) ==
    /\ DOMAIN a = {"type", "ancestral", "has_specs", "introducing_prim_path", "in_root_layer"}
    /\ a.type \in {"root", "inherit", "variant", "relocate", "reference", "payload", "specialize"}
    /\ IsList(a.introducing_prim_path)

\* The prims inside instances of a prototype have the same arcs, but for the paths
\* on the instances
ShareArcs(f, q, r) ==
    LET inside(s) == SubSeq(s, Len(Prim(f, s).instance) + 1, Len(s))
        here(s, path) == IsPrefix(Prim(f, s).instance, path)
        beyond(s, path) == SubSeq(path, Len(Prim(f, s).instance) + 1, Len(path))
        same(a, b) == /\ [a EXCEPT !.introducing_prim_path = Null]
                             = [b EXCEPT !.introducing_prim_path = Null]
                      /\ LET x == a.introducing_prim_path
                             y == b.introducing_prim_path
                         IN  IF a.in_root_layer /\ here(q, x)
                             THEN here(r, y) /\ beyond(q, x) = beyond(r, y)
                             ELSE x = y
    IN  (/\ "proxy" \in Prim(f, q).flags \cap Prim(f, r).flags
         /\ Prim(f, q).prototype = Prim(f, r).prototype
         /\ inside(q) = inside(r))
        => /\ Len(Prim(f, q).arcs) = Len(Prim(f, r).arcs)
           /\ \A n \in DOMAIN Prim(f, q).arcs : same(Prim(f, q).arcs[n], Prim(f, r).arcs[n])

ASSUME StagesAssumption ==
    /\ \A f \in DOMAIN Files : "usd" \in Files[f] => f \in DOMAIN Stages
    /\ \A f \in DOMAIN Stages :
        /\ IsList(Stages[f].order) /\ ToSet(Stages[f].order) = Paths(f)
        /\ IsList(Stages[f].errors) /\ IsFiniteSet(Stages[f].layers)
        /\ \A q \in Paths(f) :
            /\ IsList(q) /\ IsList(Prim(f, q).arcs) /\ IsList(Prim(f, q).variant_sets)
            /\ IsList(Prim(f, q).properties)
            /\ \A x \in ToSet(Prim(f, q).properties) : IsFiniteSet(x.samples)
            /\ IsList(Prim(f, q).relationships)
            /\ \A r \in ToSet(Prim(f, q).relationships) :
                IsList(r.targets) /\ \A t \in ToSet(r.targets) : IsList(t.forwarded)
            /\ PropertyNames[<<f, q>>] = {x.name : x \in ToSet(Prim(f, q).properties)}
            \* arcs that give a prim no opinions are authored on it
            /\ \A a \in ToSet(Prim(f, q).arcs) :
                IsArc(a) /\ (~a.ancestral => a.has_specs \/ a.type \notin {"root", "relocate"})
            \* a prim inside an instance is inside every instance of the prototype
            /\ "proxy" \in Prim(f, q).flags =>
                LET i == Prim(f, q).instance
                IN  /\ i \in Paths(f) /\ IsPrefix(i, q)
                    /\ Prim(f, i).prototype = Prim(f, q).prototype
                    /\ "proxy" \notin Prim(f, i).flags
                    /\ "payload" \in Prim(f, i).flags => "payload" \in Prim(f, q).flags
                    /\ \A r \in Paths(f) :
                        Prim(f, r).prototype = Prim(f, q).prototype /\ "proxy" \notin Prim(f, r).flags
                            => LET p == r \o SubSeq(q, Len(i) + 1, Len(q))
                               IN  /\ p \in Paths(f) /\ "proxy" \in Prim(f, p).flags
                                   /\ Prim(f, p).instance = r
                                   /\ Prim(f, p).prototype = Prim(f, r).prototype
            /\ \A r \in Paths(f) : ShareArcs(f, q, r)

\* The functions with a row per prim, or per part of one, those of them that
\* depend on the time, and those of whole stages
PrimFunctions ==
    {"usd_prims", "usd_properties", "usd_time_samples", "usd_relationships", "usd_variants",
     "usd_xforms", "usd_bounds", "usd_material_bindings", "usd_composition_arcs"}
TimedFunctions == {"usd_properties", "usd_xforms", "usd_bounds"}
StageFunctions == {"usd_layers", "usd_stage_metadata", "usd_composition_errors"}

ASSUME FunctionsAssumption ==
    /\ \A c \in Calls : c.function \in DOMAIN Functions
    /\ DOMAIN Functions \subseteq PrimFunctions \cup StageFunctions
    /\ \A name \in DOMAIN Functions :
        /\ Functions[name].unit = "STAGE" <=> name \in StageFunctions
        /\ Functions[name].time_dependent => name \in TimedFunctions
        /\ {"time", "times", "mask_path"} \cap Functions[name].options = {}
        /\ name = "usd_composition_arcs" =>
               Functions[name].columns = {"prim_path", "arc_index", "arc", "introducing_prim_path"}
        /\ name = "usd_material_bindings" =>
               Functions[name].columns = {"prim_path", "material_path", "material_found", "binding_type",
                                          "collection_path", "binding_prim_path", "inherited", "strength",
                                          "material_purpose"}

-----------------------------------------------------------------------------
(* Stages and traversals *)

\* Op(v), with v evaluated once
With(v, Op(_)) == CHOOSE result \in {Op(x) : x \in {v}} : TRUE

\* f, and g where f has nothing
Over(f, g) == [x \in DOMAIN f \cup DOMAIN g |-> IF x \in DOMAIN f THEN f[x] ELSE g[x]]

\* The numbers in S, the smallest first
Sorted(S) == [i \in 1 .. Cardinality(S) |-> CHOOSE n \in S : Cardinality({m \in S : m < n}) = i - 1]

\* The prims OpenUSD composes of a stage: those above and below the mask
Composed(f, o) ==
    {q \in Paths(f) : /\ IsPrefix(q, o.mask_path) \/ IsPrefix(o.mask_path, q)
                      /\ o.load_payloads \/ "payload" \notin Prim(f, q).flags}

\* UsdScanOptions::Predicate, as the flags of prims it does not match
Hidden(o) ==
    (IF o.include_undefined THEN {} ELSE {"undefined"})
        \cup (IF o.include_abstract THEN {} ELSE {"abstract"})
        \cup (IF o.active_only THEN {"inactive"} ELSE {})
        \cup (IF o.instance_proxies THEN {} ELSE {"proxy"})

\* The prims StartTraversal sets out to visit, in depth-first order
StartTraversal(f, o) ==
    LET matches(q) == Prim(f, q).flags \cap Hidden(o) = {}
        visits(q) == /\ q \in Composed(f, o)
                     /\ IsPrefix(o.root, q)
                     /\ \A r \in Prefixes(q) \ {<<>>} : IsPrefix(o.root, r) => matches(r)
    IN  Among(Stages[f].order, {q \in Paths(f) : visits(q)})

-----------------------------------------------------------------------------
(* Producers *)

NewProducer(o, columns) ==
    [time |-> o.time, spaces |-> <<>>, bindings |-> <<>>, collections |-> <<>>,
     prim_arcs |-> <<>>, prototype_arcs |-> <<>>, rows |-> <<>>,
     fetch_values |-> {"value", "array_length"} \cap columns # {}]

Buffered(pr, rows) == [pr EXCEPT !.rows = @ \o rows]

\* What a value that may be animated is at time t
At(f, q, t) == <<f, q, IF Prim(f, q).animated THEN t ELSE Null>>

\* UsdGeomXformCache and UsdGeomBBoxCache, which share what they computed of the
\* prims in S with the calls that follow at the same time
Cached(pr, f, S) == Over(pr.spaces, [key \in {<<f, q>> : q \in S} |-> At(f, key[2], pr.time)])
SetCacheTime(pr, t) == IF t = pr.time THEN pr ELSE [pr EXCEPT !.time = t, !.spaces = <<>>]

\* usd_xforms: the world transform combines those of the ancestors
XformsAddPrim(pr, f, q, o) ==
    LET above == Prefixes(q) \ {<<>>}
        spaces == Cached(pr, f, above)
    IN  IF "xformable" \in Prim(f, q).kinds
        THEN Buffered([pr EXCEPT !.spaces = spaces],
                      <<[prim |-> q, time |-> pr.time,
                         world_matrix |-> {spaces[<<f, r>>] : r \in above}]>>)
        ELSE pr

\* usd_bounds: the box holds the descendants with one of the purposes, down to
\* models that say how large they are.  If there are any, the ancestors transform it
BoundsAddPrim(pr, f, q, o) ==
    LET hint(r) == o.use_extents_hint /\ "extents_hint" \in Prim(f, r).kinds
        below == {r \in Composed(f, o) :
                      /\ IsPrefix(q, r)
                      /\ Prim(f, r).purpose \in ToSet(o.purposes)
                      /\ \A s \in Prefixes(r) \ {r} : IsPrefix(q, s) /\ s # <<>> => ~hint(s)}
        needed == below \cup (Prefixes(q) \ {<<>>})
        spaces == Cached(pr, f, needed)
    IN  IF "imageable" \in Prim(f, q).kinds
        THEN Buffered([pr EXCEPT !.spaces = spaces],
                      <<[prim |-> q, time |-> pr.time,
                         range |-> IF below = {} THEN {} ELSE {spaces[<<f, r>>] : r \in needed}]>>)
        ELSE pr

SpacesBeginStage(pr) == [pr EXCEPT !.spaces = <<>>]

-----------------------------------------------------------------------------
(* usd_material_bindings *)

\* ComputeBoundMaterial, which finds what is authored on the ancestors, and the
\* members of collections, in the caches first.  A collection goes before a
\* direct binding of the same prim; the closest prim decides unless one above
\* it is stronger than its descendants; another purpose falls back on ""
BindingsOf(pr, f, q) == Over(pr.bindings, [r \in Prefixes(q) \ {<<>>} |-> Prim(f, r).bindings])
MembersOf(pr, f) == Over(pr.collections, Stages[f].collections)

ComputeBoundMaterial(bindings, members, q, purpose) ==
    LET applying(r, p) ==
            {b \in bindings[r] : b.purpose = p /\ (b.collection = Null \/ q \in members[b.collection])}
        best(S) == CHOOSE b \in S : b.collection # Null \/ \A c \in S : c.collection = Null
        deciding(p) == {[on |-> r, binding |-> best(applying(r, p))] :
                            r \in {s \in Prefixes(q) \ {<<>>} : applying(s, p) # {}}}
        strong(S) == {d \in S : d.binding.strong}
        winner(S) == IF strong(S) # {}
                     THEN CHOOSE d \in strong(S) : \A e \in strong(S) : Len(d.on) <= Len(e.on)
                     ELSE CHOOSE d \in S : \A e \in S : Len(e.on) <= Len(d.on)
    IN  IF deciding(purpose) # {} THEN <<winner(deciding(purpose))>>
        ELSE IF deciding("") # {} THEN <<winner(deciding(""))>> ELSE <<>>

\* (deviation: the caches are those of the first stage)
BindingsBeginNothing(pr) == pr

BindingsBeginStage(pr) == [pr EXCEPT !.bindings = <<>>, !.collections = <<>>]

BindingsAddPrim(pr, f, q, o) ==
    LET known == [pr EXCEPT !.bindings = BindingsOf(pr, f, q), !.collections = MembersOf(pr, f)]
        row(d) == [prim |-> q, binding |-> d,
                   material_found |-> /\ d.binding.material \in Composed(f, o)
                                      /\ "material" \in Prim(f, d.binding.material).kinds]
    IN  IF "imageable" \in Prim(f, q).kinds
        THEN With(known, LAMBDA found :
                 With(ComputeBoundMaterial(found.bindings, found.collections, q, o.material_purpose),
                      LAMBDA bound : Buffered(found, [i \in DOMAIN bound |-> row(bound[i])])))
        ELSE pr

\* (deviation: the bindings of every prim of the stage are kept)
BindingsClearRows(pr) == pr

\* What Clear drops with the rows: the bindings are kept for one morsel at a time
BindingsClear(pr) == [pr EXCEPT !.bindings = <<>>]

-----------------------------------------------------------------------------
(* usd_composition_arcs *)

\* The instance OpenUSD chose as the source of a prototype, and the path of the
\* prim index of a prim, which the prims inside instances share
Source(f, o, prototype) ==
    Head(Among(Stages[f].order,
               {q \in Composed(f, o) : /\ Prim(f, q).prototype = prototype
                                       /\ "proxy" \notin Prim(f, q).flags}))

IndexPath(f, o, q) ==
    LET prim == Prim(f, q)
    IN  IF "proxy" \in prim.flags
        THEN Source(f, o, prim.prototype) \o SubSeq(q, Len(prim.instance) + 1, Len(q))
        ELSE q

Wanted(o, arcs) ==
    Among(arcs, {a \in ToSet(arcs) : a.type # "root" /\ (o.include_ancestral \/ ~a.ancestral)})

\* A prim is queried if it has arcs with opinions in its index, or metadata that
\* introduces arcs
MayHaveArcs(o, arcs) ==
    \/ o.include_ancestral
    \/ \E a \in ToSet(arcs) : a.type # "root" /\ ~a.ancestral /\ a.has_specs
    \/ \E a \in ToSet(arcs) :
           ~a.ancestral /\ a.type \in {"reference", "payload", "inherit", "specialize", "variant"}

ComputeArcs(f, o, index) ==
    LET arcs == Prim(f, index).arcs
    IN  IF MayHaveArcs(o, arcs) THEN Wanted(o, arcs) ELSE <<>>

\* (deviation: the paths stay those of the source instance)
SameRoots(source, prim) == <<source, source>>

\* The paths left when the last names of both are dropped while they are the same
Roots(source, prim) ==
    LET front(s, k) == SubSeq(s, 1, Len(s) - k)
        stops(k) == LET s == front(source, k)
                        p == front(prim, k)
                    IN  s = p \/ s = <<>> \/ p = <<>> \/ Last(s) # Last(p)
        k == CHOOSE k \in 0 .. Len(source) : stops(k) /\ \A j \in 0 .. k - 1 : ~stops(j)
    IN  <<front(source, k), front(prim, k)>>

\* SdfPath::ReplacePrefix
ReplacePrefix(path, old, new) ==
    IF IsPrefix(old, path) THEN new \o SubSeq(path, Len(old) + 1, Len(path)) ELSE path

\* Rows point to the arcs: into the list of the prim, or of the prototype's prim
ArcRows(q, list, at, arcs, roots) ==
    [n \in DOMAIN arcs |->
        [prim |-> q, arc |-> <<list, at, n>>,
         introducing_prim_path |-> ReplacePrefix(arcs[n].introducing_prim_path, roots[1], roots[2])]]

ArcsAddPrim(pr, f, q, o) ==
    IF "proxy" \notin Prim(f, q).flags
    THEN LET arcs == ComputeArcs(f, o, q)
         IN  Buffered([pr EXCEPT !.prim_arcs = Append(@, arcs)],
                      ArcRows(q, "prim", Len(pr.prim_arcs) + 1, arcs, <<q, q>>))
    ELSE With(IndexPath(f, o, q), LAMBDA index : With(Roots(index, q), LAMBDA roots :
            LET known == Over(pr.prototype_arcs, [i \in {index} |-> ComputeArcs(f, o, index)])
            IN  Buffered([pr EXCEPT !.prototype_arcs = known],
                         ArcRows(q, "prototype", index, known[index], roots))))

ArcsBeginStage(pr) == [pr EXCEPT !.prototype_arcs = <<>>]
ArcsClear(pr) == [pr EXCEPT !.prim_arcs = <<>>]

\* The arc a row points to: anything may be there once the list is gone.  Its
\* path is a column of its own
ArcOf(pr, row) ==
    LET lists == IF row.arc[1] = "prim" THEN pr.prim_arcs ELSE pr.prototype_arcs
    IN  IF row.arc[2] \in DOMAIN lists /\ row.arc[3] \in DOMAIN lists[row.arc[2]]
        THEN [lists[row.arc[2]][row.arc[3]] EXCEPT !.introducing_prim_path = Null]
        ELSE Null

-----------------------------------------------------------------------------
(* Functions whose rows need no cache *)

\* UsdAttribute::Get: animated attributes have no value at the default time
AttributeValue(x, t) ==
    IF t = Null /\ x.samples # {} THEN Null
    ELSE [of |-> x.name, length |-> x.length, at |-> IF x.samples = {} THEN Null ELSE t]

\* The selected properties in name order
Selection(f, q) ==
    LET all == Prim(f, q).properties
    IN  Among(all, {x \in ToSet(all) : x.name \in Get(<<f, q>>)})

\* usd_properties.  A relationship's value is the list of its targets
PropertiesAddPrim(pr, f, q, o) ==
    LET value(x) == IF ~pr.fetch_values THEN Null
                    ELSE AttributeValue(x, IF x.attribute THEN pr.time ELSE Null)
        all == Selection(f, q)
        read == Among(all, {x \in ToSet(all) : o.authored_only => x.authored})
    IN  Buffered(pr, [i \in DOMAIN read |->
                         [prim |-> q, property_name |-> read[i].name, value |-> value(read[i])]])

\* usd_time_samples: the samples (or knots) in the closed interval
TimeSamplesAddPrim(pr, f, q, o) ==
    LET all == Selection(f, q)
        attributes == Among(all, {x \in ToSet(all) : x.attribute})
        times(x) == Sorted({t \in x.samples : o.start_time <= t /\ t <= o.end_time})
        rows(x) == [i \in DOMAIN times(x) |->
                       [prim |-> q, property_name |-> x.name, time |-> times(x)[i],
                        value |-> IF pr.fetch_values THEN AttributeValue(x, times(x)[i]) ELSE Null]]
    IN  Buffered(pr, FlattenSeq([i \in DOMAIN attributes |-> rows(attributes[i])]))

\* usd_relationships.  A target that is a relationship of a composed prim is
\* forwarded to its targets
RelationshipsAddPrim(pr, f, q, o) ==
    LET targets(r) == IF o.forwarded
                      THEN FlattenSeq([i \in DOMAIN r.targets |->
                               IF r.targets[i].prim \in Composed(f, o)
                               THEN r.targets[i].forwarded ELSE <<r.targets[i].prim>>])
                      ELSE [i \in DOMAIN r.targets |-> r.targets[i].prim]
        rows(r) == [i \in DOMAIN targets(r) |->
                       [prim |-> q, relationship_name |-> r.name,
                        target_path |-> targets(r)[i], target_index |-> i - 1]]
        all == Prim(f, q).relationships
    IN  Buffered(pr, FlattenSeq([i \in DOMAIN all |-> rows(all[i])]))

\* usd_variants
VariantsAddPrim(pr, f, q, o) ==
    Buffered(pr, [i \in DOMAIN Prim(f, q).variant_sets |->
                     [prim |-> q, variant_set |-> Prim(f, q).variant_sets[i]]])

\* usd_prims
PrimsAddPrim(pr, f, q, o) == Buffered(pr, <<[prim |-> q]>>)

\* usd_layers: the root layer first, no session layer
LayerRows(f) ==
    LET others == {l \in Stages[f].layers : l \notin {Stages[f].root_layer, Stages[f].session_layer}}
        layers == <<Stages[f].root_layer>> \o Sorted(others)
    IN  [i \in DOMAIN layers |-> [layer |-> layers[i], is_root |-> i = 1]]

\* usd_stage_metadata
MetadataRows(f) == <<[stage |-> f]>>

\* usd_composition_errors
ErrorRows(f) == Stages[f].errors

-----------------------------------------------------------------------------
(* The interface of all producers *)

BeginStage(function, pr, f) ==
    CASE function \in {"usd_xforms", "usd_bounds"} -> SpacesBeginStage(pr)
      [] function = "usd_material_bindings" -> BindingsBeginStage(pr)
      [] function = "usd_composition_arcs" -> ArcsBeginStage(pr)
      [] function = "usd_layers" -> Buffered(pr, LayerRows(f))
      [] function = "usd_stage_metadata" -> Buffered(pr, MetadataRows(f))
      [] function = "usd_composition_errors" -> Buffered(pr, ErrorRows(f))
      [] OTHER -> pr

SetTime(function, pr, t) == SetCacheTime(pr, t)

AddPrim(function, pr, f, q, o) ==
    CASE function = "usd_prims" -> PrimsAddPrim(pr, f, q, o)
      [] function = "usd_properties" -> PropertiesAddPrim(pr, f, q, o)
      [] function = "usd_time_samples" -> TimeSamplesAddPrim(pr, f, q, o)
      [] function = "usd_relationships" -> RelationshipsAddPrim(pr, f, q, o)
      [] function = "usd_variants" -> VariantsAddPrim(pr, f, q, o)
      [] function = "usd_xforms" -> XformsAddPrim(pr, f, q, o)
      [] function = "usd_bounds" -> BoundsAddPrim(pr, f, q, o)
      [] function = "usd_material_bindings" -> BindingsAddPrim(pr, f, q, o)
      [] function = "usd_composition_arcs" -> ArcsAddPrim(pr, f, q, o)

\* Rows, and what the producer keeps for them
Clear(function, pr) ==
    LET cleared == [pr EXCEPT !.rows = <<>>]
    IN  CASE function = "usd_material_bindings" -> BindingsClear(cleared)
          [] function = "usd_composition_arcs" -> ArcsClear(cleared)
          [] OTHER -> cleared

-----------------------------------------------------------------------------
(* Columns of a buffered row.  What is read from the prim or the layer when *)
(* the row is written, and depends on no option, is <<it, the column>>      *)

PrimsWrite(f, row, column) ==
    IF column = "prim_path" THEN row.prim ELSE <<f, row.prim, column>>

\* The prim's own transform is read when the row is written, at the row's time.
\* The other columns are parts of the world matrix, or do not depend on time
LocalMatrix(pr, f, row) == At(f, row.prim, row.time)

XformsWrite(pr, f, row, column) ==
    CASE column = "prim_path" -> row.prim
      [] column = "world_matrix" -> row.world_matrix
      [] column = "local_matrix" -> LocalMatrix(pr, f, row)
      [] OTHER -> <<f, row.prim, column>>

\* An empty box has no corners
BoundsWrite(row, column) ==
    CASE column = "prim_path" -> row.prim
      [] column = "range" -> IF row.range = {} THEN Null ELSE row.range

BindingsWrite(row, column) ==
    LET b == row.binding.binding
    IN  CASE column = "prim_path" -> row.prim
          [] column = "material_path" -> b.material
          [] column = "material_found" -> row.material_found
          [] column = "binding_type" -> IF b.collection = Null THEN "direct" ELSE "collection"
          [] column = "collection_path" -> b.collection
          [] column = "binding_prim_path" -> row.binding.on
          [] column = "inherited" -> row.binding.on # row.prim
          [] column = "strength" -> b.strong
          [] column = "material_purpose" -> IF b.purpose = "" THEN "allPurpose" ELSE b.purpose

\* The columns of the arc but for its path are one
ArcsWrite(pr, row, column) ==
    CASE column = "prim_path" -> row.prim
      [] column = "arc_index" -> row.arc[3] - 1
      [] column = "arc" -> ArcOf(pr, row)
      [] column = "introducing_prim_path" -> row.introducing_prim_path

\* Empty values, and arrays longer than max_array_length unless it is 0, are
\* NULL; scalars have no length
ArrayLength(value) == IF value = Null THEN Null ELSE value.length
WriteValue(value, o) ==
    IF o.max_array_length > 0 /\ ArrayLength(value) # Null /\ ArrayLength(value) > o.max_array_length
    THEN Null ELSE value

\* usd_properties and usd_time_samples.  Whether a property is custom, authored
\* and so on is read from it when the row is written
PropertiesWrite(f, row, column, o) ==
    CASE column = "prim_path" -> row.prim
      [] column = "property_name" -> row.property_name
      [] column = "value" -> WriteValue(row.value, o)
      [] column = "array_length" -> ArrayLength(row.value)
      [] OTHER -> <<f, row.prim, row.property_name, column>>

TimeSamplesWrite(f, row, column, o) ==
    IF column = "time" THEN row.time ELSE PropertiesWrite(f, row, column, o)

RelationshipsWrite(row, column) == IF column = "prim_path" THEN row.prim ELSE row[column]
VariantsWrite(f, row, column) ==
    CASE column = "prim_path" -> row.prim
      [] column = "variant_set" -> row.variant_set
      [] OTHER -> <<f, row.prim, row.variant_set, column>>

LayersWrite(row, column) == IF column = "is_root" THEN row.is_root ELSE <<row.layer, column>>

\* The number of layers leaves out the session layer of the stage; a range of
\* time codes that is not authored is NULL
MetadataWrite(row, column) ==
    LET stage == Stages[row.stage]
    IN  CASE column = "layer_count" -> Cardinality(stage.layers \ {stage.session_layer})
          [] column = "time_code_range" -> stage.time_codes
          [] OTHER -> <<row.stage, column>>

\* Errors of the stage as a whole have no path
ErrorsWrite(row, column) == IF column = "prim_path" THEN row.prim ELSE row[column]

Write(function, pr, f, row, column, o) ==
    CASE function = "usd_prims" -> PrimsWrite(f, row, column)
      [] function = "usd_xforms" -> XformsWrite(pr, f, row, column)
      [] function = "usd_bounds" -> BoundsWrite(row, column)
      [] function = "usd_material_bindings" -> BindingsWrite(row, column)
      [] function = "usd_composition_arcs" -> ArcsWrite(pr, row, column)
      [] function = "usd_properties" -> PropertiesWrite(f, row, column, o)
      [] function = "usd_time_samples" -> TimeSamplesWrite(f, row, column, o)
      [] function = "usd_relationships" -> RelationshipsWrite(row, column)
      [] function = "usd_variants" -> VariantsWrite(f, row, column)
      [] function = "usd_layers" -> LayersWrite(row, column)
      [] function = "usd_stage_metadata" -> MetadataWrite(row, column)
      [] function = "usd_composition_errors" -> ErrorsWrite(row, column)
=============================================================================
