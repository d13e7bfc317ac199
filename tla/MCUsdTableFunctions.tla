------------------------ MODULE MCUsdTableFunctions ------------------------
(***************************************************************************)
(* Two files with instances, animation, bindings and arcs, and the calls   *)
(* queries make of them.                                                   *)
(***************************************************************************)
EXTENDS UsdTableFunctions

-----------------------------------------------------------------------------
(* Contents of the files *)

MCNames == {"points", "rel", "size", "bad name"}
MCValidNames == MCNames \ {"bad name"}

Points == [name |-> "points", attribute |-> TRUE, authored |-> TRUE, samples |-> {1, 2, 4}, length |-> 3]
Rel == [name |-> "rel", attribute |-> FALSE, authored |-> TRUE, samples |-> {}, length |-> 1]
Size == [name |-> "size", attribute |-> TRUE, authored |-> FALSE, samples |-> {}, length |-> Null]

Prop == [flags |-> {}, kinds |-> {"imageable", "xformable"}, animated |-> FALSE, purpose |-> "default",
         properties |-> <<>>, bindings |-> {}, arcs |-> <<>>, relationships |-> <<>>,
         variant_sets |-> <<>>, instance |-> <<>>, prototype |-> Null]

W == <<"W">>
T == <<"W", "t">>
V == <<"V">>
U == <<"U">>
Metal == <<"M", "r">>
Instances == {W \o <<"i">>, V \o <<"i">>, U}

Arc(type, path) == [type |-> type, ancestral |-> FALSE, has_specs |-> TRUE,
                    introducing_prim_path |-> path, in_root_layer |-> TRUE]
Ancestral(arc) == [arc EXCEPT !.ancestral = TRUE]
Unspecified(arc) == [arc EXCEPT !.has_specs = FALSE]
Asset(arc) == [arc EXCEPT !.in_root_layer = FALSE]

Binding(purpose, material) ==
    [purpose |-> purpose, strong |-> FALSE, collection |-> Null, material |-> material]
Members(purpose, material) ==
    [Binding(purpose, material) EXCEPT !.collection = "col", !.strong = TRUE]

\* An instance of the prim T, and the prim x in it
Instance(q) == [Prop EXCEPT !.prototype = "P", !.arcs = <<Arc("reference", q)>>,
                            !.purpose = "render"]
Proxy(q, arcs) ==
    [Prop EXCEPT !.flags = {"proxy"}, !.prototype = "P", !.instance = q, !.arcs = arcs,
                 !.properties = <<Size>>]

SceneOrder ==
    <<W, W \o <<"i">>, W \o <<"i", "x">>, T, T \o <<"x">>, V, V \o <<"i">>, V \o <<"i", "x">>,
      U, U \o <<"x">>, <<"M">>, Metal, <<"C">>, <<"O">>, <<"N">>, <<"L">>, <<"L", "p">>>>

\* What both files have
Scene(arcs(_)) ==
    [q \in ToSet(SceneOrder) |->
        CASE q \in Instances -> Instance(q)
          [] q \in {i \o <<"x">> : i \in Instances} -> Proxy(Front(q), arcs(Front(q)))
          [] q = Metal -> [Prop EXCEPT !.kinds = {"material"}]
          [] q = <<"C">> -> [Prop EXCEPT !.flags = {"abstract"}]
          [] q = <<"O">> -> [Prop EXCEPT !.flags = {"undefined"}, !.kinds = {}]
          [] q = <<"N">> -> [Prop EXCEPT !.flags = {"inactive"}]
          [] q = <<"L">> -> [Prop EXCEPT !.arcs = <<Unspecified(Arc("inherit", q))>>]
          [] q = <<"L", "p">> -> [Prop EXCEPT !.flags = {"payload"}]
          [] OTHER -> Prop]

SceneA ==
    [Scene(LAMBDA i : <<Ancestral(Arc("reference", i)), Arc("inherit", T \o <<"x">>),
                        Asset(Arc("reference", <<"A", "x">>))>>)
        EXCEPT ![W] = [@ EXCEPT !.animated = TRUE, !.properties = <<Points, Rel, Size>>,
                                !.bindings = {Binding("", Metal), Members("full", Metal)},
                                !.variant_sets = <<"look", "detail">>,
                                !.relationships = <<[name |-> "rel", targets |->
                                    <<[prim |-> V, forwarded |-> <<Metal, U>>],
                                      [prim |-> Metal, forwarded |-> <<Metal>>]>>]>>],
               ![T] = [@ EXCEPT !.bindings = {Binding("preview", <<"M", "missing">>)},
                                !.properties = <<Points>>, !.purpose = "proxy", !.animated = TRUE],
               ![T \o <<"x">>] = [@ EXCEPT !.arcs = <<Arc("root", <<>>), Arc("inherit", T \o <<"x">>)>>],
               ![V] = [@ EXCEPT !.properties = <<Size>>, !.kinds = @ \cup {"extents_hint"}]]

SceneB ==
    [Scene(LAMBDA i : <<Ancestral(Arc("reference", i)), Unspecified(Arc("payload", T \o <<"x">>))>>)
        EXCEPT ![V] = [@ EXCEPT !.animated = TRUE, !.bindings = {Members("", Metal)}],
               ![W] = [@ EXCEPT !.bindings = {Members("full", Metal), Binding("full", V)}],
               ![T] = [@ EXCEPT !.properties = <<Points, Size>>]]

MCStages ==
    [a |-> [order |-> SceneOrder, prim |-> SceneA, collections |-> [col |-> {T}],
            layers |-> {1, 2, 3, 4}, root_layer |-> 2, session_layer |-> 3,
            time_codes |-> <<1, 4>>, errors |-> <<>>],
     b |-> [order |-> SceneOrder, prim |-> SceneB, collections |-> [col |-> {T \o <<"x">>, V}],
            layers |-> {5, 6}, root_layer |-> 5, session_layer |-> 6, time_codes |-> Null,
            errors |-> <<[prim |-> V, message |-> "e1"], [prim |-> W, message |-> "e2"],
                         [prim |-> Null, message |-> "e3"]>>]]

MCPropertyNames ==
    [key \in {"a", "b"} \X ToSet(SceneOrder) |->
        {x.name : x \in ToSet(MCStages[key[1]].prim[key[2]].properties)}]

MCFiles == [a |-> {"usd"}, b |-> {"usd", "missing", "denied"}, c |-> {"unsupported"},
            d |-> {"missing", "directory"}]
MCMatches == [a |-> <<"a">>, b |-> <<"b">>, c |-> <<"c">>, d |-> <<"d">>, all |-> <<"a", "b">>,
              none |-> <<>>, remote |-> <<>>]
MCGlobs == {"all", "none"}
MCRemote == {"remote"}

-----------------------------------------------------------------------------
(* Functions *)

Definition(columns, accepted) ==
    [unit |-> "PRIM", columns |-> columns, options |-> accepted, time_dependent |-> FALSE,
     returns_values |-> FALSE, property_name |-> FALSE]
OfStages(columns) == [Definition(columns, {}) EXCEPT !.unit = "STAGE"]

MCFunctions ==
    [usd_prims |-> Definition({"prim_path", "specifier"}, {}),
     usd_properties |->
        [Definition({"prim_path", "property_name", "is_custom", "array_length", "value"}, {"authored_only"})
            EXCEPT !.time_dependent = TRUE, !.returns_values = TRUE, !.property_name = TRUE],
     usd_time_samples |->
        [Definition({"prim_path", "property_name", "time", "array_length", "value"},
                    {"start_time", "end_time"})
            EXCEPT !.returns_values = TRUE, !.property_name = TRUE],
     usd_relationships |->
        Definition({"prim_path", "relationship_name", "target_path", "target_index"}, {"forwarded"}),
     usd_variants |-> Definition({"prim_path", "variant_set", "selection"}, {}),
     usd_xforms |->
        [Definition({"prim_path", "world_matrix", "local_matrix", "time_varying"}, {})
            EXCEPT !.time_dependent = TRUE],
     usd_bounds |->
        [Definition({"prim_path", "range"}, {"purposes", "use_extents_hint"})
            EXCEPT !.time_dependent = TRUE],
     usd_material_bindings |->
        Definition({"prim_path", "material_path", "material_found", "binding_type", "collection_path",
                    "binding_prim_path", "inherited", "strength", "material_purpose"},
                   {"material_purpose"}),
     usd_composition_arcs |->
        Definition({"prim_path", "arc_index", "arc", "introducing_prim_path"}, {"include_ancestral"}),
     usd_layers |-> OfStages({"layer_identifier", "is_root"}),
     usd_stage_metadata |-> OfStages({"layer_count", "time_code_range", "up_axis"}),
     usd_composition_errors |-> OfStages({"prim_path", "message"})]

-----------------------------------------------------------------------------
(* Calls *)

None == <<>>
Call(function, parameters) ==
    [function |-> function, parameters |-> parameters, paths |-> <<"all">>,
     columns |-> MCFunctions[function].columns \cup {"rowid"}
                     \cup (IF "times" \in DOMAIN parameters THEN {"time"} ELSE {})
                     \cup (IF "filename" \in DOMAIN parameters THEN {"filename"} ELSE {}),
     filters |-> {}]
Of(paths, c) == [c EXCEPT !.paths = paths]
Columns(columns, c) == [c EXCEPT !.columns = columns]
Where(filters, c) == [c EXCEPT !.filters = filters]

Is(op, values) == [op |-> op, column |-> "property_name", constants |-> TRUE, values |-> values]
IsSize == Is("=", {"size"})
IsOther == [op |-> "other", column |-> "other", constants |-> TRUE, values |-> {}]
IsDynamic == [Is("=", {}) EXCEPT !.constants = FALSE]
SizeOrPoints == {Is("IN", {"size", "points", Null})}
SizeOrRel == {IsSize, Is("=", {"rel"})}
Bad == {Is("=", {"bad name"}), IsSize}
MCFilters == {SizeOrPoints, SizeOrRel, Bad, {IsSize, IsOther}, {IsOther}, {IsDynamic}}
MCOtherMatches == {<<IsOther, "points">>, <<IsOther, "size">>, <<IsDynamic, "rel">>, <<IsDynamic, "size">>}

Everything == [instance_proxies |-> TRUE, include_abstract |-> TRUE, include_undefined |-> TRUE]
Proxies == [instance_proxies |-> TRUE]

ScanCalls ==
    {Call(function, None) : function \in {"usd_prims", "usd_variants", "usd_layers", "usd_stage_metadata",
                                          "usd_composition_errors", "usd_relationships"}}
    \cup {Call("usd_prims", Everything),
          Call("usd_prims", [active_only |-> TRUE, load_payloads |-> FALSE, filename |-> TRUE]),
          Call("usd_prims", [root |-> <<"X">>]),
          Call("usd_prims", [root |-> V] @@ Proxies),
          Call("usd_properties", [times |-> <<1, 2>>]),
          Call("usd_properties", [time |-> 2, max_array_length |-> 2]),
          Call("usd_properties", [authored_only |-> TRUE, root |-> W]),
          Columns({"property_name", "array_length"}, Call("usd_properties", [time |-> 1])),
          Columns({"rowid"}, Call("usd_properties", None)),
          Call("usd_time_samples", [start_time |-> 2, end_time |-> 2]),
          Columns({"prim_path", "time"}, Call("usd_time_samples", [max_array_length |-> 0])),
          Call("usd_relationships", [forwarded |-> TRUE, root |-> W]),
          Call("usd_xforms", Proxies),
          Call("usd_xforms", [times |-> <<2, 1>>, root |-> T]),
          Call("usd_xforms", [root |-> <<"W", "i">>] @@ Proxies),
          Of(<<"a", "b", "a">>, Call("usd_xforms", [time |-> 1])),
          Call("usd_bounds", [times |-> <<1, 2>>, root |-> V]),
          Call("usd_bounds", [purposes |-> <<"proxy">>, use_extents_hint |-> FALSE]),
          Call("usd_material_bindings", None),
          Call("usd_material_bindings", [material_purpose |-> "allPurpose"] @@ Proxies),
          Call("usd_material_bindings", [material_purpose |-> "full", root |-> T]),
          Of(<<"a", "b", "all">>, Call("usd_material_bindings", [material_purpose |-> "full"])),
          Call("usd_material_bindings", [material_purpose |-> "preview"]),
          Call("usd_composition_arcs", None),
          Call("usd_composition_arcs", Proxies),
          Call("usd_composition_arcs", [include_ancestral |-> TRUE] @@ Proxies),
          Call("usd_composition_arcs", [include_ancestral |-> TRUE, root |-> V] @@ Proxies),
          Of(<<"b", "a">>, Call("usd_composition_arcs", Proxies))}

FilterCalls ==
    {Where(filters, Of(<<"a">>, Call("usd_properties", None))) :
        filters \in {{SizeOrPoints, SizeOrRel}, {Bad, {IsOther}, {IsDynamic}},
                     {SizeOrPoints, {IsSize, IsOther}}}}
    \cup {Where({SizeOrRel}, Of(<<"a">>, Call("usd_properties", [root |-> W]))),
          Where({SizeOrPoints}, Call("usd_time_samples", None))}

BindCalls ==
    {Of(paths, Call("usd_prims", parameters)) :
        paths \in {<<"a", "b">>, <<"all", "c">>, <<"c">>, <<"d", "b">>, <<"b">>, <<"d">>, <<"none">>,
                  <<"remote", "a">>},
        parameters \in {None, [ignore_errors |-> TRUE]}}
    \cup {Of(Null, Call("usd_prims", None)), Of(<<"a", Null>>, Call("usd_prims", None))}

RejectedCalls ==
    {Call("usd_properties", p) :
        p \in {[root |-> NotAPath], [time |-> Null], [time |-> 1, times |-> <<1>>], [times |-> <<>>],
               [times |-> <<1, Null>>], [max_array_length |-> -1]}}
    \cup {Call("usd_bounds", [purposes |-> <<"default", "side">>]),
          Call("usd_material_bindings", [material_purpose |-> "all"]),
          Call("usd_time_samples", [start_time |-> 3, end_time |-> 2])}

MCCalls == ScanCalls \cup FilterCalls \cup BindCalls \cup RejectedCalls
=============================================================================
