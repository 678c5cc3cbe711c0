----------------------------- MODULE MCJsonParser ----------------------------
(***************************************************************************)
(* Documents for TLC: every document of a shape whose slots are filled     *)
(* from small sets of values.  Inputs are kept as a set of families, each  *)
(* the documents of one shape.                                             *)
(***************************************************************************)
EXTENDS JsonMeaning, MCSettings

P(name)    == JsonObject([property |-> JsonString(name)])
Date(text) == JsonObject([date |-> JsonString(text)])
Str(text)  == JsonString(text)
Num        == JsonNum("n1")
True       == JsonBool("true")

\* The calls of op with one argument of each slot.
Calls1(op, slot)        == {JsonCall(op, <<v>>) : v \in slot}
Calls2(op, left, right) == {JsonCall(op, <<v, w>>) : v \in left, w \in right}

-----------------------------------------------------------------------------
(* Logic: connectives over every kind of predicate, and NOT twice.         *)

LogicInputs ==
    LET flagged == {JsonCall("isNull", <<P("x")>>), JsonCall("like", <<P("x"), Str("w")>>),
                    JsonCall("in", <<P("x"), JsonArray(<<Num>>)>>),
                    JsonCall("between", <<P("x"), Num, Num>>)}
        atoms == flagged \cup {True, Num, JsonCall("f", << >>), JsonCall("=", <<P("x"), Num>>),
                               JsonCall("and", <<True>>), JsonCall("a_contains", <<P("l"), P("l")>>)}
        few   == {True, Num, JsonCall("isNull", <<P("x")>>), JsonCall("f", << >>)}
        over(slots, more) == {Calls1(op, slots) : op \in {"and", "or", "not", "isNull"}}
                               \cup {Calls2(op, slots, more) : op \in {"and", "or", "not"}}
        first == UNION over(atoms, few)
    IN  {atoms, first, Calls1("not", Calls1("not", first)),
         {JsonCall("or", <<u, v, w>>) : u \in few, v \in few, w \in few}} \cup over(first, few)

(* Scalars: operands of every type under every conformance switch.         *)

Scalars ==
    {P(v) : v \in DOMAIN MCProperties \cup {"unknown", ""}}
      \cup {Num, JsonNum("1e1000001"), Str("d1"), Str("w"), True, Date("d1"), Date("t1"),
            JsonArray(<<Num>>), JsonObject(<< >>), JsonObject([timestamp |-> Str("t1")]),
            JsonObject([property |-> Num]), JsonObject([op |-> Str("f")]), JsonObject([op |-> Num])}
      \cup UNION {Calls1(op, {Num, Str("w"), P("s")}) : op \in {"n", "m", "b", "f", "casei", "CASEI", "unknown"}}
      \cup Calls2("+", {Num, P("a"), Str("w")}, {Num, P("a")}) \cup {JsonCall("div", <<Num, Num>>), JsonCall("+", <<Num>>)}
      \cup Calls2("a_containedby", {P("l")}, {P("x")}) \cup Calls2("T_AFTER", {P("d")}, {P("d")})
      \cup Calls2("t_after", {P("d")}, {P("d")}) \cup {JsonCall("f", << >>), JsonCall("v", <<Num, Num>>)}

ScalarInputs ==
    LET short == {P("a"), P("s"), P("d"), Num, Str("w"), Str("d1"), JsonCall("n", <<Num>>), Date("d1")}
        lists == {JsonArray(l) : l \in UNION {[1..k -> short] : k \in 0..1}} \cup {Str("w")}
        patterns == {Str("w"), P("s")} \cup Calls1("casei", Calls1("accenti", {Str("w")}))
    IN  {Scalars, Calls1("isNull", Scalars), Calls1("b", Scalars), Calls1("casei", Scalars),
         Calls2("=", {P("x"), JsonNull}, {JsonNull}), Calls1("isNull", {JsonNull}),
         Calls2("in", {P("x")}, {JsonArray(<<Num, JsonNull>>)}),
         Calls2("in", Scalars, lists),
         Calls2("in", {P("x")}, {JsonArray(<<v, w>>) : v \in Scalars, w \in {Num, P("s")}}),
         Calls2("like", Scalars, patterns),
         Calls2("like", {P("s")}, Scalars \cup Calls1("casei", Calls1("accenti", Scalars)))}
          \cup {Calls2(op, Scalars, short) : op \in {"=", "<"}}
          \cup {Calls2(op, {P("x"), P("d"), P("s")}, Scalars) : op \in {"=", "<"}}
          \cup {{JsonCall("between", <<u, v, w>>), JsonCall("between", <<w, v, u>>)} :
                   u \in Scalars, v \in {Num, Str("w")}, w \in {P("a")}}
          \cup {Calls2(op, Scalars, {P("i"), P("d"), P("l"), P("g")}) :
                   op \in {"t_after", "t_during", "a_containedby", "A_CONTAINS", "t_finishedby",
                           "s_intersects", "s_within"}}

(* Keys: objects with several of the keys that say what they are.          *)

KeyInputs ==
    LET member == [property |-> {Str("d"), Str("unknown")}, date |-> {Str("d1"), Str("w")},
                   timestamp |-> {Str("t1")}, interval |-> {JsonArray(<<Str(".."), Str("d1")>>), Num},
                   op |-> {Str("f"), Str("and"), Str("casei"), Str("=")},
                   args |-> {JsonArray(<< >>), JsonArray(<<True, True>>)},
                   type |-> {Str("Point"), Str("Other")},
                   coordinates |-> {JsonArray(<<Num, Num>>), Num},
                   bbox |-> {JsonArray(<<Num, Num, Num, Num>>), JsonArray(<<Num>>)}]
        keys == {k \in SUBSET DOMAIN member : Cardinality(k) <= 3 /\ ("args" \in k => "op" \in k)}
        objects == UNION {{JsonObject(o) : o \in {o \in [k -> UNION {member[i] : i \in k}] :
                                                    \A i \in k : o[i] \in member[i]}} : k \in keys}
    IN  {objects, Calls2("=", {P("d")}, objects), Calls2("t_before", objects, {P("d")}),
         Calls2("s_equals", {P("g")}, objects), Calls2("like", objects, {Str("w")}),
         Calls1("isNull", objects), Calls1("f", objects),
         {JsonCall("a_equals", <<P("l"), JsonArray(<<v>>)>>) : v \in objects}}

(* Time: instants, intervals and the predicates over them.                 *)

TemporalInputs ==
    LET ends == {Str(".."), Str("d1"), Str("d2"), Str("t1"), Str("w"), P("d"), P("date"), P("s"), P("x"), Num,
                 JsonNull, Date("d1"), JsonCall("f", << >>), JsonCall("f", <<P("d")>>), JsonCall("n", <<Num>>),
                 JsonCall("casei", <<Str("w")>>), JsonArray(<< >>)}
        interval(es) == JsonObject([interval |-> JsonArray(es)])
        intervals == {interval(<<u, v>>) : u \in ends, v \in ends} \cup {interval(<<Num>>)}
        some == {interval(<<Str("d1"), Str("..")>>), Date("d1"), P("d"), P("i"), P("s"), Str("d1"),
                 JsonCall("f", <<P("x")>>), JsonCall("n", <<Num>>)}
        preds == UNION {Calls2(op, some, some) : op \in {"t_after", "t_meets", "t_finishedBy"}}
    IN  {Calls1("isNull", intervals), Calls1("f", intervals), Calls1("f", preds), preds,
         Calls2("t_equals", intervals, {P("d")}), Calls2("=", {True}, preds)}

(* Geometry: literals of every type, good and bad.                         *)

GeometryInputs ==
    LET n(k)    == JsonNum(k)
        at(x, y) == JsonArray(<<n(x), n(y)>>)
        points  == {at(x, y) : x \in {"n0", "n180", "n181"}, y \in {"n0", "n90", "n91"}}
                     \cup {JsonArray(<<n("n0"), n("n0"), n("n1")>>), JsonArray(<<n("n0")>>),
                           JsonArray(<<n("n0"), Str("w")>>), JsonArray(<<n("1e1000001"), n("n0")>>), JsonNull}
        few     == {at("n0", "n0"), at("n1", "n0"), at("n0", "n91")}
        lines   == {JsonArray(l) : l \in UNION {[1..k -> few] : k \in 0..2}}
        rings   == {JsonArray(<<at("n0", "n0"), at("n1", "n0"), u, v>>) :
                       u \in few, v \in few \cup {JsonArray(<<n("n0"), n("n0"), n("n1")>>)}}
        polygons == {JsonArray(<< >>)} \cup {JsonArray(<<r>>) : r \in rings \cup lines}
        nested  == {JsonArray(<< >>), JsonNull} \cup {JsonArray(<<p>>) : p \in polygons}
        geo(type, data) == {JsonObject([type |-> Str(type), coordinates |-> d]) : d \in data}
        boxes   == {JsonArray(<<n("n0"), n(a), n(b), n(c)>>) : a \in {"n0", "n1"}, b \in {"n0", "n181"}, c \in {"n0", "n90"}}
                     \cup {JsonArray(<<n("n0"), n("n0"), n(c), n("n1"), n("n1"), n("n1")>>) : c \in {"n0", "n2"}}
                     \cup {JsonArray(<<Num>>), JsonNull}
        boxed   == {JsonObject([bbox |-> b]) : b \in boxes}
                     \cup {JsonObject([bbox |-> b, type |-> Str("Point"), coordinates |-> at("n0", "n0")]) : b \in boxes}
        simple  == geo("Point", points \cup lines) \cup geo("MultiPoint", lines \cup points)
                     \cup geo("LineString", lines) \cup geo("Polygon", polygons)
                     \cup geo("MultiLineString", {JsonArray(<<l>>) : l \in lines} \cup {JsonArray(<< >>)})
                     \cup geo("MultiPolygon", nested) \cup geo("Circle", points)
                     \cup {JsonObject([type |-> Str("Polygon")]), JsonObject([type |-> Num])}
        children == {CHOOSE g \in geo("Point", {at("n0", "n0")}) : TRUE, CHOOSE g \in geo("Point", {at("n0", "n91")}) : TRUE,
                     JsonObject([bbox |-> JsonArray(<<n("n0"), n("n0"), n("n0"), n("n0")>>)]), P("g")}
        collect(gs) == JsonObject([type |-> Str("GeometryCollection"), geometries |-> JsonArray(gs)])
        collections == {collect(gs) : gs \in UNION {[1..k -> children] : k \in 0..2}}
        deeper  == {collect(<<CHOOSE g \in children : Has(g, "coordinates"), c>>) : c \in collections}
        all     == simple \cup boxed \cup collections \cup deeper
                     \cup {JsonObject([type |-> Str("GeometryCollection")])}
    IN  {Calls2("s_intersects", all, {P("g")}), Calls2("s_within", {P("g"), P("s")}, all),
         Calls1("f", all), Calls1("isNull", all)}

-----------------------------------------------------------------------------
(* Run "json_language".                                                    *)

LanguageCases ==
    Given(LogicInputs, AllOn) \cup Given(ScalarInputs, Switches)
      \cup Given(KeyInputs \cup TemporalInputs \cup GeometryInputs, TypedOn)

(* Run "json_depth": small limits and everything that recurses.            *)

RECURSIVE Nest(_, _, _)
Nest(n, Wrap(_), core) == IF n = 0 THEN core ELSE Wrap(Nest(n - 1, Wrap, core))

DepthInputs ==
    LET not(v)   == JsonCall("not", <<v>>)
        and(v)   == JsonCall("and", <<True, v>>)
        f(v)     == JsonCall("f", <<v>>)
        array(v) == JsonArray(<<v>>)
        plus(v)  == JsonCall("+", <<v, Num>>)
        casei(v) == JsonCall("casei", <<v>>)
        isNull(v) == JsonCall("isNull", <<v>>)
        ends(v)  == JsonObject([interval |-> JsonArray(<<JsonCall("f", <<v>>), Str("..")>>)])
        collect(v) == JsonObject([type |-> Str("GeometryCollection"), geometries |-> JsonArray(<<v, v>>)])
        box      == JsonObject([bbox |-> JsonArray(<<Num, Num, Num, Num>>)])
        equal(v) == JsonCall("=", <<v, Num>>)
    IN  {{Nest(k, not, True), Nest(k, and, True), Nest(k, f, P("x")), Nest(k, isNull, P("x")),
          f(Nest(k, array, Num)), JsonCall("a_equals", <<P("l"), Nest(k, array, Num)>>),
          equal(Nest(k, plus, Num)), equal(f(Nest(k, plus, Num))),
          JsonCall("=", <<Nest(k, casei, Str("w")), Str("w")>>),
          JsonCall("like", <<P("s"), Nest(k, casei, Str("w"))>>),
          JsonCall("like", <<Nest(k, casei, P("s")), Str("w")>>),
          JsonCall("between", <<Nest(k, plus, P("a")), Num, Num>>),
          Nest(k, and, JsonCall("between", <<Num, Num, Num>>)),
          Nest(k, and, JsonCall("like", <<casei(Str("w")), Str("w")>>)),
          JsonCall("in", <<P("a"), JsonArray(<<Nest(k, plus, Num)>>)>>),
          JsonCall("t_after", <<Nest(k, ends, P("x")), P("x")>>),
          f(Nest(k, ends, P("x"))),
          JsonCall("s_within", <<P("g"), Nest(k, collect, box)>>),
          isNull(Nest(k, equal, Num))} : k \in 0..4}

DepthCases == Given(DepthInputs, {[Everything EXCEPT !.maxDepth = m] : m \in 1..24})

(* Run "unchecked_depth": nested operators and casts.                      *)

UncheckedInputs ==
    LET plus(v)  == JsonCall("+", <<v, Num>>)
        casei(v) == JsonCall("casei", <<v>>)
    IN  {{JsonCall("=", <<Nest(k, plus, Num), Num>>), JsonCall("=", <<Nest(k, casei, Str("w")), Str("w")>>)}
         : k \in 1..8}

UncheckedCases == Given(UncheckedInputs, {[Everything EXCEPT !.maxDepth = m] : m \in 1..8})

(* Run "null": null wherever a value may be.                               *)

NullInputs ==
    LET values == {JsonNull, Num, P("x"), JsonArray(<<JsonNull>>), JsonArray(<< >>)}
    IN  {Calls2(op, values, values) : op \in {"=", "in", "and", "a_contains", "t_after", "s_within", "+", "like"}}
          \cup {Calls1(op, values) : op \in {"isNull", "f", "b"}} \cup {values}

NullCases == Given(NullInputs, AllOn)
=============================================================================
