----------------------------- MODULE MCRoundTrip -----------------------------
(***************************************************************************)
(* Filters for TLC to write and read again: one or a few of every          *)
(* construct in every place it may stand, as text and as JSON.             *)
(***************************************************************************)
EXTENDS RoundTripMeaning, MCSettings

\* "n1.0" is another way to write one.
MCRoundTripNumbers == [t \in DOMAIN MCNumbers \cup {"n1.0"} |-> IF t = "n1.0" THEN 1 ELSE MCNumbers[t]]

MCSpelling == [quoted |-> <<"a", "'", "a">>, twice |-> <<"'", "'">>, escaped |-> <<"a", "\\", "a">>,
               trailing |-> <<"a", "\\">>, both |-> <<"\\", "'", "a">>]

\* A function of the application may be named like an operator.
MCRoundTripFunctions ==
    [name \in DOMAIN MCFunctions \cup {"LIKE", "T_METBY", "A_CONTAINEDBY", "ACCENTI"} |->
        IF name = "ACCENTI" THEN MCFunctions.CASEI
        ELSE IF name \in DOMAIN MCFunctions THEN MCFunctions[name]
        ELSE Def(<<{"any"}, {"any"}>>, {"boolean"})]

RoundTripParser == [Everything EXCEPT !.functions = MCRoundTripFunctions]

\* A registry that knows a property by a keyword's name.
RegistryParser ==
    [RoundTripParser EXCEPT !.restricted = TRUE,
                            !.properties = [x |-> "any", date |-> "date", interval |-> "interval"]]

-----------------------------------------------------------------------------
(* CQL2 JSON.                                                              *)

P(name)  == JsonObject([property |-> JsonString(name)])
Str(text) == JsonString(text)
Date     == JsonObject([date |-> Str("d1")])
Num      == JsonNum("n1")
Minus    == JsonNum("m1")
True     == JsonBool("TRUE")

Calls1(op, slot)        == {JsonCall(op, <<v>>) : v \in slot}
Calls2(op, left, right) == {JsonCall(op, <<v, w>>) : v \in left, w \in right}

Interval(start, end) == JsonObject([interval |-> JsonArray(<<start, end>>)])
Intervals == {Interval(Str("d1"), Str("..")), Interval(Str(".."), P("date")), Interval(JsonCall("f", <<P("x")>>), Str("t1"))}

Sums == Calls2("+", {P("x")}, {Num, Minus, JsonCall("*", <<P("x"), Num>>)})
          \cup Calls2("-", Calls2("-", {P("x")}, {Num}), {Minus, JsonCall("-", <<Num, P("x")>>)})
          \cup Calls2("div", {Num}, Calls2("^", {Num}, {Num}))

Numeric == Sums \cup {P("x"), Num, Minus, JsonCall("n", <<Num>>)}

Scalars == Numeric \cup {P("AND"), P("date"), P("two words"), P("Z"), Str("w"), Str(".."), True, Date}
             \cup {Str(text) : text \in DOMAIN MCSpelling}
             \cup Calls1("casei", {Str("w"), P("x")} \cup Calls1("accenti", {P("x")})) \cup Calls1("POINT", {Num})
             \cup {JsonCall("f", << >>), JsonCall("n", <<JsonCall("+", <<P("x"), Num>>)>>)}

\* Geometry literals.
Pt(x, y)  == JsonArray(<<JsonNum(x), JsonNum(y)>>)
Geo(type, data) == JsonObject([type |-> Str(type), coordinates |-> data])
Box        == JsonArray(<<JsonNum("m1"), JsonNum("m1"), Num, JsonNum("n2")>>)
Ring       == JsonArray(<<Pt("n0", "n0"), Pt("n1", "n0"), Pt("n1", "m1"), Pt("n0", "n0")>>)
RingZ      == JsonArray(<<JsonArray(<<Num, Num, Minus>>), Pt("n1", "n0"), Pt("n0", "n2"), JsonArray(<<Num, Num, Minus>>)>>)
Point      == Geo("Point", Pt("n1.0", "m1"))
Collect(gs) == JsonObject([type |-> Str("GeometryCollection"), geometries |-> JsonArray(gs)])

Geometries ==
    {Point, Geo("Point", JsonArray(<<Num, Num, Minus>>)), Geo("LineString", JsonArray(<<Pt("m1", "n1"), Pt("n0", "m2")>>)),
     JsonObject([bbox |-> Box]),
     JsonObject([type |-> Str("Point"), coordinates |-> Pt("n1", "n1"), bbox |-> Box])}
      \cup {Geo("Polygon", JsonArray(rs)) : rs \in {<< >>, <<Ring>>, <<Ring, RingZ>>}}
      \cup {Geo("MultiPoint", JsonArray(ps)) : ps \in {<< >>, <<Pt("m1", "m1")>>, <<Pt("n1", "n0"), Pt("n2", "n2")>>}}
      \cup {Geo("MultiLineString", JsonArray(ls)) : ls \in {<< >>, <<JsonArray(<<Pt("n0", "n0"), Pt("n1", "n1")>>)>>}}
      \cup {Geo("MultiPolygon", JsonArray(ps)) : ps \in {<< >>, <<JsonArray(<<Ring>>), JsonArray(<<RingZ, Ring>>)>>}}
      \cup {Collect(<<g, Point>>) : g \in {Point, Geo("MultiPoint", JsonArray(<< >>)), Geo("Polygon", JsonArray(<<Ring>>))}}

Predicates ==
    {JsonCall("f", <<P("x")>>), JsonCall("b", <<True>>)}
      \cup Calls2("like", {P("x"), JsonCall("casei", <<P("x")>>)}, {Str("w"), JsonCall("casei", <<Str("w")>>)})
      \cup {JsonCall("between", <<u, v, Minus>>) : u \in {P("x"), JsonCall("-", <<Num, P("x")>>)}, v \in {Num, JsonCall("+", <<Num, P("x")>>)}}
      \cup Calls2("in", {P("x"), JsonCall("+", <<P("x"), Num>>)}, {JsonArray(<< >>), JsonArray(<<Minus>>), JsonArray(<<Num, P("x")>>)})
      \cup Calls2("=", {P("x")}, {Num, True}) \cup Calls2("<", {JsonCall("*", <<P("x"), Num>>)}, {Num})
      \cup Calls2("t_after", {P("date"), Date}, {P("x"), Interval(Str("d1"), Str(".."))})
      \cup Calls2("t_finishedBy", {P("interval")}, Intervals)
      \cup Calls2("s_within", {P("x"), Point}, {Point})
      \cup Calls2("a_containedBy", {P("x"), JsonArray(<< >>)}, {JsonArray(<<Num, Str("w")>>)})

Elements == {True, Num, Date, Point, P("x"), JsonCall("+", <<P("x"), Num>>), JsonArray(<< >>), JsonArray(<<JsonCall("+", <<P("x"), Num>>)>>),
             Interval(Str("d1"), Str("..")), JsonCall("and", <<True, True>>), JsonCall("not", <<True>>), JsonCall("f", <<Num>>)}
              \cup Predicates \cup Calls1("isNull", {P("x"), JsonCall("+", <<P("x"), Num>>), True, JsonCall("=", <<P("x"), Num>>)})

Arrays == {JsonArray(<<u>>) : u \in Elements} \cup {JsonArray(<<Num, u>>) : u \in Elements} \cup {JsonArray(<< >>)}

Logic ==
    LET atoms  == Predicates \cup {True} \cup Calls1("isNull", {P("x"), True})
        nots   == Calls1("not", atoms)
        some   == {True, JsonCall("=", <<P("x"), Num>>), JsonCall("isNull", <<P("x")>>)}
        chains == UNION {Calls2(op, some \cup Calls1("not", some), some) : op \in {"and", "or"}}
        mixed  == UNION {Calls2(op, chains, some) \cup Calls2(op, some, chains) : op \in {"and", "or"}}
    IN  atoms \cup nots \cup Calls1("not", nots) \cup chains \cup Calls1("not", chains) \cup mixed
          \cup {JsonCall("or", <<True, True, JsonCall("not", <<True>>)>>)}

JsonFilters ==
    Logic \cup Calls1("isNull", Scalars \cup Geometries \cup Intervals \cup Predicates)
      \cup Calls2("=", {P("x")}, Scalars) \cup Calls2("<", Scalars, {P("x")})
      \cup Calls1("f", Scalars \cup Geometries \cup Intervals \cup Arrays \cup Logic)
      \cup Calls2("a_overlaps", Arrays, {P("x")}) \cup Calls2("s_intersects", {P("x")}, Geometries)
      \cup Calls2("LIKE", {P("x")}, {Num}) \cup Calls2("t_metby", {P("x")}, {P("x")})

-----------------------------------------------------------------------------
(* CQL2 Text, for what only it can say.                                    *)

Kw(word) == Token("Keyword", word, word)
Id(name) == Token("Identifier", name, "")
Qu(name) == Token("QuotedIdentifier", name, "")
Op(op)   == Token("Operator", op, "")
St(text) == Token("String", text, "")
N1       == Token("Number", "n1", "")
LP       == Token("LParen", "(", "")
RP       == Token("RParen", ")", "")
Cm       == Token("Comma", ",", "")

Sentences ==
    LET x   == <<Id("x")>>
        one == <<Op("="), N1>>
        at  == <<LP, N1, N1, RP>>
        like == <<Id("x"), Kw("LIKE"), St("w")>>
        all == {<<Kw("NOT"), LP>> \o like \o <<RP>>, <<Kw("NOT")>> \o like, <<Id("x"), Kw("NOT"), Kw("LIKE"), St("w")>>,
                <<Kw("NOT"), Id("x"), Kw("NOT"), Kw("LIKE"), St("w")>>, <<Kw("NOT"), Kw("NOT")>> \o like,
                <<Kw("NOT"), Id("x"), Kw("IS"), Kw("NULL")>>, <<Id("x"), Kw("IS"), Kw("NOT"), Kw("NULL")>>,
                <<Kw("NOT"), Id("x"), Kw("IN"), LP, N1, RP>>,
                <<Kw("NOT"), LP, Id("x"), Kw("BETWEEN"), N1, Kw("AND"), N1, RP>>,
                <<Op("-"), Id("x")>> \o one, <<Op("-"), LP, Op("-"), N1, RP>> \o one,
                <<Id("x"), Op("-"), Id("x"), Op("-"), Id("x"), Op("*"), Id("x"), Op("^"), Id("x"), Op("^"), N1>> \o one,
                <<Kw("TRUE"), Kw("AND"), Kw("TRUE"), Kw("OR"), Kw("TRUE"), Kw("AND"), Kw("NOT"), Kw("TRUE"), Kw("AND"), Kw("TRUE")>>,
                <<Kw("GEOMETRYCOLLECTION"), LP, Kw("POINT")>> \o at \o <<RP, Kw("IS"), Kw("NULL")>>,
                <<Kw("GEOMETRYCOLLECTION"), LP, Kw("POINT")>> \o at \o <<Cm, Kw("POINT")>> \o at \o <<RP, Kw("IS"), Kw("NULL")>>,
                <<Kw("POINT"), Id("Z")>> \o at \o <<Kw("IS"), Kw("NULL")>>,
                <<Kw("MULTIPOINT"), LP>> \o at \o <<Cm>> \o at \o <<RP, Kw("IS"), Kw("NULL")>>,
                <<Qu("POINT"), LP, N1, RP, Kw("IS"), Kw("NULL")>>, <<Kw("POINT"), LP, N1, RP, Kw("IS"), Kw("NULL")>>,
                <<Qu("LIKE"), LP, Id("x"), Cm, N1, RP>>, <<Kw("T_AFTER"), LP, Id("x"), Cm, Id("x"), RP>>,
                <<Kw("T_AFTER"), LP, Id("x"), Cm, Id("x"), RP, Op("="), Kw("TRUE")>>,
                <<Kw("TRUE"), Op("="), Kw("T_AFTER"), LP, Id("x"), Cm, Id("x"), RP>>,
                <<Kw("TRUE"), Op("="), Qu("T_METBY"), LP, Id("x"), Cm, Id("x"), RP>>,
                <<Qu("T_METBY"), LP, Id("x"), Cm, Id("x"), RP>>, <<Qu("A_CONTAINEDBY"), LP, Id("x"), Cm, Id("x"), RP>>,
                <<Kw("TRUE"), Op("="), Qu("A_CONTAINEDBY"), LP, Id("x"), Cm, Id("x"), RP>>,
                <<Id("f"), LP, Qu("A_CONTAINEDBY"), LP, Id("x"), Cm, Id("x"), RP, RP>>,
                <<Id("f"), LP, Qu("A_CONTAINEDBY"), LP, Id("x"), Cm, N1, RP, RP>>,
                <<Id("f"), LP, Kw("T_AFTER"), LP, Id("x"), Cm, Id("x"), RP, RP>>,
                <<Id("f"), LP, Qu("T_AFTER"), LP, Id("x"), Cm, Id("x"), RP, RP>>,
                <<Id("f"), LP, LP, N1, Cm, Id("x"), RP, RP>>, <<Id("f"), LP, LP, N1, RP, RP>>, <<Id("f"), LP, LP, RP, RP>>,
                <<Id("f"), LP, LP, LP, N1, RP, Cm, N1, RP, RP>>, <<Id("f"), LP, LP, LP, N1, RP, RP, RP>>,
                <<Kw("A_EQUALS"), LP, Id("x"), Cm, LP, LP, N1, RP, RP, RP>>,
                <<Kw("A_EQUALS"), LP, Id("x"), Cm, LP, Id("x"), Op("+"), N1, Cm, Kw("TRUE"), RP, RP>>,
                <<Token("Keyword", "DATE", "date"), Op("="), Kw("DATE"), LP, St("d1"), RP>>,
                <<Kw("T_DURING"), LP, Token("Keyword", "INTERVAL", "interval"), Cm, Kw("INTERVAL"), LP, St(".."), Cm, Qu("date"), RP, RP>>}
    IN  {Append(s, Token("EOF", "", "")) : s \in all}

-----------------------------------------------------------------------------
(* What nests, under limits around its nesting.                            *)

RECURSIVE Nest(_, _, _)
Nest(n, Wrap(_), core) == IF n = 0 THEN core ELSE Wrap(Nest(n - 1, Wrap, core))

Nests ==
    LET not(v)    == JsonCall("not", <<v>>)
        and(v)    == JsonCall("and", <<True, v>>)
        f(v)      == JsonCall("f", <<v>>)
        array(v)  == JsonArray(<<Num, v>>)
        plus(v)   == JsonCall("+", <<Num, v>>)
        sum(v)    == JsonCall("+", <<v, Num>>)
        casei(v)  == JsonCall("casei", <<v>>)
        isNull(v) == JsonCall("isNull", <<v>>)
        start(v)  == Interval(f(v), Str(".."))
        equal(v)  == f(JsonCall("=", <<P("x"), v>>))
    IN  UNION {{Nest(k, not, True), Nest(k, and, True), Nest(k, f, P("x")), Nest(k, isNull, P("x")),
                Nest(k, equal, Num), f(Nest(k, array, Num)), f(Nest(k, start, P("x"))), f(Nest(k, sum, Num)),
                JsonCall("=", <<Nest(k, plus, Num), Num>>), JsonCall("like", <<P("x"), Nest(k, casei, Str("w"))>>),
                JsonCall("between", <<Nest(k, plus, P("x")), Num, Num>>),
                JsonCall("in", <<P("x"), JsonArray(<<Num, Nest(k, sum, Num)>>)>>),
                JsonCall("a_overlaps", <<P("x"), Nest(k, array, P("x"))>>),
                JsonCall("s_within", <<P("x"), Collect(<<Point, Point>>)>>)} : k \in 0..3}

Repeat(n, s) == [i \in 1 .. n * Len(s) |-> s[1 + ((i - 1) % Len(s))]]

TextNests ==
    UNION {{Repeat(k, <<N1, Op("+")>>) \o <<N1, Op("="), N1>>, Repeat(k, <<Kw("NOT")>>) \o <<Kw("TRUE")>>,
            <<Id("f"), LP>> \o Repeat(k, <<N1, Op("+")>>) \o <<N1, RP>>,
            Repeat(k, <<Kw("NOT")>>) \o <<Id("x"), Kw("IS"), Kw("NULL")>>} : k \in 0..5}

Limited == {[RoundTripParser EXCEPT !.maxDepth = m] : m \in 1..32}

-----------------------------------------------------------------------------
(* Run "round_trip".                                                       *)

MCJsonCases == Given({JsonFilters}, {RoundTripParser, RegistryParser}) \cup Given({Nests}, Limited)
MCTextCases ==
    Given({Sentences}, {RoundTripParser, RegistryParser})
      \cup Given({{Append(s, Token("EOF", "", "")) : s \in TextNests}}, Limited)

(* Run "round_trip_strings".                                               *)

StringFilters == Calls2("=", {P("x")}, {Str(text) : text \in DOMAIN MCSpelling \cup {"w"}})

StringCases == Given({StringFilters}, {RoundTripParser})
NoCases     == {}
=============================================================================
