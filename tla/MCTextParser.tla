----------------------------- MODULE MCTextParser ----------------------------
(***************************************************************************)
(* Inputs and configurations for TLC.  A run takes every sequence of up to *)
(* n tokens over a small alphabet, or every sentence that fits a template  *)
(* whose slots are filled from small sets.                                 *)
(***************************************************************************)
EXTENDS TextGrammar, TextTrees, MCSettings

\* Tokens.
T(kind, text, raw) == [kind |-> kind, text |-> text, raw |-> raw]
Kw(word)  == T("Keyword", word, word)
Id(name)  == T("Identifier", name, "")
Op(op)    == T("Operator", op, "")
Str(text) == T("String", text, "")
Num       == T("Number", "1", "")
LP        == T("LParen", "(", "")
RP        == T("RParen", ")", "")
Comma     == T("Comma", ",", "")
Eof       == T("EOF", "", "")

\* Inputs are kept as a set of families, each the sentences of one template.
Ended(families) == {{Append(s, Eof) : s \in f} : f \in families}

UpTo(n, alphabet) == UNION {[1..k -> alphabet] : k \in 0..n}

\* A sentence of the first set and one of the second.
Then(first, rest) == {f \o r : f \in first, r \in rest}

-----------------------------------------------------------------------------
(* The boolean connectives and parentheses.                                *)

LogicInputs ==
    LET words == {Kw("TRUE"), Kw("AND"), Kw("OR"), Kw("NOT")}
        all   == words \cup {LP, RP}
    IN  Ended({UpTo(5, all),
               Then(UpTo(1, all), Then({<<LP>>}, Then(UpTo(2, words), Then({<<RP>>}, UpTo(2, all)))))})

(* Arithmetic: every short sequence before "= 1", every chain of three     *)
(* operators with a sign or a group at one end, and every group of two     *)
(* operands with an operator on either side.                               *)

Operators == {<<Op(o)>> : o \in {"+", "-", "*", "^"}}

Chains ==
    LET x   == {<<Id("x")>>}
        end == {<<Num>>, <<Op("-"), Num>>, <<LP, Num, Op("+"), Num, RP>>}
    IN  Then(end, Then(Operators, Then(x, Then(Operators, Then(x, Then(Operators, end))))))

GroupedSums ==
    LET x == {<<Id("x")>>}
        inner == x \cup Then(x, Then(Operators, x))
    IN  Then({<< >>} \cup Then(x, Operators),
             Then({<<LP>>}, Then(inner, Then({<<RP>>}, {<< >>} \cup Then(Operators, x)))))

ArithmeticInputs ==
    LET one == {<<Op("="), Num>>}
    IN  Ended({Then(UpTo(4, {Id("x"), Op("+"), Op("*"), Op("^"), Op("="), LP, RP}), one),
               Then(Chains, one), Then(GroupedSums, one)})

(* Predicates: what may follow an operand.                                 *)

PredicateInputs ==
    LET operands == {<<Id("x")>>, <<Str("w")>>, <<LP, Id("x"), RP>>, <<LP, Kw("TRUE"), RP>>}
        words == {Kw("NOT"), Kw("LIKE"), Kw("BETWEEN"), Kw("IN"), Kw("IS"), Kw("NULL"),
                  Kw("AND"), Num, Str("w"), LP, RP, Comma}
        pattern == {<<Str("w")>>, <<Kw("CASEI"), LP, Str("w"), RP>>, <<Kw("CASEI"), LP, Num, RP>>,
                    <<Kw("ACCENTI"), LP, Str("w"), RP>>, <<Kw("CASEI"), LP, Kw("CASEI"), LP, Str("w"), RP, RP>>}
        not   == {<< >>, <<Kw("NOT")>>}
        more  == {<< >>, <<Kw("AND"), Num, Op("<"), Num>>}
        lists == {<<LP>> \o l \o <<RP>> : l \in UpTo(4, {Num, Id("x"), Comma, LP, RP})}
    IN  Ended({Then(operands, UpTo(3, words)),
               Then(operands, Then(not, Then({<<Kw("LIKE")>>}, Then(pattern, more)))),
               Then(operands, Then(not, Then({<<Kw("BETWEEN"), Num, Kw("AND"), Id("x")>>}, more))),
               Then(operands, Then({<<Kw("IN")>>}, lists))})

(* Calls: function arguments and array literals.                           *)

CallInputs ==
    LET inner == {<<LP>> \o s \o <<RP>> :
                     s \in UpTo(5, {Id("x"), Kw("TRUE"), Comma, LP, RP})}
        few   == {<<LP>> \o s \o <<RP>> :
                     s \in UpTo(3, {Id("x"), Kw("TRUE"), Id("f"), Comma, LP, RP, Op("="), Num})}
        pair  == {<<Id("x")>>, <<LP, RP>>, <<LP, Id("x"), RP>>, <<LP, Id("x"), Comma, LP, Num, RP, RP>>,
                  <<LP, Kw("TRUE"), Op("="), Kw("TRUE"), RP>>, <<Kw("INTERVAL"), LP, Str(".."), Comma, Str("d1"), RP>>,
                  <<LP, Kw("INTERVAL"), LP, Str(".."), Comma, Str("d1"), RP, RP>>,
                  <<Id("f"), LP, RP>>, <<Id("n"), LP, Num, RP>>, <<Num>>}
    IN  Ended({Then({<<Id("f")>>}, inner), Then({<<Id("f")>>, <<Id("b")>>}, few),
               {<<Id("v"), LP, Num, Comma, Num, RP>>},
               Then({<<Kw("A_EQUALS"), LP>>, <<Id("f"), LP>>},
                    Then(pair, Then({<<Comma>>, <<Op("+")>>}, Then(pair, {<<RP>>, << >>}))))})

(* Time: instants, intervals and the predicates over them.                 *)

TemporalInputs ==
    LET ends == {<<Str("..")>>, <<Str("d1")>>, <<Str("d2")>>, <<Str("t1")>>, <<Str("w")>>, <<Id("d")>>,
                 <<Id("s")>>, <<Id("f"), LP, RP>>, <<Num>>}
        intervals == Then({<<Kw("INTERVAL"), LP>>}, Then(ends, Then({<<Comma>>}, Then(ends, {<<RP>>}))))
        some == {<<Kw("INTERVAL"), LP, Str("d1"), Comma, Str("..") , RP>>, <<Kw("DATE"), LP, Str("d1"), RP>>,
                 <<Kw("TIMESTAMP"), LP, Str("d1"), RP>>, <<Kw("DATE"), LP, Num, RP>>, <<Id("d")>>, <<Id("i")>>,
                 <<T("Keyword", "DATE", "date")>>, <<T("Keyword", "INTERVAL", "interval")>>, <<Id("s")>>,
                 <<Id("f"), LP, Id("x"), RP>>, <<Id("n"), LP, Num, RP>>, <<LP, Id("d"), RP>>}
        preds == Then({<<Kw("T_AFTER"), LP>>, <<Kw("T_MEETS"), LP>>},
                      Then(some, Then({<<Comma>>}, Then(some, {<<RP>>}))))
    IN  Ended({Then(intervals \cup some, {<<Kw("IS"), Kw("NULL")>>, <<Op("="), Num>>}),
               Then(preds, {<< >>, <<Op("="), Kw("TRUE")>>, <<Kw("OR"), Kw("TRUE")>>}),
               Then({<<Kw("TRUE"), Op("=")>>}, preds),
               {<<Id("f"), LP>> \o p \o <<RP>> : p \in preds \cup intervals}})

(* Space: the data of every kind of literal, well formed and not, and the  *)
(* places a literal may stand.                                             *)

Numeral(text) == T("Number", text, "")
Glued(sign)   == T("Operator", sign, "glued")

\* Coordinates: good ones first.
Points2 == {<<Numeral("n1"), Numeral("n2")>>, <<Numeral("n180"), Glued("-"), Numeral("n90")>>}

OddPoints ==
    {<<Numeral("n1")>>, <<Numeral("n181"), Numeral("n1")>>, <<Numeral("n1"), Numeral("n91")>>,
     <<Numeral("m1"), Glued("+"), Numeral("n1"), Glued("-"), Numeral("n2")>>,
     <<Numeral("n1"), Op("-"), Numeral("n1")>>, <<Numeral("n1"), Glued("-"), Numeral("m1")>>,
     <<Numeral("n1"), Numeral("n1"), Numeral("n1"), Numeral("n1")>>,
     <<Numeral("n1"), Numeral("huge")>>, <<Glued("-"), Numeral("n181"), Numeral("n1")>>,
     <<Numeral("n1"), Id("x")>>, << >>}

Commaed(first, second) == Then(first, Then({<<Comma>>}, second))
InParens(s) == {<<LP>> \o t \o <<RP>> : t \in s}

RingsOf ==
    LET a == {<<Numeral("n1"), Numeral("n1")>>}
        b == {<<Numeral("n1"), Numeral("n2")>>}
        c == {<<Numeral("n2"), Glued("-"), Numeral("n1")>>}
        z == {<<Numeral("n1"), Numeral("n1"), Numeral("n0")>>}
        lines == {Commaed(a, Commaed(b, Commaed(c, e))) : e \in {a, b, z}}
    IN  UNION lines \cup Commaed(a, Commaed(b, a)) \cup Commaed(a, b)

Boxes ==
    LET n(t) == Numeral(t)
    IN 
    {<<n("n1"), Comma, n("n2"), Comma, n("n1"), Comma, n("n2")>>, <<n("n2"), Comma, n("n1"), Comma, n("n1"), Comma, n("n2")>>,
     <<n("n1"), Comma, n("n2"), Comma, n("n2")>>, <<n("n1"), n("n2"), n("n2"), n("n2")>>,
     <<n("n1"), Comma, n("n1"), Comma, n("n2"), Comma, n("n2"), Comma, n("n2"), Comma, n("n1")>>,
     <<Numeral("m1"), Comma, n("n1"), Comma, n("n181"), Comma, n("n1"), Comma, n("n2"), Comma, n("n181")>>}

Shapes ==
    LET all   == Points2 \cup OddPoints
        lists == all \cup Commaed(Points2, all) \cup Commaed(all, Points2)
        group == InParens(RingsOf \cup Points2)
        ring  == InParens(RingsOf)
    IN  {{<<Kw(w)>> \o d : w \in {"POINT", "LINESTRING", "MULTIPOINT"}, d \in InParens(lists)},
         Then({<<Kw("MULTIPOINT")>>},
              InParens(Commaed(InParens(Points2) \cup Points2, InParens(all) \cup {<< >>}))),
         {<<Kw(w)>> \o d : w \in {"POLYGON", "MULTILINESTRING"},
                          d \in InParens({<< >>} \cup group \cup Commaed(ring, ring \cup RingsOf))},
         Then({<<Kw("MULTIPOLYGON")>>},
              InParens(InParens(ring \cup RingsOf) \cup Commaed(InParens(ring), InParens(ring)))),
         Then({<<Kw("BBOX")>>}, InParens(Boxes))}

SomeShapes ==
    {<<Kw("POINT"), LP, Numeral("n1"), Numeral("n2"), RP>>, <<Kw("POINT"), LP, Numeral("n1"), RP>>,
     <<Kw("POINT"), Id("Z"), LP, Numeral("n1"), Numeral("n2"), RP>>, <<Kw("POINT"), Id("z"), LP, RP>>,
     <<Kw("BBOX"), LP, Numeral("n1"), Comma, Numeral("n1"), Comma, Numeral("n2"), Comma, Numeral("n2"), RP>>,
     <<Kw("BBOX"), Id("Z"), LP, Numeral("n1"), Comma, Numeral("n1"), Comma, Numeral("n2"), Comma, Numeral("n2"), RP>>,
     <<Kw("MULTIPOINT"), LP, Numeral("n1"), Numeral("n1"), Comma, Numeral("n2"), Numeral("n2"), RP>>,
     <<Str("POINT"), LP, Numeral("n1"), Numeral("n2"), RP>>, <<Id("g")>>, <<Id("a")>>,
     <<Id("f"), LP, Id("x"), RP>>, <<LP, Id("g"), RP>>, <<Kw("POINT")>>}

Collections ==
    Then({<<Kw("GEOMETRYCOLLECTION")>>, <<Kw("GEOMETRYCOLLECTION"), Id("Z")>>},
         InParens({<< >>} \cup SomeShapes \cup Commaed(SomeShapes, SomeShapes)
                    \cup {<<Kw("GEOMETRYCOLLECTION"), LP, Kw("POINT"), LP, Numeral("n1"), Numeral("n1"), RP, RP>>}))

GeometryInputs ==
    LET null   == {<<Kw("IS"), Kw("NULL")>>}
        places == Then({<<Kw("S_INTERSECTS"), LP>>, <<Id("f"), LP>>, <<Id("f"), LP, LP>>}, SomeShapes)
    IN  Ended({Then(shapes, null) : shapes \in Shapes \cup {Collections, SomeShapes}}
                \cup {Then(places, {<<RP>>, <<Comma, Id("g"), RP>>, <<RP, RP>>, <<Kw("IS"), Kw("NULL"), RP>>,
                                    <<Op("+"), Num, RP>>}),
                      Then(SomeShapes, {<<Op("="), Num>>, << >>}),
                      Then({<<Kw("TRUE"), Op("=")>>}, SomeShapes)})

SpatialInputs ==
    Ended({Then({<<Kw("S_INTERSECTS"), LP>>, <<Kw("S_WITHIN"), LP>>},
                Then(Commaed(SomeShapes, SomeShapes), {<<RP>>}))})

(* Types: operands of every type under every conformance switch.           *)

TypedScalars ==
    LET call(name, arg) == <<Id(name), LP, arg, RP>>
    IN  {<<Id(v)>> : v \in DOMAIN MCProperties \cup {"unknown"}}
          \cup {<<Num>>, <<Str("d1")>>, <<Str("w")>>, <<Kw("TRUE")>>, <<Num, Op("+"), Id("a")>>,
                call("n", Num), call("n", Str("w")), call("f", Id("s")), call("m", Num),
                call("b", Kw("TRUE")), call("unknown", Num),
                <<Kw("CASEI"), LP, Id("s"), RP>>, <<Kw("DATE"), LP, Str("d1"), RP>>}

\* Every kind of predicate of a scalar and of others.
TypeInputs(compared, others) ==
    LET x == TypedScalars
    IN  Ended({Then(x, Then({<<Op("=")>>, <<Op("<")>>}, compared)),
               Then(x, Then({<<Kw("LIKE")>>}, {<<Str("w")>>, <<Kw("CASEI"), LP, Str("w"), RP>>})),
               Then(x, Then({<<Kw("IN"), LP>>}, Then(others, Then({<<Comma>>}, Then(others, {<<RP>>}))))),
               Then(x, Then({<<Kw("BETWEEN")>>}, Then(others, Then({<<Kw("AND")>>}, others)))),
               Then({<<Kw("T_AFTER"), LP>>, <<Kw("T_DURING"), LP>>, <<Kw("A_OVERLAPS"), LP>>},
                    Then(x, Then({<<Comma>>}, Then(others \cup {<<Id("i")>>, <<Id("l")>>}, {<<RP>>}))))})

TypeCases ==
    LET some == {<<Id("a")>>, <<Id("s")>>, <<Id("d")>>, <<Num>>, <<Str("w")>>, <<Str("d1")>>,
                 <<Id("n"), LP, Num, RP>>}
        few  == {<<Id("a")>>, <<Num>>}
    IN  Given(TypeInputs(TypedScalars, some), TypedOn) \cup Given(TypeInputs(few, few), Switches)

-----------------------------------------------------------------------------
(* Run "text_language".                                                    *)

LanguageCases ==
    Given(LogicInputs \cup ArithmeticInputs \cup PredicateInputs \cup CallInputs, AllOn)
      \cup Given(TemporalInputs \cup GeometryInputs, TypedOn) \cup TypeCases
      \cup Given(SpatialInputs, {Typed, [Typed EXCEPT !.spatial = "basic"]})

-----------------------------------------------------------------------------
(* Run "text_depth": small limits, long chains, and all that recurses.     *)

Repeat(n, s) == [i \in 1 .. n * Len(s) |-> s[1 + ((i - 1) % Len(s))]]

Nested(n, open, core, close) == Repeat(n, open) \o core \o Repeat(n, close)

Members == <<Kw("GEOMETRYCOLLECTION"), LP, Kw("POINT"), LP, Numeral("n1"), Numeral("n2"), RP, Comma,
             Kw("POINT"), LP, Numeral("n1"), Numeral("n2"), RP, RP>>

DepthInputs ==
    LET one   == <<Op("="), Num>>
        point == <<LP, Numeral("n1"), Numeral("n2"), RP>>
    IN  Ended({{Nested(n, <<Kw("NOT")>>, <<Kw("TRUE")>>, <<RP>>),
                Repeat(n, <<Kw("NOT")>>) \o <<Kw("TRUE")>>,
                Nested(n, <<LP>>, <<Kw("TRUE")>>, <<RP>>),
                Nested(n, <<LP>>, <<Id("x")>>, <<RP>>) \o one,
                Nested(n, <<LP, Kw("NOT")>>, <<Id("x"), Op("=")>> \o Nested(n, <<LP>>, <<Num>>, <<RP>>), <<RP>>),
                Nested(n, <<Id("f"), LP>>, <<Id("x")>>, <<RP>>),
                Nested(n, <<Id("f"), LP>>, <<LP, Kw("TRUE"), Comma, Id("x"), RP>>, <<RP>>),
                Repeat(n, <<Op("-")>>) \o <<Num>> \o one,
                Repeat(n, <<Num, Op("^")>>) \o <<Num>> \o one,
                Repeat(n, <<Num, Op("+")>>) \o <<Num>> \o one,
                <<Id("s"), Kw("LIKE")>> \o Nested(n, <<Kw("CASEI"), LP>>, <<Str("w")>>, <<RP>>),
                <<Kw("A_EQUALS"), LP, Id("x"), Comma>> \o Nested(n, <<LP>>, <<Num>>, <<RP>>) \o <<RP>>,
                <<Id("f"), LP>> \o Nested(n, <<LP>>, <<Num, Comma, Num>>, <<RP>>) \o <<RP>>,
                <<Kw("T_AFTER"), LP, Kw("INTERVAL"), LP>> \o Nested(n, <<Id("f"), LP>>, <<Num>>, <<RP>>)
                  \o <<Comma, Str(".."), RP, Comma, Id("x"), RP>>,
                <<Kw("S_WITHIN"), LP>> \o Nested(n, <<Id("f"), LP>>, Members, <<RP>>) \o <<Comma>> \o Members \o <<RP>>,
                Nested(n, <<Id("f"), LP>>, <<Kw("POINT")>> \o point, <<RP>>) \o <<Kw("IS"), Kw("NULL")>>,
                Nested(n, <<Id("f"), LP>>, <<LP>> \o Members \o <<RP>>, <<RP>>),
                <<Id("x"), Kw("BETWEEN")>> \o Repeat(n, <<Op("-")>>) \o <<Num, Kw("AND"), Num>>,
                <<Id("x"), Kw("IN"), LP, Num, Comma>> \o Repeat(n, <<Op("-")>>) \o <<Num, RP>>}
               : n \in 0..4})

\* Every limit up to the depth the deepest of these inputs needs, and every
\* conformance switch.
DepthCases ==
    Given(DepthInputs,
          {[c EXCEPT !.maxDepth = m] : c \in {Everything, [Everything EXCEPT !.arithmetic = FALSE]}, m \in 1..40}
            \cup Switches)

(* Run "not_chain": NOT NOT ... TRUE, and a pattern of nested casts.       *)

NotChainInputs ==
    Ended({{Repeat(n, <<Kw("NOT")>>) \o <<Kw("TRUE")>> : n \in 1..12},
           {<<Id("s"), Kw("LIKE")>> \o Nested(n, <<Kw("CASEI"), LP>>, <<Str("w")>>, <<RP>>) : n \in 1..6}})

NotChainCases == Given(NotChainInputs, {[Everything EXCEPT !.maxDepth = m] : m \in 1..8})
=============================================================================
