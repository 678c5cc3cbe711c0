----------------------------- MODULE TextGrammar -----------------------------
(***************************************************************************)
(* The grammar of CQL2 Text written down as a definition, to compare the   *)
(* parser of TextParser with: Or(i, j) is the set of all syntax trees that *)
(* tokens i..j derive.  It knows nothing of a position that moves, of      *)
(* depth, of backtracking or of precedence climbing; a binary operator is  *)
(* any token that splits its span into two derivable halves.               *)
(*                                                                         *)
(* Three rules are the parser's own: a parenthesis that holds a predicate  *)
(* is not also the start of a scalar (Committed), a keyword that names a   *)
(* predicate or a geometry starts nothing else where one may stand         *)
(* (Starts), and a member of a collection is named by a token of any kind  *)
(* (Geometries).                                                           *)
(***************************************************************************)
EXTENDS TextParser

RECURSIVE Derived(_, _, _), OrTerms(_, _), AndTerms(_, _), Negations(_, _)
RECURSIVE Predicates(_, _), Sums(_, _), Products(_, _), Powers(_, _)
RECURSIVE Lists(_, _, _), Patterns(_, _), Groups(_, _, _, _), Geometries(_, _)

\* The symbols that occur in rules other than their own.
Or(i, j)        == Derived("Or", i, j)
Scalars(i, j)   == Derived("Scalars", i, j)
Operands(i, j)  == Derived("Operands", i, j)
Arguments(i, j) == Derived("Arguments", i, j)
Elements(i, j)  == Derived("Elements", i, j)

Last == Len(tokens) - 1     \* the sentence, without its EOF

Token(kind, p)   == p \in 1..Last /\ Is(kind, p)
Word(words, p)   == p \in 1..Last /\ IsWord(words, p)
Wrapped(i, j)    == i < j /\ Token("LParen", i) /\ Token("RParen", j)

\* The positions strictly inside i..j where one of the words stands.
Words(words, i, j)  == {k \in i + 1 .. j - 1 : Word(words, k)}
Ops(ops, i, j)      == {k \in i + 1 .. j - 1 : Token("Operator", k) /\ IsOperator(ops, k)}
Commas(i, j)        == {k \in i + 1 .. j - 1 : Token("Comma", k)}

-----------------------------------------------------------------------------
(* Predicates, from the loosest binding to the tightest.                   *)

OrRule(i, j) == {Chain("OR", s) : s \in OrTerms(i, j)}

OrTerms(i, j) ==
    {<<Chain("AND", s)>> : s \in AndTerms(i, j)}
      \cup UNION {{<<Chain("AND", s)>> \o rest : s \in AndTerms(i, k - 1), rest \in OrTerms(k + 1, j)}
                  : k \in Words({"OR"}, i, j)}

AndTerms(i, j) ==
    {<<t>> : t \in Negations(i, j)}
      \cup UNION {{<<t>> \o rest : t \in Negations(i, k - 1), rest \in AndTerms(k + 1, j)}
                  : k \in Words({"AND"}, i, j)}

Negations(i, j) ==
    IF Word({"NOT"}, i)
    THEN {Predicate("Logical", "NOT", <<t>>, <<i, t.src[2]>>) : t \in Negations(i + 1, j)}
    ELSE Predicates(i, j)

Committed(i, j) == \E k \in i + 1 .. j : Wrapped(i, k) /\ Or(i + 1, k - 1) # {}

Starts(i, j) ==
    IF Word(PredicateWords \cup GeometryKeywords \cup {"INTERVAL"}, i) \/ Committed(i, j) THEN {}
    ELSE Scalars(i, j)

\* The optional NOT before the keyword at k: the operand then ends earlier.
OperandEnd(k) == IF Word({"NOT"}, k - 1) THEN k - 2 ELSE k - 1
Sign(k)       == IF Word({"NOT"}, k - 1) THEN "NOT" ELSE ""

Build(kind, op, operands, j) == Predicate(kind, op, operands, <<operands[1].src[1], j>>)

InstantCalls(i, j) ==
    IF /\ Word({"DATE", "TIMESTAMP"}, i) /\ j = i + 3 /\ Wrapped(i + 1, j)
       /\ Token("String", i + 2) /\ tokens[i + 2].text \in DOMAIN Instants
       /\ (Instants[tokens[i + 2].text].kind = "date") = Word({"DATE"}, i)
    THEN {Instant(tokens[i + 2].text, Instants[tokens[i + 2].text].kind, <<i, j>>)}
    ELSE {}

Endpoints(i, j) ==
    IF Token("Identifier", i) THEN Operands(i, j)
    ELSE IF i # j \/ ~Token("String", i) THEN {}
    ELSE IF tokens[i].text = ".." THEN {Node("Unbounded", "..", {}, << >>, <<i, i>>)}
    ELSE {Instant(s, Instants[s].kind, <<i, i>>) : s \in {tokens[i].text} \cap DOMAIN Instants}

Intervals(i, j) ==
    IF Word({"INTERVAL"}, i) /\ Wrapped(i + 1, j)
    THEN {Node("Interval", "", {"interval"}, e, <<i, j>>)
          : e \in {e \in UNION {Endpoints(i + 2, k - 1) \X Endpoints(k + 1, j - 1)
                                : k \in Commas(i + 2, j - 1)} : ValidInterval(e[1], e[2])}}
    ELSE {}

Numerals(i, j) ==
    LET number(p) == Token("Number", p) /\ tokens[p].text \in DOMAIN Numbers
        minus == tokens[i].text = "-"
        signed(t) == Numbers[t] = (IF minus THEN -1 ELSE 1) * Numbers[tokens[j].text]
    IN  IF i = j /\ number(i) THEN {NumberNode(tokens[i].text)}
        ELSE IF j = i + 1 /\ Token("Operator", i) /\ IsOperator({"+", "-"}, i)
                /\ tokens[i].raw = "glued" /\ number(j) /\ Numbers[tokens[j].text] >= 0
        THEN {NumberNode(CHOOSE t \in DOMAIN Numbers : signed(t))}
        ELSE {}

Coordinates(i, j) ==
    LET pairs(a, b) == UNION {Numerals(a, k) \X Numerals(k + 1, b) : k \in a .. b - 1}
        triples == UNION {{<<p[1], p[2], n>> : p \in pairs(i, k), n \in Numerals(k + 1, j)}
                          : k \in i .. j - 1}
    IN  {c \in {Coordinate(ns) : ns \in pairs(i, j) \cup triples} : ValidCoordinate(c)}

\* A list in parentheses: a point of a multipoint, a line, a ring, a polygon.
Groups(i, j, of, min) ==
    IF Wrapped(i, j) THEN {List(l) : l \in {l \in Lists(i + 1, j - 1, of) : Len(l) >= min}} ELSE {}

Contents(word, i, j) ==
    CASE word = "BBOX"            -> {b \in Lists(i, j, "Numerals") : ValidBBox(b)}
      [] word = "POINT"           -> {<<c>> : c \in Coordinates(i, j)}
      [] word = "LINESTRING"      -> {l \in Lists(i, j, "Coordinates") : Len(l) >= 2}
      [] word = "POLYGON"         -> Lists(i, j, "Rings")
      [] word = "MULTIPOINT"      -> Lists(i, j, "Coordinates") \cup Lists(i, j, "Points")
      [] word = "MULTILINESTRING" -> Lists(i, j, "Lines")
      [] word = "MULTIPOLYGON"    -> Lists(i, j, "Polygons")
      [] word = "GEOMETRYCOLLECTION" ->
           {l \in Lists(i, j, "Geometries") :
               \A n \in DOMAIN l : l[n].op \notin {"BBox", "GeometryCollection"}}

Geometries(i, j) ==
    LET word   == tokens[i].text
        marked == word # "BBOX" /\ Token("Identifier", i + 1) /\ tokens[i + 1].text \in {"Z", "z"}
        open   == IF marked THEN i + 2 ELSE i + 1
    IN  IF word \in GeometryKeywords /\ Wrapped(open, j)
        THEN {GeometryLiteral(GeometryTypeOf[word], List(d), << >>, <<i, j>>)
              : d \in Contents(word, open + 1, j - 1)}
        ELSE {}

GeometryLiterals(i, j) == IF Word(GeometryKeywords, i) THEN Derived("Geometries", i, j) ELSE {}

NullTests(i, j) ==
    LET is  == IF Word({"NOT"}, j - 1) THEN j - 2 ELSE j - 1
        operands == Starts(i, is - 1) \cup Intervals(i, is - 1) \cup GeometryLiterals(i, is - 1)
                      \cup (IF Wrapped(i, is - 1) THEN Or(i + 1, is - 2) ELSE {})
    IN  IF Word({"NULL"}, j) /\ Word({"IS"}, is)
        THEN {Build("IsNull", Sign(j), <<t>>, j) : t \in operands} ELSE {}

Comparisons(i, j) ==
    UNION {{Build("Comparison", tokens[k].text, p, p[2].src[2])
            : p \in {p \in Starts(i, k - 1) \X Scalars(k + 1, j) :
                       /\ ValidComparison(tokens[k].text, p[1], p[2])
                       /\ ValidPropertyUse(cfg.propertyProperty, p)}}
           : k \in Ops(ComparisonOps, i, j)}

Patterns(i, j) ==
    IF Word({"CASEI", "ACCENTI"}, i)
    THEN IF Wrapped(i + 1, j)
         THEN {Call(tokens[i].text, <<p>>, i, j)
               : p \in {p \in Patterns(i + 2, j - 1) : ValidCall(cfg.functions, tokens[i].text, <<p>>)}}
         ELSE {}
    ELSE IF i = j /\ Token("String", i) THEN {Literal("string", tokens[i].text, i)} ELSE {}

Likes(i, j) ==
    UNION {{Build("Like", Sign(k), p, p[2].src[2])
            : p \in {p \in Starts(i, OperandEnd(k)) \X Patterns(k + 1, j) :
                       IsCharacter(p[1]) /\ ValidPropertyUse(cfg.propertyProperty, p)}}
           : k \in Words({"LIKE"}, i, j)}

Betweens(i, j) ==
    UNION {{Build("Between", Sign(k[1]), p, p[3].src[2])
            : p \in {p \in Starts(i, OperandEnd(k[1])) \X Scalars(k[1] + 1, k[2] - 1)
                             \X Scalars(k[2] + 1, j) :
                       /\ \A n \in 1..3 : IsNumeric(p[n])
                       /\ ValidPropertyUse(cfg.propertyProperty, p)}}
           : k \in Words({"BETWEEN"}, i, j) \X Words({"AND"}, i, j)}

Ins(i, j) ==
    UNION {{Build("In", Sign(k), <<p[1]>> \o [n \in DOMAIN p[2] |-> InCoerce(p[1], p[2][n])], j)
            : p \in {p \in Starts(i, OperandEnd(k)) \X Lists(k + 2, j - 1, "Scalars") :
                       /\ ValidIn(p[1], p[2])
                       /\ ValidPropertyUse(cfg.propertyProperty, <<p[1]>> \o p[2])}}
           : k \in {k \in Words({"IN"}, i, j) : Wrapped(k + 1, j)}}

FunctionPredicates(i, j) ==
    LET Side(a, b) ==
            IF Word(TemporalOps, i) THEN Operands(a, b) \cup Intervals(a, b)
            ELSE IF Word(SpatialOps, i) /\ Word(GeometryKeywords, a) THEN GeometryLiterals(a, b)
            ELSE IF Word(ArrayOps, i) /\ Token("LParen", a) THEN Elements(a, b)
            ELSE Operands(a, b)
    IN  IF Word(PredicateWords, i) /\ PredicateEnabled(tokens[i].text) /\ Wrapped(i + 1, j)
        THEN {Predicate(PredicateKind(tokens[i].text), tokens[i].text, p, <<i, j>>)
              : p \in {p \in UNION {Side(i + 2, k - 1) \X Side(k + 1, j - 1)
                                    : k \in Commas(i + 2, j - 1)} :
                         ValidOperands(tokens[i].text, p[1], p[2])}}
        ELSE {}

Predicates(i, j) ==
    (IF Wrapped(i, j) THEN Or(i + 1, j - 1) ELSE {})
      \cup {t \in Starts(i, j) : IsPredicate(t)}
      \cup Comparisons(i, j) \cup NullTests(i, j) \cup FunctionPredicates(i, j)
      \cup (IF cfg.advanced THEN Likes(i, j) \cup Betweens(i, j) \cup Ins(i, j) ELSE {})

-----------------------------------------------------------------------------
(* Scalars, arguments and elements.                                        *)

Binary(i, j, ops, Left(_, _), Right(_, _)) ==
    UNION {{Arithmetic(tokens[k].text, p[1], p[2])
            : p \in {p \in Left(i, k - 1) \X Right(k + 1, j) : IsNumeric(p[1]) /\ IsNumeric(p[2])}}
           : k \in Ops(ops, i, j) \cup Words(ops, i, j)}

ScalarRule(i, j) == IF cfg.arithmetic THEN Sums(i, j) ELSE Operands(i, j)
Sums(i, j)     == Products(i, j) \cup Binary(i, j, {"+", "-"}, Sums, Products)
Products(i, j) == Powers(i, j) \cup Binary(i, j, {"*", "/", "%", "DIV"}, Products, Powers)
Powers(i, j)   == Operands(i, j) \cup Binary(i, j, {"^"}, Operands, Powers)

Properties(name, i) ==
    IF Registered(name) /\ PropertyType(name) \in KnownPropertyTypes \cup {"any"}
    THEN {Node("Property", name, {PropertyType(name)}, << >>, <<i, i>>)} ELSE {}

SingleToken(i) ==
    CASE Token("String", i) -> {Literal("string", tokens[i].text, i)}
      [] Token("Number", i) /\ tokens[i].text \notin UnrepresentableNumbers ->
           {Literal("number", tokens[i].text, i)}
      [] Word({"TRUE", "FALSE"}, i) -> {Literal("boolean", tokens[i].text, i)}
      [] Token("Identifier", i) \/ Token("QuotedIdentifier", i) -> Properties(tokens[i].text, i)
      [] Word(TemporalConstructors, i) /\ IsKeywordProperty(i) -> Properties(tokens[i].raw, i)
      [] OTHER -> {}

Calls(i, j) ==
    IF /\ Wrapped(i + 1, j)
       /\ \/ Token("Identifier", i) \/ Token("QuotedIdentifier", i)
          \/ Word(KeywordFunctions \ TemporalConstructors, i)
    THEN {Call(tokens[i].text, args, i, j)
          : args \in {a \in IF j = i + 2 THEN {<< >>} ELSE Lists(i + 2, j - 1, "Arguments") :
                        ValidCall(cfg.functions, tokens[i].text, a)}}
    ELSE {}

Negated(i, t) == Arithmetic("-", Literal("number", "0", i), t)

OperandRule(i, j) ==
    IF i > j THEN {}
    ELSE IF i = j THEN SingleToken(i)
    ELSE IF Token("Operator", i)
    THEN IF ~cfg.arithmetic \/ ~IsOperator({"+", "-"}, i) THEN {}
         ELSE {IF IsOperator({"+"}, i) THEN t ELSE Negated(i, t)
               : t \in {t \in Operands(i + 1, j) : IsNumeric(t)}}
    ELSE (IF Wrapped(i, j) THEN Scalars(i + 1, j - 1) ELSE {})
           \cup Calls(i, j) \cup InstantCalls(i, j)

Lists(i, j, of) ==
    {<<t>> : t \in Derived(of, i, j)}
      \cup UNION {{<<t>> \o rest : t \in Derived(of, i, k - 1), rest \in Lists(k + 1, j, of)}
                  : k \in Commas(i, j)}

Arrays(i, j) ==
    IF ~Wrapped(i, j) THEN {}
    ELSE {Array(values, i, j) : values \in IF j = i + 1 THEN {<< >>} ELSE Lists(i + 1, j - 1, "Elements")}

\* T_AFTER(a, b) is a predicate and, registered as a function, a call too;
\* (a) is a scalar and an array of one: the first that derives is meant.
ArgumentRule(i, j) ==
    LET predicates == Or(i, j) \cup Intervals(i, j) \cup GeometryLiterals(i, j)
        scalars    == IF Committed(i, j) \/ Word(GeometryKeywords, i) THEN {} ELSE Scalars(i, j)
    IN  IF predicates # {} THEN predicates ELSE IF scalars # {} THEN scalars ELSE Arrays(i, j)

ElementRule(i, j) ==
    LET predicates == Or(i, j) \cup Intervals(i, j) \cup GeometryLiterals(i, j)
    IN  IF Token("LParen", i) THEN Arrays(i, j)
        ELSE IF predicates # {} \/ Word(GeometryKeywords, i) THEN predicates ELSE Scalars(i, j)

Derived(symbol, i, j) ==
    CASE symbol = "Or"        -> OrRule(i, j)
      [] symbol = "Scalars"   -> ScalarRule(i, j)
      [] symbol = "Operands"  -> OperandRule(i, j)
      [] symbol = "Arguments" -> ArgumentRule(i, j)
      [] symbol = "Elements"  -> ElementRule(i, j)
      [] symbol = "Numerals"    -> Numerals(i, j)
      [] symbol = "Coordinates" -> Coordinates(i, j)
      [] symbol = "Points"      -> IF Wrapped(i, j) THEN Coordinates(i + 1, j - 1) ELSE {}
      [] symbol = "Lines"       -> Groups(i, j, "Coordinates", 2)
      [] symbol = "Rings"       -> {r \in Groups(i, j, "Coordinates", 4) : ValidRing(r)}
      [] symbol = "Polygons"    -> Groups(i, j, "Rings", 1)
      [] symbol = "Geometries"  -> Geometries(i, j)

-----------------------------------------------------------------------------
(* What the parser promises.                                               *)

\* An accepted sentence is parsed into the one tree the grammar derives
\* from the whole of it: no token is dropped, read twice or attached to the
\* wrong operator, whatever was tried and given up on the way
\* (parsePrimaryExpression, parseFunctionArg and parseArrayElement re-read
\* tokens), and the tree does not depend on the order of the alternatives.
AcceptedIsTheDerivation ==
    mode = "accepted" => Or(1, Last) = {node}

\* A sentence is rejected only if the grammar derives nothing from it: no
\* alternative that would have succeeded is missed because an earlier one
\* consumed tokens or committed.
RejectedIsUnderivable ==
    mode = "rejected" => Or(1, Last) = {}
=============================================================================
