------------------------------ MODULE JsonMeaning ----------------------------
(***************************************************************************)
(* What a JSON document means, defined from the inside out: the parser     *)
(* asks of a value what its context wants, trying alternatives top down;   *)
(* here every value has the readings its own shape gives it, and a context *)
(* only says which readings it admits.  There is no depth, no order of     *)
(* alternatives and no state.                                              *)
(***************************************************************************)
EXTENDS JsonTrees

LOCAL INSTANCE SequencesExt

\* The sequences that take one element of each set.
Product(sets) ==
    FoldLeft(LAMBDA fs, s : {Append(f, x) : f \in fs, x \in s}, {<< >>}, sets)

\* What the i-th argument of an operation has to be.
Context(op, i) ==
    CASE op \in {"and", "or", "not"} -> "expression"
      [] op \in ComparisonOps \cup {"in"} -> "scalar"
      [] op \in ArithmeticOps \cup {"between"} -> "numeric"
      [] op \in {"casei", "accenti"} -> "character"
      [] op = "like"    -> IF i = 1 THEN "character" ELSE "pattern"
      [] op = "isNull"  -> "present"
      [] IsPredicateOp(op) -> PredicateKind(Folded(op))
      [] OTHER -> "value"

HasAny(v, keys) == \E k \in keys : Has(v, k)

\* An expression is a boolean literal, a predicate or a boolean function.
IsExpression(v, n) ==
    CASE n.kind = "Literal"  -> n.types = {"boolean"}
      [] n.kind = "Function" -> /\ Returns(n, "boolean")
                                /\ OpName(v) \notin ReservedJSONOps
                                /\ ~IsPredicateOp(OpName(v)) /\ ~MiscasedPredicate(OpName(v))
      [] OTHER -> n.kind \in {"Logical", "Comparison", "Like", "Between", "In", "IsNull",
                              "Temporal", "ArrayPredicate", "Spatial"}

\* A member that names a property, or else an instant, is what it names.
IsScalarReading(v, n) ==
    /\ n.kind \in ScalarKinds
    /\ Has(v, "property") => n.kind = "Property"
    /\ ~Has(v, "property") /\ HasAny(v, {"date", "timestamp"}) => n.kind = "Instant"

IsTypedReading(v, n) ==
    n.kind # "Instant" /\ (Has(v, "property") => n.kind = "Property")

RECURSIVE IsPatternValue(_)
IsPatternValue(v) ==
    \/ v.t = "string"
    \/ IsCall(v) /\ OpName(v) \in {"casei", "accenti"} /\ IsPatternValue(Args(v)[1])

Admits(context, v, n) ==
    CASE context = "expression" -> IsExpression(v, n)
      [] context = "scalar"     -> IsScalarReading(v, n)
      [] context = "character"  -> IsTypedReading(v, n) /\ IsCharacter(n)
      [] context = "numeric"    -> IsTypedReading(v, n) /\ IsNumeric(n)
      [] context = "pattern"    -> IsPatternValue(v)
      [] context = "Temporal"   -> IF HasAny(v, TemporalKeys) THEN n.kind \in {"Instant", "Interval"}
                                   ELSE IsScalarReading(v, n)
      [] context = "Spatial"    -> IF HasAny(v, GeometryKeys) THEN n.kind = "Geometry"
                                   ELSE IsScalarReading(v, n)
      [] context = "ArrayPredicate" -> n.kind = "Array" \/ IsScalarReading(v, n)
      [] OTHER -> \* any value; isNull takes no array
            \/ IsExpression(v, n) \/ IsScalarReading(v, n)
            \/ n.kind \in {"Instant", "Interval"}
            \/ n.kind = "Geometry" /\ ~HasAny(v, TemporalKeys)
            \/ n.kind = "Array" /\ context = "value"

\* The node an operation builds of its arguments: {} if they do not fit.
Built(op, args, p) ==
    LET name      == Folded(op)
        n         == Len(args)
        relation  == ValidPropertyUse(cfg.propertyProperty, args)
        build(kind, as, ok) == IF ok THEN {Predicate(kind, "", as, p)} ELSE {}
        predicate == IF n = 2 /\ PredicateEnabled(name) /\ ValidOperands(name, args[1], args[2])
                     THEN {Predicate(PredicateKind(name), name, args, p)} ELSE {}
        call      == IF ValidCall(cfg.functions, name, args)
                     THEN {Node("Function", name, cfg.functions[name].returns, args, p)} ELSE {}
    IN  CASE op \in {"and", "or"} -> IF n >= 2 THEN {Predicate("Logical", name, args, p)} ELSE {}
          [] op = "not" -> IF n = 1 THEN {Negated(args[1], p)} ELSE {}
          [] op \in ComparisonOps ->
               IF n = 2 /\ ValidComparison(op, args[1], args[2]) /\ relation
               THEN {Predicate("Comparison", op, args, p)} ELSE {}
          [] op = "like"    -> build("Like", args, n = 2 /\ cfg.advanced /\ relation)
          [] op = "between" -> build("Between", args, n = 3 /\ cfg.advanced /\ relation)
          [] op = "isNull"  -> build("IsNull", args, n = 1)
          [] op \in {"casei", "accenti"} -> IF n = 1 THEN call ELSE {}
          [] op \in ArithmeticOps ->
               IF n = 2 /\ cfg.arithmetic THEN {Node("Arithmetic", name, {"number"}, args, p)} ELSE {}
          [] IsPredicateOp(op) ->
               predicate \cup IF op \in ReservedJSONOps THEN {} ELSE call
          [] OTHER -> call

BuiltIn(args, p) ==
    LET values == [i \in 1 .. Len(args) - 1 |-> InCoerce(args[1], args[i + 1])]
    IN  IF /\ cfg.advanced /\ ValidIn(args[1], Tail(args))
           /\ ValidPropertyUse(cfg.propertyProperty, <<args[1]>> \o values)
        THEN {Predicate("In", "", <<args[1]>> \o values, p)} ELSE {}

PropertyReadings(name, p) ==
    IF /\ name.t = "string" /\ name.text # "" /\ Registered(name.text)
       /\ PropertyTypeOf(name.text) \in KnownPropertyTypes \cup {"any"}
    THEN {Node("Property", name.text, {PropertyTypeOf(name.text)}, << >>, p)} ELSE {}

InstantReadings(v, kind, p) ==
    IF IsInstant(kind, v) THEN {Instant(v.text, kind, p)} ELSE {}

\* An endpoint is a property, a function or a text: an instant or "..".
EndpointReadings(v, p, readings) ==
    IF v.t = "string"
    THEN IF v.text = ".." THEN {Node("Unbounded", "..", {}, << >>, p)}
         ELSE InstantReadings(v, "date", p) \cup InstantReadings(v, "timestamp", p)
    ELSE {n \in readings : \/ n.kind = "Property"
                           \/ /\ n.kind = "Function" /\ ~Has(v, "property")
                              /\ OpName(v) \notin ReservedJSONOps}

RECURSIVE Readings(_, _)
Readings(v, p) ==
    LET list(items, at)     == [i \in DOMAIN items |-> Readings(items[i], at \o <<Index(i - 1)>>)]
        in(context, i, at)  == {n \in Readings(Args(v)[i], at) : Admits(context, Args(v)[i], n)}
        filtered(context, items, at) ==
            [i \in DOMAIN items |-> {n \in Readings(items[i], at \o <<Index(i - 1)>>) :
                                        Admits(context, items[i], n)}]
        argsAt == Append(p, Key("args"))
        literal == IF v.t \in {"string", "number", "bool"} /\ Representable(v)
                   THEN {Node("Literal", v.text, {LiteralType(v)}, << >>, p)} ELSE {}
        array  == IF v.t = "array"
                  THEN {Node("Array", "", {"array"}, ns, p) : ns \in Product(filtered("value", v.items, p))}
                  ELSE {}
        property == IF Has(v, "property") THEN PropertyReadings(v.fields["property"], p) ELSE {}
        single == Cardinality({k \in TemporalKeys : Has(v, k)}) = 1
        instant == UNION {IF single /\ Has(v, k) THEN InstantReadings(v.fields[k], k, p) ELSE {}
                          : k \in {"date", "timestamp"}}
        ends == v.fields["interval"].items
        endsAt == Append(p, Key("interval"))
        endpoint(i) == LET at == Append(endsAt, Index(i - 1))
                       IN  EndpointReadings(ends[i], at, Readings(ends[i], at))
        interval == IF single /\ Has(v, "interval") /\ Len(ends) = 2
                    THEN {Node("Interval", "", {"interval"}, es, p) :
                             es \in {es \in Product(<<endpoint(1), endpoint(2)>>) : ValidInterval(es[1], es[2])}}
                    ELSE {}
        call == IF ~IsCall(v) THEN {}
                ELSE IF OpName(v) = "in"
                THEN IF Len(Args(v)) = 2 /\ Args(v)[2].t = "array"
                     THEN UNION {BuiltIn(ns, p) : ns \in
                                 Product(<<in("scalar", 1, Append(argsAt, Index(0)))>>
                                           \o filtered("scalar", Args(v)[2].items, Append(argsAt, Index(1))))}
                     ELSE {}
                ELSE UNION {Built(OpName(v), ns, p) : ns \in
                            Product([i \in DOMAIN Args(v) |->
                                        in(Context(OpName(v), i), i, Append(argsAt, Index(i - 1)))])}
        members == v.fields["geometries"].items
        geometry ==
            CASE Has(v, "op") \/ v.t # "object" -> {}
              [] IsJsonBox(v) -> IF ValidJsonBox(v) THEN {GeometryLiteral("BBox", JsonBBox(v)[1], << >>, p)}
                                 ELSE {}
              [] IsGeoJson(v) /\ JsonType(v) = "GeometryCollection" ->
                   IF Has(v, "geometries") /\ (Has(v, "bbox") => IsJsonBBox(v.fields["bbox"]))
                   THEN {GeometryLiteral("GeometryCollection", List(gs), JsonBBox(v), p) :
                           gs \in {gs \in Product(list(members, Append(p, Key("geometries")))) :
                                      (\A i \in DOMAIN gs : gs[i].kind = "Geometry")
                                        /\ ValidCollection(gs, "json")}}
                   ELSE {}
              [] IsGeoJson(v) /\ JsonType(v) # "GeometryCollection" ->
                   IF ValidJsonGeometry(v)
                   THEN {GeometryLiteral(JsonType(v), JsonData(JsonType(v), v.fields["coordinates"]),
                                         JsonBBox(v), p)} ELSE {}
              [] OTHER -> {}
    IN  literal \cup array \cup property \cup instant \cup interval \cup call \cup geometry

Meanings == {n \in Readings(input, << >>) : Admits("expression", input, n)}

\* A JSON filter that is accepted means what the parser built: whatever
\* alternatives were tried and given up, and in whatever order, the tree is
\* one the document denotes, with every node at the path of its value.
AcceptedIsMeant == mode = "accepted" => node \in Meanings

RECURSIVE Nesting(_)
Nesting(v) ==
    LET below(parts) == {0} \cup {1 + Nesting(parts[k]) : k \in DOMAIN parts}
        depths == below(v.items) \cup below(v.fields)
    IN  CHOOSE d \in depths : \A e \in depths : e <= d

\* A refused document denotes nothing or is nested as deep as MaxDepth: no
\* order of alternatives, and no error made final by a key, loses a filter.
RejectedIsMeaningless ==
    mode = "rejected" => Meanings = {} \/ Nesting(input) >= cfg.maxDepth

RECURSIVE NullFree(_)
NullFree(v) ==
    /\ v.t # "null"
    /\ \A i \in DOMAIN v.items : NullFree(v.items[i])
    /\ \A k \in DOMAIN v.fields : NullFree(v.fields[k])

\* "NULL is only allowed in isNull predicates" (parseJSONScalar).
NullOnlyInIsNull == mode = "accepted" => NullFree(input)
=============================================================================
