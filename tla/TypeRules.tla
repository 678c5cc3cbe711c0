------------------------------ MODULE TypeRules ------------------------------
(***************************************************************************)
(* The syntax-tree nodes both parsers build (api/ast.go) and the semantic  *)
(* validation shared by them: property.go, function.go and temporal.go of  *)
(* internal/parser.  Everything here is a constant-level operator; the     *)
(* parser modules call them where the code calls the validators.           *)
(*                                                                         *)
(* Names, literals and operators are abstract strings.  A name is already  *)
(* case-folded where the code folds it, so a keyword and the function of   *)
(* that name are one value.                                                *)
(***************************************************************************)
EXTENDS Integers, Sequences, FiniteSets

CONSTANT
    Instants    \* the strings time.Parse accepts: text |-> [kind, at]

ASSUME InstantsAssumption ==
    \A s \in DOMAIN Instants :
        /\ Instants[s].kind \in {"date", "timestamp"}
        /\ Instants[s].at \in Int

-----------------------------------------------------------------------------
(* Nodes.  types holds what the validators can learn about a node: the     *)
(* type of a property, the return types of a call, the type of a literal.  *)
(* refs is nodeReferencesProperty, computed as the tree is built.  src is  *)
(* the pair of token positions of the node's span.                         *)

Node(kind, op, types, args, src) ==
    [kind |-> kind, op |-> op, types |-> types, args |-> args, src |-> src,
     refs |-> kind = "Property" \/ \E i \in DOMAIN args : args[i].refs]

Literal(type, text, at)    == Node("Literal", text, {type}, << >>, <<at, at>>)
Instant(text, kind, src)   == Node("Instant", text, {kind}, << >>, src)
Predicate(kind, op, args, src) == Node(kind, op, {"boolean"}, args, src)

Arithmetic(op, left, right) ==
    Node("Arithmetic", op, {"number"}, <<left, right>>,
         <<left.src[1], right.src[2]>>)

\* Number texts canonicalNumber refuses: an exponent beyond 1 000 000.
UnrepresentableNumbers == {"1e1000001"}

ScalarKinds == {"Literal", "Property", "Function", "Arithmetic", "Instant"}

-----------------------------------------------------------------------------
(* Property types and function types share their names.                    *)

GeometryTypes  == {"point", "multipoint", "linestring", "multilinestring",
                   "polygon", "multipolygon", "geometry", "geometrycollection"}
InstantTypes   == {"date", "timestamp"}
NumericTypes   == {"number", "integer"}
ScalarPropertyTypes == {"string", "boolean"} \cup NumericTypes \cup InstantTypes
KnownPropertyTypes  == ScalarPropertyTypes \cup GeometryTypes \cup {"interval", "array"}
KnownFunctionTypes  == ScalarPropertyTypes
                         \cup {"any", "datetime", "interval", "geometry", "array"}

\* nodeFunctionTypes with propertyFunctionType: a geometry property of any
\* kind is a geometry, and an unknown type is "unsupported".
NodeTypes(n) ==
    CASE n.kind = "Property" /\ n.types \subseteq GeometryTypes -> {"geometry"}
      [] n.kind = "Unbounded" -> {"unsupported"}
      [] OTHER -> n.types

Compatible(expected, actual) ==
    /\ {expected, actual} \subseteq KnownFunctionTypes
    /\ \/ "any" \in {expected, actual}
       \/ expected = actual
       \/ expected = "number" /\ actual = "integer"
       \/ expected = "datetime" /\ actual \in InstantTypes
       \/ actual = "datetime" /\ expected \in InstantTypes

Overlap(actual, expected) ==
    \/ actual = {} \/ expected = {}
    \/ \E e \in expected, a \in actual : Compatible(e, a)

Returns(call, type) == Overlap(call.types, {type})

-----------------------------------------------------------------------------
(* property.go: the operand contexts.                                      *)

IsCharacter(n) ==
    CASE n.kind = "Literal"  -> n.types = {"string"}
      [] n.kind = "Property" -> n.types \subseteq {"any", "string"}
      [] n.kind = "Function" -> Returns(n, "string")
      [] OTHER -> FALSE

IsNumeric(n) ==
    CASE n.kind = "Literal"  -> n.types = {"number"}
      [] n.kind = "Property" -> n.types \subseteq {"any"} \cup NumericTypes
      [] n.kind = "Function" -> Returns(n, "number") \/ Returns(n, "integer")
      [] OTHER -> n.kind = "Arithmetic"

IsScalar(n) ==
    n.kind = "Property" => n.types \subseteq {"any"} \cup ScalarPropertyTypes

\* functionReturnPropertyType: several return types count as untyped.
ReturnPropertyType(call) ==
    IF Cardinality(call.types) # 1 THEN "any"
    ELSE IF call.types = {"datetime"} THEN "timestamp"
    ELSE CHOOSE t \in call.types : TRUE

ScalarType(n) ==
    CASE n.kind = "Function" -> ReturnPropertyType(n)
      [] n.kind \in {"Literal", "Property", "Arithmetic", "Instant"} ->
           CHOOSE t \in n.types : TRUE
      [] OTHER -> "unsupported"

SameClass(l, r) ==
    \/ "any" \in {l, r}
    \/ {l, r} \subseteq NumericTypes
    \/ {l, r} \subseteq InstantTypes

\* Mutation of ComparableTypes: types of different classes are let through.
ComparableIfKnown(l, r) == {l, r} \subseteq KnownPropertyTypes \cup {"any"}

ComparisonOps == {"=", "<>", "<", ">", "<=", ">="}

ComparableTypes(l, r) ==
    /\ {l, r} \subseteq KnownPropertyTypes \cup {"any"}
    /\ SameClass(l, r) \/ l = r

OrderedTypes(l, r) ==
    /\ {l, r} \subseteq KnownPropertyTypes \cup {"any"}
    /\ SameClass(l, r) \/ (l = r /\ l \in {"string", "boolean"})

ValidComparison(op, left, right) ==
    /\ IsScalar(left) /\ IsScalar(right)
    /\ ComparableTypes(ScalarType(left), ScalarType(right))
    /\ op \in {"=", "<>"} \/ OrderedTypes(ScalarType(left), ScalarType(right))

\* validatePropertyPropertyConformance
ValidPropertyUse(allowed, operands) ==
    \/ allowed
    \/ /\ operands[1].refs
       /\ \A i \in 2..Len(operands) : ~operands[i].refs

\* A string in the list of a date or timestamp IN becomes an instant, and
\* one that is neither is an error.
InCoercible(expr, v) ==
    (ScalarType(expr) \in InstantTypes /\ v.kind = "Literal" /\ v.types = {"string"})
        => v.op \in DOMAIN Instants

InCoerce(expr, v) ==
    IF ScalarType(expr) \in InstantTypes /\ v.kind = "Literal" /\ v.types = {"string"}
    THEN Instant(v.op, Instants[v.op].kind, v.src)
    ELSE v

ValidIn(expr, values) ==
    /\ IsScalar(expr)
    /\ \A i \in DOMAIN values :
         /\ InCoercible(expr, values[i])
         /\ LET v == InCoerce(expr, values[i])
            IN  IsScalar(v) /\ ComparableTypes(ScalarType(expr), ScalarType(v))

\* scalarAsExpression: the scalars that may stand alone as a predicate.
IsPredicate(n) ==
    CASE n.kind = "Literal"  -> n.types = {"boolean"}
      [] n.kind = "Function" -> Returns(n, "boolean")
      [] OTHER -> n.kind \notin ScalarKinds

-----------------------------------------------------------------------------
(* function.go: registered signatures.  A definition is a record           *)
(* [args, variadic, returns]: the type sets of the positional arguments,   *)
(* the positions of those marked as variadic, and the return types.        *)

ValidDefinition(def) ==
    /\ def.returns # {}
    /\ def.returns \subseteq KnownFunctionTypes
    /\ def.variadic \subseteq {Len(def.args)}
    /\ \A i \in DOMAIN def.args : def.args[i] \subseteq KnownFunctionTypes

\* validateFunctionCall; functions is the registry, a function of names.
ValidCall(functions, name, args) ==
    /\ name \in DOMAIN functions
    /\ LET def == functions[name]
           n   == Len(def.args)
       IN  /\ ValidDefinition(def)
           /\ IF n > 0 /\ n \in def.variadic THEN Len(args) >= n - 1 ELSE Len(args) = n
           /\ \A i \in DOMAIN args :
                 Overlap(NodeTypes(args[i]), def.args[IF i <= n THEN i ELSE n])

-----------------------------------------------------------------------------
(* property.go and temporal.go: operands of the predicate functions.       *)

IsArrayOperand(n) ==
    CASE n.kind = "Property" -> n.types \subseteq {"any", "array"}
      [] n.kind = "Function" -> Returns(n, "array")
      [] OTHER -> n.kind = "Array"

IsTemporalOperand(n) ==
    CASE n.kind = "Property" -> n.types \subseteq {"any", "interval"} \cup InstantTypes
      [] n.kind = "Function" ->
           \E t \in {"date", "timestamp", "datetime", "interval"} : Returns(n, t)
      [] OTHER -> n.kind \in {"Instant", "Interval"}

IsIntervalOperand(n) ==
    CASE n.kind = "Property" -> n.types \subseteq {"any", "interval"}
      [] n.kind = "Function" -> n.types \cap {"any", "interval"} # {}
      [] OTHER -> n.kind = "Interval"

IntervalOnly == {"T_CONTAINS", "T_DURING", "T_FINISHEDBY", "T_FINISHES",
                 "T_MEETS", "T_METBY", "T_OVERLAPPEDBY", "T_OVERLAPS",
                 "T_STARTEDBY", "T_STARTS"}

TemporalOps == IntervalOnly \cup {"T_AFTER", "T_BEFORE", "T_DISJOINT",
                                  "T_EQUALS", "T_INTERSECTS"}
ArrayOps    == {"A_CONTAINS", "A_CONTAINEDBY", "A_EQUALS", "A_OVERLAPS"}
SpatialOps  == {"S_CONTAINS", "S_CROSSES", "S_DISJOINT", "S_EQUALS",
                "S_INTERSECTS", "S_OVERLAPS", "S_TOUCHES", "S_WITHIN"}

ValidTemporalOperands(op, left, right) ==
    /\ IsTemporalOperand(left) /\ IsTemporalOperand(right)
    /\ op \in IntervalOnly => IsIntervalOperand(left) /\ IsIntervalOperand(right)

\* validateSpatialOperand; a literal was validated when it was read.
IsSpatialOperand(n) ==
    CASE n.kind = "Property" -> n.types \subseteq {"any"} \cup GeometryTypes
      [] n.kind = "Function" -> Returns(n, "geometry")
      [] OTHER -> n.kind = "Geometry"

\* allowsSpatialPredicate: the basic classes only enable S_INTERSECTS.
SpatialEnabled(class, op) == class = "all" \/ (class = "basic" /\ op = "S_INTERSECTS")

PredicateKind(op) ==
    CASE op \in TemporalOps -> "Temporal"
      [] op \in ArrayOps    -> "ArrayPredicate"
      [] OTHER              -> "Spatial"

\* The operands of a spatial, temporal or array predicate.
ValidOperands(op, left, right) ==
    CASE op \in TemporalOps -> ValidTemporalOperands(op, left, right)
      [] op \in ArrayOps    -> IsArrayOperand(left) /\ IsArrayOperand(right)
      [] OTHER              -> IsSpatialOperand(left) /\ IsSpatialOperand(right)

\* validateTemporalIntervalEndpoint: the granularity of an endpoint, or
\* "none" for a node that cannot be one.
EndpointType(n) ==
    CASE n.kind = "Unbounded" -> "any"
      [] n.kind = "Instant"   -> CHOOSE t \in n.types : TRUE
      [] n.kind = "Property"  ->
           IF n.types \subseteq {"any"} \cup InstantTypes
           THEN CHOOSE t \in n.types : TRUE ELSE "none"
      [] n.kind = "Function"  ->
           IF "any" \in n.types THEN "any"
           ELSE IF "interval" \in n.types THEN "none"
           ELSE IF "date" \in n.types THEN "date"
           ELSE IF n.types \cap {"timestamp", "datetime"} # {} THEN "timestamp"
           ELSE "none"
      [] OTHER -> "none"

ValidInterval(start, end) ==
    LET s == EndpointType(start)
        e == EndpointType(end)
    IN  /\ "none" \notin {s, e}
        /\ {s, e} \subseteq InstantTypes => s = e
        /\ (start.kind = "Instant" /\ end.kind = "Instant")
             => Instants[start.op].at <= Instants[end.op].at
=============================================================================
