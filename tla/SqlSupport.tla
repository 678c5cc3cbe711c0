------------------------------ MODULE SqlSupport ------------------------------
(***************************************************************************)
(* Which nodes a filter needs SQL for, and which of them a dialect and a   *)
(* property mapping have SQL for.                                          *)
(***************************************************************************)
EXTENDS SqlCompiler

CONSTANT
    FilterLevels    \* how deep the filters are nested at most

\* The ends of an interval that are part of it.
EndsOf(p) == CASE p = "start" -> {1} [] p = "end" -> {2} [] OTHER -> {1, 2}

\* What the SQL of a node, or of one end of it, is made of.  A leaf is named
\* or bound as a whole, and a relation that looks at one end of each operand
\* needs no other end.
Needs(r) ==
    LET n == r.node
    IN  CASE n.kind = "Interval" -> {Request(n.args[e], "whole") : e \in EndsOf(r.part)}
          [] n.kind = "Temporal" /\ n.op \in {"T_AFTER", "T_METBY"} ->
               {Request(n.args[1], "start"), Request(n.args[2], "end")}
          [] n.kind = "Temporal" /\ n.op \in {"T_BEFORE", "T_MEETS"} ->
               {Request(n.args[1], "end"), Request(n.args[2], "start")}
          [] n.kind \in {"Literal", "Instant", "Property", "Geometry"} -> {}
          [] OTHER -> {Request(n.args[i], "whole") : i \in DOMAIN n.args}

Spread(S) == S \cup UNION {Needs(r) : r \in S}

NeededWithin(f) ==
    LET within[k \in Nat] == IF k = 0 THEN {Request(f, "whole")} ELSE Spread(within[k - 1])
    IN  within

Needed(f) == NeededWithin(f)[FilterLevels]

\* No filter needs anything deeper.
ASSUME LevelsAssumption ==
    FilterLevels \in Nat /\ \A f \in Filters : Spread(Needed(f)) = Needed(f)

\* The nodes that dialect and mapping t have SQL for, once there is SQL for
\* what they are made of.
Supports(t, n) ==
    /\ n.kind # "Unbounded"
    /\ n.kind = "Property" =>
         \/ n.op \in DOMAIN t.columns /\ t.columns[n.op] = "column"
         \/ n.op \notin DOMAIN t.columns /\ t.default
    /\ n.kind = "Function" => n.op \in t.functions /\ Len(n.args) = 1
    /\ n.kind = "Logical" => Len(n.args) = 1 \/ (n.op # "NOT" /\ n.args # << >>)
    /\ n.kind = "In" => Len(n.args) > 1
    /\ n.kind = "Geometry" => n.op # "BBOX6"
    /\ n.kind \in {"Temporal", "ArrayPredicate", "Spatial", "Geometry"} => n.kind \in t.predicates

\* "SQL generation fails closed" (docs/public-api-reference.md): one property
\* without a mapping, one hook the dialect declines or one open end that the
\* relation looks at, anywhere in the filter, and there is no SQL; and nothing
\* else is refused (renderProperty, renderTemporalEndpoint, renderExpression).
CompiledIffSupported ==
    /\ mode = "compiled" => \A r \in Needed(filter) : Supports(target, r.node)
    /\ mode = "failed"   => \E r \in Needed(filter) : ~Supports(target, r.node)
=============================================================================
