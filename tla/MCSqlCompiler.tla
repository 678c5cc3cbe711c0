---------------------------- MODULE MCSqlCompiler ----------------------------
(***************************************************************************)
(* Filters, tables and dialects for TLC.                                   *)
(***************************************************************************)
EXTENDS SqlMeaning

N(kind, op, sub) == Node(kind, op, {"any"}, sub, <<1, 1>>)

Prop(name)  == N("Property", name, << >>)
Number(t)   == Node("Literal", t, {"number"}, << >>, <<1, 1>>)
Text(t)     == Node("Literal", t, {"string"}, << >>, <<1, 1>>)
Truth(t)    == Node("Literal", t, {"boolean"}, << >>, <<1, 1>>)
At(t)       == Instant(t, "date", <<1, 1>>)
Open        == N("Unbounded", "..", << >>)
Span(s, e)  == N("Interval", "", <<s, e>>)
Call(f, sub) == N("Function", f, sub)

\* The nodes of the filters, which are at most six levels deep.
Args(nodes) == {m : m \in UNION {{n.args[i] : i \in DOMAIN n.args} : n \in nodes}}

NodesOf(filters) ==
    LET one   == Args(filters)
        two   == Args(one)
        three == Args(two)
        four  == Args(three)
    IN  filters \cup one \cup two \cup three \cup four \cup Args(four)

MCInstants == [t \in {"t0", "t1", "t2", "t3"} |->
                 [kind |-> "date", at |-> CASE t = "t0" -> 0 [] t = "t1" -> 1
                                            [] t = "t2" -> 2 [] t = "t3" -> 3]]

MCNumbers == [t \in {"0", "1"} |-> IF t = "0" THEN 0 ELSE 1]

NoColumns == << >>

Postgis(columns, default) ==
    [numbered |-> TRUE, functions |-> {"CASEI", "ACCENTI"}, default |-> default,
     columns |-> columns,
     predicates |-> {"Temporal", "ArrayPredicate", "Spatial", "Geometry"}]

Base(columns, default) ==
    [numbered |-> FALSE, functions |-> {}, predicates |-> {}, columns |-> columns,
     default |-> default]

-----------------------------------------------------------------------------
(* Logic: two numeric columns, each possibly NULL, and every condition of  *)
(* two levels of NOT, AND and OR over the predicates on them.              *)

LogicAtoms ==
    {N("Comparison", "=", <<Prop("a"), Number("1")>>),
     N("Comparison", "<", <<Prop("a"), Prop("b")>>),
     N("Comparison", ">=", <<N("Arithmetic", "+", <<Prop("a"), Prop("b")>>), Number("1")>>),
     N("Between", "", <<Prop("b"), Number("0"), Prop("a")>>),
     N("In", "", <<Prop("a"), Number("0"), Prop("b")>>),
     N("In", "NOT", <<Prop("b"), Number("1"), Prop("a")>>),
     N("Between", "NOT", <<Prop("a"), Prop("b"), Number("1")>>),
     N("Between", "NOT", <<Number("0"), Number("1"), Prop("b")>>),
     N("IsNull", "NOT", <<Prop("b")>>),
     Truth("FALSE")}

Not1(S)         == {N("Logical", "NOT", <<p>>) : p \in S}
Joined(S, R)    == {N("Logical", op, <<p, q>>) : op \in {"AND", "OR"}, p \in S, q \in R}

OneLevel     == LogicAtoms \cup Not1(LogicAtoms) \cup Joined(LogicAtoms, LogicAtoms)
LogicFilters == OneLevel \cup Not1(OneLevel)
                  \cup Joined(Not1(LogicAtoms), Not1(Joined(LogicAtoms, {Truth("FALSE"),
                         N("Comparison", "<", <<Prop("a"), Prop("b")>>)})))
LogicRows    == [{"a", "b"} -> {{}, {0}, {1}}]

-----------------------------------------------------------------------------
(* Time: four instants, a table with the two ends of an interval and one   *)
(* instant, any of them possibly NULL.                                     *)

TemporalRelations ==
    {"T_AFTER", "T_BEFORE", "T_CONTAINS", "T_DISJOINT", "T_DURING", "T_EQUALS",
     "T_FINISHEDBY", "T_FINISHES", "T_INTERSECTS", "T_MEETS", "T_METBY",
     "T_OVERLAPPEDBY", "T_OVERLAPS", "T_STARTEDBY", "T_STARTS"}

Operands ==
    {Span(Prop("s"), Prop("e")), Span(At("t0"), At("t1")), Span(At("t1"), At("t2")),
     Span(At("t1"), At("t3")), Span(At("t0"), Prop("e")), At("t1"), At("t2"), Prop("s")}

TemporalFilters ==
    {f \in {N("Temporal", op, <<l, r>>) : op \in TemporalRelations, l \in Operands, r \in Operands} :
        /\ ValidTemporalOperands(f.op, f.args[1], f.args[2])
        /\ f.refs}

TemporalRows ==
    {r \in [{"s", "e"} -> {{}} \cup {{t} : t \in 0..3}] :
        \A s \in r["s"], e \in r["e"] : s <= e}

-----------------------------------------------------------------------------
(* Dialects: every kind of node, mapped and unmapped columns, open ends,   *)
(* three-dimensional boxes, functions the dialect does not know.           *)

Columns == [p |-> "column", q |-> "none"]

AllTargets ==
    {Postgis(NoColumns, TRUE), Postgis(Columns, FALSE), Postgis(Columns, TRUE), Base(Columns, TRUE), Base(NoColumns, FALSE)}

Scalars ==
    {Prop("p"), Prop("q"), Prop("z"), Text("x"), Call("CASEI", <<Text("y")>>),
     Call("other", << >>), Call("CASEI", <<Text("y"), Text("y")>>), N("Arithmetic", "*", <<Number("0"), Prop("p")>>)}

Boxes == {N("Geometry", g, << >>) : g \in {"POINT", "BBOX4", "BBOX6"}}

Ends == {At("t0"), Prop("p"), Open}

Spans == {Span(a, b) : a \in Ends, b \in Ends}

DialectAtoms ==
    {N("Comparison", "=", <<x, y>>) : x \in Scalars, y \in Scalars}
      \cup {N("Like", "NOT", <<x, Text("%")>>) : x \in Scalars}
      \cup {N("Between", "", <<x, Number("0"), y>>) : x \in Scalars, y \in Scalars}
      \cup {N("In", "", <<Prop("p"), x, Text("v"), y>>) : x \in Scalars, y \in Scalars}
      \cup {N("In", "", <<x>>) : x \in Scalars}
      \cup {N("Spatial", "S_WITHIN", <<x, y>>) : x \in Boxes \cup {Prop("z")}, y \in Boxes}
      \cup {N("ArrayPredicate", "A_OVERLAPS", <<N("Array", "", <<x, y>>), N("Array", "", <<y>>)>>) :
               x \in Scalars, y \in Scalars}
      \cup {N("Temporal", op, <<x, y>>) :
               op \in {"T_AFTER", "T_MEETS", "T_OVERLAPPEDBY"}, x \in Spans, y \in Spans}
      \cup {N("IsNull", "", <<x>>) : x \in Scalars \cup Spans}

DialectFilters ==
    {N("Logical", "OR", <<N("Comparison", "=", <<Prop("p"), Text("0")>>),
                          N("Logical", "NOT", <<p>>)>>) : p \in DialectAtoms}

-----------------------------------------------------------------------------

AllFilters == {f : f \in LogicFilters \cup TemporalFilters \cup DialectFilters}
AllNodes   == {n : n \in NodesOf(AllFilters)}

AllRows    == LogicRows \cup TemporalRows
=============================================================================
