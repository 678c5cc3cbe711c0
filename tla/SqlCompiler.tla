------------------------------ MODULE SqlCompiler ------------------------------
(***************************************************************************)
(* The SQL generator, sql/sql.go: ToSQL walks a syntax tree and returns a  *)
(* SQL fragment and the bind values its placeholders stand for.  Rendering *)
(* a node is a "render" state; the node whose operands are being rendered  *)
(* is a frame on the stack; args is compiler.args, shared by the whole     *)
(* walk.  Every error is final: nothing of sql.go tries an alternative.    *)
(*                                                                         *)
(* A fragment is the tree its template spells out, the parts of every      *)
(* node in the order of the text; quoting and casts are not told apart.    *)
(* holes are the placeholders of a fragment, in the order of its text.     *)
(***************************************************************************)
EXTENDS TypeRules

CONSTANTS
    Nodes,      \* syntax-tree nodes, with the nodes below them
    Filters,    \* the syntax trees to compile
    Targets     \* dialects with a property mapping: [numbered, functions,
                \* predicates, columns, default]

ASSUME FiltersAssumption ==
    /\ Filters \subseteq Nodes
    /\ {n.args : n \in Nodes} \subseteq Seq(Nodes)
    /\ \A n \in Nodes : n.kind \in {"Interval", "Temporal"} => Len(n.args) = 2

ASSUME TargetsAssumption ==
    \A t \in Targets :
        /\ {t.numbered, t.default} \subseteq BOOLEAN
        /\ t.predicates \subseteq {"Temporal", "ArrayPredicate", "Spatial", "Geometry"}
        /\ \A name \in DOMAIN t.columns : t.columns[name] \in {"column", "none"}
        \* The PostGIS dialect writes an end of an operand more than once.
        /\ "Temporal" \in t.predicates => t.numbered

VARIABLES
    filter,     \* the expression given to ToSQL
    target,     \* dialect and cfg
    mode,       \* render or return; compiled or failed at the end
    node,       \* when rendering: the node, and which part of it is wanted
    part,
    fragment,   \* in a return: the fragment returned
    args,       \* c.args
    stack       \* the nodes whose operands are being rendered

vars == <<filter, target, mode, node, part, fragment, args, stack>>

-----------------------------------------------------------------------------
(* Fragments.                                                              *)

HolesUpTo(parts) ==
    LET upTo[i \in 0..Len(parts)] == IF i = 0 THEN << >> ELSE upTo[i - 1] \o parts[i].holes
    IN  upTo

\* The placeholders of some fragments, one fragment after the other.
Holes(parts) == HolesUpTo(parts)[Len(parts)]

Fragment(sql, parts) ==
    [sql |-> sql, name |-> "", parts |-> parts, arg |-> 0, holes |-> Holes(parts)]

Column(name) == [sql |-> "column", name |-> name, parts |-> << >>, arg |-> 0, holes |-> << >>]

Placeholder(i) == [sql |-> "arg", name |-> "", parts |-> << >>, arg |-> i, holes |-> <<i>>]

\* Mutation of NextPlaceholder: the number is taken before the value is added.
PlaceholderBefore == Placeholder(Len(args))

\* AddArg numbers a value by its place in args.
NextPlaceholder == Placeholder(Len(args) + 1)

Compare(a, op, b) == Fragment(op, <<a, b>>)
All(parts)        == Fragment("AND", parts)
Any(parts)        == Fragment("OR", parts)

\* Mutation of Disjoint: two intervals that meet count as disjoint.
DisjointIfMet(ls, le, rs, re) == Any(<<Compare(le, "<=", rs), Compare(ls, ">=", re)>>)

\* One operand ends before the other starts.
Disjoint(ls, le, rs, re) == Any(<<Compare(le, "<", rs), Compare(ls, ">", re)>>)

\* RenderTemporalPredicate of the PostGIS dialect.  The first four relations
\* look at one end of each operand, the others at both.
TemporalSql(op, p) ==
    IF Len(p) = 2
    THEN Compare(p[1], CASE op = "T_AFTER" -> ">" [] op = "T_BEFORE" -> "<" [] OTHER -> "=", p[2])
    ELSE LET ls == p[1]
             le == p[2]
             rs == p[3]
             re == p[4]
         IN  CASE op = "T_DISJOINT"   -> Disjoint(ls, le, rs, re)
               [] op = "T_EQUALS"     -> All(<<Compare(ls, "=", rs), Compare(le, "=", re)>>)
               [] op = "T_INTERSECTS" -> Fragment("NOT", <<Disjoint(ls, le, rs, re)>>)
               [] op = "T_CONTAINS"   -> All(<<Compare(ls, "<=", rs), Compare(le, ">=", re)>>)
               [] op = "T_DURING"     -> All(<<Compare(ls, ">=", rs), Compare(le, "<=", re)>>)
               [] op = "T_FINISHEDBY" -> All(<<Compare(le, "=", re), Compare(ls, "<", rs)>>)
               [] op = "T_FINISHES"   -> All(<<Compare(le, "=", re), Compare(ls, ">", rs)>>)
               [] op = "T_OVERLAPPEDBY" ->
                    All(<<Compare(rs, "<", ls), Compare(re, ">", ls), Compare(re, "<", le)>>)
               [] op = "T_OVERLAPS" ->
                    All(<<Compare(ls, "<", rs), Compare(le, ">", rs), Compare(le, "<", re)>>)
               [] op = "T_STARTEDBY"  -> All(<<Compare(ls, "=", rs), Compare(le, ">", re)>>)
               [] OTHER               -> All(<<Compare(ls, "=", rs), Compare(le, "<", re)>>)

\* Mutation of NotSql: a condition that is neither true nor false stays so.
NotThreeValued(p) == Fragment("NOT", <<p>>)

\* NOT selects what its operand does not: a condition that is neither true
\* nor false counts as false.
NotSql(p) == Fragment("NOT", <<Fragment("COALESCE", <<p>>)>>)

\* The Not flag of LIKE, BETWEEN, IN and IS NULL is SQL's own NOT.
Flagged(n, f) == IF n.op = "NOT" THEN Fragment("NOT", <<f>>) ELSE f

\* The template of a node, filled with the fragments of its operands.
Template(n, p) ==
    CASE n.kind = "Logical"    -> IF n.op = "NOT" THEN NotSql(p[1]) ELSE Fragment(n.op, p)
      [] n.kind = "Temporal"   -> TemporalSql(n.op, p)
      [] n.kind = "Like"       -> Flagged(n, Fragment("LIKE", p))
      [] n.kind = "Between"    -> Flagged(n, Fragment("BETWEEN", p))
      [] n.kind = "In"         -> Flagged(n, Fragment("IN", p))
      [] n.kind = "IsNull"     -> Flagged(n, Fragment("IS NULL", p))
      [] n.kind = "Interval"   -> Fragment("ROW", p)
      [] n.kind = "Array"      -> Fragment("ARRAY", p)
      [] OTHER                 -> Fragment(n.op, p)   \* the operator or function

-----------------------------------------------------------------------------
(* Control.                                                                *)

Request(n, p) == [node |-> n, part |-> p]

\* What is rendered for a node, in the order of the calls: an operand as a
\* whole or one end of it.
Requests(n) ==
    CASE n.kind = "Interval" -> <<Request(n, "start"), Request(n, "end")>>
      [] n.kind = "Temporal" /\ n.op \in {"T_AFTER", "T_METBY"} ->
           <<Request(n.args[1], "start"), Request(n.args[2], "end")>>
      [] n.kind = "Temporal" /\ n.op \in {"T_BEFORE", "T_MEETS"} ->
           <<Request(n.args[1], "end"), Request(n.args[2], "start")>>
      [] n.kind = "Temporal" /\ n.op \notin {"T_AFTER", "T_METBY", "T_BEFORE", "T_MEETS"} ->
           <<Request(n.args[1], "start"), Request(n.args[1], "end"),
             Request(n.args[2], "start"), Request(n.args[2], "end")>>
      [] OTHER -> [i \in DOMAIN n.args |-> Request(n.args[i], "whole")]

Top   == stack[Len(stack)]
Below == SubSeq(stack, 1, Len(stack) - 1)

Render(request, st) ==
    /\ mode' = "render" /\ node' = request.node /\ part' = request.part
    /\ stack' = st /\ UNCHANGED <<filter, target, fragment, args>>

Return(f, values, st) ==
    /\ mode' = "return" /\ fragment' = f /\ args' = args \o values
    /\ stack' = st /\ UNCHANGED <<filter, target, node, part>>

Fail ==
    /\ mode' = "failed"
    /\ UNCHANGED <<filter, target, node, part, fragment, args, stack>>

\* Only an interval has ends of its own; any other operand is both.
Rendering(kinds) ==
    /\ mode = "render" /\ node.kind \in kinds
    /\ node.kind = "Interval" => part = "whole"

NoFragment == Fragment("", << >>)

Init ==
    /\ filter \in Filters /\ target \in Targets
    /\ mode = "render" /\ node = filter /\ part = "whole"
    /\ fragment = NoFragment /\ args = << >> /\ stack = << >>

-----------------------------------------------------------------------------
(* Leaves.                                                                 *)

\* Strings are bound as they are, numbers and instants inside a cast; TRUE,
\* FALSE and NULL are spelled out.
RenderLiteral ==
    /\ Rendering({"Literal"})
    /\ CASE node.types = {"number"} -> Return(Fragment("number", <<NextPlaceholder>>), <<node.op>>, stack)
         [] node.types = {"string"} -> Return(NextPlaceholder, <<node.op>>, stack)
         [] OTHER                   -> Return(Fragment(node.op, << >>), << >>, stack)

RenderInstant ==
    /\ Rendering({"Instant"})
    /\ Return(Fragment("instant", <<NextPlaceholder>>), <<node.op>>, stack)

\* Mutation of Resolved: the default mapping is always on.
ResolvedByDefault(name) ==
    name \notin DOMAIN target.columns \/ target.columns[name] = "column"

\* resolver.ResolveProperty, then the default column mapping for a name the
\* resolver does not know.
Resolved(name) ==
    IF name \in DOMAIN target.columns THEN target.columns[name] = "column" ELSE target.default

RenderProperty ==
    /\ Rendering({"Property"})
    /\ IF Resolved(node.op) THEN Return(Column(node.op), << >>, stack) ELSE Fail

\* A bounding box binds four numbers, every other geometry its GeoJSON; the
\* dialect has no three-dimensional box.
RenderGeometry ==
    /\ Rendering({"Geometry"})
    /\ IF "Geometry" \notin target.predicates \/ node.op = "BBOX6" THEN Fail
       ELSE LET n == IF node.op = "BBOX4" THEN 4 ELSE 1
            IN  Return(Fragment(node.op, [i \in 1..n |-> Placeholder(Len(args) + i)]),
                       [i \in 1..n |-> node.op], stack)

\* One end of an interval; an end that is open has no SQL.
RenderEndpoint ==
    /\ mode = "render" /\ node.kind = "Interval" /\ part # "whole"
    /\ LET end == node.args[IF part = "start" THEN 1 ELSE 2]
       IN  IF end.kind = "Unbounded" THEN Fail ELSE Render(Request(end, "whole"), stack)

-----------------------------------------------------------------------------
(* Nodes with operands.                                                    *)

\* The dialect hook takes the node, and it has the operands it needs.
Accepts(n) ==
    CASE n.kind = "Function" -> n.op \in target.functions /\ Len(n.args) = 1
      [] n.kind \in {"Temporal", "ArrayPredicate", "Spatial"} -> n.kind \in target.predicates
      [] n.kind = "Logical"  -> IF n.op = "NOT" THEN Len(n.args) = 1 ELSE n.args # << >>
      [] n.kind = "In"       -> Len(n.args) >= 2
      [] OTHER               -> n.kind # "Unbounded"

Composites == {"Logical", "Comparison", "Like", "Between", "In", "IsNull", "Arithmetic",
               "Temporal", "ArrayPredicate", "Spatial", "Function", "Interval", "Array",
               "Unbounded"}

RenderOperands ==
    /\ Rendering(Composites)
    /\ LET requests == Requests(node)
       IN  IF ~Accepts(node) THEN Fail
           ELSE IF requests = << >> THEN Return(Template(node, << >>), << >>, stack)
           ELSE Render(requests[1],
                       Append(stack, [node |-> node, todo |-> Tail(requests), done |-> << >>]))

\* Mutation of OperandRendered: the operands are gathered in reverse.
OperandPrepended ==
    /\ mode = "return" /\ stack # << >>
    /\ LET done == <<fragment>> \o Top.done
       IN  IF Top.todo # << >>
           THEN Render(Top.todo[1],
                       Append(Below, [node |-> Top.node, todo |-> Tail(Top.todo), done |-> done]))
           ELSE Return(Template(Top.node, done), << >>, Below)

OperandRendered ==
    /\ mode = "return" /\ stack # << >>
    /\ LET done == Append(Top.done, fragment)
       IN  IF Top.todo # << >>
           THEN Render(Top.todo[1],
                       Append(Below, [node |-> Top.node, todo |-> Tail(Top.todo), done |-> done]))
           ELSE Return(Template(Top.node, done), << >>, Below)

Finish ==
    /\ mode = "return" /\ stack = << >>
    /\ mode' = "compiled"
    /\ UNCHANGED <<filter, target, node, part, fragment, args, stack>>

Final == mode \in {"compiled", "failed"}

Terminated == Final /\ UNCHANGED vars

Step ==
    \/ RenderLiteral \/ RenderInstant \/ RenderProperty \/ RenderGeometry \/ RenderEndpoint
    \/ RenderOperands \/ OperandRendered \/ Finish

Next == Step \/ Terminated

Spec == Init /\ [][Next]_vars

-----------------------------------------------------------------------------

Used(holes) == {holes[i] : i \in DOMAIN holes}

\* The bind values that the fragments built so far refer to.
UsedSoFar ==
    (IF mode = "render" THEN {} ELSE Used(fragment.holes))
      \cup UNION {Used(Holes(stack[i].done)) : i \in DOMAIN stack}

\* Between any two calls of the walk the placeholders in the SQL built so far
\* are numbered 1..n without a gap, n being the bind values collected: no
\* hook drops a fragment whose value is already in c.args (AddArg), and none
\* writes a placeholder for a value that is not there.
EveryPlaceholderBound == mode # "failed" => UsedSoFar = 1..Len(args)

\* docs/public-api-reference.md: Args "contains bind values in placeholder
\* order".  With "?" a database pairs them by position, so the nth placeholder
\* of the text must be the nth value bound; with "$n" each number must exist.
ArgsInPlaceholderOrder ==
    mode = "compiled" =>
        IF target.numbered THEN Used(fragment.holes) = DOMAIN args
        ELSE fragment.holes = [i \in DOMAIN args |-> i]
=============================================================================
