------------------------------ MODULE SqlMeaning -----------------------------
(***************************************************************************)
(* What the SQL that ToSQL returns selects, against what the filter means. *)
(* Eval is the database: a fragment, the bind values and a row give a      *)
(* truth value of SQL's three, or the value of a scalar.  Meaning is what  *)
(* the syntax tree says of a row, with two truth values and, for the       *)
(* temporal relations, with the sets of instants the operands cover.       *)
(*                                                                         *)
(* A scalar is a set of at most one number, {} being NULL: a value is its  *)
(* place in the order of its type.                                         *)
(***************************************************************************)
EXTENDS SqlSupport

CONSTANTS
    Rows,       \* the rows of the tables: functions from column names to values
    Numbers     \* the value that a number or a string stands for

ASSUME RowsAssumption ==
    \A row \in Rows : \A c \in DOMAIN row : /\ row[c] \subseteq Int
                                            /\ \A x, y \in row[c] : x = y

\* A bind value has its type with it: an instant is not also a number.
ASSUME NumbersAssumption ==
    /\ \A t \in DOMAIN Numbers : Numbers[t] \in Int
    /\ DOMAIN Numbers \cap DOMAIN Instants = {}

\* The syntax trees that are at most k levels deep.
TreesWithin ==
    LET within[k \in Nat] ==
          IF k = 0 THEN {}
          ELSE [kind : STRING, op : STRING, types : SUBSET STRING, args : Seq(within[k - 1]),
                src : Seq(Nat), refs : BOOLEAN]
    IN  within

Trees == TreesWithin[FilterLevels]

ASSUME TreesAssumption == Nodes \subseteq Trees

ComparisonSql == {"=", "<>", "<", ">", "<=", ">="}

Related(op, x, y) ==
    CASE op = "="  -> x = y
      [] op = "<>" -> x # y
      [] op = "<"  -> x < y
      [] op = ">"  -> x > y
      [] op = "<=" -> x <= y
      [] op = ">=" -> x >= y

Calculations == {"+", "-", "*"}

Calculated(op, a, b) ==
    {CASE op = "+" -> x + y [] op = "-" -> x - y [] op = "*" -> x * y : x \in a, y \in b}

TruthOf(P) == IF P THEN "true" ELSE "false"

-----------------------------------------------------------------------------
(* The database.                                                           *)

Constant(text) == IF text \in DOMAIN Instants THEN Instants[text].at ELSE Numbers[text]

Conjunction(truths) ==
    IF "false" \in truths THEN "false" ELSE IF "unknown" \in truths THEN "unknown" ELSE "true"

Disjunction(truths) ==
    IF "true" \in truths THEN "true" ELSE IF "unknown" \in truths THEN "unknown" ELSE "false"

Negation(truth) ==
    CASE truth = "true" -> "false" [] truth = "false" -> "true" [] OTHER -> "unknown"

Compared(op, a, b) ==
    IF a = {} \/ b = {} THEN "unknown" ELSE TruthOf(\E x \in a, y \in b : Related(op, x, y))

\* What a fragment gives whose parts give v.
Outcome(f, v, values, row) ==
    CASE f.sql = "column"              -> row[f.name]
      [] f.sql = "arg"                 -> {Constant(values[f.arg])}
      [] f.sql \in {"number", "instant"} -> v[1]
      [] f.sql \in Calculations        -> Calculated(f.sql, v[1], v[2])
      [] f.sql \in {"TRUE", "FALSE"}   -> TruthOf(f.sql = "TRUE")
      [] f.sql = "NOT"                 -> Negation(v[1])
      [] f.sql = "COALESCE"            -> IF v[1] = "unknown" THEN "false" ELSE v[1]
      [] f.sql = "AND"                 -> Conjunction({v[i] : i \in DOMAIN v})
      [] f.sql = "OR"                  -> Disjunction({v[i] : i \in DOMAIN v})
      [] f.sql \in ComparisonSql       -> Compared(f.sql, v[1], v[2])
      [] f.sql = "BETWEEN" ->
           Conjunction({Compared(">=", v[1], v[2]), Compared("<=", v[1], v[3])})
      [] f.sql = "IN"      -> Disjunction({Compared("=", v[1], v[i]) : i \in DOMAIN v \ {1}})
      [] f.sql = "IS NULL" -> TruthOf(v[1] = {})
      [] OTHER             -> {}

\* The templates, and the names and operators that stand in their place.
Texts ==
    {n.op : n \in Nodes} \cup
    {"", "column", "arg", "number", "instant", "NOT", "COALESCE", "AND", "OR", "LIKE", "BETWEEN",
     "IN", "IS NULL", "ROW", "ARRAY", "=", "<>", "<", ">", "<=", ">="}

\* The fragments that are at most k levels deep.
FragmentsWithin ==
    LET within[k \in Nat] ==
          IF k = 0 THEN {}
          ELSE [sql : Texts, name : Texts, parts : Seq(within[k - 1]), arg : Nat, holes : Seq(Nat)]
    IN  within

\* A template adds up to three levels to what it is filled with.
Fragments == FragmentsWithin[3 * FilterLevels]

Eval(sql, values, row) ==
    LET value[f \in Fragments] ==
          Outcome(f, [i \in DOMAIN f.parts |-> value[f.parts[i]]], values, row)
    IN  value[sql]

Selected(row) == Eval(fragment, args, row) = "true"

-----------------------------------------------------------------------------
(* The filter.                                                             *)

\* Instants x and y are in the set, and it has no other end.
First(x, S) == x \in S /\ \A y \in S : x <= y
Last(x, S)  == x \in S /\ \A y \in S : y <= x

\* The relation of two sets of instants.
Relation(op, A, B) ==
    LET Later(X, Y)  == \A x \in X, y \in Y : x > y
        Within(X, Y) == X \subseteq Y /\ X # Y
        Starts(X, Y) == Within(X, Y) /\ \E s \in X : First(s, Y)
        Ends(X, Y)   == Within(X, Y) /\ \E e \in X : Last(e, Y)
        Meets(X, Y)  == \E t \in X : Last(t, X) /\ First(t, Y)
        Overlaps(X, Y) == /\ \E s, t \in X \cap Y : s # t
                          /\ \E x \in X : \A y \in Y : x < y
                          /\ \E y \in Y : \A x \in X : x < y
    IN  CASE op = "T_AFTER"        -> Later(A, B)
          [] op = "T_BEFORE"       -> Later(B, A)
          [] op = "T_CONTAINS"     -> B \subseteq A
          [] op = "T_DURING"       -> A \subseteq B
          [] op = "T_DISJOINT"     -> A \cap B = {}
          [] op = "T_INTERSECTS"   -> A \cap B # {}
          [] op = "T_EQUALS"       -> A = B
          [] op = "T_STARTS"       -> Starts(A, B)
          [] op = "T_STARTEDBY"    -> Starts(B, A)
          [] op = "T_FINISHES"     -> Ends(A, B)
          [] op = "T_FINISHEDBY"   -> Ends(B, A)
          [] op = "T_MEETS"        -> Meets(A, B)
          [] op = "T_METBY"        -> Meets(B, A)
          [] op = "T_OVERLAPS"     -> Overlaps(A, B)
          [] op = "T_OVERLAPPEDBY" -> Overlaps(B, A)

\* A meaning is a scalar, an interval between two scalars, a condition, or
\* nothing that a row decides.
Scalar(v)      == [sort |-> "scalar", start |-> v, end |-> v, truth |-> "none"]
Interval(s, e) == [sort |-> "interval", start |-> s, end |-> e, truth |-> "none"]
Condition(P)   == [sort |-> "condition", start |-> {}, end |-> {}, truth |-> TruthOf(P)]
Nothing        == [sort |-> "nothing", start |-> {}, end |-> {}, truth |-> "none"]

\* The ends of an operand of a temporal relation are known and in order.
Proper(m)  == \E s \in m.start, e \in m.end : s <= e
Covered(m) == UNION {s..e : s \in m.start, e \in m.end}

\* Every operand has a meaning of one of these sorts.
Are(m, sorts) == \A i \in DOMAIN m : m[i].sort \in sorts

\* BETWEEN with its Not flag holds of a value known to lie beyond a bound,
\* the other flags of a predicate whose operands are all known.
Between(n, v, l, u) ==
    IF n.op = "NOT"
    THEN \E x \in v : (\E y \in l : x < y) \/ (\E y \in u : x > y)
    ELSE \E x \in v, y \in l, z \in u : y <= x /\ x <= z

Among(n, v, m) ==
    LET Equal(i) == \E x \in v, y \in m[i].start : x = y
        others   == DOMAIN m \ {1}
    IN  IF n.op = "NOT"
        THEN v # {} /\ \A i \in others : m[i].start # {} /\ ~Equal(i)
        ELSE \E i \in others : Equal(i)

\* What a node says of a row when its operands say m.
MeaningOf(n, m, row) ==
    LET Operands(k) == Len(n.args) = k /\ Are(m, {"scalar"})
        v(i)        == m[i].start
    IN  CASE n.kind = "Literal" /\ n.types = {"boolean"} /\ n.op \in {"TRUE", "FALSE"} ->
               Condition(n.op = "TRUE")
          [] n.kind = "Literal" /\ n.types \in {{"number"}, {"string"}} /\ n.op \in DOMAIN Numbers ->
               Scalar({Numbers[n.op]})
          [] n.kind = "Instant" /\ n.op \in DOMAIN Instants -> Scalar({Instants[n.op].at})
          [] n.kind = "Property" /\ n.op \in DOMAIN row     -> Scalar(row[n.op])
          [] n.kind = "Arithmetic" /\ n.op \in Calculations /\ Operands(2) ->
               Scalar(Calculated(n.op, v(1), v(2)))
          [] n.kind = "Interval" /\ Operands(2)   -> Interval(v(1), v(2))
          [] n.kind = "Comparison" /\ n.op \in ComparisonSql /\ Operands(2) ->
               Condition(\E x \in v(1), y \in v(2) : Related(n.op, x, y))
          [] n.kind = "Between" /\ Operands(3)    -> Condition(Between(n, v(1), v(2), v(3)))
          [] n.kind = "In" /\ Are(m, {"scalar"})  -> Condition(Among(n, v(1), m))
          [] n.kind = "IsNull" /\ Operands(1)     -> Condition((n.op = "NOT") # (v(1) = {}))
          [] n.kind = "Temporal" /\ n.op \in TemporalOps /\ Are(m, {"scalar", "interval"})
               /\ Proper(m[1]) /\ Proper(m[2]) ->
               Condition(Relation(n.op, Covered(m[1]), Covered(m[2])))
          [] n.kind = "Logical" /\ n.op = "NOT" /\ Are(m, {"condition"}) ->
               Condition(m[1].truth = "false")
          [] n.kind = "Logical" /\ n.op = "AND" /\ Are(m, {"condition"}) ->
               Condition(\A i \in DOMAIN m : m[i].truth = "true")
          [] n.kind = "Logical" /\ n.op = "OR" /\ Are(m, {"condition"}) ->
               Condition(\E i \in DOMAIN m : m[i].truth = "true")
          [] OTHER -> Nothing

Meaning(tree, row) ==
    LET meaning[n \in Trees] ==
          MeaningOf(n, [i \in DOMAIN n.args |-> meaning[n.args[i]]], row)
    IN  meaning[tree]

\* The row decides whether the filter holds, and it does.
Decided(n, row) == Meaning(n, row).sort = "condition"
Holds(n, row)   == Meaning(n, row).truth = "true"

-----------------------------------------------------------------------------
(* Properties.                                                             *)

\* The WHERE clause selects exactly the rows the filter describes, rows with
\* missing values included: NOT is the complement (renderLogical's COALESCE)
\* however deep it is nested under AND, OR and another NOT, every bind value
\* reaches the operand it was written for (renderComparison, renderBetween,
\* renderIn, renderIsNull, AddArg), and fifteen comparisons of interval ends
\* are the fifteen relations between the sets of instants
\* (postGISDialect.RenderTemporalPredicate).
SelectsTheFilter ==
    mode = "compiled" =>
        \A row \in Rows : Decided(filter, row) => (Selected(row) <=> Holds(filter, row))

\* A row with some of its values missing.
Obscured(row) ==
    {r \in Rows : DOMAIN r = DOMAIN row /\ \A c \in DOMAIN row : r[c] \in {row[c], {}}}

\* Where an end of an interval is missing, RenderTemporalPredicate selects a
\* row only if the relation holds whatever the end turns out to be.
RelatesTheIntervals ==
    mode = "compiled" /\ filter.kind = "Temporal" =>
        \A row \in Rows : Decided(filter, row) /\ ~Holds(filter, row) =>
            \A r \in Obscured(row) : ~Selected(r)
=============================================================================
