------------------------------ MODULE JsonNames ------------------------------
(***************************************************************************)
(* The names of operations in CQL2 JSON, as the parser tells them apart    *)
(* and the serializer spells them.                                         *)
(***************************************************************************)
EXTENDS TypeRules

\* reservedJSONOps and the predicate tables: JSON spelling |-> the name the
\* tree uses, which is the text language's.
TreeName ==
    [and |-> "AND", or |-> "OR", not |-> "NOT", like |-> "LIKE",
     between |-> "BETWEEN", in |-> "IN", isNull |-> "ISNULL", casei |-> "CASEI",
     accenti |-> "ACCENTI", div |-> "DIV",
     s_contains |-> "S_CONTAINS", s_crosses |-> "S_CROSSES", s_disjoint |-> "S_DISJOINT",
     s_equals |-> "S_EQUALS", s_intersects |-> "S_INTERSECTS", s_overlaps |-> "S_OVERLAPS",
     s_touches |-> "S_TOUCHES", s_within |-> "S_WITHIN",
     t_after |-> "T_AFTER", t_before |-> "T_BEFORE", t_contains |-> "T_CONTAINS",
     t_disjoint |-> "T_DISJOINT", t_during |-> "T_DURING", t_equals |-> "T_EQUALS",
     t_finishedBy |-> "T_FINISHEDBY", t_finishes |-> "T_FINISHES",
     t_intersects |-> "T_INTERSECTS", t_meets |-> "T_MEETS", t_metBy |-> "T_METBY",
     t_overlappedBy |-> "T_OVERLAPPEDBY", t_overlaps |-> "T_OVERLAPS",
     t_startedBy |-> "T_STARTEDBY", t_starts |-> "T_STARTS",
     a_containedBy |-> "A_CONTAINEDBY", a_contains |-> "A_CONTAINS",
     a_equals |-> "A_EQUALS", a_overlaps |-> "A_OVERLAPS"]

ArithmeticOps == {"+", "-", "*", "/", "^", "%", "div"}

ReservedJSONOps == DOMAIN TreeName \cup ComparisonOps \cup ArithmeticOps

\* Spellings that name a standard function only after strings.ToLower.
OtherSpellings ==
    [a_containedby |-> "A_CONTAINEDBY", t_finishedby |-> "T_FINISHEDBY",
     t_metby |-> "T_METBY", t_overlappedby |-> "T_OVERLAPPEDBY", t_startedby |-> "T_STARTEDBY"]

\* normalizeFunctionName, and the operator a reserved name stands for.
Folded(name) ==
    IF name \in DOMAIN TreeName THEN TreeName[name]
    ELSE IF name \in DOMAIN OtherSpellings THEN OtherSpellings[name]
    ELSE name

\* jsonArrayPredicateOps lists a_containedby as well.
IsPredicateOp(op) ==
    \/ op \in DOMAIN TreeName /\ TreeName[op] \in SpatialOps \cup TemporalOps \cup ArrayOps
    \/ op = "a_containedby"

\* isNonJSONCasedSpatialOrTemporalPredicateOp
MiscasedPredicate(op) ==
    op \notin DOMAIN TreeName /\ Folded(op) \in SpatialOps \cup TemporalOps

\* The spelling of an operator of the tree: jsonTemporalOp, jsonArrayOp and
\* the constants of api/ast.go.
SpellingOf(op) == CHOOSE name \in DOMAIN TreeName : TreeName[name] = op

JsonOp(op) == IF op \in {TreeName[name] : name \in DOMAIN TreeName} THEN SpellingOf(op) ELSE op

\* A function's name is lower case throughout, also where the operator of
\* that name is spelled otherwise.
FunctionOp(name) ==
    IF \E other \in DOMAIN OtherSpellings : OtherSpellings[other] = name
    THEN CHOOSE other \in DOMAIN OtherSpellings : OtherSpellings[other] = name
    ELSE JsonOp(name)
=============================================================================
