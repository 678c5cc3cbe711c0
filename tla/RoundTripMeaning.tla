--------------------------- MODULE RoundTripMeaning --------------------------
(***************************************************************************)
(* What writing a filter and reading it again keeps.                       *)
(***************************************************************************)
EXTENDS RoundTrip

\* A tree without places: coordinates are compared by their value.
RECURSIVE Erased(_)
Erased(n) ==
    [kind |-> n.kind, types |-> n.types,
     op |-> IF n.types = {"number"} /\ n.op \in DOMAIN Numbers THEN FormatFloat(n) ELSE n.op,
     args |-> [i \in DOMAIN n.args |-> Erased(n.args[i])]]

\* A NOT of a predicate that has a flag for it, which is not set.
Folds(n) ==
    /\ n.kind = "Logical" /\ n.op = "NOT"
    /\ n.args[1].kind \in {"Like", "Between", "In", "IsNull"} /\ n.args[1].op = ""

\* A tree with these NOTs in their flags.  For IS NULL it is the same filter.
\* For LIKE, BETWEEN and IN it is another one: where the operand is NULL, NOT
\* selects the row and the flag does not (sql.go:401-411 and 442-499).
RECURSIVE Flagged(_)
Flagged(n) ==
    LET args == [i \in DOMAIN n.args |-> Flagged(n.args[i])]
    IN  IF Folds(n) THEN [args[1] EXCEPT !.op = "NOT"] ELSE [n EXCEPT !.args = args]

\* A tree without the bbox members of its geometries.
RECURSIVE Boxless(_)
Boxless(n) ==
    LET args == [i \in DOMAIN n.args |-> Boxless(n.args[i])]
    IN  [n EXCEPT !.args = IF n.kind = "Geometry" THEN <<args[1]>> ELSE args]

-----------------------------------------------------------------------------
(* What the languages cannot say.                                          *)

\* The text of n opens with a parenthesis.
RECURSIVE Opens(_)
Opens(n) ==
    \/ n.kind \in {"Arithmetic", "Array"}
    \/ n.kind = "Logical" /\ n.op # "NOT"
    \/ n.kind \in {"Comparison", "Like", "Between", "In"} /\ Opens(n.args[1])
    \/ n.kind = "IsNull" /\ \/ Opens(n.args[1])
                            \/ n.args[1].kind \notin ScalarKinds \cup {"Interval", "Geometry"}

\* An array element that opens so is read as an array of its own.
OpenElement(tree) ==
    \E n \in Subtrees(tree) :
        n.kind = "Array" /\ \E i \in DOMAIN n.args : n.args[i].kind # "Array" /\ Opens(n.args[i])

\* Only GeoJSON has an empty multi-geometry or polygon, only CQL2 JSON an
\* empty IN list.
EmptyList(tree) ==
    \E n \in Subtrees(tree) :
        \/ n.kind = "Geometry" /\ n.args[1].args = << >>
        \/ n.kind = "List" /\ n.args = << >>
        \/ n.kind = "In" /\ Len(n.args) = 1

BoxedGeometry(tree) == \E n \in Subtrees(tree) : n.kind = "Geometry" /\ Len(n.args) = 2

\* A call that CQL2 JSON reads as an operation: its name is reserved
\* everywhere, or only where an expression is read or is tried first.
OperatorCall(tree) ==
    LET calls     == {n \in Subtrees(tree) : n.kind = "Function" /\ n.op \notin {"CASEI", "ACCENTI"}}
        under(ks) == UNION {{n.args[i] : i \in DOMAIN n.args} : n \in {m \in Subtrees(tree) : m.kind \in ks}}
        asserted  == {tree} \cup under({"Logical"})
        tried     == {n \in under({"Function", "Array", "IsNull"}) :
                        \A i \in DOMAIN n.args : IsArrayOperand(n.args[i])}
    IN  \E n \in calls :
            \/ FunctionOp(n.op) \in ReservedJSONOps
            \/ n \in asserted /\ MiscasedPredicate(FunctionOp(n.op))
            \/ n \in asserted \cup tried /\ FunctionOp(n.op) = "a_containedby"

FoldableNot(tree) == \E n \in Subtrees(tree) : Folds(n)

SmallCollection(tree) ==
    \E n \in Subtrees(tree) :
        n.kind = "Geometry" /\ n.op = "GeometryCollection" /\ Len(n.args[1].args) < 2

Strings(tree) == {n.op : n \in {m \in Subtrees(tree) : m.kind = "Literal" /\ m.types = {"string"}}}

Sayable(l, tree) ==
    IF l = "text"
    THEN /\ ~RefusedAsText(tree) /\ ~OpenElement(tree) /\ ~EmptyList(tree)
         /\ \A text \in Strings(tree) : ReadsBack(text)
    ELSE ~OperatorCall(tree) /\ ~SmallCollection(tree)

\* The nesting of a tree, chains of operators included: their text is in as
\* many parentheses.
RECURSIVE Levels(_)
Levels(n) ==
    LET below == {0} \cup {Levels(n.args[i]) : i \in DOMAIN n.args}
    IN  1 + CHOOSE h \in below : \A k \in below : k <= h

\* JSON read again never meets the limit that the first reading kept to;
\* text does, as each level takes up to five calls to read.
WithinLimit(l, tree) == l = "json" \/ cfg.maxDepth > 5 * Levels(tree)

-----------------------------------------------------------------------------
(* Properties.                                                             *)

Reread == stage = "again" /\ Ended

\* A filter that is written and read again with the same parser is accepted
\* as the very same tree exactly if the language can say it and nothing in
\* it has two forms there: a bbox member is lost in text, and a NOT of a
\* predicate that has a flag comes back as the flag from JSON.  In text the
\* limit has to allow for the parentheses that are written.
RoundTripsExactly ==
    Reread /\ WithinLimit(lang, original) => (mode = "accepted" /\ Erased(node) = Erased(original)
                 <=> /\ Sayable(lang, original)
                     /\ lang = "text" => ~BoxedGeometry(original)
                     /\ lang = "json" => ~FoldableNot(original))

\* Trees for which the written form says something else.
Misread ==
    \/ lang = "text" /\ OpenElement(original)
    \/ lang = "json" /\ OperatorCall(original)

\* What is read again is the tree that was written, node for node, or is
\* refused: no operator binds differently, no name turns into a keyword and no
\* literal changes its type.  The exceptions are array elements that open with
\* a parenthesis and calls named like an operator (Misread), the bbox members
\* that text leaves out, and every NOT that JSON reads as a flag, which makes
\* another filter of NOT over a LIKE, BETWEEN or IN whose operand may be NULL.
OnlyNamedChanges ==
    Reread /\ mode = "accepted" /\ ~Misread =>
        Erased(node) = IF lang = "json" THEN Flagged(Erased(original)) ELSE Boxless(Erased(original))

\* The output is canonical: what was written and read is written alike.
CanonicalOutputIsStable ==
    Reread /\ mode = "accepted" /\ ~Misread =>
        IF lang = "text" THEN ToText(node) = tokens ELSE Json(node) = input

\* "Output is canonicalized for safe round-tripping.  It is structurally
\* equivalent to the original input" (docs/usage.md:62-64): what is written is
\* read as the same tree.
SafeRoundTrip ==
    Reread => mode = "accepted" /\ Erased(node) = Erased(original)
=============================================================================
