-------------------------------- MODULE Trees --------------------------------
(***************************************************************************)
(* What an accepted syntax tree promises a consumer, whichever parser      *)
(* built it: definitions on one tree, stated of the parsers' results in    *)
(* TextTrees and JsonTrees.  Each is a promise of one node, made of every  *)
(* node of the tree.                                                       *)
(***************************************************************************)
EXTENDS Geometry

CONSTANT
    TreeLevels  \* how many levels of a tree are looked at

ASSUME TreeLevelsAssumption == TreeLevels \in Nat

-----------------------------------------------------------------------------
(* The nodes of a tree, level by level from its root.                      *)

Children(n) == {n.args[i] : i \in DOMAIN n.args}

WithChildren(S) == S \cup UNION {Children(n) : n \in S}

Within(tree) ==
    LET within[k \in Nat] == IF k = 0 THEN {tree} ELSE WithChildren(within[k - 1])
    IN  within

Subtrees(tree) == Within(tree)[TreeLevels]

-----------------------------------------------------------------------------
(* The construct a node is belongs to an enabled conformance class, its    *)
(* name is registered, and with no property-property conformance the right *)
(* side of a predicate holds no property.                                  *)

EnabledNode(config, n) ==
    /\ n.kind = "Arithmetic" => config.arithmetic
    /\ n.kind \in {"Like", "Between", "In"} => config.advanced
    /\ n.kind = "Temporal" => config.temporal
    /\ n.kind = "ArrayPredicate" => config.arrays
    /\ n.kind = "Spatial" => SpatialEnabled(config.spatial, n.op)
    /\ n.kind = "Function" => n.op \in DOMAIN config.functions
    /\ n.kind = "Property" /\ config.restricted =>
         n.op \in DOMAIN config.properties /\ n.types = {config.properties[n.op]}
    /\ n.kind \in {"Comparison", "Like", "Between", "In"} /\ ~config.propertyProperty =>
         \A i \in 2..Len(n.args) : \A m \in Subtrees(n.args[i]) : m.kind # "Property"

EnabledTree(config, tree) == \A n \in Subtrees(tree) : EnabledNode(config, n)

-----------------------------------------------------------------------------
(* The sorts of value an operand can have when the filter is evaluated.    *)

Sort(type) ==
    CASE type \in NumericTypes -> "number"
      [] type \in InstantTypes \cup {"datetime"} -> "instant"
      [] type \in GeometryTypes -> "geometry"
      [] OTHER -> type

Sorts(n) == {Sort(t) : t \in n.types}

CanBe(n, sorts) == "any" \in Sorts(n) \/ Sorts(n) \cap sorts # {}

Meet(l, r) == "any" \in Sorts(l) \/ CanBe(r, Sorts(l))

\* A call declared with several return types is untyped to the comparison
\* rules and is left aside.
Choice(n) == n.kind = "Function" /\ Cardinality(n.types) > 1

\* A call of CASEI or ACCENTI is of the text, whatever a registry that
\* defines one itself says it returns.
IsCast(n) == n.kind = "Function" /\ n.op \in {"CASEI", "ACCENTI"}

IsPattern(n) == IsCast(n) \/ (n.kind = "Literal" /\ n.types = {"string"})

\* A predicate relates operands that can have values of one sort.
MeetingNode(n) ==
    LET all(sorts) == \A i \in DOMAIN n.args : CanBe(n.args[i], sorts)
    IN  /\ n.kind \in {"Comparison", "In"} =>
             \A i \in 2..Len(n.args) :
                Choice(n.args[1]) \/ Choice(n.args[i]) \/ Meet(n.args[1], n.args[i])
        /\ n.kind \in {"Between", "Arithmetic"} => all({"number"})
        /\ n.kind = "Like" =>
             /\ CanBe(n.args[1], {"string"}) \/ IsCast(n.args[1])
             /\ IsPattern(n.args[2])
        /\ n.kind = "Temporal" => all({"instant", "interval"})
        /\ n.kind = "ArrayPredicate" => all({"array"})
        /\ n.kind = "Spatial" => all({"geometry"})

MeetingOperands(tree) == \A n \in Subtrees(tree) : MeetingNode(n)

-----------------------------------------------------------------------------
(* The coordinates of a literal are on the globe, lines have two ends,     *)
(* rings are closed, a box has a least and a greatest corner, and a        *)
(* collection holds neither a box nor a collection.                        *)

OnGlobe(n) ==
    n.kind = "Coordinate" => Value(n.args[1]) \in -180..180 /\ Value(n.args[2]) \in -90..90

Values(n) == [i \in 1..Len(n.args) |-> Value(n.args[i])]

IsLineData(l) == Len(l.args) >= 2

IsRingData(r) == Len(r.args) >= 4 /\ Values(r.args[1]) = Values(r.args[Len(r.args)])

HasCorners(b) ==
    LET half == Len(b.args) \div 2
    IN  \A i \in 1..half : Value(b.args[i]) <= Value(b.args[half + i])

SoundGeometry(g) ==
    LET data == g.args[1]
    IN  g.kind = "Geometry" =>
            /\ \A n \in Subtrees(data) : OnGlobe(n)
            /\ g.op = "LineString" => IsLineData(data)
            /\ g.op = "MultiLineString" => \A l \in Children(data) : IsLineData(l)
            /\ g.op = "Polygon" => \A r \in Children(data) : IsRingData(r)
            /\ g.op = "MultiPolygon" => \A p \in Children(data) : \A r \in Children(p) : IsRingData(r)
            /\ g.op = "BBox" => HasCorners(data)
            /\ Len(g.args) = 2 => HasCorners(g.args[2])
            /\ g.op = "GeometryCollection" =>
                 \A c \in Children(data) : c.op \notin {"BBox", "GeometryCollection"}

SoundGeometries(tree) == \A n \in Subtrees(tree) : SoundGeometry(n)

-----------------------------------------------------------------------------
(* How deep a tree nests, counted as its reader counts: the text parser    *)
(* reads a chain of left-associated operators in a loop, the JSON parser   *)
(* reads operators, casts and the list of an in by functions that have no  *)
(* depth.  Neither gives a depth to the coordinates of a geometry.         *)

Inner(n) == IF n.kind = "Geometry" /\ n.op # "GeometryCollection" THEN {} ELSE DOMAIN n.args

Weight(reader, n, i) ==
    IF \/ reader = "text" /\ n.kind = "Arithmetic" /\ i = 1
       \/ reader = "json" /\ (n.kind \in {"Arithmetic", "List"} \/ n.op \in {"CASEI", "ACCENTI"})
    THEN 0 ELSE 1

\* The operands of a node of rank r, and a set of ranked nodes with theirs.
Ranked(reader, n, r) == {<<n.args[i], r + Weight(reader, n, i)>> : i \in Inner(n)}

WithRanked(reader, S) == S \cup UNION {Ranked(reader, p[1], p[2]) : p \in S}

\* The nodes of a tree with the rank of each; a root has rank 1.
Ranks(reader, tree) ==
    LET ranks[k \in Nat] == IF k = 0 THEN {<<tree, 1>>} ELSE WithRanked(reader, ranks[k - 1])
    IN  ranks

NestsWithin(reader, tree, d) == \A p \in Ranks(reader, tree)[TreeLevels] : p[2] <= d

-----------------------------------------------------------------------------
(* What holds of every operand a parser keeps while it reads the rest: the *)
(* three promises, and what the checks still to come ask of its root.      *)

\* The types the validators compare are those of the node's kind.
TypedNode(n) ==
    /\ n.kind = "Literal"    => \E t \in {"string", "number", "boolean"} : n.types = {t}
    /\ n.kind = "Property"   => \E t \in KnownPropertyTypes \cup {"any"} : n.types = {t}
    /\ n.kind = "Function"   => n.types # {} /\ n.types \subseteq KnownFunctionTypes
    /\ n.kind = "Arithmetic" => n.types = {"number"}
    /\ n.kind = "Instant"    => \E t \in InstantTypes : n.types = {t}
    /\ n.kind = "Interval"   => n.types = {"interval"}
    /\ n.kind = "Array"      => n.types = {"array"}
    /\ n.kind = "Geometry"   => n.types = {"geometry"}

\* nodeReferencesProperty finds every property of a tree, and nothing else.
RefsKnown(tree) ==
    /\ ~tree.refs => \A n \in Subtrees(tree) : n.kind # "Property"
    /\ tree.refs => tree.kind = "Property" \/ \E i \in DOMAIN tree.args : tree.args[i].refs

SoundTree(config, tree) ==
    /\ TypedNode(tree) /\ RefsKnown(tree)
    /\ \A n \in Subtrees(tree) : OnGlobe(n)
    /\ EnabledTree(config, tree)
    /\ MeetingOperands(tree)
    /\ SoundGeometries(tree)
=============================================================================
