------------------------------- MODULE Geometry ------------------------------
(***************************************************************************)
(* Geometry literals (api/spatial.go) and their validation, and the GeoJSON *)
(* side of internal/parser/spatial.go: bounding boxes and coordinates are  *)
(* read by constant-level operators, since they call back into nothing.    *)
(*                                                                         *)
(* A literal is a node of kind "Geometry" whose op is the GeoJSON type.    *)
(* Its first argument is the list of its data - numbers for a BBOX,        *)
(* coordinates, lists of them, or the members of a collection - and a      *)
(* second one holds the bbox member a GeoJSON object may carry.            *)
(***************************************************************************)
EXTENDS TypeRules, JsonValues

CONSTANT
    Numbers     \* the number texts strconv.ParseFloat accepts: text |-> value

ASSUME NumbersAssumption ==
    \A s \in DOMAIN Numbers : Numbers[s] \in Int

-----------------------------------------------------------------------------
(* Data nodes.                                                             *)

NumberNode(text) == Node("Literal", text, {"number"}, << >>, << >>)
List(items)      == Node("List", "", {}, items, << >>)
Coordinate(ns)   == Node("Coordinate", "", {}, ns, << >>)

GeometryLiteral(type, data, bbox, src) ==
    Node("Geometry", type, {"geometry"}, <<data>> \o bbox, src)

Value(number) == Numbers[number.op]

\* api.Coordinate: an absent third number is the zero of the struct.
SameCoordinate(c, d) ==
    /\ \A i \in 1..2 : Value(c.args[i]) = Value(d.args[i])
    /\ Len(c.args) = Len(d.args)
    /\ Len(c.args) = 3 => Value(c.args[3]) = Value(d.args[3])

-----------------------------------------------------------------------------
(* validateCoordinate, validateLinearRing, validateBBox and the cases of   *)
(* validateGeometryLiteral.                                                *)

InRange(x, y) == Value(x) \in -180..180 /\ Value(y) \in -90..90

ValidCoordinate(c) == InRange(c.args[1], c.args[2])

\* Mutation of ValidRing: a ring need not end where it starts.
ValidLine(line) == Len(line.args) >= 4 /\ \A i \in DOMAIN line.args : ValidCoordinate(line.args[i])

ValidRing(ring) ==
    LET n == Len(ring.args)
    IN  /\ n >= 4
        /\ \A i \in 1..n : ValidCoordinate(ring.args[i])
        /\ SameCoordinate(ring.args[1], ring.args[n])

ValidBBox(ns) ==
    /\ Len(ns) \in {4, 6}
    /\ LET half == Len(ns) \div 2
       IN  /\ InRange(ns[1], ns[2]) /\ InRange(ns[half + 1], ns[half + 2])
           /\ \A i \in 1..half : Value(ns[i]) <= Value(ns[half + i])

\* What the literal's type asks of its data; source is the language, and
\* only GeoJSON allows an empty multi-geometry or polygon.
ValidData(type, data, source) ==
    LET items == data.args
        all(P(_)) == \A i \in DOMAIN items : P(items[i])
        line(l) == Len(l.args) >= 2 /\ \A i \in DOMAIN l.args : ValidCoordinate(l.args[i])
        polygon(p) == p.args # << >> /\ \A i \in DOMAIN p.args : ValidRing(p.args[i])
    IN  /\ source = "text" => items # << >>
        /\ CASE type = "BBox"            -> ValidBBox(items)
             [] type = "Point"           -> all(ValidCoordinate)
             [] type = "MultiPoint"      -> all(ValidCoordinate)
             [] type = "LineString"      -> line(data)
             [] type = "Polygon"         -> all(ValidRing)
             [] type = "MultiLineString" -> all(line)
             [] type = "MultiPolygon"    -> all(polygon)

\* validateGeometryCollectionChild and the collection's own minimum.
ValidCollection(children, source) ==
    /\ Len(children) >= IF source = "json" THEN 2 ELSE 1
    /\ \A i \in DOMAIN children : children[i].op \notin {"BBox", "GeometryCollection"}

-----------------------------------------------------------------------------
(* Reading GeoJSON: parseJSONNumber, parseJSONCoordinate(Array), ...       *)

JsonNumber(v) ==
    v.t = "number" /\ v.text \notin UnrepresentableNumbers /\ v.text \in DOMAIN Numbers

NumberNodes(items) == [i \in DOMAIN items |-> NumberNode(items[i].text)]

JsonCoordinate(v) == Coordinate(NumberNodes(v.items))
JsonLine(v)       == List([i \in DOMAIN v.items |-> JsonCoordinate(v.items[i])])
JsonLines(v)      == List([i \in DOMAIN v.items |-> JsonLine(v.items[i])])
JsonPolygons(v)   == List([i \in DOMAIN v.items |-> JsonLines(v.items[i])])

IsJsonCoordinate(v) ==
    /\ v.t = "array" /\ Len(v.items) \in {2, 3}
    /\ \A i \in DOMAIN v.items : JsonNumber(v.items[i])
    /\ ValidCoordinate(JsonCoordinate(v))

IsJsonLine(v, min) ==
    /\ v.t = "array" /\ Len(v.items) >= min
    /\ \A i \in DOMAIN v.items : IsJsonCoordinate(v.items[i])

IsJsonPolygon(v) ==
    /\ v.t = "array"
    /\ \A i \in DOMAIN v.items : IsJsonLine(v.items[i], 4) /\ ValidRing(JsonLine(v.items[i]))

IsJsonBBox(v) ==
    /\ v.t = "array"
    /\ \A i \in DOMAIN v.items : JsonNumber(v.items[i])
    /\ ValidBBox(NumberNodes(v.items))

IsJsonData(type, v) ==
    CASE type = "Point"           -> IsJsonCoordinate(v)
      [] type = "MultiPoint"      -> IsJsonLine(v, 0)
      [] type = "LineString"      -> IsJsonLine(v, 2)
      [] type = "Polygon"         -> IsJsonPolygon(v)
      [] type = "MultiLineString" -> v.t = "array" /\ \A i \in DOMAIN v.items : IsJsonLine(v.items[i], 2)
      [] type = "MultiPolygon"    -> v.t = "array" /\ \A i \in DOMAIN v.items : IsJsonPolygon(v.items[i])
      [] OTHER -> FALSE

JsonData(type, v) ==
    CASE type = "Point" -> List(<<JsonCoordinate(v)>>)
      [] type \in {"MultiPoint", "LineString"} -> JsonLine(v)
      [] type \in {"Polygon", "MultiLineString"} -> JsonLines(v)
      [] type = "MultiPolygon" -> JsonPolygons(v)

\* The bbox member of a GeoJSON object, if it has one.
JsonBBox(v) ==
    IF Has(v, "bbox") THEN <<List(NumberNodes(v.fields["bbox"].items))>> ELSE << >>

\* parseJSONGeometryLiteral on the types that hold no other geometry.
IsJsonBox(v) == Has(v, "bbox") /\ ~Has(v, "type")

IsGeoJson(v) == ~Has(v, "op") /\ Has(v, "type") /\ v.fields["type"].t = "string"

JsonType(v) == v.fields["type"].text

ValidJsonBox(v) == IsJsonBBox(v.fields["bbox"])

ValidJsonGeometry(v) ==
    /\ Has(v, "bbox") => IsJsonBBox(v.fields["bbox"])
    /\ Has(v, "coordinates") /\ IsJsonData(JsonType(v), v.fields["coordinates"])
    /\ ValidData(JsonType(v), JsonData(JsonType(v), v.fields["coordinates"]), "json")
=============================================================================
