----------------------------- MODULE TextGeometry ----------------------------
(***************************************************************************)
(* The text side of internal/parser/spatial.go: the data between the       *)
(* parentheses of a geometry literal.  The procedures that read it call    *)
(* back into nothing, so each is an operator on a span of the tokens       *)
(* <<a, b>>; where the code reads items until no comma follows, the items  *)
(* are the pieces of the span between its commas.                          *)
(*                                                                         *)
(* Of the bytes between two tokens only one fact is ever used: raw is      *)
(* "glued" on an operator that the next token follows at once.             *)
(***************************************************************************)
EXTENDS Geometry

ASSUME NegationAssumption ==
    \A s \in DOMAIN Numbers : \E t \in DOMAIN Numbers : Numbers[t] = -Numbers[s]

GeometryTypeOf ==
    [POINT |-> "Point", LINESTRING |-> "LineString", POLYGON |-> "Polygon",
     MULTIPOINT |-> "MultiPoint", MULTILINESTRING |-> "MultiLineString",
     MULTIPOLYGON |-> "MultiPolygon", GEOMETRYCOLLECTION |-> "GeometryCollection",
     BBOX |-> "BBox"]

GeometryKeywords == DOMAIN GeometryTypeOf

-----------------------------------------------------------------------------
(* Spans.                                                                  *)

All(ts, kind, a, b) == {p \in a..b : ts[p].kind = kind}

\* How many parentheses opened from a on are open before p.
Nesting(ts, a, p) ==
    Cardinality(All(ts, "LParen", a, p - 1)) - Cardinality(All(ts, "RParen", a, p - 1))

\* The parenthesis at a is closed by the one at b.
Encloses(ts, a, b) ==
    /\ a < b /\ ts[a].kind = "LParen" /\ ts[b].kind = "RParen"
    /\ \A p \in a + 1 .. b : Nesting(ts, a, p) >= 1
    /\ Nesting(ts, a, b) = 1

Nth(S, k) == CHOOSE x \in S : Cardinality({y \in S : y < x}) = k - 1

Pieces(ts, s) ==
    LET commas == {p \in All(ts, "Comma", s[1], s[2]) : Nesting(ts, s[1], p) = 0}
        ends   == commas \cup {s[2] + 1}
    IN  [k \in 1..Cardinality(ends) |->
            <<IF k = 1 THEN s[1] ELSE Nth(ends, k - 1) + 1, Nth(ends, k) - 1>>]

Grouped(ts, s) == Encloses(ts, s[1], s[2])
Inside(s)      == <<s[1] + 1, s[2] - 1>>

-----------------------------------------------------------------------------
(* parseTextNumber, parseTextCoordinate and the lists of them.             *)

\* peekSignedTextNumber: a sign that touches a number.
SignOfNumber(ts, p) ==
    /\ ts[p].kind = "Operator" /\ ts[p].text \in {"+", "-"} /\ ts[p].raw = "glued"
    /\ ts[p + 1].kind = "Number"

\* A sign cannot precede a number that was lexed with its own.
AreNumbers(ts, s) ==
    \A p \in s[1]..s[2] :
        \/ p < s[2] /\ SignOfNumber(ts, p)
        \/ /\ ts[p].kind = "Number" /\ ts[p].text \in DOMAIN Numbers
           /\ p > s[1] /\ SignOfNumber(ts, p - 1) => Numbers[ts[p].text] >= 0

Negative(text) == CHOOSE t \in DOMAIN Numbers : Numbers[t] = -Numbers[text]

NumbersIn(ts, s) ==
    LET at == All(ts, "Number", s[1], s[2])
        text(p) == IF p > s[1] /\ ts[p - 1].text = "-" THEN Negative(ts[p].text) ELSE ts[p].text
    IN  [k \in 1..Cardinality(at) |-> NumberNode(text(Nth(at, k)))]

IsCoordinate(ts, s) ==
    /\ AreNumbers(ts, s)
    /\ Len(NumbersIn(ts, s)) \in {2, 3}
    /\ ValidCoordinate(Coordinate(NumbersIn(ts, s)))

EachPiece(ts, s, Is(_)) == \A k \in DOMAIN Pieces(ts, s) : Is(Pieces(ts, s)[k])

Mapped(ts, s, Read(_)) == List([k \in DOMAIN Pieces(ts, s) |-> Read(Pieces(ts, s)[k])])

\* parseTextCoordinateList
IsLine(ts, s, min) ==
    LET coordinate(piece) == IsCoordinate(ts, piece)
    IN  Len(Pieces(ts, s)) >= min /\ EachPiece(ts, s, coordinate)

Line(ts, s) ==
    LET coordinate(piece) == Coordinate(NumbersIn(ts, piece)) IN Mapped(ts, s, coordinate)

IsLines(ts, s, min) ==
    LET line(piece) == Grouped(ts, piece) /\ IsLine(ts, Inside(piece), min)
    IN  EachPiece(ts, s, line)

Lines(ts, s) ==
    LET line(piece) == Line(ts, Inside(piece)) IN Mapped(ts, s, line)

\* parseTextRingList
IsRings(ts, s) ==
    LET ring(piece) == ValidRing(Line(ts, Inside(piece)))
    IN  IsLines(ts, s, 4) /\ EachPiece(ts, s, ring)

-----------------------------------------------------------------------------
(* finishTextBBox to finishTextMultiPolygon.                               *)

IsTextData(ts, type, s) ==
    LET number(piece)  == AreNumbers(ts, piece) /\ Len(NumbersIn(ts, piece)) = 1
        point(piece)   == Grouped(ts, piece) /\ IsCoordinate(ts, Inside(piece))
        polygon(piece) == Grouped(ts, piece) /\ IsRings(ts, Inside(piece))
    IN  CASE type = "Point"           -> IsCoordinate(ts, s)
          [] type = "LineString"      -> IsLine(ts, s, 2)
          [] type = "Polygon"         -> IsRings(ts, s)
          [] type = "MultiPoint"      -> IsLine(ts, s, 1) \/ EachPiece(ts, s, point)
          [] type = "MultiLineString" -> IsLines(ts, s, 2)
          [] type = "MultiPolygon"    -> EachPiece(ts, s, polygon)
          [] type = "BBox"            -> EachPiece(ts, s, number) /\ ValidBBox(NumbersIn(ts, s))

TextData(ts, type, s) ==
    LET coordinate(span) == Coordinate(NumbersIn(ts, span))
        point(piece)   == coordinate(IF Grouped(ts, piece) THEN Inside(piece) ELSE piece)
        polygon(piece) == Lines(ts, Inside(piece))
    IN  CASE type = "BBox" -> List(NumbersIn(ts, s))
          [] type = "Point" -> List(<<coordinate(s)>>)
          [] type = "LineString" -> Line(ts, s)
          [] type = "MultiPoint" -> Mapped(ts, s, point)
          [] type \in {"Polygon", "MultiLineString"} -> Lines(ts, s)
          [] type = "MultiPolygon" -> Mapped(ts, s, polygon)
=============================================================================
