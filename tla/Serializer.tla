------------------------------ MODULE Serializer -----------------------------
(***************************************************************************)
(* internal/serializer/serializer.go: what ToText and ToJSON write for a   *)
(* tree.  Text is the sequence of tokens its characters lex to - the code  *)
(* puts a space wherever two of them would run together - and JSON a value *)
(* of JsonValues.                                                          *)
(***************************************************************************)
EXTENDS Geometry, JsonNames, Trees, Lexing

LOCAL INSTANCE SequencesExt

CONSTANT
    Spelling    \* the characters of the strings in which they matter

-----------------------------------------------------------------------------
(* Tokens.                                                                 *)

Token(kind, text, raw) == [kind |-> kind, text |-> text, raw |-> raw]

Keyword(word)  == <<Token("Keyword", word, word)>>
String(text)   == <<Token("String", text, "")>>
Operator(op)   == <<Token("Operator", op, "")>>
Comma          == <<Token("Comma", ",", "")>>
InParens(text) == <<Token("LParen", "(", "")>> \o text \o <<Token("RParen", ")", "")>>

\* strings.Join of what Write makes of each item.
Joined(items, Write(_), separator) ==
    FlattenSeq([i \in DOMAIN items |->
                    IF i = 1 THEN Write(items[1]) ELSE separator \o Write(items[i])])

Listed(items, Write(_)) == InParens(Joined(items, Write, Comma))

-----------------------------------------------------------------------------
(* Names and numbers.                                                      *)

\* Names with characters an identifier of the text language cannot have.
UnwritableNames == {"two words"}

Constructors == {"DATE", "TIMESTAMP", "INTERVAL"}
GeometryWords == {"POINT", "LINESTRING", "POLYGON", "MULTIPOINT", "MULTILINESTRING",
                  "MULTIPOLYGON", "GEOMETRYCOLLECTION", "BBOX"}

ReservedTextKeywords ==
    {"AND", "OR", "NOT", "LIKE", "BETWEEN", "IN", "IS", "NULL", "TRUE", "FALSE",
     "CASEI", "ACCENTI", "DIV"} \cup Constructors \cup GeometryWords
      \cup SpatialOps \cup TemporalOps \cup ArrayOps

\* A name is reserved in any case; these are the other spellings in use.
Capitals == [date |-> "DATE", timestamp |-> "TIMESTAMP", interval |-> "INTERVAL"]

\* Mutation of QuoteIdentifier: only capitals are taken for a keyword.
QuoteCapitals(name) ==
    IF name \in ReservedTextKeywords THEN <<Token("QuotedIdentifier", name, "")>>
    ELSE IF name \in DOMAIN Capitals THEN <<Token("Keyword", Capitals[name], name)>>
    ELSE <<Token("Identifier", name, "")>>

QuoteIdentifier(name) ==
    LET reserved == name \in ReservedTextKeywords \cup DOMAIN Capitals
    IN  <<Token(IF reserved THEN "QuotedIdentifier" ELSE "Identifier", name, "")>>

TextFunctionName(name) ==
    IF name \in {"CASEI", "ACCENTI"} THEN Keyword(name) ELSE QuoteIdentifier(name)

\* formatFloat: one text for each value.
FormatFloat(number) == CHOOSE text \in DOMAIN Numbers : Numbers[text] = Value(number)

\* A number that follows another one: the lexer takes its sign for an
\* operator.
Following(number) ==
    IF Value(number) >= 0 THEN <<Token("Number", FormatFloat(number), "")>>
    ELSE <<Token("Operator", "-", "glued"),
           Token("Number", CHOOSE text \in DOMAIN Numbers : Numbers[text] = -Value(number), "")>>

TextCoordinate(c) ==
    <<Token("Number", FormatFloat(c.args[1]), "")>>
      \o FlattenSeq([i \in 1 .. Len(c.args) - 1 |-> Following(c.args[i + 1])])

-----------------------------------------------------------------------------
(* ToText.                                                                 *)

RECURSIVE Text(_), TextData(_)

Negation(n, words) == IF n.op = "NOT" THEN Keyword("NOT") \o words ELSE words

ArithmeticSign(n) == IF n.op = "DIV" THEN Keyword("DIV") ELSE Operator(n.op)

\* Mutation of TextArithmetic: no parentheses where no operand needs any.
InnermostBare(n) ==
    LET text == Text(n.args[1]) \o ArithmeticSign(n) \o Text(n.args[2])
    IN  IF \E i \in 1..2 : n.args[i].kind = "Arithmetic" THEN InParens(text) ELSE text

TextArithmetic(n) == InParens(Text(n.args[1]) \o ArithmeticSign(n) \o Text(n.args[2]))

TextLogical(n) ==
    LET argument(arg) == InParens(Text(arg))
    IN  IF n.op = "NOT" THEN Keyword("NOT") \o argument(n.args[1])
        ELSE Joined(n.args, argument, Keyword(n.op))

TextIsNullOperand(n) ==
    IF n.kind \in ScalarKinds \cup {"Array", "Interval", "Geometry"} THEN Text(n)
    ELSE InParens(Text(n))

TextEndpoint(n) == IF n.kind \in {"Unbounded", "Instant"} THEN String(n.op) ELSE Text(n)

TextLiteral(n) ==
    CASE n.types = {"string"} -> String(n.op)
      [] n.types = {"number"} -> <<Token("Number", n.op, "")>>
      [] OTHER -> Keyword(n.op)

TextOf(type) ==
    [Point |-> "POINT", LineString |-> "LINESTRING", Polygon |-> "POLYGON",
     MultiPoint |-> "MULTIPOINT", MultiLineString |-> "MULTILINESTRING",
     MultiPolygon |-> "MULTIPOLYGON", GeometryCollection |-> "GEOMETRYCOLLECTION",
     BBox |-> "BBOX"][type]

\* Coordinates, rings and members; a list in a list is in parentheses.
TextData(d) ==
    LET item(i) == IF i.kind = "List" THEN InParens(TextData(i)) ELSE TextData(i)
    IN  CASE d.kind = "List"       -> Joined(d.args, item, Comma)
          [] d.kind = "Coordinate" -> TextCoordinate(d)
          [] d.kind = "Literal"    -> <<Token("Number", FormatFloat(d), "")>>
          [] OTHER                 -> Text(d)

\* The bbox member of a GeoJSON object has no place in text.
TextGeometry(n) == Keyword(TextOf(n.op)) \o InParens(TextData(n.args[1]))

Text(n) ==
    CASE n.kind = "Logical"    -> TextLogical(n)
      [] n.kind = "Comparison" -> Text(n.args[1]) \o Operator(n.op) \o Text(n.args[2])
      [] n.kind = "Like"       -> Text(n.args[1]) \o Negation(n, Keyword("LIKE")) \o Text(n.args[2])
      [] n.kind = "Between"    -> Text(n.args[1]) \o Negation(n, Keyword("BETWEEN")) \o Text(n.args[2])
                                    \o Keyword("AND") \o Text(n.args[3])
      [] n.kind = "In"         -> Text(n.args[1]) \o Negation(n, Keyword("IN")) \o Listed(Tail(n.args), Text)
      [] n.kind = "IsNull"     -> TextIsNullOperand(n.args[1]) \o Keyword("IS") \o Negation(n, Keyword("NULL"))
      [] n.kind \in {"Spatial", "Temporal", "ArrayPredicate"} -> Keyword(n.op) \o Listed(n.args, Text)
      [] n.kind = "Property"   -> QuoteIdentifier(n.op)
      [] n.kind = "Literal"    -> TextLiteral(n)
      [] n.kind = "Function"   -> TextFunctionName(n.op) \o Listed(n.args, Text)
      [] n.kind = "Arithmetic" -> TextArithmetic(n)
      [] n.kind = "Instant"    -> Keyword(IF n.types = {"date"} THEN "DATE" ELSE "TIMESTAMP")
                                    \o InParens(String(n.op))
      [] n.kind = "Interval"   -> Keyword("INTERVAL") \o Listed(n.args, TextEndpoint)
      [] n.kind = "Array"      -> Listed(n.args, Text)
      [] n.kind = "Geometry"   -> TextGeometry(n)

\* The errors of ToText an accepted tree can meet: a name that cannot be
\* written, and a call with an array of one element, which would be read as
\* a parenthesised expression.
RefusedAsText(tree) ==
    \E n \in Subtrees(tree) :
        \/ n.kind \in {"Property", "Function"} /\ n.op \in UnwritableNames
        \/ n.kind = "Function" /\ \E i \in DOMAIN n.args : n.args[i].kind = "Array" /\ Len(n.args[i].args) = 1

\* quoteString and the lexer's reading of what it writes.
ReadsBack(text) ==
    text \in DOMAIN Spelling =>
        LET quoted == QuoteString(Spelling[text])
        IN  ReadString(quoted, 1) = [value |-> Spelling[text], end |-> Len(quoted)]

ToText(tree) == Text(tree) \o <<Token("EOF", "", "")>>

-----------------------------------------------------------------------------
(* ToJSON, which refuses no accepted tree.                                 *)

RECURSIVE Json(_), JsonDataOf(_)

JsonItems(items, Write(_)) == [i \in DOMAIN items |-> Write(items[i])]

\* Mutation of JsonNegated: the flag is lost.
JsonUnnegated(n, value) == value

JsonNegated(n, value) == IF n.op = "NOT" THEN JsonCall("not", <<value>>) ELSE value

JsonEndpoint(n) == IF n.kind \in {"Unbounded", "Instant"} THEN JsonString(n.op) ELSE Json(n)

JsonLiteral(n) ==
    CASE n.types = {"string"} -> JsonString(n.op)
      [] n.types = {"number"} -> JsonNum(n.op)
      [] OTHER -> JsonBool(n.op)

JsonDataOf(d) ==
    CASE d.kind = "Literal"  -> JsonNum(FormatFloat(d))
      [] d.kind = "Geometry" -> Json(d)
      [] OTHER               -> JsonArray(JsonItems(d.args, JsonDataOf))

JsonGeometry(n) ==
    LET data == IF n.op = "Point" THEN n.args[1].args[1] ELSE n.args[1]
        key  == CASE n.op = "BBox" -> "bbox"
                  [] n.op = "GeometryCollection" -> "geometries"
                  [] OTHER -> "coordinates"
        keys == {key} \cup (IF n.op # "BBox" THEN {"type"} ELSE {})
                      \cup (IF Len(n.args) = 2 THEN {"bbox"} ELSE {})
    IN  JsonObject([k \in keys |-> CASE k = "type" -> JsonString(n.op)
                                     [] k = key    -> JsonDataOf(data)
                                     [] OTHER      -> JsonDataOf(n.args[2])])

Json(n) ==
    LET all == JsonItems(n.args, Json)
    IN  CASE n.kind \in {"Logical", "Comparison", "Arithmetic",
                         "Spatial", "Temporal", "ArrayPredicate"} -> JsonCall(JsonOp(n.op), all)
          [] n.kind = "Like"     -> JsonNegated(n, JsonCall("like", all))
          [] n.kind = "Between"  -> JsonNegated(n, JsonCall("between", all))
          [] n.kind = "IsNull"   -> JsonNegated(n, JsonCall("isNull", all))
          [] n.kind = "In"       -> JsonNegated(n, JsonCall("in", <<all[1], JsonArray(Tail(all))>>))
          [] n.kind = "Property" -> JsonObject([property |-> JsonString(n.op)])
          [] n.kind = "Literal"  -> JsonLiteral(n)
          [] n.kind = "Function" -> JsonCall(FunctionOp(n.op), all)
          [] n.kind = "Instant"  -> JsonObject([k \in n.types |-> JsonString(n.op)])
          [] n.kind = "Interval" -> JsonObject([interval |-> JsonArray(JsonItems(n.args, JsonEndpoint))])
          [] n.kind = "Array"    -> JsonArray(all)
          [] n.kind = "Geometry" -> JsonGeometry(n)
=============================================================================
