-------------------------------- MODULE Lexing -------------------------------
(***************************************************************************)
(* How characters make tokens (text_lexer.go), and how the serializer      *)
(* writes a string so that it is read again (quoteString).  A text is a    *)
(* sequence of one-character strings.                                      *)
(***************************************************************************)
EXTENDS Integers, Sequences, FiniteSets

Digits  == {"0", "1"}
Space   == " "
Quote   == "'"
Escape  == "\\"
Double  == "\""
Signs   == {"+", "-"}

\* Some of the letters; the ranges of isIdentifierStart are one class.
Letters == {"_", "e", "E", "i", "I", "n", "N"}

IdentifierPart == Letters \cup Digits \cup {"."}

OperatorChars == {"=", "<", ">", "*", "/", "%", "^"} \cup Signs
LongOperators == {<<"<", "=">>, <<">", "=">>, <<"<", ">">>}

\* The reserved word that can be spelled with these letters.
Keywords == {<<"I", "N">>}

Upper(word) ==
    [k \in DOMAIN word |-> CASE word[k] = "i" -> "I" [] word[k] = "n" -> "N"
                             [] word[k] = "e" -> "E" [] OTHER -> word[k]]

-----------------------------------------------------------------------------
(* Scanning: every operator takes the characters cs and a position p.      *)

At(cs, p, S) == p \in DOMAIN cs /\ cs[p] \in S

\* The first position from p on where no character of S stands.
RunEnd(cs, p, S) ==
    CHOOSE q \in p .. Len(cs) + 1 : (\A r \in p .. q - 1 : cs[r] \in S) /\ ~At(cs, q, S)

Run(cs, p, q) == SubSeq(cs, p, q - 1)

\* stringToken: the value and the position of the closing quote, 0 when
\* there is none.  Two quotes, and an escaped one, stand for a quote.
ReadString(cs, p) ==
    LET Quoted(q) == At(cs, q, {Quote, Escape}) /\ At(cs, q + 1, {Quote})
        read[q \in p + 1 .. Len(cs) + 2] ==
            IF q > Len(cs) THEN [value |-> << >>, end |-> 0]
            ELSE IF Quoted(q)
            THEN [value |-> <<Quote>> \o read[q + 2].value, end |-> read[q + 2].end]
            ELSE IF cs[q] = Quote THEN [value |-> << >>, end |-> q]
            ELSE [value |-> <<cs[q]>> \o read[q + 1].value, end |-> read[q + 1].end]
    IN  read[p + 1]

\* quotedIdentifierToken: the position of the closing quote, or 0.
QuotedEnd(cs, p) ==
    LET q == RunEnd(cs, p + 1, IdentifierPart)
    IN  IF At(cs, p + 1, Letters) /\ At(cs, q, {Double}) THEN q ELSE 0

\* isNumberStart
StartsNumber(cs, p, signed) ==
    LET unsigned(q) == At(cs, q, Digits) \/ (At(cs, q, {"."}) /\ At(cs, q + 1, Digits))
    IN  unsigned(p) \/ (signed /\ At(cs, p, Signs) /\ unsigned(p + 1))

\* Mutation of NumberEnd: a point is part of a number only before a digit.
NumberEndBeforePoint(cs, p) ==
    LET d == IF At(cs, p, Signs) THEN p + 1 ELSE p
        i == RunEnd(cs, d, Digits)
        f == IF At(cs, i, {"."}) /\ At(cs, i + 1, Digits) THEN RunEnd(cs, i + 1, Digits) ELSE i
        e == IF At(cs, f + 1, Signs) THEN f + 2 ELSE f + 1
    IN  IF ~At(cs, f, {"e", "E"}) THEN f
        ELSE IF At(cs, e, Digits) THEN RunEnd(cs, e, Digits) ELSE 0

\* numberToken: the position after the number at p, 0 when its exponent has
\* no digits.
NumberEnd(cs, p) ==
    LET d == IF At(cs, p, Signs) THEN p + 1 ELSE p
        i == RunEnd(cs, d, Digits)
        f == IF At(cs, i, {"."}) THEN RunEnd(cs, i + 1, Digits) ELSE i
        e == IF At(cs, f + 1, Signs) THEN f + 2 ELSE f + 1
    IN  IF ~At(cs, f, {"e", "E"}) THEN f
        ELSE IF At(cs, e, Digits) THEN RunEnd(cs, e, Digits) ELSE 0

\* Mutation of QuoteString: a quote is written as it is.
QuoteBare(value) == <<Quote>> \o value \o <<Quote>>

\* quoteString: every quote is doubled, an escape is not.
QuoteString(value) ==
    LET doubled[k \in 0 .. Len(value)] ==
            IF k = 0 THEN << >>
            ELSE doubled[k - 1] \o (IF value[k] = Quote THEN <<Quote, Quote>> ELSE <<value[k]>>)
    IN  <<Quote>> \o doubled[Len(value)] \o <<Quote>>
=============================================================================
