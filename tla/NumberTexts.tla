----------------------------- MODULE NumberTexts -----------------------------
(***************************************************************************)
(* The canonical text of a number (internal/parser/number.go), on numbers  *)
(* as sequences of characters.                                             *)
(***************************************************************************)
EXTENDS Lexing, SequencesExt

CONSTANT
    MaxExponent     \* 1_000_000 in parseSmallInt

ASSUME MaxExponentAssumption == MaxExponent \in Nat

Zeros(n) == [k \in 1..n |-> "0"]

Where(cs, S) == {k \in DOMAIN cs : cs[k] \in S}

Unsigned(cs) == IF At(cs, 1, Signs) THEN Tail(cs) ELSE cs

\* cqlNumberPattern: digits with at most one point, then perhaps an exponent.
IsNumberText(cs) ==
    LET u  == Unsigned(cs)
        es == Where(u, {"e", "E"})
        e  == IF es = {} THEN Len(u) + 1 ELSE CHOOSE k \in es : TRUE
        mantissa == Run(u, 1, e)
        exponent == Unsigned(Run(u, e + 1, Len(u) + 1))
    IN  /\ Cardinality(es) <= 1 /\ Cardinality(Where(mantissa, {"."})) <= 1
        /\ Where(mantissa, Digits) # {} /\ Range(mantissa) \subseteq Digits \cup {"."}
        /\ es # {} => exponent # << >> /\ Range(exponent) \subseteq Digits

\* The parts of a number text: sign, digits before and after the point, and
\* the exponent.
Parts(cs) ==
    LET es    == Where(cs, {"e", "E"})
        e     == IF es = {} THEN Len(cs) + 1 ELSE CHOOSE k \in es : TRUE
        first == IF At(cs, 1, Signs) THEN 2 ELSE 1
        ps    == Where(cs, {"."})
        point == IF ps = {} THEN e ELSE CHOOSE k \in ps : TRUE
    IN  [negative |-> At(cs, 1, {"-"}), whole |-> Run(cs, first, point),
         part |-> Run(cs, point + 1, e), exponent |-> Run(cs, e + 1, Len(cs) + 1)]

\* parseSmallInt, of an exponent that matches the pattern.
Decimal(digits) ==
    LET value[k \in 0..Len(digits)] ==
            IF k = 0 THEN 0 ELSE 10 * value[k - 1] + (IF digits[k] = "0" THEN 0 ELSE 1)
    IN  value[Len(digits)]

SmallInt(cs) ==
    IF At(cs, 1, {"-"}) THEN -Decimal(Tail(cs))
    ELSE IF At(cs, 1, {"+"}) THEN Decimal(Tail(cs)) ELSE Decimal(cs)

Representable(cs) == SmallInt(Parts(cs).exponent) \in -MaxExponent..MaxExponent

TrimLeft(cs)  == Run(cs, RunEnd(cs, 1, {"0"}), Len(cs) + 1)
TrimRight(cs) == Reverse(TrimLeft(Reverse(cs)))

\* Mutation of TrimFraction: zeros are trimmed from an integer too.
TrimAlways(cs) == TrimRight(cs)

\* The zeros at the end of a fraction, and its point when nothing is left.
TrimFraction(cs) ==
    IF Where(cs, {"."}) = {} THEN cs
    ELSE LET trimmed == TrimRight(cs)
         IN  IF trimmed[Len(trimmed)] = "." THEN Front(trimmed) ELSE trimmed

\* canonicalNumber
Canonical(cs) ==
    LET parts  == Parts(cs)
        digits == TrimLeft(parts.whole \o parts.part)
        scale  == Len(parts.part) - SmallInt(parts.exponent)
        point  == Len(digits) - scale
        placed == IF scale <= 0 THEN digits \o Zeros(-scale)
                  ELSE IF point <= 0 THEN <<"0", ".">> \o Zeros(-point) \o digits
                  ELSE Run(digits, 1, point + 1) \o <<".">> \o Run(digits, point + 1, Len(digits) + 1)
    IN  IF digits = << >> THEN <<"0">>
        ELSE (IF parts.negative THEN <<"-">> ELSE << >>) \o TrimFraction(placed)

-----------------------------------------------------------------------------
(* What a number text stands for: its sign and the weights of its digits   *)
(* that are not zero.                                                      *)

NumberValue(cs) ==
    LET parts  == Parts(cs)
        digits == parts.whole \o parts.part
        weight(k) == Len(parts.whole) - k + SmallInt(parts.exponent)
        ones   == {<<weight(k), digits[k]>> : k \in Where(digits, Digits \ {"0"})}
    IN  [ones |-> ones, negative |-> parts.negative /\ ones # {}]

\* The numbers of JSON without an exponent.
IsPlainNumber(cs) ==
    LET parts == Parts(cs)
    IN  /\ IsNumberText(cs) /\ ~At(cs, 1, {"+"})
        /\ Where(cs, {"e", "E"}) = {}
        /\ parts.whole = <<"0">> \/ (parts.whole # << >> /\ parts.whole[1] # "0")
        /\ Where(cs, {"."}) # {} => ~At(cs, Len(cs), {"0", "."})
=============================================================================
