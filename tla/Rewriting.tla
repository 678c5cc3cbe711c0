------------------------------ MODULE Rewriting ------------------------------
(***************************************************************************)
(* Tokens, written the way ToText writes them and lexed again: what the    *)
(* parser and the serializer owe each other below the level of RoundTrip,  *)
(* where text is a sequence of tokens.                                     *)
(***************************************************************************)
EXTENDS TextLexer

VARIABLES
    stage,      \* "first" or "again"
    original    \* the tokens of the first text, as the parser took them

vars == <<chars, at, tokens, mode, stage, original>>

Init == LexInit /\ stage = "first" /\ original = << >>

Plain(t) == [kind |-> t.kind, text |-> t.text]

Numbers == {k \in DOMAIN tokens : tokens[k].kind = "Number"}

\* The parser refuses a number whose exponent is too large,
Accepted == \A k \in Numbers : Representable(tokens[k].text)

\* and takes every other one in its canonical form.
Taken(t) == IF t.kind = "Number" THEN [t EXCEPT !.text = Canonical(t.text)] ELSE t

Written(t) ==
    CASE t.kind = "String" -> QuoteString(t.text)
      [] t.kind = "QuotedIdentifier" -> <<Double>> \o t.text \o <<Double>>
      [] OTHER -> t.text

\* ToText separates any two tokens by a space unless one of them is a
\* parenthesis or a comma, and sometimes then.
Gap(spaced, t, u) ==
    IF spaced \/ {t.kind, u.kind} \cap {"LParen", "RParen", "Comma"} = {} THEN <<Space>> ELSE << >>

Rewritten(ts, spaced) ==
    FlattenSeq([k \in DOMAIN ts |->
        IF k = 1 THEN Written(ts[1]) ELSE Gap(spaced, ts[k - 1], ts[k]) \o Written(ts[k])])

Rewrite ==
    /\ stage = "first" /\ mode = "done" /\ Accepted
    /\ original' = [k \in DOMAIN tokens |-> Taken(tokens[k])]
    /\ \E spaced \in BOOLEAN : chars' = Rewritten(original', spaced)
    /\ at' = 1 /\ tokens' = << >> /\ mode' = "lexing"
    /\ stage' = "again"

Ended == mode = "failed" \/ (mode = "done" /\ (stage = "again" \/ ~Accepted))

Terminated == Ended /\ UNCHANGED vars

Next ==
    \/ Lex /\ UNCHANGED <<stage, original>>
    \/ Rewrite
    \/ Terminated

Spec == Init /\ [][Next]_vars

-----------------------------------------------------------------------------
(* Properties.                                                             *)

\* A number token is one to number.go too, whose pattern is written apart
\* from the lexer, and no longer piece of the text from its start is.
NumbersAreLongest ==
    \A k \in Numbers :
        /\ IsNumberText(tokens[k].text)
        /\ \A q \in tokens[k].last + 1 .. Len(chars) : ~IsNumberText(SubSeq(chars, tokens[k].first, q))

\* A canonical number has the value of the text it was made of and one form
\* for each value, which JSON admits: no sign, zero or point too many.
NumbersKeepTheirValue ==
    \A k \in Numbers :
        LET text == tokens[k].text
            form == Canonical(text)
        IN  Representable(text) =>
                /\ NumberValue(form) = NumberValue(text)
                /\ IsPlainNumber(form) /\ (form # <<"0">> => NumberValue(form).ones # {})

\* A text that is written anew reads as the tokens the parser took the first
\* for, whatever spaces are left out beside parentheses and commas, exactly if
\* in none of its strings a backslash precedes a quote or the end (quoteString
\* doubles quotes only, stringToken takes \' for one).
RewrittenTextLexesAlike ==
    LET escaped(s) == \E k \in DOMAIN s : s[k] = Escape /\ (k = Len(s) \/ s[k + 1] = Quote)
    IN  stage = "again" /\ Ended =>
            ((mode = "done" /\ [k \in DOMAIN tokens |-> Plain(tokens[k])]
                                 = [k \in DOMAIN original |-> Plain(original[k])])
               <=> ~\E k \in DOMAIN original : original[k].kind = "String" /\ escaped(original[k].text))
=============================================================================
