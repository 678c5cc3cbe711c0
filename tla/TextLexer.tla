------------------------------ MODULE TextLexer ------------------------------
(***************************************************************************)
(* lexText (internal/parser/text_lexer.go): one action reads one token.    *)
(* The line and column of a token, which only error messages use, are left *)
(* out.                                                                    *)
(***************************************************************************)
EXTENDS NumberTexts

CONSTANT
    Texts       \* what is lexed

ASSUME TextsAssumption == Texts \subseteq Seq(STRING)

VARIABLES
    chars,      \* l.input
    at,         \* l.byteOffset, counted in characters from 1
    tokens,     \* the tokens so far: [kind, text, first, last]
    mode        \* lexing, done or failed

lexerVars == <<chars, at, tokens, mode>>

LexInit ==
    /\ chars \in Texts
    /\ at = 1 /\ tokens = << >> /\ mode = "lexing"

Previous == IF tokens = << >> THEN "none" ELSE tokens[Len(tokens)].kind

\* canStartSignedNumber: the token before does not end an operand.
SignStartsNumber == Previous \in {"none", "Operator", "LParen", "Comma", "Keyword"}

\* skipWhitespace
Start == RunEnd(chars, at, {Space})

More == mode = "lexing" /\ Start <= Len(chars)

\* What the character at Start begins.
Begins ==
    LET c == chars[Start]
    IN  CASE c = "(" -> "LParen"
          [] c = ")" -> "RParen"
          [] c = "," -> "Comma"
          [] c = Quote  -> "String"
          [] c = Double -> "QuotedIdentifier"
          [] StartsNumber(chars, Start, SignStartsNumber) -> "Number"
          [] c \in Letters -> "Word"
          [] c \in OperatorChars /\ ~StartsNumber(chars, Start, SignStartsNumber) -> "Operator"
          [] OTHER -> "nothing"

\* Mutation of Emit: the character after the token is skipped as well.
EmitPast(kind, text, next) ==
    /\ tokens' = Append(tokens, [kind |-> kind, text |-> text, first |-> Start, last |-> next - 1])
    /\ at' = IF next > Len(chars) THEN next ELSE next + 1
    /\ UNCHANGED <<chars, mode>>

Emit(kind, text, next) ==
    /\ tokens' = Append(tokens, [kind |-> kind, text |-> text, first |-> Start, last |-> next - 1])
    /\ at' = next
    /\ UNCHANGED <<chars, mode>>

Fail == mode' = "failed" /\ UNCHANGED <<chars, at, tokens>>

Punctuation ==
    /\ More /\ Begins \in {"LParen", "RParen", "Comma"}
    /\ Emit(Begins, <<chars[Start]>>, Start + 1)

String ==
    /\ More /\ Begins = "String"
    /\ LET string == ReadString(chars, Start)
       IN  IF string.end = 0 THEN Fail ELSE Emit("String", string.value, string.end + 1)

QuotedIdentifier ==
    /\ More /\ Begins = "QuotedIdentifier"
    /\ LET end == QuotedEnd(chars, Start)
       IN  IF end = 0 THEN Fail
           ELSE Emit("QuotedIdentifier", Run(chars, Start + 1, end), end + 1)

Number ==
    /\ More /\ Begins = "Number"
    /\ LET end == NumberEnd(chars, Start)
       IN  IF end = 0 THEN Fail ELSE Emit("Number", Run(chars, Start, end), end)

Word ==
    /\ More /\ Begins = "Word"
    /\ LET end  == RunEnd(chars, Start, IdentifierPart)
           text == Run(chars, Start, end)
       IN  IF Upper(text) \in Keywords THEN Emit("Keyword", Upper(text), end)
           ELSE Emit("Identifier", text, end)

Operator ==
    /\ More /\ Begins = "Operator"
    /\ LET long == \E op \in LongOperators : At(chars, Start, {op[1]}) /\ At(chars, Start + 1, {op[2]})
           end  == IF long THEN Start + 2 ELSE Start + 1
       IN  Emit("Operator", Run(chars, Start, end), end)

UnexpectedCharacter ==
    /\ More /\ Begins = "nothing"
    /\ Fail

EndOfText ==
    /\ mode = "lexing" /\ Start > Len(chars)
    /\ mode' = "done" /\ at' = Start
    /\ UNCHANGED <<chars, tokens>>

Lex ==
    \/ Punctuation \/ String \/ QuotedIdentifier \/ Number \/ Word \/ Operator
    \/ UnexpectedCharacter \/ EndOfText

-----------------------------------------------------------------------------
\* Between the tokens, which neither are empty nor overlap, lies white space.
TypeOK ==
    /\ at \in 1 .. Len(chars) + 1
    /\ mode \in {"lexing", "done", "failed"}
    /\ \A k \in DOMAIN tokens : tokens[k].first <= tokens[k].last /\ tokens[k].last < at
    /\ \A j, k \in DOMAIN tokens : j < k => tokens[j].last < tokens[k].first
    /\ \A p \in 1 .. at - 1 : \/ chars[p] = Space
                              \/ \E k \in DOMAIN tokens : p \in tokens[k].first .. tokens[k].last
=============================================================================
