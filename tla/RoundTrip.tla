------------------------------ MODULE RoundTrip ------------------------------
(***************************************************************************)
(* Parsing, serializing and parsing again: the two parsers and the         *)
(* serializer between them, as an application combines them (parse.go and  *)
(* serialize.go).  One goroutine runs one parser at a time, so the two     *)
(* machines share the variables they both have; lang says which one runs.  *)
(*                                                                         *)
(* The first parse builds a tree.  When it is accepted the tree is written *)
(* in either language and the result is read with the same Parser.         *)
(***************************************************************************)
EXTENDS Serializer

CONSTANTS
    TextCases,  \* what is parsed first: [input, cfg], as text
    JsonCases   \* and as JSON

VARIABLES
    cfg, mode, proc, depth, node, stack,    \* of the running parser
    tokens, pos, minPrec,                   \* of the text parser
    input, val, path,                       \* of the JSON parser
    lang,       \* "text" or "json": the parser running
    stage,      \* "first", "again", or "refused" by the serializer
    original    \* the tree that was written

vars == <<cfg, mode, proc, depth, node, stack, tokens, pos, minPrec, input, val, path,
          lang, stage, original>>

T == INSTANCE TextParser WITH Cases <- TextCases
J == INSTANCE JsonParser WITH Cases <- JsonCases

NoTokens == tokens = << >> /\ pos = 0 /\ minPrec = 0
NoInput  == input = JsonNull /\ val = JsonNull /\ path = << >>

Init ==
    /\ \/ T!Init /\ NoInput /\ lang = "text"
       \/ J!Init /\ NoTokens /\ lang = "json"
    /\ stage = "first"
    /\ original = T!NoNode

Parse ==
    /\ \/ lang = "text" /\ T!Step /\ UNCHANGED <<input, val, path>>
       \/ lang = "json" /\ J!Step /\ UNCHANGED <<tokens, pos, minPrec>>
    /\ UNCHANGED <<lang, stage, original>>

\* The tree of an accepted first parse is about to be written in the language l.
Writes(l) ==
    /\ stage = "first" /\ mode = "accepted"
    /\ original' = node /\ lang' = l

\* SerializeText, then ParseText: a string that does not come back from its
\* quotes runs on to the end of the text, and the lexer fails.
SerializeText ==
    /\ Writes("text")
    /\ UNCHANGED <<cfg, input, val, path>>
    /\ IF RefusedAsText(node)
       THEN stage' = "refused" /\ UNCHANGED <<mode, proc, depth, node, stack, tokens, pos, minPrec>>
       ELSE /\ stage' = "again" /\ tokens' = ToText(node)
            /\ IF \A i \in DOMAIN tokens' : tokens'[i].kind = "String" => ReadsBack(tokens'[i].text)
               THEN mode' = "call" ELSE mode' = "rejected"
            /\ pos' = 1 /\ proc' = "Expression" /\ depth' = 0 /\ minPrec' = 0
            /\ node' = T!NoNode /\ stack' = << >>

\* SerializeJSON, then ParseJSON.
SerializeJSON ==
    /\ Writes("json")
    /\ stage' = "again" /\ input' = Json(node)
    /\ mode' = "call" /\ proc' = "Expression" /\ val' = input' /\ path' = << >> /\ depth' = 0
    /\ node' = J!NoNode /\ stack' = << >>
    /\ UNCHANGED <<cfg, tokens, pos, minPrec>>

Ended ==
    /\ mode \in {"accepted", "rejected"}
    /\ stage = "first" => mode = "rejected"

Terminated == Ended /\ UNCHANGED vars

Next == Parse \/ SerializeText \/ SerializeJSON \/ Terminated

Spec == Init /\ [][Next]_vars
=============================================================================
