------------------------------ MODULE TextParser -----------------------------
(***************************************************************************)
(* The recursive-descent parser of CQL2 Text, internal/parser/             *)
(* text_parser.go, as a pushdown machine.  A Go call is a "call" state     *)
(* naming the procedure and its depth argument; the code after a call      *)
(* returns is a frame on the stack; an error return unwinds the stack to a *)
(* frame whose code tries an alternative (CatchFrames), which resets pos.  *)
(* One action is the straight-line code between two calls.  Calls in tail  *)
(* position (parseScalar, parsePredicate's dispatch, parseTemporalInstance *)
(* ...) leave no frame.                                                    *)
(*                                                                         *)
(* The lexer's output is an input of the machine: a sequence of tokens     *)
(* ending in the only EOF.  The data of a geometry literal is read in one  *)
(* step (TextGeometry).  An error is only the fact that parsing failed;    *)
(* its message and location are left out, so a failing step leaves pos     *)
(* where it was.                                                           *)
(***************************************************************************)
EXTENDS TextGeometry

CONSTANT
    Cases       \* what is parsed, and with which ParseConfig: [input, cfg]

Inputs  == {c.input : c \in Cases}
Configs == {c.cfg : c \in Cases}

ASSUME InputsAssumption ==
    \A t \in Inputs : /\ t \in Seq([kind : STRING, text : STRING, raw : STRING])
                      /\ Len(t) >= 1
                      /\ \A i \in 1..Len(t) : t[i].kind = "EOF" <=> i = Len(t)

ASSUME ConfigsAssumption ==
    \A c \in Configs : c.maxDepth \in Nat \ {0}

VARIABLES
    tokens,     \* p.tokens
    cfg,        \* p.cfg
    pos,        \* p.pos, counted from 1
    mode,       \* call, return or fail; accepted or rejected at the end
    proc,       \* in a call: the procedure, its depth and minPrecedence
    depth,
    minPrec,
    node,       \* in a return: the node returned
    stack       \* the pending frames, innermost last

vars == <<tokens, cfg, pos, mode, proc, depth, minPrec, node, stack>>

NoNode == Node("None", "", {}, << >>, <<0, 0>>)

-----------------------------------------------------------------------------
(* Tokens.                                                                 *)

TemporalConstructors == {"DATE", "TIMESTAMP", "INTERVAL"}

\* The keywords that may be called like a function.
KeywordFunctions == {"CASEI", "ACCENTI"} \cup TemporalConstructors
                      \cup TemporalOps \cup ArrayOps \cup SpatialOps \cup GeometryKeywords

Is(kind, p) == tokens[p].kind = kind

IsWord(words, p) == Is("Keyword", p) /\ tokens[p].text \in words

IsOperator(ops, p) == Is("Operator", p) /\ tokens[p].text \in ops

\* p.advance(): the last token, EOF, is never passed.
After(p) == IF p < Len(tokens) THEN p + 1 ELSE p

\* p.nextIs(tokenLParen)
ParenFollows(p) == p + 1 <= Len(tokens) /\ Is("LParen", p + 1)

ArithmeticAt(p) == IsOperator({"+", "-", "*", "/", "%", "^"}, p) \/ IsWord({"DIV"}, p)

Precedence(op) ==
    CASE op \in {"+", "-"} -> 10
      [] op = "^" -> 30
      [] OTHER -> 20

\* Mutation of RightPrecedence: ^ associates to the left.
LeftAssociative(op) == Precedence(op) + 1

\* The least precedence the right operand may contain: ^ associates to the
\* right, every other operator to the left.
RightPrecedence(op) == IF op = "^" THEN Precedence(op) ELSE Precedence(op) + 1

-----------------------------------------------------------------------------
(* Frames and control.  save is p.pos when the frame's procedure reached   *)
(* this call: the startPos a catch frame returns to, and for the others    *)
(* the token the node under construction starts with.                      *)

\* Mutation of Frame: the position saved is the next token's.
FrameAhead(pc, d, op, prec, acc) ==
    [pc |-> pc, depth |-> d, op |-> op, prec |-> prec, acc |-> acc, save |-> After(pos)]

Frame(pc, d, op, prec, acc) ==
    [pc |-> pc, depth |-> d, op |-> op, prec |-> prec, acc |-> acc, save |-> pos]

Top   == stack[Len(stack)]
Below == SubSeq(stack, 1, Len(stack) - 1)

\* The top frame, continued at pc with more operands.
Resumed(pc, op, acc) ==
    [pc |-> pc, depth |-> Top.depth, op |-> op, prec |-> Top.prec, acc |-> acc,
     save |-> Top.save]

Enter(pr, d, prec, p, st) ==
    /\ mode' = "call" /\ proc' = pr /\ depth' = d /\ minPrec' = prec
    /\ pos' = p /\ stack' = st /\ node' = NoNode
    /\ UNCHANGED <<tokens, cfg>>

Return(n, p, st) ==
    /\ mode' = "return" /\ node' = n /\ pos' = p /\ stack' = st
    /\ UNCHANGED <<tokens, cfg, proc, depth, minPrec>>

Fail(st) ==
    /\ mode' = "fail" /\ stack' = st /\ node' = NoNode
    /\ UNCHANGED <<tokens, cfg, pos, proc, depth, minPrec>>

\* parseScalar(d)
EnterScalar(d, p, st) ==
    Enter(IF cfg.arithmetic THEN "Arithmetic" ELSE "ScalarPrimary", d + 1, 0, p, st)

\* Mutation of DepthChecked: parseExpression has lost its check.
UncheckedExpression == {"Arithmetic", "ScalarPrimary", "TemporalOperand",
                        "InstantFunction", "Interval", "IntervalEndpoint",
                        "ArrayOperand", "ArrayLiteral", "SpatialOperand", "GeometryLiteral"}

\* The procedures that start by comparing their depth with MaxDepth.
DepthChecked == {"Expression", "Arithmetic", "ScalarPrimary", "TemporalOperand",
                 "InstantFunction", "Interval", "IntervalEndpoint",
                 "ArrayOperand", "ArrayLiteral", "SpatialOperand", "GeometryLiteral"}

\* Mutation of TooDeep: the limit is not applied.
NeverTooDeep(d) == FALSE

\* Mutation of TooDeep: the limit is missed by one.
TooDeepByOne(d) == d > cfg.maxDepth + 1

TooDeep(d) == d > cfg.maxDepth

Calling(pr)   == /\ mode = "call" /\ proc = pr
                 /\ ~(pr \in DepthChecked /\ TooDeep(depth))
Returning(pc) == mode = "return" /\ stack # << >> /\ Top.pc = pc
Failing(pc)   == mode = "fail" /\ stack # << >> /\ Top.pc = pc

MaximumDepthExceeded ==
    /\ mode = "call" /\ proc \in DepthChecked /\ TooDeep(depth)
    /\ Fail(stack)

-----------------------------------------------------------------------------
(* parseText                                                               *)

Init ==
    /\ \E c \in Cases : tokens = c.input /\ cfg = c.cfg
    /\ pos = 1
    /\ mode = "call" /\ proc = "Expression" /\ depth = 0 /\ minPrec = 0
    /\ node = NoNode
    /\ stack = << >>

Finish ==
    /\ stack = << >>
    /\ mode \in {"return", "fail"}
    /\ mode' = IF mode = "return" /\ Is("EOF", pos) THEN "accepted" ELSE "rejected"
    /\ UNCHANGED <<tokens, cfg, pos, proc, depth, minPrec, node, stack>>

-----------------------------------------------------------------------------
(* parseExpression, parseOr, parseAnd, parseNot                            *)

Expression ==
    /\ Calling("Expression")
    /\ Enter("Not", depth + 2, 0, pos,
             Append(Append(stack, Frame("OrMore", depth, "", 0, << >>)),
                    Frame("AndMore", depth + 1, "", 0, << >>)))

Chain(op, args) ==
    IF Len(args) = 1 THEN args[1]
    ELSE Predicate("Logical", op, args, <<args[1].src[1], args[Len(args)].src[2]>>)

OrMore ==
    /\ Returning("OrMore")
    /\ LET args == Append(Top.acc, node)
       IN  IF IsWord({"OR"}, pos)
           THEN Enter("Not", Top.depth + 2, 0, After(pos),
                      Append(Append(Below, Resumed("OrMore", "", args)),
                             Frame("AndMore", Top.depth + 1, "", 0, << >>)))
           ELSE Return(Chain("OR", args), pos, Below)

AndMore ==
    /\ Returning("AndMore")
    /\ LET args == Append(Top.acc, node)
       IN  IF IsWord({"AND"}, pos)
           THEN Enter("Not", Top.depth + 1, 0, After(pos),
                      Append(Below, Resumed("AndMore", "", args)))
           ELSE Return(Chain("AND", args), pos, Below)

Not ==
    /\ Calling("Not")
    /\ IF IsWord({"NOT"}, pos)
       THEN Enter("Not", depth + 1, 0, After(pos),
                  Append(stack, Frame("NotDone", depth, "", 0, << >>)))
       ELSE Enter("Primary", depth + 1, 0, pos, stack)

NotDone ==
    /\ Returning("NotDone")
    /\ Return(Predicate("Logical", "NOT", <<node>>, <<Top.save, node.src[2]>>), pos, Below)

-----------------------------------------------------------------------------
(* parsePrimaryExpression                                                  *)

\* finishIsNull, called with p after the IS.
FinishIsNull(operand, p, st) ==
    LET q == IF IsWord({"NOT"}, p) THEN After(p) ELSE p
    IN  IF IsWord({"NULL"}, q)
        THEN Return(Predicate("IsNull", IF q # p THEN "NOT" ELSE "", <<operand>>,
                              <<operand.src[1], q>>), After(q), st)
        ELSE Fail(st)

\* Mutation of PredicateEnabled: one switch is consulted for both kinds.
PredicateEnabledByTime(op) == cfg.temporal

\* S_..., T_... and A_... predicates: the keyword and its parenthesis.
PredicateEnabled(op) ==
    IF op \in SpatialOps THEN SpatialEnabled(cfg.spatial, op)
    ELSE IF op \in TemporalOps THEN cfg.temporal ELSE cfg.arrays

OperandProc(op) ==
    IF op \in SpatialOps THEN "SpatialOperand"
    ELSE IF op \in TemporalOps THEN "TemporalOperand" ELSE "ArrayOperand"

PredicateWords == SpatialOps \cup TemporalOps \cup ArrayOps

PrimaryPredicate ==
    /\ Calling("Primary")
    /\ IsWord(PredicateWords, pos)
    /\ LET op == tokens[pos].text
       IN  IF PredicateEnabled(op) /\ Is("LParen", After(pos))
           THEN Enter(OperandProc(op), depth + 2, 0, After(After(pos)),
                      Append(stack, Frame("PredicateLeft", depth + 1, op, 0, << >>)))
           ELSE Fail(stack)

PrimaryInterval ==
    /\ Calling("Primary")
    /\ IsWord({"INTERVAL"}, pos)
    /\ Enter("TemporalInstance", depth + 1, 0, pos,
             Append(stack, Frame("IntervalIs", depth, "", 0, << >>)))

PrimaryGeometry ==
    /\ Calling("Primary")
    /\ IsWord(GeometryKeywords, pos)
    /\ Enter("GeometryLiteral", depth + 1, 0, pos,
             Append(stack, Frame("IntervalIs", depth, "", 0, << >>)))

\* An interval or a geometry starts no predicate but a null test.
IntervalIs ==
    /\ Returning("IntervalIs")
    /\ IF IsWord({"IS"}, pos) THEN FinishIsNull(node, After(pos), Below) ELSE Fail(Below)

PrimaryParen ==
    /\ Calling("Primary")
    /\ Is("LParen", pos)
    /\ Enter("Expression", depth + 1, 0, After(pos),
             Append(stack, Frame("ParenTry", depth, "", 0, << >>)))

\* The content was an expression: from here on an error is final.
ParenIsExpression ==
    /\ Returning("ParenTry")
    /\ IF ~Is("RParen", pos) THEN Fail(Below)
       ELSE LET p == After(pos)
            IN  IF IsWord({"IS"}, p) THEN FinishIsNull(node, After(p), Below)
                ELSE Return(node, p, Below)

\* Mutation of ParenIsScalar: the position is not reset.
ParenNotReset ==
    /\ Failing("ParenTry")
    /\ EnterScalar(Top.depth + 1, pos,
                   Append(Below, Resumed("PredicateOf", "", << >>)))

\* The content was not: read the parenthesis again, as a scalar operand.
ParenIsScalar ==
    /\ Failing("ParenTry")
    /\ EnterScalar(Top.depth + 1, Top.save,
                   Append(Below, Resumed("PredicateOf", "", << >>)))

PrimaryScalar ==
    /\ Calling("Primary")
    /\ ~Is("LParen", pos)
    /\ ~IsWord(PredicateWords \cup GeometryKeywords \cup {"INTERVAL"}, pos)
    /\ EnterScalar(depth + 1, pos,
                   Append(stack, Frame("PredicateOf", depth, "", 0, << >>)))

(* The left operand has returned: what follows it decides the predicate.   *)

AfterNot == IF IsWord({"NOT"}, pos) THEN After(pos) ELSE pos

Negation == IF AfterNot # pos THEN "NOT" ELSE ""

Follow ==
    CASE IsOperator(ComparisonOps, pos) -> "comparison"
      [] ~cfg.arithmetic /\ ArithmeticAt(pos) -> "arithmetic"
      [] IsWord({"LIKE", "BETWEEN", "IN"}, AfterNot) -> tokens[AfterNot].text
      [] IsWord({"IS"}, pos) -> "IS"
      [] OTHER -> "nothing"

FollowedBy(f) == Returning("PredicateOf") /\ Follow = f

Comparison ==
    /\ FollowedBy("comparison")
    /\ EnterScalar(Top.depth + 1, After(pos),
                   Append(Below, Resumed("ComparisonRight", tokens[pos].text, <<node>>)))

ComparisonRight ==
    /\ Returning("ComparisonRight")
    /\ LET left == Top.acc[1]
       IN  IF /\ ValidComparison(Top.op, left, node)
              /\ ValidPropertyUse(cfg.propertyProperty, <<left, node>>)
           THEN Return(Predicate("Comparison", Top.op, <<left, node>>,
                                 <<left.src[1], node.src[2]>>), pos, Below)
           ELSE Fail(Below)

ArithmeticDisabled ==
    /\ FollowedBy("arithmetic")
    /\ Fail(Below)

Like ==
    /\ FollowedBy("LIKE")
    /\ IF cfg.advanced /\ IsCharacter(node)
       THEN Enter("Pattern", Top.depth + 1, 0, After(AfterNot),
                  Append(Below, Resumed("LikePattern", Negation, <<node>>)))
       ELSE Fail(Below)

LikePattern ==
    /\ Returning("LikePattern")
    /\ LET left == Top.acc[1]
       IN  IF ValidPropertyUse(cfg.propertyProperty, <<left, node>>)
           THEN Return(Predicate("Like", Top.op, <<left, node>>,
                                 <<left.src[1], node.src[2]>>), pos, Below)
           ELSE Fail(Below)

\* parseNumericExpression is parseScalar one level down and a type check.
Between ==
    /\ FollowedBy("BETWEEN")
    /\ IF cfg.advanced /\ IsNumeric(node)
       THEN EnterScalar(Top.depth + 2, After(AfterNot),
                        Append(Below, Resumed("BetweenLower", Negation, <<node>>)))
       ELSE Fail(Below)

BetweenLower ==
    /\ Returning("BetweenLower")
    /\ IF IsNumeric(node) /\ IsWord({"AND"}, pos)
       THEN EnterScalar(Top.depth + 2, After(pos),
                        Append(Below, Resumed("BetweenUpper", Top.op, Append(Top.acc, node))))
       ELSE Fail(Below)

BetweenUpper ==
    /\ Returning("BetweenUpper")
    /\ LET operands == Append(Top.acc, node)
       IN  IF IsNumeric(node) /\ ValidPropertyUse(cfg.propertyProperty, operands)
           THEN Return(Predicate("Between", Top.op, operands,
                                 <<operands[1].src[1], node.src[2]>>), pos, Below)
           ELSE Fail(Below)

\* An empty list is an error after its closing parenthesis, and whatever
\* else follows the parenthesis of a list is a scalar or an error.
In ==
    /\ FollowedBy("IN")
    /\ LET p == After(AfterNot)
       IN  IF cfg.advanced /\ Is("LParen", p) /\ ~Is("RParen", After(p))
           THEN EnterScalar(Top.depth + 1, After(p),
                            Append(Below, Resumed("InMore", Negation, <<node>>)))
           ELSE Fail(Below)

InMore ==
    /\ Returning("InMore")
    /\ LET operands == Append(Top.acc, node)
           expr     == operands[1]
           values   == SubSeq(operands, 2, Len(operands))
           coerced  == [i \in DOMAIN values |-> InCoerce(expr, values[i])]
       IN  IF Is("Comma", pos)
           THEN EnterScalar(Top.depth + 1, After(pos),
                            Append(Below, Resumed("InMore", Top.op, operands)))
           ELSE IF /\ Is("RParen", pos)
                   /\ ValidIn(expr, values)
                   /\ ValidPropertyUse(cfg.propertyProperty, operands)
           THEN Return(Predicate("In", Top.op, <<expr>> \o coerced,
                                 <<expr.src[1], pos>>), After(pos), Below)
           ELSE Fail(Below)

IsNull ==
    /\ FollowedBy("IS")
    /\ FinishIsNull(node, After(pos), Below)

NoPredicate ==
    /\ FollowedBy("nothing")
    /\ IF ~IsWord({"NOT"}, pos) /\ IsPredicate(node)
       THEN Return(node, pos, Below)
       ELSE Fail(Below)

-----------------------------------------------------------------------------
(* parsePattern                                                            *)

Pattern ==
    /\ Calling("Pattern")
    /\ IF IsWord({"CASEI", "ACCENTI"}, pos) /\ Is("LParen", After(pos))
       THEN Enter("Pattern", depth + 1, 0, After(After(pos)),
                  Append(stack, Frame("PatternDone", depth, tokens[pos].text, 0, << >>)))
       ELSE IF Is("String", pos) THEN EnterScalar(depth + 1, pos, stack)
       ELSE Fail(stack)

\* A call of a registered function, from its name to its last argument.
Call(name, args, first, last) ==
    Node("Function", name, cfg.functions[name].returns, args, <<first, last>>)

FinishCall(name, args, first, st) ==
    IF Is("RParen", pos) /\ ValidCall(cfg.functions, name, args)
    THEN Return(Call(name, args, first, pos), After(pos), st)
    ELSE Fail(st)

PatternDone ==
    /\ Returning("PatternDone")
    /\ FinishCall(Top.op, <<node>>, Top.save, Below)

-----------------------------------------------------------------------------
(* parseArithmeticExpression: precedence climbing.                         *)

ArithmeticExpression ==
    /\ Calling("Arithmetic")
    /\ Enter("ScalarPrimary", depth + 1, 0, pos,
             Append(stack, Frame("ArithmeticMore", depth, "", minPrec, << >>)))

\* acc is empty after the first operand and holds the left side after an
\* operator; the operator then is op and the node returned its right side.
ArithmeticMore ==
    /\ Returning("ArithmeticMore")
    /\ LET left == IF Top.acc = << >> THEN node ELSE Arithmetic(Top.op, Top.acc[1], node)
           op   == tokens[pos].text
       IN  IF Top.acc # << >> /\ ~IsNumeric(node) THEN Fail(Below)
           ELSE IF ~ArithmeticAt(pos) \/ Precedence(op) < Top.prec
           THEN Return(left, pos, Below)
           ELSE IF IsNumeric(left)
           THEN Enter("Arithmetic", Top.depth + 1, RightPrecedence(op), After(pos),
                      Append(Below, Resumed("ArithmeticMore", op, <<left>>)))
           ELSE Fail(Below)

-----------------------------------------------------------------------------
(* parseScalarPrimary, one action per kind of token.                       *)

PrimaryLiteral ==
    /\ Calling("ScalarPrimary")
    /\ Is("String", pos) \/ Is("Number", pos) \/ IsWord({"TRUE", "FALSE"}, pos)
    /\ LET text == tokens[pos].text
           type == CASE Is("String", pos) -> "string"
                     [] Is("Number", pos) -> "number"
                     [] OTHER -> "boolean"
       IN  IF Is("Number", pos) /\ text \in UnrepresentableNumbers THEN Fail(stack)
           ELSE Return(Literal(type, text, pos), After(pos), stack)

\* propertyRegistry.lookup: an unrestricted registry knows every name.
Registered(name) == cfg.restricted => name \in DOMAIN cfg.properties

PropertyType(name) == IF cfg.restricted THEN cfg.properties[name] ELSE "any"

\* propertyRef, for the token at pos.
ReturnProperty(name, st) ==
    IF Registered(name) /\ PropertyType(name) \in KnownPropertyTypes \cup {"any"}
    THEN Return(Node("Property", name, {PropertyType(name)}, << >>, <<pos, pos>>),
                After(pos), st)
    ELSE Fail(st)

\* finishFunction(tok, d), called with p after the opening parenthesis.
EnterArguments(d, p) ==
    IF Is("RParen", p)
    THEN IF ValidCall(cfg.functions, tokens[pos].text, << >>)
         THEN Return(Call(tokens[pos].text, << >>, pos, p), After(p), stack)
         ELSE Fail(stack)
    ELSE Enter("FunctionArg", d + 1, 0, p,
               Append(stack, Frame("FunctionMore", d, tokens[pos].text, 0, << >>)))

PrimaryName ==
    /\ Calling("ScalarPrimary")
    /\ Is("Identifier", pos) \/ Is("QuotedIdentifier", pos)
    /\ IF Is("LParen", After(pos))
       THEN EnterArguments(depth + 1, After(After(pos)))
       ELSE ReturnProperty(tokens[pos].text, stack)

\* keywordPropertyRef: date, timestamp and interval, as they were written,
\* name a property where a registry says so and no parenthesis follows.
IsKeywordProperty(p) ==
    /\ IsWord(TemporalConstructors, p)
    /\ ~ParenFollows(p)
    /\ cfg.restricted
    /\ tokens[p].raw \in DOMAIN cfg.properties

PrimaryKeyword ==
    /\ Calling("ScalarPrimary")
    /\ Is("Keyword", pos) /\ ~IsWord({"TRUE", "FALSE"}, pos)
    /\ IF IsKeywordProperty(pos) THEN ReturnProperty(tokens[pos].raw, stack)
       ELSE IF IsWord({"DATE", "TIMESTAMP"}, pos)
       THEN Enter("InstantFunction", depth + 1, 0, pos, stack)
       ELSE IF IsWord(KeywordFunctions \ {"INTERVAL"}, pos) /\ Is("LParen", After(pos))
       THEN EnterArguments(depth + 1, After(After(pos)))
       ELSE Fail(stack)

PrimarySign ==
    /\ Calling("ScalarPrimary")
    /\ Is("Operator", pos)
    /\ IF IsOperator({"+", "-"}, pos) /\ cfg.arithmetic
       THEN Enter("ScalarPrimary", depth + 1, 0, After(pos),
                  Append(stack, Frame("SignDone", depth, tokens[pos].text, 0, << >>)))
       ELSE Fail(stack)

\* -x is read as 0 - x.
SignDone ==
    /\ Returning("SignDone")
    /\ IF ~IsNumeric(node) THEN Fail(Below)
       ELSE IF Top.op = "+" THEN Return(node, pos, Below)
       ELSE Return(Arithmetic("-", Literal("number", "0", Top.save), node), pos, Below)

PrimaryGroup ==
    /\ Calling("ScalarPrimary")
    /\ Is("LParen", pos)
    /\ LET st == Append(stack, Frame("GroupDone", depth, "", 0, << >>))
       IN  IF cfg.arithmetic THEN Enter("Arithmetic", depth + 1, 0, After(pos), st)
           ELSE Enter("ScalarPrimary", depth + 2, 0, After(pos), st)

GroupDone ==
    /\ Returning("GroupDone")
    /\ IF Is("RParen", pos) THEN Return(node, After(pos), Below) ELSE Fail(Below)

PrimaryUnexpected ==
    /\ Calling("ScalarPrimary")
    /\ tokens[pos].kind \in {"RParen", "Comma", "EOF"}
    /\ Fail(stack)

-----------------------------------------------------------------------------
(* finishFunction, parseFunctionArg                                        *)

FunctionMore ==
    /\ Returning("FunctionMore")
    /\ LET args == Append(Top.acc, node)
       IN  IF Is("Comma", pos)
           THEN Enter("FunctionArg", Top.depth + 1, 0, After(pos),
                      Append(Below, Resumed("FunctionMore", Top.op, args)))
           ELSE FinishCall(Top.op, args, Top.save, Below)

FunctionArg ==
    /\ Calling("FunctionArg")
    /\ Enter("Expression", depth + 1, 0, pos,
             Append(stack, Frame("ArgExpressionTry", depth, "", 0, << >>)))

\* Not an expression: an interval or a geometry, else a scalar.
ArgNotExpression ==
    /\ Failing("ArgExpressionTry")
    /\ IF IsWord({"INTERVAL"}, Top.save)
       THEN Enter("TemporalInstance", Top.depth + 1, 0, Top.save, Below)
       ELSE IF IsWord(GeometryKeywords, Top.save)
       THEN Enter("GeometryLiteral", Top.depth + 1, 0, Top.save, Below)
       ELSE EnterScalar(Top.depth + 1, Top.save,
                        Append(Below, Resumed("ArgScalarTry", "", << >>)))

\* Mutation of ArgNotScalar: a retry that stays armed.
ArgRetried ==
    /\ Failing("ArgScalarTry")
    /\ EnterScalar(Top.depth + 1, Top.save, stack)

\* Not a scalar either: an array literal, else the scalar's error again.
ArgNotScalar ==
    /\ Failing("ArgScalarTry")
    /\ IF Is("LParen", Top.save)
       THEN Enter("ArrayLiteral", Top.depth + 1, 0, Top.save, Below)
       ELSE EnterScalar(Top.depth + 1, Top.save, Below)

\* What an alternative returns is what the argument or element is.
TrySucceeded ==
    /\ \/ Returning("ArgExpressionTry")
       \/ Returning("ArgScalarTry")
       \/ Returning("ElementTry")
    /\ Return(node, pos, Below)

-----------------------------------------------------------------------------
(* parseTemporalOperand, parseTemporalInstance, parseTemporalInterval      *)

TemporalOperand ==
    /\ Calling("TemporalOperand")
    /\ IF ~IsWord(TemporalConstructors, pos)
       THEN Enter("ScalarPrimary", depth + 1, 0, pos, stack)
       ELSE IF IsKeywordProperty(pos) THEN ReturnProperty(tokens[pos].raw, stack)
       ELSE Enter("TemporalInstance", depth + 1, 0, pos, stack)

TemporalInstance ==
    /\ Calling("TemporalInstance")
    /\ IF IsWord({"DATE", "TIMESTAMP"}, pos)
       THEN Enter("InstantFunction", depth + 1, 0, pos, stack)
       ELSE IF IsWord({"INTERVAL"}, pos) THEN Enter("Interval", depth + 1, 0, pos, stack)
       ELSE Fail(stack)

InstantFunction ==
    /\ Calling("InstantFunction")
    /\ LET text == After(After(pos))
           last == After(text)
           kind == IF IsWord({"DATE"}, pos) THEN "date" ELSE "timestamp"
       IN  IF /\ Is("LParen", After(pos)) /\ Is("String", text) /\ Is("RParen", last)
              /\ tokens[text].text \in DOMAIN Instants
              /\ Instants[tokens[text].text].kind = kind
           THEN Return(Instant(tokens[text].text, kind, <<pos, last>>), After(last), stack)
           ELSE Fail(stack)

Interval ==
    /\ Calling("Interval")
    /\ IF Is("LParen", After(pos))
       THEN Enter("IntervalEndpoint", depth + 1, 0, After(After(pos)),
                  Append(stack, Frame("IntervalStart", depth, "", 0, << >>)))
       ELSE Fail(stack)

IntervalEndpoint ==
    /\ Calling("IntervalEndpoint")
    /\ IF Is("Identifier", pos) \/ Is("QuotedIdentifier", pos)
       THEN Enter("ScalarPrimary", depth + 1, 0, pos, stack)
       ELSE IF Is("String", pos) /\ tokens[pos].text = ".."
       THEN Return(Node("Unbounded", "..", {}, << >>, <<pos, pos>>), After(pos), stack)
       ELSE IF Is("String", pos) /\ tokens[pos].text \in DOMAIN Instants
       THEN Return(Instant(tokens[pos].text, Instants[tokens[pos].text].kind,
                           <<pos, pos>>), After(pos), stack)
       ELSE Fail(stack)

IntervalStart ==
    /\ Returning("IntervalStart")
    /\ IF Is("Comma", pos)
       THEN Enter("IntervalEndpoint", Top.depth + 1, 0, After(pos),
                  Append(Below, Resumed("IntervalEnd", "", <<node>>)))
       ELSE Fail(Below)

IntervalEnd ==
    /\ Returning("IntervalEnd")
    /\ IF Is("RParen", pos) /\ ValidInterval(Top.acc[1], node)
       THEN Return(Node("Interval", "", {"interval"}, <<Top.acc[1], node>>,
                        <<Top.save, pos>>), After(pos), Below)
       ELSE Fail(Below)

-----------------------------------------------------------------------------
(* parseSpatialOperand, parseTextGeometryLiteral.                          *)

SpatialOperand ==
    /\ Calling("SpatialOperand")
    /\ Enter(IF IsWord(GeometryKeywords, pos) THEN "GeometryLiteral" ELSE "ScalarPrimary",
             depth + 1, 0, pos, stack)

\* The token at p names a geometry; only its text is looked at, so that in a
\* collection, where nothing has looked at its kind, a string will do.
Names(words, p) == tokens[p].text \in words

\* matchGeometryDimensionMarker: where the parenthesis of the literal at p is.
Opening(p) ==
    LET q == After(p)
    IN  IF tokens[p].text # "BBOX" /\ Is("Identifier", q) /\ tokens[q].text \in {"Z", "z"}
        THEN After(q) ELSE q

\* Where the literal at p can end.
DataEnds(p) ==
    {q \in Opening(p) .. Len(tokens) :
        /\ Encloses(tokens, Opening(p), q)
        /\ IsTextData(tokens, GeometryTypeOf[tokens[p].text], <<Opening(p) + 1, q - 1>>)}

GeometryData ==
    /\ Calling("GeometryLiteral")
    /\ ~Names({"GEOMETRYCOLLECTION"}, pos)
    /\ IF ~Names(GeometryKeywords, pos) \/ DataEnds(pos) = {} THEN Fail(stack)
       ELSE LET type == GeometryTypeOf[tokens[pos].text]
            IN  \E q \in DataEnds(pos) :
                   Return(GeometryLiteral(type, TextData(tokens, type, <<Opening(pos) + 1, q - 1>>),
                                          << >>, <<pos, q>>), After(q), stack)

\* finishTextGeometryCollection is one level down, its members one more.
GeometryCollection ==
    /\ Calling("GeometryLiteral")
    /\ Names({"GEOMETRYCOLLECTION"}, pos)
    /\ LET open == Opening(pos)
       IN  IF ~Is("LParen", open) \/ TooDeep(depth + 1) \/ Is("RParen", After(open)) THEN Fail(stack)
           ELSE Enter("GeometryLiteral", depth + 2, 0, After(open),
                      Append(stack, Frame("CollectionMore", depth + 1, "", 0, << >>)))

CollectionMore ==
    /\ Returning("CollectionMore")
    /\ LET members == Append(Top.acc, node)
       IN  IF ~ValidCollection(members, "text") THEN Fail(Below)
           ELSE IF Is("Comma", pos)
           THEN Enter("GeometryLiteral", Top.depth + 1, 0, After(pos),
                      Append(Below, Resumed("CollectionMore", "", members)))
           ELSE IF Is("RParen", pos)
           THEN Return(GeometryLiteral("GeometryCollection", List(members), << >>, <<Top.save, pos>>),
                       After(pos), Below)
           ELSE Fail(Below)

-----------------------------------------------------------------------------
(* The spatial, temporal and array predicates after their parenthesis.     *)

PredicateLeft ==
    /\ Returning("PredicateLeft")
    /\ IF Is("Comma", pos)
       THEN Enter(OperandProc(Top.op), Top.depth + 1, 0, After(pos),
                  Append(Below, Resumed("PredicateRight", Top.op, <<node>>)))
       ELSE Fail(Below)

PredicateRight ==
    /\ Returning("PredicateRight")
    /\ IF Is("RParen", pos) /\ ValidOperands(Top.op, Top.acc[1], node)
       THEN Return(Predicate(PredicateKind(Top.op), Top.op, <<Top.acc[1], node>>, <<Top.save, pos>>),
                   After(pos), Below)
       ELSE Fail(Below)

-----------------------------------------------------------------------------
(* parseArrayOperand, parseArrayLiteral, parseArrayElement                 *)

ArrayOperand ==
    /\ Calling("ArrayOperand")
    /\ Enter(IF Is("LParen", pos) THEN "ArrayLiteral" ELSE "ScalarPrimary",
             depth + 1, 0, pos, stack)

Array(values, first, last) == Node("Array", "", {"array"}, values, <<first, last>>)

ArrayLiteral ==
    /\ Calling("ArrayLiteral")
    /\ IF ~Is("LParen", pos) THEN Fail(stack)
       ELSE IF Is("RParen", After(pos))
       THEN Return(Array(<< >>, pos, After(pos)), After(After(pos)), stack)
       ELSE Enter("ArrayElement", depth + 1, 0, After(pos),
                  Append(stack, Frame("ArrayMore", depth, "", 0, << >>)))

ArrayMore ==
    /\ Returning("ArrayMore")
    /\ LET values == Append(Top.acc, node)
       IN  IF Is("Comma", pos)
           THEN Enter("ArrayElement", Top.depth + 1, 0, After(pos),
                      Append(Below, Resumed("ArrayMore", "", values)))
           ELSE IF Is("RParen", pos)
           THEN Return(Array(values, Top.save, pos), After(pos), Below)
           ELSE Fail(Below)

\* An element that starts with a parenthesis is always a nested array.
ArrayElement ==
    /\ Calling("ArrayElement")
    /\ IF Is("LParen", pos) THEN Enter("ArrayLiteral", depth + 1, 0, pos, stack)
       ELSE Enter("Expression", depth + 1, 0, pos,
                  Append(stack, Frame("ElementTry", depth, "", 0, << >>)))

ElementNotExpression ==
    /\ Failing("ElementTry")
    /\ IF IsWord({"INTERVAL"}, Top.save)
       THEN Enter("TemporalInstance", Top.depth + 1, 0, Top.save, Below)
       ELSE IF IsWord(GeometryKeywords, Top.save)
       THEN Enter("GeometryLiteral", Top.depth + 1, 0, Top.save, Below)
       ELSE EnterScalar(Top.depth + 1, Top.save, Below)

-----------------------------------------------------------------------------
(* An error return through a frame that does not handle it.                *)

CatchFrames == {"ParenTry", "ArgExpressionTry", "ArgScalarTry", "ElementTry"}

Propagate ==
    /\ mode = "fail" /\ stack # << >>
    /\ Top.pc \notin CatchFrames
    /\ Fail(Below)

Final == mode \in {"accepted", "rejected"}

Terminated == Final /\ UNCHANGED vars

Step ==
    \/ MaximumDepthExceeded \/ Finish \/ Propagate
    \/ Expression \/ OrMore \/ AndMore \/ Not \/ NotDone
    \/ PrimaryPredicate \/ PrimaryInterval \/ PrimaryGeometry \/ IntervalIs
    \/ PrimaryParen \/ ParenIsExpression \/ ParenIsScalar \/ PrimaryScalar
    \/ Comparison \/ ComparisonRight \/ ArithmeticDisabled
    \/ Like \/ LikePattern \/ Between \/ BetweenLower \/ BetweenUpper
    \/ In \/ InMore \/ IsNull \/ NoPredicate
    \/ Pattern \/ PatternDone
    \/ ArithmeticExpression \/ ArithmeticMore
    \/ PrimaryLiteral \/ PrimaryName \/ PrimaryKeyword \/ PrimarySign \/ SignDone
    \/ PrimaryGroup \/ GroupDone \/ PrimaryUnexpected
    \/ FunctionMore \/ FunctionArg \/ ArgNotExpression \/ ArgNotScalar \/ TrySucceeded
    \/ TemporalOperand \/ TemporalInstance \/ InstantFunction
    \/ Interval \/ IntervalEndpoint \/ IntervalStart \/ IntervalEnd
    \/ PredicateLeft \/ PredicateRight
    \/ SpatialOperand \/ GeometryData \/ GeometryCollection \/ CollectionMore
    \/ ArrayOperand \/ ArrayLiteral \/ ArrayMore \/ ArrayElement \/ ElementNotExpression

Next == Step \/ Terminated

Spec == Init /\ [][Next]_vars

\* The parser is called by one goroutine and runs until it returns.
FairSpec == Spec /\ WF_vars(Step)

-----------------------------------------------------------------------------
(* What the control of the parser keeps to.                                *)

Modes == {"call", "return", "fail", "accepted", "rejected"}

Procs == DepthChecked \cup {"Not", "Primary", "Pattern", "FunctionArg",
                            "ArrayElement", "TemporalInstance"}

PrimaryFrames == {"ParenTry", "IntervalIs", "PredicateOf", "ComparisonRight",
                  "LikePattern", "BetweenLower", "BetweenUpper", "InMore"}
CheckedFrames == {"OrMore", "ArithmeticMore", "SignDone", "GroupDone", "ArrayMore",
                  "IntervalStart", "IntervalEnd", "CollectionMore"}
OtherFrames   == {"AndMore", "ElementTry", "FunctionMore", "ArgExpressionTry",
                  "ArgScalarTry", "NotDone", "PredicateLeft", "PredicateRight",
                  "PatternDone"}
FramePcs == PrimaryFrames \cup CheckedFrames \cup OtherFrames

\* How many calls lie between the procedure of a frame, or a called one,
\* and the last depth check before it.
FrameSlack(pc) ==
    IF pc \in CheckedFrames THEN 0
    ELSE IF pc \in {"AndMore", "ElementTry", "FunctionMore"} THEN 1
    ELSE IF pc \in {"ArgExpressionTry", "ArgScalarTry", "NotDone"} THEN 2
    ELSE IF pc \in PrimaryFrames THEN 3
    ELSE 4

CallSlack(pr) ==
    IF pr = "ArrayElement" THEN 1
    ELSE IF pr \in {"Not", "FunctionArg"} THEN 2
    ELSE IF pr = "Primary" THEN 3
    ELSE IF pr \in {"Pattern", "TemporalInstance"} THEN 4
    ELSE 6

\* parseNot and parsePattern call themselves without a depth check, one
\* token further on each time, so a call can be deeper than MaxDepth by a
\* token for every level.
FrameOK(f) ==
    /\ f.pc \in FramePcs
    /\ f.depth \in Nat /\ f.prec \in Nat
    /\ f.save \in 1..Len(tokens)
    /\ f.depth <= cfg.maxDepth + FrameSlack(f.pc) + f.save

\* The stack st is one the parser can have when its position is p: each
\* frame is deeper than the frames below it, and started no earlier.
StackOK(st, p) ==
    /\ st \in Seq({st[i] : i \in DOMAIN st})
    /\ \A i \in 1..Len(st) :
         FrameOK(st[i]) /\ st[i].depth >= i - 1 /\ st[i].save <= p
    /\ \A i, j \in 1..Len(st) : i <= j => st[i].save <= st[j].save

\* The type invariant: in particular every index into tokens is in range.
TypeOK ==
    /\ tokens \in Inputs /\ cfg \in Configs
    /\ pos \in 1..Len(tokens)
    /\ mode \in Modes
    /\ proc \in Procs
    /\ depth \in Nat /\ minPrec \in Nat

\* Positions saved for backtracking never lie ahead of the parser or of the
\* positions saved by inner frames (startPos and start in parsePrimary-
\* Expression, parseFunctionArg, parseArrayElement): giving up an
\* alternative only moves back, and to a point the enclosing procedure
\* reached.
SavesOrdered ==
    /\ \A i \in 1..Len(stack) : stack[i].save \in 1..pos
    /\ \A i, j \in 1..Len(stack) : i <= j => stack[i].save <= stack[j].save

\* The recursion is bounded by MaxDepth and the number of tokens: no input
\* and no limit make the parser recurse further, whatever it retries.
RecursionBounded ==
    /\ Len(stack) <= cfg.maxDepth + Len(tokens) + 5
    /\ depth <= cfg.maxDepth + Len(tokens) + 6

\* The inductive invariant the two follow from.
Inv ==
    /\ TypeOK
    /\ StackOK(stack, pos)
    /\ depth <= cfg.maxDepth + Len(tokens) + 6
    /\ mode = "call" => /\ Len(stack) <= depth
                        /\ depth <= cfg.maxDepth + CallSlack(proc) + pos

\* "WithMaxDepth limits recursive parse depth": no call is deeper than the
\* limit by more than the six levels that may lie between two depth checks.
RecursionWithinMaxDepth == depth <= cfg.maxDepth + 6

\* Every input is accepted or rejected.
Terminates == <>Final
=============================================================================
