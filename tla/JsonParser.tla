------------------------------ MODULE JsonParser -----------------------------
(***************************************************************************)
(* The recursive-descent parser of CQL2 JSON, internal/parser/             *)
(* json_parser.go with the GeoJSON part of spatial.go, as a pushdown       *)
(* machine.  A Go call is a "call" state naming the procedure, the value   *)
(* it reads, that value's path and the depth argument.  A function that    *)
(* reads operands and then builds a node is a frame that holds the calls   *)
(* it makes, the number of the next one and, in acc, their results; after  *)
(* the last one the mode is "complete" and the function's last lines run.  *)
(* A function that tries alternatives is a frame with pc "Try", next being *)
(* the one tried.  Calls in tail position leave no frame.                  *)
(*                                                                         *)
(* encoding/json has already decoded the input: a value is one of          *)
(* JsonValues, and text that is not JSON is not part of this module.  An   *)
(* error is only the fact that parsing failed, so two checks of a function *)
(* that change nothing in between are one guard here.                      *)
(***************************************************************************)
EXTENDS Geometry, JsonNames

CONSTANT
    Cases       \* what is parsed, and with which ParseConfig: [input, cfg]

Inputs  == {c.input : c \in Cases}
Configs == {c.cfg : c \in Cases}

ASSUME ConfigsAssumption == \A c \in Configs : c.maxDepth \in Nat \ {0}

VARIABLES
    input,      \* the document
    cfg,        \* the ParseConfig
    mode,       \* call, complete, return or fail; accepted or rejected
    proc,       \* in a call: the procedure, the value, its path, the depth
    val,
    path,
    depth,
    node,       \* in a return: the node returned
    stack       \* the pending frames, innermost last

vars == <<input, cfg, mode, proc, val, path, depth, node, stack>>

NoNode == Node("None", "", {}, << >>, << >>)

-----------------------------------------------------------------------------
(* Paths (api.JSONPath), and the predicates of spatial, temporal and array *)
(* conformance.                                                            *)

Key(k)   == <<k, 0>>
Index(i) == <<"[]", i>>

ArgPath(p, i) == p \o <<Key("args"), Index(i)>>

\* Mutation of PredicateEnabled: basic spatial conformance enables them all.
AnySpatialEnabled(op) ==
    CASE op \in TemporalOps -> cfg.temporal
      [] op \in ArrayOps    -> cfg.arrays
      [] OTHER              -> cfg.spatial # "none"

PredicateEnabled(op) ==
    CASE op \in TemporalOps -> cfg.temporal
      [] op \in ArrayOps    -> cfg.arrays
      [] OTHER              -> SpatialEnabled(cfg.spatial, op)

OperandProc(op) ==
    CASE op \in TemporalOps -> "TemporalOperand"
      [] op \in ArrayOps    -> "ArrayOperand"
      [] OTHER              -> "SpatialOperand"

-----------------------------------------------------------------------------
(* Frames and control.                                                     *)

Call(pr, v, p, d) == [proc |-> pr, val |-> v, path |-> p, depth |-> d]

\* Frames read the value v at the current path.
Frame(pc, op, calls) ==
    [pc |-> pc, op |-> op, src |-> path, val |-> val, calls |-> calls, next |-> 1, acc |-> << >>]

\* The frame f, with the results acc, at its next call.
Advanced(f, acc) ==
    [pc |-> f.pc, op |-> f.op, src |-> f.src, val |-> f.val, calls |-> f.calls,
     next |-> f.next + 1, acc |-> acc]

Top   == stack[Len(stack)]
Below == SubSeq(stack, 1, Len(stack) - 1)

Enter(c, st) ==
    /\ mode' = "call" /\ proc' = c.proc /\ val' = c.val /\ path' = c.path
    /\ depth' = c.depth /\ node' = NoNode /\ stack' = st
    /\ UNCHANGED <<input, cfg>>

Return(n, st) ==
    /\ mode' = "return" /\ node' = n /\ stack' = st
    /\ UNCHANGED <<input, cfg, proc, val, path, depth>>

Fail(st) ==
    /\ mode' = "fail" /\ node' = NoNode /\ stack' = st
    /\ UNCHANGED <<input, cfg, proc, val, path, depth>>

\* Make the call of frame f that is next, or run its last lines.
Continue(f, st) ==
    IF f.next \in DOMAIN f.calls
    THEN Enter(f.calls[f.next], Append(st, f))
    ELSE /\ mode' = "complete" /\ node' = NoNode /\ stack' = Append(st, f)
         /\ UNCHANGED <<input, cfg, proc, val, path, depth>>

\* An argument of a call, read by pr, and all of them.
Argument(i, pr, d) == Call(pr, Args(val)[i], ArgPath(path, i - 1), d)

\* Mutation of Arguments: they are read at the depth of their call.
ArgumentsAtDepth(pr, d) == [i \in DOMAIN Args(val) |-> Argument(i, pr, d - 1)]

Arguments(pr, d) == [i \in DOMAIN Args(val) |-> Argument(i, pr, d)]

\* parseJSONFunction on the current call.
Function(d, st) == Continue(Frame("Function", Folded(OpName(val)), Arguments("Node", d + 1)), st)

\* ... in a context that wants a kind of result.
FunctionOf(want, d) == Function(d, Append(stack, Frame("Wanted", want, << >>)))

\* Mutation of DepthChecked: parseJSONExpression has lost its check.
UncheckedExpression == {"Scalar", "Pattern", "TemporalInstance", "Interval", "Endpoint",
                        "ArrayLiteral", "Geometry"}

\* The procedures that start by comparing their depth with MaxDepth; Numeric
\* and Character, and with them nested operators and casts, do not.
DepthChecked == {"Expression", "Scalar", "Pattern", "TemporalInstance", "Interval",
                 "Endpoint", "ArrayLiteral", "Geometry"}

TooDeep == proc \in DepthChecked /\ depth > cfg.maxDepth

Calling(pr)  == mode = "call" /\ proc = pr /\ ~TooDeep
Complete(pc) == mode = "complete" /\ Top.pc = pc

MaximumDepthExceeded ==
    /\ mode = "call" /\ TooDeep
    /\ Fail(stack)

-----------------------------------------------------------------------------
(* parseJSON                                                               *)

Init ==
    /\ \E c \in Cases : input = c.input /\ cfg = c.cfg
    /\ mode = "call" /\ proc = "Expression" /\ val = input /\ path = << >> /\ depth = 0
    /\ node = NoNode
    /\ stack = << >>

Finish ==
    /\ stack = << >>
    /\ mode \in {"return", "fail"}
    /\ mode' = IF mode = "return" THEN "accepted" ELSE "rejected"
    /\ UNCHANGED <<input, cfg, proc, val, path, depth, node, stack>>

\* An operand has been read.
Collect ==
    /\ mode = "return" /\ stack # << >> /\ Top.pc # "Try"
    /\ Continue(Advanced(Top, Append(Top.acc, node)), Below)

\* An error returns through every function that tries nothing else.
Unwind ==
    /\ mode = "fail" /\ stack # << >> /\ Top.pc # "Try"
    /\ Fail(Below)

AlternativeSucceeded ==
    /\ mode = "return" /\ stack # << >> /\ Top.pc = "Try"
    /\ Return(node, Below)

TemporalKeys == {"date", "timestamp", "interval"}
GeometryKeys == {"type", "coordinates", "geometries", "bbox"}

\* Mutation of Committed: no error is final.
NeverCommitted(c) == FALSE

\* hasJSONTemporalInstanceKey, hasJSONGeometryLiteralKey: the value can only
\* have been meant as what has just failed, so the error is final.
Committed(c) ==
    \/ c.proc = "TemporalInstance" /\ \E k \in TemporalKeys : Has(c.val, k)
    \/ c.proc = "Geometry" /\ \E k \in GeometryKeys : Has(c.val, k)

\* Mutations of AlternativeFailed: the first alternative is the only one; the
\* frame stays on the stack; the same alternative is tried again.
AlternativeFinal ==
    /\ mode = "fail" /\ stack # << >> /\ Top.pc = "Try"
    /\ Fail(Below)

LastAlternative == Top.next + 1 \notin DOMAIN Top.calls \/ Committed(Top.calls[Top.next])

AlternativeLeaks ==
    /\ mode = "fail" /\ stack # << >> /\ Top.pc = "Try"
    /\ IF LastAlternative THEN Fail(Below)
       ELSE Continue(Advanced(Top, << >>), stack)

AlternativeRetried ==
    /\ mode = "fail" /\ stack # << >> /\ Top.pc = "Try"
    /\ IF LastAlternative THEN Fail(Below) ELSE Continue(Top, Below)

AlternativeFailed ==
    /\ mode = "fail" /\ stack # << >> /\ Top.pc = "Try"
    /\ IF LastAlternative THEN Fail(Below) ELSE Continue(Advanced(Top, << >>), Below)

-----------------------------------------------------------------------------
(* parseJSONLiteral, propertyRef, validateDateLiteral and its twin.        *)

LiteralType(v) == IF v.t = "bool" THEN "boolean" ELSE v.t

Representable(v) == v.t = "number" => v.text \notin UnrepresentableNumbers

ReturnLiteral == Return(Node("Literal", val.text, {LiteralType(val)}, << >>, path), stack)

Registered(name) == cfg.restricted => name \in DOMAIN cfg.properties

PropertyTypeOf(name) ==
    IF cfg.restricted /\ name \in DOMAIN cfg.properties THEN cfg.properties[name] ELSE "any"

ReturnProperty ==
    LET member == val.fields["property"]
        type   == PropertyTypeOf(member.text)
    IN  IF /\ member.t = "string" /\ member.text # ""
           /\ Registered(member.text) /\ type \in KnownPropertyTypes \cup {"any"}
        THEN Return(Node("Property", member.text, {type}, << >>, path), stack)
        ELSE Fail(stack)

IsInstant(kind, v) == v.t = "string" /\ v.text \in DOMAIN Instants /\ Instants[v.text].kind = kind

\* validateJSONTemporalInstanceOneOf
OneTemporalKey == Cardinality({k \in TemporalKeys : Has(val, k)}) = 1

\* parseJSONTemporalInstant, on an object with a date or a timestamp.
ReturnInstant ==
    LET kind == IF Has(val, "date") THEN "date" ELSE "timestamp"
    IN  IF OneTemporalKey /\ IsInstant(kind, val.fields[kind])
        THEN Return(Instant(val.fields[kind].text, kind, path), stack)
        ELSE Fail(stack)

-----------------------------------------------------------------------------
(* parseJSONExpression                                                     *)

ExpressionIs(ops) == Calling("Expression") /\ IsCall(val) /\ OpName(val) \in ops

Arity(n) == Len(Args(val)) = n

LiteralExpression ==
    /\ Calling("Expression") /\ val.t = "bool"
    /\ ReturnLiteral

NotAnExpression ==
    /\ Calling("Expression")
    /\ val.t # "bool" /\ ~IsCall(val)
    /\ Fail(stack)

PredicateExpression ==
    /\ Calling("Expression") /\ IsCall(val) /\ IsPredicateOp(OpName(val))
    /\ LET op == Folded(OpName(val))
       IN  IF PredicateEnabled(op) /\ Arity(2)
           THEN Continue(Frame("Predicate", op, Arguments(OperandProc(op), depth + 1)), stack)
           ELSE Fail(stack)

\* Mutation of PredicateComplete: the operands are not validated.
PredicateUnvalidated ==
    /\ Complete("Predicate")
    /\ Return(Predicate(PredicateKind(Top.op), Top.op, Top.acc, Top.src), Below)

PredicateComplete ==
    /\ Complete("Predicate")
    /\ IF ValidOperands(Top.op, Top.acc[1], Top.acc[2])
       THEN Return(Predicate(PredicateKind(Top.op), Top.op, Top.acc, Top.src), Below)
       ELSE Fail(Below)

LogicalExpression ==
    /\ ExpressionIs({"and", "or"})
    /\ IF Len(Args(val)) >= 2
       THEN Continue(Frame("Logical", Folded(OpName(val)), Arguments("Expression", depth + 1)), stack)
       ELSE Fail(stack)

LogicalComplete ==
    /\ Complete("Logical")
    /\ Return(Predicate("Logical", Top.op, Top.acc, Top.src), Below)

NotExpression ==
    /\ ExpressionIs({"not"})
    /\ IF Arity(1)
       THEN Continue(Frame("Not", "NOT", Arguments("Expression", depth + 1)), stack)
       ELSE Fail(stack)

\* negateJSONPredicateExpression: the flag of an unflagged predicate is set
\* in place, and its span becomes the NOT's.
Negated(n, src) ==
    IF n.kind \in {"Like", "Between", "In", "IsNull"} /\ n.op = ""
    THEN Predicate(n.kind, "NOT", n.args, src)
    ELSE Predicate("Logical", "NOT", <<n>>, src)

NotComplete ==
    /\ Complete("Not")
    /\ Return(Negated(Top.acc[1], Top.src), Below)

ComparisonExpression ==
    /\ ExpressionIs(ComparisonOps)
    /\ IF Arity(2)
       THEN Continue(Frame("Comparison", OpName(val), Arguments("Scalar", depth + 1)), stack)
       ELSE Fail(stack)

ComparisonComplete ==
    /\ Complete("Comparison")
    /\ IF /\ ValidComparison(Top.op, Top.acc[1], Top.acc[2])
          /\ ValidPropertyUse(cfg.propertyProperty, Top.acc)
       THEN Return(Predicate("Comparison", Top.op, Top.acc, Top.src), Below)
       ELSE Fail(Below)

LikeExpression ==
    /\ ExpressionIs({"like"})
    /\ IF cfg.advanced /\ Arity(2)
       THEN Continue(Frame("Like", "", <<Argument(1, "Character", depth + 1),
                                         Argument(2, "Pattern", depth + 1)>>), stack)
       ELSE Fail(stack)

BetweenExpression ==
    /\ ExpressionIs({"between"})
    /\ IF cfg.advanced /\ Arity(3)
       THEN Continue(Frame("Between", "", Arguments("Numeric", depth + 1)), stack)
       ELSE Fail(stack)

LikeOrBetweenComplete ==
    /\ Complete("Like") \/ Complete("Between")
    /\ IF ValidPropertyUse(cfg.propertyProperty, Top.acc)
       THEN Return(Predicate(Top.pc, "", Top.acc, Top.src), Below)
       ELSE Fail(Below)

\* Decoding null into a slice leaves it empty and is no error, so null is a
\* list wherever the code does not look for the bracket first.
IsList(v) == v.t \in {"array", "null"}

\* Mutation of Items: an item is read at the path of its list.
ItemsUnplaced(v, pr, p, d) == [i \in DOMAIN v.items |-> Call(pr, v.items[i], p, d)]

Items(v, pr, p, d) == [i \in DOMAIN v.items |-> Call(pr, v.items[i], Append(p, Index(i - 1)), d)]

\* The operand of IN, then the items of its list.
ListCalls(pr) ==
    LET items == Args(val)[2].items
    IN  [i \in 1 .. Len(items) + 1 |->
            IF i = 1 THEN Argument(1, "Scalar", depth + 1)
            ELSE Call(pr, items[i - 1], Append(ArgPath(path, 1), Index(i - 2)), depth + 2)]

\* parseJSONScalarArray checks the list only once the first operand is read.
InExpression ==
    /\ ExpressionIs({"in"})
    /\ IF cfg.advanced /\ Arity(2) /\ IsList(Args(val)[2])
       THEN Continue(Frame("In", "", ListCalls("Scalar")), stack)
       ELSE Fail(stack)

InComplete ==
    /\ Complete("In")
    /\ LET expr   == Head(Top.acc)
           values == Tail(Top.acc)
       IN  IF ~ValidIn(expr, values) THEN Fail(Below)
           ELSE LET args == <<expr>> \o [i \in DOMAIN values |-> InCoerce(expr, values[i])]
                IN  IF ValidPropertyUse(cfg.propertyProperty, args)
                    THEN Return(Predicate("In", "", args, Top.src), Below)
                    ELSE Fail(Below)

IsNullExpression ==
    /\ ExpressionIs({"isNull"})
    /\ IF Arity(1)
       THEN Continue(Frame("IsNull", "", Arguments("IsNullOperand", depth + 1)), stack)
       ELSE Fail(stack)

IsNullComplete ==
    /\ Complete("IsNull")
    /\ Return(Predicate("IsNull", "", Top.acc, Top.src), Below)

\* The names left: casei, accenti, the arithmetic operators and miscased
\* predicates are refused, any other is a function.
FunctionExpression ==
    /\ Calling("Expression") /\ IsCall(val)
    /\ LET op == OpName(val)
       IN  /\ ~IsPredicateOp(op)
           /\ op \notin {"and", "or", "not", "like", "between", "in", "isNull"} \cup ComparisonOps
           /\ IF op \in ReservedJSONOps \/ MiscasedPredicate(op) THEN Fail(stack)
              ELSE FunctionOf("boolean", depth)

-----------------------------------------------------------------------------
(* parseJSONFunction and the calls that want a kind of result.             *)

FunctionComplete ==
    /\ Complete("Function")
    /\ IF ValidCall(cfg.functions, Top.op, Top.acc)
       THEN Return(Node("Function", Top.op, cfg.functions[Top.op].returns, Top.acc, Top.src), Below)
       ELSE Fail(Below)

IsWanted(want, n) ==
    CASE want = "boolean"   -> Returns(n, "boolean")
      [] want = "character" -> IsCharacter(n)
      [] want = "numeric"   -> IsNumeric(n)

WantedComplete ==
    /\ Complete("Wanted")
    /\ IF IsWanted(Top.op, Top.acc[1]) THEN Return(Top.acc[1], Below) ELSE Fail(Below)

-----------------------------------------------------------------------------
(* parseJSONScalar                                                         *)

ScalarLiteral ==
    /\ Calling("Scalar") /\ val.t # "object"
    /\ IF val.t \in {"array", "null"} \/ ~Representable(val) THEN Fail(stack)
       ELSE ReturnLiteral

ScalarProperty ==
    /\ Calling("Scalar") /\ Has(val, "property")
    /\ ReturnProperty

ScalarInstant ==
    /\ Calling("Scalar") /\ ~Has(val, "property")
    /\ Has(val, "date") \/ Has(val, "timestamp")
    /\ ReturnInstant

\* parseJSONCharacterFunction and parseJSONArithmeticExpression.
Cast(d, st) ==
    IF Arity(1)
    THEN Continue(Frame("Function", Folded(OpName(val)), Arguments("Character", d + 1)), st)
    ELSE Fail(st)

Arithmetics(d, st) ==
    IF cfg.arithmetic /\ Arity(2)
    THEN Continue(Frame("Arithmetic", Folded(OpName(val)), Arguments("Numeric", d + 1)), st)
    ELSE Fail(st)

ArithmeticComplete ==
    /\ Complete("Arithmetic")
    /\ Return(Node("Arithmetic", Top.op, {"number"}, Top.acc, Top.src), Below)

ScalarOperation ==
    /\ Calling("Scalar") /\ val.t = "object"
    /\ ~\E k \in {"property", "date", "timestamp"} : Has(val, k)
    /\ IF ~IsCall(val) THEN Fail(stack)
       ELSE LET op == OpName(val)
            IN  CASE op \in {"casei", "accenti"} -> Cast(depth, stack)
                  [] op \in ArithmeticOps        -> Arithmetics(depth, stack)
                  [] op \in ReservedJSONOps \ ({"casei", "accenti"} \cup ArithmeticOps) -> Fail(stack)
                  [] OTHER                       -> Function(depth, stack)

-----------------------------------------------------------------------------
(* parseJSONCharacterExpression, parseJSONNumericExpression and            *)
(* parseJSONPatternExpression                                              *)

\* The operand of a cast or of LIKE, and that of an arithmetic operator: the
\* literals, the operations and the results they take.
OperandOf == [Character |-> [literal |-> "string", want |-> "character"],
              Numeric   |-> [literal |-> "number", want |-> "numeric"]]

CallingTyped == mode = "call" /\ proc \in DOMAIN OperandOf

TypedLiteral ==
    /\ CallingTyped /\ val.t # "object"
    /\ IF val.t = OperandOf[proc].literal /\ Representable(val) THEN ReturnLiteral
       ELSE Fail(stack)

TypedProperty ==
    /\ CallingTyped /\ Has(val, "property")
    /\ Continue(Frame("Wanted", OperandOf[proc].want, <<Call("Scalar", val, path, depth + 1)>>), stack)

TypedOperation ==
    /\ CallingTyped /\ val.t = "object" /\ ~Has(val, "property")
    /\ IF ~IsCall(val) THEN Fail(stack)
       ELSE LET op == OpName(val)
            IN  CASE proc = "Character" /\ op \in {"casei", "accenti"} -> Cast(depth + 1, stack)
                  [] proc = "Numeric" /\ op \in ArithmeticOps -> Arithmetics(depth + 1, stack)
                  [] op \notin ReservedJSONOps -> FunctionOf(OperandOf[proc].want, depth + 1)
                  [] OTHER -> Fail(stack)

\* A pattern is a string, or casts of one.
Pattern ==
    /\ Calling("Pattern")
    /\ CASE val.t = "string" -> ReturnLiteral
         [] IsCall(val) /\ OpName(val) \in {"casei", "accenti"} /\ Arity(1) ->
              Continue(Frame("Function", Folded(OpName(val)), Arguments("Pattern", depth + 1)), stack)
         [] OTHER -> Fail(stack)

-----------------------------------------------------------------------------
(* Operands of the predicates, of isNull and of functions.                 *)

\* What each context tries, in order; isNull and a function argument try it
\* at their own depth.
Alternatives ==
    [TemporalOperand |-> <<"TemporalInstance", "Scalar">>,
     SpatialOperand  |-> <<"Geometry", "Scalar">>,
     ArrayOperand    |-> <<"ArrayLiteral", "Scalar">>,
     IsNullOperand   |-> <<"Expression", "Scalar", "TemporalInstance", "Geometry">>,
     Node            |-> <<"Expression", "Scalar", "TemporalInstance", "Geometry", "ArrayLiteral">>]

Operand ==
    /\ mode = "call" /\ proc \in DOMAIN Alternatives
    /\ LET d == IF proc \in {"IsNullOperand", "Node"} THEN depth ELSE depth + 1
       IN  Continue(Frame("Try", "", [i \in DOMAIN Alternatives[proc] |->
                                           Call(Alternatives[proc][i], val, path, d)]), stack)

\* parseJSONArrayLiteral: null is an empty array literal too.
ArrayLiteral ==
    /\ Calling("ArrayLiteral")
    /\ IF IsList(val) THEN Continue(Frame("Array", "", Items(val, "Node", path, depth + 1)), stack)
       ELSE Fail(stack)

ArrayComplete ==
    /\ Complete("Array")
    /\ Return(Node("Array", "", {"array"}, Top.acc, Top.src), Below)

-----------------------------------------------------------------------------
(* parseJSONTemporalInstance, ...Interval and ...IntervalEndpoint          *)

TemporalInstance ==
    /\ Calling("TemporalInstance")
    /\ IF ~OneTemporalKey THEN Fail(stack)
       ELSE IF Has(val, "interval") THEN Enter(Call("Interval", val, path, depth + 1), stack)
       ELSE ReturnInstant

Interval ==
    /\ Calling("Interval")
    /\ LET ends == val.fields["interval"]
       IN  IF OneTemporalKey /\ Has(val, "interval") /\ ends.t = "array" /\ Len(ends.items) = 2
           THEN Continue(Frame("Interval", "", Items(ends, "Endpoint", Append(path, Key("interval")),
                                                     depth + 1)), stack)
           ELSE Fail(stack)

IntervalComplete ==
    /\ Complete("Interval")
    /\ IF ValidInterval(Top.acc[1], Top.acc[2])
       THEN Return(Node("Interval", "", {"interval"}, Top.acc, Top.src), Below)
       ELSE Fail(Below)

EndpointString ==
    /\ Calling("Endpoint") /\ val.t # "object"
    /\ CASE val.t = "string" /\ val.text = ".." -> Return(Node("Unbounded", "..", {}, << >>, path), stack)
         [] val.t = "string" /\ val.text \in DOMAIN Instants ->
              Return(Instant(val.text, Instants[val.text].kind, path), stack)
         [] OTHER -> Fail(stack)

EndpointProperty ==
    /\ Calling("Endpoint") /\ Has(val, "property")
    /\ ReturnProperty

EndpointFunction ==
    /\ Calling("Endpoint") /\ val.t = "object" /\ ~Has(val, "property")
    /\ IF IsCall(val) /\ OpName(val) \notin ReservedJSONOps THEN Function(depth + 1, stack)
       ELSE Fail(stack)

-----------------------------------------------------------------------------
(* parseJSONGeometryLiteral                                                *)

GeometryBox ==
    /\ Calling("Geometry") /\ ~Has(val, "op") /\ IsJsonBox(val)
    /\ IF ValidJsonBox(val)
       THEN Return(GeometryLiteral("BBox", JsonBBox(val)[1], << >>, path), stack)
       ELSE Fail(stack)

GeometryMembers ==
    /\ Calling("Geometry") /\ IsGeoJson(val) /\ JsonType(val) = "GeometryCollection"
    /\ LET members == val.fields["geometries"]
       IN  IF /\ Has(val, "bbox") => IsJsonBBox(val.fields["bbox"])
              /\ Has(val, "geometries") /\ members.t = "array" /\ Len(members.items) >= 2
           THEN Continue(Frame("Collection", "", Items(members, "Geometry",
                                      Append(path, Key("geometries")), depth + 1)), stack)
           ELSE Fail(stack)

GeometryCollectionComplete ==
    /\ Complete("Collection")
    /\ IF ValidCollection(Top.acc, "json")
       THEN Return(GeometryLiteral("GeometryCollection", List(Top.acc), JsonBBox(Top.val), Top.src), Below)
       ELSE Fail(Below)

GeometryData ==
    /\ Calling("Geometry")
    /\ ~(~Has(val, "op") /\ IsJsonBox(val))
    /\ ~(IsGeoJson(val) /\ JsonType(val) = "GeometryCollection")
    /\ IF IsGeoJson(val) /\ ValidJsonGeometry(val)
       THEN Return(GeometryLiteral(JsonType(val), JsonData(JsonType(val), val.fields["coordinates"]),
                                   JsonBBox(val), path), stack)
       ELSE Fail(stack)

-----------------------------------------------------------------------------
Final == mode \in {"accepted", "rejected"}

Terminated == Final /\ UNCHANGED vars

Step ==
    \/ MaximumDepthExceeded \/ Finish
    \/ Collect \/ Unwind \/ AlternativeSucceeded \/ AlternativeFailed
    \/ LiteralExpression \/ NotAnExpression
    \/ PredicateExpression \/ PredicateComplete
    \/ LogicalExpression \/ LogicalComplete \/ NotExpression \/ NotComplete
    \/ ComparisonExpression \/ ComparisonComplete
    \/ LikeExpression \/ BetweenExpression \/ LikeOrBetweenComplete
    \/ InExpression \/ InComplete \/ IsNullExpression \/ IsNullComplete
    \/ FunctionExpression \/ FunctionComplete \/ WantedComplete
    \/ ScalarLiteral \/ ScalarProperty \/ ScalarInstant \/ ScalarOperation
    \/ ArithmeticComplete \/ TypedLiteral \/ TypedProperty \/ TypedOperation \/ Pattern
    \/ Operand \/ ArrayLiteral \/ ArrayComplete
    \/ TemporalInstance \/ Interval \/ IntervalComplete
    \/ EndpointString \/ EndpointProperty \/ EndpointFunction
    \/ GeometryBox \/ GeometryMembers \/ GeometryCollectionComplete \/ GeometryData

Next == Step \/ Terminated

Spec == Init /\ [][Next]_vars

\* The parser is called by one goroutine and runs until it returns.
FairSpec == Spec /\ WF_vars(Step)

-----------------------------------------------------------------------------
(* How deep the parser recurses.                                           *)

Procs == DepthChecked \cup DOMAIN OperandOf \cup DOMAIN Alternatives

FramePcs == {"Try", "Predicate", "Logical", "Not", "Comparison", "Like", "Between", "In",
             "IsNull", "Function", "Wanted", "Arithmetic", "Array", "Interval", "Collection"}

\* The levels a procedure may still add at its own value before a path is
\* extended; an interval has already used one.
Ahead(pr) ==
    IF pr = "Interval" THEN -1
    ELSE IF pr \in {"TemporalOperand", "SpatialOperand", "ArrayOperand"} \cup DOMAIN OperandOf THEN 1
    ELSE 0

\* The frames it may still add there.
Pending(pr) ==
    IF pr = "Expression" THEN 0
    ELSE IF pr \in DOMAIN Alternatives \cup DOMAIN OperandOf THEN 2
    ELSE 1

\* A call the parser can make with n frames on the stack.
CallOK(c, n) ==
    /\ c.proc \in Procs /\ c.depth \in Nat
    /\ c.path \in Seq({c.path[i] : i \in DOMAIN c.path})
    /\ c.depth + Ahead(c.proc) <= Len(c.path)
    /\ n + Pending(c.proc) <= 2 * Len(c.path)

FrameOK(f, n) ==
    /\ f.pc \in FramePcs /\ f.next \in Nat
    /\ \A i \in DOMAIN f.calls : CallOK(f.calls[i], n)

StackOK(st) ==
    /\ st \in Seq({st[i] : i \in DOMAIN st})
    /\ \A n \in 1..Len(st) : FrameOK(st[n], n)

TypeOK ==
    /\ input \in Inputs /\ cfg \in Configs
    /\ mode \in {"call", "complete", "return", "fail", "accepted", "rejected"}
    /\ proc \in Procs /\ depth \in Nat
    /\ mode = "complete" => stack # << >> /\ Top.pc # "Try"

\* The inductive invariant: the call being made, and those still to make,
\* are bounded by the length of their paths.
Inv ==
    /\ TypeOK
    /\ mode = "call" => CallOK(Call(proc, val, path, depth), Len(stack))
    /\ StackOK(stack)

\* Where the depth is not compared with MaxDepth it is still no more than
\* the number of keys and indices that lead to the value being read, and a
\* level of these adds at most two frames: the document bounds the parser's
\* recursion, whatever alternatives it tries.
RecursionBounded ==
    mode = "call" => depth <= Len(path) + 1 /\ Len(stack) <= 2 * Len(path)

\* "WithMaxDepth limits recursive parse depth": no call is deeper than the
\* limit by more than the two levels that may lie between two checks.
RecursionWithinMaxDepth == depth <= cfg.maxDepth + 2

\* Every document is accepted or rejected.
Terminates == <>Final
=============================================================================
