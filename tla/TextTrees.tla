------------------------------ MODULE TextTrees ------------------------------
(***************************************************************************)
(* What a tree accepted by the text parser promises a consumer, and what   *)
(* the parser keeps to while it builds one.                                *)
(***************************************************************************)
EXTENDS TextParser, Trees

\* The registries and conformance switches are fail-closed: wherever in the
\* tree a construct was read, directly or after an alternative was given up,
\* its conformance class is enabled and its name registered, and with no
\* property-property conformance the right sides hold no property.
FailClosed == mode = "accepted" => EnabledTree(cfg, node)

\* An accepted predicate relates operands that can have values of one sort.
OperandsCanMeet == mode = "accepted" => MeetingOperands(node)

\* No backtracking and no nesting of lists lets a literal through that is
\* off the globe, open or upside down, and a collection holds only members
\* a GeoJSON collection may hold (validateCoordinate to validateBBox).
GeometriesAreSound == mode = "accepted" => SoundGeometries(node)

\* Each level of an accepted tree was read at least one level of depth below
\* the one above it and ended in a depth check, so MaxDepth bounds the
\* nesting of the tree even where parseNot and parsePattern do not check.
TreeWithinDepth == mode = "accepted" => NestsWithin("text", node, cfg.maxDepth)

-----------------------------------------------------------------------------
(* The three follow from what holds of every operand in a pending frame.   *)

\* What the code before the call a frame waits for has already checked.
Opened(f) ==
    /\ f.pc \in {"LikePattern", "BetweenLower", "BetweenUpper", "InMore"} => cfg.advanced
    /\ f.pc \in {"ArithmeticMore", "SignDone"} => cfg.arithmetic
    /\ f.pc \in {"PredicateLeft", "PredicateRight"} =>
         f.op \in PredicateWords /\ PredicateEnabled(f.op)
    /\ f.pc = "PatternDone" => f.op \in {"CASEI", "ACCENTI"}
    /\ f.pc = "LikePattern" => IsCharacter(f.acc[1])
    /\ f.pc \in {"BetweenLower", "BetweenUpper", "ArithmeticMore"} =>
         \A i \in DOMAIN f.acc : IsNumeric(f.acc[i])

\* How many operands it holds.
OperandCount(pc) ==
    CASE pc \in {"ComparisonRight", "LikePattern", "BetweenLower", "PredicateRight", "IntervalEnd"} -> {1}
      [] pc = "BetweenUpper"   -> {2}
      [] pc = "ArithmeticMore" -> {0, 1}
      [] pc = "InMore"         -> Nat \ {0}
      [] OTHER                 -> Nat

FrameSound(f) ==
    /\ f.acc \in Seq({f.acc[i] : i \in DOMAIN f.acc})
    /\ Len(f.acc) \in OperandCount(f.pc)
    /\ \A i \in DOMAIN f.acc : SoundTree(cfg, f.acc[i])
    /\ Opened(f)

OperandsSound ==
    /\ SoundTree(cfg, node)
    /\ \A i \in 1..Len(stack) : FrameSound(stack[i])
    /\ mode = "call" /\ proc = "Arithmetic" => cfg.arithmetic

\* parsePattern calls parseScalar, and still only a string or a cast comes
\* back: at a string the scalar can go no further than the string itself.
PatternFrames == {"LikePattern", "PatternDone"}

AtString == Is("String", pos)

\* The pattern is being read with the frame i on the stack.
PatternRead(i) ==
    \/ /\ i = Len(stack)
       /\ mode = "call" => proc = "Pattern" \/ (proc \in {"Arithmetic", "ScalarPrimary"} /\ AtString)
       /\ mode = "return" => IsPattern(node)
    \/ /\ i + 1 = Len(stack)
       /\ Top.pc = "ArithmeticMore" /\ Top.acc = << >>
       /\ mode = "call" => proc = "ScalarPrimary" /\ AtString
       /\ mode = "return" => node.kind = "Literal" /\ node.types = {"string"}
    \/ i < Len(stack) /\ stack[i + 1].pc = "PatternDone"

PatternsRead == \A i \in 1..Len(stack) : stack[i].pc \in PatternFrames => PatternRead(i)

\* The inductive invariant of the three.
TreeInv == Inv /\ OperandsSound /\ PatternsRead

-----------------------------------------------------------------------------
(* The bound on the nesting follows from how deep each operand may still   *)
(* nest: as much as is left of MaxDepth where it is read.                  *)

\* The node a frame waits for, and the one its procedure returns.
Awaited(f) == cfg.maxDepth - f.depth - IF f.pc \in {"OrMore", "AndMore", "NotDone"} THEN 1 ELSE 0

Yielded(f) == Awaited(f) + IF f.pc = "CollectionMore" THEN 2 ELSE 1

\* The node procedure pr called at depth d returns.
Granted(pr, d) == cfg.maxDepth - d + IF pr \in {"Expression", "Not"} THEN 0 ELSE 1

\* The node returned to the frame k, or to the caller of the parser.
Room(st, k) == IF k = 0 THEN cfg.maxDepth ELSE Awaited(st[k])

\* The left side of an operator has been read to the end.
HeldWithin(f) ==
    \A i \in DOMAIN f.acc :
        NestsWithin("text", f.acc[i], IF f.pc = "ArithmeticMore" THEN Yielded(f) ELSE Awaited(f))

RoomLeft ==
    /\ \A k \in 1..Len(stack) : HeldWithin(stack[k]) /\ Yielded(stack[k]) <= Room(stack, k - 1)
    /\ mode = "call" => Granted(proc, depth) <= Room(stack, Len(stack))
    /\ mode = "return" => NestsWithin("text", node, Room(stack, Len(stack)))
    /\ TreeWithinDepth
=============================================================================
