------------------------------- MODULE JsonTrees ------------------------------
(***************************************************************************)
(* What a tree accepted by the JSON parser promises a consumer, and what   *)
(* the parser keeps to while it builds one.                                *)
(***************************************************************************)
EXTENDS JsonParser, Trees

CONSTANT
    DocumentLevels  \* how deep the documents are nested at most

\* The values a value is made of, level by level.
Parts(v) ==
    LET inside(w) == {w.items[i] : i \in DOMAIN w.items} \cup {w.fields[k] : k \in DOMAIN w.fields}
        within[k \in Nat] == IF k = 0 THEN {v} ELSE UNION {{w} \cup inside(w) : w \in within[k - 1]}
    IN  within[DocumentLevels]

JsonTypes == {"object", "array", "string", "number", "bool", "null"}

\* A document is a JSON value: its arrays are sequences, and what is inside
\* a value of it is one again.
IsDocument(v) ==
    /\ v \in Parts(v)
    /\ \A w \in Parts(v) :
         /\ w.t \in JsonTypes
         /\ w.items \in Seq(Parts(v))
         /\ \A k \in DOMAIN w.fields : w.fields[k] \in Parts(v)

ASSUME DocumentsAssumption == \A v \in Inputs : IsDocument(v)

\* As for the text parser: conformance and registries are fail-closed,
\* whatever alternatives were tried and given up.
FailClosed == mode = "accepted" => EnabledTree(cfg, node)

\* Operands of an accepted predicate can have values of one sort.
OperandsCanMeet == mode = "accepted" => MeetingOperands(node)

\* Every geometry of an accepted tree is one: its coordinates are on the
\* globe, its lines have two ends, its rings are closed, its box has a least
\* and a greatest corner and a collection holds neither a box nor a
\* collection.
GeometriesAreSound == mode = "accepted" => SoundGeometries(node)

\* MaxDepth bounds the nesting of an accepted tree except for operators and
\* casts, which recurse unchecked (see RecursionWithinMaxDepth): the deepest
\* expression that passes the check has rank MaxDepth + 1, and below it the
\* numbers of a between are read without one.
TreeWithinDepth == mode = "accepted" => NestsWithin("json", node, cfg.maxDepth + 2)

-----------------------------------------------------------------------------
(* The three follow from what holds of every operand in a pending frame.   *)

\* What the caller of a procedure relies on in the node it returns.
Promised(pr, n) ==
    CASE pr = "Numeric"   -> IsNumeric(n)
      [] pr = "Character" -> IsCharacter(n) \/ IsCast(n)
      [] pr = "Pattern"   -> IsPattern(n)
      [] OTHER            -> TRUE

\* How many operands a frame collects: FunctionOf leaves a frame that has no
\* call of its own, but waits for the one on top of it.
OperandCount(f) == IF f.pc = "Wanted" THEN 1 ELSE Len(f.calls)

\* What the code before the first call of a frame has already checked.
Opened(f) ==
    /\ f.pc \in {"Like", "Between", "In"} => cfg.advanced
    /\ f.pc = "Arithmetic" => cfg.arithmetic
    /\ f.pc = "Predicate" =>
         f.op \in SpatialOps \cup TemporalOps \cup ArrayOps /\ PredicateEnabled(f.op)
    /\ f.pc = "Collection" =>
         f.val \in Parts(input) /\ (Has(f.val, "bbox") => IsJsonBBox(f.val.fields["bbox"]))
    /\ f.pc \in {"Predicate", "Comparison", "Like"} => Len(f.calls) = 2
    /\ f.pc \in {"Not", "In"} => Len(f.calls) > 0
    /\ f.pc = "Like" => f.calls[1].proc = "Character" /\ f.calls[2].proc = "Pattern"
    /\ f.pc \in {"Between", "Arithmetic"} => \A i \in DOMAIN f.calls : f.calls[i].proc = "Numeric"
    /\ f.pc = "Wanted" => Len(f.calls) <= 1 /\ f.op \in {"boolean", "character", "numeric"}

FrameSound(f) ==
    /\ f.calls \in Seq({f.calls[i] : i \in DOMAIN f.calls})
    /\ \A i \in DOMAIN f.calls : f.calls[i].val \in Parts(input)
    /\ f.acc \in Seq({f.acc[i] : i \in DOMAIN f.acc})
    /\ f.pc # "Try" => Len(f.acc) = f.next - 1
    /\ \A i \in DOMAIN f.acc : SoundTree(cfg, f.acc[i])
    /\ \A i \in DOMAIN f.acc \cap DOMAIN f.calls : Promised(f.calls[i].proc, f.acc[i])
    /\ Opened(f)

\* A frame waits for an operand, unless it is the last and has them all.
Waiting(f) == f.pc # "Try" => f.next <= OperandCount(f)

OperandsSound ==
    /\ SoundTree(cfg, node) /\ val \in Parts(input)
    /\ \A i \in 1..Len(stack) : FrameSound(stack[i])
    /\ \A i \in 1..Len(stack) :
          IF mode = "complete" /\ i = Len(stack)
          THEN stack[i].next = OperandCount(stack[i]) + 1
          ELSE Waiting(stack[i])

\* The procedure whose node a frame waits for, where that matters.
Awaited(f) == IF f.next \in DOMAIN f.calls THEN f.calls[f.next].proc ELSE "Function"

\* A frame that returns what pr promises.
Yields(f, pr) ==
    \/ pr \notin {"Numeric", "Character", "Pattern"}
    \/ f.pc = "Arithmetic" /\ pr = "Numeric"
    \/ f.pc = "Function" /\ f.op \in {"CASEI", "ACCENTI"} /\ pr \in {"Character", "Pattern"}
    \/ f.pc = "Wanted" /\ <<f.op, pr>> \in {<<"numeric", "Numeric">>, <<"character", "Character">>}

\* Whatever ways a procedure goes, its caller gets what it relies on.
PromisesKept ==
    /\ \A i \in 1 .. Len(stack) - 1 : Yields(stack[i + 1], Awaited(stack[i]))
    /\ mode = "call" /\ stack # << >> /\ Awaited(Top) \in {"Numeric", "Character", "Pattern"} =>
         proc = Awaited(Top)
    /\ mode = "return" /\ stack # << >> => Promised(Awaited(Top), node)

\* The inductive invariant of the three.
TreeInv == Inv /\ OperandsSound /\ PromisesKept

-----------------------------------------------------------------------------
(* The bound on the nesting follows from how deep each operand may still   *)
(* nest, which is a level less in every frame whose operands are ranked    *)
(* below the node it builds.                                               *)

Counted(f) ==
    /\ f.pc \notin {"Try", "Wanted", "Arithmetic"}
    /\ ~(f.pc = "Function" /\ f.op \in {"CASEI", "ACCENTI"})

\* The node returned to the frame k, or to the caller of the parser.
Room(st, k) == cfg.maxDepth + 2 - Cardinality({i \in 1..k : Counted(st[i])})

\* What a call may return: a level for every level of MaxDepth that is left
\* and one below, and a literal where no level is checked.
CallFits(pr, d, room) ==
    /\ cfg.maxDepth + 2 - d <= room
    /\ pr \in DOMAIN OperandOf => 1 <= room

FrameFits(f, above, room) ==
    /\ f.pc # "Try" => 1 <= above
    /\ \A i \in DOMAIN f.acc : NestsWithin("json", f.acc[i], room)
    /\ \A i \in DOMAIN f.calls : CallFits(f.calls[i].proc, f.calls[i].depth, room)

RoomLeft ==
    /\ \A k \in 1..Len(stack) : FrameFits(stack[k], Room(stack, k - 1), Room(stack, k))
    /\ mode = "call" => CallFits(proc, depth, Room(stack, Len(stack)))
    /\ mode = "return" => NestsWithin("json", node, Room(stack, Len(stack)))
    /\ TreeWithinDepth
=============================================================================
