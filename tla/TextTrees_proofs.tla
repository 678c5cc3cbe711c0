--------------------------- MODULE TextTrees_proofs --------------------------
(***************************************************************************)
(* What a tree accepted by the text parser promises, for every set of      *)
(* token sequences, every configuration and every limit.                   *)
(***************************************************************************)
EXTENDS TextTrees, TextParser_proofs, Trees_proofs

-----------------------------------------------------------------------------
(* Operands.                                                               *)

AccSound(acc) ==
    /\ acc \in Seq({acc[i] : i \in DOMAIN acc})
    /\ \A i \in DOMAIN acc : SoundTree(cfg, acc[i])

LEMMA AccFacts ==
    ASSUME NEW acc, AccSound(acc)
    PROVE  DOMAIN acc = 1..Len(acc) /\ Len(acc) \in Nat
<1> DEFINE S == {acc[i] : i \in DOMAIN acc}
<1>1. acc \in Seq(S)
  BY DEF AccSound
<1> HIDE DEF S
<1>2. QED  BY <1>1

LEMMA NoAcc == AccSound(<< >>) /\ Len(<< >>) = 0
  BY DEF AccSound

LEMMA OneAcc ==
    ASSUME NEW n, SoundTree(cfg, n)
    PROVE  AccSound(<<n>>) /\ Len(<<n>>) = 1 /\ <<n>>[1] = n /\ DOMAIN <<n>> = {1}
<1>1. DOMAIN <<n>> = {1} /\ Len(<<n>>) = 1 /\ <<n>>[1] = n
  OBVIOUS
<1>2. <<n>> \in Seq({<<n>>[i] : i \in DOMAIN <<n>>})
  <2>1. <<n>> \in Seq({n})
    OBVIOUS
  <2>2. QED  BY <2>1, SeqOfElements
<1>3. QED  BY <1>1, <1>2 DEF AccSound

LEMMA MoreAcc ==
    ASSUME NEW acc, NEW n, AccSound(acc), SoundTree(cfg, n)
    PROVE  /\ AccSound(Append(acc, n))
           /\ Len(Append(acc, n)) = Len(acc) + 1
           /\ \A i \in 1..Len(acc) : Append(acc, n)[i] = acc[i]
           /\ Append(acc, n)[Len(acc) + 1] = n
           /\ DOMAIN Append(acc, n) = 1 .. Len(acc) + 1
<1> DEFINE S == {acc[i] : i \in DOMAIN acc}
           more == Append(acc, n)
<1>1. acc \in Seq(S) /\ DOMAIN acc = 1..Len(acc) /\ Len(acc) \in Nat
  BY AccFacts DEF AccSound
<1> HIDE DEF S
<1>2. /\ more \in Seq(S \cup {n}) /\ Len(more) = Len(acc) + 1
      /\ \A i \in 1..Len(acc) : more[i] = acc[i]
      /\ more[Len(acc) + 1] = n
  BY <1>1, AppendFacts
<1> HIDE DEF more
<1>3. DOMAIN more = 1 .. Len(acc) + 1
  BY <1>1, <1>2
<1>4. more \in Seq({more[i] : i \in DOMAIN more})
  BY <1>2, SeqOfElements
<1>5. \A i \in DOMAIN more : SoundTree(cfg, more[i])
  <2> TAKE i \in DOMAIN more
  <2>1. CASE i = Len(acc) + 1
    BY <1>2, <2>1
  <2>2. CASE i # Len(acc) + 1
    <3>1. i \in 1..Len(acc)
      BY <1>1, <1>3, <2>2
    <3>2. QED  BY <1>1, <1>2, <3>1 DEF AccSound
  <2>3. QED  BY <2>1, <2>2
<1>6. QED  BY <1>2, <1>3, <1>4, <1>5 DEF AccSound, more

-----------------------------------------------------------------------------
(* Frames.  Of a plain frame nothing is known but that its operands are    *)
(* sound.                                                                  *)

PlainFrames ==
    {"OrMore", "AndMore", "NotDone", "IntervalIs", "ParenTry", "PredicateOf", "GroupDone",
     "FunctionMore", "ArgExpressionTry", "ArgScalarTry", "IntervalStart", "CollectionMore",
     "ArrayMore", "ElementTry"}

LEMMA PlainFrame ==
    ASSUME NEW f, f.pc \in PlainFrames, AccSound(f.acc)
    PROVE  FrameSound(f) /\ f.pc \notin PatternFrames
<1>1. OperandCount(f.pc) = Nat
  BY DEF OperandCount, PlainFrames
<1>2. Opened(f)
  BY DEF Opened, PlainFrames
<1>3. QED  BY <1>1, <1>2, AccFacts DEF FrameSound, AccSound, PatternFrames, PlainFrames

LEMMA FrameFields ==
    ASSUME NEW pc, NEW d, NEW op, NEW prec, NEW acc
    PROVE  /\ Frame(pc, d, op, prec, acc).pc = pc /\ Frame(pc, d, op, prec, acc).op = op
           /\ Frame(pc, d, op, prec, acc).acc = acc
           /\ Resumed(pc, op, acc).pc = pc /\ Resumed(pc, op, acc).op = op
           /\ Resumed(pc, op, acc).acc = acc
  BY DEF Frame, Resumed

-----------------------------------------------------------------------------
(* Stacks on which every frame is sound, and every pattern frame waits for *)
(* the cast above it.                                                      *)

Settled(st) ==
    /\ st \in Seq({st[i] : i \in DOMAIN st})
    /\ \A i \in 1..Len(st) : FrameSound(st[i])
    /\ \A i \in 1..Len(st) : st[i].pc \in PatternFrames => i < Len(st) /\ st[i + 1].pc = "PatternDone"

Kept == OperandsSound /\ PatternsRead

LEMMA StackLength ==
    ASSUME Inv
    PROVE  /\ stack \in Seq({stack[i] : i \in DOMAIN stack})
           /\ Len(stack) \in Nat /\ (stack # << >> => Len(stack) # 0)
<1> DEFINE S == {stack[i] : i \in DOMAIN stack}
<1>1. stack \in Seq(S)
  BY DEF Inv, StackOK
<1> HIDE DEF S
<1>2. Len(stack) \in Nat /\ (stack # << >> => Len(stack) # 0)
  BY <1>1
<1>3. QED  BY <1>1, <1>2 DEF S

\* A pattern is read by these procedures only.
LEMMA SettledCall ==
    ASSUME Inv, Kept, mode = "call",
           \/ proc \notin {"Pattern", "Arithmetic", "ScalarPrimary"}
           \/ proc # "Pattern" /\ ~AtString
    PROVE  Settled(stack)
<1>1. \A i \in 1..Len(stack) : stack[i].pc \in PatternFrames => PatternRead(i)
  BY DEF Kept, PatternsRead
<1>2. \A i \in 1..Len(stack) : PatternRead(i) => i < Len(stack) /\ stack[i + 1].pc = "PatternDone"
  BY DEF PatternRead
<1>3. QED  BY <1>1, <1>2, StackLength DEF Settled, Kept, OperandsSound

\* The stack without its top frame.
LEMMA BelowFacts ==
    ASSUME Inv, stack # << >>
    PROVE  /\ Below \in Seq({Below[i] : i \in DOMAIN Below})
           /\ Len(Below) \in Nat /\ Len(stack) = Len(Below) + 1
           /\ \A i \in 1..Len(Below) : Below[i] = stack[i]
           /\ Top = stack[Len(Below) + 1]
<1> DEFINE S == {stack[i] : i \in DOMAIN stack}
           n == Len(stack) - 1
<1>1. stack \in Seq(S) /\ n \in Nat /\ Len(stack) = n + 1
  BY StackLength
<1>2. \A i \in 1..n : stack[i] \in S
  BY <1>1
<1>3. Below = SubSeq(stack, 1, n) /\ Top = stack[n + 1]
  BY <1>1 DEF Below, Top
<1> HIDE DEF S, n
<1>4. /\ SubSeq(stack, 1, n) \in Seq(S)
      /\ Len(SubSeq(stack, 1, n)) = IF 1 <= n THEN n - 1 + 1 ELSE 0
      /\ \A i \in 1 .. n - 1 + 1 : SubSeq(stack, 1, n)[i] = stack[1 + i - 1]
  <2>1. n \in Int /\ 1 \in Int  BY <1>1
  <2>2. QED  BY ONLY <1>2, <2>1, SubSeqProperties
<1>5. n - 1 + 1 = n /\ \A i \in 1..n : 1 + i - 1 = i
  BY <1>1
<1>6. /\ Below \in Seq(S) /\ Len(Below) = n
      /\ \A i \in 1..n : Below[i] = stack[i]
  <2>1. \A i \in 1..n : SubSeq(stack, 1, n)[i] = stack[i]
    BY <1>4, <1>5
  <2>2. QED  BY <1>1, <1>3, <1>4, <1>5, <2>1
<1>7. Below \in Seq({Below[i] : i \in DOMAIN Below})
  BY <1>6, SeqOfElements
<1>8. QED  BY <1>1, <1>3, <1>6, <1>7

LEMMA TopSound ==
    ASSUME Inv, Kept, stack # << >>
    PROVE  /\ FrameSound(Top) /\ AccSound(Top.acc) /\ Opened(Top)
           /\ Len(Top.acc) \in OperandCount(Top.pc)
           /\ SoundTree(cfg, node)
<1>1. FrameSound(Top)
  BY BelowFacts DEF Kept, OperandsSound
<1>2. QED  BY <1>1 DEF FrameSound, AccSound, Kept, OperandsSound

\* Only under a cast or an arithmetic expression can a pattern be.
LEMMA SettledBelow ==
    ASSUME Inv, Kept, stack # << >>,
           \/ Top.pc \notin {"PatternDone", "ArithmeticMore"}
           \/ Top.pc # "PatternDone" /\ Top.acc # << >>
           \/ Top.pc # "PatternDone" /\ mode = "return"
                 /\ ~(node.kind = "Literal" /\ node.types = {"string"})
    PROVE  Settled(Below)
<1>1. \A i \in 1..Len(stack) : stack[i].pc \in PatternFrames => PatternRead(i)
  BY DEF Kept, PatternsRead
<1>2. ASSUME NEW i \in 1..Len(Below), Below[i].pc \in PatternFrames
      PROVE  i < Len(Below) /\ Below[i + 1].pc = "PatternDone"
  <2>1. i \in 1..Len(stack) /\ i < Len(stack) /\ stack[i] = Below[i]
    BY BelowFacts
  <2>2. PatternRead(i)
    BY <1>1, <1>2, <2>1
  <2>3. stack[i + 1].pc = "PatternDone"
    BY <2>1, <2>2 DEF PatternRead
  <2>4. i # Len(Below)
    BY <2>3, BelowFacts
  <2>5. i + 1 \in 1..Len(Below) /\ i < Len(Below)
    BY <2>4, BelowFacts
  <2>6. QED  BY <2>3, <2>5, BelowFacts
<1>3. \A i \in 1..Len(Below) : FrameSound(Below[i])
  BY BelowFacts DEF Kept, OperandsSound
<1>4. QED  BY <1>2, <1>3, BelowFacts DEF Settled

LEMMA SettledPush ==
    ASSUME NEW st, NEW f, Settled(st), FrameSound(f), f.pc \notin PatternFrames
    PROVE  Settled(Append(st, f))
<1> DEFINE S == {st[i] : i \in DOMAIN st}
           more == Append(st, f)
<1>1. st \in Seq(S)
  BY DEF Settled
<1> HIDE DEF S
<1>2. /\ more \in Seq(S \cup {f}) /\ Len(more) = Len(st) + 1 /\ Len(st) \in Nat
      /\ \A i \in 1..Len(st) : more[i] = st[i]
      /\ more[Len(st) + 1] = f
  BY <1>1, AppendFacts
<1> HIDE DEF more
<1>3. more \in Seq({more[i] : i \in DOMAIN more})
  BY <1>2, SeqOfElements
<1>4. \A i \in 1..Len(more) : i \in 1..Len(st) \/ i = Len(st) + 1
  BY <1>2
<1>5. \A i \in 1..Len(more) : FrameSound(more[i])
  BY <1>2, <1>4 DEF Settled
<1>6. ASSUME NEW i \in 1..Len(more), more[i].pc \in PatternFrames
      PROVE  i < Len(more) /\ more[i + 1].pc = "PatternDone"
  <2>1. i \in 1..Len(st) /\ st[i].pc \in PatternFrames
    BY <1>2, <1>4, <1>6
  <2>2. i < Len(st) /\ st[i + 1].pc = "PatternDone"
    BY <2>1 DEF Settled
  <2>3. i + 1 \in 1..Len(st) /\ i < Len(more)
    BY <1>2, <2>2
  <2>4. QED  BY <1>2, <2>2, <2>3
<1>7. QED  BY <1>3, <1>5, <1>6 DEF Settled, more

-----------------------------------------------------------------------------
(* The three ways control moves.                                           *)

Calls(st) ==
    /\ mode' = "call" /\ stack' = st /\ node' = NoNode /\ UNCHANGED <<tokens, cfg>>
    /\ proc' = "Arithmetic" => cfg.arithmetic

Gives(n, st) == mode' = "return" /\ stack' = st /\ node' = n /\ UNCHANGED <<tokens, cfg>>

Fails(st) == mode' = "fail" /\ stack' = st /\ node' = NoNode /\ UNCHANGED <<tokens, cfg>>

LEMMA EnterCalls ==
    ASSUME NEW pr, NEW d, NEW prec, NEW p, NEW st, Enter(pr, d, prec, p, st),
           pr # "Arithmetic" \/ cfg.arithmetic
    PROVE  Calls(st)
  BY DEF Enter, Calls

LEMMA ScalarCalls ==
    ASSUME NEW d, NEW p, NEW st, EnterScalar(d, p, st)
    PROVE  Calls(st) /\ proc' \in {"Arithmetic", "ScalarPrimary"} /\ pos' = p
  BY DEF EnterScalar, Enter, Calls

LEMMA ReturnGives ==
    ASSUME NEW n, NEW p, NEW st, Return(n, p, st)
    PROVE  Gives(n, st)
  BY DEF Return, Gives

LEMMA FailFails == ASSUME NEW st, Fail(st) PROVE Fails(st)
  BY DEF Fail, Fails

LEMMA NoNodeSound == SoundTree(cfg, NoNode)
<1>1. \A i \in DOMAIN << >> : SoundTree(cfg, << >>[i])
  OBVIOUS
<1>2. QED  BY <1>1, PlainTree DEF NoNode, PlainKinds

LEMMA SoundAgain ==
    ASSUME NEW st, \A i \in 1..Len(st) : FrameSound(st[i]),
           stack' = st, UNCHANGED <<tokens, cfg>>
    PROVE  \A i \in 1..Len(stack') : FrameSound(stack[i])'
  BY ZenonT(30) DEF FrameSound, Opened, PredicateEnabled

LEMMA SettledReads ==
    ASSUME NEW st, Settled(st), stack' = st
    PROVE  PatternsRead'
  BY DEF Settled, PatternsRead, PatternRead, PatternFrames

LEMMA SettledCalls ==
    ASSUME NEW st, Settled(st), Calls(st)
    PROVE  Kept'
<1>1. \A i \in 1..Len(stack') : FrameSound(stack[i])'
  BY SoundAgain DEF Settled, Calls
<1>2. SoundTree(cfg, node)'
  BY NoNodeSound DEF Calls, NoNode
<1>3. OperandsSound'
  BY <1>1, <1>2 DEF OperandsSound, Calls
<1>4. QED  BY <1>3, SettledReads DEF Kept, Calls

LEMMA SettledGives ==
    ASSUME NEW st, NEW n, Settled(st), Gives(n, st), SoundTree(cfg, n)
    PROVE  Kept'
<1>1. \A i \in 1..Len(stack') : FrameSound(stack[i])'
  BY SoundAgain DEF Settled, Gives
<1>2. SoundTree(cfg, node)'
  BY DEF Gives
<1>3. OperandsSound'
  BY <1>1, <1>2 DEF OperandsSound, Gives
<1>4. QED  BY <1>3, SettledReads DEF Kept, Gives

\* An error loses a frame at most, and no pattern is returned.
LEMMA FailsKept ==
    ASSUME Inv, Kept, Fails(stack) \/ (stack # << >> /\ Fails(Below))
    PROVE  Kept'
<1>1. mode' = "fail" /\ node' = NoNode /\ UNCHANGED <<tokens, cfg>>
  BY DEF Fails
<1>2. \A i \in 1..Len(stack) : stack[i].pc \in PatternFrames => PatternRead(i)
  BY DEF Kept, PatternsRead
<1>3. \A i \in 1..Len(stack) : FrameSound(stack[i])
  BY DEF Kept, OperandsSound
<1>4. SoundTree(cfg, node)'
  BY <1>1, NoNodeSound DEF NoNode
<1>5. CASE Fails(stack)
  <2>1. stack' = stack
    BY <1>5 DEF Fails
  <2>2. \A i \in 1..Len(stack') : FrameSound(stack[i])'
    BY <1>1, <1>3, <2>1, SoundAgain
  <2>3. PatternsRead'
    BY <1>1, <1>2, <2>1 DEF PatternsRead, PatternRead, Top
  <2>4. QED  BY <1>1, <1>4, <2>2, <2>3 DEF Kept, OperandsSound
<1>6. CASE stack # << >> /\ Fails(Below)
  <2>1. stack' = Below
    BY <1>6 DEF Fails
  <2>2. \A i \in 1..Len(Below) : FrameSound(Below[i])
    BY <1>3, <1>6, BelowFacts
  <2>3. \A i \in 1..Len(stack') : FrameSound(stack[i])'
    BY <1>1, <2>1, <2>2, SoundAgain
  <2>4. ASSUME NEW i \in 1..Len(Below), Below[i].pc \in PatternFrames
        PROVE  i = Len(Below) \/ (i < Len(Below) /\ Below[i + 1].pc = "PatternDone")
    <3>1. i \in 1..Len(stack) /\ i < Len(stack) /\ stack[i] = Below[i]
      BY <1>6, BelowFacts
    <3>2. PatternRead(i)
      BY <1>2, <2>4, <3>1
    <3>3. CASE i # Len(Below)
      <4>1. i + 1 \in 1..Len(Below) /\ i + 1 # Len(stack) /\ i # Len(stack)
        BY <1>6, <3>3, BelowFacts
      <4>2. stack[i + 1].pc = "PatternDone"
        BY <3>2, <4>1 DEF PatternRead
      <4>3. QED  BY <1>6, <4>1, <4>2, BelowFacts
    <3>4. QED  BY <3>3
  <2>5. PatternsRead'
    BY <1>1, <2>1, <2>4 DEF PatternsRead, PatternRead
  <2>6. QED  BY <1>1, <1>4, <2>3, <2>5 DEF Kept, OperandsSound
<1>7. QED  BY <1>5, <1>6

-----------------------------------------------------------------------------
(* Steps on settled stacks.                                                *)

LEMMA EnterStep ==
    ASSUME NEW st, NEW pr, NEW d, NEW prec, NEW p, Settled(st), Enter(pr, d, prec, p, st),
           pr # "Arithmetic" \/ cfg.arithmetic
    PROVE  Kept'
  BY EnterCalls, SettledCalls

\* Every procedure but the one that is called under a switch only.
PlainProcs == Procs \ {"Arithmetic"}

LEMMA PlainProc ==
    /\ {"Expression", "Not", "Primary", "Pattern", "FunctionArg", "ArrayElement",
        "TemporalInstance", "ScalarPrimary", "TemporalOperand", "InstantFunction", "Interval",
        "IntervalEndpoint", "ArrayOperand", "ArrayLiteral", "SpatialOperand",
        "GeometryLiteral"} \subseteq PlainProcs
    /\ \A op : OperandProc(op) \in PlainProcs
  BY DEF PlainProcs, Procs, DepthChecked, OperandProc

LEMMA PlainStep ==
    ASSUME NEW st, NEW pr \in PlainProcs, NEW d, NEW prec, NEW p, Settled(st),
           Enter(pr, d, prec, p, st)
    PROVE  Kept'
  BY EnterStep DEF PlainProcs

LEMMA ScalarStep ==
    ASSUME NEW st, NEW d, NEW p, Settled(st), EnterScalar(d, p, st)
    PROVE  Kept'
  BY ScalarCalls, SettledCalls

LEMMA ReturnStep ==
    ASSUME NEW st, NEW n, NEW p, Settled(st), SoundTree(cfg, n), Return(n, p, st)
    PROVE  Kept'
  BY ReturnGives, SettledGives

LEMMA FailStep ==
    ASSUME Inv, Kept, Fail(stack) \/ (stack # << >> /\ Fail(Below))
    PROVE  Kept'
  BY FailFails, FailsKept

LEMMA PushPlain ==
    ASSUME NEW st, NEW pc \in PlainFrames, NEW d, NEW op, NEW prec, Settled(st)
    PROVE  Settled(Append(st, Frame(pc, d, op, prec, << >>)))
  BY FrameFields, NoAcc, PlainFrame, SettledPush

LEMMA ResumePlain ==
    ASSUME NEW pc \in PlainFrames, NEW op, NEW acc, Settled(Below), AccSound(acc)
    PROVE  Settled(Append(Below, Resumed(pc, op, acc)))
  BY FrameFields, PlainFrame, SettledPush

\* What a call to a procedure that reads no pattern, and the return to a
\* frame that is under none, start from.
LEMMA AtCall ==
    ASSUME NEW pr, Inv, Kept, Calling(pr), pr \notin {"Pattern", "Arithmetic", "ScalarPrimary"}
    PROVE  Settled(stack)
  BY SettledCall DEF Calling

LEMMA AtReturn ==
    ASSUME NEW pc, Inv, Kept, Returning(pc) \/ Failing(pc), pc \notin {"PatternDone", "ArithmeticMore"}
    PROVE  /\ Settled(Below) /\ stack # << >> /\ Top.pc = pc
           /\ FrameSound(Top) /\ AccSound(Top.acc) /\ Opened(Top)
           /\ Len(Top.acc) \in OperandCount(Top.pc)
           /\ SoundTree(cfg, node)
  BY SettledBelow, TopSound DEF Returning, Failing

-----------------------------------------------------------------------------
(* parseExpression, parseOr, parseAnd, parseNot                            *)

LEMMA ExpressionKept == ASSUME Inv, Kept, Expression PROVE Kept'
<1>1. Settled(stack)
  BY AtCall DEF Expression
<1>2. Settled(Append(stack, Frame("OrMore", depth, "", 0, << >>)))
  BY <1>1, PushPlain DEF PlainFrames
<1>3. Settled(Append(Append(stack, Frame("OrMore", depth, "", 0, << >>)),
                     Frame("AndMore", depth + 1, "", 0, << >>)))
  BY <1>2, PushPlain DEF PlainFrames
<1>4. QED  BY <1>3, PlainProc, PlainStep DEF Expression

\* The node of a chain of two or more, and of a single operand.
LEMMA ChainTree ==
    ASSUME NEW op, NEW args, AccSound(args), Len(args) # 0
    PROVE  SoundTree(cfg, Chain(op, args))
<1>1. CASE Len(args) = 1
  BY <1>1, AccFacts DEF Chain, AccSound
<1>2. CASE Len(args) # 1
  BY <1>2, PlainTree DEF Chain, AccSound, Predicate, PlainKinds
<1>3. QED  BY <1>1, <1>2

LEMMA OrMoreKept == ASSUME Inv, Kept, OrMore PROVE Kept'
<1> DEFINE args == Append(Top.acc, node)
<1>1. /\ Settled(Below) /\ stack # << >> /\ AccSound(Top.acc) /\ SoundTree(cfg, node)
  BY AtReturn DEF OrMore
<1>2. AccSound(args) /\ Len(args) # 0
  BY <1>1, MoreAcc, AccFacts
<1> HIDE DEF args
<1>3. CASE IsWord({"OR"}, pos)
  <2>1. Settled(Append(Below, Resumed("OrMore", "", args)))
    BY <1>1, <1>2, ResumePlain DEF PlainFrames
  <2>2. Settled(Append(Append(Below, Resumed("OrMore", "", args)),
                       Frame("AndMore", Top.depth + 1, "", 0, << >>)))
    BY <2>1, PushPlain DEF PlainFrames
  <2>3. QED  BY <1>3, <2>2, PlainProc, PlainStep DEF OrMore, args
<1>4. CASE ~IsWord({"OR"}, pos)
  BY <1>1, <1>2, <1>4, ChainTree, ReturnStep DEF OrMore, args
<1>5. QED  BY <1>3, <1>4

LEMMA AndMoreKept == ASSUME Inv, Kept, AndMore PROVE Kept'
<1> DEFINE args == Append(Top.acc, node)
<1>1. /\ Settled(Below) /\ stack # << >> /\ AccSound(Top.acc) /\ SoundTree(cfg, node)
  BY AtReturn DEF AndMore
<1>2. AccSound(args) /\ Len(args) # 0
  BY <1>1, MoreAcc, AccFacts
<1> HIDE DEF args
<1>3. CASE IsWord({"AND"}, pos)
  <2>1. Settled(Append(Below, Resumed("AndMore", "", args)))
    BY <1>1, <1>2, ResumePlain DEF PlainFrames
  <2>2. QED  BY <1>3, <2>1, PlainProc, PlainStep DEF AndMore, args
<1>4. CASE ~IsWord({"AND"}, pos)
  BY <1>1, <1>2, <1>4, ChainTree, ReturnStep DEF AndMore, args
<1>5. QED  BY <1>3, <1>4

LEMMA NotKept == ASSUME Inv, Kept, Not PROVE Kept'
<1>1. Settled(stack)
  BY AtCall DEF Not
<1>2. Settled(Append(stack, Frame("NotDone", depth, "", 0, << >>)))
  BY <1>1, PushPlain DEF PlainFrames
<1>3. QED  BY <1>1, <1>2, PlainProc, PlainStep DEF Not

\* A node that promises nothing of its own, of operands that are sound.
LEMMA PlainPredicate ==
    ASSUME NEW kind \in {"Logical", "IsNull"}, NEW op, NEW n, NEW src, SoundTree(cfg, n)
    PROVE  SoundTree(cfg, Predicate(kind, op, <<n>>, src))
<1>1. \A i \in DOMAIN <<n>> : SoundTree(cfg, <<n>>[i])
  BY OneAcc DEF AccSound
<1>2. QED  BY <1>1, PlainTree DEF Predicate, PlainKinds

LEMMA NotDoneKept == ASSUME Inv, Kept, NotDone PROVE Kept'
<1>1. Settled(Below) /\ SoundTree(cfg, node)
  BY AtReturn DEF NotDone
<1>2. QED  BY <1>1, PlainPredicate, ReturnStep DEF NotDone

-----------------------------------------------------------------------------
(* parsePrimaryExpression                                                  *)

LEMMA FinishIsNullKept ==
    ASSUME NEW n, NEW p, Inv, Kept, SoundTree(cfg, n), stack # << >>, Settled(Below),
           FinishIsNull(n, p, Below)
    PROVE  Kept'
<1> DEFINE q == IF IsWord({"NOT"}, p) THEN After(p) ELSE p
           is == Predicate("IsNull", IF q # p THEN "NOT" ELSE "", <<n>>, <<n.src[1], q>>)
<1>1. SoundTree(cfg, is)
  BY PlainPredicate
<1>2. Return(is, After(q), Below) \/ Fail(Below)
  BY DEF FinishIsNull
<1> HIDE DEF is, q
<1>3. QED  BY <1>1, <1>2, ReturnStep, FailStep

\* The frame of a predicate function carries an enabled one.
LEMMA PredicateFrame ==
    ASSUME NEW f, f.pc \in {"PredicateLeft", "PredicateRight"},
           f.op \in PredicateWords, PredicateEnabled(f.op),
           AccSound(f.acc), f.pc = "PredicateRight" => Len(f.acc) = 1
    PROVE  FrameSound(f) /\ f.pc \notin PatternFrames
<1>1. Len(f.acc) \in OperandCount(f.pc)
  BY AccFacts DEF OperandCount
<1>2. Opened(f)
  BY DEF Opened
<1>3. QED  BY <1>1, <1>2 DEF FrameSound, AccSound, PatternFrames

LEMMA PrimaryPredicateKept == ASSUME Inv, Kept, PrimaryPredicate PROVE Kept'
<1> DEFINE op == tokens[pos].text
           f  == Frame("PredicateLeft", depth + 1, op, 0, << >>)
<1>1. Settled(stack) /\ op \in PredicateWords
  BY AtCall DEF PrimaryPredicate, IsWord
<1>2. CASE PredicateEnabled(op) /\ Is("LParen", After(pos))
  <2>1. FrameSound(f) /\ f.pc \notin PatternFrames
    BY <1>1, <1>2, FrameFields, NoAcc, PredicateFrame
  <2>2. Settled(Append(stack, f))
    BY <1>1, <2>1, SettledPush
  <2>3. Enter(OperandProc(op), depth + 2, 0, After(After(pos)), Append(stack, f))
    BY <1>2 DEF PrimaryPredicate
  <2> HIDE DEF f, op
  <2>4. QED  BY <2>2, <2>3, PlainProc, PlainStep
<1>3. CASE ~(PredicateEnabled(op) /\ Is("LParen", After(pos)))
  BY <1>3, FailStep DEF PrimaryPredicate
<1>4. QED  BY <1>2, <1>3

LEMMA PrimaryIntervalKept == ASSUME Inv, Kept, PrimaryInterval PROVE Kept'
<1>1. Settled(stack)
  BY AtCall DEF PrimaryInterval
<1>2. Settled(Append(stack, Frame("IntervalIs", depth, "", 0, << >>)))
  BY <1>1, PushPlain DEF PlainFrames
<1>3. QED  BY <1>2, PlainProc, PlainStep DEF PrimaryInterval

LEMMA PrimaryGeometryKept == ASSUME Inv, Kept, PrimaryGeometry PROVE Kept'
<1>1. Settled(stack)
  BY AtCall DEF PrimaryGeometry
<1>2. Settled(Append(stack, Frame("IntervalIs", depth, "", 0, << >>)))
  BY <1>1, PushPlain DEF PlainFrames
<1>3. QED  BY <1>2, PlainProc, PlainStep DEF PrimaryGeometry

LEMMA IntervalIsKept == ASSUME Inv, Kept, IntervalIs PROVE Kept'
<1>1. Settled(Below) /\ stack # << >> /\ SoundTree(cfg, node)
  BY AtReturn DEF IntervalIs
<1>2. FinishIsNull(node, After(pos), Below) \/ Fail(Below)
  BY DEF IntervalIs
<1>3. QED  BY <1>1, <1>2, FinishIsNullKept, FailStep

LEMMA PrimaryParenKept == ASSUME Inv, Kept, PrimaryParen PROVE Kept'
<1>1. Settled(stack)
  BY AtCall DEF PrimaryParen
<1>2. Settled(Append(stack, Frame("ParenTry", depth, "", 0, << >>)))
  BY <1>1, PushPlain DEF PlainFrames
<1>3. QED  BY <1>2, PlainProc, PlainStep DEF PrimaryParen

LEMMA ParenIsExpressionKept == ASSUME Inv, Kept, ParenIsExpression PROVE Kept'
<1>1. Settled(Below) /\ stack # << >> /\ SoundTree(cfg, node)
  BY AtReturn DEF ParenIsExpression
<1>2. \/ FinishIsNull(node, After(After(pos)), Below)
      \/ Return(node, After(pos), Below) \/ Fail(Below)
  BY DEF ParenIsExpression
<1>3. QED  BY <1>1, <1>2, FinishIsNullKept, ReturnStep, FailStep

LEMMA ParenIsScalarKept == ASSUME Inv, Kept, ParenIsScalar PROVE Kept'
<1>1. Settled(Below)
  BY AtReturn DEF ParenIsScalar
<1>2. Settled(Append(Below, Resumed("PredicateOf", "", << >>)))
  BY <1>1, NoAcc, ResumePlain DEF PlainFrames
<1>3. QED  BY <1>2, ScalarStep DEF ParenIsScalar

LEMMA PrimaryScalarKept == ASSUME Inv, Kept, PrimaryScalar PROVE Kept'
<1>1. Settled(stack)
  BY AtCall DEF PrimaryScalar
<1>2. Settled(Append(stack, Frame("PredicateOf", depth, "", 0, << >>)))
  BY <1>1, PushPlain DEF PlainFrames
<1>3. QED  BY <1>2, ScalarStep DEF PrimaryScalar

-----------------------------------------------------------------------------
(* What follows an operand.                                                *)

LEMMA OpenedPush ==
    ASSUME NEW st, NEW f, Settled(st), AccSound(f.acc), Len(f.acc) \in OperandCount(f.pc),
           Opened(f), f.pc \notin PatternFrames
    PROVE  Settled(Append(st, f))
  BY SettledPush DEF FrameSound, AccSound

LEMMA TwoAcc ==
    ASSUME NEW l, NEW r, SoundTree(cfg, l), SoundTree(cfg, r)
    PROVE  /\ AccSound(<<l, r>>) /\ Len(<<l, r>>) = 2 /\ DOMAIN <<l, r>> = 1..2
           /\ <<l, r>>[1] = l /\ <<l, r>>[2] = r
<1>1. Len(<<l, r>>) = 2 /\ DOMAIN <<l, r>> = 1..2 /\ <<l, r>>[1] = l /\ <<l, r>>[2] = r
  OBVIOUS
<1>2. <<l, r>> \in Seq({l, r})
  OBVIOUS
<1> DEFINE two == <<l, r>>
<1>3. two \in Seq({two[i] : i \in DOMAIN two})
  BY <1>2, SeqOfElements
<1>4. \A i \in DOMAIN two : i = 1 \/ i = 2
  BY <1>1
<1>5. \A i \in DOMAIN two : SoundTree(cfg, two[i])
  BY <1>1, <1>4
<1>6. QED  BY <1>1, <1>3, <1>5 DEF AccSound

LEMMA FirstSound ==
    ASSUME NEW acc, AccSound(acc), Len(acc) # 0
    PROVE  SoundTree(cfg, acc[1])
  BY AccFacts DEF AccSound

LEMMA OneCount ==
    \A pc \in {"ComparisonRight", "LikePattern", "BetweenLower", "PredicateRight", "IntervalEnd"} :
        OperandCount(pc) = {1}
  BY DEF OperandCount

LEMMA ComparisonKept == ASSUME Inv, Kept, Comparison PROVE Kept'
<1> DEFINE f == Resumed("ComparisonRight", tokens[pos].text, <<node>>)
<1>1. Settled(Below) /\ SoundTree(cfg, node)
  BY AtReturn DEF Comparison, FollowedBy
<1>2. f.pc = "ComparisonRight" /\ f.acc = <<node>>
  BY FrameFields
<1>3. EnterScalar(Top.depth + 1, After(pos), Append(Below, f))
  BY DEF Comparison
<1> HIDE DEF f
<1>4. AccSound(f.acc) /\ Len(f.acc) \in OperandCount(f.pc)
  BY <1>1, <1>2, OneAcc, OneCount
<1>5. Opened(f) /\ f.pc \notin PatternFrames
  BY <1>2 DEF Opened, PatternFrames
<1>6. Settled(Append(Below, f))
  BY <1>1, <1>4, <1>5, OpenedPush
<1>7. QED  BY <1>3, <1>6, ScalarStep

LEMMA ComparisonRightKept == ASSUME Inv, Kept, ComparisonRight PROVE Kept'
<1> DEFINE left == Top.acc[1]
           src  == <<left.src[1], node.src[2]>>
<1>1. /\ Settled(Below) /\ SoundTree(cfg, node) /\ AccSound(Top.acc)
      /\ Top.pc = "ComparisonRight" /\ Len(Top.acc) \in OperandCount(Top.pc)
  BY AtReturn DEF ComparisonRight
<1>2. SoundTree(cfg, left)
  BY <1>1, OneCount, FirstSound
<1>3. CASE ValidComparison(Top.op, left, node) /\ ValidPropertyUse(cfg.propertyProperty, <<left, node>>)
  <2>1. Return(Predicate("Comparison", Top.op, <<left, node>>, src), pos, Below)
    BY <1>3 DEF ComparisonRight
  <2> DEFINE args == <<left, node>>
  <2>2. /\ AccSound(args) /\ Len(args) = 2 /\ DOMAIN args = 1..2
        /\ args[1] = left /\ args[2] = node
    BY <1>1, <1>2, TwoAcc
  <2>3. cfg.propertyProperty \/ NoReferences(args)
    BY <1>3, PropertyUse
  <2> HIDE DEF args, left, src
  <2>4. SoundTree(cfg, Predicate("Comparison", Top.op, args, src))
    BY <1>3, <2>2, <2>3, ComparisonTree DEF AccSound
  <2>5. QED  BY <1>1, <2>1, <2>4, ReturnStep DEF args
<1>4. CASE ~(ValidComparison(Top.op, left, node) /\ ValidPropertyUse(cfg.propertyProperty, <<left, node>>))
  <2>1. Fail(Below) /\ stack # << >>
    BY <1>4 DEF ComparisonRight, Returning
  <2>2. QED  BY <2>1, FailStep
<1>5. QED  BY <1>3, <1>4

LEMMA ArithmeticDisabledKept == ASSUME Inv, Kept, ArithmeticDisabled PROVE Kept'
  BY FailStep DEF ArithmeticDisabled, FollowedBy, Returning

LEMMA IsNullKept == ASSUME Inv, Kept, IsNull PROVE Kept'
<1>1. Settled(Below) /\ stack # << >> /\ SoundTree(cfg, node)
  BY AtReturn DEF IsNull, FollowedBy
<1>2. QED  BY <1>1, FinishIsNullKept DEF IsNull

LEMMA NoPredicateKept == ASSUME Inv, Kept, NoPredicate PROVE Kept'
<1>1. Settled(Below) /\ stack # << >> /\ SoundTree(cfg, node)
  BY AtReturn DEF NoPredicate, FollowedBy
<1>2. Return(node, pos, Below) \/ Fail(Below)
  BY DEF NoPredicate
<1>3. QED  BY <1>1, <1>2, ReturnStep, FailStep

-----------------------------------------------------------------------------
(* LIKE and the patterns.                                                  *)

\* Every frame is sound and every pattern frame waits for a cast above it,
\* but the innermost may be a pattern frame waiting for what is read now.
Nested(st) ==
    /\ st \in Seq({st[i] : i \in DOMAIN st})
    /\ \A i \in 1..Len(st) : FrameSound(st[i])
    /\ \A i \in 1..Len(st) :
         st[i].pc \in PatternFrames => i = Len(st) \/ (i < Len(st) /\ st[i + 1].pc = "PatternDone")

LEMMA NestedReads ==
    ASSUME NEW st, Nested(st), stack' = st,
           mode' = "call" => proc' = "Pattern" \/ (proc' \in {"Arithmetic", "ScalarPrimary"} /\ AtString'),
           mode' = "return" => IsPattern(node')
    PROVE  PatternsRead'
  BY DEF Nested, PatternsRead, PatternRead, PatternFrames, IsPattern, IsCast

LEMMA NestedCalls ==
    ASSUME NEW st, Nested(st), Calls(st),
           proc' = "Pattern" \/ (proc' \in {"Arithmetic", "ScalarPrimary"} /\ AtString')
    PROVE  Kept'
<1>1. \A i \in 1..Len(stack') : FrameSound(stack[i])'
  BY SoundAgain DEF Nested, Calls
<1>2. SoundTree(cfg, node)'
  BY NoNodeSound DEF Calls, NoNode
<1>3. OperandsSound'
  BY <1>1, <1>2 DEF OperandsSound, Calls
<1>4. QED  BY <1>3, NestedReads DEF Kept, Calls

LEMMA NestedGives ==
    ASSUME NEW st, NEW n, Nested(st), Gives(n, st), SoundTree(cfg, n), IsPattern(n)
    PROVE  Kept'
<1>1. \A i \in 1..Len(stack') : FrameSound(stack[i])'
  BY SoundAgain DEF Nested, Gives
<1>2. SoundTree(cfg, node)'
  BY DEF Gives
<1>3. OperandsSound'
  BY <1>1, <1>2 DEF OperandsSound, Gives
<1>4. QED  BY <1>3, NestedReads DEF Kept, Gives

\* A pattern frame on a settled stack, or a cast on any.
LEMMA NestedPush ==
    ASSUME NEW st, NEW f, FrameSound(f), f.pc \in PatternFrames,
           Settled(st) \/ (Nested(st) /\ f.pc = "PatternDone")
    PROVE  Nested(Append(st, f))
<1> DEFINE S == {st[i] : i \in DOMAIN st}
           more == Append(st, f)
<1>1. st \in Seq(S)
  BY DEF Settled, Nested
<1> HIDE DEF S
<1>2. /\ more \in Seq(S \cup {f}) /\ Len(more) = Len(st) + 1 /\ Len(st) \in Nat
      /\ \A i \in 1..Len(st) : more[i] = st[i]
      /\ more[Len(st) + 1] = f
  BY <1>1, AppendFacts
<1> HIDE DEF more
<1>3. more \in Seq({more[i] : i \in DOMAIN more})
  BY <1>2, SeqOfElements
<1>4. \A i \in 1..Len(more) : i \in 1..Len(st) \/ i = Len(st) + 1
  BY <1>2
<1>5. \A i \in 1..Len(more) : FrameSound(more[i])
  BY <1>2, <1>4 DEF Settled, Nested
<1>6. ASSUME NEW i \in 1..Len(more), more[i].pc \in PatternFrames, i # Len(more)
      PROVE  i < Len(more) /\ more[i + 1].pc = "PatternDone"
  <2>1. i \in 1..Len(st) /\ st[i].pc \in PatternFrames /\ i < Len(more)
    BY <1>2, <1>4, <1>6
  <2>2. CASE i < Len(st) /\ st[i + 1].pc = "PatternDone"
    <3>1. i + 1 \in 1..Len(st)
      BY <1>2, <2>2
    <3>2. QED  BY <1>2, <2>1, <2>2, <3>1
  <2>3. CASE ~(i < Len(st) /\ st[i + 1].pc = "PatternDone")
    <3>1. i = Len(st) /\ f.pc = "PatternDone"
      BY <2>1, <2>3 DEF Settled, Nested
    <3>2. QED  BY <1>2, <2>1, <3>1
  <2>4. QED  BY <2>2, <2>3
<1>7. QED  BY <1>3, <1>5, <1>6 DEF Nested, more

LEMMA NestedBelow ==
    ASSUME Inv, Kept, stack # << >>
    PROVE  Nested(Below)
<1>1. \A i \in 1..Len(stack) : stack[i].pc \in PatternFrames => PatternRead(i)
  BY DEF Kept, PatternsRead
<1>2. \A i \in 1..Len(Below) : FrameSound(Below[i])
  BY BelowFacts DEF Kept, OperandsSound
<1>3. ASSUME NEW i \in 1..Len(Below), Below[i].pc \in PatternFrames
      PROVE  i = Len(Below) \/ (i < Len(Below) /\ Below[i + 1].pc = "PatternDone")
  <2>1. i \in 1..Len(stack) /\ i < Len(stack) /\ stack[i] = Below[i]
    BY BelowFacts
  <2>2. PatternRead(i)
    BY <1>1, <1>3, <2>1
  <2>3. CASE i # Len(Below)
    <3>1. i + 1 \in 1..Len(Below) /\ i + 1 # Len(stack) /\ i # Len(stack)
      BY <2>3, BelowFacts
    <3>2. stack[i + 1].pc = "PatternDone"
      BY <2>2, <3>1 DEF PatternRead
    <3>3. QED  BY <3>1, <3>2, BelowFacts
  <2>4. QED  BY <2>3
<1>4. QED  BY <1>2, <1>3, BelowFacts DEF Nested

LEMMA LikeKept == ASSUME Inv, Kept, Like PROVE Kept'
<1> DEFINE f == Resumed("LikePattern", Negation, <<node>>)
<1>1. Settled(Below) /\ stack # << >> /\ SoundTree(cfg, node)
  BY AtReturn DEF Like, FollowedBy
<1>2. CASE cfg.advanced /\ IsCharacter(node)
  <2>1. f.pc = "LikePattern" /\ f.acc = <<node>>
    BY FrameFields
  <2>2. Enter("Pattern", Top.depth + 1, 0, After(AfterNot), Append(Below, f))
    BY <1>2 DEF Like
  <2> HIDE DEF f
  <2>3. AccSound(f.acc) /\ Len(f.acc) \in OperandCount(f.pc) /\ f.acc[1] = node
    BY <1>1, <2>1, OneAcc, OneCount
  <2>4. Opened(f)
    BY <1>2, <2>1, <2>3 DEF Opened
  <2>5. FrameSound(f) /\ f.pc \in PatternFrames
    BY <2>1, <2>3, <2>4 DEF FrameSound, AccSound, PatternFrames
  <2>6. Nested(Append(Below, f))
    BY <1>1, <2>5, NestedPush
  <2>7. Calls(Append(Below, f)) /\ proc' = "Pattern"
    BY <2>2 DEF Enter, Calls
  <2>8. QED  BY <2>6, <2>7, NestedCalls
<1>3. CASE ~(cfg.advanced /\ IsCharacter(node))
  BY <1>1, <1>3, FailStep DEF Like
<1>4. QED  BY <1>2, <1>3

LEMMA LikePatternKept == ASSUME Inv, Kept, LikePattern PROVE Kept'
<1> DEFINE left == Top.acc[1]
           src  == <<left.src[1], node.src[2]>>
<1>1. /\ Settled(Below) /\ SoundTree(cfg, node) /\ AccSound(Top.acc) /\ stack # << >>
      /\ Top.pc = "LikePattern" /\ Len(Top.acc) \in OperandCount(Top.pc) /\ Opened(Top)
  BY AtReturn DEF LikePattern
<1>2. SoundTree(cfg, left)
  BY <1>1, OneCount, FirstSound
<1>3. CASE ValidPropertyUse(cfg.propertyProperty, <<left, node>>)
  <2>1. Return(Predicate("Like", Top.op, <<left, node>>, src), pos, Below)
    BY <1>3 DEF LikePattern
  <2> DEFINE args == <<left, node>>
  <2>2. /\ AccSound(args) /\ Len(args) = 2 /\ DOMAIN args = 1..2
        /\ args[1] = left /\ args[2] = node
    BY <1>1, <1>2, TwoAcc
  <2>3. cfg.propertyProperty \/ NoReferences(args)
    BY <1>3, PropertyUse
  <2>4. cfg.advanced /\ IsCharacter(left)
    BY <1>1 DEF Opened
  <2>5. CanBe(left, {"string"})
    BY <1>2, <2>4, CharacterCanBe DEF SoundTree
  <2>6. IsPattern(node)
    <3>1. Len(stack) \in 1..Len(stack) /\ Top = stack[Len(stack)]
      BY <1>1, StackLength DEF Top
    <3>2. PatternRead(Len(stack))
      BY <1>1, <3>1 DEF Kept, PatternsRead, PatternFrames
    <3>3. Len(stack) \in Nat
      BY StackLength
    <3>4. QED  BY <3>2, <3>3 DEF PatternRead, LikePattern, Returning
  <2> HIDE DEF args, left, src
  <2>7. SoundTree(cfg, Predicate("Like", Top.op, args, src))
    BY <2>2, <2>3, <2>4, <2>5, <2>6, LikeTree DEF AccSound
  <2>8. QED  BY <1>1, <2>1, <2>7, ReturnStep DEF args
<1>4. CASE ~ValidPropertyUse(cfg.propertyProperty, <<left, node>>)
  <2>1. Fail(Below)
    BY <1>4 DEF LikePattern
  <2>2. QED  BY <1>1, <2>1, FailStep
<1>5. QED  BY <1>3, <1>4

LEMMA PatternKept == ASSUME Inv, Kept, Pattern PROVE Kept'
<1> DEFINE f == Frame("PatternDone", depth, tokens[pos].text, 0, << >>)
<1>1. mode = "call" /\ proc = "Pattern"
  BY DEF Pattern, Calling
<1>2. Nested(stack)
  <2>1. \A i \in 1..Len(stack) : stack[i].pc \in PatternFrames => PatternRead(i)
    BY DEF Kept, PatternsRead
  <2>2. \A i \in 1..Len(stack) : PatternRead(i) =>
            i = Len(stack) \/ (i < Len(stack) /\ stack[i + 1].pc = "PatternDone")
    BY <1>1 DEF PatternRead
  <2>3. QED  BY <2>1, <2>2, StackLength DEF Nested, Kept, OperandsSound
<1>3. CASE IsWord({"CASEI", "ACCENTI"}, pos) /\ Is("LParen", After(pos))
  <2>1. f.pc = "PatternDone" /\ f.op = tokens[pos].text /\ f.acc = << >>
    BY FrameFields
  <2>2. Enter("Pattern", depth + 1, 0, After(After(pos)), Append(stack, f))
    BY <1>3 DEF Pattern
  <2>3. f.op \in {"CASEI", "ACCENTI"}
    BY <1>3, <2>1 DEF IsWord
  <2> HIDE DEF f
  <2>4. AccSound(f.acc) /\ Len(f.acc) \in OperandCount(f.pc)
    BY <2>1, NoAcc DEF OperandCount
  <2>5. FrameSound(f) /\ f.pc \in PatternFrames
    BY <2>1, <2>3, <2>4 DEF FrameSound, AccSound, PatternFrames, Opened
  <2>6. Nested(Append(stack, f))
    BY <1>2, <2>1, <2>5, NestedPush
  <2>7. Calls(Append(stack, f)) /\ proc' = "Pattern"
    BY <2>2 DEF Enter, Calls
  <2>8. QED  BY <2>6, <2>7, NestedCalls
<1>4. CASE Is("String", pos) /\ ~(IsWord({"CASEI", "ACCENTI"}, pos) /\ Is("LParen", After(pos)))
  <2>1. EnterScalar(depth + 1, pos, stack)
    BY <1>4 DEF Pattern
  <2>2. Calls(stack) /\ proc' \in {"Arithmetic", "ScalarPrimary"} /\ pos' = pos
    BY <2>1, ScalarCalls
  <2>3. AtString'
    BY <1>4, <2>2 DEF AtString, Is, Calls
  <2>4. QED  BY <1>2, <2>2, <2>3, NestedCalls
<1>5. CASE ~Is("String", pos) /\ ~(IsWord({"CASEI", "ACCENTI"}, pos) /\ Is("LParen", After(pos)))
  BY <1>5, FailStep DEF Pattern
<1>6. QED  BY <1>3, <1>4, <1>5

\* finishFunction, on the arguments read.
LEMMA FinishCallSteps ==
    ASSUME NEW name, NEW args, NEW first, NEW st, AccSound(args), FinishCall(name, args, first, st)
    PROVE  Fail(st) \/ \E n, p : /\ Return(n, p, st) /\ SoundTree(cfg, n)
                                 /\ n.kind = "Function" /\ n.op = name
<1>1. CASE Is("RParen", pos) /\ ValidCall(cfg.functions, name, args)
  <2> DEFINE n == Call(name, args, first, pos)
  <2>0. n = Node("Function", name, cfg.functions[name].returns, args, <<first, pos>>)
    BY DEF Call
  <2>1. SoundTree(cfg, n) /\ n.kind = "Function" /\ n.op = name
    <3>1. \A i \in DOMAIN args : SoundTree(cfg, args[i])
      BY DEF AccSound
    <3> HIDE DEF n
    <3>2. SoundTree(cfg, n)
      BY <1>1, <2>0, <3>1, CallTree
    <3>3. QED  BY <2>0, <3>2 DEF Node
  <2>2. Return(n, After(pos), st)
    BY <1>1 DEF FinishCall
  <2> HIDE DEF n
  <2>3. QED  BY <2>1, <2>2
<1>2. CASE ~(Is("RParen", pos) /\ ValidCall(cfg.functions, name, args))
  BY <1>2 DEF FinishCall
<1>3. QED  BY <1>1, <1>2

LEMMA PatternDoneKept == ASSUME Inv, Kept, PatternDone PROVE Kept'
<1>1. stack # << >> /\ Top.pc = "PatternDone"
  BY DEF PatternDone, Returning
<1>2. SoundTree(cfg, node) /\ Opened(Top)
  BY <1>1, TopSound
<1>3. AccSound(<<node>>)
  BY <1>2, OneAcc
<1>4. CASE Fail(Below)
  BY <1>1, <1>4, FailStep
<1>5. CASE \E n, p : /\ Return(n, p, Below) /\ SoundTree(cfg, n)
                     /\ n.kind = "Function" /\ n.op = Top.op
  <2>1. PICK n, p : /\ Return(n, p, Below) /\ SoundTree(cfg, n)
                    /\ n.kind = "Function" /\ n.op = Top.op
    BY <1>5
  <2>2. IsPattern(n)
    BY <1>1, <1>2, <2>1 DEF Opened, IsPattern, IsCast
  <2>3. QED  BY <1>1, <2>1, <2>2, NestedBelow, NestedGives, ReturnGives
<1>6. QED  BY <1>3, <1>4, <1>5, FinishCallSteps DEF PatternDone

-----------------------------------------------------------------------------
(* BETWEEN and IN.                                                         *)

LEMMA BetweenFrame ==
    ASSUME NEW f, f.pc \in {"BetweenLower", "BetweenUpper"}, AccSound(f.acc),
           f.pc = "BetweenLower" => Len(f.acc) = 1, f.pc = "BetweenUpper" => Len(f.acc) = 2,
           cfg.advanced, \A i \in DOMAIN f.acc : IsNumeric(f.acc[i])
    PROVE  AccSound(f.acc) /\ Len(f.acc) \in OperandCount(f.pc) /\ Opened(f) /\ f.pc \notin PatternFrames
<1>1. Len(f.acc) \in OperandCount(f.pc)
  BY DEF OperandCount
<1>2. QED  BY <1>1 DEF Opened, PatternFrames

LEMMA BetweenKept == ASSUME Inv, Kept, Between PROVE Kept'
<1> DEFINE f == Resumed("BetweenLower", Negation, <<node>>)
<1>1. Settled(Below) /\ stack # << >> /\ SoundTree(cfg, node)
  BY AtReturn DEF Between, FollowedBy
<1>2. CASE cfg.advanced /\ IsNumeric(node)
  <2>1. EnterScalar(Top.depth + 2, After(AfterNot), Append(Below, f))
    BY <1>2 DEF Between
  <2>2. f.pc = "BetweenLower" /\ f.acc = <<node>>
    BY FrameFields
  <2> HIDE DEF f
  <2>3. AccSound(f.acc) /\ Len(f.acc) = 1 /\ \A i \in DOMAIN f.acc : f.acc[i] = node
    BY <1>1, <2>2, OneAcc
  <2>4. AccSound(f.acc) /\ Len(f.acc) \in OperandCount(f.pc) /\ Opened(f) /\ f.pc \notin PatternFrames
    <3>1. \A i \in DOMAIN f.acc : IsNumeric(f.acc[i])
      BY <1>2, <2>2, <2>3
    <3>2. f.pc = "BetweenLower" => Len(f.acc) = 1
      BY <2>2, <2>3
    <3>3. f.pc = "BetweenUpper" => Len(f.acc) = 2
      BY <2>2, <2>3
    <3>4. f.pc \in {"BetweenLower", "BetweenUpper"} /\ AccSound(f.acc) /\ cfg.advanced
      BY <1>2, <2>2, <2>3
    <3>5. QED  BY <3>1, <3>2, <3>3, <3>4, BetweenFrame
  <2>5. Settled(Append(Below, f))
    BY <1>1, <2>4, OpenedPush
  <2>6. QED  BY <2>1, <2>5, ScalarStep
<1>3. CASE ~(cfg.advanced /\ IsNumeric(node))
  BY <1>1, <1>3, FailStep DEF Between
<1>4. QED  BY <1>2, <1>3

\* The operands of a BETWEEN with the one that has just been read.
LEMMA BetweenAcc ==
    ASSUME Inv, Kept, stack # << >>, Top.pc \in {"BetweenLower", "BetweenUpper"}, IsNumeric(node)
    PROVE  /\ cfg.advanced /\ AccSound(Append(Top.acc, node))
           /\ Len(Append(Top.acc, node)) = IF Top.pc = "BetweenLower" THEN 2 ELSE 3
           /\ \A i \in DOMAIN Append(Top.acc, node) : IsNumeric(Append(Top.acc, node)[i])
<1> DEFINE operands == Append(Top.acc, node)
<1>1. /\ AccSound(Top.acc) /\ Opened(Top) /\ SoundTree(cfg, node)
      /\ Len(Top.acc) \in OperandCount(Top.pc)
  BY TopSound
<1>2. cfg.advanced /\ \A i \in DOMAIN Top.acc : IsNumeric(Top.acc[i])
  BY <1>1 DEF Opened
<1>3. Len(Top.acc) = IF Top.pc = "BetweenLower" THEN 1 ELSE 2
  BY <1>1, OneCount DEF OperandCount
<1>4. /\ AccSound(operands) /\ Len(operands) = Len(Top.acc) + 1
      /\ \A i \in 1..Len(Top.acc) : operands[i] = Top.acc[i]
      /\ operands[Len(Top.acc) + 1] = node
      /\ DOMAIN operands = 1 .. Len(Top.acc) + 1
      /\ DOMAIN Top.acc = 1..Len(Top.acc) /\ Len(Top.acc) \in Nat
  BY <1>1, MoreAcc, AccFacts
<1> HIDE DEF operands
<1>5. \A i \in DOMAIN operands : IsNumeric(operands[i])
  <2> TAKE i \in DOMAIN operands
  <2>1. i \in DOMAIN Top.acc \/ i = Len(Top.acc) + 1
    BY <1>4
  <2>2. QED  BY <1>2, <1>4, <2>1
<1>6. QED  BY <1>2, <1>3, <1>4, <1>5 DEF operands

LEMMA BetweenLowerKept == ASSUME Inv, Kept, BetweenLower PROVE Kept'
<1> DEFINE operands == Append(Top.acc, node)
           f == Resumed("BetweenUpper", Top.op, operands)
<1>1. Settled(Below) /\ stack # << >> /\ Top.pc = "BetweenLower"
  BY AtReturn DEF BetweenLower
<1>2. CASE IsNumeric(node) /\ IsWord({"AND"}, pos)
  <2>1. EnterScalar(Top.depth + 2, After(pos), Append(Below, f))
    BY <1>2 DEF BetweenLower
  <2>2. f.pc = "BetweenUpper" /\ f.acc = operands
    BY DEF Resumed
  <2>3. /\ cfg.advanced /\ AccSound(operands) /\ Len(operands) = 2
        /\ \A i \in DOMAIN operands : IsNumeric(operands[i])
    BY <1>1, <1>2, BetweenAcc
  <2> HIDE DEF f, operands
  <2>4. AccSound(f.acc) /\ Len(f.acc) \in OperandCount(f.pc) /\ Opened(f) /\ f.pc \notin PatternFrames
    <3>1. \A i \in DOMAIN f.acc : IsNumeric(f.acc[i])
      BY <2>2, <2>3
    <3>2. f.pc = "BetweenLower" => Len(f.acc) = 1
      BY <2>2, <2>3
    <3>3. f.pc = "BetweenUpper" => Len(f.acc) = 2
      BY <2>2, <2>3
    <3>4. f.pc \in {"BetweenLower", "BetweenUpper"} /\ AccSound(f.acc) /\ cfg.advanced
      BY <2>2, <2>3
    <3>5. QED  BY <3>1, <3>2, <3>3, <3>4, BetweenFrame
  <2>5. Settled(Append(Below, f))
    BY <1>1, <2>4, OpenedPush
  <2>6. QED  BY <2>1, <2>5, ScalarStep
<1>3. CASE ~(IsNumeric(node) /\ IsWord({"AND"}, pos))
  BY <1>1, <1>3, FailStep DEF BetweenLower
<1>4. QED  BY <1>2, <1>3

LEMMA BetweenUpperKept == ASSUME Inv, Kept, BetweenUpper PROVE Kept'
<1> DEFINE operands == Append(Top.acc, node)
           src == <<operands[1].src[1], node.src[2]>>
<1>1. Settled(Below) /\ stack # << >> /\ Top.pc = "BetweenUpper"
  BY AtReturn DEF BetweenUpper
<1>2. CASE IsNumeric(node) /\ ValidPropertyUse(cfg.propertyProperty, operands)
  <2>1. Return(Predicate("Between", Top.op, operands, src), pos, Below)
    BY <1>2 DEF BetweenUpper
  <2>2. /\ cfg.advanced /\ AccSound(operands)
        /\ \A i \in DOMAIN operands : IsNumeric(operands[i])
    BY <1>1, <1>2, BetweenAcc
  <2>3. cfg.propertyProperty \/ NoReferences(operands)
    BY <1>2, PropertyUse
  <2> HIDE DEF operands, src
  <2>4. DOMAIN operands = 1..Len(operands) /\ Len(operands) \in Nat
    BY <2>2, AccFacts
  <2>5. \A i \in DOMAIN operands : SoundTree(cfg, operands[i]) /\ CanBe(operands[i], {"number"})
    BY <2>2, NumericCanBe DEF AccSound, SoundTree
  <2>6. SoundTree(cfg, Predicate("Between", Top.op, operands, src))
    BY <2>2, <2>3, <2>4, <2>5, BetweenTree
  <2>7. QED  BY <1>1, <2>1, <2>6, ReturnStep
<1>3. CASE ~(IsNumeric(node) /\ ValidPropertyUse(cfg.propertyProperty, operands))
  <2>1. Fail(Below)
    BY <1>3 DEF BetweenUpper
  <2>2. QED  BY <1>1, <2>1, FailStep
<1>4. QED  BY <1>2, <1>3

LEMMA InFrame ==
    ASSUME NEW f, f.pc = "InMore", AccSound(f.acc), Len(f.acc) # 0, cfg.advanced
    PROVE  Len(f.acc) \in OperandCount(f.pc) /\ Opened(f) /\ f.pc \notin PatternFrames
<1>1. Len(f.acc) \in OperandCount(f.pc)
  BY AccFacts DEF OperandCount
<1>2. QED  BY <1>1 DEF Opened, PatternFrames

LEMMA InKept == ASSUME Inv, Kept, In PROVE Kept'
<1> DEFINE f == Resumed("InMore", Negation, <<node>>)
           p == After(AfterNot)
<1>1. Settled(Below) /\ stack # << >> /\ SoundTree(cfg, node)
  BY AtReturn DEF In, FollowedBy
<1>2. CASE cfg.advanced /\ Is("LParen", p) /\ ~Is("RParen", After(p))
  <2>1. EnterScalar(Top.depth + 1, After(p), Append(Below, f))
    BY <1>2 DEF In
  <2>2. f.pc = "InMore" /\ f.acc = <<node>>
    BY FrameFields
  <2> HIDE DEF f, p
  <2>3. AccSound(f.acc) /\ Len(f.acc) # 0
    BY <1>1, <2>2, OneAcc
  <2>4. Settled(Append(Below, f))
    BY <1>1, <1>2, <2>2, <2>3, InFrame, OpenedPush
  <2>5. QED  BY <2>1, <2>4, ScalarStep
<1>3. CASE ~(cfg.advanced /\ Is("LParen", p) /\ ~Is("RParen", After(p)))
  <2>1. Fail(Below)
    BY <1>3 DEF In
  <2>2. QED  BY <1>1, <2>1, FailStep
<1>4. QED  BY <1>2, <1>3

\* The values of a list: the operands but the first.
LEMMA RestOf ==
    ASSUME NEW acc, AccSound(acc), Len(acc) # 0
    PROVE  /\ SubSeq(acc, 2, Len(acc)) \in Seq({acc[i] : i \in DOMAIN acc})
           /\ \A i \in DOMAIN SubSeq(acc, 2, Len(acc)) :
                 i + 1 \in 2..Len(acc) /\ SubSeq(acc, 2, Len(acc))[i] = acc[i + 1]
<1> DEFINE S == {acc[i] : i \in DOMAIN acc}
           n == Len(acc)
           rest == SubSeq(acc, 2, n)
<1>1. acc \in Seq(S) /\ n \in Nat \ {0} /\ DOMAIN acc = 1..n
  BY AccFacts DEF AccSound
<1> HIDE DEF S, n
<1>2. \A i \in 2..n : acc[i] \in S
  BY <1>1
<1>3. /\ rest \in Seq(S)
      /\ Len(rest) = IF 2 <= n THEN n - 2 + 1 ELSE 0
      /\ \A i \in 1 .. n - 2 + 1 : rest[i] = acc[2 + i - 1]
  <2>1. n \in Int /\ 2 \in Int  BY <1>1
  <2>2. QED  BY ONLY <1>2, <2>1, SubSeqProperties
<1> HIDE DEF rest
<1>4. DOMAIN rest = 1..Len(rest)
  BY <1>3
<1>5. ASSUME NEW i \in DOMAIN rest
      PROVE  i + 1 \in 2..n /\ rest[i] = acc[i + 1]
  <2>1. 2 <= n /\ i \in 1 .. n - 2 + 1
    BY <1>1, <1>3, <1>4
  <2>2. 2 + i - 1 = i + 1 /\ i + 1 \in 2..n
    BY <1>1, <2>1
  <2>3. QED  BY <1>3, <2>1, <2>2
<1>6. QED  BY <1>3, <1>5 DEF rest, n, S

LEMMA InMoreKept == ASSUME Inv, Kept, InMore PROVE Kept'
<1> DEFINE operands == Append(Top.acc, node)
           expr     == operands[1]
           values   == SubSeq(operands, 2, Len(operands))
           coerced  == [i \in DOMAIN values |-> InCoerce(expr, values[i])]
           args     == <<expr>> \o coerced
           src      == <<expr.src[1], pos>>
           f        == Resumed("InMore", Top.op, operands)
<1>1. /\ Settled(Below) /\ stack # << >> /\ Top.pc = "InMore" /\ AccSound(Top.acc)
      /\ Opened(Top) /\ SoundTree(cfg, node)
  BY AtReturn DEF InMore
<1>2. AccSound(operands) /\ Len(operands) # 0 /\ cfg.advanced
  BY <1>1, MoreAcc, AccFacts DEF Opened
<1>3. CASE Is("Comma", pos)
  <2>1. EnterScalar(Top.depth + 1, After(pos), Append(Below, f))
    BY <1>3 DEF InMore
  <2>2. f.pc = "InMore" /\ f.acc = operands
    BY DEF Resumed
  <2> HIDE DEF f, operands
  <2>3. Settled(Append(Below, f))
    BY <1>1, <1>2, <2>2, InFrame, OpenedPush
  <2>4. QED  BY <2>1, <2>3, ScalarStep
<1>4. CASE /\ Is("RParen", pos) /\ ~Is("Comma", pos)
           /\ ValidIn(expr, values) /\ ValidPropertyUse(cfg.propertyProperty, operands)
  <2>1. Return(Predicate("In", Top.op, args, src), After(pos), Below)
    BY <1>4 DEF InMore
  <2> DEFINE S == {operands[i] : i \in DOMAIN operands}
  <2>2. cfg.propertyProperty \/ NoReferences(operands)
    BY <1>4, PropertyUse
  <2>3. DOMAIN operands = 1..Len(operands) /\ Len(operands) \in Nat
    BY <1>2, AccFacts
  <2>4. /\ values \in Seq(S)
        /\ \A i \in DOMAIN values : i + 1 \in 2..Len(operands) /\ values[i] = operands[i + 1]
    BY <1>2, RestOf
  <2>5. SoundTree(cfg, expr)
    BY <1>2, FirstSound
  <2>6. args = <<expr>> \o [i \in DOMAIN values |-> InCoerce(expr, values[i])]
    OBVIOUS
  <2>7. ValidIn(expr, values)
    BY <1>4
  <2> HIDE DEF operands, values, args, coerced, S
  <2>8. \A i \in DOMAIN values : SoundTree(cfg, values[i])
    BY <1>2, <2>3, <2>4 DEF AccSound
  <2>9. cfg.propertyProperty \/ \A i \in DOMAIN values : ~values[i].refs
    BY <2>2, <2>4 DEF NoReferences
  <2> HIDE DEF expr, src
  <2>10. SoundTree(cfg, Predicate("In", Top.op, args, src))
    BY <1>2, <2>4, <2>5, <2>6, <2>7, <2>8, <2>9, ValidInTree
  <2>11. QED  BY <1>1, <2>1, <2>10, ReturnStep
<1>5. CASE ~Is("Comma", pos) /\ ~(/\ Is("RParen", pos) /\ ValidIn(expr, values)
                                  /\ ValidPropertyUse(cfg.propertyProperty, operands))
  <2>1. Fail(Below)
    BY <1>5 DEF InMore
  <2>2. QED  BY <1>1, <2>1, FailStep
<1>6. QED  BY <1>3, <1>4, <1>5

-----------------------------------------------------------------------------
(* parseArithmeticExpression                                               *)

LEMMA ArithmeticFrame ==
    ASSUME NEW f, f.pc = "ArithmeticMore", AccSound(f.acc), cfg.arithmetic,
           Len(f.acc) = 0 \/ (Len(f.acc) = 1 /\ IsNumeric(f.acc[1]))
    PROVE  FrameSound(f) /\ f.pc \notin PatternFrames
<1>1. Len(f.acc) \in OperandCount(f.pc)
  BY DEF OperandCount
<1>2. \A i \in DOMAIN f.acc : IsNumeric(f.acc[i])
  <2> TAKE i \in DOMAIN f.acc
  <2>1. i \in 1..Len(f.acc)
    BY AccFacts
  <2>2. Len(f.acc) = 1 /\ i = 1
    BY <2>1
  <2>3. QED  BY <2>2
<1>3. Opened(f)
  BY <1>2 DEF Opened
<1>4. QED  BY <1>1, <1>3 DEF FrameSound, AccSound, PatternFrames

LEMMA ArithmeticExpressionKept == ASSUME Inv, Kept, ArithmeticExpression PROVE Kept'
<1> DEFINE f == Frame("ArithmeticMore", depth, "", minPrec, << >>)
           S == {stack[i] : i \in DOMAIN stack}
           more == Append(stack, f)
<1>1. mode = "call" /\ proc = "Arithmetic" /\ cfg.arithmetic
  BY DEF ArithmeticExpression, Calling, Kept, OperandsSound
<1>2. Calls(more) /\ proc' = "ScalarPrimary" /\ pos' = pos
  BY DEF ArithmeticExpression, Enter, Calls
<1>3. f.pc = "ArithmeticMore" /\ f.acc = << >>
  BY DEF Frame
<1> HIDE DEF f
<1>4. FrameSound(f)
  BY <1>1, <1>3, NoAcc, ArithmeticFrame
<1>5. stack \in Seq(S)
  BY StackLength
<1> HIDE DEF S
<1>6. /\ Len(more) = Len(stack) + 1 /\ Len(stack) \in Nat
      /\ \A i \in 1..Len(stack) : more[i] = stack[i]
      /\ more[Len(stack) + 1] = f
  BY <1>5, AppendFacts
<1> HIDE DEF more
<1>7. \A i \in 1..Len(more) : i \in 1..Len(stack) \/ i = Len(stack) + 1
  BY <1>6
<1>8. \A i \in 1..Len(more) : FrameSound(more[i])
  BY <1>4, <1>6, <1>7 DEF Kept, OperandsSound
<1>9. \A i \in 1..Len(stack') : FrameSound(stack[i])'
  BY <1>2, <1>8, SoundAgain DEF Calls
<1>10. SoundTree(cfg, node)'
  BY <1>2, NoNodeSound DEF Calls, NoNode
<1>11. OperandsSound'
  BY <1>2, <1>9, <1>10 DEF OperandsSound, Calls
<1>12. AtString => AtString'
  BY <1>2 DEF AtString, Is, Calls
<1>13. ASSUME NEW i \in 1..Len(stack'), stack'[i].pc \in PatternFrames
       PROVE  PatternRead(i)'
  <2>1. stack' = more /\ mode' = "call"
    BY <1>2 DEF Calls
  <2>2. i \in 1..Len(stack) /\ stack[i].pc \in PatternFrames /\ i < Len(more)
    BY <1>3, <1>6, <1>7, <1>13, <2>1 DEF PatternFrames
  <2>3. PatternRead(i)
    BY <2>2 DEF Kept, PatternsRead
  <2>4. CASE i < Len(stack) /\ stack[i + 1].pc = "PatternDone"
    <3>1. i + 1 \in 1..Len(stack)
      BY <1>6, <2>2, <2>4
    <3>2. more[i + 1].pc = "PatternDone"
      BY <1>6, <2>4, <3>1
    <3>3. QED  BY <2>1, <2>2, <3>2 DEF PatternRead
  <2>5. CASE ~(i < Len(stack) /\ stack[i + 1].pc = "PatternDone")
    <3>1. i = Len(stack) /\ AtString
      BY <1>1, <2>3, <2>5 DEF PatternRead
    <3>2. i + 1 = Len(stack') /\ Top' = f
      BY <1>6, <2>1, <3>1 DEF Top
    <3>3. QED  BY <1>2, <1>3, <1>12, <2>1, <3>1, <3>2 DEF PatternRead
  <2>6. QED  BY <2>4, <2>5
<1>14. PatternsRead'
  BY <1>13 DEF PatternsRead, PatternFrames
<1>15. QED  BY <1>11, <1>14 DEF Kept

LEMMA ArithmeticMoreKept == ASSUME Inv, Kept, ArithmeticMore PROVE Kept'
<1> DEFINE left == IF Top.acc = << >> THEN node ELSE Arithmetic(Top.op, Top.acc[1], node)
           op   == tokens[pos].text
           f    == Resumed("ArithmeticMore", op, <<left>>)
<1>1. stack # << >> /\ Top.pc = "ArithmeticMore" /\ mode = "return"
  BY DEF ArithmeticMore, Returning
<1>2. /\ AccSound(Top.acc) /\ Opened(Top) /\ SoundTree(cfg, node) /\ cfg.arithmetic
      /\ Len(Top.acc) \in OperandCount(Top.pc)
  BY <1>1, TopSound DEF Opened
<1>3. \/ Fail(Below)
      \/ Return(left, pos, Below) /\ (Top.acc # << >> => IsNumeric(node))
      \/ /\ Enter("Arithmetic", Top.depth + 1, RightPrecedence(op), After(pos), Append(Below, f))
         /\ (Top.acc # << >> => IsNumeric(node)) /\ IsNumeric(left)
  BY DEF ArithmeticMore
<1>4. CASE Fail(Below)
  BY <1>1, <1>4, FailStep
<1>5. ASSUME Top.acc # << >> => IsNumeric(node)
      PROVE  SoundTree(cfg, left) /\ (Top.acc # << >> => IsNumeric(left) /\ Settled(Below))
  <2>1. CASE Top.acc = << >>
    BY <1>2, <2>1
  <2>2. CASE Top.acc # << >>
    <3>1. Len(Top.acc) # 0
      BY <1>2, <2>2 DEF AccSound
    <3>2. SoundTree(cfg, Top.acc[1]) /\ 1 \in DOMAIN Top.acc
      BY <1>2, <3>1, FirstSound, AccFacts
    <3>3. IsNumeric(Top.acc[1])
      BY <1>1, <1>2, <3>2 DEF Opened
    <3> DEFINE args == <<Top.acc[1], node>>
               src  == <<Top.acc[1].src[1], node.src[2]>>
    <3>4. AccSound(args) /\ DOMAIN args = 1..2 /\ args[1] = Top.acc[1] /\ args[2] = node
      BY <1>2, <3>2, TwoAcc
    <3>5. left = Node("Arithmetic", Top.op, {"number"}, args, src)
      BY <2>2 DEF Arithmetic
    <3> HIDE DEF args, src, left
    <3>6. \A i \in DOMAIN args : i = 1 \/ i = 2
      BY <3>4
    <3>7. \A i \in DOMAIN args : SoundTree(cfg, args[i]) /\ CanBe(args[i], {"number"})
      BY <1>5, <2>2, <3>3, <3>4, <3>6, NumericCanBe DEF AccSound, SoundTree
    <3>8. SoundTree(cfg, left)
      BY <1>2, <3>5, <3>7, ArithmeticTree
    <3>9. left.kind = "Arithmetic"
      BY <3>5, NodeFields
    <3>10. IsNumeric(left)
      BY <3>9 DEF IsNumeric
    <3>11. Settled(Below)
      BY <1>1, <2>2, SettledBelow
    <3>12. QED  BY <3>8, <3>10, <3>11
  <2>3. QED  BY <2>1, <2>2
<1>6. CASE Return(left, pos, Below) /\ (Top.acc # << >> => IsNumeric(node))
  <2>1. CASE Settled(Below)
    BY <1>5, <1>6, <2>1, ReturnStep
  <2>2. CASE ~Settled(Below)
    <3>1. Top.acc = << >> /\ left = node
      BY <1>5, <1>6, <2>2
    <3>2. node.kind = "Literal" /\ node.types = {"string"}
      BY <1>1, <2>2, SettledBelow
    <3>3. IsPattern(left)
      BY <3>1, <3>2 DEF IsPattern
    <3> HIDE DEF left
    <3>4. QED  BY <1>1, <1>5, <1>6, <3>3, NestedBelow, NestedGives, ReturnGives
  <2>3. QED  BY <2>1, <2>2
<1>7. CASE /\ Enter("Arithmetic", Top.depth + 1, RightPrecedence(op), After(pos), Append(Below, f))
           /\ (Top.acc # << >> => IsNumeric(node)) /\ IsNumeric(left)
  <2>1. f.pc = "ArithmeticMore" /\ f.acc = <<left>>
    BY FrameFields
  <2>2. Settled(Below)
    <3>1. CASE Top.acc = << >>
      <4>1. IsNumeric(node)
        BY <1>7, <3>1
      <4>2. ~(node.kind = "Literal" /\ node.types = {"string"})
        BY <4>1 DEF IsNumeric
      <4>3. QED  BY <1>1, <4>2, SettledBelow
    <3>2. CASE Top.acc # << >>
      BY <1>5, <1>7, <3>2
    <3>3. QED  BY <3>1, <3>2
  <2> HIDE DEF f, left
  <2>3. AccSound(f.acc) /\ Len(f.acc) = 1 /\ f.acc[1] = left
    BY <1>5, <1>7, <2>1, OneAcc
  <2>4. Settled(Append(Below, f))
    BY <1>2, <1>7, <2>1, <2>2, <2>3, ArithmeticFrame, SettledPush
  <2> HIDE DEF op
  <2>5. QED  BY <1>2, <1>7, <2>4, EnterStep
<1>8. QED  BY <1>3, <1>4, <1>6, <1>7

-----------------------------------------------------------------------------
(* parseScalarPrimary                                                      *)

LEMMA AtPrimary ==
    ASSUME Inv, Kept, Calling("ScalarPrimary"), ~Is("String", pos)
    PROVE  Settled(stack)
  BY SettledCall DEF Calling, AtString

LEMMA LiteralTree ==
    ASSUME NEW type \in {"string", "number", "boolean"}, NEW text, NEW at
    PROVE  /\ SoundTree(cfg, Literal(type, text, at))
           /\ Literal(type, text, at).kind = "Literal" /\ Literal(type, text, at).types = {type}
<1>1. \A i \in DOMAIN << >> : SoundTree(cfg, << >>[i])
  OBVIOUS
<1>2. SoundTree(cfg, Node("Literal", text, {type}, << >>, <<at, at>>))
  BY <1>1, PlainTree DEF PlainKinds
<1>3. QED  BY <1>2 DEF Literal, Node

\* At a string the pattern frame gets it, at once or through the frame of
\* the arithmetic expression.
LEMMA PrimaryLiteralKept == ASSUME Inv, Kept, PrimaryLiteral PROVE Kept'
<1> DEFINE text == tokens[pos].text
           type == CASE Is("String", pos) -> "string"
                     [] Is("Number", pos) -> "number"
                     [] OTHER -> "boolean"
           n == Literal(type, text, pos)
<1>1. Fail(stack) \/ Return(n, After(pos), stack)
  BY DEF PrimaryLiteral
<1>2. type \in {"string", "number", "boolean"} /\ (Is("String", pos) => type = "string")
  BY DEF Is
<1>3. Calling("ScalarPrimary") /\ proc = "ScalarPrimary" /\ mode = "call"
  BY DEF PrimaryLiteral, Calling
<1> HIDE DEF type, text
<1>4. SoundTree(cfg, n) /\ n.kind = "Literal" /\ n.types = {type}
  BY <1>2, LiteralTree
<1> HIDE DEF n
<1>5. CASE Fail(stack)
  BY <1>5, FailStep
<1>6. CASE Return(n, After(pos), stack) /\ ~Is("String", pos)
  BY <1>3, <1>4, <1>6, AtPrimary, ReturnStep
<1>7. CASE Return(n, After(pos), stack) /\ Is("String", pos)
  <2>1. Gives(n, stack)
    BY <1>7, ReturnGives
  <2>2. \A i \in 1..Len(stack') : FrameSound(stack[i])'
    BY <2>1, SoundAgain DEF Gives, Kept, OperandsSound
  <2>3. SoundTree(cfg, node)'
    BY <1>4, <2>1 DEF Gives
  <2>4. OperandsSound'
    BY <2>1, <2>2, <2>3 DEF OperandsSound, Gives
  <2>5. stack' = stack /\ mode' = "return" /\ node' = n
    BY <2>1 DEF Gives
  <2>6. node'.kind = "Literal" /\ node'.types = {"string"}
    BY <1>2, <1>4, <1>7, <2>5
  <2>7. ASSUME NEW i \in 1..Len(stack), stack[i].pc \in PatternFrames
        PROVE  PatternRead(i)'
    <3>1. PatternRead(i)
      BY <2>7 DEF Kept, PatternsRead
    <3>2. QED  BY <1>3, <2>5, <2>6, <3>1 DEF PatternRead, Top, IsPattern
  <2>8. PatternsRead'
    BY <2>5, <2>7 DEF PatternsRead, PatternFrames
  <2>9. QED  BY <2>4, <2>8 DEF Kept
<1>8. QED  BY <1>1, <1>5, <1>6, <1>7

LEMMA ReturnPropertySteps ==
    ASSUME NEW name, NEW st, ReturnProperty(name, st)
    PROVE  Fail(st) \/ \E n, p : Return(n, p, st) /\ SoundTree(cfg, n)
<1> DEFINE type == PropertyType(name)
           n    == Node("Property", name, {type}, << >>, <<pos, pos>>)
<1>1. CASE Registered(name) /\ type \in KnownPropertyTypes \cup {"any"}
  <2>1. cfg.restricted => name \in DOMAIN cfg.properties /\ type = cfg.properties[name]
    BY <1>1 DEF Registered, PropertyType
  <2>2. Return(n, After(pos), st)
    BY <1>1 DEF ReturnProperty
  <2> HIDE DEF type
  <2>3. SoundTree(cfg, n)
    BY <1>1, <2>1, PropertyTree
  <2> HIDE DEF n
  <2>4. QED  BY <2>2, <2>3
<1>2. CASE ~(Registered(name) /\ type \in KnownPropertyTypes \cup {"any"})
  BY <1>2 DEF ReturnProperty
<1>3. QED  BY <1>1, <1>2

LEMMA PropertyStep ==
    ASSUME NEW name, NEW st, Inv, Kept, Settled(st), ReturnProperty(name, st),
           st = stack \/ (stack # << >> /\ st = Below)
    PROVE  Kept'
  BY ReturnPropertySteps, ReturnStep, FailStep

LEMMA ArgumentsKept ==
    ASSUME NEW d, NEW p, Inv, Kept, Settled(stack), EnterArguments(d, p)
    PROVE  Kept'
<1> DEFINE name == tokens[pos].text
           n    == Call(name, << >>, pos, p)
<1>1. \/ Return(n, After(p), stack) /\ ValidCall(cfg.functions, name, << >>)
      \/ Fail(stack)
      \/ Enter("FunctionArg", d + 1, 0, p, Append(stack, Frame("FunctionMore", d, name, 0, << >>)))
  BY DEF EnterArguments
<1>2. Settled(Append(stack, Frame("FunctionMore", d, name, 0, << >>)))
  BY PushPlain DEF PlainFrames
<1>3. ValidCall(cfg.functions, name, << >>) => SoundTree(cfg, n)
  <2>1. \A i \in DOMAIN << >> : SoundTree(cfg, << >>[i])
    OBVIOUS
  <2>2. QED  BY <2>1, CallTree DEF Call
<1> HIDE DEF name, n
<1>4. QED  BY <1>1, <1>2, <1>3, ReturnStep, FailStep, PlainStep, PlainProc

LEMMA PrimaryNameKept == ASSUME Inv, Kept, PrimaryName PROVE Kept'
<1>1. Settled(stack)
  BY AtPrimary DEF PrimaryName, Is
<1>2. EnterArguments(depth + 1, After(After(pos))) \/ ReturnProperty(tokens[pos].text, stack)
  BY DEF PrimaryName
<1>3. QED  BY <1>1, <1>2, ArgumentsKept, PropertyStep

LEMMA PrimaryKeywordKept == ASSUME Inv, Kept, PrimaryKeyword PROVE Kept'
<1>1. Settled(stack)
  BY AtPrimary DEF PrimaryKeyword, Is
<1>2. \/ ReturnProperty(tokens[pos].raw, stack)
      \/ Enter("InstantFunction", depth + 1, 0, pos, stack)
      \/ EnterArguments(depth + 1, After(After(pos)))
      \/ Fail(stack)
  BY DEF PrimaryKeyword
<1>3. QED  BY <1>1, <1>2, ArgumentsKept, PropertyStep, PlainStep, PlainProc, FailStep

LEMMA SignFrame ==
    ASSUME NEW f, f.pc = "SignDone", AccSound(f.acc), cfg.arithmetic
    PROVE  Len(f.acc) \in OperandCount(f.pc) /\ Opened(f) /\ f.pc \notin PatternFrames
<1>1. Len(f.acc) \in OperandCount(f.pc)
  BY AccFacts DEF OperandCount
<1>2. QED  BY <1>1 DEF Opened, PatternFrames

LEMMA PrimarySignKept == ASSUME Inv, Kept, PrimarySign PROVE Kept'
<1> DEFINE f == Frame("SignDone", depth, tokens[pos].text, 0, << >>)
<1>1. Settled(stack)
  BY AtPrimary DEF PrimarySign, Is
<1>2. \/ Enter("ScalarPrimary", depth + 1, 0, After(pos), Append(stack, f)) /\ cfg.arithmetic
      \/ Fail(stack)
  BY DEF PrimarySign
<1>3. f.pc = "SignDone" /\ f.acc = << >>
  BY DEF Frame
<1> HIDE DEF f
<1>4. cfg.arithmetic => Settled(Append(stack, f))
  BY <1>1, <1>3, NoAcc, SignFrame, OpenedPush
<1>5. QED  BY <1>2, <1>4, PlainStep, PlainProc, FailStep

LEMMA SignDoneKept == ASSUME Inv, Kept, SignDone PROVE Kept'
<1> DEFINE zero == Literal("number", "0", Top.save)
           n    == Arithmetic("-", zero, node)
           args == <<zero, node>>
<1>1. /\ Settled(Below) /\ stack # << >> /\ Top.pc = "SignDone"
      /\ Opened(Top) /\ SoundTree(cfg, node)
  BY AtReturn DEF SignDone
<1>2. cfg.arithmetic
  BY <1>1 DEF Opened
<1>3. Fail(Below) \/ (IsNumeric(node) /\ (Return(node, pos, Below) \/ Return(n, pos, Below)))
  BY DEF SignDone
<1>4. SoundTree(cfg, zero) /\ zero.kind = "Literal" /\ zero.types = {"number"}
  BY LiteralTree
<1>5. n = Node("Arithmetic", "-", {"number"}, args, <<zero.src[1], node.src[2]>>)
  BY DEF Arithmetic
<1> HIDE DEF zero, n
<1>6. IsNumeric(zero)
  BY <1>4 DEF IsNumeric
<1>7. DOMAIN args = 1..2 /\ args[1] = zero /\ args[2] = node
  BY <1>1, <1>4, TwoAcc
<1> HIDE DEF args
<1>8. \A i \in DOMAIN args : i = 1 \/ i = 2
  BY <1>7
<1>9. IsNumeric(node) => \A i \in DOMAIN args : SoundTree(cfg, args[i]) /\ CanBe(args[i], {"number"})
  BY <1>1, <1>4, <1>6, <1>7, <1>8, NumericCanBe DEF SoundTree
<1>10. IsNumeric(node) => SoundTree(cfg, n)
  BY <1>2, <1>5, <1>9, ArithmeticTree
<1>11. QED  BY <1>1, <1>3, <1>10, ReturnStep, FailStep

LEMMA PrimaryGroupKept == ASSUME Inv, Kept, PrimaryGroup PROVE Kept'
<1> DEFINE st == Append(stack, Frame("GroupDone", depth, "", 0, << >>))
<1>1. Settled(stack)
  BY AtPrimary DEF PrimaryGroup, Is
<1>2. Settled(st)
  BY <1>1, PushPlain DEF PlainFrames
<1>3. \/ Enter("Arithmetic", depth + 1, 0, After(pos), st) /\ cfg.arithmetic
      \/ Enter("ScalarPrimary", depth + 2, 0, After(pos), st)
  BY DEF PrimaryGroup
<1> HIDE DEF st
<1>4. QED  BY <1>2, <1>3, EnterStep, PlainStep, PlainProc

LEMMA GroupDoneKept == ASSUME Inv, Kept, GroupDone PROVE Kept'
<1>1. Settled(Below) /\ stack # << >> /\ SoundTree(cfg, node)
  BY AtReturn DEF GroupDone
<1>2. Return(node, After(pos), Below) \/ Fail(Below)
  BY DEF GroupDone
<1>3. QED  BY <1>1, <1>2, ReturnStep, FailStep

LEMMA PrimaryUnexpectedKept == ASSUME Inv, Kept, PrimaryUnexpected PROVE Kept'
  BY FailStep DEF PrimaryUnexpected

-----------------------------------------------------------------------------
(* Functions and their arguments.                                          *)

LEMMA FunctionMoreKept == ASSUME Inv, Kept, FunctionMore PROVE Kept'
<1> DEFINE args == Append(Top.acc, node)
           st   == Append(Below, Resumed("FunctionMore", Top.op, args))
<1>1. Settled(Below) /\ stack # << >> /\ AccSound(Top.acc) /\ SoundTree(cfg, node)
  BY AtReturn DEF FunctionMore
<1>2. \/ Enter("FunctionArg", Top.depth + 1, 0, After(pos), st)
      \/ FinishCall(Top.op, args, Top.save, Below)
  BY DEF FunctionMore
<1>3. AccSound(args)
  BY <1>1, MoreAcc
<1> HIDE DEF args
<1>4. Settled(st)
  BY <1>1, <1>3, ResumePlain DEF PlainFrames
<1> HIDE DEF st
<1>5. CASE Enter("FunctionArg", Top.depth + 1, 0, After(pos), st)
  BY <1>4, <1>5, PlainStep, PlainProc
<1>6. CASE FinishCall(Top.op, args, Top.save, Below)
  BY <1>1, <1>3, <1>6, FinishCallSteps, ReturnStep, FailStep
<1>7. QED  BY <1>2, <1>5, <1>6

LEMMA FunctionArgKept == ASSUME Inv, Kept, FunctionArg PROVE Kept'
<1>1. Settled(stack)
  BY AtCall DEF FunctionArg
<1>2. Settled(Append(stack, Frame("ArgExpressionTry", depth, "", 0, << >>)))
  BY <1>1, PushPlain DEF PlainFrames
<1>3. QED  BY <1>2, PlainStep, PlainProc DEF FunctionArg

LEMMA ArgNotExpressionKept == ASSUME Inv, Kept, ArgNotExpression PROVE Kept'
<1> DEFINE st == Append(Below, Resumed("ArgScalarTry", "", << >>))
<1>1. Settled(Below)
  BY AtReturn DEF ArgNotExpression
<1>2. Settled(st)
  BY <1>1, NoAcc, ResumePlain DEF PlainFrames
<1>3. \/ Enter("TemporalInstance", Top.depth + 1, 0, Top.save, Below)
      \/ Enter("GeometryLiteral", Top.depth + 1, 0, Top.save, Below)
      \/ EnterScalar(Top.depth + 1, Top.save, st)
  BY DEF ArgNotExpression
<1> HIDE DEF st
<1>4. QED  BY <1>1, <1>2, <1>3, PlainStep, PlainProc, ScalarStep

LEMMA ArgNotScalarKept == ASSUME Inv, Kept, ArgNotScalar PROVE Kept'
<1>1. Settled(Below)
  BY AtReturn DEF ArgNotScalar
<1>2. \/ Enter("ArrayLiteral", Top.depth + 1, 0, Top.save, Below)
      \/ EnterScalar(Top.depth + 1, Top.save, Below)
  BY DEF ArgNotScalar
<1>3. QED  BY <1>1, <1>2, PlainStep, PlainProc, ScalarStep

LEMMA TrySucceededKept == ASSUME Inv, Kept, TrySucceeded PROVE Kept'
<1>1. Settled(Below) /\ SoundTree(cfg, node)
  BY AtReturn DEF TrySucceeded
<1>2. QED  BY <1>1, ReturnStep DEF TrySucceeded

-----------------------------------------------------------------------------
(* Instants and intervals.                                                 *)

LEMMA TemporalOperandKept == ASSUME Inv, Kept, TemporalOperand PROVE Kept'
<1>1. Settled(stack)
  BY AtCall DEF TemporalOperand
<1>2. \/ Enter("ScalarPrimary", depth + 1, 0, pos, stack)
      \/ ReturnProperty(tokens[pos].raw, stack)
      \/ Enter("TemporalInstance", depth + 1, 0, pos, stack)
  BY DEF TemporalOperand
<1>3. QED  BY <1>1, <1>2, PlainStep, PlainProc, PropertyStep

LEMMA TemporalInstanceKept == ASSUME Inv, Kept, TemporalInstance PROVE Kept'
<1>1. Settled(stack)
  BY AtCall DEF TemporalInstance
<1>2. \/ Enter("InstantFunction", depth + 1, 0, pos, stack)
      \/ Enter("Interval", depth + 1, 0, pos, stack)
      \/ Fail(stack)
  BY DEF TemporalInstance
<1>3. QED  BY <1>1, <1>2, PlainStep, PlainProc, FailStep

LEMMA InstantTree ==
    ASSUME NEW text, NEW kind \in {"date", "timestamp"}, NEW src
    PROVE  SoundTree(cfg, Instant(text, kind, src))
<1>1. \A i \in DOMAIN << >> : SoundTree(cfg, << >>[i])
  OBVIOUS
<1>2. QED  BY <1>1, PlainTree DEF Instant, PlainKinds, InstantTypes

LEMMA InstantFunctionKept == ASSUME Inv, Kept, InstantFunction PROVE Kept'
<1> DEFINE text == After(After(pos))
           last == After(text)
           kind == IF IsWord({"DATE"}, pos) THEN "date" ELSE "timestamp"
           n    == Instant(tokens[text].text, kind, <<pos, last>>)
<1>1. Settled(stack)
  BY AtCall DEF InstantFunction
<1>2. Return(n, After(last), stack) \/ Fail(stack)
  BY DEF InstantFunction
<1>3. kind \in {"date", "timestamp"}
  OBVIOUS
<1> HIDE DEF kind, text, last
<1>4. SoundTree(cfg, n)
  BY <1>3, InstantTree
<1> HIDE DEF n
<1>5. QED  BY <1>1, <1>2, <1>4, ReturnStep, FailStep

LEMMA IntervalKept == ASSUME Inv, Kept, Interval PROVE Kept'
<1> DEFINE st == Append(stack, Frame("IntervalStart", depth, "", 0, << >>))
<1>1. Settled(stack)
  BY AtCall DEF Interval
<1>2. Settled(st)
  BY <1>1, PushPlain DEF PlainFrames
<1>3. Enter("IntervalEndpoint", depth + 1, 0, After(After(pos)), st) \/ Fail(stack)
  BY DEF Interval
<1> HIDE DEF st
<1>4. QED  BY <1>2, <1>3, PlainStep, PlainProc, FailStep

LEMMA IntervalEndpointKept == ASSUME Inv, Kept, IntervalEndpoint PROVE Kept'
<1> DEFINE text == tokens[pos].text
           open == Node("Unbounded", "..", {}, << >>, <<pos, pos>>)
           n    == Instant(text, Instants[text].kind, <<pos, pos>>)
<1>1. Settled(stack)
  BY AtCall DEF IntervalEndpoint
<1>2. \/ Enter("ScalarPrimary", depth + 1, 0, pos, stack)
      \/ Return(open, After(pos), stack)
      \/ Return(n, After(pos), stack) /\ text \in DOMAIN Instants
      \/ Fail(stack)
  BY DEF IntervalEndpoint
<1>3. SoundTree(cfg, open)
  <2>1. \A i \in DOMAIN << >> : SoundTree(cfg, << >>[i])
    OBVIOUS
  <2>2. QED  BY <2>1, PlainTree DEF PlainKinds
<1> HIDE DEF text, open
<1>4. text \in DOMAIN Instants => SoundTree(cfg, n)
  BY InstantsAssumption, InstantTree
<1> HIDE DEF n
<1>5. QED  BY <1>1, <1>2, <1>3, <1>4, PlainStep, PlainProc, ReturnStep, FailStep

LEMMA IntervalStartKept == ASSUME Inv, Kept, IntervalStart PROVE Kept'
<1> DEFINE f == Resumed("IntervalEnd", "", <<node>>)
<1>1. Settled(Below) /\ stack # << >> /\ SoundTree(cfg, node)
  BY AtReturn DEF IntervalStart
<1>2. \/ Enter("IntervalEndpoint", Top.depth + 1, 0, After(pos), Append(Below, f))
      \/ Fail(Below)
  BY DEF IntervalStart
<1>3. f.pc = "IntervalEnd" /\ f.acc = <<node>>
  BY DEF Resumed
<1> HIDE DEF f
<1>4. AccSound(f.acc) /\ Len(f.acc) \in OperandCount(f.pc)
  BY <1>1, <1>3, OneAcc, OneCount
<1>5. Opened(f) /\ f.pc \notin PatternFrames
  BY <1>3 DEF Opened, PatternFrames
<1>6. Settled(Append(Below, f))
  BY <1>1, <1>4, <1>5, OpenedPush
<1>7. QED  BY <1>1, <1>2, <1>6, PlainStep, PlainProc, FailStep

LEMMA IntervalEndKept == ASSUME Inv, Kept, IntervalEnd PROVE Kept'
<1> DEFINE args == <<Top.acc[1], node>>
           src  == <<Top.save, pos>>
<1>1. /\ Settled(Below) /\ stack # << >> /\ SoundTree(cfg, node) /\ AccSound(Top.acc)
      /\ Top.pc = "IntervalEnd" /\ Len(Top.acc) \in OperandCount(Top.pc)
  BY AtReturn DEF IntervalEnd
<1>2. SoundTree(cfg, Top.acc[1])
  BY <1>1, OneCount, FirstSound
<1>3. Return(Node("Interval", "", {"interval"}, args, src), After(pos), Below) \/ Fail(Below)
  BY DEF IntervalEnd
<1>4. \A i \in DOMAIN args : SoundTree(cfg, args[i])
  BY <1>1, <1>2, TwoAcc DEF AccSound
<1> HIDE DEF args, src
<1>5. SoundTree(cfg, Node("Interval", "", {"interval"}, args, src))
  BY <1>4, PlainTree DEF PlainKinds
<1>6. QED  BY <1>1, <1>3, <1>5, ReturnStep, FailStep

-----------------------------------------------------------------------------
(* The predicate functions.                                                *)

LEMMA PredicateLeftKept == ASSUME Inv, Kept, PredicateLeft PROVE Kept'
<1> DEFINE f == Resumed("PredicateRight", Top.op, <<node>>)
<1>1. /\ Settled(Below) /\ stack # << >> /\ SoundTree(cfg, node)
      /\ Top.pc = "PredicateLeft" /\ Opened(Top)
  BY AtReturn DEF PredicateLeft
<1>2. Top.op \in PredicateWords /\ PredicateEnabled(Top.op)
  BY <1>1 DEF Opened
<1>3. \/ Enter(OperandProc(Top.op), Top.depth + 1, 0, After(pos), Append(Below, f))
      \/ Fail(Below)
  BY DEF PredicateLeft
<1>4. f.pc = "PredicateRight" /\ f.acc = <<node>> /\ f.op = Top.op
  BY FrameFields
<1> HIDE DEF f
<1>5. AccSound(f.acc) /\ Len(f.acc) = 1
  BY <1>1, <1>4, OneAcc
<1>6. FrameSound(f) /\ f.pc \notin PatternFrames
  BY <1>2, <1>4, <1>5, PredicateFrame
<1>7. Settled(Append(Below, f))
  BY <1>1, <1>6, SettledPush
<1>8. QED  BY <1>1, <1>3, <1>7, PlainStep, PlainProc, FailStep

LEMMA PredicateRightKept == ASSUME Inv, Kept, PredicateRight PROVE Kept'
<1> DEFINE args == <<Top.acc[1], node>>
           src  == <<Top.save, pos>>
           n    == Predicate(PredicateKind(Top.op), Top.op, args, src)
<1>1. /\ Settled(Below) /\ stack # << >> /\ SoundTree(cfg, node) /\ AccSound(Top.acc)
      /\ Top.pc = "PredicateRight" /\ Opened(Top) /\ Len(Top.acc) \in OperandCount(Top.pc)
  BY AtReturn DEF PredicateRight
<1>2. SoundTree(cfg, Top.acc[1])
  BY <1>1, OneCount, FirstSound
<1>3. Top.op \in PredicateNames /\ PredicateEnabled(Top.op)
  BY <1>1 DEF Opened, PredicateWords, PredicateNames
<1>4. SwitchedOn(cfg, Top.op)
  BY <1>3, OperatorKinds DEF SwitchedOn, PredicateEnabled
<1>5. \/ Return(n, After(pos), Below) /\ ValidOperands(Top.op, Top.acc[1], node)
      \/ Fail(Below)
  BY DEF PredicateRight
<1>6. DOMAIN args = 1..2 /\ AccSound(args) /\ args[1] = Top.acc[1] /\ args[2] = node
  BY <1>1, <1>2, TwoAcc
<1> HIDE DEF args, src
<1>7. ValidOperands(Top.op, Top.acc[1], node) => SoundTree(cfg, n)
  BY <1>3, <1>4, <1>6, OperandsTree DEF AccSound
<1> HIDE DEF n
<1>8. QED  BY <1>1, <1>5, <1>7, ReturnStep, FailStep

LEMMA SpatialOperandKept == ASSUME Inv, Kept, SpatialOperand PROVE Kept'
<1>1. Settled(stack)
  BY AtCall DEF SpatialOperand
<1>2. \/ Enter("GeometryLiteral", depth + 1, 0, pos, stack)
      \/ Enter("ScalarPrimary", depth + 1, 0, pos, stack)
  BY DEF SpatialOperand
<1>3. QED  BY <1>1, <1>2, PlainStep, PlainProc

-----------------------------------------------------------------------------
(* Arrays.                                                                 *)

LEMMA ArrayTree ==
    ASSUME NEW values, NEW first, NEW last, AccSound(values)
    PROVE  SoundTree(cfg, Array(values, first, last))
<1>1. \A i \in DOMAIN values : SoundTree(cfg, values[i])
  BY DEF AccSound
<1>2. QED  BY <1>1, PlainTree DEF Array, PlainKinds

LEMMA ArrayOperandKept == ASSUME Inv, Kept, ArrayOperand PROVE Kept'
<1>1. Settled(stack)
  BY AtCall DEF ArrayOperand
<1>2. \/ Enter("ArrayLiteral", depth + 1, 0, pos, stack)
      \/ Enter("ScalarPrimary", depth + 1, 0, pos, stack)
  BY DEF ArrayOperand
<1>3. QED  BY <1>1, <1>2, PlainStep, PlainProc

LEMMA ArrayLiteralKept == ASSUME Inv, Kept, ArrayLiteral PROVE Kept'
<1> DEFINE st == Append(stack, Frame("ArrayMore", depth, "", 0, << >>))
           empty == Array(<< >>, pos, After(pos))
<1>1. Settled(stack)
  BY AtCall DEF ArrayLiteral
<1>2. Settled(st)
  BY <1>1, PushPlain DEF PlainFrames
<1>3. SoundTree(cfg, empty)
  BY NoAcc, ArrayTree
<1>4. \/ Fail(stack) \/ Return(empty, After(After(pos)), stack)
      \/ Enter("ArrayElement", depth + 1, 0, After(pos), st)
  BY DEF ArrayLiteral
<1> HIDE DEF st, empty
<1>5. QED  BY <1>1, <1>2, <1>3, <1>4, PlainStep, PlainProc, ReturnStep, FailStep

LEMMA ArrayMoreKept == ASSUME Inv, Kept, ArrayMore PROVE Kept'
<1> DEFINE values == Append(Top.acc, node)
           st     == Append(Below, Resumed("ArrayMore", "", values))
           n      == Array(values, Top.save, pos)
<1>1. Settled(Below) /\ stack # << >> /\ AccSound(Top.acc) /\ SoundTree(cfg, node)
  BY AtReturn DEF ArrayMore
<1>2. \/ Enter("ArrayElement", Top.depth + 1, 0, After(pos), st)
      \/ Return(n, After(pos), Below) \/ Fail(Below)
  BY DEF ArrayMore
<1>3. AccSound(values)
  BY <1>1, MoreAcc
<1> HIDE DEF values
<1>4. Settled(st) /\ SoundTree(cfg, n)
  BY <1>1, <1>3, ResumePlain, ArrayTree DEF PlainFrames
<1> HIDE DEF st, n
<1>5. QED  BY <1>1, <1>2, <1>4, PlainStep, PlainProc, ReturnStep, FailStep

LEMMA ArrayElementKept == ASSUME Inv, Kept, ArrayElement PROVE Kept'
<1> DEFINE st == Append(stack, Frame("ElementTry", depth, "", 0, << >>))
<1>1. Settled(stack)
  BY AtCall DEF ArrayElement
<1>2. Settled(st)
  BY <1>1, PushPlain DEF PlainFrames
<1>3. \/ Enter("ArrayLiteral", depth + 1, 0, pos, stack)
      \/ Enter("Expression", depth + 1, 0, pos, st)
  BY DEF ArrayElement
<1> HIDE DEF st
<1>4. QED  BY <1>1, <1>2, <1>3, PlainStep, PlainProc

LEMMA ElementNotExpressionKept == ASSUME Inv, Kept, ElementNotExpression PROVE Kept'
<1>1. Settled(Below)
  BY AtReturn DEF ElementNotExpression
<1>2. \/ Enter("TemporalInstance", Top.depth + 1, 0, Top.save, Below)
      \/ Enter("GeometryLiteral", Top.depth + 1, 0, Top.save, Below)
      \/ EnterScalar(Top.depth + 1, Top.save, Below)
  BY DEF ElementNotExpression
<1>3. QED  BY <1>1, <1>2, PlainStep, PlainProc, ScalarStep

-----------------------------------------------------------------------------
(* Spans of tokens and their pieces.                                       *)

\* The k-th smallest of a set of integers is one of them.
LEMMA NthExists ==
    \A n \in Nat : \A a \in Int : \A S \in SUBSET (a .. a + n - 1) :
        \A k \in 1..Cardinality(S) : \E x \in S : Cardinality({y \in S : y < x}) = k - 1
<1> DEFINE P(n) == \A a \in Int : \A S \in SUBSET (a .. a + n - 1) :
                      \A k \in 1..Cardinality(S) : \E x \in S : Cardinality({y \in S : y < x}) = k - 1
           R == {n \in Nat : P(n)}
<1>1. 0 \in R
  <2> SUFFICES ASSUME NEW a \in Int, NEW S \in SUBSET (a .. a + 0 - 1), NEW k \in 1..Cardinality(S)
               PROVE  FALSE
    OBVIOUS
  <2>1. S = {}
    OBVIOUS
  <2>2. QED  BY <2>1, FS_EmptySet
<1>2. ASSUME NEW n \in Nat, P(n) PROVE P(n + 1)
  <2> SUFFICES ASSUME NEW a \in Int, NEW S \in SUBSET (a .. a + (n + 1) - 1), NEW k \in 1..Cardinality(S)
               PROVE  \E x \in S : Cardinality({y \in S : y < x}) = k - 1
    OBVIOUS
  <2> DEFINE m == a + n
             T == S \ {m}
  <2>1. n \in Nat /\ m \in Int
    OBVIOUS
  <2>2. T \in SUBSET (a .. a + n - 1) /\ \A y \in T : y < m
    BY <2>1
  <2>3. IsFiniteSet(T)
    <3>1. a + n - 1 \in Int
      BY <2>1
    <3>2. IsFiniteSet(a .. a + n - 1)
      BY <3>1, FS_Interval
    <3>3. QED  BY <2>2, <3>2, FS_Subset
  <2>4. \A j \in 1..Cardinality(T) : \E x \in T : Cardinality({y \in T : y < x}) = j - 1
    BY <1>2, <2>2
  <2>5. CASE m \notin S
    <3>1. T = S
      BY <2>5
    <3>2. QED  BY <2>4, <3>1
  <2>6. CASE m \in S
    <3>1. S = T \cup {m} /\ m \notin T
      BY <2>6
    <3>2. Cardinality(S) = Cardinality(T) + 1 /\ Cardinality(T) \in Nat
      BY <2>3, <3>1, FS_AddElement, FS_CardinalityType
    <3>3. CASE k = Cardinality(T) + 1
      <4>1. \A y \in S : y < m <=> y \in T
        BY <2>1, <2>2, <3>1
      <4>2. {y \in S : y < m} = T
        BY <3>1, <4>1
      <4>3. Cardinality({y \in S : y < m}) = k - 1
        BY <3>2, <3>3, <4>2
      <4>4. QED  BY <2>6, <4>3
    <3>4. CASE k # Cardinality(T) + 1
      <4>1. k \in 1..Cardinality(T)
        BY <3>2, <3>4
      <4>2. PICK x \in T : Cardinality({y \in T : y < x}) = k - 1
        BY <2>4, <4>1
      <4>3. x \in Int /\ ~(m < x) /\ x \in S
        BY <2>1, <2>2, <3>1
      <4>4. {y \in S : y < x} = {y \in T : y < x}
        BY <3>1, <4>3
      <4>5. QED  BY <4>2, <4>3, <4>4
    <3>5. QED  BY <3>3, <3>4
  <2>7. QED  BY <2>5, <2>6
<1> HIDE DEF P
<1>3. \A n \in R : n + 1 \in R
  BY <1>2
<1> HIDE DEF R
<1>4. Nat \subseteq R
  BY <1>1, <1>3, SetInduction
<1>5. QED  BY <1>4 DEF P, R

LEMMA NthIn ==
    ASSUME NEW a \in Int, NEW b \in Int, NEW S \in SUBSET (a..b), NEW k \in 1..Cardinality(S)
    PROVE  Nth(S, k) \in S /\ Nth(S, k) \in Int
<1> DEFINE n == IF a <= b THEN b - a + 1 ELSE 0
<1>1. n \in Nat /\ S \in SUBSET (a .. a + n - 1)
  OBVIOUS
<1>2. \E x \in S : Cardinality({y \in S : y < x}) = k - 1
  BY <1>1, NthExists
<1>3. Nth(S, k) \in S
  BY <1>2 DEF Nth
<1>4. S \subseteq Int
  OBVIOUS
<1>5. QED  BY <1>3, <1>4

Span(s) == s[1] \in Int /\ s[2] \in Int

\* A function on 1..n is a list.
LEMMA CountedList ==
    ASSUME NEW n \in Nat, NEW f, DOMAIN f = 1..n, f = [i \in 1..n |-> f[i]]
    PROVE  Listed(f) /\ Len(f) = n
<1> DEFINE S == {f[i] : i \in 1..n}
<1>1. f \in [1..n -> S]
  OBVIOUS
<1> HIDE DEF S
<1>2. f \in Seq(S) /\ Len(f) = n
  BY <1>1
<1>3. QED  BY <1>2 DEF Listed

LEMMA AllFinite ==
    ASSUME NEW ts, NEW kind, NEW a \in Int, NEW b \in Int
    PROVE  /\ All(ts, kind, a, b) \in SUBSET (a..b)
           /\ Cardinality(All(ts, kind, a, b)) \in Nat
<1>1. All(ts, kind, a, b) \in SUBSET (a..b)
  BY DEF All
<1>2. QED  BY <1>1, FS_Interval, FS_Subset, FS_CardinalityType

LEMMA PiecesAreSpans ==
    ASSUME NEW ts, NEW s, Span(s)
    PROVE  /\ Listed(Pieces(ts, s))
           /\ \A k \in DOMAIN Pieces(ts, s) : Span(Pieces(ts, s)[k])
<1> DEFINE a      == s[1]
           b      == s[2]
           commas == {p \in All(ts, "Comma", s[1], s[2]) : Nesting(ts, s[1], p) = 0}
           ends   == commas \cup {s[2] + 1}
           low    == IF a <= b THEN a ELSE b + 1
           n      == Cardinality(ends)
           piece(k) == <<IF k = 1 THEN s[1] ELSE Nth(ends, k - 1) + 1, Nth(ends, k) - 1>>
<1>1. a \in Int /\ b \in Int /\ b + 1 \in Int /\ low \in Int
  BY DEF Span
<1>2. commas \in SUBSET (a..b)
  BY <1>1, AllFinite
<1>3. ends \in SUBSET (low .. b + 1)
  BY <1>1, <1>2
<1>4. n \in Nat
  <2>1. IsFiniteSet(low .. b + 1)
    BY <1>1, FS_Interval
  <2>2. IsFiniteSet(ends)
    BY <1>3, <2>1, FS_Subset
  <2>3. QED  BY <2>2, FS_CardinalityType
<1>5. Pieces(ts, s) = [k \in 1..n |-> piece(k)]
  BY DEF Pieces
<1> HIDE DEF ends, low
<1>6. ASSUME NEW k \in 1..n
      PROVE  Span(piece(k))
  <2>1. Nth(ends, k) \in Int
    BY <1>1, <1>3, NthIn
  <2>2. k # 1 => Nth(ends, k - 1) \in Int
    <3>1. k # 1 => k - 1 \in 1..n
      BY <1>4
    <3>2. QED  BY <1>1, <1>3, <3>1, NthIn
  <2> DEFINE x == Nth(ends, k)
             w == Nth(ends, k - 1)
  <2> HIDE DEF x, w
  <2>3. x \in Int /\ (k # 1 => w \in Int)
    BY <2>1, <2>2 DEF x, w
  <2>4. piece(k) = <<IF k = 1 THEN a ELSE w + 1, x - 1>>
    BY DEF x, w
  <2>5. piece(k)[1] = (IF k = 1 THEN a ELSE w + 1) /\ piece(k)[2] = x - 1
    BY <2>4
  <2>6. QED  BY <1>1, <2>3, <2>5 DEF Span
<1> HIDE DEF piece, n
<1>7. DOMAIN Pieces(ts, s) = 1..n /\ \A k \in 1..n : Pieces(ts, s)[k] = piece(k)
  BY <1>5
<1>8. Pieces(ts, s) = [k \in 1..n |-> Pieces(ts, s)[k]]
  BY <1>5, <1>7
<1>9. QED  BY <1>4, <1>6, <1>7, <1>8, CountedList

LEMMA InsideSpan ==
    ASSUME NEW s, Span(s)
    PROVE  Span(Inside(s))
  BY DEF Span, Inside

-----------------------------------------------------------------------------
(* What is read from them.                                                 *)

LEMMA NumbersInRead ==
    ASSUME NEW ts, NEW s, Span(s)
    PROVE  NumbersRead(NumbersIn(ts, s))
<1> DEFINE at == All(ts, "Number", s[1], s[2])
           n  == Cardinality(at)
           text(p) == IF p > s[1] /\ ts[p - 1].text = "-" THEN Negative(ts[p].text) ELSE ts[p].text
           ns == [k \in 1..n |-> NumberNode(text(Nth(at, k)))]
<1>1. n \in Nat
  BY AllFinite DEF Span
<1>2. NumbersIn(ts, s) = ns
  BY DEF NumbersIn
<1> HIDE DEF n, text, at
<1>3. DOMAIN ns = 1..n /\ ns = [k \in 1..n |-> ns[k]]
  OBVIOUS
<1>4. \A k \in DOMAIN ns : \E t : ns[k] = NumberNode(t)
  OBVIOUS
<1> HIDE DEF ns
<1>5. Listed(ns)
  BY <1>1, <1>3, CountedList
<1>6. QED  BY <1>2, <1>4, <1>5 DEF NumbersRead

LEMMA CoordinateIn ==
    ASSUME NEW ts, NEW s, Span(s), IsCoordinate(ts, s)
    PROVE  CoordinateRead(Coordinate(NumbersIn(ts, s)))
<1> DEFINE ns == NumbersIn(ts, s)
<1>1. NumbersRead(ns)
  BY NumbersInRead
<1>2. Len(ns) \in {2, 3} /\ ValidCoordinate(Coordinate(ns))
  BY DEF IsCoordinate
<1> HIDE DEF ns
<1>3. Coordinate(ns).args = ns
  BY DEF Coordinate, Node
<1>4. InRange(ns[1], ns[2])
  BY <1>2, <1>3 DEF ValidCoordinate
<1>5. CoordinateRead(Coordinate(ns))
  BY <1>1, <1>2, <1>4 DEF CoordinateRead
<1>6. QED  BY <1>5 DEF ns

\* A list of what each piece of a span reads.
LEMMA MappedList ==
    ASSUME NEW ts, NEW s, Span(s), NEW f, DOMAIN f = DOMAIN Pieces(ts, s),
           f = [k \in DOMAIN Pieces(ts, s) |-> f[k]]
    PROVE  Listed(f) /\ Len(f) = Len(Pieces(ts, s))
<1>1. DOMAIN Pieces(ts, s) = 1..Len(Pieces(ts, s)) /\ Len(Pieces(ts, s)) \in Nat
  BY PiecesAreSpans DEF Listed
<1>2. QED  BY <1>1, CountedList

LEMMA LineIn ==
    ASSUME NEW ts, NEW s, NEW min, Span(s), IsLine(ts, s, min)
    PROVE  LineRead(Line(ts, s), min)
<1> DEFINE ps == Pieces(ts, s)
           f  == [k \in DOMAIN ps |-> Coordinate(NumbersIn(ts, ps[k]))]
<1>1. Line(ts, s) = List(f)
  BY DEF Line, Mapped
<1>2. Len(ps) >= min /\ \A k \in DOMAIN ps : IsCoordinate(ts, ps[k])
  BY DEF IsLine, EachPiece
<1>3. \A k \in DOMAIN ps : Span(ps[k])
  BY PiecesAreSpans
<1> HIDE DEF ps
<1>4. \A k \in DOMAIN f : CoordinateRead(f[k])
  BY <1>2, <1>3, CoordinateIn
<1>5. DOMAIN f = DOMAIN ps /\ f = [k \in DOMAIN ps |-> f[k]]
  OBVIOUS
<1> HIDE DEF f
<1>6. Listed(f) /\ Len(f) = Len(ps)
  BY <1>5, MappedList DEF ps
<1>7. QED  BY <1>1, <1>2, <1>4, <1>6 DEF LineRead

LEMMA LinesIn ==
    ASSUME NEW ts, NEW s, NEW min, Span(s), IsLines(ts, s, min)
    PROVE  LinesRead(Lines(ts, s), min)
<1> DEFINE ps == Pieces(ts, s)
           f  == [k \in DOMAIN ps |-> Line(ts, Inside(ps[k]))]
<1>1. Lines(ts, s) = List(f)
  BY DEF Lines, Mapped
<1>2. \A k \in DOMAIN ps : IsLine(ts, Inside(ps[k]), min)
  BY DEF IsLines, EachPiece
<1>3. \A k \in DOMAIN ps : Span(Inside(ps[k]))
  BY PiecesAreSpans, InsideSpan
<1> HIDE DEF ps
<1>4. \A k \in DOMAIN f : LineRead(f[k], min)
  BY <1>2, <1>3, LineIn
<1>5. DOMAIN f = DOMAIN ps /\ f = [k \in DOMAIN ps |-> f[k]]
  OBVIOUS
<1> HIDE DEF f
<1>6. Listed(f)
  BY <1>5, MappedList DEF ps
<1>7. QED  BY <1>1, <1>4, <1>6 DEF LinesRead

LEMMA RingsIn ==
    ASSUME NEW ts, NEW s, Span(s), IsRings(ts, s)
    PROVE  RingsRead(Lines(ts, s))
<1> DEFINE ps == Pieces(ts, s)
           f  == [k \in DOMAIN ps |-> Line(ts, Inside(ps[k]))]
<1>1. Lines(ts, s) = List(f)
  BY DEF Lines, Mapped
<1>2. \A k \in DOMAIN ps : IsLine(ts, Inside(ps[k]), 4) /\ ValidRing(Line(ts, Inside(ps[k])))
  BY DEF IsRings, IsLines, EachPiece
<1>3. \A k \in DOMAIN ps : Span(Inside(ps[k]))
  BY PiecesAreSpans, InsideSpan
<1> HIDE DEF ps
<1>4. \A k \in DOMAIN f : LineRead(f[k], 4) /\ ValidRing(f[k])
  BY <1>2, <1>3, LineIn
<1>5. DOMAIN f = DOMAIN ps /\ f = [k \in DOMAIN ps |-> f[k]]
  OBVIOUS
<1> HIDE DEF f
<1>6. Listed(f)
  BY <1>5, MappedList DEF ps
<1>7. QED  BY <1>1, <1>4, <1>6 DEF RingsRead

LEMMA PolygonsIn ==
    ASSUME NEW ts, NEW s, Span(s), IsTextData(ts, "MultiPolygon", s)
    PROVE  PolygonsRead(TextData(ts, "MultiPolygon", s))
<1> DEFINE ps == Pieces(ts, s)
           f  == [k \in DOMAIN ps |-> Lines(ts, Inside(ps[k]))]
<1>1. TextData(ts, "MultiPolygon", s) = List(f)
  BY DEF TextData, Mapped
<1>2. \A k \in DOMAIN ps : IsRings(ts, Inside(ps[k]))
  BY DEF IsTextData, EachPiece
<1>3. \A k \in DOMAIN ps : Span(Inside(ps[k]))
  BY PiecesAreSpans, InsideSpan
<1> HIDE DEF ps
<1>4. \A k \in DOMAIN f : RingsRead(f[k])
  BY <1>2, <1>3, RingsIn
<1>5. DOMAIN f = DOMAIN ps /\ f = [k \in DOMAIN ps |-> f[k]]
  OBVIOUS
<1> HIDE DEF f
<1>6. Listed(f)
  BY <1>5, MappedList DEF ps
<1>7. QED  BY <1>1, <1>4, <1>6 DEF PolygonsRead

\* A point may stand in a parenthesis of its own.
LEMMA PointsIn ==
    ASSUME NEW ts, NEW s, Span(s), IsTextData(ts, "MultiPoint", s)
    PROVE  LineRead(TextData(ts, "MultiPoint", s), 0)
<1> DEFINE ps == Pieces(ts, s)
           at(piece) == IF Grouped(ts, piece) THEN Inside(piece) ELSE piece
           f  == [k \in DOMAIN ps |-> Coordinate(NumbersIn(ts, at(ps[k])))]
<1>1. TextData(ts, "MultiPoint", s) = List(f)
  BY DEF TextData, Mapped
<1>2. \/ \A k \in DOMAIN ps : IsCoordinate(ts, ps[k])
      \/ \A k \in DOMAIN ps : Grouped(ts, ps[k]) /\ IsCoordinate(ts, Inside(ps[k]))
  BY DEF IsTextData, IsLine, EachPiece
<1>3. \A k \in DOMAIN ps : Span(ps[k]) /\ Span(Inside(ps[k]))
  BY PiecesAreSpans, InsideSpan
<1>4. ASSUME NEW piece, Span(piece), IsCoordinate(ts, piece)
      PROVE  ~Grouped(ts, piece)
  <2> SUFFICES ASSUME Grouped(ts, piece) PROVE FALSE
    OBVIOUS
  <2>1. piece[1] < piece[2] /\ ts[piece[1]].kind = "LParen"
    BY DEF Grouped, Encloses
  <2>2. piece[1] \in piece[1]..piece[2]
    BY <1>4, <2>1 DEF Span
  <2>3. ts[piece[1]].kind \in {"Operator", "Number"}
    BY <1>4, <2>2 DEF IsCoordinate, AreNumbers, SignOfNumber
  <2>4. QED  BY <2>1, <2>3
<1> HIDE DEF ps
<1>5. \A k \in DOMAIN ps : Span(at(ps[k])) /\ IsCoordinate(ts, at(ps[k]))
  BY <1>2, <1>3, <1>4
<1> HIDE DEF at
<1>6. \A k \in DOMAIN f : CoordinateRead(f[k])
  BY <1>5, CoordinateIn
<1>7. DOMAIN f = DOMAIN ps /\ f = [k \in DOMAIN ps |-> f[k]]
  OBVIOUS
<1> HIDE DEF f
<1>8. Listed(f) /\ Len(f) >= 0
  BY <1>7, MappedList DEF ps, Listed
<1>9. QED  BY <1>1, <1>6, <1>8 DEF LineRead

LEMMA DataIn ==
    ASSUME NEW ts, NEW s, Span(s), NEW type, IsTextData(ts, type, s),
           type \in {"Point", "LineString", "Polygon", "MultiPoint", "MultiLineString",
                     "MultiPolygon", "BBox"}
    PROVE  DataRead(type, TextData(ts, type, s))
<1>1. CASE type = "Point"
  <2>1. IsCoordinate(ts, s) /\ TextData(ts, type, s) = List(<<Coordinate(NumbersIn(ts, s))>>)
    BY <1>1 DEF IsTextData, TextData
  <2>2. QED  BY <1>1, <2>1, CoordinateIn DEF DataRead
<1>2. CASE type = "LineString"
  <2>1. IsLine(ts, s, 2) /\ TextData(ts, type, s) = Line(ts, s)
    BY <1>2 DEF IsTextData, TextData
  <2>2. QED  BY <1>2, <2>1, LineIn DEF DataRead
<1>3. CASE type = "Polygon"
  <2>1. IsRings(ts, s) /\ TextData(ts, type, s) = Lines(ts, s)
    BY <1>3 DEF IsTextData, TextData
  <2>2. QED  BY <1>3, <2>1, RingsIn DEF DataRead
<1>4. CASE type = "MultiPoint"
  BY <1>4, PointsIn DEF DataRead
<1>5. CASE type = "MultiLineString"
  <2>1. IsLines(ts, s, 2) /\ TextData(ts, type, s) = Lines(ts, s)
    BY <1>5 DEF IsTextData, TextData
  <2>2. QED  BY <1>5, <2>1, LinesIn DEF DataRead
<1>6. CASE type = "MultiPolygon"
  BY <1>6, PolygonsIn DEF DataRead
<1>7. CASE type = "BBox"
  <2>1. ValidBBox(NumbersIn(ts, s)) /\ TextData(ts, type, s) = List(NumbersIn(ts, s))
    BY <1>7 DEF IsTextData, TextData
  <2>2. BoxRead(List(NumbersIn(ts, s)))
    BY <2>1, NumbersInRead DEF BoxRead
  <2>3. QED  BY <1>7, <2>1, <2>2 DEF DataRead
<1>8. QED  BY <1>1, <1>2, <1>3, <1>4, <1>5, <1>6, <1>7

-----------------------------------------------------------------------------
(* parseTextGeometryLiteral                                                *)

LEMMA GeometryDataKept == ASSUME Inv, Kept, GeometryData PROVE Kept'
<1> DEFINE type == GeometryTypeOf[tokens[pos].text]
           span(q) == <<Opening(pos) + 1, q - 1>>
           n(q) == GeometryLiteral(type, TextData(tokens, type, span(q)), << >>, <<pos, q>>)
<1>1. Settled(stack)
  BY AtCall DEF GeometryData
<1>2. CASE Fail(stack)
  BY <1>2, FailStep
<1>3. CASE ~Fail(stack)
  <2>1. PICK q \in DataEnds(pos) : Return(n(q), After(q), stack)
    BY <1>3 DEF GeometryData
  <2>2. tokens[pos].text \in GeometryKeywords \ {"GEOMETRYCOLLECTION"}
    BY <1>3 DEF GeometryData, Names
  <2>3. type \in {"Point", "LineString", "Polygon", "MultiPoint", "MultiLineString",
                  "MultiPolygon", "BBox"}
    BY <2>2 DEF GeometryKeywords, GeometryTypeOf
  <2>4. Opening(pos) \in Int /\ q \in Int
    <3>1. pos \in Int /\ Len(tokens) \in Int
      BY TokensLength DEF Inv, TypeOK
    <3>2. \A p \in Int : After(p) \in Int
      BY <3>1 DEF After
    <3>3. Opening(pos) \in Int
      BY <3>1, <3>2 DEF Opening
    <3>4. QED  BY <3>1, <3>3 DEF DataEnds
  <2>5. IsTextData(tokens, type, span(q))
    BY DEF DataEnds
  <2>6. Span(span(q))
    BY <2>4 DEF Span
  <2> DEFINE data == TextData(tokens, type, span(q))
             src  == <<pos, q>>
  <2> HIDE DEF type, span
  <2>7. DataRead(type, data)
    BY <2>3, <2>5, <2>6, DataIn
  <2>8. BBoxRead(<< >>)
    BY DEF BBoxRead
  <2> HIDE DEF data, src
  <2>9. SoundTree(cfg, GeometryLiteral(type, data, << >>, src))
    BY <2>7, <2>8, GeometryTree
  <2>10. Return(GeometryLiteral(type, data, << >>, src), After(q), stack)
    BY <2>1 DEF data, src
  <2>11. QED  BY <1>1, <2>9, <2>10, ReturnStep
<1>4. QED  BY <1>2, <1>3

LEMMA GeometryCollectionKept == ASSUME Inv, Kept, GeometryCollection PROVE Kept'
<1> DEFINE st == Append(stack, Frame("CollectionMore", depth + 1, "", 0, << >>))
<1>1. Settled(stack)
  BY AtCall DEF GeometryCollection
<1>2. Settled(st)
  BY <1>1, PushPlain DEF PlainFrames
<1>3. Fail(stack) \/ Enter("GeometryLiteral", depth + 2, 0, After(Opening(pos)), st)
  BY DEF GeometryCollection
<1> HIDE DEF st
<1>4. QED  BY <1>2, <1>3, PlainStep, PlainProc, FailStep

LEMMA CollectionMoreKept == ASSUME Inv, Kept, CollectionMore PROVE Kept'
<1> DEFINE members == Append(Top.acc, node)
           st  == Append(Below, Resumed("CollectionMore", "", members))
           src == <<Top.save, pos>>
           n   == GeometryLiteral("GeometryCollection", List(members), << >>, src)
<1>1. Settled(Below) /\ stack # << >> /\ AccSound(Top.acc) /\ SoundTree(cfg, node)
  BY AtReturn DEF CollectionMore
<1>2. \/ Fail(Below)
      \/ Enter("GeometryLiteral", Top.depth + 1, 0, After(pos), st)
      \/ Return(n, After(pos), Below) /\ ValidCollection(members, "text")
  BY DEF CollectionMore
<1>3. AccSound(members)
  BY <1>1, MoreAcc
<1> HIDE DEF members, src
<1>4. Settled(st)
  BY <1>1, <1>3, ResumePlain DEF PlainFrames
<1>5. BBoxRead(<< >>) /\ \A i \in DOMAIN members : SoundTree(cfg, members[i])
  BY <1>3 DEF BBoxRead, AccSound
<1>6. ValidCollection(members, "text") => SoundTree(cfg, n)
  BY <1>5, CollectionTree
<1> HIDE DEF st, n
<1>7. QED  BY <1>1, <1>2, <1>4, <1>6, PlainStep, PlainProc, ReturnStep, FailStep

-----------------------------------------------------------------------------
(* Errors and the end.                                                     *)

LEMMA MaximumDepthExceededKept == ASSUME Inv, Kept, MaximumDepthExceeded PROVE Kept'
  BY FailStep DEF MaximumDepthExceeded

LEMMA PropagateKept == ASSUME Inv, Kept, Propagate PROVE Kept'
  BY FailStep DEF Propagate

LEMMA FinishKept == ASSUME Inv, Kept, Finish PROVE Kept'
<1>1. /\ mode' \in {"accepted", "rejected"} /\ stack' = stack /\ node' = node
      /\ UNCHANGED <<tokens, cfg>> /\ stack = << >>
  BY DEF Finish
<1>2. \A i \in 1..Len(stack') : FrameSound(stack[i])'
  BY <1>1, SoundAgain DEF Kept, OperandsSound
<1>3. SoundTree(cfg, node)'
  BY <1>1 DEF Kept, OperandsSound
<1>4. OperandsSound'
  BY <1>1, <1>2, <1>3 DEF OperandsSound
<1>5. PatternsRead'
  BY <1>1 DEF PatternsRead
<1>6. QED  BY <1>4, <1>5 DEF Kept

LEMMA StutterKept == ASSUME Inv, Kept, UNCHANGED vars PROVE Kept'
<1>1. UNCHANGED <<tokens, cfg, pos, mode, proc, node, stack>>
  BY DEF vars
<1>2. \A i \in 1..Len(stack') : FrameSound(stack[i])'
  BY <1>1, SoundAgain DEF Kept, OperandsSound
<1>3. SoundTree(cfg, node)'
  BY <1>1 DEF Kept, OperandsSound
<1>4. OperandsSound'
  BY <1>1, <1>2, <1>3 DEF Kept, OperandsSound
<1>5. PatternsRead'
  BY <1>1 DEF Kept, PatternsRead, PatternRead, PatternFrames, Top, AtString, Is, IsPattern, IsCast
<1>6. QED  BY <1>4, <1>5 DEF Kept

LEMMA StepKept == ASSUME Inv, Kept, Step PROVE Kept'
  BY MaximumDepthExceededKept, FinishKept, PropagateKept,
     ExpressionKept, OrMoreKept, AndMoreKept, NotKept, NotDoneKept,
     PrimaryPredicateKept, PrimaryIntervalKept, PrimaryGeometryKept, IntervalIsKept,
     PrimaryParenKept, ParenIsExpressionKept, ParenIsScalarKept, PrimaryScalarKept,
     ComparisonKept, ComparisonRightKept, ArithmeticDisabledKept, LikeKept, LikePatternKept,
     BetweenKept, BetweenLowerKept, BetweenUpperKept, InKept, InMoreKept,
     IsNullKept, NoPredicateKept, PatternKept, PatternDoneKept,
     ArithmeticExpressionKept, ArithmeticMoreKept, PrimaryLiteralKept,
     PrimaryNameKept, PrimaryKeywordKept, PrimarySignKept, SignDoneKept,
     PrimaryGroupKept, GroupDoneKept, PrimaryUnexpectedKept,
     FunctionMoreKept, FunctionArgKept, ArgNotExpressionKept, ArgNotScalarKept,
     TrySucceededKept, TemporalOperandKept, TemporalInstanceKept, InstantFunctionKept,
     IntervalKept, IntervalEndpointKept, IntervalStartKept, IntervalEndKept,
     PredicateLeftKept, PredicateRightKept, ArrayOperandKept, ArrayLiteralKept,
     ArrayMoreKept, ArrayElementKept, ElementNotExpressionKept,
     SpatialOperandKept, GeometryDataKept, GeometryCollectionKept, CollectionMoreKept
     DEF Step

LEMMA InitKept == Init => Kept
<1> SUFFICES ASSUME Init PROVE Kept
  OBVIOUS
<1>1. SoundTree(cfg, node)
  BY NoNodeSound DEF Init
<1>2. Len(stack) = 0 /\ proc # "Arithmetic"
  BY DEF Init
<1>3. QED  BY <1>1, <1>2 DEF Kept, OperandsSound, PatternsRead

-----------------------------------------------------------------------------
(* How deep operands nest.                                                 *)

Held(acc, d) == \A i \in DOMAIN acc : NestsWithin("text", acc[i], d)

Await(pc, d) == cfg.maxDepth - d - IF pc \in {"OrMore", "AndMore", "NotDone"} THEN 1 ELSE 0

Yield(pc, d) == Await(pc, d) + IF pc = "CollectionMore" THEN 2 ELSE 1

Holds(pc, d, acc) == Held(acc, IF pc = "ArithmeticMore" THEN Yield(pc, d) ELSE Await(pc, d))

LEMMA HeldNone == ASSUME NEW d PROVE Held(<< >>, d)
  BY DEF Held

LEMMA HeldOne ==
    ASSUME NEW n, NEW d, NestsWithin("text", n, d)
    PROVE  Held(<<n>>, d)
  BY OneAcc DEF Held

LEMMA HeldTwo ==
    ASSUME NEW l, NEW r, NEW d, NestsWithin("text", l, d), NestsWithin("text", r, d)
    PROVE  Held(<<l, r>>, d)
<1>1. DOMAIN <<l, r>> = {1, 2} /\ <<l, r>>[1] = l /\ <<l, r>>[2] = r
  OBVIOUS
<1>2. QED  BY <1>1 DEF Held

LEMMA HeldMore ==
    ASSUME NEW acc, NEW n, NEW d, AccSound(acc), SoundTree(cfg, n), Held(acc, d),
           NestsWithin("text", n, d)
    PROVE  Held(Append(acc, n), d)
<1> DEFINE more == Append(acc, n)
<1>1. /\ Len(acc) \in Nat /\ DOMAIN acc = 1..Len(acc)
      /\ \A i \in 1..Len(acc) : more[i] = acc[i]
      /\ more[Len(acc) + 1] = n /\ DOMAIN more = 1 .. Len(acc) + 1
  BY MoreAcc, AccFacts
<1> HIDE DEF more
<1>2. ASSUME NEW i \in DOMAIN more PROVE NestsWithin("text", more[i], d)
  <2>1. i = Len(acc) + 1 \/ i \in 1..Len(acc)
    BY <1>1
  <2>2. QED  BY <1>1, <2>1 DEF Held
<1>3. QED  BY <1>2 DEF Held, more

LEMMA HeldGrows ==
    ASSUME NEW acc, NEW d \in Int, NEW e \in Int, Held(acc, d), d <= e
    PROVE  Held(acc, e)
  BY NestingGrows DEF Held

\* A node of operands that nest within d nests within any larger bound.
LEMMA HeldNode ==
    ASSUME NEW kind, NEW op, NEW types, NEW args, NEW src, NEW d \in Int, NEW e \in Int,
           Held(args, d), d + 1 <= e, 1 <= e
    PROVE  NestsWithin("text", Node(kind, op, types, args, src), e)
<1> DEFINE n == Node(kind, op, types, args, src)
<1>1. n.args = args
  BY NodeFields
<1> HIDE DEF n
<1>2. ASSUME NEW i \in Inner(n) PROVE NestsWithin("text", n.args[i], e - Weight("text", n, i))
  <2> DEFINE w == Weight("text", n, i)
  <2>1. w \in Int /\ w <= 1
    BY DEF Weight
  <2>2. NestsWithin("text", n.args[i], d)
    <3>1. i \in DOMAIN args
      BY <1>1 DEF Inner
    <3>2. QED  BY <1>1, <3>1 DEF Held
  <2> HIDE DEF w
  <2> DEFINE b == e - w
  <2>3. b \in Int /\ d <= b
    BY <2>1
  <2> HIDE DEF b
  <2>4. NestsWithin("text", n.args[i], b)
    BY <2>2, <2>3, NestingGrows
  <2>5. QED  BY <2>4 DEF b, w
<1>3. NestsWithin("text", n, e)
  BY <1>2, NestingNode
<1>4. QED  BY <1>3 DEF n

-----------------------------------------------------------------------------
(* Stacks on which every frame has the room it needs.                      *)

Fits(st) ==
    /\ cfg.maxDepth \in Int
    /\ st \in Seq({st[i] : i \in DOMAIN st})
    /\ \A k \in 1..Len(st) : /\ st[k].depth \in Int
                             /\ HeldWithin(st[k])
                             /\ Yielded(st[k]) <= Room(st, k - 1)

Left(st) == Room(st, Len(st))

LEMMA Limits == ASSUME Inv PROVE cfg.maxDepth \in Int /\ depth \in Int
  BY ConfigsAssumption DEF Inv, TypeOK, Configs

LEMMA LeftIsInt == ASSUME NEW st, Fits(st) PROVE Left(st) \in Int /\ cfg.maxDepth \in Int
<1> DEFINE S == {st[i] : i \in DOMAIN st}
<1>1. st \in Seq(S) /\ cfg.maxDepth \in Int
  BY DEF Fits
<1> HIDE DEF S
<1>2. Len(st) \in Nat
  BY <1>1
<1>3. CASE Len(st) = 0
  BY <1>1, <1>3 DEF Left, Room
<1>4. CASE Len(st) # 0
  <2>1. st[Len(st)].depth \in Int
    BY <1>2, <1>4 DEF Fits
  <2>2. QED  BY <1>1, <1>4, <2>1 DEF Left, Room, Awaited
<1>5. QED  BY <1>1, <1>3, <1>4

LEMMA StackFits == ASSUME Inv, RoomLeft PROVE Fits(stack)
<1>1. \A k \in 1..Len(stack) : stack[k].depth \in Int
  BY DEF Inv, StackOK, FrameOK
<1>2. QED  BY <1>1, Limits, StackLength DEF RoomLeft, Fits

LEMMA BelowFits ==
    ASSUME Inv, RoomLeft, stack # << >>
    PROVE  /\ Fits(Below) /\ Top.depth \in Int
           /\ Yield(Top.pc, Top.depth) <= Left(Below)
           /\ Holds(Top.pc, Top.depth, Top.acc)
           /\ Left(stack) = Await(Top.pc, Top.depth)
<1>1. Fits(stack)
  BY StackFits
<1>2. /\ Below \in Seq({Below[i] : i \in DOMAIN Below})
      /\ Len(Below) \in Nat /\ Len(stack) = Len(Below) + 1
      /\ \A i \in 1..Len(Below) : Below[i] = stack[i]
      /\ Top = stack[Len(Below) + 1]
  BY BelowFacts
<1> DEFINE m == Len(Below)
<1>3. \A k \in 0..m : Room(Below, k) = Room(stack, k)
  BY <1>2 DEF Room
<1>4. m \in Nat /\ Len(stack) = m + 1
  BY <1>2
<1>5. \A k \in 1..m : k \in 1..Len(stack) /\ k - 1 \in 0..m
  BY <1>4
<1>6. Fits(Below)
  BY <1>1, <1>2, <1>3, <1>5 DEF Fits
<1>7. m + 1 \in 1..Len(stack) /\ (m + 1) - 1 = m /\ m \in 0..m /\ m + 1 # 0
  BY <1>4
<1>8. Top.depth \in Int /\ HeldWithin(Top) /\ Yielded(Top) <= Room(stack, m)
  BY <1>1, <1>2, <1>7 DEF Fits
<1>9. Left(stack) = Awaited(Top)
  BY <1>2, <1>4, <1>7 DEF Left, Room
<1>10. Left(Below) = Room(stack, m)
  BY <1>3, <1>7 DEF Left
<1>11. Yielded(Top) = Yield(Top.pc, Top.depth) /\ Awaited(Top) = Await(Top.pc, Top.depth)
  BY DEF Yielded, Yield, Awaited, Await
<1>12. Holds(Top.pc, Top.depth, Top.acc)
  BY <1>8, <1>11 DEF HeldWithin, Holds, Held
<1>13. QED  BY <1>6, <1>8, <1>9, <1>10, <1>11, <1>12

LEMMA PushFits ==
    ASSUME NEW st, NEW f, Fits(st), f.depth \in Int, Holds(f.pc, f.depth, f.acc),
           Yield(f.pc, f.depth) <= Left(st)
    PROVE  /\ Fits(Append(st, f))
           /\ Left(Append(st, f)) = Await(f.pc, f.depth)
<1> DEFINE S == {st[i] : i \in DOMAIN st}
           more == Append(st, f)
<1>1. st \in Seq(S)
  BY DEF Fits
<1> HIDE DEF S
<1>2. /\ more \in Seq(S \cup {f}) /\ Len(more) = Len(st) + 1 /\ Len(st) \in Nat
      /\ \A i \in 1..Len(st) : more[i] = st[i]
      /\ more[Len(st) + 1] = f
  BY <1>1, AppendFacts
<1> HIDE DEF more
<1> DEFINE m == Len(st)
<1>3. more \in Seq({more[i] : i \in DOMAIN more})
  BY <1>2, SeqOfElements
<1>4. \A k \in 0..m : Room(more, k) = Room(st, k)
  BY <1>2 DEF Room
<1>5. Yielded(f) = Yield(f.pc, f.depth) /\ Awaited(f) = Await(f.pc, f.depth)
  BY DEF Yielded, Yield, Awaited, Await
<1>6. HeldWithin(f)
  BY <1>5 DEF HeldWithin, Holds, Held
<1>7. m \in Nat /\ Len(more) = m + 1 /\ m \in 0..m /\ (m + 1) - 1 = m /\ m + 1 # 0
  BY <1>2
<1>8. ASSUME NEW k \in 1..Len(more)
      PROVE  more[k].depth \in Int /\ HeldWithin(more[k]) /\ Yielded(more[k]) <= Room(more, k - 1)
  <2>1. CASE k = m + 1
    BY <1>2, <1>4, <1>5, <1>6, <1>7, <2>1 DEF Left
  <2>2. CASE k # m + 1
    <3>1. k \in 1..m /\ k - 1 \in 0..m
      BY <1>7, <2>2
    <3>2. QED  BY <1>2, <1>4, <3>1 DEF Fits
  <2>3. QED  BY <2>1, <2>2
<1>9. Fits(more)
  BY <1>3, <1>8 DEF Fits
<1>10. Left(more) = Await(f.pc, f.depth)
  BY <1>2, <1>5, <1>7 DEF Left, Room
<1>11. QED  BY <1>9, <1>10 DEF more

LEMMA FrameDepths ==
    ASSUME NEW pc, NEW d, NEW op, NEW prec, NEW acc
    PROVE  /\ Frame(pc, d, op, prec, acc).depth = d
           /\ Resumed(pc, op, acc).depth = Top.depth
  BY DEF Frame, Resumed

LEMMA PushFrameFits ==
    ASSUME NEW st, NEW pc, NEW d, d \in Int, NEW op, NEW prec, Fits(st),
           Yield(pc, d) <= Left(st)
    PROVE  /\ Fits(Append(st, Frame(pc, d, op, prec, << >>)))
           /\ Left(Append(st, Frame(pc, d, op, prec, << >>))) = Await(pc, d)
<1> DEFINE f == Frame(pc, d, op, prec, << >>)
<1>1. f.pc = pc /\ f.depth = d /\ f.acc = << >>
  BY FrameFields, FrameDepths
<1> HIDE DEF f
<1>2. Holds(f.pc, f.depth, f.acc)
  BY <1>1, HeldNone DEF Holds
<1>3. Fits(Append(st, f)) /\ Left(Append(st, f)) = Await(pc, d)
  BY <1>1, <1>2, PushFits
<1>4. QED  BY <1>3 DEF f

LEMMA ResumeFits ==
    ASSUME NEW pc, NEW op, NEW acc, Fits(Below), Top.depth \in Int,
           Holds(pc, Top.depth, acc), Yield(pc, Top.depth) <= Left(Below)
    PROVE  /\ Fits(Append(Below, Resumed(pc, op, acc)))
           /\ Left(Append(Below, Resumed(pc, op, acc))) = Await(pc, Top.depth)
<1> DEFINE f == Resumed(pc, op, acc)
<1>1. f.pc = pc /\ f.depth = Top.depth /\ f.acc = acc
  BY FrameFields, FrameDepths
<1> HIDE DEF f
<1>2. Fits(Append(Below, f)) /\ Left(Append(Below, f)) = Await(pc, Top.depth)
  BY <1>1, PushFits
<1>3. QED  BY <1>2 DEF f

-----------------------------------------------------------------------------
(* The three ways control moves.                                           *)

LEMMA FitsAgain ==
    ASSUME NEW st, Fits(st), stack' = st, UNCHANGED cfg
    PROVE  \A k \in 1..Len(stack') : (HeldWithin(stack[k]) /\ Yielded(stack[k]) <= Room(stack, k - 1))'
  BY DEF Fits, HeldWithin, Yielded, Awaited, Room

LEMMA EnterRoom ==
    ASSUME NEW st, NEW pr, NEW d, NEW prec, NEW p, Fits(st), Granted(pr, d) <= Left(st),
           Enter(pr, d, prec, p, st)
    PROVE  RoomLeft'
<1>1. mode' = "call" /\ proc' = pr /\ depth' = d /\ stack' = st /\ UNCHANGED cfg
  BY DEF Enter
<1>2. Granted(proc, depth)' <= Room(stack, Len(stack))'
  BY <1>1 DEF Granted, Left, Room, Awaited
<1>3. QED  BY <1>1, <1>2, FitsAgain DEF RoomLeft, TreeWithinDepth

LEMMA ScalarRoom ==
    ASSUME NEW st, NEW d \in Int, NEW p, Fits(st), cfg.maxDepth - d <= Left(st),
           EnterScalar(d, p, st)
    PROVE  RoomLeft'
<1>1. Granted("Arithmetic", d + 1) = cfg.maxDepth - d /\ Granted("ScalarPrimary", d + 1) = cfg.maxDepth - d
  BY LeftIsInt DEF Granted
<1>2. CASE cfg.arithmetic
  <2>1. \E z : Enter("Arithmetic", d + 1, z, p, st)
    BY <1>2 DEF EnterScalar
  <2>2. QED  BY <1>1, <2>1, EnterRoom
<1>3. CASE ~cfg.arithmetic
  <2>1. \E z : Enter("ScalarPrimary", d + 1, z, p, st)
    BY <1>3 DEF EnterScalar
  <2>2. QED  BY <1>1, <2>1, EnterRoom
<1>4. QED  BY <1>2, <1>3

LEMMA ReturnRoom ==
    ASSUME NEW st, NEW n, NEW p, Fits(st), NestsWithin("text", n, Left(st)), Return(n, p, st)
    PROVE  RoomLeft'
<1>1. mode' = "return" /\ node' = n /\ stack' = st /\ UNCHANGED cfg
  BY DEF Return
<1>2. NestsWithin("text", node', Room(stack, Len(stack))')
  BY <1>1 DEF Left, Room, Awaited
<1>3. QED  BY <1>1, <1>2, FitsAgain DEF RoomLeft, TreeWithinDepth

LEMMA FailRoom ==
    ASSUME Inv, RoomLeft, Fail(stack) \/ (stack # << >> /\ Fail(Below))
    PROVE  RoomLeft'
<1>1. PICK st : Fits(st) /\ Fail(st)
  BY StackFits, BelowFits
<1>2. mode' = "fail" /\ stack' = st /\ UNCHANGED cfg
  BY <1>1 DEF Fail
<1>3. QED  BY <1>1, <1>2, FitsAgain DEF RoomLeft, TreeWithinDepth

-----------------------------------------------------------------------------
(* The steps most actions are.                                             *)

\* What a call and the return to a frame start from.
LEMMA CallRoom ==
    ASSUME NEW pr, Inv, RoomLeft, Calling(pr)
    PROVE  /\ Fits(stack) /\ Granted(pr, depth) <= Left(stack)
           /\ depth \in Int /\ cfg.maxDepth \in Int /\ Left(stack) \in Int
           /\ depth + 1 \in Int /\ depth + 2 \in Int
           /\ pr \in DepthChecked => depth <= cfg.maxDepth
<1>1. Granted(pr, depth) <= Left(stack)
  BY DEF RoomLeft, Calling, Left
<1>2. pr \in DepthChecked => depth <= cfg.maxDepth
  BY Limits DEF Calling, TooDeep
<1>3. depth \in Int /\ depth + 1 \in Int /\ depth + 2 \in Int
  BY Limits
<1>4. QED  BY <1>1, <1>2, <1>3, StackFits, LeftIsInt

LEMMA FrameRoom ==
    ASSUME NEW pc, Inv, RoomLeft, Returning(pc) \/ Failing(pc)
    PROVE  /\ Fits(Below) /\ Top.depth \in Int /\ stack # << >> /\ Top.pc = pc
           /\ Yield(pc, Top.depth) <= Left(Below)
           /\ Holds(pc, Top.depth, Top.acc)
           /\ Returning(pc) => NestsWithin("text", node, Await(pc, Top.depth))
           /\ cfg.maxDepth \in Int /\ Left(Below) \in Int
           /\ Top.depth + 1 \in Int /\ Top.depth + 2 \in Int
<1>1. stack # << >> /\ Top.pc = pc
  BY DEF Returning, Failing
<1>2. /\ Fits(Below) /\ Top.depth \in Int
      /\ Yield(pc, Top.depth) <= Left(Below)
      /\ Holds(pc, Top.depth, Top.acc)
      /\ Left(stack) = Await(pc, Top.depth)
  BY <1>1, BelowFits
<1>3. Returning(pc) => NestsWithin("text", node, Await(pc, Top.depth))
  BY <1>2 DEF Returning, RoomLeft, Left
<1>4. Top.depth + 1 \in Int /\ Top.depth + 2 \in Int
  BY <1>2
<1>5. QED  BY <1>1, <1>2, <1>3, <1>4, LeftIsInt

LEMMA TailRoom ==
    ASSUME NEW at, Inv, RoomLeft, Calling(at),
           NEW pr, NEW d, d \in Int, NEW prec, NEW p, Granted(pr, d) <= Granted(at, depth),
           Enter(pr, d, prec, p, stack)
    PROVE  RoomLeft'
<1>1. Granted(pr, d) \in Int /\ Granted(at, depth) \in Int
  BY CallRoom DEF Granted
<1>2. Granted(pr, d) <= Left(stack)
  BY <1>1, CallRoom
<1>3. QED  BY <1>2, CallRoom, EnterRoom

LEMMA PushRoom ==
    ASSUME NEW at, Inv, RoomLeft, Calling(at),
           NEW pc, NEW e, e \in Int, NEW op, NEW q, Yield(pc, e) <= Granted(at, depth),
           NEW pr, NEW d, d \in Int, NEW prec, NEW p, Granted(pr, d) <= Await(pc, e),
           Enter(pr, d, prec, p, Append(stack, Frame(pc, e, op, q, << >>)))
    PROVE  RoomLeft'
<1>1. depth \in Int /\ cfg.maxDepth \in Int
  BY CallRoom
<1>2. Yield(pc, e) \in Int /\ Granted(at, depth) \in Int
  <2>1. Await(pc, e) \in Int
    BY <1>1 DEF Await
  <2>2. Yield(pc, e) \in Int
    BY <2>1 DEF Yield
  <2>3. Granted(at, depth) \in Int
    BY <1>1 DEF Granted
  <2>4. QED  BY <2>2, <2>3
<1> DEFINE y == Yield(pc, e)
           g == Granted(at, depth)
<1>3. g <= Left(stack) /\ Left(stack) \in Int
  BY CallRoom
<1>4. y \in Int /\ g \in Int /\ y <= g
  BY <1>2
<1> HIDE DEF y, g
<1>5. y <= Left(stack)
  BY <1>3, <1>4
<1> DEFINE st == Append(stack, Frame(pc, e, op, q, << >>))
<1>6. Fits(st) /\ Left(st) = Await(pc, e)
  BY <1>5, CallRoom, PushFrameFits DEF y
<1>7. Enter(pr, d, prec, p, st)
  OBVIOUS
<1> HIDE DEF st
<1>8. QED  BY <1>6, <1>7, EnterRoom

LEMMA PushScalarRoom ==
    ASSUME NEW at, Inv, RoomLeft, Calling(at),
           NEW pc, NEW e, e \in Int, NEW op, NEW q, Yield(pc, e) <= Granted(at, depth),
           NEW d, d \in Int, NEW p, cfg.maxDepth - d <= Await(pc, e),
           EnterScalar(d, p, Append(stack, Frame(pc, e, op, q, << >>)))
    PROVE  RoomLeft'
<1>1. depth \in Int /\ cfg.maxDepth \in Int
  BY CallRoom
<1>2. Yield(pc, e) \in Int /\ Granted(at, depth) \in Int
  <2>1. Await(pc, e) \in Int
    BY <1>1 DEF Await
  <2>2. Yield(pc, e) \in Int
    BY <2>1 DEF Yield
  <2>3. Granted(at, depth) \in Int
    BY <1>1 DEF Granted
  <2>4. QED  BY <2>2, <2>3
<1> DEFINE y == Yield(pc, e)
           g == Granted(at, depth)
<1>3. g <= Left(stack) /\ Left(stack) \in Int
  BY CallRoom
<1>4. y \in Int /\ g \in Int /\ y <= g
  BY <1>2
<1> HIDE DEF y, g
<1>5. y <= Left(stack)
  BY <1>3, <1>4
<1> DEFINE st == Append(stack, Frame(pc, e, op, q, << >>))
<1>6. Fits(st) /\ Left(st) = Await(pc, e)
  BY <1>5, CallRoom, PushFrameFits DEF y
<1>7. EnterScalar(d, p, st)
  OBVIOUS
<1> HIDE DEF st
<1>8. QED  BY <1>6, <1>7, ScalarRoom

LEMMA ResumedRoom ==
    ASSUME NEW at, Inv, RoomLeft, Returning(at) \/ Failing(at),
           NEW pc, NEW op, NEW acc, Holds(pc, Top.depth, acc),
           Yield(pc, Top.depth) <= Yield(at, Top.depth)
    PROVE  /\ Fits(Append(Below, Resumed(pc, op, acc)))
           /\ Left(Append(Below, Resumed(pc, op, acc))) = Await(pc, Top.depth)
<1>1. Yield(pc, Top.depth) \in Int /\ Yield(at, Top.depth) \in Int
  BY FrameRoom DEF Yield, Await
<1>2. Yield(pc, Top.depth) <= Left(Below)
  BY <1>1, FrameRoom
<1>3. QED  BY <1>2, FrameRoom, ResumeFits

LEMMA ResumeRoom ==
    ASSUME NEW at, Inv, RoomLeft, Returning(at) \/ Failing(at),
           NEW pc, NEW op, NEW acc, Holds(pc, Top.depth, acc),
           Yield(pc, Top.depth) <= Yield(at, Top.depth),
           NEW pr, NEW d, NEW prec, NEW p, Granted(pr, d) <= Await(pc, Top.depth),
           Enter(pr, d, prec, p, Append(Below, Resumed(pc, op, acc)))
    PROVE  RoomLeft'
<1> DEFINE st == Append(Below, Resumed(pc, op, acc))
<1>1. Fits(st) /\ Left(st) = Await(pc, Top.depth)
  BY ResumedRoom
<1>2. Enter(pr, d, prec, p, st)
  OBVIOUS
<1> HIDE DEF st
<1>3. QED  BY <1>1, <1>2, EnterRoom

LEMMA ResumeScalarRoom ==
    ASSUME NEW at, Inv, RoomLeft, Returning(at) \/ Failing(at),
           NEW pc, NEW op, NEW acc, Holds(pc, Top.depth, acc),
           Yield(pc, Top.depth) <= Yield(at, Top.depth),
           NEW d, d \in Int, NEW p, cfg.maxDepth - d <= Await(pc, Top.depth),
           EnterScalar(d, p, Append(Below, Resumed(pc, op, acc)))
    PROVE  RoomLeft'
<1> DEFINE st == Append(Below, Resumed(pc, op, acc))
<1>1. Fits(st) /\ Left(st) = Await(pc, Top.depth)
  BY ResumedRoom
<1>2. EnterScalar(d, p, st)
  OBVIOUS
<1> HIDE DEF st
<1>3. QED  BY <1>1, <1>2, ScalarRoom

\* A node whose operands nest within what its frame awaits.
LEMMA BuiltRoom ==
    ASSUME NEW at, Inv, RoomLeft, Returning(at),
           NEW kind, NEW op, NEW types, NEW args, NEW src, NEW p,
           Held(args, Await(at, Top.depth)),
           Return(Node(kind, op, types, args, src), p, Below)
    PROVE  RoomLeft'
<1> DEFINE a == Await(at, Top.depth)
           e == Left(Below)
           n == Node(kind, op, types, args, src)
<1>1. /\ a \in Int /\ e \in Int /\ NestsWithin("text", node, a)
      /\ a + 1 <= Yield(at, Top.depth) /\ Yield(at, Top.depth) <= e
      /\ Yield(at, Top.depth) \in Int
  BY FrameRoom, SMTT(30) DEF Await, Yield
<1>2. Held(args, a) /\ Return(n, p, Below) /\ Fits(Below)
  BY FrameRoom
<1> HIDE DEF a, e
<1>3. 1 <= a
  BY <1>1, NestingRoom
<1>4. a + 1 <= e /\ 1 <= e
  BY <1>1, <1>3
<1>5. NestsWithin("text", n, e)
  BY <1>1, <1>2, <1>4, HeldNode
<1> HIDE DEF n
<1>6. QED  BY <1>2, <1>5, ReturnRoom DEF e

LEMMA PredicateRoom ==
    ASSUME NEW at, Inv, RoomLeft, Returning(at),
           NEW kind, NEW op, NEW args, NEW src, NEW p,
           Held(args, Await(at, Top.depth)),
           Return(Predicate(kind, op, args, src), p, Below)
    PROVE  RoomLeft'
<1> DEFINE types == {"boolean"}
<1>1. Return(Node(kind, op, types, args, src), p, Below)
  BY DEF Predicate
<1> HIDE DEF types
<1>2. QED  BY <1>1, BuiltRoom

\* The node returned to a frame is what the frame returns.
LEMMA SameRoom ==
    ASSUME NEW at, Inv, RoomLeft, Returning(at), NEW p, Return(node, p, Below)
    PROVE  RoomLeft'
<1> DEFINE a == Await(at, Top.depth)
           e == Left(Below)
<1>1. /\ a \in Int /\ e \in Int /\ NestsWithin("text", node, a)
      /\ a <= Yield(at, Top.depth) /\ Yield(at, Top.depth) <= e
      /\ Yield(at, Top.depth) \in Int
  BY FrameRoom, SMTT(30) DEF Await, Yield
<1> HIDE DEF a, e
<1>2. NestsWithin("text", node, e)
  BY <1>1, NestingGrows
<1>3. QED  BY <1>2, FrameRoom, ReturnRoom DEF e

\* A node without operands, made by a procedure that has checked its depth.
LEMMA LeafRoom ==
    ASSUME NEW at \in DepthChecked \ {"Expression"}, Inv, RoomLeft, Calling(at),
           NEW kind, NEW op, NEW types, NEW src, NEW p,
           Return(Node(kind, op, types, << >>, src), p, stack)
    PROVE  RoomLeft'
<1> DEFINE e == Left(stack)
           n == Node(kind, op, types, << >>, src)
<1>1. e \in Int /\ 1 <= e
  <2>1. at # "Not"
    BY DEF DepthChecked
  <2>2. 1 <= Granted(at, depth) /\ Granted(at, depth) \in Int
    BY <2>1, CallRoom DEF Granted
  <2>3. QED  BY <2>2, CallRoom
<1> HIDE DEF e
<1> DEFINE none == << >>
           d == e - 1
<1>2. Held(none, d) /\ d \in Int /\ d + 1 <= e
  BY <1>1, HeldNone
<1> HIDE DEF none, d
<1>3. NestsWithin("text", Node(kind, op, types, none, src), e)
  BY <1>1, <1>2, HeldNode
<1>4. NestsWithin("text", n, e)
  BY <1>3 DEF none
<1> HIDE DEF n
<1>5. QED  BY <1>4, CallRoom, ReturnRoom DEF n, e

-----------------------------------------------------------------------------
(* parseExpression, parseOr, parseAnd, parseNot                            *)

LEMMA ExpressionRoom == ASSUME Inv, Kept, RoomLeft, Expression PROVE RoomLeft'
<1> DEFINE one == Append(stack, Frame("OrMore", depth, "", 0, << >>))
           two == Append(one, Frame("AndMore", depth + 1, "", 0, << >>))
<1>1. /\ Fits(stack) /\ Granted("Expression", depth) <= Left(stack)
      /\ depth \in Int /\ cfg.maxDepth \in Int /\ Left(stack) \in Int
  BY CallRoom DEF Expression
<1>2. Yield("OrMore", depth) <= Left(stack)
  BY <1>1 DEF Granted, Yield, Await
<1>3. Fits(one) /\ Left(one) = Await("OrMore", depth)
  <2> HIDE DEF two
  <2>1. QED  BY <1>1, <1>2, PushFrameFits
<1>4. Enter("Not", depth + 2, 0, pos, two)
  BY DEF Expression
<1> HIDE DEF one
<1>5. Yield("AndMore", depth + 1) <= Left(one) /\ depth + 1 \in Int
  BY <1>1, <1>3 DEF Yield, Await
<1>6. Fits(two) /\ Left(two) = Await("AndMore", depth + 1)
  BY <1>3, <1>5, PushFrameFits, ZenonT(30)
<1> HIDE DEF two
<1>7. Granted("Not", depth + 2) <= Left(two)
  BY <1>1, <1>6 DEF Granted, Await
<1>8. QED  BY <1>4, <1>6, <1>7, EnterRoom

LEMMA OrMoreRoom == ASSUME Inv, Kept, RoomLeft, OrMore PROVE RoomLeft'
<1> DEFINE args == Append(Top.acc, node)
           one  == Append(Below, Resumed("OrMore", "", args))
           two  == Append(one, Frame("AndMore", Top.depth + 1, "", 0, << >>))
<1>1. /\ Fits(Below) /\ Top.depth \in Int /\ cfg.maxDepth \in Int
      /\ Yield("OrMore", Top.depth) <= Left(Below) /\ Left(Below) \in Int
      /\ Holds("OrMore", Top.depth, Top.acc)
      /\ NestsWithin("text", node, Await("OrMore", Top.depth))
  BY FrameRoom DEF OrMore
<1>2. AccSound(Top.acc) /\ SoundTree(cfg, node)
  BY AtReturn DEF OrMore
<1>3. Held(Top.acc, Await("OrMore", Top.depth))
  BY <1>1 DEF Holds
<1>4. Held(args, Await("OrMore", Top.depth)) /\ AccSound(args) /\ Len(args) \in Nat
  BY <1>1, <1>2, <1>3, HeldMore, MoreAcc, AccFacts
<1>5. \/ Enter("Not", Top.depth + 2, 0, After(pos), two)
      \/ Return(Chain("OR", args), pos, Below)
  BY DEF OrMore
<1>6. CASE Enter("Not", Top.depth + 2, 0, After(pos), two)
  <2>1. Holds("OrMore", Top.depth, args)
    BY <1>4 DEF Holds
  <2> HIDE DEF args
  <2>2. Fits(one) /\ Left(one) = Await("OrMore", Top.depth)
    BY <1>1, <2>1, ResumeFits
  <2> HIDE DEF one
  <2>3. Yield("AndMore", Top.depth + 1) <= Left(one) /\ Top.depth + 1 \in Int
    BY <1>1, <2>2 DEF Yield, Await
  <2>4. Fits(two) /\ Left(two) = Await("AndMore", Top.depth + 1)
    BY <2>2, <2>3, PushFrameFits, ZenonT(30)
  <2> HIDE DEF two
  <2>5. Granted("Not", Top.depth + 2) <= Left(two)
    BY <1>1, <2>4 DEF Granted, Await
  <2>6. QED  BY <1>6, <2>4, <2>5, EnterRoom
<1>7. CASE Return(Chain("OR", args), pos, Below)
  <2> DEFINE at == "OrMore"
  <2>1. Returning(at)
    BY DEF OrMore
  <2>2. CASE Len(args) = 1
    <3>1. Len(Top.acc) = 0 /\ args[1] = node
      BY <1>2, <2>2, MoreAcc, AccFacts
    <3> HIDE DEF args
    <3>2. Return(node, pos, Below)
      BY <1>7, <2>2, <3>1 DEF Chain
    <3>3. QED  BY <2>1, <3>2, SameRoom
  <2>3. CASE Len(args) # 1
    <3> HIDE DEF args
    <3> DEFINE src == <<args[1].src[1], args[Len(args)].src[2]>>
    <3>1. Return(Predicate("Logical", "OR", args, src), pos, Below)
      BY <1>7, <2>3 DEF Chain
    <3> HIDE DEF src
    <3>2. QED  BY <1>4, <2>1, <3>1, PredicateRoom
  <2>4. QED  BY <2>2, <2>3
<1>8. QED  BY <1>5, <1>6, <1>7

LEMMA AndMoreRoom == ASSUME Inv, Kept, RoomLeft, AndMore PROVE RoomLeft'
<1> DEFINE args == Append(Top.acc, node)
           st   == Append(Below, Resumed("AndMore", "", args))
<1>1. /\ Top.depth \in Int /\ cfg.maxDepth \in Int
      /\ Holds("AndMore", Top.depth, Top.acc)
      /\ NestsWithin("text", node, Await("AndMore", Top.depth))
  BY FrameRoom DEF AndMore
<1>2. AccSound(Top.acc) /\ SoundTree(cfg, node)
  BY AtReturn DEF AndMore
<1>3. Held(Top.acc, Await("AndMore", Top.depth))
  BY <1>1 DEF Holds
<1>4. Held(args, Await("AndMore", Top.depth)) /\ AccSound(args) /\ Len(args) \in Nat
  BY <1>1, <1>2, <1>3, HeldMore, MoreAcc, AccFacts
<1>5. \/ Enter("Not", Top.depth + 1, 0, After(pos), Append(Below, Resumed("AndMore", "", args)))
      \/ Return(Chain("AND", args), pos, Below)
  BY DEF AndMore
<1>6. Returning("AndMore")
  BY DEF AndMore
<1>7. CASE Enter("Not", Top.depth + 1, 0, After(pos), Append(Below, Resumed("AndMore", "", args)))
  <2>1. Holds("AndMore", Top.depth, args)
    BY <1>4 DEF Holds
  <2> HIDE DEF args
  <2>2. Granted("Not", Top.depth + 1) <= Await("AndMore", Top.depth)
    BY <1>1 DEF Granted, Await
  <2>3. Yield("AndMore", Top.depth) <= Yield("AndMore", Top.depth)
    BY <1>1 DEF Yield, Await
  <2>4. QED  BY <1>6, <1>7, <2>1, <2>2, <2>3, ResumeRoom
<1>8. CASE Return(Chain("AND", args), pos, Below)
  <2>2. CASE Len(args) = 1
    <3>1. Len(Top.acc) = 0 /\ args[1] = node
      BY <1>2, <2>2, MoreAcc, AccFacts
    <3> HIDE DEF args
    <3>2. Return(node, pos, Below)
      BY <1>8, <2>2, <3>1 DEF Chain
    <3>3. QED  BY <1>6, <3>2, SameRoom
  <2>3. CASE Len(args) # 1
    <3> HIDE DEF args
    <3> DEFINE src == <<args[1].src[1], args[Len(args)].src[2]>>
    <3>1. Return(Predicate("Logical", "AND", args, src), pos, Below)
      BY <1>8, <2>3 DEF Chain
    <3> HIDE DEF src
    <3>2. QED  BY <1>4, <1>6, <3>1, PredicateRoom
  <2>4. QED  BY <2>2, <2>3
<1>9. QED  BY <1>5, <1>7, <1>8

LEMMA NotRoom == ASSUME Inv, Kept, RoomLeft, Not PROVE RoomLeft'
<1>1. Calling("Not") /\ depth \in Int /\ cfg.maxDepth \in Int
  BY CallRoom DEF Not
<1>2. Yield("NotDone", depth) <= Granted("Not", depth)
  BY <1>1 DEF Yield, Await, Granted
<1>3. Granted("Not", depth + 1) <= Await("NotDone", depth)
  BY <1>1 DEF Await, Granted
<1>4. Granted("Primary", depth + 1) <= Granted("Not", depth) /\ depth + 1 \in Int
  BY <1>1 DEF Granted
<1>5. \/ Enter("Not", depth + 1, 0, After(pos), Append(stack, Frame("NotDone", depth, "", 0, << >>)))
      \/ Enter("Primary", depth + 1, 0, pos, stack)
  BY DEF Not
<1>6. QED  BY <1>1, <1>2, <1>3, <1>4, <1>5, PushRoom, TailRoom

LEMMA NotDoneRoom == ASSUME Inv, Kept, RoomLeft, NotDone PROVE RoomLeft'
<1> DEFINE args == <<node>>
           src  == <<Top.save, node.src[2]>>
<1>1. Returning("NotDone") /\ NestsWithin("text", node, Await("NotDone", Top.depth))
  BY FrameRoom DEF NotDone
<1>2. Held(args, Await("NotDone", Top.depth))
  BY <1>1, HeldOne
<1>3. Return(Predicate("Logical", "NOT", args, src), pos, Below)
  BY DEF NotDone
<1> HIDE DEF args, src
<1>4. QED  BY <1>1, <1>2, <1>3, PredicateRoom

-----------------------------------------------------------------------------
(* parsePrimaryExpression                                                  *)

LEMMA FinishRoom ==
    ASSUME NEW at, Inv, RoomLeft, Returning(at), NEW n, NEW p,
           NestsWithin("text", n, Await(at, Top.depth)), FinishIsNull(n, p, Below)
    PROVE  RoomLeft'
<1> DEFINE args == <<n>>
<1>1. Held(args, Await(at, Top.depth))
  BY HeldOne
<1>2. Fail(Below) \/ \E op, src, q : Return(Predicate("IsNull", op, args, src), q, Below)
  BY DEF FinishIsNull
<1>3. stack # << >>
  BY DEF Returning
<1> HIDE DEF args
<1>4. QED  BY <1>1, <1>2, <1>3, PredicateRoom, FailRoom

LEMMA PrimaryPredicateRoom == ASSUME Inv, Kept, RoomLeft, PrimaryPredicate PROVE RoomLeft'
<1> DEFINE op == tokens[pos].text
           pr == OperandProc(op)
<1>1. Calling("Primary") /\ depth \in Int /\ cfg.maxDepth \in Int
  BY CallRoom DEF PrimaryPredicate
<1>2. \/ Enter(pr, depth + 2, 0, After(After(pos)),
               Append(stack, Frame("PredicateLeft", depth + 1, op, 0, << >>)))
      \/ Fail(stack)
  BY DEF PrimaryPredicate
<1>3. Granted(pr, depth + 2) <= Await("PredicateLeft", depth + 1)
  BY <1>1 DEF Granted, Await, OperandProc
<1> HIDE DEF op, pr
<1>4. Yield("PredicateLeft", depth + 1) <= Granted("Primary", depth)
  BY <1>1 DEF Granted, Yield, Await
<1>5. depth + 1 \in Int /\ depth + 2 \in Int
  BY <1>1
<1>6. QED  BY <1>1, <1>2, <1>3, <1>4, <1>5, PushRoom, FailRoom

LEMMA PrimaryIntervalRoom == ASSUME Inv, Kept, RoomLeft, PrimaryInterval PROVE RoomLeft'
<1>1. Calling("Primary") /\ depth \in Int /\ cfg.maxDepth \in Int /\ depth + 1 \in Int
  BY CallRoom DEF PrimaryInterval
<1>2. /\ Yield("IntervalIs", depth) <= Granted("Primary", depth)
      /\ Granted("TemporalInstance", depth + 1) <= Await("IntervalIs", depth)
  BY <1>1 DEF Granted, Yield, Await
<1>3. QED  BY <1>1, <1>2, PushRoom DEF PrimaryInterval

LEMMA PrimaryGeometryRoom == ASSUME Inv, Kept, RoomLeft, PrimaryGeometry PROVE RoomLeft'
<1>1. Calling("Primary") /\ depth \in Int /\ cfg.maxDepth \in Int /\ depth + 1 \in Int
  BY CallRoom DEF PrimaryGeometry
<1>2. /\ Yield("IntervalIs", depth) <= Granted("Primary", depth)
      /\ Granted("GeometryLiteral", depth + 1) <= Await("IntervalIs", depth)
  BY <1>1 DEF Granted, Yield, Await
<1>3. QED  BY <1>1, <1>2, PushRoom DEF PrimaryGeometry

LEMMA IntervalIsRoom == ASSUME Inv, Kept, RoomLeft, IntervalIs PROVE RoomLeft'
  BY FrameRoom, FinishRoom, FailRoom DEF IntervalIs

LEMMA PrimaryParenRoom == ASSUME Inv, Kept, RoomLeft, PrimaryParen PROVE RoomLeft'
<1>1. Calling("Primary") /\ depth \in Int /\ cfg.maxDepth \in Int /\ depth + 1 \in Int
  BY CallRoom DEF PrimaryParen
<1>2. /\ Yield("ParenTry", depth) <= Granted("Primary", depth)
      /\ Granted("Expression", depth + 1) <= Await("ParenTry", depth)
  BY <1>1 DEF Granted, Yield, Await
<1>3. QED  BY <1>1, <1>2, PushRoom DEF PrimaryParen

LEMMA ParenIsExpressionRoom == ASSUME Inv, Kept, RoomLeft, ParenIsExpression PROVE RoomLeft'
  BY FrameRoom, FinishRoom, SameRoom, FailRoom DEF ParenIsExpression

LEMMA ParenIsScalarRoom == ASSUME Inv, Kept, RoomLeft, ParenIsScalar PROVE RoomLeft'
<1> DEFINE none == << >>
<1>1. Failing("ParenTry") /\ Top.depth \in Int /\ cfg.maxDepth \in Int /\ Top.depth + 1 \in Int
  BY FrameRoom DEF ParenIsScalar
<1>2. Holds("PredicateOf", Top.depth, none)
  BY HeldNone DEF Holds
<1>3. /\ Yield("PredicateOf", Top.depth) <= Yield("ParenTry", Top.depth)
      /\ cfg.maxDepth - (Top.depth + 1) <= Await("PredicateOf", Top.depth)
  BY <1>1 DEF Yield, Await
<1>4. EnterScalar(Top.depth + 1, Top.save, Append(Below, Resumed("PredicateOf", "", none)))
  BY DEF ParenIsScalar
<1> HIDE DEF none
<1>5. QED  BY <1>1, <1>2, <1>3, <1>4, ResumeScalarRoom

LEMMA PrimaryScalarRoom == ASSUME Inv, Kept, RoomLeft, PrimaryScalar PROVE RoomLeft'
<1>1. Calling("Primary") /\ depth \in Int /\ cfg.maxDepth \in Int /\ depth + 1 \in Int
  BY CallRoom DEF PrimaryScalar
<1>2. /\ Yield("PredicateOf", depth) <= Granted("Primary", depth)
      /\ cfg.maxDepth - (depth + 1) <= Await("PredicateOf", depth)
  BY <1>1 DEF Granted, Yield, Await
<1>3. QED  BY <1>1, <1>2, PushScalarRoom DEF PrimaryScalar

\* The operands of a predicate are read a level or two below it.
LEMMA OperandRoom ==
    ASSUME NEW at, Inv, RoomLeft, Returning(at), at \in PrimaryFrames,
           NEW pc, pc \in PrimaryFrames, NEW op, NEW acc, Held(acc, Await(at, Top.depth)),
           NEW k, k \in {1, 2}, NEW p,
           EnterScalar(Top.depth + k, p, Append(Below, Resumed(pc, op, acc)))
    PROVE  RoomLeft'
<1>1. Top.depth \in Int /\ cfg.maxDepth \in Int /\ Top.depth + k \in Int
  BY FrameRoom
<1>2. /\ Yield(pc, Top.depth) <= Yield(at, Top.depth)
      /\ Await(pc, Top.depth) = Await(at, Top.depth) /\ pc # "ArithmeticMore"
      /\ cfg.maxDepth - (Top.depth + k) <= Await(pc, Top.depth)
  BY <1>1 DEF Yield, Await, PrimaryFrames
<1>3. Holds(pc, Top.depth, acc)
  BY <1>2 DEF Holds
<1>4. QED  BY <1>1, <1>2, <1>3, ResumeScalarRoom

\* The operand a frame holds and the one it waited for.
LEMMA SecondHeld ==
    ASSUME NEW at, Inv, Kept, RoomLeft, Returning(at), at \notin {"PatternDone", "ArithmeticMore"},
           OperandCount(at) = {1}
    PROVE  Held(<<Top.acc[1], node>>, Await(at, Top.depth))
<1> DEFINE d == Await(at, Top.depth)
<1>1. Held(Top.acc, d) /\ NestsWithin("text", node, d)
  BY FrameRoom DEF Holds
<1>2. AccSound(Top.acc) /\ Len(Top.acc) = 1
  BY AtReturn
<1>3. 1 \in DOMAIN Top.acc
  BY <1>2, AccFacts
<1> HIDE DEF d
<1>4. NestsWithin("text", Top.acc[1], d)
  BY <1>1, <1>3 DEF Held
<1>5. QED  BY <1>1, <1>4, HeldTwo DEF d

LEMMA ComparisonRoom == ASSUME Inv, Kept, RoomLeft, Comparison PROVE RoomLeft'
<1> DEFINE acc == <<node>>
<1>1. Returning("PredicateOf") /\ NestsWithin("text", node, Await("PredicateOf", Top.depth))
  BY FrameRoom DEF Comparison, FollowedBy
<1>2. Held(acc, Await("PredicateOf", Top.depth))
  BY <1>1, HeldOne
<1>3. EnterScalar(Top.depth + 1, After(pos),
                  Append(Below, Resumed("ComparisonRight", tokens[pos].text, acc)))
  BY DEF Comparison
<1> HIDE DEF acc
<1>4. QED  BY <1>1, <1>2, <1>3, OperandRoom DEF PrimaryFrames

LEMMA ComparisonRightRoom == ASSUME Inv, Kept, RoomLeft, ComparisonRight PROVE RoomLeft'
<1>1. Returning("ComparisonRight") /\ Held(Top.acc, Await("ComparisonRight", Top.depth))
      /\ stack # << >>
  BY FrameRoom DEF ComparisonRight, Holds
<1>2. Held(<<Top.acc[1], node>>, Await("ComparisonRight", Top.depth))
  BY <1>1, SecondHeld DEF OperandCount
<1> DEFINE args == <<Top.acc[1], node>>
           src  == <<args[1].src[1], node.src[2]>>
<1>3. Fail(Below) \/ Return(Predicate("Comparison", Top.op, args, src), pos, Below)
  BY DEF ComparisonRight
<1>4. Held(args, Await("ComparisonRight", Top.depth))
  BY <1>2
<1> HIDE DEF args, src
<1>5. QED  BY <1>1, <1>3, <1>4, PredicateRoom, FailRoom

LEMMA ArithmeticDisabledRoom == ASSUME Inv, Kept, RoomLeft, ArithmeticDisabled PROVE RoomLeft'
  BY FailRoom DEF ArithmeticDisabled, FollowedBy, Returning

LEMMA LikeRoom == ASSUME Inv, Kept, RoomLeft, Like PROVE RoomLeft'
<1> DEFINE acc == <<node>>
<1>1. /\ Returning("PredicateOf") /\ NestsWithin("text", node, Await("PredicateOf", Top.depth))
      /\ Top.depth \in Int /\ cfg.maxDepth \in Int /\ stack # << >>
  BY FrameRoom DEF Like, FollowedBy
<1>2. Held(acc, Await("PredicateOf", Top.depth))
  BY <1>1, HeldOne
<1>3. \/ Enter("Pattern", Top.depth + 1, 0, After(AfterNot),
               Append(Below, Resumed("LikePattern", Negation, acc)))
      \/ Fail(Below)
  BY DEF Like
<1> HIDE DEF acc
<1>4. /\ Yield("LikePattern", Top.depth) <= Yield("PredicateOf", Top.depth)
      /\ Await("LikePattern", Top.depth) = Await("PredicateOf", Top.depth)
      /\ Granted("Pattern", Top.depth + 1) <= Await("LikePattern", Top.depth)
  BY <1>1 DEF Yield, Await, Granted
<1>5. Holds("LikePattern", Top.depth, acc)
  BY <1>2, <1>4 DEF Holds
<1>6. QED  BY <1>1, <1>3, <1>4, <1>5, ResumeRoom, FailRoom

LEMMA LikePatternRoom == ASSUME Inv, Kept, RoomLeft, LikePattern PROVE RoomLeft'
<1>1. Returning("LikePattern") /\ Held(Top.acc, Await("LikePattern", Top.depth))
      /\ stack # << >>
  BY FrameRoom DEF LikePattern, Holds
<1>2. Held(<<Top.acc[1], node>>, Await("LikePattern", Top.depth))
  BY <1>1, SecondHeld DEF OperandCount
<1> DEFINE args == <<Top.acc[1], node>>
           src  == <<args[1].src[1], node.src[2]>>
<1>3. Fail(Below) \/ Return(Predicate("Like", Top.op, args, src), pos, Below)
  BY DEF LikePattern
<1>4. Held(args, Await("LikePattern", Top.depth))
  BY <1>2
<1> HIDE DEF args, src
<1>5. QED  BY <1>1, <1>3, <1>4, PredicateRoom, FailRoom

LEMMA BetweenRoom == ASSUME Inv, Kept, RoomLeft, Between PROVE RoomLeft'
<1> DEFINE acc == <<node>>
<1>1. Returning("PredicateOf") /\ NestsWithin("text", node, Await("PredicateOf", Top.depth))
      /\ stack # << >>
  BY FrameRoom DEF Between, FollowedBy
<1>2. Held(acc, Await("PredicateOf", Top.depth))
  BY <1>1, HeldOne
<1>3. \/ EnterScalar(Top.depth + 2, After(AfterNot),
                     Append(Below, Resumed("BetweenLower", Negation, acc)))
      \/ Fail(Below)
  BY DEF Between
<1> HIDE DEF acc
<1>4. QED  BY <1>1, <1>2, <1>3, OperandRoom, FailRoom DEF PrimaryFrames

LEMMA BetweenLowerRoom == ASSUME Inv, Kept, RoomLeft, BetweenLower PROVE RoomLeft'
<1> DEFINE acc == Append(Top.acc, node)
<1>1. Returning("BetweenLower") /\ NestsWithin("text", node, Await("BetweenLower", Top.depth))
      /\ Held(Top.acc, Await("BetweenLower", Top.depth)) /\ stack # << >>
  BY FrameRoom DEF BetweenLower, Holds
<1>2. AccSound(Top.acc) /\ SoundTree(cfg, node)
  BY AtReturn DEF BetweenLower
<1>3. Held(acc, Await("BetweenLower", Top.depth))
  BY <1>1, <1>2, HeldMore
<1>4. \/ EnterScalar(Top.depth + 2, After(pos),
                     Append(Below, Resumed("BetweenUpper", Top.op, acc)))
      \/ Fail(Below)
  BY DEF BetweenLower
<1> HIDE DEF acc
<1>5. QED  BY <1>1, <1>3, <1>4, OperandRoom, FailRoom DEF PrimaryFrames

LEMMA BetweenUpperRoom == ASSUME Inv, Kept, RoomLeft, BetweenUpper PROVE RoomLeft'
<1> DEFINE acc == Append(Top.acc, node)
           src == <<acc[1].src[1], node.src[2]>>
<1>1. Returning("BetweenUpper") /\ NestsWithin("text", node, Await("BetweenUpper", Top.depth))
      /\ Held(Top.acc, Await("BetweenUpper", Top.depth)) /\ stack # << >>
  BY FrameRoom DEF BetweenUpper, Holds
<1>2. AccSound(Top.acc) /\ SoundTree(cfg, node)
  BY AtReturn DEF BetweenUpper
<1>3. Held(acc, Await("BetweenUpper", Top.depth))
  BY <1>1, <1>2, HeldMore
<1>4. Return(Predicate("Between", Top.op, acc, src), pos, Below) \/ Fail(Below)
  BY DEF BetweenUpper
<1> HIDE DEF acc, src
<1>5. QED  BY <1>1, <1>3, <1>4, PredicateRoom, FailRoom

LEMMA InRoom == ASSUME Inv, Kept, RoomLeft, In PROVE RoomLeft'
<1> DEFINE acc == <<node>>
<1>1. Returning("PredicateOf") /\ NestsWithin("text", node, Await("PredicateOf", Top.depth))
      /\ stack # << >>
  BY FrameRoom DEF In, FollowedBy
<1>2. Held(acc, Await("PredicateOf", Top.depth))
  BY <1>1, HeldOne
<1>3. \/ \E p : EnterScalar(Top.depth + 1, p, Append(Below, Resumed("InMore", Negation, acc)))
      \/ Fail(Below)
  BY DEF In
<1> HIDE DEF acc
<1>4. QED  BY <1>1, <1>2, <1>3, OperandRoom, FailRoom DEF PrimaryFrames

\* A string read as an instant is a leaf, as the string was.
LEMMA CoercedNests ==
    ASSUME NEW expr, NEW v, NEW d, d \in Int, NestsWithin("text", v, d)
    PROVE  NestsWithin("text", InCoerce(expr, v), d)
<1>1. CASE InCoerce(expr, v) = v
  BY <1>1
<1>2. CASE InCoerce(expr, v) # v
  <2> DEFINE none == << >>
             e    == d - 1
  <2>1. \E kind, op, types, src : InCoerce(expr, v) = Node(kind, op, types, none, src)
    BY <1>2 DEF InCoerce, Instant
  <2>2. 1 <= d
    BY NestingRoom
  <2>3. Held(none, e) /\ e \in Int /\ e + 1 <= d
    BY HeldNone
  <2> HIDE DEF none, e
  <2>4. QED  BY <2>1, <2>2, <2>3, HeldNode
<1>3. QED  BY <1>1, <1>2

LEMMA InMoreRoom == ASSUME Inv, Kept, RoomLeft, InMore PROVE RoomLeft'
<1> DEFINE d        == Await("InMore", Top.depth)
           operands == Append(Top.acc, node)
           expr     == operands[1]
           values   == SubSeq(operands, 2, Len(operands))
           coerced  == [i \in DOMAIN values |-> InCoerce(expr, values[i])]
           args     == <<expr>> \o coerced
           src      == <<expr.src[1], pos>>
<1>1. /\ Returning("InMore") /\ NestsWithin("text", node, d)
      /\ Held(Top.acc, d) /\ stack # << >>
      /\ Top.depth \in Int /\ cfg.maxDepth \in Int
  BY FrameRoom DEF InMore, Holds
<1>2. AccSound(Top.acc) /\ SoundTree(cfg, node)
  BY AtReturn DEF InMore
<1>3. Held(operands, d) /\ AccSound(operands) /\ Len(operands) = Len(Top.acc) + 1
  BY <1>1, <1>2, HeldMore, MoreAcc
<1>4. d \in Int
  BY <1>1 DEF Await
<1>5. \/ EnterScalar(Top.depth + 1, After(pos), Append(Below, Resumed("InMore", Top.op, operands)))
      \/ Return(Predicate("In", Top.op, args, src), After(pos), Below)
      \/ Fail(Below)
  BY DEF InMore
<1> HIDE DEF src
<1>6. CASE Return(Predicate("In", Top.op, args, src), After(pos), Below)
  <2> DEFINE S == {operands[i] : i \in DOMAIN operands}
  <2>1. Len(operands) # 0 /\ DOMAIN operands = 1..Len(operands) /\ Len(operands) \in Nat
    BY <1>2, <1>3, AccFacts
  <2>2. /\ values \in Seq(S)
        /\ \A i \in DOMAIN values : i + 1 \in 2..Len(operands) /\ values[i] = operands[i + 1]
    BY <1>3, <2>1, RestOf
  <2>3. args = <<expr>> \o [i \in DOMAIN values |-> InCoerce(expr, values[i])]
    OBVIOUS
  <2>4. NestsWithin("text", expr, d)
    BY <1>3, <2>1 DEF Held
  <2> HIDE DEF operands, values, args, coerced, S, expr, d
  <2>5. /\ DOMAIN args = 1..Len(args) /\ Len(args) = Len(values) + 1 /\ Len(values) \in Nat
        /\ args[1] = expr
        /\ \A i \in 1..Len(values) : args[i + 1] = InCoerce(expr, values[i])
        /\ DOMAIN values = 1..Len(values)
    BY <2>2, <2>3, InArgs
  <2>6. \A i \in 1..Len(values) : NestsWithin("text", args[i + 1], d)
    <3>1. \A i \in 1..Len(values) : NestsWithin("text", values[i], d)
      BY <1>3, <2>1, <2>2, <2>5 DEF Held
    <3>2. QED  BY <1>4, <2>5, <3>1, CoercedNests
  <2>7. \A j \in 1..Len(args) : j = 1 \/ \E i \in 1..Len(values) : j = i + 1
    <3> TAKE j \in 1..Len(args)
    <3>1. j = 1 \/ (j - 1 \in 1..Len(values) /\ j = (j - 1) + 1)
      BY <2>5
    <3>2. QED  BY <3>1
  <2>8. Held(args, d)
    BY <2>4, <2>5, <2>6, <2>7 DEF Held
  <2>9. QED  BY <1>1, <1>6, <2>8, PredicateRoom DEF d
<1> HIDE DEF operands, args
<1>7. QED  BY <1>1, <1>3, <1>5, <1>6, OperandRoom, FailRoom DEF PrimaryFrames, d

LEMMA IsNullRoom == ASSUME Inv, Kept, RoomLeft, IsNull PROVE RoomLeft'
  BY FrameRoom, FinishRoom DEF IsNull, FollowedBy

LEMMA NoPredicateRoom == ASSUME Inv, Kept, RoomLeft, NoPredicate PROVE RoomLeft'
  BY FrameRoom, SameRoom, FailRoom DEF NoPredicate, FollowedBy

-----------------------------------------------------------------------------
(* parsePattern                                                            *)

LEMMA TailScalarRoom ==
    ASSUME NEW at, Inv, RoomLeft, Calling(at),
           NEW d, d \in Int, NEW p, cfg.maxDepth - d <= Granted(at, depth),
           EnterScalar(d, p, stack)
    PROVE  RoomLeft'
<1> DEFINE g == Granted(at, depth)
           e == cfg.maxDepth - d
<1>1. g \in Int /\ e \in Int /\ e <= g
  BY CallRoom DEF Granted
<1>2. g <= Left(stack) /\ Left(stack) \in Int
  BY CallRoom
<1> HIDE DEF g, e
<1>3. e <= Left(stack)
  BY <1>1, <1>2
<1>4. QED  BY <1>3, CallRoom, ScalarRoom DEF e

\* The alternatives of an argument or an element.
LEMMA PopRoom ==
    ASSUME NEW at, Inv, RoomLeft, Failing(at),
           NEW pr, NEW d, NEW prec, NEW p, d \in Int, Granted(pr, d) <= Yield(at, Top.depth),
           Enter(pr, d, prec, p, Below)
    PROVE  RoomLeft'
<1> DEFINE y == Yield(at, Top.depth)
           g == Granted(pr, d)
<1>1. Top.depth \in Int /\ cfg.maxDepth \in Int
  BY FrameRoom
<1>2. y \in Int
  BY <1>1 DEF Yield, Await
<1>3. g \in Int
  BY <1>1 DEF Granted
<1>4. y <= Left(Below) /\ Left(Below) \in Int /\ Fits(Below) /\ g <= y
  BY FrameRoom
<1> HIDE DEF y, g
<1>5. g <= Left(Below)
  BY <1>2, <1>3, <1>4
<1>6. QED  BY <1>4, <1>5, EnterRoom DEF g

LEMMA PopScalarRoom ==
    ASSUME NEW at, Inv, RoomLeft, Failing(at),
           NEW d, d \in Int, NEW p, cfg.maxDepth - d <= Yield(at, Top.depth),
           EnterScalar(d, p, Below)
    PROVE  RoomLeft'
<1> DEFINE y == Yield(at, Top.depth)
           g == cfg.maxDepth - d
<1>1. Top.depth \in Int /\ cfg.maxDepth \in Int
  BY FrameRoom
<1>2. y \in Int /\ g \in Int
  BY <1>1 DEF Yield, Await
<1>4. y <= Left(Below) /\ Left(Below) \in Int /\ Fits(Below) /\ g <= y
  BY FrameRoom
<1> HIDE DEF y, g
<1>5. g <= Left(Below)
  BY <1>2, <1>4
<1>6. QED  BY <1>4, <1>5, ScalarRoom DEF g

LEMMA PatternRoom == ASSUME Inv, Kept, RoomLeft, Pattern PROVE RoomLeft'
<1>1. Calling("Pattern") /\ depth \in Int /\ cfg.maxDepth \in Int /\ depth + 1 \in Int
  BY CallRoom DEF Pattern
<1>2. /\ Yield("PatternDone", depth) <= Granted("Pattern", depth)
      /\ Granted("Pattern", depth + 1) <= Await("PatternDone", depth)
      /\ cfg.maxDepth - (depth + 1) <= Granted("Pattern", depth)
  BY <1>1 DEF Granted, Yield, Await
<1>3. \/ Enter("Pattern", depth + 1, 0, After(After(pos)),
               Append(stack, Frame("PatternDone", depth, tokens[pos].text, 0, << >>)))
      \/ EnterScalar(depth + 1, pos, stack)
      \/ Fail(stack)
  BY DEF Pattern
<1>4. QED  BY <1>1, <1>2, <1>3, PushRoom, TailScalarRoom, FailRoom

LEMMA CallReturnRoom ==
    ASSUME NEW at, Inv, RoomLeft, Returning(at), NEW name, NEW args, NEW first,
           Held(args, Await(at, Top.depth)), FinishCall(name, args, first, Below)
    PROVE  RoomLeft'
<1> DEFINE types == cfg.functions[name].returns
           src   == <<first, pos>>
<1>1. Fail(Below) \/ Return(Node("Function", name, types, args, src), After(pos), Below)
  BY DEF FinishCall, Call
<1>2. stack # << >>
  BY DEF Returning
<1> HIDE DEF types, src
<1>3. QED  BY <1>1, <1>2, BuiltRoom, FailRoom

LEMMA PatternDoneRoom == ASSUME Inv, Kept, RoomLeft, PatternDone PROVE RoomLeft'
<1> DEFINE args == <<node>>
<1>1. Returning("PatternDone") /\ NestsWithin("text", node, Await("PatternDone", Top.depth))
  BY FrameRoom DEF PatternDone
<1>2. Held(args, Await("PatternDone", Top.depth))
  BY <1>1, HeldOne
<1>3. FinishCall(Top.op, args, Top.save, Below)
  BY DEF PatternDone
<1> HIDE DEF args
<1>4. QED  BY <1>1, <1>2, <1>3, CallReturnRoom

-----------------------------------------------------------------------------
(* parseArithmeticExpression, parseScalarPrimary                           *)

LEMMA OperatorNests ==
    ASSUME NEW op, NEW l, NEW r, NEW e, e \in Int, NestsWithin("text", l, e),
           NestsWithin("text", r, e - 1)
    PROVE  NestsWithin("text", Arithmetic(op, l, r), e)
<1> DEFINE n == Arithmetic(op, l, r)
<1>1. n.kind = "Arithmetic" /\ n.args = <<l, r>>
  BY NodeFields DEF Arithmetic
<1> HIDE DEF n
<1>2. 1 <= e
  BY NestingRoom
<1>3. ASSUME NEW i \in Inner(n) PROVE NestsWithin("text", n.args[i], e - Weight("text", n, i))
  <2>1. i \in DOMAIN <<l, r>>
    BY <1>1, <1>3 DEF Inner
  <2>2. CASE i = 1
    <3>1. n.args[i] = l /\ Weight("text", n, i) = 0 /\ e - 0 = e
      BY <1>1, <2>2 DEF Weight
    <3>2. QED  BY <3>1
  <2>3. CASE i = 2
    <3>1. n.args[i] = r /\ Weight("text", n, i) = 1
      <4>1. ~("text" = "json" /\ (n.kind \in {"Arithmetic", "List"} \/ n.op \in {"CASEI", "ACCENTI"}))
        OBVIOUS
      <4>2. QED  BY <1>1, <2>3, <4>1 DEF Weight
    <3>2. QED  BY <3>1
  <2>4. QED  BY <2>1, <2>2, <2>3
<1>4. NestsWithin("text", n, e)
  BY <1>2, <1>3, NestingNode
<1>5. QED  BY <1>4 DEF n

LEMMA ArithmeticExpressionRoom == ASSUME Inv, Kept, RoomLeft, ArithmeticExpression PROVE RoomLeft'
<1>1. Calling("Arithmetic") /\ depth \in Int /\ cfg.maxDepth \in Int /\ depth + 1 \in Int
  BY CallRoom DEF ArithmeticExpression
<1>2. /\ Yield("ArithmeticMore", depth) <= Granted("Arithmetic", depth)
      /\ Granted("ScalarPrimary", depth + 1) <= Await("ArithmeticMore", depth)
  BY <1>1 DEF Granted, Yield, Await
<1>3. QED  BY <1>1, <1>2, PushRoom DEF ArithmeticExpression

LEMMA ArithmeticMoreRoom == ASSUME Inv, Kept, RoomLeft, ArithmeticMore PROVE RoomLeft'
<1> DEFINE left == IF Top.acc = << >> THEN node ELSE Arithmetic(Top.op, Top.acc[1], node)
           acc  == <<left>>
           y    == Yield("ArithmeticMore", Top.depth)
           a    == Await("ArithmeticMore", Top.depth)
<1>1. /\ Returning("ArithmeticMore") /\ NestsWithin("text", node, a) /\ stack # << >>
      /\ Holds("ArithmeticMore", Top.depth, Top.acc) /\ Fits(Below)
      /\ Top.depth \in Int /\ cfg.maxDepth \in Int /\ y <= Left(Below) /\ Left(Below) \in Int
      /\ Top.depth + 1 \in Int /\ Top.pc = "ArithmeticMore"
  BY FrameRoom DEF ArithmeticMore
<1>2. a \in Int /\ y \in Int /\ a = y - 1 /\ a <= y
  BY <1>1 DEF Await, Yield
<1>3. Held(Top.acc, y)
  BY <1>1 DEF Holds
<1>4. AccSound(Top.acc) /\ (Top.acc # << >> => Len(Top.acc) = 1)
  BY <1>1, TopSound DEF OperandCount, AccSound
<1> HIDE DEF a, y
<1>5. NestsWithin("text", left, y)
  <2>1. CASE Top.acc = << >>
    BY <1>1, <1>2, <2>1, NestingGrows
  <2>2. CASE Top.acc # << >>
    <3>1. 1 \in DOMAIN Top.acc
      BY <1>4, <2>2, AccFacts
    <3>2. NestsWithin("text", Top.acc[1], y)
      BY <1>3, <3>1 DEF Held
    <3>3. NestsWithin("text", node, y - 1)
      BY <1>1, <1>2
    <3>4. QED  BY <1>2, <2>2, <3>2, <3>3, OperatorNests
  <2>3. QED  BY <2>1, <2>2
<1>6. \/ Fail(Below)
      \/ Return(left, pos, Below)
      \/ \E prec : Enter("Arithmetic", Top.depth + 1, prec, After(pos),
                         Append(Below, Resumed("ArithmeticMore", tokens[pos].text, acc)))
  BY DEF ArithmeticMore
<1>7. NestsWithin("text", left, Left(Below))
  BY <1>1, <1>2, <1>5, NestingGrows
<1>8. Held(acc, y)
  BY <1>5, HeldOne
<1> HIDE DEF left, acc
<1>9. Holds("ArithmeticMore", Top.depth, acc)
  BY <1>8 DEF Holds, y
<1>10. /\ Granted("Arithmetic", Top.depth + 1) <= Await("ArithmeticMore", Top.depth)
       /\ Yield("ArithmeticMore", Top.depth) <= Yield("ArithmeticMore", Top.depth)
  BY <1>1 DEF Granted, Await, Yield
<1>11. QED  BY <1>1, <1>6, <1>7, <1>9, <1>10, FailRoom, ReturnRoom, ResumeRoom

LEMMA PrimaryLiteralRoom == ASSUME Inv, Kept, RoomLeft, PrimaryLiteral PROVE RoomLeft'
<1>1. \/ Fail(stack)
      \/ \E type, text : Return(Literal(type, text, pos), After(pos), stack)
  BY DEF PrimaryLiteral
<1>2. \/ Fail(stack)
      \/ \E kind, op, types, src : Return(Node(kind, op, types, << >>, src), After(pos), stack)
  BY <1>1 DEF Literal
<1>3. Calling("ScalarPrimary") /\ "ScalarPrimary" \in DepthChecked \ {"Expression"}
  BY DEF PrimaryLiteral, DepthChecked
<1>4. QED  BY <1>2, <1>3, LeafRoom, FailRoom

LEMMA PropertyRoom ==
    ASSUME NEW at \in DepthChecked \ {"Expression"}, Inv, RoomLeft, Calling(at),
           NEW name, ReturnProperty(name, stack)
    PROVE  RoomLeft'
<1>1. \/ Fail(stack)
      \/ \E op, types, src : Return(Node("Property", op, types, << >>, src), After(pos), stack)
  BY DEF ReturnProperty
<1>2. QED  BY <1>1, LeafRoom, FailRoom

LEMMA ArgumentsRoom ==
    ASSUME Inv, RoomLeft, Calling("ScalarPrimary"), NEW p, EnterArguments(depth + 1, p)
    PROVE  RoomLeft'
<1>1. depth \in Int /\ cfg.maxDepth \in Int /\ depth + 1 \in Int /\ depth + 1 + 1 \in Int
  <2>1. depth \in Int /\ cfg.maxDepth \in Int
    BY CallRoom
  <2>2. QED  BY <2>1
<1>2. "ScalarPrimary" \in DepthChecked \ {"Expression"}
  BY DEF DepthChecked
<1>3. /\ Yield("FunctionMore", depth + 1) <= Granted("ScalarPrimary", depth)
      /\ Granted("FunctionArg", depth + 1 + 1) <= Await("FunctionMore", depth + 1)
  BY <1>1 DEF Granted, Yield, Await
<1>4. \/ Fail(stack)
      \/ \E op, types, src, q : Return(Node("Function", op, types, << >>, src), q, stack)
      \/ Enter("FunctionArg", depth + 1 + 1, 0, p,
               Append(stack, Frame("FunctionMore", depth + 1, tokens[pos].text, 0, << >>)))
  BY DEF EnterArguments, Call
<1>5. QED  BY <1>1, <1>2, <1>3, <1>4, PushRoom, LeafRoom, FailRoom

LEMMA PrimaryNameRoom == ASSUME Inv, Kept, RoomLeft, PrimaryName PROVE RoomLeft'
<1>1. "ScalarPrimary" \in DepthChecked \ {"Expression"}
  BY DEF DepthChecked
<1>2. QED  BY <1>1, ArgumentsRoom, PropertyRoom DEF PrimaryName

LEMMA PrimaryKeywordRoom == ASSUME Inv, Kept, RoomLeft, PrimaryKeyword PROVE RoomLeft'
<1>1. "ScalarPrimary" \in DepthChecked \ {"Expression"}
  BY DEF DepthChecked
<1>2. Calling("ScalarPrimary") /\ depth \in Int /\ cfg.maxDepth \in Int /\ depth + 1 \in Int
  BY CallRoom DEF PrimaryKeyword
<1>3. Granted("InstantFunction", depth + 1) <= Granted("ScalarPrimary", depth)
  BY <1>2 DEF Granted
<1>4. \/ ReturnProperty(tokens[pos].raw, stack)
      \/ Enter("InstantFunction", depth + 1, 0, pos, stack)
      \/ EnterArguments(depth + 1, After(After(pos)))
      \/ Fail(stack)
  BY DEF PrimaryKeyword
<1>5. QED  BY <1>1, <1>2, <1>3, <1>4, ArgumentsRoom, PropertyRoom, TailRoom, FailRoom

LEMMA PrimarySignRoom == ASSUME Inv, Kept, RoomLeft, PrimarySign PROVE RoomLeft'
<1>1. Calling("ScalarPrimary") /\ depth \in Int /\ cfg.maxDepth \in Int /\ depth + 1 \in Int
  BY CallRoom DEF PrimarySign
<1>2. /\ Yield("SignDone", depth) <= Granted("ScalarPrimary", depth)
      /\ Granted("ScalarPrimary", depth + 1) <= Await("SignDone", depth)
  BY <1>1 DEF Granted, Yield, Await
<1>3. \/ Enter("ScalarPrimary", depth + 1, 0, After(pos),
               Append(stack, Frame("SignDone", depth, tokens[pos].text, 0, << >>)))
      \/ Fail(stack)
  BY DEF PrimarySign
<1>4. QED  BY <1>1, <1>2, <1>3, PushRoom, FailRoom

LEMMA SignDoneRoom == ASSUME Inv, Kept, RoomLeft, SignDone PROVE RoomLeft'
<1> DEFINE zero == Literal("number", "0", Top.save)
           args == <<zero, node>>
           src  == <<zero.src[1], node.src[2]>>
           a    == Await("SignDone", Top.depth)
<1>1. /\ Returning("SignDone") /\ NestsWithin("text", node, a) /\ stack # << >>
      /\ Top.depth \in Int /\ cfg.maxDepth \in Int
  BY FrameRoom DEF SignDone
<1>2. a \in Int
  BY <1>1 DEF Await
<1>3. \/ Fail(Below)
      \/ Return(node, pos, Below)
      \/ Return(Node("Arithmetic", "-", {"number"}, args, src), pos, Below)
  BY DEF SignDone, Arithmetic
<1> HIDE DEF a
<1>4. NestsWithin("text", zero, a)
  <2> DEFINE none == << >>
             e    == a - 1
  <2>1. \E kind, op, types, at : zero = Node(kind, op, types, none, at)
    BY DEF Literal
  <2>2. 1 <= a
    BY <1>1, <1>2, NestingRoom
  <2>3. Held(none, e) /\ e \in Int /\ e + 1 <= a
    BY <1>2, HeldNone
  <2> HIDE DEF none, e, zero
  <2>4. QED  BY <1>2, <2>1, <2>2, <2>3, HeldNode
<1>5. Held(args, a)
  BY <1>1, <1>4, HeldTwo
<1> HIDE DEF zero, args, src
<1> DEFINE types == {"number"}
<1>6. Fail(Below) \/ Return(node, pos, Below) \/ Return(Node("Arithmetic", "-", types, args, src), pos, Below)
  BY <1>3
<1> HIDE DEF types
<1>7. QED  BY <1>1, <1>5, <1>6, FailRoom, SameRoom, BuiltRoom DEF a

LEMMA PrimaryGroupRoom == ASSUME Inv, Kept, RoomLeft, PrimaryGroup PROVE RoomLeft'
<1>1. /\ Calling("ScalarPrimary") /\ depth \in Int /\ cfg.maxDepth \in Int
      /\ depth + 1 \in Int /\ depth + 2 \in Int
  BY CallRoom DEF PrimaryGroup
<1>2. /\ Yield("GroupDone", depth) <= Granted("ScalarPrimary", depth)
      /\ Granted("Arithmetic", depth + 1) <= Await("GroupDone", depth)
      /\ Granted("ScalarPrimary", depth + 2) <= Await("GroupDone", depth)
  BY <1>1 DEF Granted, Yield, Await
<1>3. \/ Enter("Arithmetic", depth + 1, 0, After(pos), Append(stack, Frame("GroupDone", depth, "", 0, << >>)))
      \/ Enter("ScalarPrimary", depth + 2, 0, After(pos), Append(stack, Frame("GroupDone", depth, "", 0, << >>)))
  BY DEF PrimaryGroup
<1>4. QED  BY <1>1, <1>2, <1>3, PushRoom

LEMMA GroupDoneRoom == ASSUME Inv, Kept, RoomLeft, GroupDone PROVE RoomLeft'
  BY FrameRoom, SameRoom, FailRoom DEF GroupDone

LEMMA PrimaryUnexpectedRoom == ASSUME Inv, Kept, RoomLeft, PrimaryUnexpected PROVE RoomLeft'
  BY FailRoom DEF PrimaryUnexpected

-----------------------------------------------------------------------------
(* finishFunction, parseFunctionArg                                        *)

LEMMA FunctionMoreRoom == ASSUME Inv, Kept, RoomLeft, FunctionMore PROVE RoomLeft'
<1> DEFINE args == Append(Top.acc, node)
           a    == Await("FunctionMore", Top.depth)
<1>1. /\ Returning("FunctionMore") /\ NestsWithin("text", node, a) /\ Held(Top.acc, a)
      /\ Top.depth \in Int /\ cfg.maxDepth \in Int
  BY FrameRoom DEF FunctionMore, Holds
<1>2. AccSound(Top.acc) /\ SoundTree(cfg, node)
  BY AtReturn DEF FunctionMore
<1>3. Held(args, a)
  BY <1>1, <1>2, HeldMore
<1>4. \/ Enter("FunctionArg", Top.depth + 1, 0, After(pos),
               Append(Below, Resumed("FunctionMore", Top.op, args)))
      \/ FinishCall(Top.op, args, Top.save, Below)
  BY DEF FunctionMore
<1> HIDE DEF args
<1>5. Holds("FunctionMore", Top.depth, args)
  BY <1>3 DEF Holds
<1>6. /\ Yield("FunctionMore", Top.depth) <= Yield("FunctionMore", Top.depth)
      /\ Granted("FunctionArg", Top.depth + 1) <= Await("FunctionMore", Top.depth)
  BY <1>1 DEF Yield, Await, Granted
<1>7. QED  BY <1>1, <1>3, <1>4, <1>5, <1>6, ResumeRoom, CallReturnRoom

LEMMA FunctionArgRoom == ASSUME Inv, Kept, RoomLeft, FunctionArg PROVE RoomLeft'
<1>1. Calling("FunctionArg") /\ depth \in Int /\ cfg.maxDepth \in Int /\ depth + 1 \in Int
  BY CallRoom DEF FunctionArg
<1>2. /\ Yield("ArgExpressionTry", depth) <= Granted("FunctionArg", depth)
      /\ Granted("Expression", depth + 1) <= Await("ArgExpressionTry", depth)
  BY <1>1 DEF Granted, Yield, Await
<1>3. QED  BY <1>1, <1>2, PushRoom DEF FunctionArg

\* An interval or a geometry, one level below the argument or element.
LEMMA OtherLiteralRoom ==
    ASSUME NEW at, Inv, RoomLeft, Failing(at), at \in {"ArgExpressionTry", "ArgScalarTry", "ElementTry"},
           NEW pr, pr \in {"TemporalInstance", "GeometryLiteral", "ArrayLiteral"}, NEW p,
           Enter(pr, Top.depth + 1, 0, p, Below)
    PROVE  RoomLeft'
<1>1. Top.depth \in Int /\ cfg.maxDepth \in Int /\ Top.depth + 1 \in Int
  BY FrameRoom
<1>2. Granted(pr, Top.depth + 1) <= Yield(at, Top.depth)
  BY <1>1 DEF Granted, Yield, Await
<1>3. QED  BY <1>1, <1>2, PopRoom

LEMMA OtherScalarRoom ==
    ASSUME NEW at, Inv, RoomLeft, Failing(at), at \in {"ArgScalarTry", "ElementTry"}, NEW p,
           EnterScalar(Top.depth + 1, p, Below)
    PROVE  RoomLeft'
<1>1. Top.depth \in Int /\ cfg.maxDepth \in Int /\ Top.depth + 1 \in Int
  BY FrameRoom
<1>2. cfg.maxDepth - (Top.depth + 1) <= Yield(at, Top.depth)
  BY <1>1 DEF Yield, Await
<1>3. QED  BY <1>1, <1>2, PopScalarRoom

LEMMA ArgNotExpressionRoom == ASSUME Inv, Kept, RoomLeft, ArgNotExpression PROVE RoomLeft'
<1> DEFINE none == << >>
<1>1. Failing("ArgExpressionTry") /\ Top.depth \in Int /\ cfg.maxDepth \in Int /\ Top.depth + 1 \in Int
  BY FrameRoom DEF ArgNotExpression
<1>2. \/ Enter("TemporalInstance", Top.depth + 1, 0, Top.save, Below)
      \/ Enter("GeometryLiteral", Top.depth + 1, 0, Top.save, Below)
      \/ EnterScalar(Top.depth + 1, Top.save, Append(Below, Resumed("ArgScalarTry", "", none)))
  BY DEF ArgNotExpression
<1>3. Holds("ArgScalarTry", Top.depth, none)
  BY HeldNone DEF Holds
<1> HIDE DEF none
<1>4. /\ Yield("ArgScalarTry", Top.depth) <= Yield("ArgExpressionTry", Top.depth)
      /\ cfg.maxDepth - (Top.depth + 1) <= Await("ArgScalarTry", Top.depth)
  BY <1>1 DEF Yield, Await
<1>5. CASE EnterScalar(Top.depth + 1, Top.save, Append(Below, Resumed("ArgScalarTry", "", none)))
  BY <1>1, <1>3, <1>4, <1>5, ResumeScalarRoom
<1>6. QED  BY <1>1, <1>2, <1>5, OtherLiteralRoom

LEMMA ArgNotScalarRoom == ASSUME Inv, Kept, RoomLeft, ArgNotScalar PROVE RoomLeft'
  BY OtherLiteralRoom, OtherScalarRoom DEF ArgNotScalar

LEMMA TrySucceededRoom == ASSUME Inv, Kept, RoomLeft, TrySucceeded PROVE RoomLeft'
  BY SameRoom DEF TrySucceeded

-----------------------------------------------------------------------------
(* parseTemporalOperand, parseTemporalInstance, parseTemporalInterval      *)

LEMMA TemporalOperandRoom == ASSUME Inv, Kept, RoomLeft, TemporalOperand PROVE RoomLeft'
<1>1. Calling("TemporalOperand") /\ depth \in Int /\ cfg.maxDepth \in Int /\ depth + 1 \in Int
  BY CallRoom DEF TemporalOperand
<1>2. /\ Granted("ScalarPrimary", depth + 1) <= Granted("TemporalOperand", depth)
      /\ Granted("TemporalInstance", depth + 1) <= Granted("TemporalOperand", depth)
  BY <1>1 DEF Granted
<1>3. \/ Enter("ScalarPrimary", depth + 1, 0, pos, stack)
      \/ ReturnProperty(tokens[pos].raw, stack)
      \/ Enter("TemporalInstance", depth + 1, 0, pos, stack)
  BY DEF TemporalOperand
<1>4. "TemporalOperand" \in DepthChecked \ {"Expression"}
  BY DEF DepthChecked
<1>5. QED  BY <1>1, <1>2, <1>3, <1>4, TailRoom, PropertyRoom

LEMMA TemporalInstanceRoom == ASSUME Inv, Kept, RoomLeft, TemporalInstance PROVE RoomLeft'
<1>1. Calling("TemporalInstance") /\ depth \in Int /\ cfg.maxDepth \in Int /\ depth + 1 \in Int
  BY CallRoom DEF TemporalInstance
<1>2. /\ Granted("InstantFunction", depth + 1) <= Granted("TemporalInstance", depth)
      /\ Granted("Interval", depth + 1) <= Granted("TemporalInstance", depth)
  BY <1>1 DEF Granted
<1>3. \/ Enter("InstantFunction", depth + 1, 0, pos, stack)
      \/ Enter("Interval", depth + 1, 0, pos, stack)
      \/ Fail(stack)
  BY DEF TemporalInstance
<1>4. QED  BY <1>1, <1>2, <1>3, TailRoom, FailRoom

LEMMA InstantFunctionRoom == ASSUME Inv, Kept, RoomLeft, InstantFunction PROVE RoomLeft'
<1>1. \/ Fail(stack)
      \/ \E kind, op, types, src, p : Return(Node(kind, op, types, << >>, src), p, stack)
  BY DEF InstantFunction, Instant
<1>2. Calling("InstantFunction") /\ "InstantFunction" \in DepthChecked \ {"Expression"}
  BY DEF InstantFunction, DepthChecked
<1>3. QED  BY <1>1, <1>2, LeafRoom, FailRoom

LEMMA IntervalRoom == ASSUME Inv, Kept, RoomLeft, Interval PROVE RoomLeft'
<1>1. Calling("Interval") /\ depth \in Int /\ cfg.maxDepth \in Int /\ depth + 1 \in Int
  BY CallRoom DEF Interval
<1>2. /\ Yield("IntervalStart", depth) <= Granted("Interval", depth)
      /\ Granted("IntervalEndpoint", depth + 1) <= Await("IntervalStart", depth)
  BY <1>1 DEF Granted, Yield, Await
<1>3. \/ Enter("IntervalEndpoint", depth + 1, 0, After(After(pos)),
               Append(stack, Frame("IntervalStart", depth, "", 0, << >>)))
      \/ Fail(stack)
  BY DEF Interval
<1>4. QED  BY <1>1, <1>2, <1>3, PushRoom, FailRoom

LEMMA IntervalEndpointRoom == ASSUME Inv, Kept, RoomLeft, IntervalEndpoint PROVE RoomLeft'
<1>1. Calling("IntervalEndpoint") /\ depth \in Int /\ cfg.maxDepth \in Int /\ depth + 1 \in Int
  BY CallRoom DEF IntervalEndpoint
<1>2. Granted("ScalarPrimary", depth + 1) <= Granted("IntervalEndpoint", depth)
  BY <1>1 DEF Granted
<1>3. \/ Fail(stack)
      \/ Enter("ScalarPrimary", depth + 1, 0, pos, stack)
      \/ \E kind, op, types, src, p : Return(Node(kind, op, types, << >>, src), p, stack)
  BY DEF IntervalEndpoint, Instant
<1>4. "IntervalEndpoint" \in DepthChecked \ {"Expression"}
  BY DEF DepthChecked
<1>5. QED  BY <1>1, <1>2, <1>3, <1>4, TailRoom, LeafRoom, FailRoom

\* The second of two operands, read like the first.
LEMMA SecondRoom ==
    ASSUME NEW at, Inv, RoomLeft, Returning(at), at \in {"IntervalStart", "PredicateLeft"},
           NEW pc, pc \in {"IntervalEnd", "PredicateRight"}, NEW op,
           NEW pr, pr \notin {"Expression", "Not"}, NEW p,
           Enter(pr, Top.depth + 1, 0, p, Append(Below, Resumed(pc, op, <<node>>)))
    PROVE  RoomLeft'
<1> DEFINE acc == <<node>>
<1>1. NestsWithin("text", node, Await(at, Top.depth)) /\ Top.depth \in Int /\ cfg.maxDepth \in Int
  BY FrameRoom
<1>2. Held(acc, Await(at, Top.depth))
  BY <1>1, HeldOne
<1>3. Enter(pr, Top.depth + 1, 0, p, Append(Below, Resumed(pc, op, acc)))
  OBVIOUS
<1> HIDE DEF acc
<1>4. /\ Yield(pc, Top.depth) <= Yield(at, Top.depth) /\ pc # "ArithmeticMore"
      /\ Await(pc, Top.depth) = Await(at, Top.depth)
      /\ Granted(pr, Top.depth + 1) <= Await(pc, Top.depth)
  BY <1>1 DEF Yield, Await, Granted
<1>5. Holds(pc, Top.depth, acc)
  BY <1>2, <1>4 DEF Holds
<1>6. QED  BY <1>3, <1>4, <1>5, ResumeRoom

LEMMA IntervalStartRoom == ASSUME Inv, Kept, RoomLeft, IntervalStart PROVE RoomLeft'
<1>1. Returning("IntervalStart") /\ stack # << >>
  BY FrameRoom DEF IntervalStart
<1>2. \/ Enter("IntervalEndpoint", Top.depth + 1, 0, After(pos),
               Append(Below, Resumed("IntervalEnd", "", <<node>>)))
      \/ Fail(Below)
  BY DEF IntervalStart
<1>3. QED  BY <1>1, <1>2, SecondRoom, FailRoom

LEMMA IntervalEndRoom == ASSUME Inv, Kept, RoomLeft, IntervalEnd PROVE RoomLeft'
<1> DEFINE args == <<Top.acc[1], node>>
           src  == <<Top.save, pos>>
           types == {"interval"}
<1>1. Returning("IntervalEnd") /\ stack # << >>
  BY FrameRoom DEF IntervalEnd
<1>2. Held(args, Await("IntervalEnd", Top.depth))
  BY <1>1, SecondHeld DEF OperandCount
<1>3. Fail(Below) \/ Return(Node("Interval", "", types, args, src), After(pos), Below)
  BY DEF IntervalEnd
<1> HIDE DEF args, src, types
<1>4. QED  BY <1>1, <1>2, <1>3, BuiltRoom, FailRoom

-----------------------------------------------------------------------------
(* parseSpatialOperand, parseTextGeometryLiteral                           *)

LEMMA SpatialOperandRoom == ASSUME Inv, Kept, RoomLeft, SpatialOperand PROVE RoomLeft'
<1>1. Calling("SpatialOperand") /\ depth \in Int /\ cfg.maxDepth \in Int /\ depth + 1 \in Int
  BY CallRoom DEF SpatialOperand
<1>2. \/ Enter("GeometryLiteral", depth + 1, 0, pos, stack)
      \/ Enter("ScalarPrimary", depth + 1, 0, pos, stack)
  BY DEF SpatialOperand
<1>3. /\ Granted("ScalarPrimary", depth + 1) <= Granted("SpatialOperand", depth)
      /\ Granted("GeometryLiteral", depth + 1) <= Granted("SpatialOperand", depth)
  BY <1>1 DEF Granted
<1>4. QED  BY <1>1, <1>2, <1>3, TailRoom

\* The coordinates of a geometry have no depth of their own.
LEMMA GeometryNests ==
    ASSUME NEW type, type # "GeometryCollection", NEW data, NEW src, NEW e, e \in Int, 1 <= e
    PROVE  NestsWithin("text", GeometryLiteral(type, data, << >>, src), e)
<1> DEFINE n == GeometryLiteral(type, data, << >>, src)
<1>1. n.kind = "Geometry" /\ n.op = type
  BY NodeFields DEF GeometryLiteral
<1> HIDE DEF n
<1>2. Inner(n) = {}
  BY <1>1 DEF Inner
<1>3. NestsWithin("text", n, e)
  BY <1>2, NestingNode
<1>4. QED  BY <1>3 DEF n

LEMMA GeometryDataRoom == ASSUME Inv, Kept, RoomLeft, GeometryData PROVE RoomLeft'
<1> DEFINE type == GeometryTypeOf[tokens[pos].text]
           e    == Left(stack)
<1>1. /\ Calling("GeometryLiteral") /\ Fits(stack) /\ Granted("GeometryLiteral", depth) <= e
      /\ e \in Int /\ depth \in Int /\ cfg.maxDepth \in Int
  BY CallRoom DEF GeometryData
<1>2. "GeometryLiteral" \in DepthChecked
  BY DEF DepthChecked
<1>3. depth <= cfg.maxDepth
  BY <1>1, <1>2, CallRoom
<1>4. 1 <= Granted("GeometryLiteral", depth) /\ Granted("GeometryLiteral", depth) \in Int
  BY <1>1, <1>3 DEF Granted
<1> HIDE DEF e
<1>5. 1 <= e
  BY <1>1, <1>4
<1>6. CASE Fail(stack)
  BY <1>6, FailRoom
<1>7. CASE ~Fail(stack)
  <2>1. PICK data, src, p : Return(GeometryLiteral(type, data, << >>, src), p, stack)
    BY <1>7 DEF GeometryData
  <2>2. tokens[pos].text \in GeometryKeywords \ {"GEOMETRYCOLLECTION"}
    BY <1>7 DEF GeometryData, Names
  <2>3. type # "GeometryCollection"
    BY <2>2 DEF GeometryKeywords, GeometryTypeOf
  <2> HIDE DEF type
  <2> DEFINE n == GeometryLiteral(type, data, << >>, src)
  <2>4. NestsWithin("text", n, e) /\ Return(n, p, stack)
    BY <1>1, <1>5, <2>1, <2>3, GeometryNests
  <2> HIDE DEF n
  <2>5. QED  BY <1>1, <2>4, ReturnRoom DEF e
<1>8. QED  BY <1>6, <1>7

LEMMA GeometryCollectionRoom == ASSUME Inv, Kept, RoomLeft, GeometryCollection PROVE RoomLeft'
<1>1. /\ Calling("GeometryLiteral") /\ depth \in Int /\ cfg.maxDepth \in Int
      /\ depth + 1 \in Int /\ depth + 2 \in Int
  BY CallRoom DEF GeometryCollection
<1>2. \/ Fail(stack)
      \/ \E p : Enter("GeometryLiteral", depth + 2, 0, p,
                      Append(stack, Frame("CollectionMore", depth + 1, "", 0, << >>)))
  BY DEF GeometryCollection
<1>3. /\ Yield("CollectionMore", depth + 1) <= Granted("GeometryLiteral", depth)
      /\ Granted("GeometryLiteral", depth + 2) <= Await("CollectionMore", depth + 1)
  BY <1>1 DEF Granted, Yield, Await
<1>4. QED  BY <1>1, <1>2, <1>3, PushRoom, FailRoom

LEMMA CollectionMoreRoom == ASSUME Inv, Kept, RoomLeft, CollectionMore PROVE RoomLeft'
<1> DEFINE members == Append(Top.acc, node)
           a == Await("CollectionMore", Top.depth)
           list == List(members)
           src == <<Top.save, pos>>
           n   == GeometryLiteral("GeometryCollection", list, << >>, src)
<1>0. Returning("CollectionMore")
  BY DEF CollectionMore
<1>1. /\ Returning("CollectionMore") /\ NestsWithin("text", node, a) /\ Held(Top.acc, a)
      /\ Top.depth \in Int /\ cfg.maxDepth \in Int /\ stack # << >> /\ Fits(Below)
      /\ Yield("CollectionMore", Top.depth) <= Left(Below) /\ Left(Below) \in Int
  <2>1. Holds("CollectionMore", Top.depth, Top.acc)
    BY <1>0, FrameRoom
  <2>2. Held(Top.acc, a)
    BY <2>1 DEF Holds
  <2>3. QED  BY <1>0, <2>2, FrameRoom
<1>2. AccSound(Top.acc) /\ SoundTree(cfg, node)
  BY AtReturn DEF CollectionMore
<1>3. Held(members, a)
  BY <1>1, <1>2, HeldMore
<1>4. \/ Fail(Below)
      \/ Enter("GeometryLiteral", Top.depth + 1, 0, After(pos),
               Append(Below, Resumed("CollectionMore", "", members)))
      \/ Return(n, After(pos), Below)
  BY DEF CollectionMore
<1> HIDE DEF members, src
<1>5. /\ Yield("CollectionMore", Top.depth) = a + 2 /\ a \in Int
      /\ Granted("GeometryLiteral", Top.depth + 1) <= a
      /\ Yield("CollectionMore", Top.depth) <= Yield("CollectionMore", Top.depth)
  BY <1>1 DEF Yield, Await, Granted
<1>6. Holds("CollectionMore", Top.depth, members)
  BY <1>3 DEF Holds
<1>7. NestsWithin("text", n, Left(Below))
  <2> DEFINE b == a + 1
             e == Left(Below)
             args == <<list>> \o << >>
  <2> HIDE DEF a
  <2>1. 1 <= a /\ b \in Int /\ a + 1 <= b /\ 1 <= b
    BY <1>1, <1>5, NestingRoom
  <2>2. b + 1 <= e /\ 1 <= e /\ e \in Int
    BY <1>1, <1>5, <2>1
  <2> HIDE DEF b, e
  <2>3. NestsWithin("text", list, b)
    BY <1>3, <1>5, <2>1, HeldNode DEF List
  <2> HIDE DEF list
  <2>4. DOMAIN args = {1} /\ args[1] = list
    OBVIOUS
  <2> HIDE DEF args
  <2>5. Held(args, b)
    BY <2>3, <2>4 DEF Held
  <2> DEFINE types == {"geometry"}
  <2>6. n = Node("Geometry", "GeometryCollection", types, args, src)
    BY DEF GeometryLiteral, args
  <2> HIDE DEF types, n
  <2>7. NestsWithin("text", n, e)
    BY <2>1, <2>2, <2>5, <2>6, HeldNode
  <2>8. QED  BY <2>7 DEF e
<1> HIDE DEF n, list
<1>8. CASE Return(n, After(pos), Below)
  BY <1>1, <1>7, <1>8, ReturnRoom
<1>9. QED  BY <1>1, <1>4, <1>5, <1>6, <1>8, ResumeRoom, FailRoom

-----------------------------------------------------------------------------
(* The spatial, temporal and array predicates, and arrays.                 *)

LEMMA PredicateLeftRoom == ASSUME Inv, Kept, RoomLeft, PredicateLeft PROVE RoomLeft'
<1> DEFINE pr == OperandProc(Top.op)
<1>1. Returning("PredicateLeft") /\ stack # << >>
  BY FrameRoom DEF PredicateLeft
<1>2. \/ Enter(pr, Top.depth + 1, 0, After(pos),
               Append(Below, Resumed("PredicateRight", Top.op, <<node>>)))
      \/ Fail(Below)
  BY DEF PredicateLeft
<1>3. pr \notin {"Expression", "Not"}
  BY DEF OperandProc
<1> HIDE DEF pr
<1>4. QED  BY <1>1, <1>2, <1>3, SecondRoom, FailRoom

LEMMA PredicateRightRoom == ASSUME Inv, Kept, RoomLeft, PredicateRight PROVE RoomLeft'
<1> DEFINE args == <<Top.acc[1], node>>
           src  == <<Top.save, pos>>
<1>1. Returning("PredicateRight") /\ stack # << >>
  BY FrameRoom DEF PredicateRight
<1>2. Held(args, Await("PredicateRight", Top.depth))
  BY <1>1, SecondHeld DEF OperandCount
<1>3. Fail(Below) \/ Return(Predicate(PredicateKind(Top.op), Top.op, args, src), After(pos), Below)
  BY DEF PredicateRight
<1> HIDE DEF args, src
<1>4. QED  BY <1>1, <1>2, <1>3, PredicateRoom, FailRoom

LEMMA ArrayOperandRoom == ASSUME Inv, Kept, RoomLeft, ArrayOperand PROVE RoomLeft'
<1>1. Calling("ArrayOperand") /\ depth \in Int /\ cfg.maxDepth \in Int /\ depth + 1 \in Int
  BY CallRoom DEF ArrayOperand
<1>2. \/ Enter("ArrayLiteral", depth + 1, 0, pos, stack)
      \/ Enter("ScalarPrimary", depth + 1, 0, pos, stack)
  BY DEF ArrayOperand
<1>3. /\ Granted("ScalarPrimary", depth + 1) <= Granted("ArrayOperand", depth)
      /\ Granted("ArrayLiteral", depth + 1) <= Granted("ArrayOperand", depth)
  BY <1>1 DEF Granted
<1>4. QED  BY <1>1, <1>2, <1>3, TailRoom

LEMMA ArrayLiteralRoom == ASSUME Inv, Kept, RoomLeft, ArrayLiteral PROVE RoomLeft'
<1>1. Calling("ArrayLiteral") /\ depth \in Int /\ cfg.maxDepth \in Int /\ depth + 1 \in Int
  BY CallRoom DEF ArrayLiteral
<1>2. /\ Yield("ArrayMore", depth) <= Granted("ArrayLiteral", depth)
      /\ Granted("ArrayElement", depth + 1) <= Await("ArrayMore", depth)
  BY <1>1 DEF Granted, Yield, Await
<1>3. \/ Fail(stack)
      \/ \E types, src, p : Return(Node("Array", "", types, << >>, src), p, stack)
      \/ Enter("ArrayElement", depth + 1, 0, After(pos),
               Append(stack, Frame("ArrayMore", depth, "", 0, << >>)))
  BY DEF ArrayLiteral, Array
<1>4. "ArrayLiteral" \in DepthChecked \ {"Expression"}
  BY DEF DepthChecked
<1>5. QED  BY <1>1, <1>2, <1>3, <1>4, PushRoom, LeafRoom, FailRoom

LEMMA ArrayMoreRoom == ASSUME Inv, Kept, RoomLeft, ArrayMore PROVE RoomLeft'
<1> DEFINE values == Append(Top.acc, node)
           a     == Await("ArrayMore", Top.depth)
           types == {"array"}
           src   == <<Top.save, pos>>
<1>0. Returning("ArrayMore")
  BY DEF ArrayMore
<1>1. /\ Returning("ArrayMore") /\ NestsWithin("text", node, a) /\ Held(Top.acc, a)
      /\ Top.depth \in Int /\ cfg.maxDepth \in Int /\ stack # << >>
  <2>1. Holds("ArrayMore", Top.depth, Top.acc)
    BY <1>0, FrameRoom
  <2>2. Held(Top.acc, a)
    BY <2>1 DEF Holds
  <2>3. QED  BY <1>0, <2>2, FrameRoom
<1>2. AccSound(Top.acc) /\ SoundTree(cfg, node)
  BY AtReturn DEF ArrayMore
<1>3. Held(values, a)
  BY <1>1, <1>2, HeldMore
<1>4. \/ Enter("ArrayElement", Top.depth + 1, 0, After(pos),
               Append(Below, Resumed("ArrayMore", "", values)))
      \/ Return(Node("Array", "", types, values, src), After(pos), Below)
      \/ Fail(Below)
  BY DEF ArrayMore, Array
<1> HIDE DEF values, types, src
<1>5. Holds("ArrayMore", Top.depth, values)
  BY <1>3 DEF Holds
<1>6. /\ Yield("ArrayMore", Top.depth) <= Yield("ArrayMore", Top.depth)
      /\ Granted("ArrayElement", Top.depth + 1) <= Await("ArrayMore", Top.depth)
  BY <1>1 DEF Yield, Await, Granted
<1>7. QED  BY <1>1, <1>3, <1>4, <1>5, <1>6, ResumeRoom, BuiltRoom, FailRoom

LEMMA ArrayElementRoom == ASSUME Inv, Kept, RoomLeft, ArrayElement PROVE RoomLeft'
<1>1. Calling("ArrayElement") /\ depth \in Int /\ cfg.maxDepth \in Int /\ depth + 1 \in Int
  BY CallRoom DEF ArrayElement
<1>2. /\ Yield("ElementTry", depth) <= Granted("ArrayElement", depth)
      /\ Granted("Expression", depth + 1) <= Await("ElementTry", depth)
      /\ Granted("ArrayLiteral", depth + 1) <= Granted("ArrayElement", depth)
  BY <1>1 DEF Granted, Yield, Await
<1>3. \/ Enter("ArrayLiteral", depth + 1, 0, pos, stack)
      \/ Enter("Expression", depth + 1, 0, pos, Append(stack, Frame("ElementTry", depth, "", 0, << >>)))
  BY DEF ArrayElement
<1>4. QED  BY <1>1, <1>2, <1>3, TailRoom, PushRoom

LEMMA ElementNotExpressionRoom == ASSUME Inv, Kept, RoomLeft, ElementNotExpression PROVE RoomLeft'
  BY OtherLiteralRoom, OtherScalarRoom DEF ElementNotExpression

-----------------------------------------------------------------------------
(* Errors and the end.                                                     *)

LEMMA MaximumDepthExceededRoom == ASSUME Inv, Kept, RoomLeft, MaximumDepthExceeded PROVE RoomLeft'
  BY FailRoom DEF MaximumDepthExceeded

LEMMA PropagateRoom == ASSUME Inv, Kept, RoomLeft, Propagate PROVE RoomLeft'
  BY FailRoom DEF Propagate

LEMMA FinishRoomLeft == ASSUME Inv, Kept, RoomLeft, Finish PROVE RoomLeft'
<1>1. /\ stack = << >> /\ stack' = << >> /\ node' = node /\ cfg' = cfg
      /\ mode' \in {"accepted", "rejected"}
      /\ mode' = "accepted" => mode = "return"
  BY DEF Finish
<1>2. Len(<< >>) = 0
  OBVIOUS
<1>3. mode = "return" => NestsWithin("text", node, cfg.maxDepth)
  BY <1>1, <1>2 DEF RoomLeft, Room
<1>4. TreeWithinDepth'
  BY <1>1, <1>3 DEF TreeWithinDepth
<1>5. \A k \in 1..Len(stack') : FALSE
  BY <1>1, <1>2
<1>6. QED  BY <1>1, <1>4, <1>5 DEF RoomLeft

LEMMA StutterRoom == ASSUME Inv, Kept, RoomLeft, UNCHANGED vars PROVE RoomLeft'
<1>1. UNCHANGED <<cfg, mode, proc, depth, node, stack>>
  BY DEF vars
<1>2. \A k \in 1..Len(stack') : (HeldWithin(stack[k]) /\ Yielded(stack[k]) <= Room(stack, k - 1))'
  BY <1>1, StackFits, FitsAgain
<1>3. Granted(proc, depth)' = Granted(proc, depth) /\ Room(stack, Len(stack))' = Room(stack, Len(stack))
  BY <1>1 DEF Granted, Room, Awaited
<1>4. TreeWithinDepth'
  BY <1>1 DEF RoomLeft, TreeWithinDepth
<1>5. QED  BY <1>1, <1>2, <1>3, <1>4 DEF RoomLeft

LEMMA StepRoom == ASSUME Inv, Kept, RoomLeft, Step PROVE RoomLeft'
  BY MaximumDepthExceededRoom, FinishRoomLeft, PropagateRoom,
     ExpressionRoom, OrMoreRoom, AndMoreRoom, NotRoom, NotDoneRoom,
     PrimaryPredicateRoom, PrimaryIntervalRoom, PrimaryGeometryRoom, IntervalIsRoom,
     PrimaryParenRoom, ParenIsExpressionRoom, ParenIsScalarRoom, PrimaryScalarRoom,
     ComparisonRoom, ComparisonRightRoom, ArithmeticDisabledRoom, LikeRoom, LikePatternRoom,
     BetweenRoom, BetweenLowerRoom, BetweenUpperRoom, InRoom, InMoreRoom,
     IsNullRoom, NoPredicateRoom, PatternRoom, PatternDoneRoom,
     ArithmeticExpressionRoom, ArithmeticMoreRoom, PrimaryLiteralRoom,
     PrimaryNameRoom, PrimaryKeywordRoom, PrimarySignRoom, SignDoneRoom,
     PrimaryGroupRoom, GroupDoneRoom, PrimaryUnexpectedRoom,
     FunctionMoreRoom, FunctionArgRoom, ArgNotExpressionRoom, ArgNotScalarRoom,
     TrySucceededRoom, TemporalOperandRoom, TemporalInstanceRoom, InstantFunctionRoom,
     IntervalRoom, IntervalEndpointRoom, IntervalStartRoom, IntervalEndRoom,
     PredicateLeftRoom, PredicateRightRoom, ArrayOperandRoom, ArrayLiteralRoom,
     ArrayMoreRoom, ArrayElementRoom, ElementNotExpressionRoom,
     SpatialOperandRoom, GeometryDataRoom, GeometryCollectionRoom, CollectionMoreRoom
     DEF Step

LEMMA InitRoom == Init => RoomLeft
<1> SUFFICES ASSUME Init PROVE RoomLeft
  OBVIOUS
<1>1. stack = << >> /\ Len(<< >>) = 0 /\ mode = "call" /\ proc = "Expression" /\ depth = 0
  BY DEF Init
<1>2. cfg.maxDepth \in Int
  BY InitInv, Limits
<1>3. Granted(proc, depth) <= Room(stack, Len(stack))
  BY <1>1, <1>2 DEF Granted, Room
<1>4. QED  BY <1>1, <1>3 DEF RoomLeft, TreeWithinDepth

-----------------------------------------------------------------------------
(* The theorems.                                                           *)

\* In every reachable state every operand the parser holds, in a pending
\* frame or on its way back to one, is sound, and a LIKE pattern can only
\* come back as a string or a cast.
THEOREM OperandsStaySound == Spec => []TreeInv
<1>1. Init => Inv /\ Kept
  BY InitInv, InitKept
<1>2. Inv /\ Kept /\ [Next]_vars => (Inv /\ Kept)'
  BY StepKeepsInv, StutterKeepsInv, StepKept, StutterKept DEF Next, Terminated
<1>3. Inv /\ Kept => TreeInv
  BY DEF TreeInv, Kept
<1>4. QED
  BY <1>1, <1>2, <1>3, PTL DEF Spec

\* No accepted text uses a construct whose conformance class is off, or a
\* name that is not registered.
THEOREM ParserIsFailClosed == Spec => []FailClosed
<1>1. TreeInv => FailClosed
  BY DEF TreeInv, OperandsSound, SoundTree, FailClosed
<1>2. QED
  BY <1>1, OperandsStaySound, PTL

\* No accepted text relates operands that never have values of one sort.
THEOREM AcceptedOperandsMeet == Spec => []OperandsCanMeet
<1>1. TreeInv => OperandsCanMeet
  BY DEF TreeInv, OperandsSound, SoundTree, OperandsCanMeet
<1>2. QED
  BY <1>1, OperandsStaySound, PTL

\* No accepted text holds a literal off the globe, open or upside down.
THEOREM AcceptedGeometriesAreSound == Spec => []GeometriesAreSound
<1>1. TreeInv => GeometriesAreSound
  BY DEF TreeInv, OperandsSound, SoundTree, GeometriesAreSound
<1>2. QED
  BY <1>1, OperandsStaySound, PTL

\* In every reachable state what is left of MaxDepth is enough for every
\* operand the parser holds and for the node it is about to return.
THEOREM RoomIsLeft == Spec => []RoomLeft
<1>1. Init => Inv /\ Kept /\ RoomLeft
  BY InitInv, InitKept, InitRoom
<1>2. Inv /\ Kept /\ RoomLeft /\ [Next]_vars => (Inv /\ Kept /\ RoomLeft)'
  BY StepKeepsInv, StutterKeepsInv, StepKept, StutterKept, StepRoom, StutterRoom DEF Next, Terminated
<1>3. QED
  BY <1>1, <1>2, PTL DEF Spec

\* No accepted tree nests deeper than MaxDepth, though parseNot and
\* parsePattern call themselves without a depth check.
THEOREM AcceptedTreesNestWithinDepth == Spec => []TreeWithinDepth
<1>1. RoomLeft => TreeWithinDepth
  BY DEF RoomLeft
<1>2. QED
  BY <1>1, RoomIsLeft, PTL
=============================================================================
