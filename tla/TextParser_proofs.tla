--------------------------- MODULE TextParser_proofs --------------------------
(***************************************************************************)
(* The control invariant of the text parser, for every set of token        *)
(* sequences, every configuration and every limit.                         *)
(***************************************************************************)
EXTENDS TextParser, SequenceTheorems, TLAPS

-----------------------------------------------------------------------------
(* Stacks.                                                                 *)

LEMMA AppendFacts ==
    ASSUME NEW S, NEW s \in Seq(S), NEW e
    PROVE  /\ Append(s, e) \in Seq(S \cup {e})
           /\ Len(Append(s, e)) = Len(s) + 1
           /\ \A i \in 1..Len(s) : Append(s, e)[i] = s[i]
           /\ Append(s, e)[Len(s) + 1] = e
<1>1. s \in Seq(S \cup {e})
  OBVIOUS
<1>2. QED  BY <1>1

LEMMA SeqOfElements ==
    ASSUME NEW S, NEW s \in Seq(S)
    PROVE  s \in Seq({s[i] : i \in DOMAIN s})
  OBVIOUS

\* A frame on top of a stack.
LEMMA Pushing ==
    ASSUME NEW st, NEW p \in Nat, NEW q \in Nat, NEW f,
           StackOK(st, p), p <= q,
           FrameOK(f), Len(st) <= f.depth, f.save <= q,
           \A i \in 1..Len(st) : st[i].save <= f.save
    PROVE  /\ StackOK(Append(st, f), q)
           /\ Len(Append(st, f)) = Len(st) + 1
           /\ \A i \in 1..Len(st)+1 : Append(st, f)[i].save <= f.save
<1> DEFINE S == {st[i] : i \in DOMAIN st}
           ap == Append(st, f)
<1>1. st \in Seq(S)
  BY DEF StackOK
<1>2. /\ ap \in Seq(S \cup {f})
      /\ Len(ap) = Len(st) + 1
      /\ \A i \in 1..Len(st) : ap[i] = st[i]
      /\ ap[Len(st) + 1] = f
  BY <1>1, AppendFacts
<1>3. Len(st) \in Nat
  BY <1>1
<1>4. ap \in Seq({ap[i] : i \in DOMAIN ap})
  BY <1>2, SeqOfElements, SMTT(60)
<1>5. \A i \in 1..Len(st) : FrameOK(st[i]) /\ st[i].depth >= i - 1 /\ st[i].save <= p
  BY DEF StackOK
<1>6. \A i \in 1..Len(st) : st[i].save \in Nat
  BY <1>5 DEF FrameOK
<1>7. f.save \in Nat /\ f.depth \in Nat
  BY DEF FrameOK
<1> HIDE DEF S, ap
<1>8. \A i \in 1..Len(ap) : FrameOK(ap[i]) /\ ap[i].depth >= i - 1 /\ ap[i].save <= q
  BY <1>2, <1>3, <1>5, <1>6, <1>7, SMTT(60)
<1>9. \A i, j \in 1..Len(ap) : i <= j => ap[i].save <= ap[j].save
  <2>1. \A i, j \in 1..Len(st) : i <= j => st[i].save <= st[j].save
    BY DEF StackOK
  <2>2. QED  BY <1>2, <1>3, <1>6, <1>7, <2>1, SMTT(60)
<1>10. \A i \in 1..Len(st)+1 : ap[i].save <= f.save
  BY <1>2, <1>3, <1>6, <1>7
<1>11. QED
  BY <1>2, <1>4, <1>8, <1>9, <1>10 DEF StackOK, ap

\* The stack without its top frame.
LEMMA Popping ==
    ASSUME NEW p \in Nat, StackOK(stack, p), stack # << >>
    PROVE  /\ Len(stack) \in Nat \ {0}
           /\ FrameOK(Top)
           /\ Top.depth >= Len(stack) - 1
           /\ Top.save <= p
           /\ StackOK(Below, Top.save)
           /\ Len(Below) = Len(stack) - 1
           /\ \A i \in 1..Len(Below) : Below[i].save <= Top.save
<1> DEFINE S == {stack[i] : i \in DOMAIN stack}
           n == Len(stack) - 1
<1>1. stack \in Seq(S)
  BY DEF StackOK
<1>2. n \in Nat /\ Len(stack) = n + 1
  BY <1>1
<1>3. \A i \in 1..n : stack[i] \in S
  BY <1>1, <1>2
<1>4. \A i \in 1..n+1 : FrameOK(stack[i]) /\ stack[i].depth >= i - 1 /\ stack[i].save <= p
  BY <1>2 DEF StackOK
<1>5. \A i, j \in 1..n+1 : i <= j => stack[i].save <= stack[j].save
  BY <1>2 DEF StackOK
<1>6. Below = SubSeq(stack, 1, n) /\ Top = stack[n + 1]
  BY <1>2 DEF Below, Top
<1> HIDE DEF S, n
<1>7. /\ SubSeq(stack, 1, n) \in Seq(S)
      /\ Len(SubSeq(stack, 1, n)) = IF 1 <= n THEN n - 1 + 1 ELSE 0
      /\ \A i \in 1 .. n - 1 + 1 : SubSeq(stack, 1, n)[i] = stack[1 + i - 1]
  <2>1. n \in Int /\ 1 \in Int  BY <1>2
  <2>2. QED  BY ONLY <1>3, <2>1, SubSeqProperties
<1>8. /\ Below \in Seq(S)
      /\ Len(Below) = n
      /\ \A i \in 1..n : Below[i] = stack[i]
  <2>1. n - 1 + 1 = n  BY <1>2
  <2>2. \A i \in 1..n : 1 + i - 1 = i  BY <1>2
  <2>3. \A i \in 1..n : SubSeq(stack, 1, n)[i] = stack[i]  BY <1>7, <2>1, <2>2
  <2>4. Len(SubSeq(stack, 1, n)) = n  BY <1>2, <1>7, <2>1
  <2>5. QED  BY <1>6, <1>7, <2>3, <2>4
<1>9. Below \in Seq({Below[i] : i \in DOMAIN Below})
  BY <1>8, SeqOfElements
<1>10. FrameOK(Top) /\ Top.depth >= n /\ Top.save <= p
  BY <1>2, <1>4, <1>6
<1>11. \A i \in 1..n : FrameOK(Below[i]) /\ Below[i].depth >= i - 1 /\ Below[i].save <= Top.save
  BY <1>2, <1>4, <1>5, <1>6, <1>8
<1>12. \A i, j \in 1..n : i <= j => Below[i].save <= Below[j].save
  BY <1>2, <1>5, <1>8
<1>13. StackOK(Below, Top.save)
  BY <1>8, <1>9, <1>11, <1>12 DEF StackOK
<1>14. QED
  BY <1>2, <1>8, <1>10, <1>11, <1>13

\* A stack stays fit for a position further on.
LEMMA Moving ==
    ASSUME NEW st, NEW p \in Nat, NEW q \in Nat, StackOK(st, p), p <= q
    PROVE  StackOK(st, q)
<1>1. \A i \in 1..Len(st) : FrameOK(st[i]) /\ st[i].save <= p
  BY DEF StackOK
<1>2. \A i \in 1..Len(st) : st[i].save \in Nat
  BY <1>1 DEF FrameOK
<1>3. \A i \in 1..Len(st) : st[i].save <= q
  BY <1>1, <1>2
<1>4. QED  BY <1>3 DEF StackOK

-----------------------------------------------------------------------------
(* Positions.                                                              *)

LEMMA TokensLength == ASSUME TypeOK PROVE Len(tokens) \in Nat \ {0}
  BY InputsAssumption DEF TypeOK

\* Advancing never passes the last token, and moves unless it is there.
LEMMA Advancing ==
    ASSUME TypeOK, NEW p \in 1..Len(tokens)
    PROVE  /\ After(p) \in 1..Len(tokens)
           /\ p <= After(p)
           /\ ~Is("EOF", p) => After(p) = p + 1
<1>1. Len(tokens) \in Nat \ {0}
  BY TokensLength
<1>2. tokens[p].kind = "EOF" <=> p = Len(tokens)
  BY InputsAssumption DEF TypeOK
<1>3. QED  BY <1>1, <1>2 DEF After, Is

\* Where the parser can go without backtracking.
Ahead == pos .. Len(tokens)

LEMMA AfterAhead ==
    ASSUME NEW q, Inv, q \in Ahead
    PROVE  q \in 1..Len(tokens) /\ q \in Nat /\ pos <= q /\ After(q) \in Ahead
<1>1. TypeOK /\ Len(tokens) \in Nat \ {0} /\ pos \in 1..Len(tokens)
  BY TokensLength DEF Inv, TypeOK
<1>2. q \in 1..Len(tokens) /\ pos <= q /\ q \in Nat
  BY <1>1 DEF Ahead
<1>3. After(q) \in 1..Len(tokens) /\ q <= After(q)
  BY <1>1, <1>2, Advancing
<1>4. QED  BY <1>1, <1>2, <1>3 DEF Ahead

\* No action advances by more than four tokens.
LEMMA AheadFacts ==
    ASSUME Inv
    PROVE  /\ pos \in Ahead /\ After(pos) \in Ahead /\ After(After(pos)) \in Ahead
           /\ After(After(After(pos))) \in Ahead
           /\ After(After(After(After(pos)))) \in Ahead
<1>1. pos \in Ahead
  BY TokensLength DEF Ahead, Inv, TypeOK
<1>2. QED  BY <1>1, AfterAhead

LEMMA MaxDepthNat == ASSUME TypeOK PROVE cfg.maxDepth \in Nat
  BY ConfigsAssumption DEF TypeOK

-----------------------------------------------------------------------------
(* The three ways control moves keep the invariant, if the stack fits.     *)

MayEnter(pr, d, prec, p, st) ==
    /\ pr \in Procs /\ d \in Nat /\ prec \in Nat /\ p \in 1..Len(tokens)
    /\ StackOK(st, p) /\ Len(st) <= d
    /\ d <= cfg.maxDepth + CallSlack(pr) + p

MayReturn(p, st) == p \in 1..Len(tokens) /\ StackOK(st, p)

LEMMA EnterKeepsInv ==
    ASSUME NEW pr, NEW d, NEW prec, NEW p, NEW st,
           TypeOK, MayEnter(pr, d, prec, p, st), Enter(pr, d, prec, p, st)
    PROVE  Inv'
<1> USE DEF MayEnter
<1>1. Len(tokens) \in Nat /\ cfg.maxDepth \in Nat
  BY TokensLength, MaxDepthNat
<1>2. TypeOK'
  BY DEF Enter, TypeOK, Modes
<1>3. StackOK(stack, pos)'
  BY DEF Enter, StackOK, FrameOK
<1>4. d <= cfg.maxDepth + Len(tokens) + 6
  BY <1>1, SMTT(60) DEF CallSlack
<1>5. QED
  BY <1>2, <1>3, <1>4 DEF Inv, Enter

LEMMA ReturnKeepsInv ==
    ASSUME NEW n, NEW p, NEW st, Inv, MayReturn(p, st), Return(n, p, st)
    PROVE  Inv'
<1> USE DEF MayReturn
<1>1. TypeOK'
  BY DEF Inv, Return, TypeOK, Modes
<1>2. StackOK(stack, pos)'
  BY DEF Return, StackOK, FrameOK
<1>3. QED
  BY <1>1, <1>2 DEF Inv, Return

LEMMA FailKeepsInv ==
    ASSUME Inv, NEW st, StackOK(st, pos), Fail(st)
    PROVE  Inv'
<1>1. TypeOK'
  BY DEF Inv, Fail, TypeOK, Modes
<1>2. StackOK(stack, pos)'
  BY DEF Fail, StackOK, FrameOK
<1>3. QED
  BY <1>1, <1>2 DEF Inv, Fail

-----------------------------------------------------------------------------
(* The stacks the actions build.                                           *)

\* Stepping back to the frame that is on top.
LEMMA TopFacts ==
    ASSUME Inv, stack # << >>
    PROVE  /\ Top.depth \in Nat /\ Top.prec \in Nat
           /\ Top.save \in 1..pos /\ Top.save \in 1..Len(tokens)
           /\ Top.pc \in FramePcs
           /\ Top.depth <= cfg.maxDepth + FrameSlack(Top.pc) + Top.save
           /\ Len(Below) <= Top.depth /\ Len(Below) \in Nat
           /\ pos \in 1..Len(tokens) /\ pos \in Nat
           /\ Len(tokens) \in Nat \ {0} /\ cfg.maxDepth \in Nat
<1>1. pos \in Nat /\ pos \in 1..Len(tokens) /\ StackOK(stack, pos)
  BY TokensLength DEF Inv, TypeOK
<1>2. QED
  BY <1>1, Popping, TokensLength, MaxDepthNat DEF FrameOK, Inv

LEMMA PoppedOK ==
    ASSUME NEW q \in 1..Len(tokens), Inv, stack # << >>, Top.save <= q
    PROVE  StackOK(Below, q)
<1>1. pos \in Nat /\ StackOK(stack, pos) /\ q \in Nat /\ Top.save \in Nat
  BY TokensLength, TopFacts DEF Inv, TypeOK
<1>2. QED  BY <1>1, Popping, Moving

LEMMA ResumedOK ==
    ASSUME NEW q \in 1..Len(tokens), NEW pc \in FramePcs, NEW op, NEW acc,
           Inv, stack # << >>, Top.save <= q, Top.depth <= cfg.maxDepth + FrameSlack(pc) + Top.save
    PROVE  /\ StackOK(Append(Below, Resumed(pc, op, acc)), q)
           /\ Len(Append(Below, Resumed(pc, op, acc))) = Len(Below) + 1
           /\ \A i \in 1..Len(Below)+1 :
                 Append(Below, Resumed(pc, op, acc))[i].save <= Top.save
<1> DEFINE f == Resumed(pc, op, acc)
<1>1. /\ pos \in Nat /\ StackOK(stack, pos) /\ q \in Nat
      /\ Top.save \in Nat /\ Top.save \in 1..Len(tokens)
      /\ Top.depth \in Nat /\ Top.prec \in Nat /\ Len(Below) <= Top.depth
  BY TokensLength, TopFacts DEF Inv, TypeOK
<1>2. /\ f.pc = pc /\ f.depth = Top.depth /\ f.prec = Top.prec /\ f.save = Top.save
  BY DEF Resumed
<1>3. FrameOK(f)
  BY <1>1, <1>2 DEF FrameOK
<1>4. /\ StackOK(Below, Top.save)
      /\ \A i \in 1..Len(Below) : Below[i].save <= Top.save
  BY <1>1, Popping
<1> HIDE DEF f
<1>5. QED  BY <1>1, <1>2, <1>3, <1>4, Pushing DEF f

Pushable(pc, d, prec, st, q) ==
    /\ q \in 1..Len(tokens) /\ pos <= q
    /\ pc \in FramePcs /\ d \in Nat /\ prec \in Nat
    /\ StackOK(st, pos) /\ Len(st) <= d
    /\ d <= cfg.maxDepth + FrameSlack(pc) + pos

LEMMA PushedOK ==
    ASSUME NEW q, NEW pc, NEW d, NEW op, NEW prec, NEW acc, NEW st,
           Inv, Pushable(pc, d, prec, st, q)
    PROVE  /\ StackOK(Append(st, Frame(pc, d, op, prec, acc)), q)
           /\ Len(Append(st, Frame(pc, d, op, prec, acc))) = Len(st) + 1
<1> USE DEF Pushable
<1> DEFINE f == Frame(pc, d, op, prec, acc)
<1>1. pos \in Nat /\ pos \in 1..Len(tokens) /\ q \in Nat
  BY TokensLength DEF Inv, TypeOK
<1>2. /\ f.pc = pc /\ f.depth = d /\ f.prec = prec /\ f.save = pos
  BY DEF Frame
<1>3. FrameOK(f)
  BY <1>1, <1>2 DEF FrameOK
<1>4. \A i \in 1..Len(st) : st[i].save <= pos
  BY DEF StackOK
<1> HIDE DEF f
<1>5. QED  BY <1>1, <1>2, <1>3, <1>4, Pushing DEF f

-----------------------------------------------------------------------------
(* What an action does to the stack: a tail call, a call that leaves a     *)
(* frame, a call from a resumed frame or in place of one, and the returns. *)

LEMMA Called ==
    ASSUME Inv, mode = "call"
    PROVE  /\ depth \in Nat /\ minPrec \in Nat /\ pos \in 1..Len(tokens) /\ pos \in Nat
           /\ Len(stack) \in Nat /\ Len(stack) <= depth
           /\ depth <= cfg.maxDepth + CallSlack(proc) + pos
           /\ cfg.maxDepth \in Nat /\ Len(tokens) \in Nat \ {0}
           /\ StackOK(stack, pos) /\ TypeOK
<1>1. stack \in Seq({stack[i] : i \in DOMAIN stack})
  BY DEF Inv, StackOK
<1>2. Len(stack) \in Nat
  BY <1>1
<1>3. QED  BY <1>2, TokensLength, MaxDepthNat DEF Inv, TypeOK

-----------------------------------------------------------------------------
(* The procedures and the frames by their distance from a depth check.     *)

LEMMA CallSlacks ==
    /\ "Expression" \in Procs /\ CallSlack("Expression") = 6
    /\ "Arithmetic" \in Procs /\ CallSlack("Arithmetic") = 6
    /\ "ScalarPrimary" \in Procs /\ CallSlack("ScalarPrimary") = 6
    /\ "TemporalOperand" \in Procs /\ CallSlack("TemporalOperand") = 6
    /\ "InstantFunction" \in Procs /\ CallSlack("InstantFunction") = 6
    /\ "Interval" \in Procs /\ CallSlack("Interval") = 6
    /\ "IntervalEndpoint" \in Procs /\ CallSlack("IntervalEndpoint") = 6
    /\ "ArrayOperand" \in Procs /\ CallSlack("ArrayOperand") = 6
    /\ "ArrayLiteral" \in Procs /\ CallSlack("ArrayLiteral") = 6
    /\ "SpatialOperand" \in Procs /\ CallSlack("SpatialOperand") = 6
    /\ "GeometryLiteral" \in Procs /\ CallSlack("GeometryLiteral") = 6
    /\ "Pattern" \in Procs /\ CallSlack("Pattern") = 4
    /\ "TemporalInstance" \in Procs /\ CallSlack("TemporalInstance") = 4
    /\ "Primary" \in Procs /\ CallSlack("Primary") = 3
    /\ "Not" \in Procs /\ CallSlack("Not") = 2
    /\ "FunctionArg" \in Procs /\ CallSlack("FunctionArg") = 2
    /\ "ArrayElement" \in Procs /\ CallSlack("ArrayElement") = 1
  BY DEF Procs, DepthChecked, CallSlack

LEMMA FrameSlacks ==
    /\ "OrMore" \in FramePcs /\ FrameSlack("OrMore") = 0
    /\ "ArithmeticMore" \in FramePcs /\ FrameSlack("ArithmeticMore") = 0
    /\ "SignDone" \in FramePcs /\ FrameSlack("SignDone") = 0
    /\ "GroupDone" \in FramePcs /\ FrameSlack("GroupDone") = 0
    /\ "ArrayMore" \in FramePcs /\ FrameSlack("ArrayMore") = 0
    /\ "IntervalStart" \in FramePcs /\ FrameSlack("IntervalStart") = 0
    /\ "IntervalEnd" \in FramePcs /\ FrameSlack("IntervalEnd") = 0
    /\ "CollectionMore" \in FramePcs /\ FrameSlack("CollectionMore") = 0
    /\ "AndMore" \in FramePcs /\ FrameSlack("AndMore") = 1
    /\ "ElementTry" \in FramePcs /\ FrameSlack("ElementTry") = 1
    /\ "FunctionMore" \in FramePcs /\ FrameSlack("FunctionMore") = 1
    /\ "ArgExpressionTry" \in FramePcs /\ FrameSlack("ArgExpressionTry") = 2
    /\ "ArgScalarTry" \in FramePcs /\ FrameSlack("ArgScalarTry") = 2
    /\ "NotDone" \in FramePcs /\ FrameSlack("NotDone") = 2
    /\ "ParenTry" \in FramePcs /\ FrameSlack("ParenTry") = 3
    /\ "IntervalIs" \in FramePcs /\ FrameSlack("IntervalIs") = 3
    /\ "PredicateOf" \in FramePcs /\ FrameSlack("PredicateOf") = 3
    /\ "ComparisonRight" \in FramePcs /\ FrameSlack("ComparisonRight") = 3
    /\ "LikePattern" \in FramePcs /\ FrameSlack("LikePattern") = 3
    /\ "BetweenLower" \in FramePcs /\ FrameSlack("BetweenLower") = 3
    /\ "BetweenUpper" \in FramePcs /\ FrameSlack("BetweenUpper") = 3
    /\ "InMore" \in FramePcs /\ FrameSlack("InMore") = 3
    /\ "PredicateLeft" \in FramePcs /\ FrameSlack("PredicateLeft") = 4
    /\ "PredicateRight" \in FramePcs /\ FrameSlack("PredicateRight") = 4
    /\ "PatternDone" \in FramePcs /\ FrameSlack("PatternDone") = 4
  BY DEF FramePcs, FrameSlack, CheckedFrames, PrimaryFrames, OtherFrames

\* A call of pr at depth d and position q: in tail position; leaving the
\* frame pc of depth fd; from the top frame, resumed at pc; in its place.
MayCall(pr, d, q) ==
    /\ mode = "call" /\ pr \in Procs /\ d \in Nat /\ q \in Ahead
    /\ depth <= d /\ d <= cfg.maxDepth + CallSlack(pr) + q

MayPush(pr, d, q, pc, fd) ==
    /\ mode = "call" /\ pr \in Procs /\ d \in Nat /\ q \in Ahead
    /\ d <= cfg.maxDepth + CallSlack(pr) + q
    /\ pc \in FramePcs /\ fd \in Nat
    /\ depth <= fd /\ fd < d /\ fd <= cfg.maxDepth + FrameSlack(pc) + pos

MayReplace(pr, d, q) ==
    /\ stack # << >> /\ pr \in Procs /\ d \in Nat /\ q \in 1..Len(tokens)
    /\ Top.save <= q /\ Top.depth < d /\ d <= cfg.maxDepth + CallSlack(pr) + q

MayResume(pr, d, q, pc) ==
    /\ MayReplace(pr, d, q)
    /\ pc \in FramePcs /\ Top.depth <= cfg.maxDepth + FrameSlack(pc) + Top.save

LEMMA TailCall ==
    ASSUME NEW pr, NEW d, NEW prec \in Nat, NEW q,
           Inv, MayCall(pr, d, q), Enter(pr, d, prec, q, stack)
    PROVE  Inv'
<1>1. q \in 1..Len(tokens) /\ q \in Nat /\ pos <= q
  BY AfterAhead DEF MayCall
<1>2. StackOK(stack, q)
  BY <1>1, Called, Moving DEF MayCall
<1>3. Len(stack) <= d
  BY Called DEF MayCall
<1>4. MayEnter(pr, d, prec, q, stack)
  BY <1>1, <1>2, <1>3, Called DEF MayCall, MayEnter
<1>5. QED  BY <1>4, EnterKeepsInv DEF Inv

LEMMA PushCall ==
    ASSUME NEW pr, NEW d, NEW prec \in Nat, NEW q,
           NEW pc, NEW fd, NEW op, NEW fprec \in Nat, NEW acc,
           Inv, MayPush(pr, d, q, pc, fd),
           Enter(pr, d, prec, q, Append(stack, Frame(pc, fd, op, fprec, acc)))
    PROVE  Inv'
<1> USE DEF MayPush
<1>1. q \in 1..Len(tokens) /\ q \in Nat /\ pos <= q
  BY AfterAhead
<1>2. Len(stack) <= fd /\ Len(stack) + 1 <= d
  BY Called
<1>3. /\ StackOK(Append(stack, Frame(pc, fd, op, fprec, acc)), q)
      /\ Len(Append(stack, Frame(pc, fd, op, fprec, acc))) = Len(stack) + 1
  <2>1. Pushable(pc, fd, fprec, stack, q)
    BY <1>1, <1>2, Called DEF Pushable
  <2>2. QED  BY <2>1, PushedOK
<1>4. MayEnter(pr, d, prec, q, Append(stack, Frame(pc, fd, op, fprec, acc)))
  BY <1>1, <1>2, <1>3, Called DEF MayEnter
<1>5. QED  BY <1>4, EnterKeepsInv DEF Inv

LEMMA ResumeCall ==
    ASSUME NEW pr, NEW d, NEW prec \in Nat, NEW q, NEW pc, NEW op, NEW acc,
           Inv, MayResume(pr, d, q, pc),
           Enter(pr, d, prec, q, Append(Below, Resumed(pc, op, acc)))
    PROVE  Inv'
<1> USE DEF MayResume, MayReplace
<1>1. /\ StackOK(Append(Below, Resumed(pc, op, acc)), q)
      /\ Len(Append(Below, Resumed(pc, op, acc))) = Len(Below) + 1
  BY ResumedOK
<1>2. Len(Below) + 1 <= d
  BY TopFacts
<1>3. MayEnter(pr, d, prec, q, Append(Below, Resumed(pc, op, acc)))
  BY <1>1, <1>2 DEF MayEnter
<1>4. QED  BY <1>3, EnterKeepsInv DEF Inv

LEMMA ReplaceCall ==
    ASSUME NEW pr, NEW d, NEW prec \in Nat, NEW q,
           Inv, MayReplace(pr, d, q), Enter(pr, d, prec, q, Below)
    PROVE  Inv'
<1> USE DEF MayReplace
<1>1. StackOK(Below, q)
  BY PoppedOK
<1>2. Len(Below) <= d
  BY TopFacts
<1>3. MayEnter(pr, d, prec, q, Below)
  BY <1>1, <1>2 DEF MayEnter
<1>4. QED  BY <1>3, EnterKeepsInv DEF Inv

LEMMA TailReturn ==
    ASSUME NEW n, NEW q, Inv, mode = "call", q \in Ahead, Return(n, q, stack)
    PROVE  Inv'
<1>1. q \in 1..Len(tokens) /\ q \in Nat /\ pos <= q
  BY AfterAhead
<1>2. StackOK(stack, q)
  BY <1>1, Called, Moving
<1>3. QED  BY <1>1, <1>2, ReturnKeepsInv DEF MayReturn

LEMMA PopReturn ==
    ASSUME NEW n, NEW q, Inv, stack # << >>, q \in Ahead, Return(n, q, Below)
    PROVE  Inv'
<1>1. q \in 1..Len(tokens) /\ pos <= q
  BY AfterAhead
<1>2. Top.save <= q
  BY <1>1, TopFacts
<1>3. StackOK(Below, q)
  BY <1>1, <1>2, PoppedOK
<1>4. QED  BY <1>1, <1>3, ReturnKeepsInv DEF MayReturn

LEMMA TailFail == ASSUME Inv, Fail(stack) PROVE Inv'
<1>1. StackOK(stack, pos)  BY DEF Inv
<1>2. QED  BY <1>1, FailKeepsInv

LEMMA PopFail == ASSUME Inv, stack # << >>, Fail(Below) PROVE Inv'
<1>1. StackOK(Below, pos)
  BY TopFacts, TokensLength, PoppedOK DEF Inv
<1>2. QED  BY <1>1, FailKeepsInv

-----------------------------------------------------------------------------

\* A procedure past its depth check.
LEMMA Checked ==
    ASSUME NEW pr, Inv, Calling(pr), pr \in DepthChecked
    PROVE  mode = "call" /\ depth <= cfg.maxDepth
  BY Called DEF Calling, TooDeep

LEMMA FromChecked ==
    ASSUME NEW pr, NEW q, NEW pc, Inv, mode = "call", depth <= cfg.maxDepth,
           pr \in Procs, q \in Ahead
    PROVE  /\ MayCall(pr, depth + 1, q)
           /\ pc \in FramePcs => MayPush(pr, depth + 1, q, pc, depth)
           /\ 2 <= CallSlack(pr)
                => /\ MayCall(pr, depth + 2, q)
                   /\ pc \in FramePcs => MayPush(pr, depth + 2, q, pc, depth)
<1>1. /\ depth \in Nat /\ cfg.maxDepth \in Nat /\ CallSlack(pr) \in Nat /\ 1 <= CallSlack(pr)
      /\ pos \in Nat /\ FrameSlack(pc) \in Nat
      /\ q \in 1..Len(tokens) /\ q \in Nat
  BY Called, AfterAhead DEF CallSlack, FrameSlack
<1>2. QED  BY <1>1, SMTT(60) DEF MayCall, MayPush

\* A frame resumed after a return, or at its saved position after an error.
LEMMA SaveOrAhead ==
    ASSUME NEW q, Inv, stack # << >>, q \in Ahead \/ q = Top.save
    PROVE  q \in 1..Len(tokens) /\ Top.save <= q /\ q \in Nat
<1>1. CASE q \in Ahead
  <2>1. q \in 1..Len(tokens) /\ q \in Nat /\ pos <= q
    BY <1>1, AfterAhead
  <2>2. Top.save \in 1..pos /\ pos \in Nat
    BY TopFacts
  <2>3. QED  BY ONLY <2>1, <2>2
<1>2. CASE q = Top.save
  BY <1>2, TopFacts
<1>3. QED  BY <1>1, <1>2

LEMMA FromTop ==
    ASSUME NEW pr, NEW q, NEW pc, Inv, stack # << >>,
           pr \in Procs, q \in Ahead \/ q = Top.save,
           FrameSlack(Top.pc) < CallSlack(pr)
    PROVE  /\ MayReplace(pr, Top.depth + 1, q)
           /\ pc \in FramePcs /\ FrameSlack(pc) = FrameSlack(Top.pc)
                => MayResume(pr, Top.depth + 1, q, pc)
<1>1. q \in 1..Len(tokens) /\ Top.save <= q /\ q \in Nat
  BY SaveOrAhead
<1>2. /\ CallSlack(pr) \in Nat /\ FrameSlack(Top.pc) \in Nat
      /\ Top.depth \in Nat /\ Top.save \in Nat /\ cfg.maxDepth \in Nat
  BY TopFacts DEF CallSlack, FrameSlack
<1>3. Top.depth <= cfg.maxDepth + FrameSlack(Top.pc) + Top.save
  BY TopFacts
<1>4. Top.depth + 1 \in Nat /\ Top.depth < Top.depth + 1
  BY <1>2
<1>5. Top.depth + 1 <= cfg.maxDepth + CallSlack(pr) + q
  BY <1>1, <1>2, <1>3
<1>6. MayReplace(pr, Top.depth + 1, q)
  BY <1>1, <1>4, <1>5 DEF MayReplace
<1>7. QED  BY <1>3, <1>6 DEF MayResume

\* parseScalar, called while a frame waits for the operand.
LEMMA ScalarTailCall ==
    ASSUME NEW q, Inv, mode = "call", CallSlack(proc) <= 4, q \in Ahead
    PROVE  EnterScalar(depth + 1, q, stack) => Inv'
<1>0. /\ CallSlack(proc) \in 0..4 /\ q \in Nat /\ pos \in Nat /\ pos <= q
      /\ depth \in Nat /\ cfg.maxDepth \in Nat
      /\ depth <= cfg.maxDepth + CallSlack(proc) + pos
  BY AfterAhead, Called DEF CallSlack, Inv
<1>1. /\ depth + 1 + 1 \in Nat /\ depth <= depth + 1 + 1
      /\ depth + 1 + 1 <= cfg.maxDepth + 6 + q
  BY ONLY <1>0
<1>2. MayCall("Arithmetic", depth + 1 + 1, q) /\ MayCall("ScalarPrimary", depth + 1 + 1, q)
  BY <1>0, <1>1, CallSlacks DEF MayCall
<1>3. QED  BY <1>2, TailCall DEF EnterScalar

LEMMA ScalarResumeCall ==
    ASSUME NEW q, NEW pc, NEW op, NEW acc, Inv, stack # << >>,
           q \in Ahead \/ q = Top.save,
           pc \in FramePcs, FrameSlack(pc) = FrameSlack(Top.pc), FrameSlack(pc) <= 3
    PROVE  /\ EnterScalar(Top.depth + 1, q, Append(Below, Resumed(pc, op, acc))) => Inv'
           /\ EnterScalar(Top.depth + 2, q, Append(Below, Resumed(pc, op, acc))) => Inv'
<1>1. q \in 1..Len(tokens) /\ Top.save <= q /\ q \in Nat
  BY SaveOrAhead
<1>2. /\ FrameSlack(Top.pc) \in Nat /\ FrameSlack(Top.pc) <= 3
      /\ Top.depth \in Nat /\ Top.save \in Nat /\ cfg.maxDepth \in Nat
  BY TopFacts DEF FrameSlack
<1>3. Top.depth <= cfg.maxDepth + FrameSlack(Top.pc) + Top.save
  BY TopFacts
<1>4. /\ Top.depth + 1 + 1 \in Nat /\ Top.depth < Top.depth + 1 + 1
      /\ Top.depth + 1 + 1 <= cfg.maxDepth + 6 + q
      /\ Top.depth + 2 + 1 \in Nat /\ Top.depth < Top.depth + 2 + 1
      /\ Top.depth + 2 + 1 <= cfg.maxDepth + 6 + q
  <2>1. Top.depth <= cfg.maxDepth + 3 + q
    BY ONLY <1>1, <1>2, <1>3
  <2>2. QED  BY ONLY <1>1, <1>2, <2>1, SMTT(60)
<1>5. \A pr \in {"Arithmetic", "ScalarPrimary"} :
         /\ MayReplace(pr, Top.depth + 1 + 1, q)
         /\ MayReplace(pr, Top.depth + 2 + 1, q)
  BY <1>1, <1>4, CallSlacks DEF MayReplace
<1>6. \A pr \in {"Arithmetic", "ScalarPrimary"} :
         /\ MayResume(pr, Top.depth + 1 + 1, q, pc)
         /\ MayResume(pr, Top.depth + 2 + 1, q, pc)
  BY <1>3, <1>5 DEF MayResume
<1>7. QED  BY <1>6, ResumeCall DEF EnterScalar

\* Going back to the saved position for the next alternative.
LEMMA Retry ==
    ASSUME NEW pr, Inv, stack # << >>, pr \in Procs, FrameSlack(Top.pc) < CallSlack(pr)
    PROVE  MayReplace(pr, Top.depth + 1, Top.save)
<1>1. \A q : q = Top.save => MayReplace(pr, Top.depth + 1, q)
  BY FromTop
<1>2. QED  BY <1>1

LEMMA ScalarRetry ==
    ASSUME NEW pc, NEW op, NEW acc, Inv, stack # << >>,
           pc \in FramePcs, FrameSlack(pc) = FrameSlack(Top.pc), FrameSlack(pc) <= 3
    PROVE  EnterScalar(Top.depth + 1, Top.save, Append(Below, Resumed(pc, op, acc))) => Inv'
<1>1. \A q : q = Top.save =>
         (EnterScalar(Top.depth + 1, q, Append(Below, Resumed(pc, op, acc))) => Inv')
  BY ScalarResumeCall
<1>2. QED  BY <1>1

LEMMA ScalarReplaceCall ==
    ASSUME NEW q, Inv, stack # << >>, q = Top.save, FrameSlack(Top.pc) <= 3
    PROVE  EnterScalar(Top.depth + 1, q, Below) => Inv'
<1>1. q \in 1..Len(tokens) /\ q \in Nat
  BY TopFacts
<1>2. /\ FrameSlack(Top.pc) \in Nat /\ FrameSlack(Top.pc) <= 3
      /\ Top.depth \in Nat /\ cfg.maxDepth \in Nat
  BY TopFacts DEF FrameSlack
<1>3. Top.depth <= cfg.maxDepth + FrameSlack(Top.pc) + q
  BY TopFacts
<1>4. /\ Top.depth + 1 + 1 \in Nat /\ Top.depth < Top.depth + 1 + 1
      /\ Top.depth + 1 + 1 <= cfg.maxDepth + 6 + q
  BY ONLY <1>1, <1>2, <1>3, SMTT(60)
<1>5. /\ MayReplace("Arithmetic", Top.depth + 1 + 1, q)
      /\ MayReplace("ScalarPrimary", Top.depth + 1 + 1, q)
  BY <1>1, <1>4, CallSlacks DEF MayReplace
<1>6. QED  BY <1>5, ReplaceCall DEF EnterScalar

\* The first operand of a conjunction, whose frame is above st.
LEMMA AndCall ==
    ASSUME NEW d, NEW q, NEW st, NEW op, NEW acc, Inv, d \in Nat,
           StackOK(st, pos), Len(st) \in Nat, Len(st) <= d + 1, d <= cfg.maxDepth + pos, q \in Ahead
    PROVE  Enter("Not", d + 2, 0, q, Append(st, Frame("AndMore", d + 1, op, 0, acc))) => Inv'
<1>1. q \in 1..Len(tokens) /\ q \in Nat /\ pos <= q /\ cfg.maxDepth \in Nat
  BY AfterAhead, MaxDepthNat DEF Inv
<1>2. pos \in Nat
  BY TokensLength DEF Inv, TypeOK
<1>3. "AndMore" \in FramePcs /\ FrameSlack("AndMore") = 1 /\ 0 \in Nat
  BY FrameSlacks
<1>4. d + 1 \in Nat /\ d + 1 <= cfg.maxDepth + FrameSlack("AndMore") + pos
  BY <1>1, <1>2, <1>3
<1>5. /\ StackOK(Append(st, Frame("AndMore", d + 1, op, 0, acc)), q)
      /\ Len(Append(st, Frame("AndMore", d + 1, op, 0, acc))) = Len(st) + 1
  <2>1. Pushable("AndMore", d + 1, 0, st, q)
    BY <1>1, <1>3, <1>4 DEF Pushable
  <2>2. QED  BY <2>1, PushedOK
<1>6. MayEnter("Not", d + 2, 0, q, Append(st, Frame("AndMore", d + 1, op, 0, acc)))
  <2>1. /\ d + 2 \in Nat /\ Len(st) + 1 <= d + 2
        /\ d + 2 <= cfg.maxDepth + CallSlack("Not") + q
    BY <1>1, <1>2, CallSlacks, SMTT(60)
  <2>2. QED  BY <1>1, <1>5, <2>1, CallSlacks DEF MayEnter
<1>7. QED  BY <1>6, EnterKeepsInv DEF Inv

-----------------------------------------------------------------------------
(* parseExpression, parseOr, parseAnd, parseNot                            *)

LEMMA ExpressionKeepsInv == ASSUME Inv, Expression PROVE Inv'
<1>1. mode = "call" /\ depth <= cfg.maxDepth
  BY Checked DEF Expression, DepthChecked
<1>2. /\ pos \in Ahead /\ pos \in 1..Len(tokens) /\ pos \in Nat /\ depth \in Nat
      /\ cfg.maxDepth \in Nat /\ Len(stack) \in Nat /\ Len(stack) <= depth
      /\ StackOK(stack, pos)
  BY <1>1, Called, AheadFacts
<1>3. \A op, acc : /\ StackOK(Append(stack, Frame("OrMore", depth, op, 0, acc)), pos)
                   /\ Len(Append(stack, Frame("OrMore", depth, op, 0, acc))) = Len(stack) + 1
  <2>1. depth <= cfg.maxDepth + FrameSlack("OrMore") + pos /\ "OrMore" \in FramePcs
    BY <1>1, <1>2, FrameSlacks
  <2>2. Pushable("OrMore", depth, 0, stack, pos)
    BY <1>2, <2>1 DEF Pushable
  <2>3. QED  BY <2>2, PushedOK
<1>4. depth <= cfg.maxDepth + pos /\ Len(stack) + 1 \in Nat /\ Len(stack) + 1 <= depth + 1
  BY <1>1, <1>2
<1>5. QED  BY <1>2, <1>3, <1>4, AndCall DEF Expression

LEMMA OrMoreKeepsInv == ASSUME Inv, OrMore PROVE Inv'
<1>1. stack # << >> /\ Top.pc = "OrMore"
  BY DEF OrMore, Returning
<1>2. /\ pos \in Ahead /\ After(pos) \in Ahead /\ pos \in 1..Len(tokens) /\ pos \in Nat
      /\ Top.depth \in Nat /\ cfg.maxDepth \in Nat
      /\ Len(Below) \in Nat /\ Len(Below) <= Top.depth
      /\ Top.save \in 1..pos
  BY <1>1, TopFacts, AheadFacts
<1>3. Top.depth <= cfg.maxDepth + FrameSlack("OrMore") + Top.save /\ "OrMore" \in FramePcs
  BY <1>1, TopFacts
<1>4. \A op, acc : /\ StackOK(Append(Below, Resumed("OrMore", op, acc)), pos)
                   /\ Len(Append(Below, Resumed("OrMore", op, acc))) = Len(Below) + 1
  BY <1>1, <1>2, <1>3, ResumedOK
<1>5. Top.depth <= cfg.maxDepth + pos /\ Len(Below) + 1 \in Nat /\ Len(Below) + 1 <= Top.depth + 1
  <2>1. FrameSlack("OrMore") = 0
    BY FrameSlacks
  <2>2. QED  BY ONLY <1>2, <1>3, <2>1, SMTT(60)
<1>6. QED  BY <1>1, <1>2, <1>4, <1>5, AndCall, PopReturn DEF OrMore

LEMMA AndMoreKeepsInv == ASSUME Inv, AndMore PROVE Inv'
<1>1. stack # << >> /\ Top.pc = "AndMore"
  BY DEF AndMore, Returning
<1>2. MayResume("Not", Top.depth + 1, After(pos), "AndMore")
  BY <1>1, FromTop, CallSlacks, FrameSlacks, AheadFacts
<1>3. QED  BY <1>1, <1>2, ResumeCall, PopReturn, AheadFacts DEF AndMore

LEMMA NotKeepsInv == ASSUME Inv, Not PROVE Inv'
<1>1. mode = "call" /\ depth <= cfg.maxDepth + 2 + pos
  BY Called, CallSlacks DEF Not, Calling
<1>2. depth \in Nat /\ cfg.maxDepth \in Nat /\ pos \in Nat /\ pos \in Ahead
  BY <1>1, Called, AheadFacts
<1>3. ASSUME IsWord({"NOT"}, pos)
      PROVE  MayPush("Not", depth + 1, After(pos), "NotDone", depth)
  <2>1. After(pos) = pos + 1 /\ After(pos) \in Ahead
    BY <1>1, <1>3, Called, Advancing, AheadFacts DEF IsWord, Is
  <2>2. QED  BY <1>1, <1>2, <2>1, CallSlacks, FrameSlacks DEF MayPush
<1>4. MayCall("Primary", depth + 1, pos)
  BY <1>1, <1>2, CallSlacks DEF MayCall
<1>5. QED  BY <1>3, <1>4, PushCall, TailCall DEF Not

LEMMA NotDoneKeepsInv == ASSUME Inv, NotDone PROVE Inv'
  BY PopReturn, AheadFacts DEF NotDone, Returning

-----------------------------------------------------------------------------
(* parsePrimaryExpression                                                  *)

LEMMA PrimaryPredicateKeepsInv == ASSUME Inv, PrimaryPredicate PROVE Inv'
<1>1. mode = "call" /\ depth <= cfg.maxDepth + 3 + pos
  BY Called, CallSlacks DEF PrimaryPredicate, Calling
<1>2. depth \in Nat /\ cfg.maxDepth \in Nat /\ pos \in Nat /\ pos \in 1..Len(tokens)
  BY <1>1, Called
<1>3. After(After(pos)) \in Ahead /\ After(After(pos)) \in Nat /\ pos <= After(After(pos))
  BY AheadFacts, AfterAhead
<1>4. \A pr \in {"SpatialOperand", "TemporalOperand", "ArrayOperand"} :
         MayPush(pr, depth + 2, After(After(pos)), "PredicateLeft", depth + 1)
  BY <1>1, <1>2, <1>3, CallSlacks, FrameSlacks, SMTT(60) DEF MayPush
<1>5. QED  BY <1>4, PushCall, TailFail DEF PrimaryPredicate, OperandProc

LEMMA PrimaryIntervalKeepsInv == ASSUME Inv, PrimaryInterval PROVE Inv'
<1>1. mode = "call" /\ depth <= cfg.maxDepth + 3 + pos
  BY Called, CallSlacks DEF PrimaryInterval, Calling
<1>2. depth \in Nat /\ cfg.maxDepth \in Nat /\ pos \in Nat /\ pos \in 1..Len(tokens)
  BY <1>1, Called
<1>3. MayPush("TemporalInstance", depth + 1, pos, "IntervalIs", depth)
  BY <1>1, <1>2, CallSlacks, FrameSlacks, AheadFacts DEF MayPush
<1>4. QED  BY <1>3, PushCall DEF PrimaryInterval

LEMMA PrimaryGeometryKeepsInv == ASSUME Inv, PrimaryGeometry PROVE Inv'
<1>1. mode = "call" /\ depth <= cfg.maxDepth + 3 + pos
  BY Called, CallSlacks DEF PrimaryGeometry, Calling
<1>2. depth \in Nat /\ cfg.maxDepth \in Nat /\ pos \in Nat /\ pos \in 1..Len(tokens)
  BY <1>1, Called
<1>3. MayPush("GeometryLiteral", depth + 1, pos, "IntervalIs", depth)
  BY <1>1, <1>2, CallSlacks, FrameSlacks, AheadFacts DEF MayPush
<1>4. QED  BY <1>3, PushCall DEF PrimaryGeometry

LEMMA IntervalIsKeepsInv == ASSUME Inv, IntervalIs PROVE Inv'
<1>1. stack # << >>
  BY DEF IntervalIs, Returning
<1>2. QED  BY <1>1, PopReturn, PopFail, AheadFacts DEF IntervalIs, FinishIsNull

LEMMA PrimaryParenKeepsInv == ASSUME Inv, PrimaryParen PROVE Inv'
<1>1. mode = "call" /\ depth <= cfg.maxDepth + 3 + pos
  BY Called, CallSlacks DEF PrimaryParen, Calling
<1>2. depth \in Nat /\ cfg.maxDepth \in Nat /\ pos \in Nat /\ pos \in 1..Len(tokens)
  BY <1>1, Called
<1>3. After(pos) \in Ahead /\ After(pos) \in Nat /\ pos <= After(pos)
  BY AheadFacts, AfterAhead
<1>4. MayPush("Expression", depth + 1, After(pos), "ParenTry", depth)
  BY <1>1, <1>2, <1>3, CallSlacks, FrameSlacks, SMTT(60) DEF MayPush
<1>5. QED  BY <1>4, PushCall DEF PrimaryParen

LEMMA ParenIsExpressionKeepsInv == ASSUME Inv, ParenIsExpression PROVE Inv'
<1>1. stack # << >>
  BY DEF ParenIsExpression, Returning
<1>2. QED  BY <1>1, PopReturn, PopFail, AheadFacts DEF ParenIsExpression, FinishIsNull

LEMMA ParenIsScalarKeepsInv == ASSUME Inv, ParenIsScalar PROVE Inv'
<1>1. stack # << >> /\ Top.pc = "ParenTry"
  BY DEF ParenIsScalar, Failing
<1>2. \A op, acc : EnterScalar(Top.depth + 1, Top.save,
                               Append(Below, Resumed("PredicateOf", op, acc))) => Inv'
  BY <1>1, ScalarRetry, FrameSlacks
<1>3. QED  BY <1>1, <1>2 DEF ParenIsScalar

LEMMA PrimaryScalarKeepsInv == ASSUME Inv, PrimaryScalar PROVE Inv'
<1>1. mode = "call" /\ depth <= cfg.maxDepth + 3 + pos
  BY Called, CallSlacks DEF PrimaryScalar, Calling
<1>2. depth \in Nat /\ cfg.maxDepth \in Nat /\ pos \in Nat /\ pos \in 1..Len(tokens)
  BY <1>1, Called
<1>3. \A pr \in {"Arithmetic", "ScalarPrimary"} :
         MayPush(pr, depth + 1 + 1, pos, "PredicateOf", depth)
  BY <1>1, <1>2, CallSlacks, FrameSlacks, AheadFacts, SMTT(60) DEF MayPush
<1>4. QED  BY <1>3, PushCall DEF PrimaryScalar, EnterScalar

LEMMA ComparisonKeepsInv == ASSUME Inv, Comparison PROVE Inv'
<1>1. stack # << >> /\ Top.pc = "PredicateOf"
  BY DEF Comparison, FollowedBy, Returning
<1>2. QED  BY <1>1, ScalarResumeCall, FrameSlacks, AheadFacts DEF Comparison

LEMMA ComparisonRightKeepsInv == ASSUME Inv, ComparisonRight PROVE Inv'
  BY PopReturn, PopFail, AheadFacts DEF ComparisonRight, Returning

LEMMA ArithmeticDisabledKeepsInv == ASSUME Inv, ArithmeticDisabled PROVE Inv'
  BY PopFail DEF ArithmeticDisabled, FollowedBy, Returning

LEMMA AfterNotAhead ==
    ASSUME Inv
    PROVE  AfterNot \in Ahead /\ After(AfterNot) \in Ahead /\ After(After(AfterNot)) \in Ahead
  BY AheadFacts DEF AfterNot

LEMMA LikeKeepsInv == ASSUME Inv, Like PROVE Inv'
<1>1. stack # << >> /\ Top.pc = "PredicateOf"
  BY DEF Like, FollowedBy, Returning
<1>2. MayResume("Pattern", Top.depth + 1, After(AfterNot), "LikePattern")
  BY <1>1, FromTop, CallSlacks, FrameSlacks, AfterNotAhead
<1>3. QED  BY <1>1, <1>2, ResumeCall, PopFail DEF Like

LEMMA LikePatternKeepsInv == ASSUME Inv, LikePattern PROVE Inv'
  BY PopReturn, PopFail, AheadFacts DEF LikePattern, Returning

LEMMA BetweenKeepsInv == ASSUME Inv, Between PROVE Inv'
<1>1. stack # << >> /\ Top.pc = "PredicateOf"
  BY DEF Between, FollowedBy, Returning
<1>2. QED  BY <1>1, ScalarResumeCall, PopFail, FrameSlacks, AfterNotAhead DEF Between

LEMMA BetweenLowerKeepsInv == ASSUME Inv, BetweenLower PROVE Inv'
<1>1. stack # << >> /\ Top.pc = "BetweenLower"
  BY DEF BetweenLower, Returning
<1>2. QED  BY <1>1, ScalarResumeCall, FrameSlacks, AheadFacts, PopFail DEF BetweenLower

LEMMA BetweenUpperKeepsInv == ASSUME Inv, BetweenUpper PROVE Inv'
  BY PopReturn, PopFail, AheadFacts DEF BetweenUpper, Returning

LEMMA InKeepsInv == ASSUME Inv, In PROVE Inv'
<1>1. stack # << >> /\ Top.pc = "PredicateOf"
  BY DEF In, FollowedBy, Returning
<1>2. QED  BY <1>1, ScalarResumeCall, PopFail, FrameSlacks, AfterNotAhead DEF In

LEMMA InMoreKeepsInv == ASSUME Inv, InMore PROVE Inv'
<1>1. stack # << >> /\ Top.pc = "InMore"
  BY DEF InMore, Returning
<1>2. QED  BY <1>1, ScalarResumeCall, FrameSlacks, AheadFacts, PopFail, PopReturn DEF InMore

LEMMA IsNullKeepsInv == ASSUME Inv, IsNull PROVE Inv'
<1>1. stack # << >>
  BY DEF IsNull, FollowedBy, Returning
<1>2. QED  BY <1>1, PopReturn, PopFail, AheadFacts DEF IsNull, FinishIsNull

LEMMA NoPredicateKeepsInv == ASSUME Inv, NoPredicate PROVE Inv'
  BY PopReturn, PopFail, AheadFacts DEF NoPredicate, FollowedBy, Returning

-----------------------------------------------------------------------------
(* parsePattern                                                            *)

LEMMA PatternKeepsInv == ASSUME Inv, Pattern PROVE Inv'
<1>1. mode = "call" /\ depth <= cfg.maxDepth + 4 + pos /\ CallSlack(proc) <= 4
  BY Called, CallSlacks DEF Pattern, Calling
<1>2. depth \in Nat /\ cfg.maxDepth \in Nat /\ pos \in Nat /\ pos \in 1..Len(tokens)
  BY <1>1, Called
<1>3. ASSUME IsWord({"CASEI", "ACCENTI"}, pos)
      PROVE  MayPush("Pattern", depth + 1, After(After(pos)), "PatternDone", depth)
  <2>1. After(pos) = pos + 1 /\ After(pos) \in 1..Len(tokens)
    BY <1>1, <1>3, Called, Advancing DEF IsWord, Is
  <2>2. After(After(pos)) \in Ahead /\ After(After(pos)) \in Nat /\ pos + 1 <= After(After(pos))
    BY <1>1, <1>2, <2>1, Called, Advancing, AheadFacts
  <2>3. QED  BY <1>1, <1>2, <2>2, CallSlacks, FrameSlacks, SMTT(60) DEF MayPush
<1>4. QED  BY <1>1, <1>3, PushCall, ScalarTailCall, TailFail, AheadFacts DEF Pattern

LEMMA PatternDoneKeepsInv == ASSUME Inv, PatternDone PROVE Inv'
  BY PopReturn, PopFail, AheadFacts DEF PatternDone, Returning, FinishCall

-----------------------------------------------------------------------------
(* parseArithmeticExpression                                               *)

LEMMA ArithmeticExpressionKeepsInv == ASSUME Inv, ArithmeticExpression PROVE Inv'
<1>1. mode = "call" /\ depth <= cfg.maxDepth
  BY Checked DEF ArithmeticExpression, DepthChecked
<1>2. MayPush("ScalarPrimary", depth + 1, pos, "ArithmeticMore", depth) /\ minPrec \in Nat
  BY <1>1, FromChecked, CallSlacks, FrameSlacks, AheadFacts, Called
<1>3. QED  BY <1>2, PushCall DEF ArithmeticExpression

LEMMA ArithmeticMoreKeepsInv == ASSUME Inv, ArithmeticMore PROVE Inv'
<1>1. stack # << >> /\ Top.pc = "ArithmeticMore"
  BY DEF ArithmeticMore, Returning
<1>2. MayResume("Arithmetic", Top.depth + 1, After(pos), "ArithmeticMore")
  BY <1>1, FromTop, CallSlacks, FrameSlacks, AheadFacts
<1>3. \A op : RightPrecedence(op) \in Nat
  BY DEF RightPrecedence, Precedence
<1>4. QED  BY <1>1, <1>2, <1>3, ResumeCall, PopReturn, PopFail, AheadFacts DEF ArithmeticMore

-----------------------------------------------------------------------------
(* parseScalarPrimary                                                      *)

LEMMA PrimaryLiteralKeepsInv == ASSUME Inv, PrimaryLiteral PROVE Inv'
<1>1. mode = "call" /\ depth <= cfg.maxDepth
  BY Checked DEF PrimaryLiteral, DepthChecked
<1>2. QED  BY <1>1, TailReturn, TailFail, AheadFacts DEF PrimaryLiteral

LEMMA ArgumentsCall ==
    ASSUME NEW q, Inv, mode = "call", depth <= cfg.maxDepth, q \in Ahead, After(q) \in Ahead,
           EnterArguments(depth + 1, q)
    PROVE  Inv'
<1>1. MayPush("FunctionArg", depth + 1 + 1, q, "FunctionMore", depth + 1)
  <2>1. depth \in Nat /\ cfg.maxDepth \in Nat /\ pos \in Nat /\ q \in Nat
    BY Called, AfterAhead
  <2>2. /\ depth + 1 <= cfg.maxDepth + 1 + pos /\ depth + 1 + 1 <= cfg.maxDepth + 2 + q
        /\ depth + 1 \in Nat /\ depth + 1 + 1 \in Nat
        /\ depth <= depth + 1 /\ depth + 1 < depth + 1 + 1
    BY ONLY <2>1, depth <= cfg.maxDepth
  <2>3. QED  BY <2>2, CallSlacks, FrameSlacks DEF MayPush
<1>2. QED  BY <1>1, PushCall, TailReturn, TailFail DEF EnterArguments

LEMMA PrimaryNameKeepsInv == ASSUME Inv, PrimaryName PROVE Inv'
<1>1. mode = "call" /\ depth <= cfg.maxDepth
  BY Checked DEF PrimaryName, DepthChecked
<1>2. QED  BY <1>1, ArgumentsCall, TailReturn, TailFail, AheadFacts DEF PrimaryName, ReturnProperty

LEMMA PrimaryKeywordKeepsInv == ASSUME Inv, PrimaryKeyword PROVE Inv'
<1>1. mode = "call" /\ depth <= cfg.maxDepth
  BY Checked DEF PrimaryKeyword, DepthChecked
<1>2. MayCall("InstantFunction", depth + 1, pos)
  BY <1>1, FromChecked, CallSlacks, FrameSlacks, AheadFacts
<1>3. QED  BY <1>1, <1>2, TailCall, ArgumentsCall, TailReturn, TailFail, AheadFacts DEF PrimaryKeyword, ReturnProperty

LEMMA PrimarySignKeepsInv == ASSUME Inv, PrimarySign PROVE Inv'
<1>1. mode = "call" /\ depth <= cfg.maxDepth
  BY Checked DEF PrimarySign, DepthChecked
<1>2. MayPush("ScalarPrimary", depth + 1, After(pos), "SignDone", depth)
  BY <1>1, FromChecked, CallSlacks, FrameSlacks, AheadFacts
<1>3. QED  BY <1>1, <1>2, PushCall, TailFail, AheadFacts DEF PrimarySign

LEMMA SignDoneKeepsInv == ASSUME Inv, SignDone PROVE Inv'
  BY PopReturn, PopFail, AheadFacts DEF SignDone, Returning

LEMMA PrimaryGroupKeepsInv == ASSUME Inv, PrimaryGroup PROVE Inv'
<1>1. mode = "call" /\ depth <= cfg.maxDepth
  BY Checked DEF PrimaryGroup, DepthChecked
<1>2. MayPush("Arithmetic", depth + 1, After(pos), "GroupDone", depth)
  BY <1>1, FromChecked, CallSlacks, FrameSlacks, AheadFacts
<1>3. MayPush("ScalarPrimary", depth + 2, After(pos), "GroupDone", depth)
  BY <1>1, FromChecked, CallSlacks, FrameSlacks, AheadFacts
<1>4. QED  BY <1>1, <1>2, <1>3, PushCall, AheadFacts DEF PrimaryGroup

LEMMA GroupDoneKeepsInv == ASSUME Inv, GroupDone PROVE Inv'
  BY PopReturn, PopFail, AheadFacts DEF GroupDone, Returning

LEMMA PrimaryUnexpectedKeepsInv == ASSUME Inv, PrimaryUnexpected PROVE Inv'
  BY TailFail DEF PrimaryUnexpected

-----------------------------------------------------------------------------
(* finishFunction, parseFunctionArg                                        *)

LEMMA FunctionMoreKeepsInv == ASSUME Inv, FunctionMore PROVE Inv'
<1>1. stack # << >> /\ Top.pc = "FunctionMore"
  BY DEF FunctionMore, Returning
<1>2. MayResume("FunctionArg", Top.depth + 1, After(pos), "FunctionMore")
  BY <1>1, FromTop, CallSlacks, FrameSlacks, AheadFacts
<1>3. QED  BY <1>1, <1>2, ResumeCall, PopReturn, PopFail, AheadFacts DEF FunctionMore, FinishCall

LEMMA FunctionArgKeepsInv == ASSUME Inv, FunctionArg PROVE Inv'
<1>1. mode = "call" /\ depth <= cfg.maxDepth + 2 + pos
  BY Called, CallSlacks DEF FunctionArg, Calling
<1>2. depth \in Nat /\ cfg.maxDepth \in Nat /\ pos \in Nat
  BY <1>1, Called
<1>3. MayPush("Expression", depth + 1, pos, "ArgExpressionTry", depth)
  BY <1>1, <1>2, CallSlacks, FrameSlacks, AheadFacts DEF MayPush
<1>4. QED  BY <1>3, PushCall DEF FunctionArg

LEMMA ArgNotExpressionKeepsInv == ASSUME Inv, ArgNotExpression PROVE Inv'
<1>1. stack # << >> /\ Top.pc = "ArgExpressionTry"
  BY DEF ArgNotExpression, Failing
<1>2. /\ MayReplace("TemporalInstance", Top.depth + 1, Top.save)
      /\ MayReplace("GeometryLiteral", Top.depth + 1, Top.save)
  BY <1>1, Retry, CallSlacks, FrameSlacks
<1>3. \A op, acc : EnterScalar(Top.depth + 1, Top.save,
                               Append(Below, Resumed("ArgScalarTry", op, acc))) => Inv'
  BY <1>1, ScalarRetry, FrameSlacks
<1>4. QED  BY <1>1, <1>2, <1>3, ReplaceCall DEF ArgNotExpression

LEMMA ArgNotScalarKeepsInv == ASSUME Inv, ArgNotScalar PROVE Inv'
<1>1. stack # << >> /\ Top.pc = "ArgScalarTry"
  BY DEF ArgNotScalar, Failing
<1>2. MayReplace("ArrayLiteral", Top.depth + 1, Top.save)
  BY <1>1, Retry, CallSlacks, FrameSlacks
<1>3. QED  BY <1>1, <1>2, ReplaceCall, ScalarReplaceCall, FrameSlacks DEF ArgNotScalar

LEMMA TrySucceededKeepsInv == ASSUME Inv, TrySucceeded PROVE Inv'
  BY PopReturn, AheadFacts DEF TrySucceeded, Returning

-----------------------------------------------------------------------------
(* parseTemporalOperand, parseTemporalInstance, parseTemporalInterval      *)

LEMMA TemporalOperandKeepsInv == ASSUME Inv, TemporalOperand PROVE Inv'
<1>1. mode = "call" /\ depth <= cfg.maxDepth
  BY Checked DEF TemporalOperand, DepthChecked
<1>2. MayCall("ScalarPrimary", depth + 1, pos)
  BY <1>1, FromChecked, CallSlacks, FrameSlacks, AheadFacts
<1>3. MayCall("TemporalInstance", depth + 1, pos)
  BY <1>1, FromChecked, CallSlacks, FrameSlacks, AheadFacts
<1>4. QED  BY <1>1, <1>2, <1>3, TailCall, TailReturn, TailFail, AheadFacts DEF TemporalOperand, ReturnProperty

LEMMA TemporalInstanceKeepsInv == ASSUME Inv, TemporalInstance PROVE Inv'
<1>1. mode = "call" /\ depth <= cfg.maxDepth + 4 + pos
  BY Called, CallSlacks DEF TemporalInstance, Calling
<1>2. depth \in Nat /\ cfg.maxDepth \in Nat /\ pos \in Nat
  BY <1>1, Called
<1>3. MayCall("InstantFunction", depth + 1, pos) /\ MayCall("Interval", depth + 1, pos)
  BY <1>1, <1>2, CallSlacks, AheadFacts DEF MayCall
<1>4. QED  BY <1>3, TailCall, TailFail DEF TemporalInstance

LEMMA InstantFunctionKeepsInv == ASSUME Inv, InstantFunction PROVE Inv'
<1>1. mode = "call" /\ depth <= cfg.maxDepth
  BY Checked DEF InstantFunction, DepthChecked
<1>2. QED  BY <1>1, TailReturn, TailFail, AheadFacts DEF InstantFunction

LEMMA IntervalKeepsInv == ASSUME Inv, Interval PROVE Inv'
<1>1. mode = "call" /\ depth <= cfg.maxDepth
  BY Checked DEF Interval, DepthChecked
<1>2. MayPush("IntervalEndpoint", depth + 1, After(After(pos)), "IntervalStart", depth)
  BY <1>1, FromChecked, CallSlacks, FrameSlacks, AheadFacts
<1>3. QED  BY <1>1, <1>2, PushCall, TailFail, AheadFacts DEF Interval

LEMMA IntervalEndpointKeepsInv == ASSUME Inv, IntervalEndpoint PROVE Inv'
<1>1. mode = "call" /\ depth <= cfg.maxDepth
  BY Checked DEF IntervalEndpoint, DepthChecked
<1>2. MayCall("ScalarPrimary", depth + 1, pos)
  BY <1>1, FromChecked, CallSlacks, FrameSlacks, AheadFacts
<1>3. QED  BY <1>1, <1>2, TailCall, TailReturn, TailFail, AheadFacts DEF IntervalEndpoint

LEMMA IntervalStartKeepsInv == ASSUME Inv, IntervalStart PROVE Inv'
<1>1. stack # << >> /\ Top.pc = "IntervalStart"
  BY DEF IntervalStart, Returning
<1>2. MayResume("IntervalEndpoint", Top.depth + 1, After(pos), "IntervalEnd")
  BY <1>1, FromTop, CallSlacks, FrameSlacks, AheadFacts
<1>3. QED  BY <1>1, <1>2, ResumeCall, PopReturn, PopFail, AheadFacts DEF IntervalStart

LEMMA IntervalEndKeepsInv == ASSUME Inv, IntervalEnd PROVE Inv'
  BY PopReturn, PopFail, AheadFacts DEF IntervalEnd, Returning

-----------------------------------------------------------------------------
(* parseSpatialOperand, parseTextGeometryLiteral                           *)

LEMMA SpatialOperandKeepsInv == ASSUME Inv, SpatialOperand PROVE Inv'
<1>1. mode = "call" /\ depth <= cfg.maxDepth
  BY Checked DEF SpatialOperand, DepthChecked
<1>2. MayCall("GeometryLiteral", depth + 1, pos)
  BY <1>1, FromChecked, CallSlacks, FrameSlacks, AheadFacts
<1>3. MayCall("ScalarPrimary", depth + 1, pos)
  BY <1>1, FromChecked, CallSlacks, FrameSlacks, AheadFacts
<1>4. QED  BY <1>2, <1>3, TailCall DEF SpatialOperand

LEMMA OpeningAhead == ASSUME Inv PROVE Opening(pos) \in Ahead /\ After(Opening(pos)) \in Ahead
  BY AheadFacts DEF Opening

LEMMA GeometryDataKeepsInv == ASSUME Inv, GeometryData PROVE Inv'
<1>1. mode = "call"
  BY DEF GeometryData, Calling
<1>2. \A q \in DataEnds(pos) : After(q) \in Ahead
  <2>1. SUFFICES ASSUME NEW q \in DataEnds(pos) PROVE After(q) \in Ahead
    OBVIOUS
  <2>2. q \in Opening(pos) .. Len(tokens) /\ Opening(pos) \in Nat /\ pos <= Opening(pos)
    BY OpeningAhead, AfterAhead DEF DataEnds
  <2>3. pos \in Nat /\ Len(tokens) \in Nat
    BY <1>1, Called
  <2>4. q \in Ahead
    BY <2>2, <2>3 DEF Ahead
  <2>5. QED  BY <2>4, AfterAhead
<1>3. QED  BY <1>1, <1>2, TailReturn, TailFail DEF GeometryData

LEMMA GeometryCollectionKeepsInv == ASSUME Inv, GeometryCollection PROVE Inv'
<1>1. mode = "call" /\ depth <= cfg.maxDepth
  BY Checked DEF GeometryCollection, DepthChecked
<1>2. /\ depth \in Nat /\ cfg.maxDepth \in Nat /\ pos \in Nat /\ pos \in 1..Len(tokens)
      /\ After(Opening(pos)) \in Ahead /\ After(Opening(pos)) \in Nat
  BY <1>1, Called, OpeningAhead, AfterAhead
<1>3. MayPush("GeometryLiteral", depth + 2, After(Opening(pos)), "CollectionMore", depth + 1)
  BY <1>1, <1>2, CallSlacks, FrameSlacks, SMTT(60) DEF MayPush
<1>4. QED  BY <1>3, PushCall, TailFail DEF GeometryCollection

LEMMA CollectionMoreKeepsInv == ASSUME Inv, CollectionMore PROVE Inv'
<1>1. stack # << >> /\ Top.pc = "CollectionMore"
  BY DEF CollectionMore, Returning
<1>2. MayResume("GeometryLiteral", Top.depth + 1, After(pos), "CollectionMore")
  BY <1>1, FromTop, CallSlacks, FrameSlacks, AheadFacts
<1>3. QED  BY <1>1, <1>2, ResumeCall, PopReturn, PopFail, AheadFacts DEF CollectionMore

-----------------------------------------------------------------------------
(* parseSpatialPredicate, parseTemporalPredicate, parseArrayPredicate      *)

LEMMA PredicateLeftKeepsInv == ASSUME Inv, PredicateLeft PROVE Inv'
<1>1. stack # << >> /\ Top.pc = "PredicateLeft"
  BY DEF PredicateLeft, Returning
<1>2. /\ MayResume("SpatialOperand", Top.depth + 1, After(pos), "PredicateRight")
      /\ MayResume("TemporalOperand", Top.depth + 1, After(pos), "PredicateRight")
      /\ MayResume("ArrayOperand", Top.depth + 1, After(pos), "PredicateRight")
  BY <1>1, FromTop, CallSlacks, FrameSlacks, AheadFacts
<1>3. QED  BY <1>1, <1>2, ResumeCall, PopFail DEF PredicateLeft, OperandProc

LEMMA PredicateRightKeepsInv == ASSUME Inv, PredicateRight PROVE Inv'
  BY PopReturn, PopFail, AheadFacts DEF PredicateRight, Returning

-----------------------------------------------------------------------------
(* parseArrayOperand, parseArrayLiteral, parseArrayElement                 *)

LEMMA ArrayOperandKeepsInv == ASSUME Inv, ArrayOperand PROVE Inv'
<1>1. mode = "call" /\ depth <= cfg.maxDepth
  BY Checked DEF ArrayOperand, DepthChecked
<1>2. MayCall("ArrayLiteral", depth + 1, pos)
  BY <1>1, FromChecked, CallSlacks, FrameSlacks, AheadFacts
<1>3. MayCall("ScalarPrimary", depth + 1, pos)
  BY <1>1, FromChecked, CallSlacks, FrameSlacks, AheadFacts
<1>4. QED  BY <1>1, <1>2, <1>3, TailCall, AheadFacts DEF ArrayOperand

LEMMA ArrayLiteralKeepsInv == ASSUME Inv, ArrayLiteral PROVE Inv'
<1>1. mode = "call" /\ depth <= cfg.maxDepth
  BY Checked DEF ArrayLiteral, DepthChecked
<1>2. MayPush("ArrayElement", depth + 1, After(pos), "ArrayMore", depth)
  BY <1>1, FromChecked, CallSlacks, FrameSlacks, AheadFacts
<1>3. QED  BY <1>1, <1>2, PushCall, TailReturn, TailFail, AheadFacts DEF ArrayLiteral

LEMMA ArrayMoreKeepsInv == ASSUME Inv, ArrayMore PROVE Inv'
<1>1. stack # << >> /\ Top.pc = "ArrayMore"
  BY DEF ArrayMore, Returning
<1>2. MayResume("ArrayElement", Top.depth + 1, After(pos), "ArrayMore")
  BY <1>1, FromTop, CallSlacks, FrameSlacks, AheadFacts
<1>3. QED  BY <1>1, <1>2, ResumeCall, PopReturn, PopFail, AheadFacts DEF ArrayMore

LEMMA ArrayElementKeepsInv == ASSUME Inv, ArrayElement PROVE Inv'
<1>1. mode = "call" /\ depth <= cfg.maxDepth + 1 + pos
  BY Called, CallSlacks DEF ArrayElement, Calling
<1>2. depth \in Nat /\ cfg.maxDepth \in Nat /\ pos \in Nat
  BY <1>1, Called
<1>3. MayPush("Expression", depth + 1, pos, "ElementTry", depth)
  BY <1>1, <1>2, CallSlacks, FrameSlacks, AheadFacts DEF MayPush
<1>4. MayCall("ArrayLiteral", depth + 1, pos)
  BY <1>1, <1>2, CallSlacks, AheadFacts DEF MayCall
<1>5. QED  BY <1>3, <1>4, PushCall, TailCall DEF ArrayElement

LEMMA ElementNotExpressionKeepsInv == ASSUME Inv, ElementNotExpression PROVE Inv'
<1>1. stack # << >> /\ Top.pc = "ElementTry"
  BY DEF ElementNotExpression, Failing
<1>2. /\ MayReplace("TemporalInstance", Top.depth + 1, Top.save)
      /\ MayReplace("GeometryLiteral", Top.depth + 1, Top.save)
  BY <1>1, Retry, CallSlacks, FrameSlacks
<1>3. QED  BY <1>1, <1>2, ReplaceCall, ScalarReplaceCall, FrameSlacks DEF ElementNotExpression

-----------------------------------------------------------------------------
(* The remaining actions.                                                  *)

LEMMA MaximumDepthExceededKeepsInv == ASSUME Inv, MaximumDepthExceeded PROVE Inv'
  BY TailFail DEF MaximumDepthExceeded

LEMMA PropagateKeepsInv == ASSUME Inv, Propagate PROVE Inv'
  BY PopFail DEF Propagate

\* Where nothing but the mode changes, and not to a call.
LEMMA ModeChange ==
    ASSUME Inv, mode' \in Modes \ {"call"},
           UNCHANGED <<tokens, cfg, pos, proc, depth, minPrec, node, stack>>
    PROVE  Inv'
<1>1. TypeOK'
  BY DEF Inv, TypeOK
<1>2. StackOK(stack, pos)'
  BY DEF Inv, StackOK, FrameOK
<1>3. QED  BY <1>1, <1>2 DEF Inv

LEMMA FinishKeepsInv == ASSUME Inv, Finish PROVE Inv'
  BY ModeChange DEF Finish, Modes

LEMMA StutterKeepsInv == ASSUME Inv, UNCHANGED vars PROVE Inv'
<1>1. TypeOK'
  BY DEF Inv, TypeOK, vars
<1>2. StackOK(stack, pos)'
  BY DEF Inv, StackOK, FrameOK, vars
<1>3. QED  BY <1>1, <1>2 DEF Inv, vars

-----------------------------------------------------------------------------
(* The theorems.                                                           *)

LEMMA InitInv == Init => Inv
<1> SUFFICES ASSUME Init PROVE Inv
  OBVIOUS
<1>0. tokens \in Inputs /\ cfg \in Configs
  BY DEF Init, Inputs, Configs
<1>1. Len(tokens) \in Nat /\ Len(tokens) >= 1 /\ cfg.maxDepth \in Nat
  BY <1>0, InputsAssumption, ConfigsAssumption
<1>2. TypeOK
  BY <1>0, <1>1 DEF Init, TypeOK, Modes, Procs, DepthChecked
<1>3. StackOK(stack, pos)
  BY DEF Init, StackOK
<1>4. CallSlack(proc) \in Nat
  BY DEF CallSlack
<1>5. QED  BY <1>1, <1>2, <1>3, <1>4 DEF Init, Inv

LEMMA StepKeepsInv == ASSUME Inv, Step PROVE Inv'
  BY MaximumDepthExceededKeepsInv, FinishKeepsInv, PropagateKeepsInv,
     ExpressionKeepsInv, OrMoreKeepsInv, AndMoreKeepsInv, NotKeepsInv, NotDoneKeepsInv,
     PrimaryPredicateKeepsInv, PrimaryIntervalKeepsInv, PrimaryGeometryKeepsInv,
     IntervalIsKeepsInv,
     PrimaryParenKeepsInv, ParenIsExpressionKeepsInv, ParenIsScalarKeepsInv,
     PrimaryScalarKeepsInv, ComparisonKeepsInv, ComparisonRightKeepsInv,
     ArithmeticDisabledKeepsInv, LikeKeepsInv, LikePatternKeepsInv, BetweenKeepsInv,
     BetweenLowerKeepsInv, BetweenUpperKeepsInv, InKeepsInv, InMoreKeepsInv,
     IsNullKeepsInv, NoPredicateKeepsInv, PatternKeepsInv, PatternDoneKeepsInv,
     ArithmeticExpressionKeepsInv, ArithmeticMoreKeepsInv, PrimaryLiteralKeepsInv,
     PrimaryNameKeepsInv, PrimaryKeywordKeepsInv, PrimarySignKeepsInv, SignDoneKeepsInv,
     PrimaryGroupKeepsInv, GroupDoneKeepsInv, PrimaryUnexpectedKeepsInv,
     FunctionMoreKeepsInv, FunctionArgKeepsInv, ArgNotExpressionKeepsInv,
     ArgNotScalarKeepsInv, TrySucceededKeepsInv, TemporalOperandKeepsInv,
     TemporalInstanceKeepsInv, InstantFunctionKeepsInv, IntervalKeepsInv,
     IntervalEndpointKeepsInv, IntervalStartKeepsInv, IntervalEndKeepsInv,
     PredicateLeftKeepsInv, PredicateRightKeepsInv, ArrayOperandKeepsInv,
     ArrayLiteralKeepsInv, ArrayMoreKeepsInv, ArrayElementKeepsInv,
     ElementNotExpressionKeepsInv, SpatialOperandKeepsInv, GeometryDataKeepsInv,
     GeometryCollectionKeepsInv, CollectionMoreKeepsInv
     DEF Step

\* Every reachable state satisfies the inductive invariant: positions are
\* inside the token sequence, the frames are ordered by the position they
\* started at, and depths stay below the limit plus the tokens read.
THEOREM Invariance == Spec => []Inv
<1>1. Init => Inv
  BY InitInv
<1>2. Inv /\ [Next]_vars => Inv'
  BY StepKeepsInv, StutterKeepsInv DEF Next, Terminated
<1>3. QED
  BY <1>1, <1>2, PTL DEF Spec

\* Backtracking goes back, and no further than the enclosing procedure.
THEOREM SavesStayOrdered == Spec => []SavesOrdered
<1>1. Inv => SavesOrdered
  <2> SUFFICES ASSUME Inv PROVE SavesOrdered
    OBVIOUS
  <2>1. \A i \in 1..Len(stack) : FrameOK(stack[i]) /\ stack[i].save <= pos
    BY DEF Inv, StackOK
  <2>2. pos \in Nat /\ Len(tokens) \in Nat
    BY TokensLength DEF Inv, TypeOK
  <2>3. \A i \in 1..Len(stack) : stack[i].save \in 1..pos
    BY <2>1, <2>2 DEF FrameOK
  <2>4. QED  BY <2>3 DEF SavesOrdered, Inv, StackOK
<1>2. QED
  BY <1>1, Invariance, PTL

\* The recursion of the parser is bounded, whatever the input.
THEOREM RecursionStaysBounded == Spec => []RecursionBounded
<1>1. Inv => RecursionBounded
  <2> SUFFICES ASSUME Inv PROVE RecursionBounded
    OBVIOUS
  <2>1. depth <= cfg.maxDepth + Len(tokens) + 6
    BY DEF Inv
  <2>2. Len(tokens) \in Nat /\ cfg.maxDepth \in Nat
    BY TokensLength, MaxDepthNat DEF Inv
  <2>3. CASE stack = << >>
    BY <2>1, <2>2, <2>3 DEF RecursionBounded
  <2>4. CASE stack # << >>
    <3>1. /\ Top.depth <= cfg.maxDepth + FrameSlack(Top.pc) + Top.save
          /\ Top.save \in 1..Len(tokens) /\ Top.depth \in Nat
      BY <2>4, TopFacts
    <3>2. Len(stack) \in Nat /\ Len(stack) - 1 <= Top.depth
      BY <2>2, <2>4, Popping DEF Inv, TypeOK
    <3>3. FrameSlack(Top.pc) \in 0..4
      BY DEF FrameSlack
    <3>4. Len(stack) <= cfg.maxDepth + Len(tokens) + 5
      BY ONLY <2>2, <3>1, <3>2, <3>3, SMTT(60)
    <3>5. QED  BY <2>1, <3>4 DEF RecursionBounded
  <2>5. QED  BY <2>3, <2>4
<1>2. QED
  BY <1>1, Invariance, PTL
=============================================================================
