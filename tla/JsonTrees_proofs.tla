--------------------------- MODULE JsonTrees_proofs --------------------------
(***************************************************************************)
(* The bound of the JSON parser's recursion, and what a tree it accepts    *)
(* promises, for every set of documents, every configuration and every     *)
(* limit.                                                                  *)
(***************************************************************************)
EXTENDS JsonTrees, Trees_proofs

-----------------------------------------------------------------------------
(* Stacks and paths.                                                       *)

LEMMA SeqOfElements ==
    ASSUME NEW S, NEW s \in Seq(S)
    PROVE  s \in Seq({s[i] : i \in DOMAIN s})
  OBVIOUS

LEMMA AppendFacts ==
    ASSUME NEW S, NEW s \in Seq(S), NEW e
    PROVE  /\ Append(s, e) \in Seq({Append(s, e)[i] : i \in DOMAIN Append(s, e)})
           /\ Len(s) \in Nat /\ Len(Append(s, e)) = Len(s) + 1
           /\ \A i \in 1..Len(s) : Append(s, e)[i] = s[i]
           /\ Append(s, e)[Len(s) + 1] = e
<1>1. s \in Seq(S \cup {e})
  OBVIOUS
<1>2. Append(s, e) \in Seq(S \cup {e})
  BY <1>1
<1>3. QED  BY <1>1, <1>2, SeqOfElements

\* A path is extended by one or by two components.
IsPath(p) == p \in Seq({p[i] : i \in DOMAIN p})

LEMMA Longer ==
    ASSUME NEW p, IsPath(p), NEW k
    PROVE  IsPath(Append(p, k)) /\ Len(p) \in Nat /\ Len(Append(p, k)) = Len(p) + 1
<1> DEFINE S == {p[i] : i \in DOMAIN p}
<1>1. p \in Seq(S)
  BY DEF IsPath
<1> HIDE DEF S
<1>2. QED  BY <1>1, AppendFacts DEF IsPath

LEMMA ArgPathLonger ==
    ASSUME NEW p, IsPath(p), NEW i
    PROVE  /\ IsPath(ArgPath(p, i)) /\ Len(p) \in Nat
           /\ Len(ArgPath(p, i)) = Len(p) + 2
<1> DEFINE S == {p[j] : j \in DOMAIN p} \cup {Key("args"), Index(i)}
<1>1. p \in Seq(S) /\ <<Key("args"), Index(i)>> \in Seq(S)
  BY DEF IsPath
<1>2. Len(<<Key("args"), Index(i)>>) = 2
  OBVIOUS
<1> HIDE DEF S
<1>3. p \o <<Key("args"), Index(i)>> \in Seq(S)
  BY <1>1
<1>4. Len(p \o <<Key("args"), Index(i)>>) = Len(p) + 2
  BY <1>1, <1>2
<1>5. ArgPath(p, i) \in Seq(S) /\ Len(ArgPath(p, i)) = Len(p) + 2
  BY <1>3, <1>4 DEF ArgPath
<1>6. Len(p) \in Nat
  BY <1>1
<1>7. QED  BY <1>5, <1>6, SeqOfElements DEF IsPath

LEMMA Pushing ==
    ASSUME NEW st, StackOK(st), NEW f, FrameOK(f, Len(st) + 1)
    PROVE  StackOK(Append(st, f)) /\ Len(st) \in Nat /\ Len(Append(st, f)) = Len(st) + 1
<1> DEFINE S == {st[i] : i \in DOMAIN st}
<1>1. st \in Seq(S) /\ \A n \in 1..Len(st) : FrameOK(st[n], n)
  BY DEF StackOK
<1> HIDE DEF S
<1>2. /\ Append(st, f) \in Seq({Append(st, f)[i] : i \in DOMAIN Append(st, f)})
      /\ Len(st) \in Nat /\ Len(Append(st, f)) = Len(st) + 1
      /\ \A i \in 1..Len(st) : Append(st, f)[i] = st[i]
      /\ Append(st, f)[Len(st) + 1] = f
  BY <1>1, AppendFacts
<1>3. \A n \in 1..Len(st) + 1 : FrameOK(Append(st, f)[n], n)
  BY <1>1, <1>2
<1>4. QED  BY <1>2, <1>3 DEF StackOK

LEMMA Popping ==
    ASSUME StackOK(stack), stack # << >>
    PROVE  /\ Len(stack) \in Nat \ {0}
           /\ FrameOK(Top, Len(stack))
           /\ StackOK(Below)
           /\ Len(Below) = Len(stack) - 1
<1> DEFINE S == {stack[i] : i \in DOMAIN stack}
           n == Len(stack) - 1
<1>1. stack \in Seq(S)
  BY DEF StackOK
<1>2. n \in Nat /\ Len(stack) = n + 1
  BY <1>1
<1>3. \A i \in 1..n : stack[i] \in S
  BY <1>1, <1>2
<1>4. \A i \in 1..n+1 : FrameOK(stack[i], i)
  BY <1>2 DEF StackOK
<1>5. Below = SubSeq(stack, 1, n) /\ Top = stack[n + 1]
  BY <1>2 DEF Below, Top
<1> HIDE DEF S, n
<1>6. /\ SubSeq(stack, 1, n) \in Seq(S)
      /\ Len(SubSeq(stack, 1, n)) = IF 1 <= n THEN n - 1 + 1 ELSE 0
      /\ \A i \in 1 .. n - 1 + 1 : SubSeq(stack, 1, n)[i] = stack[1 + i - 1]
  <2>1. n \in Int /\ 1 \in Int  BY <1>2
  <2>2. QED  BY ONLY <1>3, <2>1, SubSeqProperties
<1>7. /\ Below \in Seq(S)
      /\ Len(Below) = n
      /\ \A i \in 1..n : Below[i] = stack[i]
  <2>1. n - 1 + 1 = n  BY <1>2
  <2>2. \A i \in 1..n : 1 + i - 1 = i  BY <1>2
  <2>3. \A i \in 1..n : SubSeq(stack, 1, n)[i] = stack[i]  BY <1>6, <2>1, <2>2
  <2>4. Len(SubSeq(stack, 1, n)) = n  BY <1>2, <1>6, <2>1
  <2>5. QED  BY <1>5, <1>6, <2>3, <2>4
<1>8. Below \in Seq({Below[i] : i \in DOMAIN Below})
  BY <1>7, SeqOfElements
<1>9. \A i \in 1..n : FrameOK(Below[i], i)
  BY <1>2, <1>4, <1>7
<1>10. QED
  BY <1>2, <1>4, <1>5, <1>7, <1>8, <1>9, SMTT(30) DEF StackOK

-----------------------------------------------------------------------------
(* Levels.                                                                 *)

LEMMA Levels ==
    /\ \A pr \in {"Expression", "Scalar", "Pattern", "TemporalInstance", "Endpoint", "ArrayLiteral",
                  "Geometry", "IsNullOperand", "Node"} : pr \in Procs /\ Ahead(pr) = 0
    /\ \A pr \in {"TemporalOperand", "SpatialOperand", "ArrayOperand", "Character", "Numeric"} :
           pr \in Procs /\ Ahead(pr) = 1
    /\ "Interval" \in Procs /\ Ahead("Interval") = -1
    /\ Pending("Expression") = 0
    /\ \A pr \in {"Scalar", "Pattern", "TemporalInstance", "Interval", "Endpoint", "ArrayLiteral",
                  "Geometry"} : Pending(pr) = 1
    /\ \A pr \in {"TemporalOperand", "SpatialOperand", "ArrayOperand", "Character", "Numeric",
                  "IsNullOperand", "Node"} : Pending(pr) = 2
<1>1. DOMAIN OperandOf = {"Character", "Numeric"}
  BY DEF OperandOf
<1>2. DOMAIN Alternatives = {"TemporalOperand", "SpatialOperand", "ArrayOperand", "IsNullOperand", "Node"}
  BY DEF Alternatives
<1>3. QED
  BY <1>1, <1>2 DEF Procs, DepthChecked, Ahead, Pending

\* What holds of every procedure.
LEMMA AnyLevel ==
    \A pr \in Procs : Ahead(pr) \in -1..1 /\ Pending(pr) \in 0..2
  BY DEF Ahead, Pending

\* The calls a procedure makes with the arguments of an operation.
LEMMA ArgumentOK ==
    ASSUME NEW i, NEW pr \in Procs, NEW d \in Nat, NEW n \in Nat,
           IsPath(path), d + Ahead(pr) <= Len(path) + 2, n + Pending(pr) <= 2 * Len(path) + 4
    PROVE  CallOK(Argument(i, pr, d), n)
<1> DEFINE p == ArgPath(path, i - 1)
<1>1. IsPath(p) /\ Len(path) \in Nat /\ Len(p) = Len(path) + 2
  BY ArgPathLonger
<1>2. /\ Argument(i, pr, d).proc = pr /\ Argument(i, pr, d).depth = d
      /\ Argument(i, pr, d).path = p
  BY DEF Argument, Call
<1> HIDE DEF p
<1>3. 2 * Len(p) = 2 * Len(path) + 4
  BY <1>1
<1>4. QED
  BY <1>1, <1>2, <1>3 DEF CallOK, IsPath

\* The calls it makes with the items of a list at the path p.
LEMMA ItemsOK ==
    ASSUME NEW v, NEW pr \in Procs, NEW p, IsPath(p), NEW d \in Nat, NEW n \in Nat,
           d + Ahead(pr) <= Len(p) + 1, n + Pending(pr) <= 2 * Len(p) + 2
    PROVE  \A i \in DOMAIN Items(v, pr, p, d) : CallOK(Items(v, pr, p, d)[i], n)
<1> SUFFICES ASSUME NEW i \in DOMAIN v.items
             PROVE  CallOK(Call(pr, v.items[i], Append(p, Index(i - 1)), d), n)
  BY DEF Items
<1> DEFINE q == Append(p, Index(i - 1))
<1>1. IsPath(q) /\ Len(p) \in Nat /\ Len(q) = Len(p) + 1
  BY Longer
<1> HIDE DEF q
<1>2. 2 * Len(q) = 2 * Len(p) + 2
  BY <1>1
<1>3. QED
  BY <1>1, <1>2 DEF CallOK, IsPath, Call, q

-----------------------------------------------------------------------------
(* Steps.                                                                  *)

\* What Enter, Return, Fail and Continue need of the state they change, and
\* what they leave.
Settled ==
    /\ input \in Inputs /\ cfg \in Configs
    /\ proc \in Procs /\ depth \in Nat

LEMMA Entering ==
    ASSUME Settled, NEW st, StackOK(st), NEW c, CallOK(c, Len(st)), Enter(c, st)
    PROVE  Inv'
<1>1. /\ input' \in Inputs /\ cfg' \in Configs /\ mode' = "call" /\ stack' = st
      /\ proc' = c.proc /\ depth' = c.depth /\ path' = c.path
  BY DEF Enter, Settled
<1>2. c.proc \in Procs /\ c.depth \in Nat
  BY DEF CallOK
<1>3. TypeOK'
  BY <1>1, <1>2 DEF TypeOK
<1>4. CallOK(Call(proc', val', path', depth'), Len(stack'))
  BY <1>1 DEF CallOK, Call
<1>5. QED
  BY <1>1, <1>3, <1>4 DEF Inv

LEMMA Leaving ==
    ASSUME Settled, NEW st, StackOK(st),
           \/ \E n : Return(n, st)
           \/ Fail(st)
    PROVE  Inv'
<1>1. /\ input' \in Inputs /\ cfg' \in Configs /\ mode' \in {"return", "fail"} /\ stack' = st
      /\ proc' \in Procs /\ depth' \in Nat
  BY DEF Return, Fail, Settled
<1>2. TypeOK'
  BY <1>1 DEF TypeOK
<1>3. QED
  BY <1>1, <1>2 DEF Inv

LEMMA Continuing ==
    ASSUME Settled, NEW st, StackOK(st), NEW f, FrameOK(f, Len(st) + 1),
           f.pc = "Try" => f.next \in DOMAIN f.calls,
           Continue(f, st)
    PROVE  Inv'
<1>1. StackOK(Append(st, f)) /\ Len(st) \in Nat /\ Len(Append(st, f)) = Len(st) + 1
  BY Pushing
<1>2. CASE f.next \in DOMAIN f.calls
  <2>1. CallOK(f.calls[f.next], Len(Append(st, f)))
    BY <1>1, <1>2 DEF FrameOK
  <2>2. Enter(f.calls[f.next], Append(st, f))
    BY <1>2 DEF Continue
  <2>3. QED
    BY <1>1, <2>1, <2>2, Entering
<1>3. CASE f.next \notin DOMAIN f.calls
  <2>1. /\ input' \in Inputs /\ cfg' \in Configs /\ mode' = "complete" /\ stack' = Append(st, f)
        /\ proc' \in Procs /\ depth' \in Nat
    BY <1>3 DEF Continue, Settled
  <2>2. Append(st, f)[Len(st) + 1] = f
    BY <1>1, AppendFacts DEF StackOK
  <2>3. Append(st, f) # << >> /\ Append(st, f)[Len(Append(st, f))].pc # "Try"
    BY <1>1, <1>3, <2>2
  <2>4. TypeOK'
    BY <2>1, <2>3 DEF TypeOK, Top
  <2>5. QED
    BY <1>1, <2>1, <2>4 DEF Inv
<1>4. QED  BY <1>2, <1>3

\* A new frame over st.
LEMMA Framing ==
    ASSUME NEW pc \in FramePcs, NEW op, NEW calls, NEW n,
           \A i \in DOMAIN calls : CallOK(calls[i], n)
    PROVE  /\ FrameOK(Frame(pc, op, calls), n)
           /\ Frame(pc, op, calls).pc = pc /\ Frame(pc, op, calls).next = 1
           /\ Frame(pc, op, calls).calls = calls
  BY DEF FrameOK, Frame

\* A frame of which no call is an alternative.
LEMMA Operation ==
    ASSUME Settled, NEW st, StackOK(st), NEW pc \in FramePcs \ {"Try"}, NEW op, NEW calls,
           \A i \in DOMAIN calls : CallOK(calls[i], Len(st) + 1),
           Continue(Frame(pc, op, calls), st)
    PROVE  Inv'
  BY Framing, Continuing

-----------------------------------------------------------------------------
(* The calls.                                                              *)

LEMMA Called ==
    ASSUME Inv, mode = "call"
    PROVE  /\ Settled /\ StackOK(stack) /\ IsPath(path)
           /\ Len(path) \in Nat /\ Len(stack) \in Nat
           /\ depth + Ahead(proc) <= Len(path)
           /\ Len(stack) + Pending(proc) <= 2 * Len(path)
<1>1. CallOK(Call(proc, val, path, depth), Len(stack))
  BY DEF Inv
<1>2. IsPath(path)
  BY <1>1 DEF CallOK, Call, IsPath
<1>3. Len(path) \in Nat
  BY <1>2 DEF IsPath
<1>4. Len(stack) \in Nat
  BY DEF Inv, StackOK
<1>5. QED
  BY <1>1, <1>2, <1>3, <1>4 DEF Inv, TypeOK, Settled, CallOK, Call

LEMMA Called0 ==
    ASSUME Inv, mode = "call",
           proc \in {"Expression", "Scalar", "Pattern", "TemporalInstance", "Endpoint",
                     "ArrayLiteral", "Geometry", "IsNullOperand", "Node"}
    PROVE  depth <= Len(path)
  BY Called, Levels DEF Settled

LEMMA Called1 ==
    ASSUME Inv, mode = "call",
           proc \in {"Scalar", "Pattern", "TemporalInstance", "Interval", "Endpoint",
                     "ArrayLiteral", "Geometry"}
    PROVE  Len(stack) + 1 <= 2 * Len(path)
  BY Called, Levels DEF Settled

LEMMA Called2 ==
    ASSUME Inv, mode = "call",
           proc \in {"TemporalOperand", "SpatialOperand", "ArrayOperand", "Character", "Numeric",
                     "IsNullOperand", "Node"}
    PROVE  Len(stack) + 2 <= 2 * Len(path)
  BY Called, Levels DEF Settled

LEMMA CalledNat ==
    ASSUME Inv, mode = "call"
    PROVE  depth \in Nat /\ Len(path) \in Nat /\ Len(stack) \in Nat /\ Len(stack) <= 2 * Len(path)
           /\ depth <= Len(path) + 1
<1>1. proc \in Procs /\ depth \in Nat
  BY Called DEF Settled
<1>2. Ahead(proc) \in -1..1 /\ Pending(proc) \in 0..2
  BY <1>1, AnyLevel
<1>3. QED  BY <1>1, <1>2, Called

\* The operations that read their arguments in order.
LEMMA Operating ==
    ASSUME Inv, mode = "call", NEW pc \in FramePcs \ {"Try"}, NEW op, NEW pr \in Procs,
           depth <= Len(path),
           Continue(Frame(pc, op, Arguments(pr, depth + 1)), stack)
    PROVE  Inv'
<1>1. Settled /\ StackOK(stack) /\ IsPath(path)
  BY Called
<1>2. depth \in Nat /\ Len(path) \in Nat /\ Len(stack) \in Nat /\ Len(stack) <= 2 * Len(path)
  BY CalledNat
<1>3. Ahead(pr) \in -1..1 /\ Pending(pr) \in 0..2
  BY AnyLevel
<1> DEFINE d == depth + 1
           n == Len(stack) + 1
<1>4. d \in Nat /\ n \in Nat /\ d + Ahead(pr) <= Len(path) + 2 /\ n + Pending(pr) <= 2 * Len(path) + 4
  BY <1>2, <1>3
<1> HIDE DEF d, n
<1>5. \A i : CallOK(Argument(i, pr, d), n)
  BY <1>1, <1>4, ArgumentOK
<1>6. \A i \in DOMAIN Arguments(pr, d) : CallOK(Arguments(pr, d)[i], n)
  BY <1>5 DEF Arguments
<1>7. QED
  BY <1>1, <1>6, Operation DEF d, n

\* A function's arguments may be read below one more frame, and a level deeper.
LEMMA Calls ==
    ASSUME Inv, mode = "call", NEW d \in Nat, d <= Len(path) + 1, NEW n \in Nat, n <= 2 * Len(path) + 2,
           NEW pr \in Procs, Ahead(pr) <= 1 /\ (d = Len(path) + 1 => Ahead(pr) <= 0)
    PROVE  \A i \in DOMAIN Arguments(pr, d + 1) : CallOK(Arguments(pr, d + 1)[i], n)
<1>1. IsPath(path) /\ Len(path) \in Nat
  BY Called
<1>2. Ahead(pr) \in -1..1 /\ Pending(pr) \in 0..2
  BY AnyLevel
<1> DEFINE e == d + 1
<1>3. e \in Nat /\ e + Ahead(pr) <= Len(path) + 2 /\ n + Pending(pr) <= 2 * Len(path) + 4
  BY <1>1, <1>2
<1> HIDE DEF e
<1>4. \A i : CallOK(Argument(i, pr, e), n)
  BY <1>1, <1>3, ArgumentOK
<1>5. QED
  BY <1>4 DEF Arguments, e

LEMMA Functions ==
    ASSUME Inv, mode = "call", NEW d \in Nat, d <= Len(path) + 1,
           \/ Function(d, stack)
           \/ \E want : FunctionOf(want, d)
    PROVE  Inv'
<1>1. Settled /\ StackOK(stack) /\ Len(stack) \in Nat /\ Len(path) \in Nat
  BY Called
<1>2. Len(stack) <= 2 * Len(path)
  BY CalledNat
<1>3. "Node" \in Procs /\ Ahead("Node") = 0
  BY Levels
<1>4. ASSUME NEW st, StackOK(st), Len(st) \in Nat, Len(st) <= Len(stack) + 1, Function(d, st)
      PROVE  Inv'
  <2>1. \A i \in DOMAIN Arguments("Node", d + 1) : CallOK(Arguments("Node", d + 1)[i], Len(st) + 1)
    BY <1>1, <1>2, <1>3, <1>4, Calls
  <2>2. "Function" \in FramePcs \ {"Try"}
    BY DEF FramePcs
  <2>3. QED
    BY <1>1, <1>4, <2>1, <2>2, Operation DEF Function
<1>5. ASSUME NEW want, FunctionOf(want, d)
      PROVE  Inv'
  <2> DEFINE f == Frame("Wanted", want, << >>)
  <2>1. FrameOK(f, Len(stack) + 1)
    <3>1. "Wanted" \in FramePcs
      BY DEF FramePcs
    <3>2. \A i \in DOMAIN << >> : CallOK(<< >>[i], Len(stack) + 1)
      OBVIOUS
    <3>3. QED  BY <3>1, <3>2, Framing
  <2> HIDE DEF f
  <2>2. StackOK(Append(stack, f)) /\ Len(Append(stack, f)) = Len(stack) + 1
    BY <1>1, <2>1, Pushing
  <2>3. Function(d, Append(stack, f))
    BY <1>5 DEF FunctionOf, f
  <2> DEFINE st == Append(stack, f)
  <2>4. StackOK(st) /\ Len(st) \in Nat /\ Len(st) <= Len(stack) + 1 /\ Function(d, st)
    BY <1>1, <2>2, <2>3
  <2> HIDE DEF st
  <2>5. QED
    BY <1>4, <2>4
<1>6. QED
  BY <1>1, <1>4, <1>5

LEMMA Operations ==
    ASSUME Inv, mode = "call", NEW d \in Nat, d <= Len(path),
           Cast(d, stack) \/ Arithmetics(d, stack)
    PROVE  Inv'
<1>1. Settled /\ StackOK(stack) /\ Len(stack) \in Nat /\ Len(path) \in Nat
  BY Called
<1>2. Len(stack) <= 2 * Len(path)
  BY CalledNat
<1>3. \A pr \in {"Character", "Numeric"} : pr \in Procs /\ Ahead(pr) = 1
  BY Levels
<1>4. \A pr \in {"Character", "Numeric"} :
         \A i \in DOMAIN Arguments(pr, d + 1) : CallOK(Arguments(pr, d + 1)[i], Len(stack) + 1)
  BY <1>1, <1>2, <1>3, Calls
<1>5. {"Function", "Arithmetic"} \subseteq FramePcs \ {"Try"}
  BY DEF FramePcs
<1>6. CASE Fail(stack)
  BY <1>1, <1>6, Leaving
<1>7. CASE Continue(Frame("Function", Folded(OpName(val)), Arguments("Character", d + 1)), stack)
  BY <1>1, <1>4, <1>5, <1>7, Operation
<1>8. CASE Continue(Frame("Arithmetic", Folded(OpName(val)), Arguments("Numeric", d + 1)), stack)
  BY <1>1, <1>4, <1>5, <1>8, Operation
<1>9. QED
  BY <1>6, <1>7, <1>8 DEF Cast, Arithmetics

-----------------------------------------------------------------------------
(* The actions.                                                            *)

LEMMA Control ==
    ASSUME Inv,
           MaximumDepthExceeded \/ Finish \/ Collect \/ Unwind
             \/ AlternativeSucceeded \/ AlternativeFailed
    PROVE  Inv'
<1>1. Settled /\ StackOK(stack)
  BY DEF Inv, TypeOK, Settled
<1>2. CASE MaximumDepthExceeded
  BY <1>1, <1>2, Leaving DEF MaximumDepthExceeded
<1>3. CASE Finish
  <2>1. mode' \in {"accepted", "rejected"} /\ UNCHANGED <<input, cfg, proc, val, path, depth, node, stack>>
    BY <1>3 DEF Finish
  <2>2. QED
    BY <1>1, <2>1 DEF Inv, TypeOK, Settled
<1>4. ASSUME stack # << >>
      PROVE  /\ StackOK(Below) /\ FrameOK(Top, Len(Below) + 1)
             /\ \A acc : FrameOK(Advanced(Top, acc), Len(Below) + 1)
  <2>1. Len(stack) \in Nat \ {0} /\ FrameOK(Top, Len(stack)) /\ StackOK(Below) /\ Len(Below) = Len(stack) - 1
    BY <1>1, <1>4, Popping
  <2>2. Len(Below) + 1 = Len(stack)
    BY <2>1
  <2>3. \A acc : FrameOK(Advanced(Top, acc), Len(stack))
    BY <2>1 DEF FrameOK, Advanced
  <2>4. QED
    BY <2>1, <2>2, <2>3
<1>5. CASE Collect
  <2>1. Continue(Advanced(Top, Append(Top.acc, node)), Below) /\ Advanced(Top, Append(Top.acc, node)).pc # "Try"
    BY <1>5 DEF Collect, Advanced
  <2>2. QED
    BY <1>1, <1>4, <1>5, <2>1, Continuing DEF Collect
<1>6. CASE Unwind
  BY <1>1, <1>4, <1>6, Leaving DEF Unwind
<1>7. CASE AlternativeSucceeded
  BY <1>1, <1>4, <1>7, Leaving DEF AlternativeSucceeded
<1>8. CASE AlternativeFailed
  <2>1. CASE LastAlternative
    BY <1>1, <1>4, <1>8, <2>1, Leaving DEF AlternativeFailed
  <2>2. CASE ~LastAlternative
    <3>1. Continue(Advanced(Top, << >>), Below)
      BY <1>8, <2>2 DEF AlternativeFailed
    <3>2. Advanced(Top, << >>).next \in DOMAIN Advanced(Top, << >>).calls
      BY <2>2 DEF LastAlternative, Advanced
    <3>3. QED
      BY <1>1, <1>4, <1>8, <3>1, <3>2, Continuing DEF AlternativeFailed
  <2>3. QED  BY <2>1, <2>2
<1>9. QED
  BY <1>2, <1>3, <1>5, <1>6, <1>7, <1>8

\* Calls that return at once.
LEMMA Returning ==
    ASSUME Inv, mode = "call",
           \/ LiteralExpression \/ NotAnExpression
           \/ ScalarLiteral \/ ScalarProperty \/ ScalarInstant \/ TypedLiteral
           \/ EndpointString \/ EndpointProperty
           \/ GeometryBox \/ GeometryData
    PROVE  Inv'
<1>1. Settled /\ StackOK(stack)
  BY Called
<1>2. ASSUME (\E n : Return(n, stack)) \/ Fail(stack)
      PROVE  Inv'
  BY <1>1, <1>2, Leaving
<1>3. ReturnLiteral => \E n : Return(n, stack)
  BY DEF ReturnLiteral
<1>4. ReturnProperty => (\E n : Return(n, stack)) \/ Fail(stack)
  BY DEF ReturnProperty
<1>5. ReturnInstant => (\E n : Return(n, stack)) \/ Fail(stack)
  BY DEF ReturnInstant
<1>6. CASE LiteralExpression \/ NotAnExpression
  BY <1>2, <1>3, <1>6 DEF LiteralExpression, NotAnExpression
<1>7. CASE ScalarLiteral \/ TypedLiteral
  BY <1>2, <1>3, <1>7 DEF ScalarLiteral, TypedLiteral
<1>8. CASE ScalarProperty \/ EndpointProperty
  BY <1>2, <1>4, <1>8 DEF ScalarProperty, EndpointProperty
<1>9. CASE ScalarInstant
  BY <1>2, <1>5, <1>9 DEF ScalarInstant
<1>10. CASE EndpointString
  <2>1. (\E n : Return(n, stack)) \/ Fail(stack)
    BY <1>10 DEF EndpointString
  <2>2. QED  BY <1>2, <2>1
<1>11. CASE GeometryBox
  BY <1>2, <1>11 DEF GeometryBox
<1>12. CASE GeometryData
  BY <1>2, <1>12 DEF GeometryData
<1>13. QED
  BY <1>6, <1>7, <1>8, <1>9, <1>10, <1>11, <1>12

\* Functions that build a node from the operands collected.
LEMMA Completing ==
    ASSUME Inv,
           \/ PredicateComplete \/ LogicalComplete \/ NotComplete \/ ComparisonComplete
           \/ LikeOrBetweenComplete \/ InComplete \/ IsNullComplete
           \/ FunctionComplete \/ WantedComplete \/ ArithmeticComplete
           \/ ArrayComplete \/ IntervalComplete \/ GeometryCollectionComplete
    PROVE  Inv'
<1>1. mode = "complete"
  BY DEF PredicateComplete, LogicalComplete, NotComplete, ComparisonComplete, LikeOrBetweenComplete,
         InComplete, IsNullComplete, FunctionComplete, WantedComplete, ArithmeticComplete,
         ArrayComplete, IntervalComplete, GeometryCollectionComplete, Complete
<1>2. Settled /\ StackOK(stack) /\ stack # << >>
  BY <1>1 DEF Inv, TypeOK, Settled
<1>3. StackOK(Below)
  BY <1>2, Popping
<1>4. (\E n : Return(n, Below)) \/ Fail(Below)
  <2>1. CASE PredicateComplete \/ LogicalComplete \/ NotComplete \/ ComparisonComplete
    BY <2>1 DEF PredicateComplete, LogicalComplete, NotComplete, ComparisonComplete
  <2>2. CASE LikeOrBetweenComplete \/ IsNullComplete \/ FunctionComplete
    BY <2>2 DEF LikeOrBetweenComplete, IsNullComplete, FunctionComplete
  <2>3. CASE InComplete
    BY <2>3 DEF InComplete
  <2>4. CASE WantedComplete \/ ArithmeticComplete \/ ArrayComplete \/ IntervalComplete
    BY <2>4 DEF WantedComplete, ArithmeticComplete, ArrayComplete, IntervalComplete
  <2>5. CASE GeometryCollectionComplete
    BY <2>5 DEF GeometryCollectionComplete
  <2>6. QED  BY <2>1, <2>2, <2>3, <2>4, <2>5
<1>5. QED
  BY <1>2, <1>3, <1>4, Leaving

\* Expressions.
LEMMA Expressions ==
    ASSUME Inv, mode = "call",
           \/ PredicateExpression \/ LogicalExpression \/ NotExpression \/ ComparisonExpression
           \/ LikeExpression \/ BetweenExpression \/ InExpression \/ IsNullExpression
           \/ FunctionExpression
    PROVE  Inv'
<1>1. proc = "Expression"
  BY DEF PredicateExpression, LogicalExpression, NotExpression, ComparisonExpression, LikeExpression,
         BetweenExpression, InExpression, IsNullExpression, FunctionExpression, ExpressionIs, Calling
<1>2. depth <= Len(path)
  BY <1>1, Called0
<1>3. Settled /\ StackOK(stack) /\ IsPath(path)
  BY Called
<1>4. depth \in Nat /\ Len(path) \in Nat /\ Len(stack) \in Nat /\ Len(stack) <= 2 * Len(path)
  BY CalledNat
<1>5. Fail(stack) => Inv'
  BY <1>3, Leaving
<1>6. {"Predicate", "Logical", "Not", "Comparison", "Like", "Between", "In", "IsNull"}
        \subseteq FramePcs \ {"Try"}
  BY DEF FramePcs
<1>7. {"TemporalOperand", "SpatialOperand", "ArrayOperand", "Expression", "Scalar", "Numeric",
       "Character", "Pattern", "IsNullOperand"} \subseteq Procs
  BY Levels
<1>8. CASE PredicateExpression
  <2>1. \A op : OperandProc(op) \in {"TemporalOperand", "SpatialOperand", "ArrayOperand"}
    BY DEF OperandProc
  <2>2. QED
    BY <1>2, <1>5, <1>6, <1>7, <1>8, <2>1, Operating DEF PredicateExpression
<1>9. CASE LogicalExpression \/ NotExpression
  BY <1>2, <1>5, <1>6, <1>7, <1>9, Operating DEF LogicalExpression, NotExpression
<1>10. CASE ComparisonExpression \/ BetweenExpression \/ IsNullExpression
  BY <1>2, <1>5, <1>6, <1>7, <1>10, Operating DEF ComparisonExpression, BetweenExpression, IsNullExpression
<1>11. CASE LikeExpression
  <2> DEFINE n == Len(stack) + 1
             d == depth + 1
             calls == <<Argument(1, "Character", d), Argument(2, "Pattern", d)>>
  <2>1. /\ d \in Nat /\ n \in Nat
        /\ d + 1 <= Len(path) + 2 /\ n + 2 <= 2 * Len(path) + 4
    BY <1>2, <1>4
  <2> HIDE DEF n, d
  <2>2. \A pr \in {"Character", "Pattern"} : Ahead(pr) \in 0..1 /\ Pending(pr) \in 1..2
    BY Levels
  <2>3. \A pr \in {"Character", "Pattern"} :
           d + Ahead(pr) <= Len(path) + 2 /\ n + Pending(pr) <= 2 * Len(path) + 4
    BY <1>4, <2>1, <2>2
  <2>4. \A i : \A pr \in {"Character", "Pattern"} : CallOK(Argument(i, pr, d), n)
    BY <1>3, <1>7, <2>1, <2>3, ArgumentOK
  <2>5. \A i \in DOMAIN calls : CallOK(calls[i], n)
    BY <2>4
  <2> HIDE DEF calls
  <2>6. CASE Continue(Frame("Like", "", calls), stack)
    BY <1>3, <1>6, <2>5, <2>6, Operation DEF n
  <2>7. QED
    BY <1>5, <1>11, <2>6 DEF LikeExpression, calls, d
<1>12. CASE InExpression
  <2> DEFINE n == Len(stack) + 1
             d == depth + 1
             q == ArgPath(path, 1)
             items == Args(val)[2].items
             calls == ListCalls("Scalar")
  <2>1. /\ d \in Nat /\ n \in Nat /\ d + 1 \in Nat
        /\ d <= Len(path) + 2 /\ n + 1 <= 2 * Len(path) + 4
    BY <1>2, <1>4
  <2>2. Ahead("Scalar") = 0 /\ Pending("Scalar") = 1
    BY Levels
  <2>3. \A i : CallOK(Argument(i, "Scalar", d), n)
    <3> HIDE DEF n, d
    <3>1. d + Ahead("Scalar") <= Len(path) + 2 /\ n + Pending("Scalar") <= 2 * Len(path) + 4
      BY <2>1, <2>2
    <3>2. QED
      BY <1>3, <1>7, <2>1, <3>1, ArgumentOK
  <2>4. IsPath(q) /\ Len(q) = Len(path) + 2
    BY <1>3, ArgPathLonger
  <2>5. \A i : IsPath(Append(q, Index(i))) /\ Len(Append(q, Index(i))) = Len(path) + 3
    <3> HIDE DEF q
    <3>1. QED  BY <1>4, <2>4, Longer
  <2>6. \A i, v : CallOK(Call("Scalar", v, Append(q, Index(i)), depth + 2), n)
    <3> SUFFICES ASSUME NEW i, NEW v
                 PROVE  CallOK(Call("Scalar", v, Append(q, Index(i)), depth + 2), n)
      OBVIOUS
    <3> DEFINE r == Append(q, Index(i))
               e == depth + 2
    <3>1. IsPath(r) /\ Len(r) = Len(path) + 3
      BY <2>5
    <3>2. e \in Nat /\ e <= Len(path) + 3 /\ n + 1 <= 2 * (Len(path) + 3)
      BY <1>2, <1>4
    <3> HIDE DEF r, e, n
    <3>3. CallOK(Call("Scalar", v, r, e), n)
      BY <1>7, <2>2, <3>1, <3>2 DEF CallOK, Call, IsPath
    <3>4. QED  BY <3>3 DEF r, e
  <2>7. \A i \in DOMAIN calls : CallOK(calls[i], n)
    <3> SUFFICES ASSUME NEW i \in 1 .. Len(items) + 1
                 PROVE  CallOK(IF i = 1 THEN Argument(1, "Scalar", d)
                               ELSE Call("Scalar", items[i - 1], Append(q, Index(i - 2)), depth + 2), n)
      BY DEF ListCalls
    <3> HIDE DEF n, d, q, items
    <3>1. QED  BY <2>3, <2>6
  <2> HIDE DEF calls, q, items
  <2>8. CASE Continue(Frame("In", "", calls), stack)
    BY <1>3, <1>6, <2>7, <2>8, Operation
  <2>9. QED
    BY <1>5, <1>12, <2>8 DEF InExpression, calls
<1>13. CASE FunctionExpression
  <2>1. Fail(stack) \/ FunctionOf("boolean", depth)
    BY <1>13 DEF FunctionExpression
  <2>2. depth <= Len(path) + 1
    BY CalledNat
  <2>3. QED
    BY <1>4, <1>5, <2>1, <2>2, Functions
<1>14. QED
  BY <1>8, <1>9, <1>10, <1>11, <1>12, <1>13

\* The other procedures.
LEMMA Operands ==
    ASSUME Inv, mode = "call",
           \/ ScalarOperation \/ TypedProperty \/ TypedOperation \/ Pattern \/ Operand
           \/ ArrayLiteral \/ TemporalInstance \/ Interval \/ EndpointFunction \/ GeometryMembers
    PROVE  Inv'
<1>1. Settled /\ StackOK(stack) /\ IsPath(path)
  BY Called
<1>2. depth \in Nat /\ Len(path) \in Nat /\ Len(stack) \in Nat /\ Len(stack) <= 2 * Len(path)
  BY CalledNat
<1>3. Fail(stack) => Inv'
  BY <1>1, Leaving
<1>4. CASE ScalarOperation
  <2>1. depth <= Len(path)
    BY <1>4, Called0 DEF ScalarOperation, Calling
  <2>2. Fail(stack) \/ Cast(depth, stack) \/ Arithmetics(depth, stack) \/ Function(depth, stack)
    BY <1>4 DEF ScalarOperation
  <2>3. depth <= Len(path) + 1
    BY CalledNat
  <2>4. QED
    BY <1>2, <1>3, <2>1, <2>2, <2>3, Operations, Functions
<1>5. ASSUME CallingTyped
      PROVE  depth + 1 <= Len(path) /\ Len(stack) + 2 <= 2 * Len(path)
  <2>1. proc \in {"Character", "Numeric"}
    BY <1>5 DEF CallingTyped, OperandOf
  <2>2. QED
    BY <2>1, Called, Called2, Levels
<1>6. CASE TypedProperty
  <2> DEFINE n == Len(stack) + 1
             e == depth + 1
             calls == <<Call("Scalar", val, path, e)>>
  <2>1. e \in Nat /\ e <= Len(path) /\ n + 1 <= 2 * Len(path)
    BY <1>2, <1>5, <1>6 DEF TypedProperty
  <2>2. "Scalar" \in Procs /\ Ahead("Scalar") = 0 /\ Pending("Scalar") = 1
    BY Levels
  <2> HIDE DEF n, e
  <2>3. CallOK(Call("Scalar", val, path, e), n)
    BY <1>1, <2>1, <2>2 DEF CallOK, Call, IsPath
  <2>4. \A i \in DOMAIN calls : CallOK(calls[i], n)
    BY <2>3
  <2>5. "Wanted" \in FramePcs \ {"Try"}
    BY DEF FramePcs
  <2> HIDE DEF calls
  <2>6. Continue(Frame("Wanted", OperandOf[proc].want, calls), stack)
    BY <1>6 DEF TypedProperty, calls, e
  <2>7. QED
    BY <1>1, <2>4, <2>5, <2>6, Operation DEF n
<1>7. CASE TypedOperation
  <2> DEFINE e == depth + 1
  <2>1. e \in Nat /\ e <= Len(path) /\ e <= Len(path) + 1
    BY <1>2, <1>5, <1>7 DEF TypedOperation
  <2>2. Fail(stack) \/ Cast(e, stack) \/ Arithmetics(e, stack) \/ \E want : FunctionOf(want, e)
    BY <1>7 DEF TypedOperation
  <2> HIDE DEF e
  <2>3. QED
    BY <1>3, <2>1, <2>2, Operations, Functions
<1>8. CASE Pattern
  <2>1. depth <= Len(path)
    BY <1>8, Called0 DEF Pattern, Calling
  <2>2. "Function" \in FramePcs \ {"Try"} /\ "Pattern" \in Procs
    BY Levels DEF FramePcs
  <2>3. \/ Fail(stack) \/ ReturnLiteral
        \/ Continue(Frame("Function", Folded(OpName(val)), Arguments("Pattern", depth + 1)), stack)
    BY <1>8 DEF Pattern
  <2>4. ReturnLiteral => Inv'
    BY <1>1, Leaving DEF ReturnLiteral
  <2>5. QED
    BY <1>3, <2>1, <2>2, <2>3, <2>4, Operating
<1>9. CASE Operand
  <2> DEFINE d == IF proc \in {"IsNullOperand", "Node"} THEN depth ELSE depth + 1
             n == Len(stack) + 1
             calls == [i \in DOMAIN Alternatives[proc] |-> Call(Alternatives[proc][i], val, path, d)]
  <2>1. proc \in DOMAIN Alternatives
    BY <1>9 DEF Operand
  <2>2. DOMAIN Alternatives = {"TemporalOperand", "SpatialOperand", "ArrayOperand", "IsNullOperand", "Node"}
    BY DEF Alternatives
  <2>3. Len(stack) + 2 <= 2 * Len(path)
    BY <2>1, <2>2, Called2
  <2>4. d \in Nat /\ d <= Len(path)
    <3>1. CASE proc \in {"IsNullOperand", "Node"}
      BY <1>2, <3>1, Called0
    <3>2. CASE proc \in {"TemporalOperand", "SpatialOperand", "ArrayOperand"}
      <4>1. depth + 1 <= Len(path)
        BY <3>2, Called, Levels
      <4>2. QED  BY <1>2, <3>2, <4>1
    <3>3. QED  BY <2>1, <2>2, <3>1, <3>2
  <2>5. \A i \in DOMAIN Alternatives[proc] :
           Alternatives[proc][i] \in {"Expression", "Scalar", "TemporalInstance", "Geometry", "ArrayLiteral"}
    BY <2>1, <2>2 DEF Alternatives
  <2>6. 1 \in DOMAIN Alternatives[proc]
    BY <2>1, <2>2 DEF Alternatives
  <2>7. \A pr \in {"Expression", "Scalar", "TemporalInstance", "Geometry", "ArrayLiteral"} :
           pr \in Procs /\ Ahead(pr) = 0 /\ Pending(pr) \in 0..1
    BY Levels
  <2>8. n \in Nat /\ n + 1 <= 2 * Len(path)
    BY <1>2, <2>3
  <2> HIDE DEF d, n
  <2>9. \A pr \in {"Expression", "Scalar", "TemporalInstance", "Geometry", "ArrayLiteral"} :
           CallOK(Call(pr, val, path, d), n)
    BY <1>1, <1>2, <2>4, <2>7, <2>8 DEF CallOK, Call, IsPath
  <2>10. \A i \in DOMAIN calls : CallOK(calls[i], n)
    BY <2>5, <2>9
  <2>11. 1 \in DOMAIN calls
    BY <2>6
  <2>12. Continue(Frame("Try", "", calls), stack)
    BY <1>9 DEF Operand, d
  <2>13. "Try" \in FramePcs
    BY DEF FramePcs
  <2> HIDE DEF calls
  <2> DEFINE f == Frame("Try", "", calls)
  <2>14. FrameOK(f, Len(stack) + 1) /\ f.next \in DOMAIN f.calls
    <3>1. FrameOK(f, n) /\ f.next = 1 /\ f.calls = calls
      BY <2>10, <2>13 DEF FrameOK, Frame
    <3>2. QED  BY <2>11, <3>1 DEF n
  <2> HIDE DEF f
  <2>15. QED
    BY <1>1, <2>12, <2>14, Continuing DEF f
<1>10. CASE ArrayLiteral
  <2>1. proc = "ArrayLiteral"
    BY <1>10 DEF ArrayLiteral, Calling
  <2>2. depth <= Len(path) /\ Len(stack) + 1 <= 2 * Len(path)
    BY <2>1, Called0, Called1
  <2> DEFINE d == depth + 1
             n == Len(stack) + 1
             calls == Items(val, "Node", path, d)
  <2>3. "Node" \in Procs /\ Ahead("Node") = 0 /\ Pending("Node") = 2
    BY Levels
  <2>4. d \in Nat /\ n \in Nat /\ d + 0 <= Len(path) + 1 /\ n + 2 <= 2 * Len(path) + 2
    BY <1>2, <2>2
  <2> HIDE DEF d, n
  <2>5. \A i \in DOMAIN calls : CallOK(calls[i], n)
    BY <1>1, <2>3, <2>4, ItemsOK
  <2>6. "Array" \in FramePcs \ {"Try"}
    BY DEF FramePcs
  <2> HIDE DEF calls
  <2>7. Fail(stack) \/ Continue(Frame("Array", "", calls), stack)
    BY <1>10 DEF ArrayLiteral, calls, d
  <2>8. QED
    BY <1>1, <1>3, <2>5, <2>6, <2>7, Operation DEF n
<1>11. CASE TemporalInstance
  <2>1. proc = "TemporalInstance"
    BY <1>11 DEF TemporalInstance, Calling
  <2>2. depth <= Len(path) /\ Len(stack) + 1 <= 2 * Len(path)
    BY <2>1, Called0, Called1
  <2> DEFINE e == depth + 1
  <2>3. e \in Nat /\ e + (-1) <= Len(path)
    BY <1>2, <2>2
  <2>4. "Interval" \in Procs /\ Ahead("Interval") = -1 /\ Pending("Interval") = 1
    BY Levels
  <2> HIDE DEF e
  <2>5. CallOK(Call("Interval", val, path, e), Len(stack))
    BY <1>1, <2>2, <2>3, <2>4 DEF CallOK, Call, IsPath
  <2>6. Fail(stack) \/ ReturnInstant \/ Enter(Call("Interval", val, path, e), stack)
    BY <1>11 DEF TemporalInstance, e
  <2>7. ReturnInstant => Inv'
    BY <1>1, Leaving DEF ReturnInstant
  <2>8. QED
    BY <1>1, <1>3, <2>5, <2>6, <2>7, Entering
<1>12. ASSUME proc \in {"Interval", "Geometry"}, NEW k, NEW v, NEW pr \in {"Endpoint", "Geometry"},
              NEW pc \in {"Interval", "Collection"},
              Continue(Frame(pc, "", Items(v, pr, Append(path, Key(k)), depth + 1)), stack)
       PROVE  Inv'
  <2>1. Len(stack) + 1 <= 2 * Len(path)
    BY <1>12, Called1
  <2>2. IsPath(Append(path, Key(k))) /\ Len(Append(path, Key(k))) = Len(path) + 1
    BY <1>1, Longer
  <2>3. depth <= Len(path) + 1
    BY CalledNat
  <2> DEFINE d == depth + 1
             n == Len(stack) + 1
             q == Append(path, Key(k))
             calls == Items(v, pr, q, d)
  <2>4. pr \in Procs /\ Ahead(pr) = 0 /\ Pending(pr) = 1
    BY <1>12, Levels
  <2>5. d \in Nat /\ n \in Nat /\ d + 0 <= Len(path) + 2 /\ n + 1 <= 2 * (Len(path) + 1) + 2
    BY <1>2, <2>1, <2>3
  <2> HIDE DEF d, n, q
  <2>6. IsPath(q) /\ Len(q) = Len(path) + 1
    BY <2>2 DEF q
  <2>7. d + Ahead(pr) <= Len(q) + 1 /\ n + Pending(pr) <= 2 * Len(q) + 2
    BY <1>2, <2>4, <2>5, <2>6
  <2>8. \A i \in DOMAIN calls : CallOK(calls[i], n)
    BY <2>4, <2>5, <2>6, <2>7, ItemsOK
  <2>9. pc \in FramePcs \ {"Try"}
    BY <1>12 DEF FramePcs
  <2> HIDE DEF calls
  <2>10. Continue(Frame(pc, "", calls), stack)
    BY <1>12 DEF calls, q, d
  <2>11. QED
    BY <1>1, <2>8, <2>9, <2>10, Operation DEF n
<1>13. CASE Interval
  BY <1>3, <1>12, <1>13 DEF Interval, Calling
<1>14. CASE GeometryMembers
  BY <1>3, <1>12, <1>14 DEF GeometryMembers, Calling
<1>15. CASE EndpointFunction
  <2>1. depth <= Len(path)
    BY <1>15, Called0 DEF EndpointFunction, Calling
  <2> DEFINE e == depth + 1
  <2>2. e \in Nat /\ e <= Len(path) + 1
    BY <1>2, <2>1
  <2>3. Fail(stack) \/ Function(e, stack)
    BY <1>15 DEF EndpointFunction
  <2> HIDE DEF e
  <2>4. QED
    BY <1>3, <2>2, <2>3, Functions
<1>16. QED
  BY <1>4, <1>6, <1>7, <1>8, <1>9, <1>10, <1>11, <1>13, <1>14, <1>15

-----------------------------------------------------------------------------
(* The theorems.                                                           *)

LEMMA StartsOK == Init => Inv
<1> SUFFICES ASSUME Init PROVE Inv
  OBVIOUS
<1>1. /\ input \in Inputs /\ cfg \in Configs /\ mode = "call" /\ stack = << >>
      /\ proc = "Expression" /\ depth = 0 /\ path = << >>
  BY DEF Init, Inputs, Configs
<1>2. "Expression" \in Procs /\ Ahead("Expression") = 0 /\ Pending("Expression") = 0
  BY Levels
<1>3. TypeOK
  BY <1>1, <1>2 DEF TypeOK
<1>4. << >> \in Seq({(<< >>)[i] : i \in DOMAIN << >>}) /\ Len(<< >>) = 0
  OBVIOUS
<1>5. CallOK(Call(proc, val, path, depth), Len(stack))
  BY <1>1, <1>2, <1>4 DEF CallOK, Call
<1>6. StackOK(stack)
  BY <1>1, <1>4 DEF StackOK
<1>7. QED
  BY <1>3, <1>5, <1>6 DEF Inv

\* Every step keeps the control invariant.
LEMMA StepsKeepInv == Inv /\ [Next]_vars => Inv'
<1> SUFFICES ASSUME Inv, [Next]_vars PROVE Inv'
  OBVIOUS
<1>1. CASE UNCHANGED vars
  BY <1>1 DEF vars, Inv, TypeOK, Top
<1>2. CASE MaximumDepthExceeded \/ Finish \/ Collect \/ Unwind \/ AlternativeSucceeded \/ AlternativeFailed
  BY <1>2, Control
<1>3. CASE \/ LiteralExpression \/ NotAnExpression
           \/ ScalarLiteral \/ ScalarProperty \/ ScalarInstant \/ TypedLiteral
           \/ EndpointString \/ EndpointProperty
           \/ GeometryBox \/ GeometryData
  <2>1. mode = "call"
    BY <1>3 DEF LiteralExpression, NotAnExpression, ScalarLiteral, ScalarProperty, ScalarInstant,
                TypedLiteral, EndpointString, EndpointProperty, GeometryBox, GeometryData,
                Calling, CallingTyped
  <2>2. QED  BY <1>3, <2>1, Returning
<1>4. CASE \/ PredicateComplete \/ LogicalComplete \/ NotComplete \/ ComparisonComplete
           \/ LikeOrBetweenComplete \/ InComplete \/ IsNullComplete
           \/ FunctionComplete \/ WantedComplete \/ ArithmeticComplete
           \/ ArrayComplete \/ IntervalComplete \/ GeometryCollectionComplete
  BY <1>4, Completing
<1>5. CASE \/ PredicateExpression \/ LogicalExpression \/ NotExpression \/ ComparisonExpression
           \/ LikeExpression \/ BetweenExpression \/ InExpression \/ IsNullExpression
           \/ FunctionExpression
  <2>1. mode = "call"
    BY <1>5 DEF PredicateExpression, LogicalExpression, NotExpression, ComparisonExpression,
                LikeExpression, BetweenExpression, InExpression, IsNullExpression,
                FunctionExpression, ExpressionIs, Calling
  <2>2. QED  BY <1>5, <2>1, Expressions
<1>6. CASE \/ ScalarOperation \/ TypedProperty \/ TypedOperation \/ Pattern \/ Operand
           \/ ArrayLiteral \/ TemporalInstance \/ Interval \/ EndpointFunction \/ GeometryMembers
  <2>1. mode = "call"
    BY <1>6 DEF ScalarOperation, TypedProperty, TypedOperation, Pattern, Operand, ArrayLiteral,
                TemporalInstance, Interval, EndpointFunction, GeometryMembers, Calling, CallingTyped
  <2>2. QED  BY <1>6, <2>1, Operands
<1>7. QED
  BY <1>1, <1>2, <1>3, <1>4, <1>5, <1>6 DEF Next, Step, Terminated

\* The control invariant of json_parser.go: every call the parser makes or
\* still has to make is bounded by the length of its path.
THEOREM Invariance == Spec => []Inv
<1>1. QED  BY StartsOK, StepsKeepInv, PTL DEF Spec

\* The parser reads no value at a depth of more than one above the length of
\* its path, and holds at most two frames for every component of it: nested
\* casei and arithmetic, which MaxDepth does not bound, are bounded by the
\* document.
THEOREM RecursionStaysBounded == Spec => []RecursionBounded
<1>1. Inv => RecursionBounded
  BY CalledNat DEF RecursionBounded
<1>2. QED  BY <1>1, Invariance, PTL

-----------------------------------------------------------------------------
(* Documents.                                                              *)

LEMMA InputIsDocument == ASSUME Inv PROVE IsDocument(input)
  BY DocumentsAssumption DEF Inv, TypeOK

LEMMA PartsInside ==
    ASSUME Inv, NEW v \in Parts(input)
    PROVE  /\ v.t \in JsonTypes /\ v.items \in Seq(Parts(input))
           /\ DOMAIN v.items = 1..Len(v.items) /\ Len(v.items) \in Nat
           /\ \A i \in DOMAIN v.items : v.items[i] \in Parts(input)
           /\ \A k : Has(v, k) => v.fields[k] \in Parts(input)
<1>1. v.t \in JsonTypes /\ v.items \in Seq(Parts(input)) /\ \A k \in DOMAIN v.fields : v.fields[k] \in Parts(input)
  BY InputIsDocument DEF IsDocument
<1>2. QED  BY <1>1 DEF Has

LEMMA ArgsInside ==
    ASSUME Inv, val \in Parts(input), IsCall(val)
    PROVE  /\ DOMAIN Args(val) = 1..Len(Args(val)) /\ Len(Args(val)) \in Nat
           /\ \A i \in DOMAIN Args(val) : Args(val)[i] \in Parts(input)
<1>1. val.fields["args"] \in Parts(input)
  BY PartsInside DEF IsCall
<1>2. QED  BY <1>1, PartsInside DEF Args

-----------------------------------------------------------------------------
(* Promises.                                                               *)

Typed == {"Numeric", "Character", "Pattern"}

LEMMA NothingPromised ==
    ASSUME NEW pr, pr \notin Typed
    PROVE  /\ \A n : Promised(pr, n)
           /\ \A f : Yields(f, pr)
  BY DEF Typed, Promised, Yields

\* Only these frames are put where something is promised.
LEMMA YieldsTyped ==
    ASSUME NEW f, NEW pr, Yields(f, pr), f.pc \notin {"Arithmetic", "Function", "Wanted"}
    PROVE  pr \notin Typed
  BY DEF Typed, Yields

-----------------------------------------------------------------------------
(* Sequences of calls and of operands.                                     *)

IsSequence(s) == s \in Seq({s[i] : i \in DOMAIN s})

LEMMA SequenceFacts ==
    ASSUME NEW s, IsSequence(s)
    PROVE  DOMAIN s = 1..Len(s) /\ Len(s) \in Nat
<1> DEFINE S == {s[i] : i \in DOMAIN s}
<1>1. s \in Seq(S)
  BY DEF IsSequence
<1> HIDE DEF S
<1>2. QED  BY <1>1

LEMMA MappedSequence ==
    ASSUME NEW n \in Nat, NEW s, DOMAIN s = 1..n, s = [i \in 1..n |-> s[i]]
    PROVE  IsSequence(s) /\ Len(s) = n
<1> DEFINE S == {s[i] : i \in DOMAIN s}
<1>1. \A i \in 1..n : s[i] \in S
  OBVIOUS
<1> HIDE DEF S
<1>2. s \in [1..n -> S]
  BY <1>1
<1>3. s \in Seq(S) /\ Len(s) = n
  BY <1>2
<1>4. QED  BY <1>3 DEF IsSequence, S

LEMMA MoreOperands ==
    ASSUME NEW acc, NEW n, IsSequence(acc)
    PROVE  /\ IsSequence(Append(acc, n))
           /\ Len(Append(acc, n)) = Len(acc) + 1 /\ Len(acc) \in Nat
           /\ \A i \in 1..Len(acc) : Append(acc, n)[i] = acc[i]
           /\ Append(acc, n)[Len(acc) + 1] = n
           /\ DOMAIN Append(acc, n) = 1 .. Len(acc) + 1
<1> DEFINE S == {acc[i] : i \in DOMAIN acc}
           more == Append(acc, n)
<1>1. acc \in Seq(S)
  BY DEF IsSequence
<1> HIDE DEF S
<1>2. /\ more \in Seq({more[i] : i \in DOMAIN more}) /\ Len(more) = Len(acc) + 1
      /\ Len(acc) \in Nat
      /\ \A i \in 1..Len(acc) : more[i] = acc[i]
      /\ more[Len(acc) + 1] = n
  BY <1>1, AppendFacts
<1>3. IsSequence(more)
  BY <1>2 DEF IsSequence
<1> HIDE DEF more
<1>4. DOMAIN more = 1 .. Len(acc) + 1
  BY <1>2, <1>3, SequenceFacts
<1>5. QED  BY <1>2, <1>3, <1>4 DEF more

-----------------------------------------------------------------------------
(* Stacks on which every frame is sound and waits for an operand, and      *)
(* yields what the frame below it waits for.                               *)

Held(f) == FrameSound(f) /\ Waiting(f)

Due(st) == IF st = << >> THEN "Function" ELSE Awaited(st[Len(st)])

Rests(st) ==
    /\ IsSequence(st)
    /\ \A i \in 1..Len(st) : Held(st[i])
    /\ \A i \in 1 .. Len(st) - 1 : Yields(st[i + 1], Awaited(st[i]))

Kept == OperandsSound /\ PromisesKept

LEMMA StackLength ==
    ASSUME Inv
    PROVE  /\ IsSequence(stack) /\ Len(stack) \in Nat
           /\ (stack # << >> => Len(stack) # 0) /\ (stack = << >> => Len(stack) = 0)
<1>1. IsSequence(stack)
  BY DEF Inv, StackOK, IsSequence
<1>2. QED  BY <1>1, SequenceFacts DEF IsSequence

\* A stack whose last frame is not complete.
LEMMA StackRests ==
    ASSUME Inv, Kept, mode # "complete"
    PROVE  Rests(stack)
  BY StackLength DEF Rests, Kept, OperandsSound, PromisesKept, Held

LEMMA BelowFacts ==
    ASSUME Inv, stack # << >>
    PROVE  /\ IsSequence(Below) /\ Len(Below) \in Nat /\ Len(stack) = Len(Below) + 1
           /\ \A i \in 1..Len(Below) : Below[i] = stack[i]
           /\ Top = stack[Len(Below) + 1]
<1> DEFINE S == {stack[i] : i \in DOMAIN stack}
           n == Len(stack) - 1
<1>1. stack \in Seq(S) /\ n \in Nat /\ Len(stack) = n + 1
  BY StackLength DEF IsSequence
<1>2. \A i \in 1..n : stack[i] \in S
  BY <1>1
<1>3. Below = SubSeq(stack, 1, n) /\ Top = stack[n + 1]
  BY <1>1 DEF Below, Top
<1> HIDE DEF S, n
<1>4. /\ SubSeq(stack, 1, n) \in Seq(S)
      /\ Len(SubSeq(stack, 1, n)) = IF 1 <= n THEN n - 1 + 1 ELSE 0
      /\ \A i \in 1 .. n - 1 + 1 : SubSeq(stack, 1, n)[i] = stack[1 + i - 1]
  <2>1. n \in Int /\ 1 \in Int  BY <1>1
  <2>2. QED  BY ONLY <1>2, <2>1, SubSeqProperties
<1>5. n - 1 + 1 = n /\ \A i \in 1..n : 1 + i - 1 = i
  BY <1>1
<1>6. /\ Below \in Seq(S) /\ Len(Below) = n
      /\ \A i \in 1..n : Below[i] = stack[i]
  <2>1. \A i \in 1..n : SubSeq(stack, 1, n)[i] = stack[i]
    BY <1>4, <1>5
  <2>2. QED  BY <1>1, <1>3, <1>4, <1>5, <2>1
<1>7. IsSequence(Below)
  BY <1>6, SeqOfElements DEF IsSequence
<1>8. QED  BY <1>1, <1>3, <1>6, <1>7

\* The stack without its top frame rests, and waits for what that yields.
LEMMA BelowRests ==
    ASSUME Inv, Kept, stack # << >>
    PROVE  /\ Rests(Below) /\ FrameSound(Top) /\ Yields(Top, Due(Below))
           /\ SoundTree(cfg, node) /\ val \in Parts(input)
           /\ mode = "complete" => Top.next = OperandCount(Top) + 1
           /\ mode # "complete" => Waiting(Top)
<1>1. /\ \A i \in 1..Len(stack) : FrameSound(stack[i])
      /\ \A i \in 1..Len(stack) : IF mode = "complete" /\ i = Len(stack)
                                  THEN stack[i].next = OperandCount(stack[i]) + 1
                                  ELSE Waiting(stack[i])
      /\ \A i \in 1 .. Len(stack) - 1 : Yields(stack[i + 1], Awaited(stack[i]))
  BY DEF Kept, OperandsSound, PromisesKept
<1>2. Len(stack) \in 1..Len(stack) /\ Top = stack[Len(stack)]
  BY BelowFacts
<1>3. \A i \in 1..Len(Below) :
         i \in 1..Len(stack) /\ i # Len(stack) /\ i \in 1 .. Len(stack) - 1 /\ Below[i] = stack[i]
  BY BelowFacts
<1>4. \A i \in 1..Len(Below) : Held(Below[i])
  BY <1>1, <1>3 DEF Held
<1>5. \A i \in 1 .. Len(Below) - 1 : Yields(Below[i + 1], Awaited(Below[i]))
  <2> TAKE i \in 1 .. Len(Below) - 1
  <2>1. i \in 1..Len(Below) /\ i + 1 \in 1..Len(Below)
    BY BelowFacts
  <2>2. QED  BY <1>1, <1>3, <2>1
<1>6. Rests(Below)
  BY <1>4, <1>5, BelowFacts DEF Rests
<1>7. Yields(Top, Due(Below))
  <2>1. CASE Below = << >>
    BY <2>1, NothingPromised DEF Due, Typed
  <2>2. CASE Below # << >>
    <3>1. Len(Below) \in 1..Len(Below)
      BY <2>2, BelowFacts, SequenceFacts DEF IsSequence
    <3>2. Yields(stack[Len(Below) + 1], Awaited(stack[Len(Below)]))
      BY <1>1, <1>3, <3>1
    <3>3. QED  BY <1>3, <2>2, <3>1, <3>2, BelowFacts DEF Due
  <2>3. QED  BY <2>1, <2>2
<1>8. QED  BY <1>1, <1>2, <1>6, <1>7 DEF Kept, OperandsSound

LEMMA Push ==
    ASSUME NEW st, NEW f, Rests(st), Held(f), Yields(f, Due(st))
    PROVE  Rests(Append(st, f)) /\ Due(Append(st, f)) = Awaited(f)
<1> DEFINE more == Append(st, f)
<1>1. /\ IsSequence(more) /\ Len(more) = Len(st) + 1 /\ Len(st) \in Nat
      /\ \A i \in 1..Len(st) : more[i] = st[i]
      /\ more[Len(st) + 1] = f
  BY MoreOperands DEF Rests
<1> HIDE DEF more
<1>2. \A i \in 1..Len(more) : i \in 1..Len(st) \/ i = Len(st) + 1
  BY <1>1
<1>3. \A i \in 1..Len(more) : Held(more[i])
  BY <1>1, <1>2 DEF Rests
<1>4. ASSUME NEW i \in 1 .. Len(more) - 1
      PROVE  Yields(more[i + 1], Awaited(more[i]))
  <2>1. i \in 1..Len(st) /\ more[i] = st[i]
    BY <1>1
  <2>2. CASE i = Len(st)
    <3>1. st # << >>
      BY <2>1
    <3>2. QED  BY <1>1, <2>1, <2>2, <3>1 DEF Due
  <2>3. CASE i # Len(st)
    <3>1. i \in 1 .. Len(st) - 1 /\ i + 1 \in 1..Len(st)
      BY <1>1, <2>1, <2>3
    <3>2. QED  BY <1>1, <2>1, <3>1 DEF Rests
  <2>4. QED  BY <2>2, <2>3
<1>5. more # << >>
  BY <1>1
<1>6. QED  BY <1>1, <1>3, <1>4, <1>5 DEF Rests, Due, more
-----------------------------------------------------------------------------
(* The ways control moves.                                                 *)

LEMMA NoNodeSound == SoundTree(cfg, NoNode)
<1>1. \A i \in DOMAIN << >> : SoundTree(cfg, << >>[i])
  OBVIOUS
<1>2. QED  BY <1>1, PlainTree DEF NoNode, PlainKinds

LEMMA PredicateAgain ==
    ASSUME UNCHANGED cfg, NEW op
    PROVE  PredicateEnabled(op)' <=> PredicateEnabled(op)
  BY DEF PredicateEnabled

LEMMA SoundAgain ==
    ASSUME NEW st, \A i \in 1..Len(st) : FrameSound(st[i]),
           stack' = st, UNCHANGED <<input, cfg>>
    PROVE  \A i \in 1..Len(stack') : FrameSound(stack[i])'
<1> SUFFICES ASSUME NEW i \in 1..Len(st) PROVE FrameSound(stack[i])'
  OBVIOUS
<1>1. stack'[i] = st[i] /\ input' = input /\ cfg' = cfg /\ FrameSound(st[i])
  OBVIOUS
<1>2. \A op : PredicateEnabled(op)' <=> PredicateEnabled(op)
  BY <1>1, PredicateAgain
<1>3. Opened(stack[i])'
  BY <1>1, <1>2 DEF FrameSound, Opened
<1>4. QED
  BY <1>1, <1>3 DEF FrameSound

\* Control moves to a stack that rests.
LEMMA RestsAgain ==
    ASSUME NEW st, Rests(st), stack' = st, UNCHANGED <<input, cfg>>, mode' # "complete",
           SoundTree(cfg, node'), val' \in Parts(input),
           mode' = "call" /\ Due(st) \in Typed => proc' = Due(st),
           mode' = "return" => Promised(Due(st), node')
    PROVE  Kept'
<1>1. \A i \in 1..Len(stack') : FrameSound(stack[i])'
  BY SoundAgain DEF Rests, Held
<1>2. OperandsSound'
  BY <1>1 DEF OperandsSound, Rests, Held, Waiting, OperandCount
<1>3. PromisesKept'
  BY ZenonT(30) DEF PromisesKept, Rests, Due, Typed, Top, Awaited, Yields, Promised
<1>4. QED  BY <1>2, <1>3 DEF Kept

LEMMA EnterStep ==
    ASSUME NEW st, NEW c, Rests(st), c.val \in Parts(input),
           Due(st) \in Typed => c.proc = Due(st), Enter(c, st)
    PROVE  Kept'
<1>1. /\ mode' = "call" /\ stack' = st /\ UNCHANGED <<input, cfg>>
      /\ node' = NoNode /\ val' = c.val /\ proc' = c.proc
  BY DEF Enter
<1>2. QED  BY <1>1, NoNodeSound, RestsAgain

LEMMA ReturnStep ==
    ASSUME NEW st, NEW n, Rests(st), SoundTree(cfg, n), Promised(Due(st), n),
           val \in Parts(input), Return(n, st)
    PROVE  Kept'
<1>1. mode' = "return" /\ stack' = st /\ UNCHANGED <<input, cfg, val>> /\ node' = n
  BY DEF Return
<1>2. QED  BY <1>1, RestsAgain

LEMMA FailStep ==
    ASSUME NEW st, Rests(st), val \in Parts(input), Fail(st)
    PROVE  Kept'
<1>1. mode' = "fail" /\ stack' = st /\ UNCHANGED <<input, cfg, val>> /\ node' = NoNode
  BY DEF Fail
<1>2. QED  BY <1>1, NoNodeSound, RestsAgain

\* A frame goes on with its next call, or has all its operands.
Steady(f) ==
    /\ FrameSound(f)
    /\ f.next \in DOMAIN f.calls => Waiting(f)
    /\ f.next \notin DOMAIN f.calls => f.next = OperandCount(f) + 1

LEMMA CompleteStep ==
    ASSUME NEW st, NEW f, Rests(st), FrameSound(f), f.next = OperandCount(f) + 1,
           Yields(f, Due(st)), val \in Parts(input),
           mode' = "complete", node' = NoNode, stack' = Append(st, f),
           UNCHANGED <<input, cfg, val>>
    PROVE  Kept'
<1> DEFINE more == Append(st, f)
<1>1. /\ IsSequence(more) /\ Len(more) = Len(st) + 1 /\ Len(st) \in Nat
      /\ \A i \in 1..Len(st) : more[i] = st[i]
      /\ more[Len(st) + 1] = f
  BY MoreOperands DEF Rests
<1>2. stack' = more
  OBVIOUS
<1> HIDE DEF more
<1>3. \A i \in 1..Len(more) : i \in 1..Len(st) \/ i = Len(more)
  BY <1>1
<1>4. \A i \in 1..Len(more) : FrameSound(more[i])
  BY <1>1, <1>3 DEF Rests, Held
<1>5. \A i \in 1..Len(stack') : FrameSound(stack[i])'
  BY <1>2, <1>4, SoundAgain
<1>6. \A i \in 1..Len(more) : IF i = Len(more) THEN more[i].next = OperandCount(more[i]) + 1
                              ELSE Waiting(more[i])
  BY <1>1, <1>3 DEF Rests, Held
<1>7. OperandsSound'
  BY <1>2, <1>5, <1>6, NoNodeSound DEF OperandsSound, Waiting, OperandCount
<1>8. ASSUME NEW i \in 1 .. Len(more) - 1
      PROVE  Yields(more[i + 1], Awaited(more[i]))
  <2>1. i \in 1..Len(st) /\ more[i] = st[i]
    BY <1>1
  <2>2. CASE i = Len(st)
    <3>1. st # << >>
      BY <2>1
    <3>2. QED  BY <1>1, <2>1, <2>2, <3>1 DEF Due
  <2>3. CASE i # Len(st)
    <3>1. i \in 1 .. Len(st) - 1 /\ i + 1 \in 1..Len(st)
      BY <1>1, <2>1, <2>3
    <3>2. QED  BY <1>1, <2>1, <3>1 DEF Rests
  <2>4. QED  BY <2>2, <2>3
<1>9. PromisesKept'
  BY <1>2, <1>8 DEF PromisesKept, Awaited, Yields
<1>10. QED  BY <1>7, <1>9 DEF Kept

LEMMA ContinueStep ==
    ASSUME NEW st, NEW f, Rests(st), Steady(f), Yields(f, Due(st)), val \in Parts(input),
           Continue(f, st)
    PROVE  Kept'
<1>1. CASE f.next \in DOMAIN f.calls
  <2> DEFINE c == f.calls[f.next]
             more == Append(st, f)
  <2>1. Rests(more) /\ Due(more) = Awaited(f)
    BY <1>1, Push DEF Steady, Held
  <2>2. Awaited(f) = c.proc /\ c.val \in Parts(input)
    BY <1>1 DEF Awaited, Steady, FrameSound
  <2>3. Enter(c, more)
    BY <1>1 DEF Continue
  <2> HIDE DEF c, more
  <2>4. QED  BY <2>1, <2>2, <2>3, EnterStep
<1>2. CASE f.next \notin DOMAIN f.calls
  <2>1. /\ mode' = "complete" /\ node' = NoNode /\ stack' = Append(st, f)
        /\ UNCHANGED <<input, cfg, val>>
    BY <1>2 DEF Continue
  <2>2. FrameSound(f) /\ f.next = OperandCount(f) + 1
    BY <1>2 DEF Steady
  <2>3. QED  BY <2>1, <2>2, CompleteStep
<1>3. QED  BY <1>1, <1>2

-----------------------------------------------------------------------------
(* New frames.                                                             *)

LEMMA FrameFields ==
    ASSUME NEW pc, NEW op, NEW calls
    PROVE  /\ Frame(pc, op, calls).pc = pc /\ Frame(pc, op, calls).op = op
           /\ Frame(pc, op, calls).calls = calls /\ Frame(pc, op, calls).next = 1
           /\ Frame(pc, op, calls).acc = << >> /\ Frame(pc, op, calls).val = val
  BY DEF Frame

\* Calls that read values of the document.
Reading(calls) == IsSequence(calls) /\ \A i \in DOMAIN calls : calls[i].val \in Parts(input)

LEMMA NewFrame ==
    ASSUME NEW pc, NEW op, NEW calls, Reading(calls), Opened(Frame(pc, op, calls)),
           pc # "Wanted" \/ calls # << >>
    PROVE  Steady(Frame(pc, op, calls))
<1> DEFINE f == Frame(pc, op, calls)
<1>1. f.pc = pc /\ f.calls = calls /\ f.next = 1 /\ f.acc = << >>
  BY FrameFields
<1>2. Opened(f)
  OBVIOUS
<1> HIDE DEF f
<1>3. DOMAIN calls = 1..Len(calls) /\ Len(calls) \in Nat
  BY SequenceFacts DEF Reading
<1>4. /\ << >> \in Seq({<< >>[i] : i \in DOMAIN << >>}) /\ Len(<< >>) = 0 /\ DOMAIN << >> = {}
  OBVIOUS
<1>5. FrameSound(f)
  BY <1>1, <1>2, <1>4 DEF FrameSound, Reading, IsSequence
<1>6. OperandCount(f) = IF pc = "Wanted" THEN 1 ELSE Len(calls)
  BY <1>1 DEF OperandCount
<1>7. pc = "Wanted" => Len(calls) # 0
  <2>1. Len(calls) = 0 => calls = << >>
    BY <1>3 DEF Reading, IsSequence
  <2>2. QED  BY <2>1
<1>8. QED
  BY <1>1, <1>3, <1>5, <1>6, <1>7 DEF Steady, Waiting, f

\* A frame of which the checks before its calls say nothing.
PlainPcs == {"Try", "Logical", "IsNull", "Function", "Array", "Interval"}

LEMMA PlainOpened ==
    ASSUME NEW f, f.pc \in PlainPcs
    PROVE  Opened(f)
  BY DEF Opened, PlainPcs

\* A procedure that promises nothing starts a frame.
LEMMA StartStep ==
    ASSUME NEW pc, NEW op, NEW calls, NEW st, Rests(st), val \in Parts(input), Reading(calls),
           Opened(Frame(pc, op, calls)), pc # "Wanted",
           Due(st) \notin Typed \/ Yields(Frame(pc, op, calls), Due(st)),
           Continue(Frame(pc, op, calls), st)
    PROVE  Kept'
<1>1. Steady(Frame(pc, op, calls))
  BY NewFrame
<1>2. Yields(Frame(pc, op, calls), Due(st))
  BY NothingPromised
<1>3. QED  BY <1>1, <1>2, ContinueStep

\* The calls of the arguments read values of the document.
LEMMA ArgumentsRead ==
    ASSUME Inv, val \in Parts(input), IsCall(val), NEW pr, NEW d
    PROVE  /\ Reading(Arguments(pr, d)) /\ Len(Arguments(pr, d)) = Len(Args(val))
           /\ \A i \in DOMAIN Arguments(pr, d) : Arguments(pr, d)[i].proc = pr
<1> DEFINE calls == Arguments(pr, d)
           n == Len(Args(val))
<1>1. n \in Nat /\ DOMAIN Args(val) = 1..n /\ \A i \in 1..n : Args(val)[i] \in Parts(input)
  BY ArgsInside
<1>2. calls = [i \in 1..n |-> Argument(i, pr, d)]
  BY <1>1 DEF Arguments
<1>3. \A i \in 1..n : calls[i].val = Args(val)[i] /\ calls[i].proc = pr
  BY <1>2 DEF Argument, Call
<1>4. DOMAIN calls = 1..n /\ calls = [i \in 1..n |-> calls[i]]
  BY <1>2
<1> HIDE DEF calls, n
<1>5. IsSequence(calls) /\ Len(calls) = n
  BY <1>1, <1>4, MappedSequence
<1>6. QED  BY <1>1, <1>3, <1>4, <1>5 DEF Reading, calls, n

LEMMA ItemsRead ==
    ASSUME Inv, NEW v \in Parts(input), NEW pr, NEW p, NEW d
    PROVE  Reading(Items(v, pr, p, d)) /\ Len(Items(v, pr, p, d)) = Len(v.items)
<1> DEFINE calls == Items(v, pr, p, d)
           n == Len(v.items)
<1>1. n \in Nat /\ DOMAIN v.items = 1..n /\ \A i \in 1..n : v.items[i] \in Parts(input)
  BY PartsInside
<1>2. calls = [i \in 1..n |-> Call(pr, v.items[i], Append(p, Index(i - 1)), d)]
  BY <1>1 DEF Items
<1>3. \A i \in 1..n : calls[i].val = v.items[i]
  BY <1>2 DEF Call
<1>4. DOMAIN calls = 1..n /\ calls = [i \in 1..n |-> calls[i]]
  BY <1>2
<1> HIDE DEF calls, n
<1>5. IsSequence(calls) /\ Len(calls) = n
  BY <1>1, <1>4, MappedSequence
<1>6. QED  BY <1>1, <1>3, <1>4, <1>5 DEF Reading, calls, n
-----------------------------------------------------------------------------
(* Where a procedure is called, and where its operands are complete.       *)

LEMMA AtCall ==
    ASSUME Inv, Kept, mode = "call"
    PROVE  /\ Rests(stack) /\ val \in Parts(input)
           /\ Due(stack) \in Typed => proc = Due(stack)
<1>1. Rests(stack)
  BY StackRests
<1>2. val \in Parts(input)
  BY DEF Kept, OperandsSound
<1>3. Due(stack) \in Typed => proc = Due(stack)
  BY DEF Kept, PromisesKept, Due, Typed, Top
<1>4. QED  BY <1>1, <1>2, <1>3

LEMMA CallFails == ASSUME Inv, Kept, mode = "call", Fail(stack) PROVE Kept'
  BY AtCall, FailStep

LEMMA PlainReturn ==
    ASSUME Inv, Kept, mode = "call", proc \notin Typed,
           NEW n, SoundTree(cfg, n), Return(n, stack)
    PROVE  Kept'
<1>1. Due(stack) \notin Typed
  BY AtCall
<1>2. QED  BY <1>1, AtCall, NothingPromised, ReturnStep

LEMMA PlainStart ==
    ASSUME Inv, Kept, mode = "call", proc \notin Typed,
           NEW pc, NEW op, NEW calls, Reading(calls),
           Opened(Frame(pc, op, calls)), pc # "Wanted",
           Continue(Frame(pc, op, calls), stack)
    PROVE  Kept'
<1>1. Due(stack) \notin Typed
  BY AtCall
<1>2. QED  BY <1>1, AtCall, StartStep

\* The frame on top, with what it has collected.
LEMMA AtTop ==
    ASSUME Inv, Kept, stack # << >>
    PROVE  /\ Rests(Below) /\ FrameSound(Top) /\ Opened(Top) /\ Yields(Top, Due(Below))
           /\ SoundTree(cfg, node) /\ val \in Parts(input)
           /\ IsSequence(Top.calls) /\ IsSequence(Top.acc)
           /\ \A i \in DOMAIN Top.acc : SoundTree(cfg, Top.acc[i])
<1>1. FrameSound(Top)
  BY BelowRests
<1>2. QED  BY <1>1, BelowRests DEF FrameSound, IsSequence

LEMMA AtComplete ==
    ASSUME NEW pc, Inv, Kept, Complete(pc)
    PROVE  /\ stack # << >> /\ Top.pc = pc /\ pc # "Try"
           /\ Rests(Below) /\ FrameSound(Top) /\ Opened(Top) /\ Yields(Top, Due(Below))
           /\ val \in Parts(input)
           /\ IsSequence(Top.acc) /\ Len(Top.acc) = OperandCount(Top)
           /\ DOMAIN Top.acc = 1..Len(Top.acc) /\ Len(Top.acc) \in Nat
           /\ \A i \in DOMAIN Top.acc : SoundTree(cfg, Top.acc[i])
           /\ pc # "Wanted" => \A i \in DOMAIN Top.acc : Promised(Top.calls[i].proc, Top.acc[i])
<1>1. mode = "complete" /\ Top.pc = pc /\ stack # << >> /\ pc # "Try"
  BY DEF Complete, Inv, TypeOK
<1>2. /\ Rests(Below) /\ FrameSound(Top) /\ Opened(Top) /\ Yields(Top, Due(Below))
      /\ val \in Parts(input) /\ IsSequence(Top.calls) /\ IsSequence(Top.acc)
      /\ \A i \in DOMAIN Top.acc : SoundTree(cfg, Top.acc[i])
  BY <1>1, AtTop
<1>3. DOMAIN Top.acc = 1..Len(Top.acc) /\ Len(Top.acc) \in Nat
      /\ DOMAIN Top.calls = 1..Len(Top.calls) /\ Len(Top.calls) \in Nat
  BY <1>2, SequenceFacts
<1>4. OperandCount(Top) \in Nat
  BY <1>3 DEF OperandCount
<1>5. Len(Top.acc) = Top.next - 1 /\ Top.next = OperandCount(Top) + 1
  BY <1>1, <1>2, BelowRests DEF FrameSound
<1>6. Len(Top.acc) = OperandCount(Top)
  BY <1>4, <1>5
<1>7. pc # "Wanted" => DOMAIN Top.acc = DOMAIN Top.calls
  BY <1>1, <1>3, <1>6 DEF OperandCount
<1>8. pc # "Wanted" => \A i \in DOMAIN Top.acc : Promised(Top.calls[i].proc, Top.acc[i])
  BY <1>2, <1>7 DEF FrameSound
<1>9. QED  BY <1>1, <1>2, <1>3, <1>6, <1>8

LEMMA CompleteFails == ASSUME NEW pc, Inv, Kept, Complete(pc), Fail(Below) PROVE Kept'
  BY AtComplete, FailStep

LEMMA PlainComplete ==
    ASSUME NEW pc, Inv, Kept, Complete(pc), pc \notin {"Arithmetic", "Function", "Wanted"},
           NEW n, SoundTree(cfg, n), Return(n, Below)
    PROVE  Kept'
<1>1. Due(Below) \notin Typed
  BY AtComplete, YieldsTyped
<1>2. QED  BY <1>1, AtComplete, NothingPromised, ReturnStep

-----------------------------------------------------------------------------
(* Control.                                                                *)

LEMMA MaximumDepthExceededKept == ASSUME Inv, Kept, MaximumDepthExceeded PROVE Kept'
  BY CallFails DEF MaximumDepthExceeded

LEMMA UnwindKept == ASSUME Inv, Kept, Unwind PROVE Kept'
  BY AtTop, FailStep DEF Unwind

LEMMA AlternativeSucceededKept == ASSUME Inv, Kept, AlternativeSucceeded PROVE Kept'
<1>1. stack # << >> /\ Top.pc = "Try" /\ Return(node, Below)
  BY DEF AlternativeSucceeded
<1>2. Due(Below) \notin Typed
  BY <1>1, AtTop, YieldsTyped
<1>3. QED  BY <1>1, <1>2, AtTop, NothingPromised, ReturnStep

LEMMA AdvancedFields ==
    ASSUME NEW f, NEW acc
    PROVE  /\ Advanced(f, acc).pc = f.pc /\ Advanced(f, acc).op = f.op
           /\ Advanced(f, acc).val = f.val /\ Advanced(f, acc).calls = f.calls
           /\ Advanced(f, acc).next = f.next + 1 /\ Advanced(f, acc).acc = acc
  BY DEF Advanced

LEMMA AdvancedAlike ==
    ASSUME NEW f, NEW acc
    PROVE  /\ Opened(f) => Opened(Advanced(f, acc))
           /\ OperandCount(Advanced(f, acc)) = OperandCount(f)
           /\ \A pr : Yields(f, pr) => Yields(Advanced(f, acc), pr)
<1> DEFINE g == Advanced(f, acc)
<1>1. g.pc = f.pc /\ g.op = f.op /\ g.val = f.val /\ g.calls = f.calls
  BY AdvancedFields
<1> HIDE DEF g
<1>2. OperandCount(g) = OperandCount(f)
  BY <1>1 DEF OperandCount
<1>3. Opened(f) => Opened(g)
  BY <1>1, <1>2 DEF Opened
<1>4. \A pr : Yields(f, pr) => Yields(g, pr)
  BY <1>1 DEF Yields
<1>5. QED  BY <1>2, <1>3, <1>4 DEF g

LEMMA CollectKept == ASSUME Inv, Kept, Collect PROVE Kept'
<1> DEFINE acc == Append(Top.acc, node)
           f == Advanced(Top, acc)
           n == Len(Top.acc)
<1>1. stack # << >> /\ Top.pc # "Try" /\ mode = "return" /\ Continue(f, Below)
  BY DEF Collect
<1>2. /\ Rests(Below) /\ FrameSound(Top) /\ Opened(Top) /\ Yields(Top, Due(Below))
      /\ SoundTree(cfg, node) /\ val \in Parts(input)
      /\ IsSequence(Top.calls) /\ IsSequence(Top.acc)
      /\ \A i \in DOMAIN Top.acc : SoundTree(cfg, Top.acc[i])
  BY <1>1, AtTop
<1>3. /\ IsSequence(acc) /\ Len(acc) = n + 1 /\ n \in Nat
      /\ \A i \in 1..n : acc[i] = Top.acc[i]
      /\ acc[n + 1] = node
      /\ DOMAIN acc = 1 .. n + 1
  BY <1>2, MoreOperands
<1>4. DOMAIN Top.acc = 1..n /\ DOMAIN Top.calls = 1..Len(Top.calls) /\ Len(Top.calls) \in Nat
  BY <1>2, SequenceFacts
<1>5. Waiting(Top)
  BY <1>1, BelowRests
<1>6. Top.next = n + 1 /\ Top.next <= OperandCount(Top)
  <2>1. n = Top.next - 1 /\ Top.next \in Nat
    BY <1>1, <1>2, Popping DEF FrameSound, Inv, FrameOK
  <2>2. QED  BY <1>1, <1>5, <2>1 DEF Waiting
<1>7. Promised(Awaited(Top), node)
  BY <1>1 DEF Kept, PromisesKept
<1>8. /\ f.pc = Top.pc /\ f.calls = Top.calls /\ f.next = n + 2 /\ f.acc = acc
      /\ Opened(f) /\ OperandCount(f) = OperandCount(Top) /\ Yields(f, Due(Below))
  <2> HIDE DEF acc, n
  <2>1. f.next = Top.next + 1 /\ f.pc = Top.pc /\ f.calls = Top.calls /\ f.acc = acc
    BY AdvancedFields
  <2>2. Opened(f) /\ OperandCount(f) = OperandCount(Top) /\ Yields(f, Due(Below))
    BY <1>2, AdvancedAlike
  <2> HIDE DEF f
  <2>3. f.next = n + 2
    BY <1>3, <1>6, <2>1
  <2>4. QED  BY <2>1, <2>2, <2>3
<1> HIDE DEF acc, f, n
<1>9. \A i \in DOMAIN acc : i \in 1..n \/ i = n + 1
  BY <1>3
<1>10. \A i \in DOMAIN acc : SoundTree(cfg, acc[i])
  BY <1>2, <1>3, <1>4, <1>9
<1>11. \A i \in DOMAIN acc \cap DOMAIN Top.calls : Promised(Top.calls[i].proc, acc[i])
  <2> TAKE i \in DOMAIN acc \cap DOMAIN Top.calls
  <2>1. CASE i = n + 1
    BY <1>3, <1>6, <1>7, <2>1 DEF Awaited
  <2>2. CASE i \in 1..n
    BY <1>2, <1>3, <1>4, <2>2 DEF FrameSound
  <2>3. QED  BY <1>9, <2>1, <2>2
<1>12. FrameSound(f)
  <2>1. f.calls \in Seq({f.calls[i] : i \in DOMAIN f.calls}) /\ \A i \in DOMAIN f.calls : f.calls[i].val \in Parts(input)
    BY <1>2, <1>8 DEF FrameSound
  <2>2. Len(f.acc) = f.next - 1
    BY <1>3, <1>8
  <2>3. QED  BY <1>3, <1>8, <1>10, <1>11, <2>1, <2>2 DEF FrameSound, IsSequence
<1>13. OperandCount(Top) = IF Top.pc = "Wanted" THEN 1 ELSE Len(Top.calls)
  BY DEF OperandCount
<1>14. Steady(f)
  <2>1. CASE Top.pc = "Wanted"
    <3>1. f.next = 2 /\ OperandCount(f) = 1
      BY <1>3, <1>6, <1>8, <1>13, <2>1
    <3>2. 2 \notin DOMAIN f.calls
      BY <1>2, <1>4, <1>8, <2>1 DEF Opened
    <3>3. QED  BY <1>12, <3>1, <3>2 DEF Steady
  <2>2. CASE Top.pc # "Wanted"
    BY <1>3, <1>4, <1>6, <1>8, <1>12, <1>13, <2>2 DEF Steady, Waiting
  <2>3. QED  BY <2>1, <2>2
<1>15. QED  BY <1>1, <1>2, <1>8, <1>14, ContinueStep DEF f

LEMMA AlternativeFailedKept == ASSUME Inv, Kept, AlternativeFailed PROVE Kept'
<1> DEFINE f == Advanced(Top, << >>)
<1>1. stack # << >> /\ Top.pc = "Try" /\ mode = "fail"
      /\ (Fail(Below) \/ (Continue(f, Below) /\ Top.next + 1 \in DOMAIN Top.calls))
  BY DEF AlternativeFailed, LastAlternative
<1>2. CASE Fail(Below)
  BY <1>1, <1>2, AtTop, FailStep
<1>3. CASE Continue(f, Below) /\ Top.next + 1 \in DOMAIN Top.calls
  <2>1. /\ Rests(Below) /\ FrameSound(Top) /\ Opened(Top) /\ Yields(Top, Due(Below))
        /\ val \in Parts(input)
    BY <1>1, AtTop
  <2>2. /\ f.pc = "Try" /\ f.calls = Top.calls /\ f.next = Top.next + 1 /\ f.acc = << >>
        /\ Opened(f) /\ Yields(f, Due(Below))
    BY <1>1, <2>1, AdvancedFields, AdvancedAlike
  <2> HIDE DEF f
  <2>3. << >> \in Seq({<< >>[i] : i \in DOMAIN << >>}) /\ DOMAIN << >> = {}
    OBVIOUS
  <2>4. FrameSound(f)
    BY <2>1, <2>2, <2>3 DEF FrameSound
  <2>5. Steady(f)
    BY <1>3, <2>2, <2>4 DEF Steady, Waiting
  <2>6. QED  BY <1>3, <2>1, <2>2, <2>5, ContinueStep
<1>4. QED  BY <1>1, <1>2, <1>3
-----------------------------------------------------------------------------
(* Literals, properties and instants.                                      *)

LEMMA LiteralTree ==
    ASSUME NEW text, NEW type \in {"string", "number", "boolean"}, NEW src
    PROVE  SoundTree(cfg, Node("Literal", text, {type}, << >>, src))
<1>1. \A i \in DOMAIN << >> : SoundTree(cfg, << >>[i])
  OBVIOUS
<1>2. QED  BY <1>1, PlainTree DEF PlainKinds

LEMMA InstantTree ==
    ASSUME NEW text, NEW kind \in InstantTypes, NEW src
    PROVE  SoundTree(cfg, Instant(text, kind, src))
<1>1. \A i \in DOMAIN << >> : SoundTree(cfg, << >>[i])
  OBVIOUS
<1>2. QED  BY <1>1, PlainTree DEF Instant, PlainKinds

LEMMA ReturnLiteralKept ==
    ASSUME Inv, Kept, mode = "call", proc \notin Typed, val.t \in {"bool", "string", "number"},
           ReturnLiteral
    PROVE  Kept'
<1> DEFINE text == val.text
           type == LiteralType(val)
           n == Node("Literal", text, {type}, << >>, path)
<1>1. type \in {"string", "number", "boolean"} /\ Return(n, stack)
  BY DEF ReturnLiteral, LiteralType
<1> HIDE DEF text, type
<1>2. SoundTree(cfg, n)
  BY <1>1, LiteralTree
<1> HIDE DEF n
<1>3. QED  BY <1>1, <1>2, PlainReturn

LEMMA ReturnPropertyKept ==
    ASSUME Inv, Kept, mode = "call", proc \notin Typed, ReturnProperty
    PROVE  Kept'
<1> DEFINE name == val.fields["property"].text
           type == PropertyTypeOf(name)
<1>1. \/ Fail(stack)
      \/ /\ Registered(name) /\ type \in KnownPropertyTypes \cup {"any"}
         /\ Return(Node("Property", name, {type}, << >>, path), stack)
  BY DEF ReturnProperty
<1>2. CASE /\ Registered(name) /\ type \in KnownPropertyTypes \cup {"any"}
           /\ Return(Node("Property", name, {type}, << >>, path), stack)
  <2>1. cfg.restricted => name \in DOMAIN cfg.properties /\ type = cfg.properties[name]
    BY <1>2 DEF Registered, PropertyTypeOf
  <2> HIDE DEF name, type
  <2>2. SoundTree(cfg, Node("Property", name, {type}, << >>, path))
    BY <1>2, <2>1, PropertyTree
  <2>3. QED  BY <1>2, <2>2, PlainReturn
<1>3. QED  BY <1>1, <1>2, CallFails

LEMMA ReturnInstantKept ==
    ASSUME Inv, Kept, mode = "call", proc \notin Typed, ReturnInstant
    PROVE  Kept'
<1>1. \/ Fail(stack)
      \/ \E text : \E kind \in InstantTypes : Return(Instant(text, kind, path), stack)
  BY DEF ReturnInstant, InstantTypes
<1>2. QED  BY <1>1, CallFails, InstantTree, PlainReturn

-----------------------------------------------------------------------------
(* parseJSONExpression                                                     *)

LEMMA LiteralExpressionKept == ASSUME Inv, Kept, LiteralExpression PROVE Kept'
  BY ReturnLiteralKept DEF LiteralExpression, Calling, Typed

LEMMA NotAnExpressionKept == ASSUME Inv, Kept, NotAnExpression PROVE Kept'
  BY CallFails DEF NotAnExpression, Calling

LEMMA PredicateNamed ==
    ASSUME NEW op, IsPredicateOp(op)
    PROVE  Folded(op) \in PredicateNames
<1>1. CASE op \in DOMAIN TreeName /\ TreeName[op] \in SpatialOps \cup TemporalOps \cup ArrayOps
  BY <1>1 DEF Folded, PredicateNames
<1>2. CASE op = "a_containedby"
  <2>1. "a_containedby" \notin DOMAIN TreeName
    BY DEF TreeName
  <2>2. /\ "a_containedby" \in DOMAIN OtherSpellings
        /\ OtherSpellings["a_containedby"] = "A_CONTAINEDBY"
    BY DEF OtherSpellings
  <2>3. QED  BY <1>2, <2>1, <2>2 DEF Folded, PredicateNames, ArrayOps
<1>3. QED  BY <1>1, <1>2 DEF IsPredicateOp

LEMMA EnabledSwitchedOn ==
    ASSUME NEW op \in PredicateNames, PredicateEnabled(op)
    PROVE  SwitchedOn(cfg, op)
<1>1. CASE op \in TemporalOps
  BY <1>1, OperatorKinds DEF PredicateEnabled, SwitchedOn
<1>2. CASE op \in ArrayOps
  BY <1>2, OperatorKinds DEF PredicateEnabled, SwitchedOn
<1>3. CASE op \notin TemporalOps /\ op \notin ArrayOps
  BY <1>3 DEF PredicateEnabled, SwitchedOn
<1>4. QED  BY <1>1, <1>2, <1>3

LEMMA PredicateExpressionKept == ASSUME Inv, Kept, PredicateExpression PROVE Kept'
<1> DEFINE op == Folded(OpName(val))
           calls == Arguments(OperandProc(op), depth + 1)
<1>1. /\ mode = "call" /\ proc = "Expression" /\ IsCall(val) /\ IsPredicateOp(OpName(val))
      /\ \/ Fail(stack)
         \/ PredicateEnabled(op) /\ Arity(2) /\ Continue(Frame("Predicate", op, calls), stack)
  BY DEF PredicateExpression, Calling
<1>2. op \in PredicateNames
  BY <1>1, PredicateNamed
<1>3. CASE PredicateEnabled(op) /\ Arity(2) /\ Continue(Frame("Predicate", op, calls), stack)
  <2>1. Reading(calls) /\ Len(calls) = 2
    BY <1>1, <1>3, AtCall, ArgumentsRead DEF Arity
  <2> HIDE DEF op, calls
  <2>2. Opened(Frame("Predicate", op, calls))
    BY <1>2, <1>3, <2>1, FrameFields DEF Opened, PredicateNames
  <2>3. QED  BY <1>1, <1>3, <2>1, <2>2, PlainStart DEF Typed
<1>4. QED  BY <1>1, <1>3, CallFails

LEMMA PredicateCompleteKept == ASSUME Inv, Kept, PredicateComplete PROVE Kept'
<1>1. /\ Complete("Predicate")
      /\ \/ Fail(Below)
         \/ /\ ValidOperands(Top.op, Top.acc[1], Top.acc[2])
            /\ Return(Predicate(PredicateKind(Top.op), Top.op, Top.acc, Top.src), Below)
  BY DEF PredicateComplete
<1>2. CASE /\ ValidOperands(Top.op, Top.acc[1], Top.acc[2])
           /\ Return(Predicate(PredicateKind(Top.op), Top.op, Top.acc, Top.src), Below)
  <2>1. /\ Top.pc = "Predicate" /\ Opened(Top) /\ Len(Top.acc) = OperandCount(Top)
        /\ DOMAIN Top.acc = 1..Len(Top.acc)
        /\ \A i \in DOMAIN Top.acc : SoundTree(cfg, Top.acc[i])
    BY <1>1, AtComplete
  <2>2. Top.op \in PredicateNames /\ SwitchedOn(cfg, Top.op) /\ DOMAIN Top.acc = 1..2
    BY <2>1, EnabledSwitchedOn DEF Opened, PredicateNames, OperandCount
  <2>3. SoundTree(cfg, Predicate(PredicateKind(Top.op), Top.op, Top.acc, Top.src))
    BY <1>2, <2>1, <2>2, OperandsTree
  <2>4. QED  BY <1>1, <1>2, <2>3, PlainComplete
<1>3. QED  BY <1>1, <1>2, CompleteFails

\* A frame of every argument of an operation that checks nothing else.
LEMMA PlainOperation ==
    ASSUME Inv, Kept, mode = "call", proc \notin Typed, IsCall(val), NEW pc \in PlainPcs,
           NEW op, NEW pr, NEW d, Continue(Frame(pc, op, Arguments(pr, d)), stack)
    PROVE  Kept'
<1> DEFINE calls == Arguments(pr, d)
<1>1. Reading(calls)
  BY AtCall, ArgumentsRead
<1> HIDE DEF calls
<1>2. Opened(Frame(pc, op, calls)) /\ pc # "Wanted"
  BY FrameFields, PlainOpened DEF PlainPcs
<1>3. QED  BY <1>1, <1>2, PlainStart DEF calls

LEMMA LogicalExpressionKept == ASSUME Inv, Kept, LogicalExpression PROVE Kept'
<1> DEFINE op == Folded(OpName(val))
<1>1. /\ mode = "call" /\ proc = "Expression" /\ IsCall(val)
      /\ Fail(stack) \/ Continue(Frame("Logical", op, Arguments("Expression", depth + 1)), stack)
  BY DEF LogicalExpression, ExpressionIs, Calling
<1> HIDE DEF op
<1>2. QED  BY <1>1, CallFails, PlainOperation DEF Typed, PlainPcs

LEMMA LogicalCompleteKept == ASSUME Inv, Kept, LogicalComplete PROVE Kept'
<1>1. Complete("Logical") /\ Return(Predicate("Logical", Top.op, Top.acc, Top.src), Below)
  BY DEF LogicalComplete
<1>2. \A i \in DOMAIN Top.acc : SoundTree(cfg, Top.acc[i])
  BY <1>1, AtComplete
<1>3. SoundTree(cfg, Predicate("Logical", Top.op, Top.acc, Top.src))
  BY <1>2, PlainTree DEF Predicate, PlainKinds
<1>4. QED  BY <1>1, <1>3, PlainComplete

LEMMA NotExpressionKept == ASSUME Inv, Kept, NotExpression PROVE Kept'
<1> DEFINE calls == Arguments("Expression", depth + 1)
<1>1. /\ mode = "call" /\ proc = "Expression" /\ IsCall(val)
      /\ Fail(stack) \/ (Arity(1) /\ Continue(Frame("Not", "NOT", calls), stack))
  BY DEF NotExpression, ExpressionIs, Calling
<1>2. CASE Arity(1) /\ Continue(Frame("Not", "NOT", calls), stack)
  <2>1. Reading(calls) /\ Len(calls) = 1
    BY <1>1, <1>2, AtCall, ArgumentsRead DEF Arity
  <2> DEFINE f == Frame("Not", "NOT", calls)
  <2> HIDE DEF calls
  <2>2. f.pc = "Not" /\ f.calls = calls
    BY FrameFields
  <2> HIDE DEF f
  <2>3. Opened(f)
    BY <2>1, <2>2 DEF Opened
  <2>4. QED  BY <1>1, <1>2, <2>1, <2>3, PlainStart DEF Typed, f
<1>3. QED  BY <1>1, <1>2, CallFails

LEMMA NotCompleteKept == ASSUME Inv, Kept, NotComplete PROVE Kept'
<1> DEFINE n == Top.acc[1]
<1>1. Complete("Not") /\ Return(Negated(n, Top.src), Below)
  BY DEF NotComplete
<1>2. SoundTree(cfg, n)
  <2>1. /\ Top.pc = "Not" /\ Opened(Top) /\ Len(Top.acc) = OperandCount(Top)
        /\ DOMAIN Top.acc = 1..Len(Top.acc) /\ Len(Top.acc) \in Nat
        /\ \A i \in DOMAIN Top.acc : SoundTree(cfg, Top.acc[i])
    BY <1>1, AtComplete
  <2>2. 1 \in DOMAIN Top.acc
    BY <2>1 DEF Opened, OperandCount
  <2>3. QED  BY <2>1, <2>2
<1> HIDE DEF n
<1>3. SoundTree(cfg, Negated(n, Top.src))
  <2>1. CASE n.kind \in {"Like", "Between", "In", "IsNull"} /\ n.op = ""
    BY <1>2, <2>1, NegatedTree DEF Negated
  <2>2. CASE ~(n.kind \in {"Like", "Between", "In", "IsNull"} /\ n.op = "")
    <3>1. \A i \in DOMAIN <<n>> : SoundTree(cfg, <<n>>[i])
      BY <1>2
    <3>2. SoundTree(cfg, Node("Logical", "NOT", {"boolean"}, <<n>>, Top.src))
      BY <3>1, PlainTree DEF PlainKinds
    <3>3. Negated(n, Top.src) = Node("Logical", "NOT", {"boolean"}, <<n>>, Top.src)
      BY <2>2 DEF Negated, Predicate
    <3>4. QED  BY <3>2, <3>3
  <2>3. QED  BY <2>1, <2>2
<1>4. QED  BY <1>1, <1>3, PlainComplete

LEMMA ComparisonExpressionKept == ASSUME Inv, Kept, ComparisonExpression PROVE Kept'
<1> DEFINE op == OpName(val)
           calls == Arguments("Scalar", depth + 1)
           f == Frame("Comparison", op, calls)
<1>1. /\ mode = "call" /\ proc = "Expression" /\ IsCall(val)
      /\ Fail(stack) \/ (Arity(2) /\ Continue(f, stack))
  BY DEF ComparisonExpression, ExpressionIs, Calling
<1>2. CASE Arity(2) /\ Continue(f, stack)
  <2>1. Reading(calls) /\ Len(calls) = 2
    BY <1>1, <1>2, AtCall, ArgumentsRead DEF Arity
  <2> HIDE DEF calls, op
  <2>2. f.pc = "Comparison" /\ f.calls = calls
    BY FrameFields
  <2> HIDE DEF f
  <2>3. Opened(f)
    BY <2>1, <2>2 DEF Opened
  <2>4. QED  BY <1>1, <1>2, <2>1, <2>3, PlainStart DEF Typed, f
<1>3. QED  BY <1>1, <1>2, CallFails

LEMMA ComparisonCompleteKept == ASSUME Inv, Kept, ComparisonComplete PROVE Kept'
<1>1. /\ Complete("Comparison")
      /\ \/ Fail(Below)
         \/ /\ ValidComparison(Top.op, Top.acc[1], Top.acc[2])
            /\ ValidPropertyUse(cfg.propertyProperty, Top.acc)
            /\ Return(Predicate("Comparison", Top.op, Top.acc, Top.src), Below)
  BY DEF ComparisonComplete
<1>2. CASE /\ ValidComparison(Top.op, Top.acc[1], Top.acc[2])
           /\ ValidPropertyUse(cfg.propertyProperty, Top.acc)
           /\ Return(Predicate("Comparison", Top.op, Top.acc, Top.src), Below)
  <2>1. /\ Top.pc = "Comparison" /\ Opened(Top) /\ Len(Top.acc) = OperandCount(Top)
        /\ DOMAIN Top.acc = 1..Len(Top.acc)
        /\ \A i \in DOMAIN Top.acc : SoundTree(cfg, Top.acc[i])
    BY <1>1, AtComplete
  <2>2. DOMAIN Top.acc = 1..2 /\ Len(Top.acc) = 2
    BY <2>1 DEF Opened, OperandCount
  <2>3. cfg.propertyProperty \/ NoReferences(Top.acc)
    BY <1>2, PropertyUse
  <2>4. SoundTree(cfg, Predicate("Comparison", Top.op, Top.acc, Top.src))
    BY <1>2, <2>1, <2>2, <2>3, ComparisonTree
  <2>5. QED  BY <1>1, <1>2, <2>4, PlainComplete
<1>3. QED  BY <1>1, <1>2, CompleteFails

LEMMA LikeExpressionKept == ASSUME Inv, Kept, LikeExpression PROVE Kept'
<1> DEFINE first == Argument(1, "Character", depth + 1)
           second == Argument(2, "Pattern", depth + 1)
           calls == <<first, second>>
           f == Frame("Like", "", calls)
<1>1. /\ mode = "call" /\ proc = "Expression" /\ IsCall(val)
      /\ Fail(stack) \/ (cfg.advanced /\ Arity(2) /\ Continue(f, stack))
  BY DEF LikeExpression, ExpressionIs, Calling
<1>2. CASE cfg.advanced /\ Arity(2) /\ Continue(f, stack)
  <2>1. Args(val)[1] \in Parts(input) /\ Args(val)[2] \in Parts(input)
    <3>1. val \in Parts(input)
      BY <1>1, AtCall
    <3>2. DOMAIN Args(val) = 1..2 /\ \A i \in DOMAIN Args(val) : Args(val)[i] \in Parts(input)
      BY <1>1, <1>2, <3>1, ArgsInside DEF Arity
    <3>3. QED  BY <3>2
  <2>2. /\ first.val \in Parts(input) /\ second.val \in Parts(input)
        /\ first.proc = "Character" /\ second.proc = "Pattern"
    BY <2>1 DEF Argument, Call
  <2> HIDE DEF first, second
  <2>3. /\ calls[1] = first /\ calls[2] = second /\ Len(calls) = 2
        /\ DOMAIN calls = 1..2 /\ calls = [i \in 1..2 |-> calls[i]]
    OBVIOUS
  <2> HIDE DEF calls
  <2>4. IsSequence(calls)
    BY <2>3, MappedSequence
  <2>5. Reading(calls)
    BY <2>2, <2>3, <2>4 DEF Reading
  <2>6. f.pc = "Like" /\ f.calls = calls
    BY DEF Frame
  <2> HIDE DEF f
  <2>7. Opened(f)
    BY <1>2, <2>2, <2>3, <2>6 DEF Opened
  <2>8. QED  BY <1>1, <1>2, <2>5, <2>7, PlainStart DEF Typed, f
<1>3. QED  BY <1>1, <1>2, CallFails

LEMMA BetweenExpressionKept == ASSUME Inv, Kept, BetweenExpression PROVE Kept'
<1> DEFINE calls == Arguments("Numeric", depth + 1)
           f == Frame("Between", "", calls)
<1>1. /\ mode = "call" /\ proc = "Expression" /\ IsCall(val)
      /\ Fail(stack) \/ (cfg.advanced /\ Continue(f, stack))
  BY DEF BetweenExpression, ExpressionIs, Calling
<1>2. CASE cfg.advanced /\ Continue(f, stack)
  <2>1. Reading(calls) /\ \A i \in DOMAIN calls : calls[i].proc = "Numeric"
    BY <1>1, AtCall, ArgumentsRead
  <2> HIDE DEF calls
  <2>2. f.pc = "Between" /\ f.calls = calls
    BY DEF Frame
  <2> HIDE DEF f
  <2>3. Opened(f)
    BY <1>2, <2>1, <2>2 DEF Opened
  <2>4. QED  BY <1>1, <1>2, <2>1, <2>3, PlainStart DEF Typed, f
<1>3. QED  BY <1>1, <1>2, CallFails

\* The operands of LIKE and of BETWEEN are what their calls promise.
LEMMA LikeOperands ==
    ASSUME Inv, Kept, Complete("Like")
    PROVE  /\ Top.pc = "Like" /\ cfg.advanced /\ DOMAIN Top.acc = 1..2 /\ Len(Top.acc) = 2
           /\ \A i \in DOMAIN Top.acc : SoundTree(cfg, Top.acc[i])
           /\ CanBe(Top.acc[1], {"string"}) \/ IsCast(Top.acc[1])
           /\ IsPattern(Top.acc[2])
<1>1. /\ Top.pc = "Like" /\ Opened(Top) /\ Len(Top.acc) = OperandCount(Top)
      /\ DOMAIN Top.acc = 1..Len(Top.acc)
      /\ \A i \in DOMAIN Top.acc : SoundTree(cfg, Top.acc[i])
      /\ \A i \in DOMAIN Top.acc : Promised(Top.calls[i].proc, Top.acc[i])
  BY AtComplete
<1>2. /\ cfg.advanced /\ Len(Top.acc) = 2
      /\ Top.calls[1].proc = "Character" /\ Top.calls[2].proc = "Pattern"
  BY <1>1 DEF Opened, OperandCount
<1>3. Promised("Character", Top.acc[1]) /\ Promised("Pattern", Top.acc[2]) /\ TypedNode(Top.acc[1])
  BY <1>1, <1>2 DEF SoundTree
<1>4. (IsCharacter(Top.acc[1]) \/ IsCast(Top.acc[1])) /\ IsPattern(Top.acc[2])
  BY <1>3 DEF Promised
<1>5. QED  BY <1>1, <1>2, <1>3, <1>4, CharacterCanBe

LEMMA NumericOperands ==
    ASSUME NEW pc \in {"Between", "Arithmetic"}, Inv, Kept, Complete(pc)
    PROVE  /\ Top.pc = pc /\ Opened(Top)
           /\ DOMAIN Top.acc = 1..Len(Top.acc) /\ Len(Top.acc) \in Nat
           /\ \A i \in DOMAIN Top.acc : SoundTree(cfg, Top.acc[i]) /\ CanBe(Top.acc[i], {"number"})
<1>1. /\ Top.pc = pc /\ Opened(Top) /\ FrameSound(Top) /\ Len(Top.acc) = OperandCount(Top)
      /\ DOMAIN Top.acc = 1..Len(Top.acc) /\ Len(Top.acc) \in Nat
      /\ \A i \in DOMAIN Top.acc : SoundTree(cfg, Top.acc[i])
      /\ \A i \in DOMAIN Top.acc : Promised(Top.calls[i].proc, Top.acc[i])
  BY AtComplete
<1>2. DOMAIN Top.calls = 1..Len(Top.calls)
  BY <1>1, SequenceFacts DEF FrameSound, IsSequence
<1>3. \A i \in DOMAIN Top.acc : Top.calls[i].proc = "Numeric"
  BY <1>1, <1>2 DEF Opened, OperandCount
<1>4. ASSUME NEW i \in DOMAIN Top.acc PROVE CanBe(Top.acc[i], {"number"})
  <2>1. Promised("Numeric", Top.acc[i]) /\ TypedNode(Top.acc[i])
    BY <1>1, <1>3 DEF SoundTree
  <2>2. IsNumeric(Top.acc[i])
    BY <2>1 DEF Promised
  <2>3. QED  BY <2>1, <2>2, NumericCanBe
<1>5. QED  BY <1>1, <1>4

LEMMA LikeOrBetweenCompleteKept == ASSUME Inv, Kept, LikeOrBetweenComplete PROVE Kept'
<1>1. /\ Complete("Like") \/ Complete("Between")
      /\ \/ Fail(Below)
         \/ /\ ValidPropertyUse(cfg.propertyProperty, Top.acc)
            /\ Return(Predicate(Top.pc, "", Top.acc, Top.src), Below)
  BY DEF LikeOrBetweenComplete
<1>2. CASE Fail(Below)
  BY <1>1, <1>2, CompleteFails
<1>3. CASE /\ ValidPropertyUse(cfg.propertyProperty, Top.acc)
           /\ Return(Predicate(Top.pc, "", Top.acc, Top.src), Below)
  <2>1. cfg.propertyProperty \/ NoReferences(Top.acc)
    <3>1. ValidPropertyUse(cfg.propertyProperty, Top.acc)
      BY <1>3
    <3>2. QED  BY <3>1, PropertyUse
  <2>2. CASE Complete("Like")
    <3>1. SoundTree(cfg, Predicate("Like", "", Top.acc, Top.src)) /\ Top.pc = "Like"
      BY <2>1, <2>2, LikeOperands, LikeTree
    <3>2. QED  BY <1>3, <2>2, <3>1, PlainComplete
  <2>3. CASE Complete("Between")
    <3>1. Top.pc = "Between" /\ cfg.advanced
      BY <2>3, NumericOperands DEF Opened
    <3>2. SoundTree(cfg, Predicate("Between", "", Top.acc, Top.src))
      BY <2>1, <2>3, <3>1, NumericOperands, BetweenTree
    <3>3. QED  BY <1>3, <2>3, <3>1, <3>2, PlainComplete
  <2>4. QED  BY <1>1, <2>2, <2>3
<1>4. QED  BY <1>1, <1>2, <1>3

\* The operand of IN and the items of its list are values of the document.
LEMMA ListCallsRead ==
    ASSUME Inv, val \in Parts(input), IsCall(val), Arity(2), NEW pr
    PROVE  Reading(ListCalls(pr)) /\ Len(ListCalls(pr)) > 0
<1> DEFINE list == Args(val)[2]
           n == Len(list.items) + 1
           calls == ListCalls(pr)
<1>1. /\ DOMAIN Args(val) = 1..2 /\ \A i \in DOMAIN Args(val) : Args(val)[i] \in Parts(input)
  BY ArgsInside DEF Arity
<1>2. Args(val)[1] \in Parts(input) /\ list \in Parts(input)
  BY <1>1
<1>3. /\ DOMAIN list.items = 1..Len(list.items) /\ Len(list.items) \in Nat
      /\ \A i \in DOMAIN list.items : list.items[i] \in Parts(input)
  <2> HIDE DEF list
  <2>1. QED  BY <1>2, PartsInside
<1>4. calls = [i \in 1..n |-> IF i = 1 THEN Argument(1, "Scalar", depth + 1)
                               ELSE Call(pr, list.items[i - 1], Append(ArgPath(path, 1), Index(i - 2)), depth + 2)]
  BY DEF ListCalls
<1>5. ASSUME NEW i \in 1..n
      PROVE  calls[i].val \in Parts(input)
  <2>1. CASE i = 1
    <3>1. calls[i] = Argument(1, "Scalar", depth + 1)
      BY <1>4, <2>1
    <3>2. QED  BY <1>2, <3>1 DEF Argument, Call
  <2>2. CASE i # 1
    <3>1. i - 1 \in DOMAIN list.items
      BY <1>3, <2>2
    <3>2. calls[i].val = list.items[i - 1]
      BY <1>4, <2>2 DEF Call
    <3>3. QED  BY <1>3, <3>1, <3>2
  <2>3. QED  BY <2>1, <2>2
<1>6. n \in Nat /\ n > 0
  BY <1>3
<1>7. DOMAIN calls = 1..n /\ calls = [i \in 1..n |-> calls[i]]
  BY <1>4
<1> HIDE DEF calls, n
<1>8. IsSequence(calls) /\ Len(calls) = n
  BY <1>6, <1>7, MappedSequence
<1>9. QED  BY <1>5, <1>6, <1>7, <1>8 DEF Reading, calls

LEMMA InExpressionKept == ASSUME Inv, Kept, InExpression PROVE Kept'
<1> DEFINE calls == ListCalls("Scalar")
           f == Frame("In", "", calls)
<1>1. /\ mode = "call" /\ proc = "Expression" /\ IsCall(val)
      /\ Fail(stack) \/ (cfg.advanced /\ Arity(2) /\ Continue(f, stack))
  BY DEF InExpression, ExpressionIs, Calling
<1>2. CASE cfg.advanced /\ Arity(2) /\ Continue(f, stack)
  <2>1. Reading(calls) /\ Len(calls) > 0
    BY <1>1, <1>2, AtCall, ListCallsRead
  <2> HIDE DEF calls
  <2>2. f.pc = "In" /\ f.calls = calls
    BY DEF Frame
  <2> HIDE DEF f
  <2>3. Opened(f)
    BY <1>2, <2>1, <2>2 DEF Opened
  <2>4. QED  BY <1>1, <1>2, <2>1, <2>3, PlainStart DEF Typed, f
<1>3. QED  BY <1>1, <1>2, CallFails

\* The first operand, and the rest of them.
LEMMA HeadAndTail ==
    ASSUME NEW acc, IsSequence(acc), Len(acc) > 0
    PROVE  /\ Head(acc) = acc[1] /\ 1 \in DOMAIN acc
           /\ Tail(acc) \in Seq({acc[i] : i \in DOMAIN acc})
           /\ \A i \in DOMAIN Tail(acc) : i + 1 \in DOMAIN acc /\ Tail(acc)[i] = acc[i + 1]
<1> DEFINE S == {acc[i] : i \in DOMAIN acc}
<1>1. acc \in Seq(S) /\ DOMAIN acc = 1..Len(acc) /\ Len(acc) \in Nat
  BY SequenceFacts DEF IsSequence
<1>2. acc # << >>
  BY <1>1
<1> HIDE DEF S
<1>3. /\ Tail(acc) \in Seq(S) /\ Len(Tail(acc)) = Len(acc) - 1
      /\ \A i \in 1..Len(Tail(acc)) : Tail(acc)[i] = acc[i + 1]
  BY <1>1, <1>2, HeadTailProperties
<1>4. DOMAIN Tail(acc) = 1..Len(Tail(acc)) /\ Len(Tail(acc)) \in Nat
  BY <1>3
<1>5. Head(acc) = acc[1] /\ 1 \in DOMAIN acc
  BY <1>1
<1>6. QED  BY <1>1, <1>3, <1>4, <1>5 DEF S

LEMMA InCompleteKept == ASSUME Inv, Kept, InComplete PROVE Kept'
<1> DEFINE expr == Head(Top.acc)
           values == Tail(Top.acc)
           args == <<expr>> \o [i \in DOMAIN values |-> InCoerce(expr, values[i])]
           S == {Top.acc[i] : i \in DOMAIN Top.acc}
<1>1. /\ Complete("In")
      /\ \/ Fail(Below)
         \/ /\ ValidIn(expr, values) /\ ValidPropertyUse(cfg.propertyProperty, args)
            /\ Return(Predicate("In", "", args, Top.src), Below)
  BY DEF InComplete
<1>2. CASE /\ ValidIn(expr, values) /\ ValidPropertyUse(cfg.propertyProperty, args)
           /\ Return(Predicate("In", "", args, Top.src), Below)
  <2>1. /\ Top.pc = "In" /\ Opened(Top) /\ Len(Top.acc) = OperandCount(Top) /\ IsSequence(Top.acc)
        /\ \A i \in DOMAIN Top.acc : SoundTree(cfg, Top.acc[i])
    BY <1>1, AtComplete
  <2>2. cfg.advanced /\ Len(Top.acc) > 0
    BY <2>1 DEF Opened, OperandCount
  <2>3. /\ expr = Top.acc[1] /\ 1 \in DOMAIN Top.acc /\ values \in Seq(S)
        /\ \A i \in DOMAIN values : i + 1 \in DOMAIN Top.acc /\ values[i] = Top.acc[i + 1]
    BY <2>1, <2>2, HeadAndTail
  <2>4. ValidPropertyUse(cfg.propertyProperty, args) /\ ValidIn(expr, values)
    BY <1>2
  <2>5. args = <<expr>> \o [i \in DOMAIN values |-> InCoerce(expr, values[i])]
    OBVIOUS
  <2> HIDE DEF expr, values, args, S
  <2>6. SoundTree(cfg, expr) /\ \A i \in DOMAIN values : SoundTree(cfg, values[i])
    BY <2>1, <2>3
  <2>7. cfg.propertyProperty \/ NoReferences(args)
    BY <2>4, PropertyUse
  <2> DEFINE op == ""
  <2> HIDE DEF op
  <2>8. SoundTree(cfg, Predicate("In", op, args, Top.src))
    BY <2>2, <2>3, <2>4, <2>5, <2>6, <2>7, ValidInTree
  <2>9. QED  BY <1>1, <1>2, <2>8, PlainComplete DEF op
<1>3. QED  BY <1>1, <1>2, CompleteFails

LEMMA IsNullExpressionKept == ASSUME Inv, Kept, IsNullExpression PROVE Kept'
<1> DEFINE op == ""
<1>1. /\ mode = "call" /\ proc = "Expression" /\ IsCall(val)
      /\ Fail(stack) \/ Continue(Frame("IsNull", op, Arguments("IsNullOperand", depth + 1)), stack)
  BY DEF IsNullExpression, ExpressionIs, Calling
<1> HIDE DEF op
<1>2. QED  BY <1>1, CallFails, PlainOperation DEF Typed, PlainPcs

LEMMA IsNullCompleteKept == ASSUME Inv, Kept, IsNullComplete PROVE Kept'
<1> DEFINE op == ""
<1>1. Complete("IsNull") /\ Return(Predicate("IsNull", op, Top.acc, Top.src), Below)
  BY DEF IsNullComplete
<1> HIDE DEF op
<1>2. \A i \in DOMAIN Top.acc : SoundTree(cfg, Top.acc[i])
  BY <1>1, AtComplete
<1>3. SoundTree(cfg, Predicate("IsNull", op, Top.acc, Top.src))
  BY <1>2, PlainTree DEF Predicate, PlainKinds
<1>4. QED  BY <1>1, <1>3, PlainComplete

-----------------------------------------------------------------------------
(* parseJSONFunction and the calls that want a kind of result.             *)

\* A call is put where nothing is promised of it.
LEMMA FunctionKept ==
    ASSUME Inv, NEW d, NEW st, Rests(st), Due(st) \notin Typed,
           val \in Parts(input), IsCall(val), Function(d, st)
    PROVE  Kept'
<1> DEFINE op == Folded(OpName(val))
           calls == Arguments("Node", d + 1)
<1>1. Continue(Frame("Function", op, calls), st)
  BY DEF Function
<1>2. Reading(calls)
  BY ArgumentsRead
<1> HIDE DEF op, calls
<1>3. Opened(Frame("Function", op, calls))
  BY FrameFields, PlainOpened DEF PlainPcs
<1>4. QED  BY <1>1, <1>2, <1>3, StartStep

Wants == {"boolean", "character", "numeric"}

LEMMA WantedHeld ==
    ASSUME NEW want \in Wants
    PROVE  /\ Held(Frame("Wanted", want, << >>))
           /\ Awaited(Frame("Wanted", want, << >>)) = "Function"
<1> DEFINE f == Frame("Wanted", want, << >>)
<1>1. f.pc = "Wanted" /\ f.op = want /\ f.calls = << >> /\ f.next = 1 /\ f.acc = << >>
  BY DEF Frame
<1> HIDE DEF f
<1>2. << >> \in Seq({<< >>[i] : i \in DOMAIN << >>}) /\ Len(<< >>) = 0 /\ DOMAIN << >> = {}
  OBVIOUS
<1>3. Opened(f)
  BY <1>1, <1>2 DEF Opened, Wants
<1>4. FrameSound(f)
  BY <1>1, <1>2, <1>3 DEF FrameSound
<1>5. Waiting(f)
  BY <1>1 DEF Waiting, OperandCount
<1>6. Awaited(f) = "Function"
  BY <1>1, <1>2 DEF Awaited
<1>7. QED  BY <1>4, <1>5, <1>6 DEF Held, f

LEMMA FunctionOfKept ==
    ASSUME Inv, Kept, mode = "call", IsCall(val), NEW want \in Wants, NEW d,
           Yields(Frame("Wanted", want, << >>), Due(stack)),
           FunctionOf(want, d)
    PROVE  Kept'
<1> DEFINE f == Frame("Wanted", want, << >>)
           st == Append(stack, f)
<1>1. Held(f) /\ Awaited(f) = "Function"
  BY WantedHeld
<1>2. Rests(stack) /\ val \in Parts(input)
  BY AtCall
<1>3. Rests(st) /\ Due(st) = Awaited(f)
  <2> HIDE DEF f
  <2>1. Yields(f, Due(stack))
    BY DEF f
  <2>2. QED  BY <1>1, <1>2, <2>1, Push
<1>4. Function(d, st)
  BY DEF FunctionOf
<1> HIDE DEF f, st
<1>5. Due(st) \notin Typed
  BY <1>1, <1>3 DEF Typed
<1>6. QED  BY <1>2, <1>3, <1>4, <1>5, FunctionKept

LEMMA FunctionExpressionKept == ASSUME Inv, Kept, FunctionExpression PROVE Kept'
<1>1. /\ mode = "call" /\ proc = "Expression" /\ IsCall(val)
      /\ Fail(stack) \/ FunctionOf("boolean", depth)
  BY DEF FunctionExpression, Calling
<1>2. Due(stack) \notin Typed
  BY <1>1, AtCall DEF Typed
<1>3. Yields(Frame("Wanted", "boolean", << >>), Due(stack))
  BY <1>2, NothingPromised
<1>4. QED  BY <1>1, <1>3, CallFails, FunctionOfKept DEF Wants

LEMMA FunctionCompleteKept == ASSUME Inv, Kept, FunctionComplete PROVE Kept'
<1> DEFINE n == Node("Function", Top.op, cfg.functions[Top.op].returns, Top.acc, Top.src)
<1>1. /\ Complete("Function")
      /\ Fail(Below) \/ (ValidCall(cfg.functions, Top.op, Top.acc) /\ Return(n, Below))
  BY DEF FunctionComplete
<1>2. CASE ValidCall(cfg.functions, Top.op, Top.acc) /\ Return(n, Below)
  <2>1. /\ Top.pc = "Function" /\ Rests(Below) /\ Yields(Top, Due(Below)) /\ val \in Parts(input)
        /\ \A i \in DOMAIN Top.acc : SoundTree(cfg, Top.acc[i])
    BY <1>1, AtComplete
  <2>2. SoundTree(cfg, n)
    BY <1>2, <2>1, CallTree
  <2>3. n.kind = "Function" /\ n.op = Top.op
    BY DEF Node
  <2> HIDE DEF n
  <2>4. Promised(Due(Below), n)
    <3>1. CASE Due(Below) \notin Typed
      BY <3>1, NothingPromised
    <3>2. CASE Due(Below) \in Typed
      <4>1. Top.op \in {"CASEI", "ACCENTI"} /\ Due(Below) \in {"Character", "Pattern"}
        BY <2>1, <3>2 DEF Typed, Yields
      <4>2. IsCast(n)
        BY <2>3, <4>1 DEF IsCast
      <4>3. QED  BY <4>1, <4>2 DEF Promised, IsPattern
    <3>3. QED  BY <3>1, <3>2
  <2>5. QED  BY <1>2, <2>1, <2>2, <2>4, ReturnStep
<1>3. QED  BY <1>1, <1>2, CompleteFails

LEMMA WantedCompleteKept == ASSUME Inv, Kept, WantedComplete PROVE Kept'
<1> DEFINE n == Top.acc[1]
<1>1. /\ Complete("Wanted")
      /\ Fail(Below) \/ (IsWanted(Top.op, n) /\ Return(n, Below))
  BY DEF WantedComplete
<1>2. CASE IsWanted(Top.op, n) /\ Return(n, Below)
  <2>1. /\ Top.pc = "Wanted" /\ Rests(Below) /\ Yields(Top, Due(Below)) /\ val \in Parts(input)
        /\ Len(Top.acc) = OperandCount(Top) /\ DOMAIN Top.acc = 1..Len(Top.acc)
        /\ \A i \in DOMAIN Top.acc : SoundTree(cfg, Top.acc[i])
    BY <1>1, AtComplete
  <2>2. SoundTree(cfg, n)
    BY <2>1 DEF OperandCount
  <2> HIDE DEF n
  <2>3. Promised(Due(Below), n)
    <3>1. CASE Due(Below) \notin Typed
      BY <3>1, NothingPromised
    <3>2. CASE Due(Below) \in Typed
      <4>1. <<Top.op, Due(Below)>> \in {<<"numeric", "Numeric">>, <<"character", "Character">>}
        BY <2>1, <3>2 DEF Typed, Yields
      <4>2. QED  BY <1>2, <4>1 DEF Promised, IsWanted
    <3>3. QED  BY <3>1, <3>2
  <2>4. QED  BY <1>2, <2>1, <2>2, <2>3, ReturnStep
<1>3. QED  BY <1>1, <1>2, CompleteFails

-----------------------------------------------------------------------------
(* parseJSONScalar                                                         *)

LEMMA ScalarLiteralKept == ASSUME Inv, Kept, ScalarLiteral PROVE Kept'
<1>1. /\ mode = "call" /\ proc \notin Typed /\ val.t # "object"
      /\ Fail(stack) \/ (val.t \notin {"array", "null"} /\ ReturnLiteral)
  BY DEF ScalarLiteral, Calling, Typed
<1>2. val.t \in JsonTypes
  <2>1. val \in Parts(input)
    BY <1>1, AtCall
  <2>2. QED  BY <2>1, PartsInside
<1>3. QED  BY <1>1, <1>2, CallFails, ReturnLiteralKept DEF JsonTypes

LEMMA ScalarPropertyKept == ASSUME Inv, Kept, ScalarProperty PROVE Kept'
  BY ReturnPropertyKept DEF ScalarProperty, Calling, Typed

LEMMA ScalarInstantKept == ASSUME Inv, Kept, ScalarInstant PROVE Kept'
  BY ReturnInstantKept DEF ScalarInstant, Calling, Typed

\* A call of CASEI or ACCENTI is taken where a string or a pattern is wanted.
LEMMA CastStart ==
    ASSUME Inv, Kept, mode = "call", IsCall(val), OpName(val) \in {"casei", "accenti"},
           Due(stack) \in Typed => Due(stack) \in {"Character", "Pattern"},
           NEW pr, NEW d, Continue(Frame("Function", Folded(OpName(val)), Arguments(pr, d)), stack)
    PROVE  Kept'
<1> DEFINE op == Folded(OpName(val))
           calls == Arguments(pr, d)
           f == Frame("Function", op, calls)
<1>1. op \in {"CASEI", "ACCENTI"}
  BY DEF Folded, TreeName
<1>2. Rests(stack) /\ val \in Parts(input) /\ Reading(calls)
  BY AtCall, ArgumentsRead
<1> HIDE DEF op, calls
<1>3. f.pc = "Function" /\ f.op = op
  BY FrameFields
<1> HIDE DEF f
<1>4. Opened(f)
  BY <1>3, PlainOpened DEF PlainPcs
<1>5. Due(stack) \notin Typed \/ Yields(f, Due(stack))
  BY <1>1, <1>3 DEF Yields
<1>6. Continue(f, stack)
  BY DEF f, op, calls
<1>7. QED  BY <1>2, <1>4, <1>5, <1>6, StartStep DEF f

LEMMA CastKept ==
    ASSUME Inv, Kept, mode = "call", IsCall(val), OpName(val) \in {"casei", "accenti"},
           Due(stack) \in Typed => Due(stack) \in {"Character", "Pattern"},
           NEW d, Cast(d, stack)
    PROVE  Kept'
<1>1. \/ Fail(stack)
      \/ Continue(Frame("Function", Folded(OpName(val)), Arguments("Character", d + 1)), stack)
  BY DEF Cast
<1>2. QED  BY <1>1, CallFails, CastStart

LEMMA ArithmeticsKept ==
    ASSUME Inv, Kept, mode = "call", IsCall(val),
           Due(stack) \in Typed => Due(stack) = "Numeric",
           NEW d, Arithmetics(d, stack)
    PROVE  Kept'
<1> DEFINE op == Folded(OpName(val))
           calls == Arguments("Numeric", d + 1)
           f == Frame("Arithmetic", op, calls)
<1>1. Fail(stack) \/ (cfg.arithmetic /\ Continue(f, stack))
  BY DEF Arithmetics
<1>2. CASE cfg.arithmetic /\ Continue(f, stack)
  <2>1. /\ Rests(stack) /\ val \in Parts(input) /\ Reading(calls)
        /\ \A i \in DOMAIN calls : calls[i].proc = "Numeric"
    BY AtCall, ArgumentsRead
  <2> HIDE DEF op, calls
  <2>2. f.pc = "Arithmetic" /\ f.calls = calls
    BY FrameFields
  <2> HIDE DEF f
  <2>3. Opened(f)
    BY <1>2, <2>1, <2>2 DEF Opened
  <2>4. Due(stack) \notin Typed \/ Yields(f, Due(stack))
    BY <2>2 DEF Yields
  <2>5. QED  BY <1>2, <2>1, <2>3, <2>4, StartStep DEF f
<1>3. QED  BY <1>1, <1>2, CallFails

LEMMA ArithmeticCompleteKept == ASSUME Inv, Kept, ArithmeticComplete PROVE Kept'
<1> DEFINE n == Node("Arithmetic", Top.op, {"number"}, Top.acc, Top.src)
<1>1. Complete("Arithmetic") /\ Return(n, Below)
  BY DEF ArithmeticComplete
<1>2. /\ Top.pc = "Arithmetic" /\ Rests(Below) /\ Yields(Top, Due(Below)) /\ val \in Parts(input)
  BY <1>1, AtComplete
<1>3. SoundTree(cfg, n)
  <2>1. cfg.arithmetic /\ \A i \in DOMAIN Top.acc : SoundTree(cfg, Top.acc[i]) /\ CanBe(Top.acc[i], {"number"})
    BY <1>1, NumericOperands DEF Opened
  <2>2. QED  BY <2>1, ArithmeticTree
<1>4. n.kind = "Arithmetic"
  BY DEF Node
<1> HIDE DEF n
<1>5. Promised(Due(Below), n)
  <2>1. CASE Due(Below) \notin Typed
    BY <2>1, NothingPromised
  <2>2. CASE Due(Below) \in Typed
    <3>1. Due(Below) = "Numeric"
      BY <1>2, <2>2 DEF Typed, Yields
    <3>2. QED  BY <1>4, <3>1 DEF Promised, IsNumeric
  <2>3. QED  BY <2>1, <2>2
<1>6. QED  BY <1>1, <1>2, <1>3, <1>5, ReturnStep

LEMMA ScalarOperationKept == ASSUME Inv, Kept, ScalarOperation PROVE Kept'
<1>1. /\ mode = "call" /\ proc \notin Typed
      /\ \/ Fail(stack)
         \/ /\ IsCall(val)
            /\ \/ OpName(val) \in {"casei", "accenti"} /\ Cast(depth, stack)
               \/ Arithmetics(depth, stack)
               \/ Function(depth, stack)
  BY DEF ScalarOperation, Calling, Typed
<1>2. Due(stack) \notin Typed /\ Rests(stack) /\ val \in Parts(input)
  BY <1>1, AtCall
<1>3. CASE Fail(stack)
  BY <1>1, <1>3, CallFails
<1>4. CASE IsCall(val) /\ OpName(val) \in {"casei", "accenti"} /\ Cast(depth, stack)
  BY <1>1, <1>2, <1>4, CastKept
<1>5. CASE IsCall(val) /\ Arithmetics(depth, stack)
  BY <1>1, <1>2, <1>5, ArithmeticsKept
<1>6. CASE IsCall(val) /\ Function(depth, stack)
  BY <1>2, <1>6, FunctionKept
<1>7. QED  BY <1>1, <1>3, <1>4, <1>5, <1>6

-----------------------------------------------------------------------------
(* parseJSONCharacterExpression, parseJSONNumericExpression and            *)
(* parseJSONPatternExpression                                              *)

LEMMA TypedProcs ==
    ASSUME CallingTyped
    PROVE  /\ mode = "call" /\ proc \in {"Character", "Numeric"}
           /\ proc = "Character" => OperandOf[proc].literal = "string" /\ OperandOf[proc].want = "character"
           /\ proc = "Numeric" => OperandOf[proc].literal = "number" /\ OperandOf[proc].want = "numeric"
  BY DEF CallingTyped, OperandOf

LEMMA TypedLiteralKept == ASSUME Inv, Kept, TypedLiteral PROVE Kept'
<1> DEFINE text == val.text
           type == LiteralType(val)
           n == Node("Literal", text, {type}, << >>, path)
<1>1. /\ CallingTyped
      /\ Fail(stack) \/ (val.t = OperandOf[proc].literal /\ Return(n, stack))
  BY DEF TypedLiteral, ReturnLiteral
<1>2. CASE val.t = OperandOf[proc].literal /\ Return(n, stack)
  <2>1. type = OperandOf[proc].literal /\ type \in {"string", "number"}
    BY <1>1, <1>2, TypedProcs DEF LiteralType
  <2> HIDE DEF text, type
  <2>2. SoundTree(cfg, n) /\ n.kind = "Literal" /\ n.types = {type}
    <3>1. type \in {"string", "number", "boolean"}
      BY <2>1
    <3>2. SoundTree(cfg, n)
      BY <3>1, LiteralTree
    <3>3. n.kind = "Literal" /\ n.types = {type}
      BY DEF Node
    <3>4. QED  BY <3>2, <3>3
  <2> HIDE DEF n
  <2>3. Promised(Due(stack), n)
    <3>1. CASE Due(stack) \notin Typed
      BY <3>1, NothingPromised
    <3>2. CASE Due(stack) \in Typed
      <4>1. proc = Due(stack)
        BY <1>1, <3>2, AtCall, TypedProcs
      <4>2. CASE proc = "Character"
        BY <1>1, <2>1, <2>2, <4>1, <4>2, TypedProcs DEF Promised, IsCharacter
      <4>3. CASE proc = "Numeric"
        BY <1>1, <2>1, <2>2, <4>1, <4>3, TypedProcs DEF Promised, IsNumeric
      <4>4. QED  BY <1>1, <4>2, <4>3, TypedProcs
    <3>3. QED  BY <3>1, <3>2
  <2>4. Rests(stack) /\ val \in Parts(input)
    BY <1>1, AtCall, TypedProcs
  <2>5. QED  BY <1>2, <2>2, <2>3, <2>4, ReturnStep
<1>3. QED  BY <1>1, <1>2, CallFails, TypedProcs

\* What such a procedure wants is what its caller relies on.
LEMMA WantedYields ==
    ASSUME Inv, Kept, CallingTyped, NEW f, f.pc = "Wanted", f.op = OperandOf[proc].want
    PROVE  Yields(f, Due(stack))
<1>1. CASE Due(stack) \notin Typed
  BY <1>1, NothingPromised
<1>2. CASE Due(stack) \in Typed
  <2>1. proc = Due(stack)
    BY <1>2, AtCall, TypedProcs
  <2>2. CASE proc = "Character"
    BY <2>1, <2>2, TypedProcs DEF Yields
  <2>3. CASE proc = "Numeric"
    BY <2>1, <2>3, TypedProcs DEF Yields
  <2>4. QED  BY <2>2, <2>3, TypedProcs
<1>3. QED  BY <1>1, <1>2

LEMMA TypedPropertyKept == ASSUME Inv, Kept, TypedProperty PROVE Kept'
<1> DEFINE want == OperandOf[proc].want
           c == Call("Scalar", val, path, depth + 1)
           calls == <<c>>
           f == Frame("Wanted", want, calls)
<1>1. CallingTyped /\ Continue(f, stack)
  BY DEF TypedProperty
<1>2. Rests(stack) /\ val \in Parts(input) /\ want \in Wants
  BY <1>1, AtCall, TypedProcs DEF Wants
<1>3. c.val \in Parts(input)
  BY <1>2 DEF Call
<1> HIDE DEF c
<1>4. /\ calls[1] = c /\ Len(calls) = 1 /\ calls # << >>
      /\ DOMAIN calls = 1..1 /\ calls = [i \in 1..1 |-> calls[i]]
  OBVIOUS
<1> HIDE DEF calls
<1>5. IsSequence(calls)
  BY <1>4, MappedSequence
<1>6. Reading(calls)
  BY <1>3, <1>4, <1>5 DEF Reading
<1>7. f.pc = "Wanted" /\ f.op = want /\ f.calls = calls
  BY DEF Frame
<1>8. Opened(f)
  <2> HIDE DEF f, want
  <2>1. QED  BY <1>2, <1>4, <1>7 DEF Opened, Wants
<1>9. Steady(f)
  <2> HIDE DEF want
  <2>1. QED  BY <1>4, <1>6, <1>8, NewFrame
<1>10. Yields(f, Due(stack))
  <2> HIDE DEF f
  <2>1. QED  BY <1>1, <1>7, WantedYields
<1> HIDE DEF f
<1>11. QED  BY <1>1, <1>2, <1>9, <1>10, ContinueStep

LEMMA TypedOperationKept == ASSUME Inv, Kept, TypedOperation PROVE Kept'
<1> DEFINE want == OperandOf[proc].want
<1>1. /\ CallingTyped
      /\ \/ Fail(stack)
         \/ /\ IsCall(val)
            /\ \/ /\ proc = "Character" /\ OpName(val) \in {"casei", "accenti"}
                  /\ Cast(depth + 1, stack)
               \/ proc = "Numeric" /\ Arithmetics(depth + 1, stack)
               \/ FunctionOf(want, depth + 1)
  BY DEF TypedOperation
<1>2. mode = "call" /\ want \in Wants /\ (Due(stack) \in Typed => proc = Due(stack))
  BY <1>1, AtCall, TypedProcs DEF Wants
<1>3. CASE Fail(stack)
  BY <1>2, <1>3, CallFails
<1>4. CASE /\ IsCall(val) /\ proc = "Character" /\ OpName(val) \in {"casei", "accenti"}
           /\ Cast(depth + 1, stack)
  BY <1>2, <1>4, CastKept
<1>5. CASE IsCall(val) /\ proc = "Numeric" /\ Arithmetics(depth + 1, stack)
  BY <1>2, <1>5, ArithmeticsKept
<1>6. CASE IsCall(val) /\ FunctionOf(want, depth + 1)
  <2> DEFINE f == Frame("Wanted", want, << >>)
  <2>1. f.pc = "Wanted" /\ f.op = want
    BY DEF Frame
  <2>2. Yields(f, Due(stack))
    <3> HIDE DEF f
    <3>1. QED  BY <1>1, <2>1, WantedYields
  <2> HIDE DEF want
  <2>3. QED  BY <1>2, <1>6, <2>2, FunctionOfKept
<1>7. QED  BY <1>1, <1>3, <1>4, <1>5, <1>6

LEMMA PatternKept == ASSUME Inv, Kept, Pattern PROVE Kept'
<1> DEFINE text == val.text
           type == LiteralType(val)
           n == Node("Literal", text, {type}, << >>, path)
<1>1. /\ mode = "call" /\ proc = "Pattern"
      /\ \/ Fail(stack)
         \/ val.t = "string" /\ Return(n, stack)
         \/ /\ IsCall(val) /\ OpName(val) \in {"casei", "accenti"}
            /\ Continue(Frame("Function", Folded(OpName(val)), Arguments("Pattern", depth + 1)), stack)
  BY DEF Pattern, Calling, ReturnLiteral
<1>2. CASE Fail(stack)
  BY <1>1, <1>2, CallFails
<1>3. Due(stack) \in Typed => Due(stack) = "Pattern"
  BY <1>1, AtCall
<1>4. CASE val.t = "string" /\ Return(n, stack)
  <2>1. type = "string"
    BY <1>4 DEF LiteralType
  <2> HIDE DEF text, type
  <2>2. SoundTree(cfg, n) /\ n.kind = "Literal" /\ n.types = {type}
    <3>1. type \in {"string", "number", "boolean"}
      BY <2>1
    <3>2. SoundTree(cfg, n)
      BY <3>1, LiteralTree
    <3>3. n.kind = "Literal" /\ n.types = {type}
      BY DEF Node
    <3>4. QED  BY <3>2, <3>3
  <2> HIDE DEF n
  <2>3. Promised(Due(stack), n)
    <3>1. CASE Due(stack) \notin Typed
      BY <3>1, NothingPromised
    <3>2. CASE Due(stack) \in Typed
      BY <1>3, <2>1, <2>2, <3>2 DEF Promised, IsPattern
    <3>3. QED  BY <3>1, <3>2
  <2>4. Rests(stack) /\ val \in Parts(input)
    BY <1>1, AtCall
  <2>5. QED  BY <1>4, <2>2, <2>3, <2>4, ReturnStep
<1>5. CASE /\ IsCall(val) /\ OpName(val) \in {"casei", "accenti"}
           /\ Continue(Frame("Function", Folded(OpName(val)), Arguments("Pattern", depth + 1)), stack)
  BY <1>1, <1>3, <1>5, CastStart
<1>6. QED  BY <1>1, <1>2, <1>4, <1>5

-----------------------------------------------------------------------------
(* Operands of the predicates, of isNull and of functions.                 *)

LEMMA AlternativesListed ==
    ASSUME NEW pr \in DOMAIN Alternatives
    PROVE  \E n \in Nat : DOMAIN Alternatives[pr] = 1..n
<1>1. pr \in {"TemporalOperand", "SpatialOperand", "ArrayOperand", "IsNullOperand", "Node"}
  BY DEF Alternatives
<1>2. CASE pr \in {"TemporalOperand", "SpatialOperand", "ArrayOperand"}
  <2>1. DOMAIN Alternatives[pr] = 1..2
    BY <1>2 DEF Alternatives
  <2>2. QED  BY <2>1
<1>3. CASE pr = "IsNullOperand"
  <2>1. DOMAIN Alternatives[pr] = 1..4
    BY <1>3 DEF Alternatives
  <2>2. QED  BY <2>1
<1>4. CASE pr = "Node"
  <2>1. DOMAIN Alternatives[pr] = 1..5
    BY <1>4 DEF Alternatives
  <2>2. QED  BY <2>1
<1>5. QED  BY <1>1, <1>2, <1>3, <1>4

LEMMA OperandKept == ASSUME Inv, Kept, Operand PROVE Kept'
<1> DEFINE d == IF proc \in {"IsNullOperand", "Node"} THEN depth ELSE depth + 1
           calls == [i \in DOMAIN Alternatives[proc] |-> Call(Alternatives[proc][i], val, path, d)]
           op == ""
<1>1. mode = "call" /\ proc \in DOMAIN Alternatives /\ Continue(Frame("Try", op, calls), stack)
  BY DEF Operand
<1>2. proc \notin Typed
  BY <1>1 DEF Alternatives, Typed
<1>3. val \in Parts(input)
  BY <1>1, AtCall
<1>4. PICK n \in Nat : DOMAIN Alternatives[proc] = 1..n
  BY <1>1, AlternativesListed
<1>5. \A i \in 1..n : calls[i].val \in Parts(input)
  BY <1>3, <1>4 DEF Call
<1>6. DOMAIN calls = 1..n /\ calls = [i \in 1..n |-> calls[i]]
  BY <1>4
<1> HIDE DEF calls, op
<1>7. IsSequence(calls)
  BY <1>6, MappedSequence
<1>8. Reading(calls)
  BY <1>5, <1>6, <1>7 DEF Reading
<1>9. Opened(Frame("Try", op, calls))
  BY FrameFields, PlainOpened DEF PlainPcs
<1>10. QED  BY <1>1, <1>2, <1>8, <1>9, PlainStart

\* A frame of the items of a list that checks nothing else.
LEMMA PlainItems ==
    ASSUME Inv, Kept, mode = "call", proc \notin Typed, NEW v \in Parts(input), NEW pc \in PlainPcs,
           NEW op, NEW pr, NEW p, NEW d, Continue(Frame(pc, op, Items(v, pr, p, d)), stack)
    PROVE  Kept'
<1> DEFINE calls == Items(v, pr, p, d)
<1>1. Reading(calls)
  BY ItemsRead
<1> HIDE DEF calls
<1>2. Opened(Frame(pc, op, calls)) /\ pc # "Wanted"
  BY FrameFields, PlainOpened DEF PlainPcs
<1>3. QED  BY <1>1, <1>2, PlainStart DEF calls

LEMMA ArrayLiteralKept == ASSUME Inv, Kept, ArrayLiteral PROVE Kept'
<1> DEFINE op == ""
<1>1. /\ mode = "call" /\ proc = "ArrayLiteral"
      /\ Fail(stack) \/ Continue(Frame("Array", op, Items(val, "Node", path, depth + 1)), stack)
  BY DEF ArrayLiteral, Calling
<1> HIDE DEF op
<1>2. val \in Parts(input) /\ proc \notin Typed
  BY <1>1, AtCall DEF Typed
<1>3. QED  BY <1>1, <1>2, CallFails, PlainItems DEF PlainPcs

LEMMA ArrayCompleteKept == ASSUME Inv, Kept, ArrayComplete PROVE Kept'
<1> DEFINE op == ""
           types == {"array"}
           n == Node("Array", op, types, Top.acc, Top.src)
<1>1. Complete("Array") /\ Return(n, Below)
  BY DEF ArrayComplete
<1>2. \A i \in DOMAIN Top.acc : SoundTree(cfg, Top.acc[i])
  BY <1>1, AtComplete
<1>3. types = {"array"}
  OBVIOUS
<1> HIDE DEF op, types
<1>4. SoundTree(cfg, n)
  BY <1>2, <1>3, PlainTree DEF PlainKinds
<1> HIDE DEF n
<1>5. QED  BY <1>1, <1>4, PlainComplete

-----------------------------------------------------------------------------
(* parseJSONTemporalInstance, ...Interval and ...IntervalEndpoint          *)

LEMMA TemporalInstanceKept == ASSUME Inv, Kept, TemporalInstance PROVE Kept'
<1> DEFINE c == Call("Interval", val, path, depth + 1)
<1>1. /\ mode = "call" /\ proc = "TemporalInstance"
      /\ Fail(stack) \/ Enter(c, stack) \/ ReturnInstant
  BY DEF TemporalInstance, Calling
<1>2. Rests(stack) /\ val \in Parts(input) /\ Due(stack) \notin Typed /\ proc \notin Typed
  BY <1>1, AtCall DEF Typed
<1>3. CASE Enter(c, stack)
  <2>1. c.val = val
    BY DEF Call
  <2> HIDE DEF c
  <2>2. QED  BY <1>2, <1>3, <2>1, EnterStep
<1>4. QED  BY <1>1, <1>2, <1>3, CallFails, ReturnInstantKept

LEMMA IntervalKept == ASSUME Inv, Kept, Interval PROVE Kept'
<1> DEFINE ends == val.fields["interval"]
           op == ""
           p == Append(path, Key("interval"))
<1>1. /\ mode = "call" /\ proc = "Interval"
      /\ \/ Fail(stack)
         \/ Has(val, "interval") /\ Continue(Frame("Interval", op, Items(ends, "Endpoint", p, depth + 1)), stack)
  BY DEF Interval, Calling
<1>2. val \in Parts(input) /\ proc \notin Typed
  BY <1>1, AtCall DEF Typed
<1>3. Has(val, "interval") => ends \in Parts(input)
  BY <1>2, PartsInside
<1> HIDE DEF ends, op, p
<1>4. QED  BY <1>1, <1>2, <1>3, CallFails, PlainItems DEF PlainPcs

LEMMA IntervalCompleteKept == ASSUME Inv, Kept, IntervalComplete PROVE Kept'
<1> DEFINE op == ""
           types == {"interval"}
           n == Node("Interval", op, types, Top.acc, Top.src)
<1>1. Complete("Interval") /\ (Fail(Below) \/ Return(n, Below))
  BY DEF IntervalComplete
<1>2. \A i \in DOMAIN Top.acc : SoundTree(cfg, Top.acc[i])
  BY <1>1, AtComplete
<1>3. types = {"interval"}
  OBVIOUS
<1> HIDE DEF op, types
<1>4. SoundTree(cfg, n)
  BY <1>2, <1>3, PlainTree DEF PlainKinds
<1> HIDE DEF n
<1>5. QED  BY <1>1, <1>4, PlainComplete, CompleteFails

LEMMA EndpointStringKept == ASSUME Inv, Kept, EndpointString PROVE Kept'
<1> DEFINE op == ".."
           types == {}
           args == << >>
           n == Node("Unbounded", op, types, args, path)
           text == val.text
           kind == Instants[text].kind
<1>1. /\ mode = "call" /\ proc = "Endpoint"
      /\ Fail(stack) \/ Return(n, stack) \/ (text \in DOMAIN Instants /\ Return(Instant(text, kind, path), stack))
  BY DEF EndpointString, Calling
<1>2. proc \notin Typed
  BY <1>1 DEF Typed
<1>3. CASE Return(n, stack)
  <2>1. \A i \in DOMAIN args : SoundTree(cfg, args[i])
    OBVIOUS
  <2> HIDE DEF op, types, args
  <2>2. SoundTree(cfg, n)
    BY <2>1, PlainTree DEF PlainKinds
  <2> HIDE DEF n
  <2>3. QED  BY <1>1, <1>2, <1>3, <2>2, PlainReturn
<1>4. CASE text \in DOMAIN Instants /\ Return(Instant(text, kind, path), stack)
  <2>1. kind \in InstantTypes
    BY <1>4, InstantsAssumption DEF InstantTypes
  <2> HIDE DEF text, kind
  <2>2. SoundTree(cfg, Instant(text, kind, path))
    BY <2>1, InstantTree
  <2>3. QED  BY <1>1, <1>2, <1>4, <2>2, PlainReturn
<1>5. QED  BY <1>1, <1>3, <1>4, CallFails

LEMMA EndpointPropertyKept == ASSUME Inv, Kept, EndpointProperty PROVE Kept'
  BY ReturnPropertyKept DEF EndpointProperty, Calling, Typed

LEMMA EndpointFunctionKept == ASSUME Inv, Kept, EndpointFunction PROVE Kept'
<1>1. /\ mode = "call" /\ proc = "Endpoint"
      /\ Fail(stack) \/ (IsCall(val) /\ Function(depth + 1, stack))
  BY DEF EndpointFunction, Calling
<1>2. Rests(stack) /\ val \in Parts(input) /\ Due(stack) \notin Typed
  BY <1>1, AtCall DEF Typed
<1>3. QED  BY <1>1, <1>2, CallFails, FunctionKept

-----------------------------------------------------------------------------
(* parseJSONGeometryLiteral: what is read has the shape of its type.       *)

LEMMA MappedListed ==
    ASSUME NEW n \in Nat, NEW s, DOMAIN s = 1..n, s = [i \in 1..n |-> s[i]]
    PROVE  Listed(s) /\ Len(s) = n
<1>1. Len(s) = n
  BY MappedSequence
<1>2. QED  BY <1>1 DEF Listed

LEMMA ListedItems ==
    ASSUME Inv, NEW v \in Parts(input)
    PROVE  /\ DOMAIN v.items = 1..Len(v.items) /\ Len(v.items) \in Nat
           /\ \A i \in DOMAIN v.items : v.items[i] \in Parts(input)
  BY PartsInside

LEMMA NumberNodesRead ==
    ASSUME Inv, NEW v \in Parts(input)
    PROVE  NumbersRead(NumberNodes(v.items)) /\ Len(NumberNodes(v.items)) = Len(v.items)
<1> DEFINE n == Len(v.items)
           ns == NumberNodes(v.items)
<1>1. n \in Nat /\ ns = [i \in 1..n |-> NumberNode(v.items[i].text)]
  BY ListedItems DEF NumberNodes
<1>2. \A i \in 1..n : \E text : ns[i] = NumberNode(text)
  BY <1>1
<1>3. DOMAIN ns = 1..n /\ ns = [i \in 1..n |-> ns[i]]
  BY <1>1
<1> HIDE DEF ns, n
<1>4. Listed(ns) /\ Len(ns) = n
  BY <1>1, <1>3, MappedListed
<1>5. QED  BY <1>2, <1>3, <1>4 DEF NumbersRead, ns, n

LEMMA JsonCoordinateRead ==
    ASSUME Inv, NEW v \in Parts(input), IsJsonCoordinate(v)
    PROVE  CoordinateRead(JsonCoordinate(v))
<1> DEFINE ns == NumberNodes(v.items)
<1>1. NumbersRead(ns) /\ Len(ns) \in {2, 3}
  BY NumberNodesRead DEF IsJsonCoordinate
<1>2. ValidCoordinate(Coordinate(ns)) /\ JsonCoordinate(v) = Coordinate(ns)
  BY DEF IsJsonCoordinate, JsonCoordinate
<1> HIDE DEF ns
<1>3. Coordinate(ns).args = ns
  BY DEF Coordinate, Node
<1>4. InRange(ns[1], ns[2])
  BY <1>2, <1>3 DEF ValidCoordinate
<1>5. QED  BY <1>1, <1>2, <1>4 DEF CoordinateRead

\* The mapped items of a value, when each is read as P says.
LEMMA JsonLineRead ==
    ASSUME Inv, NEW v \in Parts(input), NEW min \in Nat, IsJsonLine(v, min)
    PROVE  LineRead(JsonLine(v), min)
<1> DEFINE n == Len(v.items)
           items == [i \in DOMAIN v.items |-> JsonCoordinate(v.items[i])]
<1>1. /\ n \in Nat /\ n >= min /\ DOMAIN v.items = 1..n
      /\ \A i \in 1..n : v.items[i] \in Parts(input) /\ IsJsonCoordinate(v.items[i])
  BY ListedItems DEF IsJsonLine
<1>2. \A i \in 1..n : CoordinateRead(items[i])
  BY <1>1, JsonCoordinateRead
<1>3. DOMAIN items = 1..n /\ items = [i \in 1..n |-> items[i]] /\ JsonLine(v) = List(items)
  BY <1>1 DEF JsonLine
<1> HIDE DEF items, n
<1>4. Listed(items) /\ Len(items) = n
  BY <1>1, <1>3, MappedListed
<1>5. QED  BY <1>1, <1>2, <1>3, <1>4 DEF LineRead

LEMMA JsonLinesRead ==
    ASSUME Inv, NEW v \in Parts(input), NEW min \in Nat,
           \A i \in DOMAIN v.items : IsJsonLine(v.items[i], min)
    PROVE  LinesRead(JsonLines(v), min)
<1> DEFINE n == Len(v.items)
           items == [i \in DOMAIN v.items |-> JsonLine(v.items[i])]
<1>1. /\ n \in Nat /\ DOMAIN v.items = 1..n
      /\ \A i \in 1..n : v.items[i] \in Parts(input)
  BY ListedItems
<1>2. \A i \in 1..n : LineRead(items[i], min)
  BY <1>1, JsonLineRead
<1>3. DOMAIN items = 1..n /\ items = [i \in 1..n |-> items[i]] /\ JsonLines(v) = List(items)
  BY <1>1 DEF JsonLines
<1> HIDE DEF items, n
<1>4. Listed(items) /\ Len(items) = n
  BY <1>1, <1>3, MappedListed
<1>5. QED  BY <1>1, <1>2, <1>3, <1>4 DEF LinesRead

LEMMA JsonRingsRead ==
    ASSUME Inv, NEW v \in Parts(input), IsJsonPolygon(v)
    PROVE  RingsRead(JsonLines(v))
<1> DEFINE n == Len(v.items)
           items == [i \in DOMAIN v.items |-> JsonLine(v.items[i])]
<1>1. /\ n \in Nat /\ DOMAIN v.items = 1..n
      /\ \A i \in 1..n : /\ v.items[i] \in Parts(input) /\ IsJsonLine(v.items[i], 4)
                         /\ ValidRing(JsonLine(v.items[i]))
  BY ListedItems DEF IsJsonPolygon
<1>2. \A i \in 1..n : LineRead(items[i], 4) /\ ValidRing(items[i])
  BY <1>1, JsonLineRead
<1>3. DOMAIN items = 1..n /\ items = [i \in 1..n |-> items[i]] /\ JsonLines(v) = List(items)
  BY <1>1 DEF JsonLines
<1> HIDE DEF items, n
<1>4. Listed(items) /\ Len(items) = n
  BY <1>1, <1>3, MappedListed
<1>5. QED  BY <1>1, <1>2, <1>3, <1>4 DEF RingsRead

LEMMA JsonPolygonsRead ==
    ASSUME Inv, NEW v \in Parts(input), \A i \in DOMAIN v.items : IsJsonPolygon(v.items[i])
    PROVE  PolygonsRead(JsonPolygons(v))
<1> DEFINE n == Len(v.items)
           items == [i \in DOMAIN v.items |-> JsonLines(v.items[i])]
<1>1. /\ n \in Nat /\ DOMAIN v.items = 1..n
      /\ \A i \in 1..n : v.items[i] \in Parts(input)
  BY ListedItems
<1>2. \A i \in 1..n : RingsRead(items[i])
  BY <1>1, JsonRingsRead
<1>3. DOMAIN items = 1..n /\ items = [i \in 1..n |-> items[i]] /\ JsonPolygons(v) = List(items)
  BY <1>1 DEF JsonPolygons
<1> HIDE DEF items, n
<1>4. Listed(items) /\ Len(items) = n
  BY <1>1, <1>3, MappedListed
<1>5. QED  BY <1>1, <1>2, <1>3, <1>4 DEF PolygonsRead

LEMMA JsonDataRead ==
    ASSUME Inv, NEW type, NEW v \in Parts(input), IsJsonData(type, v)
    PROVE  DataRead(type, JsonData(type, v))
<1>1. type \in {"Point", "MultiPoint", "LineString", "Polygon", "MultiLineString", "MultiPolygon"}
  BY DEF IsJsonData
<1>2. CASE type = "Point"
  <2>1. IsJsonCoordinate(v) /\ JsonData(type, v) = List(<<JsonCoordinate(v)>>)
    BY <1>2 DEF IsJsonData, JsonData
  <2>2. CoordinateRead(JsonCoordinate(v))
    BY <2>1, JsonCoordinateRead
  <2>3. QED  BY <1>2, <2>1, <2>2 DEF DataRead
<1>3. CASE type = "MultiPoint"
  <2>1. IsJsonLine(v, 0) /\ JsonData(type, v) = JsonLine(v)
    BY <1>3 DEF IsJsonData, JsonData
  <2>2. QED  BY <1>3, <2>1, JsonLineRead DEF DataRead
<1>4. CASE type = "LineString"
  <2>1. IsJsonLine(v, 2) /\ JsonData(type, v) = JsonLine(v)
    BY <1>4 DEF IsJsonData, JsonData
  <2>2. QED  BY <1>4, <2>1, JsonLineRead DEF DataRead
<1>5. CASE type = "Polygon"
  <2>1. IsJsonPolygon(v) /\ JsonData(type, v) = JsonLines(v)
    BY <1>5 DEF IsJsonData, JsonData
  <2>2. QED  BY <1>5, <2>1, JsonRingsRead DEF DataRead
<1>6. CASE type = "MultiLineString"
  <2>1. (\A i \in DOMAIN v.items : IsJsonLine(v.items[i], 2)) /\ JsonData(type, v) = JsonLines(v)
    BY <1>6 DEF IsJsonData, JsonData
  <2>2. QED  BY <1>6, <2>1, JsonLinesRead DEF DataRead
<1>7. CASE type = "MultiPolygon"
  <2>1. (\A i \in DOMAIN v.items : IsJsonPolygon(v.items[i])) /\ JsonData(type, v) = JsonPolygons(v)
    BY <1>7 DEF IsJsonData, JsonData
  <2>2. QED  BY <1>7, <2>1, JsonPolygonsRead DEF DataRead
<1>8. QED  BY <1>1, <1>2, <1>3, <1>4, <1>5, <1>6, <1>7

LEMMA JsonBBoxRead ==
    ASSUME Inv, NEW v \in Parts(input), Has(v, "bbox"), IsJsonBBox(v.fields["bbox"])
    PROVE  \E b : BoxRead(b) /\ JsonBBox(v) = <<b>>
<1> DEFINE w == v.fields["bbox"]
           ns == NumberNodes(w.items)
<1>1. w \in Parts(input)
  BY PartsInside
<1>2. JsonBBox(v) = <<List(ns)>> /\ ValidBBox(ns)
  BY DEF JsonBBox, IsJsonBBox
<1>3. NumbersRead(ns)
  <2> HIDE DEF w
  <2>1. QED  BY <1>1, NumberNodesRead
<1> HIDE DEF ns, w
<1>4. BoxRead(List(ns))
  BY <1>2, <1>3 DEF BoxRead
<1>5. QED  BY <1>2, <1>4

\* The bbox member, where there is one.
LEMMA OptionalBBoxRead ==
    ASSUME Inv, NEW v \in Parts(input), Has(v, "bbox") => IsJsonBBox(v.fields["bbox"])
    PROVE  BBoxRead(JsonBBox(v))
<1>1. CASE Has(v, "bbox")
  BY <1>1, JsonBBoxRead DEF BBoxRead
<1>2. CASE ~Has(v, "bbox")
  BY <1>2 DEF BBoxRead, JsonBBox
<1>3. QED  BY <1>1, <1>2

LEMMA GeometryBoxKept == ASSUME Inv, Kept, GeometryBox PROVE Kept'
<1> DEFINE type == "BBox"
           data == JsonBBox(val)[1]
           none == << >>
           n == GeometryLiteral(type, data, none, path)
<1>1. /\ mode = "call" /\ proc = "Geometry" /\ Has(val, "bbox")
      /\ Fail(stack) \/ (IsJsonBBox(val.fields["bbox"]) /\ Return(n, stack))
  BY DEF GeometryBox, Calling, IsJsonBox, ValidJsonBox
<1>2. CASE IsJsonBBox(val.fields["bbox"]) /\ Return(n, stack)
  <2>1. val \in Parts(input) /\ proc \notin Typed
    BY <1>1, AtCall DEF Typed
  <2>2. PICK b : BoxRead(b) /\ JsonBBox(val) = <<b>>
    BY <1>1, <1>2, <2>1, JsonBBoxRead
  <2>3. data = b
    BY <2>2
  <2>4. DataRead(type, data) /\ BBoxRead(none)
    BY <2>2, <2>3 DEF DataRead, BBoxRead
  <2> HIDE DEF type, data, none
  <2>5. SoundTree(cfg, n)
    BY <2>4, GeometryTree
  <2> HIDE DEF n
  <2>6. QED  BY <1>1, <1>2, <2>1, <2>5, PlainReturn
<1>3. QED  BY <1>1, <1>2, CallFails

LEMMA GeometryMembersKept == ASSUME Inv, Kept, GeometryMembers PROVE Kept'
<1> DEFINE members == val.fields["geometries"]
           p == Append(path, Key("geometries"))
           calls == Items(members, "Geometry", p, depth + 1)
           op == ""
           f == Frame("Collection", op, calls)
<1>1. /\ mode = "call" /\ proc = "Geometry"
      /\ \/ Fail(stack)
         \/ /\ Has(val, "bbox") => IsJsonBBox(val.fields["bbox"])
            /\ Has(val, "geometries") /\ Continue(f, stack)
  BY DEF GeometryMembers, Calling
<1>2. CASE /\ Has(val, "bbox") => IsJsonBBox(val.fields["bbox"])
           /\ Has(val, "geometries") /\ Continue(f, stack)
  <2>1. val \in Parts(input) /\ proc \notin Typed
    BY <1>1, AtCall DEF Typed
  <2>2. members \in Parts(input)
    BY <1>2, <2>1, PartsInside
  <2> HIDE DEF members, p
  <2>3. Reading(calls)
    BY <2>2, ItemsRead
  <2> HIDE DEF calls, op
  <2>4. f.pc = "Collection" /\ f.val = val
    BY FrameFields
  <2> HIDE DEF f
  <2>5. Opened(f)
    BY <1>2, <2>1, <2>4 DEF Opened
  <2>6. QED  BY <1>1, <1>2, <2>1, <2>3, <2>5, PlainStart DEF f
<1>3. QED  BY <1>1, <1>2, CallFails

LEMMA GeometryCollectionCompleteKept ==
    ASSUME Inv, Kept, GeometryCollectionComplete PROVE Kept'
<1> DEFINE bbox == JsonBBox(Top.val)
           source == "json"
           n == GeometryLiteral("GeometryCollection", List(Top.acc), bbox, Top.src)
<1>1. /\ Complete("Collection")
      /\ Fail(Below) \/ (ValidCollection(Top.acc, source) /\ Return(n, Below))
  BY DEF GeometryCollectionComplete
<1>2. CASE ValidCollection(Top.acc, source) /\ Return(n, Below)
  <2>1. /\ Top.pc = "Collection" /\ Opened(Top)
        /\ \A i \in DOMAIN Top.acc : SoundTree(cfg, Top.acc[i])
    BY <1>1, AtComplete
  <2>2. Top.val \in Parts(input) /\ (Has(Top.val, "bbox") => IsJsonBBox(Top.val.fields["bbox"]))
    BY <2>1 DEF Opened
  <2>3. BBoxRead(bbox)
    BY <2>2, OptionalBBoxRead
  <2> HIDE DEF bbox, source
  <2>4. SoundTree(cfg, n)
    BY <1>2, <2>1, <2>3, CollectionTree
  <2> HIDE DEF n
  <2>5. QED  BY <1>1, <1>2, <2>4, PlainComplete
<1>3. QED  BY <1>1, <1>2, CompleteFails

LEMMA GeometryDataKept == ASSUME Inv, Kept, GeometryData PROVE Kept'
<1> DEFINE type == JsonType(val)
           v == val.fields["coordinates"]
           data == JsonData(type, v)
           bbox == JsonBBox(val)
           n == GeometryLiteral(type, data, bbox, path)
<1>1. /\ mode = "call" /\ proc = "Geometry"
      /\ \/ Fail(stack)
         \/ /\ Has(val, "bbox") => IsJsonBBox(val.fields["bbox"])
            /\ Has(val, "coordinates") /\ IsJsonData(type, v)
            /\ Return(n, stack)
  BY DEF GeometryData, Calling, ValidJsonGeometry
<1>2. CASE /\ Has(val, "bbox") => IsJsonBBox(val.fields["bbox"])
           /\ Has(val, "coordinates") /\ IsJsonData(type, v)
           /\ Return(n, stack)
  <2>1. val \in Parts(input) /\ proc \notin Typed
    BY <1>1, AtCall DEF Typed
  <2>2. v \in Parts(input)
    BY <1>2, <2>1, PartsInside
  <2>3. BBoxRead(bbox)
    BY <1>2, <2>1, OptionalBBoxRead
  <2> HIDE DEF type, v, bbox
  <2>4. DataRead(type, data)
    BY <1>2, <2>2, JsonDataRead
  <2> HIDE DEF data
  <2>5. SoundTree(cfg, n)
    BY <2>3, <2>4, GeometryTree
  <2> HIDE DEF n
  <2>6. QED  BY <1>1, <1>2, <2>1, <2>5, PlainReturn
<1>3. QED  BY <1>1, <1>2, CallFails

-----------------------------------------------------------------------------
(* Every step, and no step.                                                *)

LEMMA UnmovedKept ==
    ASSUME Inv, Kept, UNCHANGED <<input, cfg, proc, val, node, stack>>,
           mode' = mode \/ (stack = << >> /\ mode' \notin {"call", "complete", "return"})
    PROVE  Kept'
<1>1. \A i \in 1..Len(stack) : FrameSound(stack[i])
  BY DEF Kept, OperandsSound
<1>2. \A i \in 1..Len(stack') : FrameSound(stack[i])'
  BY <1>1, SoundAgain
<1>3. SoundTree(cfg, node)' /\ (val \in Parts(input))'
  BY DEF Kept, OperandsSound
<1>4. stack = << >> => Len(stack) = 0
  BY StackLength
<1>5. \A i \in 1..Len(stack') : IF mode' = "complete" /\ i = Len(stack')
                                THEN stack'[i].next = OperandCount(stack'[i]) + 1
                                ELSE Waiting(stack'[i])
  BY <1>4 DEF Kept, OperandsSound
<1>6. OperandsSound'
  BY <1>2, <1>3, <1>5 DEF OperandsSound, Waiting, OperandCount
<1>7. PromisesKept'
  <2>1. PromisesKept
    BY DEF Kept
  <2>2. /\ \A i \in 1 .. Len(stack') - 1 : Yields(stack[i + 1], Awaited(stack[i]))'
        /\ stack' # << >> => stack # << >> /\ Awaited(Top)' = Awaited(Top)
    BY <2>1 DEF PromisesKept, Yields, Awaited, Top
  <2>3. mode' = "call" /\ stack' # << >> /\ Awaited(Top)' \in {"Numeric", "Character", "Pattern"} =>
          proc' = Awaited(Top)'
    BY <2>1, <2>2 DEF PromisesKept
  <2>4. mode' = "return" /\ stack' # << >> => Promised(Awaited(Top), node)'
    BY <2>1, <2>2 DEF PromisesKept, Promised
  <2>5. QED  BY <2>2, <2>3, <2>4 DEF PromisesKept
<1>8. QED  BY <1>6, <1>7 DEF Kept

LEMMA FinishKept == ASSUME Inv, Kept, Finish PROVE Kept'
  BY UnmovedKept DEF Finish

LEMMA StutterKept == ASSUME Inv, Kept, UNCHANGED vars PROVE Kept'
  BY UnmovedKept DEF vars

LEMMA StepKept == ASSUME Inv, Kept, Step PROVE Kept'
  BY MaximumDepthExceededKept, FinishKept, CollectKept, UnwindKept,
     AlternativeSucceededKept, AlternativeFailedKept,
     LiteralExpressionKept, NotAnExpressionKept,
     PredicateExpressionKept, PredicateCompleteKept,
     LogicalExpressionKept, LogicalCompleteKept, NotExpressionKept, NotCompleteKept,
     ComparisonExpressionKept, ComparisonCompleteKept,
     LikeExpressionKept, BetweenExpressionKept, LikeOrBetweenCompleteKept,
     InExpressionKept, InCompleteKept, IsNullExpressionKept, IsNullCompleteKept,
     FunctionExpressionKept, FunctionCompleteKept, WantedCompleteKept,
     ScalarLiteralKept, ScalarPropertyKept, ScalarInstantKept, ScalarOperationKept,
     ArithmeticCompleteKept, TypedLiteralKept, TypedPropertyKept, TypedOperationKept,
     PatternKept, OperandKept, ArrayLiteralKept, ArrayCompleteKept,
     TemporalInstanceKept, IntervalKept, IntervalCompleteKept,
     EndpointStringKept, EndpointPropertyKept, EndpointFunctionKept,
     GeometryBoxKept, GeometryMembersKept, GeometryCollectionCompleteKept, GeometryDataKept
     DEF Step

LEMMA InitKept == Init => Kept
<1> SUFFICES ASSUME Init PROVE Kept
  OBVIOUS
<1>1. SoundTree(cfg, node)
  BY NoNodeSound DEF Init
<1>2. val \in Parts(input)
  BY DocumentsAssumption DEF Init, Inputs, IsDocument
<1>3. Len(stack) = 0 /\ stack = << >> /\ mode = "call"
  BY DEF Init
<1>4. QED  BY <1>1, <1>2, <1>3 DEF Kept, OperandsSound, PromisesKept

-----------------------------------------------------------------------------
(* How deep an operand may still nest.                                     *)

Level(f) == IF Counted(f) THEN 1 ELSE 0

CountedUpto(st, k) == {i \in 1..k : Counted(st[i])}

LEMMA CountedFinite ==
    ASSUME NEW st, NEW k \in Nat
    PROVE  IsFiniteSet(CountedUpto(st, k)) /\ Cardinality(CountedUpto(st, k)) \in Nat
<1>1. IsFiniteSet(1..k)
  BY FS_Interval
<1>2. IsFiniteSet(CountedUpto(st, k))
  BY <1>1, FS_Subset DEF CountedUpto
<1>3. QED  BY <1>2, FS_CardinalityType

LEMMA Limit == ASSUME Inv PROVE cfg.maxDepth \in Nat /\ depth \in Nat
  BY ConfigsAssumption DEF Inv, TypeOK

LEMMA RoomIsInt ==
    ASSUME Inv, NEW st, NEW k \in Nat
    PROVE  Room(st, k) \in Int
<1> DEFINE n == Cardinality(CountedUpto(st, k))
<1>1. n \in Nat /\ cfg.maxDepth \in Nat
  BY CountedFinite, Limit
<1>2. Room(st, k) = cfg.maxDepth + 2 - n
  BY DEF Room, CountedUpto
<1> HIDE DEF n
<1>3. QED  BY <1>1, <1>2

LEMMA RoomOfNone ==
    ASSUME Inv, NEW st
    PROVE  Room(st, 0) = cfg.maxDepth + 2
<1>1. CountedUpto(st, 0) = {}
  BY DEF CountedUpto
<1>2. Cardinality(CountedUpto(st, 0)) = 0
  BY <1>1, FS_EmptySet
<1>3. QED  BY <1>2, Limit DEF Room, CountedUpto

\* Every frame takes its level.
LEMMA RoomDescends ==
    ASSUME Inv, NEW st, NEW k \in Nat
    PROVE  Room(st, k + 1) = Room(st, k) - Level(st[k + 1])
<1> DEFINE S == CountedUpto(st, k)
           T == CountedUpto(st, k + 1)
<1>1. IsFiniteSet(S) /\ Cardinality(S) \in Nat
  BY CountedFinite
<1>2. k + 1 \notin S
  BY DEF CountedUpto
<1>3. \A i : i \in 1 .. k + 1 <=> i \in 1..k \/ i = k + 1
  OBVIOUS
<1>4. Room(st, k) = cfg.maxDepth + 2 - Cardinality(S) /\ Room(st, k + 1) = cfg.maxDepth + 2 - Cardinality(T)
  BY DEF Room, CountedUpto
<1>5. CASE Counted(st[k + 1])
  <2>1. T = S \cup {k + 1}
    BY <1>3, <1>5 DEF CountedUpto
  <2> HIDE DEF S, T
  <2>2. Cardinality(T) = Cardinality(S) + 1
    BY <1>1, <1>2, <2>1, FS_AddElement
  <2>3. QED  BY <1>1, <1>4, <1>5, <2>2, Limit DEF Level
<1>6. CASE ~Counted(st[k + 1])
  <2>1. T = S
    BY <1>3, <1>6 DEF CountedUpto
  <2> HIDE DEF S, T
  <2>2. QED  BY <1>1, <1>4, <1>6, <2>1, Limit DEF Level
<1>7. QED  BY <1>5, <1>6

\* Only the frames counted matter.
LEMMA RoomOfPrefix ==
    ASSUME NEW st, NEW more, NEW k \in Nat, \A i \in 1..k : more[i] = st[i]
    PROVE  Room(more, k) = Room(st, k)
<1>1. CountedUpto(more, k) = CountedUpto(st, k)
  BY DEF CountedUpto
<1>2. QED  BY <1>1 DEF Room, CountedUpto

Space(st) == Room(st, Len(st))

Fitting(st) ==
    /\ IsSequence(st)
    /\ \A k \in 1..Len(st) : FrameFits(st[k], Room(st, k - 1), Room(st, k))

LEMMA StackFits ==
    ASSUME Inv, RoomLeft
    PROVE  Fitting(stack) /\ Space(stack) \in Int /\ (stack = << >> => Space(stack) = cfg.maxDepth + 2)
<1>1. Fitting(stack)
  BY StackLength DEF RoomLeft, Fitting
<1>2. Space(stack) \in Int
  BY StackLength, RoomIsInt DEF Space
<1>3. ASSUME stack = << >> PROVE Space(stack) = cfg.maxDepth + 2
  <2>1. Len(stack) = 0
    BY <1>3, StackLength
  <2>2. QED  BY <2>1, RoomOfNone DEF Space
<1>4. QED  BY <1>1, <1>2, <1>3

LEMMA PushFits ==
    ASSUME Inv, NEW st, NEW f, Fitting(st), FrameFits(f, Space(st), Space(st) - Level(f))
    PROVE  /\ Fitting(Append(st, f)) /\ Space(Append(st, f)) = Space(st) - Level(f)
           /\ Space(st) \in Int
<1> DEFINE more == Append(st, f)
           n == Len(st)
<1>1. /\ IsSequence(more) /\ Len(more) = n + 1 /\ n \in Nat
      /\ \A i \in 1..n : more[i] = st[i]
      /\ more[n + 1] = f
  BY MoreOperands DEF Fitting
<1> HIDE DEF more, n
<1>2. ASSUME NEW k \in 0..n PROVE Room(more, k) = Room(st, k)
  <2>1. k \in Nat /\ \A i \in 1..k : more[i] = st[i]
    BY <1>1
  <2>2. QED  BY <2>1, RoomOfPrefix
<1>3. Room(more, n) = Space(st)
  BY <1>1, <1>2 DEF Space, n
<1>4. Room(more, n + 1) = Space(st) - Level(f)
  BY <1>1, <1>3, RoomDescends
<1>5. ASSUME NEW k \in 1..Len(more)
      PROVE  FrameFits(more[k], Room(more, k - 1), Room(more, k))
  <2>1. CASE k = n + 1
    <3>1. k - 1 = n
      BY <1>1, <2>1
    <3>2. QED  BY <1>1, <1>3, <1>4, <2>1, <3>1
  <2>2. CASE k # n + 1
    <3>1. k \in 1..n /\ k \in 0..n /\ k - 1 \in 0..n
      BY <1>1, <2>2
    <3>2. more[k] = st[k] /\ Room(more, k) = Room(st, k) /\ Room(more, k - 1) = Room(st, k - 1)
      BY <1>1, <1>2, <3>1
    <3>3. QED  BY <3>1, <3>2 DEF Fitting, n
  <2>3. QED  BY <2>1, <2>2
<1>6. Space(st) \in Int
  BY <1>1, RoomIsInt DEF Space, n
<1>7. QED  BY <1>1, <1>4, <1>5, <1>6 DEF Fitting, Space, more

\* The frame on top, and the stack below it.
LEMMA TopFits ==
    ASSUME Inv, RoomLeft, stack # << >>
    PROVE  /\ Fitting(Below) /\ Space(Below) \in Int
           /\ Space(stack) = Space(Below) - Level(Top)
           /\ FrameFits(Top, Space(Below), Space(Below) - Level(Top))
<1> DEFINE n == Len(Below)
<1>1. /\ IsSequence(Below) /\ n \in Nat /\ Len(stack) = n + 1
      /\ \A i \in 1..n : Below[i] = stack[i]
      /\ Top = stack[n + 1]
  BY BelowFacts
<1>2. ASSUME NEW k \in 0..n PROVE Room(Below, k) = Room(stack, k)
  <2> HIDE DEF n
  <2>1. k \in Nat /\ \A i \in 1..k : Below[i] = stack[i]
    BY <1>1
  <2>2. QED  BY <2>1, RoomOfPrefix
<1>3. ASSUME NEW k \in 1..n PROVE FrameFits(Below[k], Room(Below, k - 1), Room(Below, k))
  <2> HIDE DEF n
  <2>1. k \in 1..Len(stack) /\ k \in 0..n /\ k - 1 \in 0..n
    BY <1>1
  <2>2. Room(Below, k) = Room(stack, k) /\ Room(Below, k - 1) = Room(stack, k - 1) /\ Below[k] = stack[k]
    BY <1>1, <1>2, <2>1
  <2>3. QED  BY <2>1, <2>2 DEF RoomLeft
<1>4. Space(Below) = Room(stack, n) /\ Space(stack) = Room(stack, n + 1)
  BY <1>1, <1>2 DEF Space
<1> HIDE DEF n
<1>5. Room(stack, n + 1) = Room(stack, n) - Level(Top)
  BY <1>1, RoomDescends
<1>6. FrameFits(Top, Room(stack, n), Room(stack, n + 1))
  <2>1. n + 1 \in 1..Len(stack) /\ (n + 1) - 1 = n
    BY <1>1
  <2>2. QED  BY <1>1, <2>1 DEF RoomLeft
<1>7. Room(stack, n) \in Int
  BY <1>1, RoomIsInt
<1>8. QED  BY <1>1, <1>3, <1>4, <1>5, <1>6, <1>7 DEF Fitting, n

-----------------------------------------------------------------------------
(* The ways control moves, with what is left.                              *)

LEMMA FitsAgain ==
    ASSUME NEW st, Fitting(st), stack' = st, UNCHANGED cfg
    PROVE  /\ \A k \in 1..Len(stack') : FrameFits(stack[k], Room(stack, k - 1), Room(stack, k))'
           /\ Room(stack, Len(stack))' = Space(st)
<1>1. \A k : Room(stack, k)' = Room(st, k)
  BY DEF Room, Counted
<1>2. \A k \in 1..Len(st) : FrameFits(st[k], Room(st, k - 1), Room(st, k))
  BY DEF Fitting
<1>3. \A f, above, room : CallFits(f, above, room)' = CallFits(f, above, room)
  BY DEF CallFits
<1>4. ASSUME NEW k \in 1..Len(stack')
      PROVE  FrameFits(stack[k], Room(stack, k - 1), Room(stack, k))'
  <2>1. stack'[k] = st[k] /\ Room(stack, k - 1)' = Room(st, k - 1) /\ Room(stack, k)' = Room(st, k)
    BY <1>1
  <2>2. QED  BY <1>2, <1>3, <2>1 DEF FrameFits, CallFits
<1>5. QED  BY <1>1, <1>4 DEF Space

LEMMA EnterRoom ==
    ASSUME NEW st, NEW c, Fitting(st), CallFits(c.proc, c.depth, Space(st)), Enter(c, st)
    PROVE  RoomLeft'
<1>1. mode' = "call" /\ stack' = st /\ UNCHANGED cfg /\ proc' = c.proc /\ depth' = c.depth
  BY DEF Enter
<1>2. CallFits(proc, depth, Room(stack, Len(stack)))'
  BY <1>1, FitsAgain DEF CallFits
<1>3. QED  BY <1>1, <1>2, FitsAgain DEF RoomLeft, TreeWithinDepth

LEMMA ReturnRoom ==
    ASSUME NEW st, NEW n, Fitting(st), NestsWithin("json", n, Space(st)), Return(n, st)
    PROVE  RoomLeft'
<1>1. mode' = "return" /\ stack' = st /\ UNCHANGED cfg /\ node' = n
  BY DEF Return
<1>2. QED  BY <1>1, FitsAgain DEF RoomLeft, TreeWithinDepth

LEMMA FailRoom ==
    ASSUME NEW st, Fitting(st), Fail(st)
    PROVE  RoomLeft'
<1>1. mode' = "fail" /\ stack' = st /\ UNCHANGED cfg
  BY DEF Fail
<1>2. QED  BY <1>1, FitsAgain DEF RoomLeft, TreeWithinDepth

LEMMA ContinueRoom ==
    ASSUME Inv, NEW st, NEW f, Fitting(st), FrameFits(f, Space(st), Space(st) - Level(f)),
           Continue(f, st)
    PROVE  RoomLeft'
<1> DEFINE more == Append(st, f)
<1>1. Fitting(more) /\ Space(more) = Space(st) - Level(f)
  BY PushFits
<1>2. CASE f.next \in DOMAIN f.calls
  <2> DEFINE c == f.calls[f.next]
  <2>1. CallFits(c.proc, c.depth, Space(st) - Level(f))
    BY <1>2 DEF FrameFits
  <2>2. Enter(c, more)
    BY <1>2 DEF Continue
  <2> HIDE DEF c, more
  <2>3. CallFits(c.proc, c.depth, Space(more))
    BY <1>1, <2>1
  <2>4. QED  BY <1>1, <2>2, <2>3, EnterRoom
<1>3. CASE f.next \notin DOMAIN f.calls
  <2>1. mode' = "complete" /\ stack' = more /\ UNCHANGED cfg
    BY <1>3 DEF Continue
  <2> HIDE DEF more
  <2>2. QED  BY <1>1, <2>1, FitsAgain DEF RoomLeft, TreeWithinDepth
<1>4. QED  BY <1>2, <1>3

-----------------------------------------------------------------------------
(* Where a procedure is called: what may be returned there.                *)

LEMMA CallRoom ==
    ASSUME Inv, RoomLeft, mode = "call"
    PROVE  /\ Fitting(stack) /\ Space(stack) \in Int
           /\ cfg.maxDepth \in Nat /\ depth \in Nat
           /\ cfg.maxDepth + 2 - depth <= Space(stack)
           /\ proc \in {"Character", "Numeric"} => 1 <= Space(stack)
           /\ proc \in DepthChecked /\ ~TooDeep => depth <= cfg.maxDepth /\ 2 <= Space(stack)
<1>1. cfg.maxDepth \in Nat /\ depth \in Nat /\ Fitting(stack) /\ Space(stack) \in Int
  BY Limit, StackFits
<1>2. CallFits(proc, depth, Space(stack))
  BY DEF RoomLeft, Space
<1>3. cfg.maxDepth + 2 - depth <= Space(stack)
  BY <1>2 DEF CallFits
<1>4. proc \in {"Character", "Numeric"} => 1 <= Space(stack)
  BY <1>2 DEF CallFits, OperandOf
<1>5. ASSUME proc \in DepthChecked, ~TooDeep PROVE depth <= cfg.maxDepth
  BY <1>1, <1>5 DEF TooDeep
<1>6. depth <= cfg.maxDepth => 2 <= Space(stack)
  BY <1>1, <1>3
<1>7. QED  BY <1>1, <1>3, <1>4, <1>5, <1>6

LEMMA CallFailsRoom == ASSUME Inv, RoomLeft, mode = "call", Fail(stack) PROVE RoomLeft'
  BY CallRoom, FailRoom

\* The calls of a new frame may return what there is room for.
CallsFit(calls, room) == \A i \in DOMAIN calls : CallFits(calls[i].proc, calls[i].depth, room)

LEMMA StartRoom ==
    ASSUME Inv, NEW st, Fitting(st), NEW pc, NEW op, NEW calls, pc # "Try" => 1 <= Space(st),
           CallsFit(calls, Space(st) - Level(Frame(pc, op, calls))),
           Continue(Frame(pc, op, calls), st)
    PROVE  RoomLeft'
<1> DEFINE f == Frame(pc, op, calls)
<1>1. f.pc = pc /\ f.calls = calls /\ f.acc = << >>
  BY FrameFields
<1>2. Continue(f, st) /\ CallsFit(calls, Space(st) - Level(f))
  OBVIOUS
<1> HIDE DEF f
<1>3. DOMAIN << >> = {}
  OBVIOUS
<1>4. FrameFits(f, Space(st), Space(st) - Level(f))
  BY <1>1, <1>2, <1>3 DEF FrameFits, CallsFit
<1>5. QED  BY <1>2, <1>4, ContinueRoom

LEMMA LevelOf ==
    ASSUME NEW pc, NEW op, NEW calls
    PROVE  /\ Level(Frame(pc, op, calls)) \in {0, 1}
           /\ pc \in {"Try", "Wanted", "Arithmetic"} => Level(Frame(pc, op, calls)) = 0
           /\ pc = "Function" /\ op \in {"CASEI", "ACCENTI"} => Level(Frame(pc, op, calls)) = 0
  BY DEF Level, Counted, Frame

\* Where a call may go deeper.
LEMMA ArgumentsFit ==
    ASSUME NEW pr, NEW d, NEW room, CallFits(pr, d, room)
    PROVE  CallsFit(Arguments(pr, d), room)
<1> DEFINE calls == Arguments(pr, d)
<1>1. \A i \in DOMAIN calls : calls[i].proc = pr /\ calls[i].depth = d
  BY DEF Arguments, Argument, Call
<1> HIDE DEF calls
<1>2. QED  BY <1>1 DEF CallsFit, calls

LEMMA ItemsFit ==
    ASSUME NEW v, NEW pr, NEW p, NEW d, NEW room, CallFits(pr, d, room)
    PROVE  CallsFit(Items(v, pr, p, d), room)
<1> DEFINE calls == Items(v, pr, p, d)
<1>1. \A i \in DOMAIN calls : calls[i].proc = pr /\ calls[i].depth = d
  BY DEF Items, Call
<1> HIDE DEF calls
<1>2. QED  BY <1>1 DEF CallsFit, calls

-----------------------------------------------------------------------------
(* What may nest where.                                                    *)

LEMMA JsonWeight ==
    ASSUME NEW n, NEW i
    PROVE  Weight("json", n, i) = IF n.kind \in {"Arithmetic", "List"} \/ n.op \in {"CASEI", "ACCENTI"} THEN 0 ELSE 1
<1>1. "json" # "text"
  OBVIOUS
<1>2. QED  BY <1>1 DEF Weight

Nested(args, room) == \A i \in DOMAIN args : NestsWithin("json", args[i], room)

LEMMA NodeNests ==
    ASSUME NEW n, NEW room, room \in Int, 1 <= room, n.kind \in {"Arithmetic", "List"} \/ n.op \in {"CASEI", "ACCENTI"},
           Nested(n.args, room)
    PROVE  NestsWithin("json", n, room)
<1> DEFINE reader == "json"
<1>1. reader # "none"
  OBVIOUS
<1>2. \A i : Weight(reader, n, i) = 0
  BY JsonWeight
<1>3. \A i \in DOMAIN n.args : NestsWithin(reader, n.args[i], room)
  BY DEF Nested
<1> HIDE DEF reader
<1>4. \A i \in Inner(n) : i \in DOMAIN n.args
  BY DEF Inner
<1>5. room - 0 = room
  OBVIOUS
<1>6. \A i \in Inner(n) : NestsWithin(reader, n.args[i], room - Weight(reader, n, i))
  BY <1>2, <1>3, <1>4, <1>5
<1>7. NestsWithin(reader, n, room)
  BY <1>1, <1>6, NestingNode
<1>8. QED  BY <1>7 DEF reader

\* The operands of the others have a level less.
LEMMA NodeNestsBelow ==
    ASSUME NEW n, NEW room, room \in Int, NEW less, less \in Int, less + 1 <= room, 1 <= room,
           \A i \in Inner(n) : NestsWithin("json", n.args[i], less)
    PROVE  NestsWithin("json", n, room)
<1> DEFINE reader == "json"
<1>1. reader # "none"
  OBVIOUS
<1>3. \A i \in Inner(n) : NestsWithin(reader, n.args[i], less)
  OBVIOUS
<1> HIDE DEF reader
<1>4. ASSUME NEW i \in Inner(n) PROVE NestsWithin(reader, n.args[i], room - Weight(reader, n, i))
  <2> DEFINE w == Weight(reader, n, i)
  <2>1. w \in {0, 1}
    BY WeightRange
  <2> HIDE DEF w
  <2>2. less <= room - w /\ room - w \in Int
    BY <2>1
  <2>3. NestsWithin(reader, n.args[i], room - w)
    BY <1>1, <1>3, <2>2, NestingGrows
  <2>4. QED  BY <2>3 DEF w
<1>5. NestsWithin(reader, n, room)
  BY <1>1, <1>4, NestingNode
<1>6. QED  BY <1>5 DEF reader

LEMMA LeafNests ==
    ASSUME NEW n, NEW room, room \in Int, 1 <= room, Inner(n) = {}
    PROVE  NestsWithin("json", n, room)
<1> DEFINE less == room - 1
<1>1. less \in Int /\ less + 1 <= room
  OBVIOUS
<1> HIDE DEF less
<1>2. QED  BY <1>1, NodeNestsBelow

LEMMA NestsRoom == ASSUME NEW n, NEW room, room \in Int, NestsWithin("json", n, room) PROVE 1 <= room
<1> DEFINE reader == "json"
<1>1. reader # "none" /\ NestsWithin(reader, n, room)
  OBVIOUS
<1> HIDE DEF reader
<1>2. QED  BY <1>1, NestingRoom

\* A node without operands, where there is room for one.
LEMMA LeafRoom ==
    ASSUME Inv, RoomLeft, mode = "call", 1 <= Space(stack),
           NEW kind, NEW op, NEW types, NEW src,
           Return(Node(kind, op, types, << >>, src), stack)
    PROVE  RoomLeft'
<1> DEFINE n == Node(kind, op, types, << >>, src)
<1>1. n.args = << >>
  BY NodeFields
<1>2. Return(n, stack)
  OBVIOUS
<1> HIDE DEF n
<1>3. Inner(n) = {}
  BY <1>1 DEF Inner
<1>4. Fitting(stack) /\ Space(stack) \in Int
  BY StackFits
<1>5. NestsWithin("json", n, Space(stack))
  BY <1>3, <1>4, LeafNests
<1>6. QED  BY <1>2, <1>4, <1>5, ReturnRoom

-----------------------------------------------------------------------------
(* Where the operands of a frame are complete.                             *)

LEMMA CompleteRoom ==
    ASSUME NEW pc, Inv, RoomLeft, Complete(pc)
    PROVE  /\ Top.pc = pc /\ Fitting(Below) /\ Space(Below) \in Int /\ 1 <= Space(Below)
           /\ Nested(Top.acc, Space(Below) - Level(Top))
<1>1. mode = "complete" /\ Top.pc = pc /\ stack # << >> /\ pc # "Try"
  BY DEF Complete, Inv, TypeOK
<1>2. Fitting(Below) /\ Space(Below) \in Int /\ FrameFits(Top, Space(Below), Space(Below) - Level(Top))
  BY <1>1, TopFits
<1>3. QED  BY <1>1, <1>2 DEF FrameFits, Nested

LEMMA CompleteFailsRoom == ASSUME NEW pc, Inv, RoomLeft, Complete(pc), Fail(Below) PROVE RoomLeft'
  BY CompleteRoom, FailRoom

\* A node of operands that have a level less than it.
LEMMA BuiltRoom ==
    ASSUME NEW pc, Inv, RoomLeft, Complete(pc), Counted(Top),
           NEW n, \A i \in Inner(n) : NestsWithin("json", n.args[i], Space(Below) - 1),
           Return(n, Below)
    PROVE  RoomLeft'
<1> DEFINE room == Space(Below)
           less == room - 1
<1>1. Fitting(Below) /\ room \in Int /\ 1 <= room
  BY CompleteRoom
<1>2. less \in Int /\ less + 1 <= room
  BY <1>1
<1>3. \A i \in Inner(n) : NestsWithin("json", n.args[i], less)
  OBVIOUS
<1> HIDE DEF room, less
<1>4. NestsWithin("json", n, room)
  BY <1>1, <1>2, <1>3, NodeNestsBelow
<1>5. QED  BY <1>1, <1>4, ReturnRoom DEF room

LEMMA CountedRoom ==
    ASSUME NEW pc, Inv, RoomLeft, Complete(pc), Counted(Top)
    PROVE  Nested(Top.acc, Space(Below) - 1)
  BY CompleteRoom DEF Level

\* ... that are what the frame has collected.
LEMMA CollectedRoom ==
    ASSUME NEW pc, Inv, RoomLeft, Complete(pc), Counted(Top),
           NEW kind, NEW op, NEW types, NEW src, Return(Node(kind, op, types, Top.acc, src), Below)
    PROVE  RoomLeft'
<1> DEFINE n == Node(kind, op, types, Top.acc, src)
<1>1. n.args = Top.acc /\ Return(n, Below)
  BY NodeFields
<1> HIDE DEF n
<1>2. \A i \in Inner(n) : i \in DOMAIN n.args
  BY DEF Inner
<1>3. \A i \in Inner(n) : NestsWithin("json", n.args[i], Space(Below) - 1)
  BY <1>1, <1>2, CountedRoom DEF Nested
<1>4. QED  BY <1>1, <1>3, BuiltRoom
-----------------------------------------------------------------------------
(* Frames of procedures that have checked their depth.                     *)

Checked == mode = "call" /\ proc \in DepthChecked /\ ~TooDeep

LEMMA CallingChecked == ASSUME NEW pr \in DepthChecked, Calling(pr) PROVE Checked /\ proc = pr
  BY DEF Calling, Checked

LEMMA CheckedFits ==
    ASSUME Inv, RoomLeft, Checked, NEW level \in {0, 1}, NEW pr, NEW d \in {depth + 1, depth + 2}
    PROVE  CallFits(pr, d, Space(stack) - level)
<1>1. /\ Space(stack) \in Int /\ cfg.maxDepth \in Nat /\ depth \in Nat
      /\ cfg.maxDepth + 2 - depth <= Space(stack) /\ 2 <= Space(stack)
  BY CallRoom DEF Checked
<1>2. d \in Int /\ depth + 1 <= d /\ level \in 0..1
  BY <1>1
<1>3. cfg.maxDepth + 2 - d <= Space(stack) - level /\ 1 <= Space(stack) - level
  BY <1>1, <1>2
<1>4. QED  BY <1>3 DEF CallFits

LEMMA CheckedStart ==
    ASSUME Inv, RoomLeft, Checked, NEW pc, NEW op, NEW calls,
           \A level \in {0, 1} : CallsFit(calls, Space(stack) - level),
           Continue(Frame(pc, op, calls), stack)
    PROVE  RoomLeft'
<1>1. Fitting(stack) /\ Space(stack) \in Int /\ 2 <= Space(stack)
  BY CallRoom DEF Checked
<1>2. 1 <= Space(stack)
  BY <1>1
<1>3. Level(Frame(pc, op, calls)) \in {0, 1}
  BY LevelOf
<1>4. CallsFit(calls, Space(stack) - Level(Frame(pc, op, calls)))
  BY <1>3
<1>5. QED  BY <1>1, <1>2, <1>4, StartRoom

LEMMA CheckedArguments ==
    ASSUME Inv, RoomLeft, Checked, NEW pc, NEW op, NEW pr,
           Continue(Frame(pc, op, Arguments(pr, depth + 1)), stack)
    PROVE  RoomLeft'
<1> DEFINE d == depth + 1
<1>1. ASSUME NEW level \in {0, 1} PROVE CallsFit(Arguments(pr, d), Space(stack) - level)
  <2>1. CallFits(pr, d, Space(stack) - level)
    BY CheckedFits
  <2> HIDE DEF d
  <2>2. QED  BY <2>1, ArgumentsFit
<1> DEFINE calls == Arguments(pr, d)
<1>2. Continue(Frame(pc, op, calls), stack)
  OBVIOUS
<1>3. \A level \in {0, 1} : CallsFit(calls, Space(stack) - level)
  BY <1>1
<1> HIDE DEF calls
<1>4. QED  BY <1>2, <1>3, CheckedStart

LEMMA CheckedItems ==
    ASSUME Inv, RoomLeft, Checked, NEW pc, NEW op, NEW v, NEW pr, NEW p,
           Continue(Frame(pc, op, Items(v, pr, p, depth + 1)), stack)
    PROVE  RoomLeft'
<1> DEFINE d == depth + 1
<1>1. ASSUME NEW level \in {0, 1} PROVE CallsFit(Items(v, pr, p, d), Space(stack) - level)
  <2>1. CallFits(pr, d, Space(stack) - level)
    BY CheckedFits
  <2> HIDE DEF d
  <2>2. QED  BY <2>1, ItemsFit
<1> DEFINE calls == Items(v, pr, p, d)
<1>2. Continue(Frame(pc, op, calls), stack)
  OBVIOUS
<1>3. \A level \in {0, 1} : CallsFit(calls, Space(stack) - level)
  BY <1>1
<1> HIDE DEF calls
<1>4. QED  BY <1>2, <1>3, CheckedStart

LEMMA CheckedLeaf ==
    ASSUME Inv, RoomLeft, Checked, NEW kind, NEW op, NEW types, NEW src,
           Return(Node(kind, op, types, << >>, src), stack)
    PROVE  RoomLeft'
<1>1. Space(stack) \in Int /\ 2 <= Space(stack)
  BY CallRoom DEF Checked
<1>2. 1 <= Space(stack)
  BY <1>1
<1>3. QED  BY <1>2, LeafRoom DEF Checked

-----------------------------------------------------------------------------
(* What is left after each step: control.                                  *)

LEMMA MaximumDepthExceededRoom == ASSUME Inv, Kept, RoomLeft, MaximumDepthExceeded PROVE RoomLeft'
  BY CallFailsRoom DEF MaximumDepthExceeded

LEMMA UnwindRoom == ASSUME Inv, Kept, RoomLeft, Unwind PROVE RoomLeft'
  BY TopFits, FailRoom DEF Unwind

LEMMA AlternativeSucceededRoom == ASSUME Inv, Kept, RoomLeft, AlternativeSucceeded PROVE RoomLeft'
<1>1. stack # << >> /\ Top.pc = "Try" /\ mode = "return" /\ Return(node, Below)
  BY DEF AlternativeSucceeded
<1>2. /\ Fitting(Below) /\ Space(Below) \in Int /\ Space(stack) = Space(Below) - Level(Top)
      /\ Level(Top) = 0
  BY <1>1, TopFits DEF Level, Counted
<1>3. NestsWithin("json", node, Space(stack)) /\ Space(stack) = Space(Below)
  BY <1>1, <1>2 DEF RoomLeft, Space
<1>4. QED  BY <1>1, <1>2, <1>3, ReturnRoom

LEMMA AdvancedLevel == ASSUME NEW f, NEW acc PROVE Level(Advanced(f, acc)) = Level(f)
  BY AdvancedFields DEF Level, Counted

LEMMA CollectRoom == ASSUME Inv, Kept, RoomLeft, Collect PROVE RoomLeft'
<1> DEFINE acc == Append(Top.acc, node)
           f == Advanced(Top, acc)
           n == Len(Top.acc)
           room == Space(Below) - Level(Top)
<1>1. stack # << >> /\ Top.pc # "Try" /\ mode = "return" /\ Continue(f, Below)
  BY DEF Collect
<1>2. /\ Fitting(Below) /\ Space(stack) = room
      /\ FrameFits(Top, Space(Below), room)
  BY <1>1, TopFits
<1>3. NestsWithin("json", node, room)
  BY <1>1, <1>2 DEF RoomLeft, Space
<1>4. IsSequence(Top.acc)
  BY <1>1, AtTop
<1>5. /\ \A i \in 1..n : acc[i] = Top.acc[i]
      /\ acc[n + 1] = node
      /\ DOMAIN acc = 1 .. n + 1 /\ DOMAIN Top.acc = 1..n /\ n \in Nat
  BY <1>4, MoreOperands, SequenceFacts
<1>6. f.pc = Top.pc /\ f.calls = Top.calls /\ f.acc = acc /\ Level(f) = Level(Top)
  BY AdvancedFields, AdvancedLevel
<1> HIDE DEF acc, f, n
<1>7. \A i \in DOMAIN acc : i \in 1..n \/ i = n + 1
  BY <1>5
<1>8. \A i \in DOMAIN acc : NestsWithin("json", acc[i], room)
  BY <1>2, <1>3, <1>5, <1>7 DEF FrameFits
<1>9. FrameFits(f, Space(Below), room)
  BY <1>2, <1>6, <1>8 DEF FrameFits
<1>10. FrameFits(f, Space(Below), Space(Below) - Level(f))
  BY <1>6, <1>9
<1>11. QED  BY <1>1, <1>2, <1>10, ContinueRoom

LEMMA AlternativeFailedRoom == ASSUME Inv, Kept, RoomLeft, AlternativeFailed PROVE RoomLeft'
<1> DEFINE none == << >>
           f == Advanced(Top, none)
           room == Space(Below) - Level(Top)
<1>1. stack # << >> /\ Top.pc = "Try" /\ (Fail(Below) \/ Continue(f, Below))
  BY DEF AlternativeFailed
<1>2. Fitting(Below) /\ FrameFits(Top, Space(Below), room)
  BY <1>1, TopFits
<1>3. DOMAIN none = {}
  OBVIOUS
<1> HIDE DEF none
<1>4. f.pc = Top.pc /\ f.calls = Top.calls /\ f.acc = none /\ Level(f) = Level(Top)
  BY AdvancedFields, AdvancedLevel
<1> HIDE DEF f
<1>5. FrameFits(f, Space(Below), room)
  BY <1>2, <1>3, <1>4 DEF FrameFits
<1>6. FrameFits(f, Space(Below), Space(Below) - Level(f))
  BY <1>4, <1>5
<1>7. QED  BY <1>1, <1>2, <1>6, ContinueRoom, FailRoom

-----------------------------------------------------------------------------
(* ... literals, properties and instants.                                  *)

LEMMA ReturnLiteralRoom == ASSUME Inv, RoomLeft, mode = "call", 1 <= Space(stack), ReturnLiteral PROVE RoomLeft'
<1> DEFINE text == val.text
           types == {LiteralType(val)}
           kind == "Literal"
<1>1. Return(Node(kind, text, types, << >>, path), stack)
  BY DEF ReturnLiteral
<1> HIDE DEF text, types, kind
<1>2. QED  BY <1>1, LeafRoom

LEMMA CheckedRoom == ASSUME Inv, RoomLeft, Checked PROVE mode = "call" /\ 1 <= Space(stack)
<1>1. Space(stack) \in Int /\ 2 <= Space(stack) /\ mode = "call"
  BY CallRoom DEF Checked
<1>2. QED  BY <1>1

LEMMA ReturnPropertyRoom == ASSUME Inv, RoomLeft, Checked, ReturnProperty PROVE RoomLeft'
<1> DEFINE name == val.fields["property"].text
           types == {PropertyTypeOf(name)}
           kind == "Property"
<1>1. Fail(stack) \/ Return(Node(kind, name, types, << >>, path), stack)
  BY DEF ReturnProperty
<1> HIDE DEF name, types, kind
<1>2. QED  BY <1>1, CheckedLeaf, CallFailsRoom DEF Checked

LEMMA ReturnInstantRoom == ASSUME Inv, RoomLeft, Checked, ReturnInstant PROVE RoomLeft'
<1>1. \/ Fail(stack)
      \/ \E text : \E kind \in InstantTypes : Return(Instant(text, kind, path), stack)
  BY DEF ReturnInstant, InstantTypes
<1>2. ASSUME NEW text, NEW kind, Return(Instant(text, kind, path), stack) PROVE RoomLeft'
  <2> DEFINE types == {kind}
             instant == "Instant"
  <2>1. Return(Node(instant, text, types, << >>, path), stack)
    BY <1>2 DEF Instant
  <2> HIDE DEF types, instant
  <2>2. QED  BY <2>1, CheckedLeaf
<1>3. QED  BY <1>1, <1>2, CallFailsRoom DEF Checked

-----------------------------------------------------------------------------
(* ... parseJSONExpression.                                                *)

LEMMA ExpressionChecked == ASSUME Calling("Expression") PROVE Checked
  BY CallingChecked DEF DepthChecked

LEMMA LiteralExpressionRoom == ASSUME Inv, Kept, RoomLeft, LiteralExpression PROVE RoomLeft'
  BY ExpressionChecked, CheckedRoom, ReturnLiteralRoom DEF LiteralExpression

LEMMA NotAnExpressionRoom == ASSUME Inv, Kept, RoomLeft, NotAnExpression PROVE RoomLeft'
  BY CallFailsRoom DEF NotAnExpression, Calling

LEMMA PredicateExpressionRoom == ASSUME Inv, Kept, RoomLeft, PredicateExpression PROVE RoomLeft'
<1> DEFINE op == Folded(OpName(val))
           pc == "Predicate"
           pr == OperandProc(op)
<1>1. /\ Calling("Expression")
      /\ Fail(stack) \/ Continue(Frame(pc, op, Arguments(pr, depth + 1)), stack)
  BY DEF PredicateExpression
<1> HIDE DEF op, pc, pr
<1>2. QED  BY <1>1, ExpressionChecked, CheckedArguments, CallFailsRoom DEF Checked

LEMMA LogicalExpressionRoom == ASSUME Inv, Kept, RoomLeft, LogicalExpression PROVE RoomLeft'
<1> DEFINE op == Folded(OpName(val))
           pc == "Logical"
           pr == "Expression"
<1>1. /\ Calling("Expression")
      /\ Fail(stack) \/ Continue(Frame(pc, op, Arguments(pr, depth + 1)), stack)
  BY DEF LogicalExpression, ExpressionIs
<1> HIDE DEF op, pc, pr
<1>2. QED  BY <1>1, ExpressionChecked, CheckedArguments, CallFailsRoom DEF Checked

LEMMA NotExpressionRoom == ASSUME Inv, Kept, RoomLeft, NotExpression PROVE RoomLeft'
<1> DEFINE op == "NOT"
           pc == "Not"
           pr == "Expression"
<1>1. /\ Calling("Expression")
      /\ Fail(stack) \/ Continue(Frame(pc, op, Arguments(pr, depth + 1)), stack)
  BY DEF NotExpression, ExpressionIs
<1> HIDE DEF op, pc, pr
<1>2. QED  BY <1>1, ExpressionChecked, CheckedArguments, CallFailsRoom DEF Checked

LEMMA ComparisonExpressionRoom == ASSUME Inv, Kept, RoomLeft, ComparisonExpression PROVE RoomLeft'
<1> DEFINE op == OpName(val)
           pc == "Comparison"
           pr == "Scalar"
<1>1. /\ Calling("Expression")
      /\ Fail(stack) \/ Continue(Frame(pc, op, Arguments(pr, depth + 1)), stack)
  BY DEF ComparisonExpression, ExpressionIs
<1> HIDE DEF op, pc, pr
<1>2. QED  BY <1>1, ExpressionChecked, CheckedArguments, CallFailsRoom DEF Checked

LEMMA BetweenExpressionRoom == ASSUME Inv, Kept, RoomLeft, BetweenExpression PROVE RoomLeft'
<1> DEFINE op == ""
           pc == "Between"
           pr == "Numeric"
<1>1. /\ Calling("Expression")
      /\ Fail(stack) \/ Continue(Frame(pc, op, Arguments(pr, depth + 1)), stack)
  BY DEF BetweenExpression, ExpressionIs
<1> HIDE DEF op, pc, pr
<1>2. QED  BY <1>1, ExpressionChecked, CheckedArguments, CallFailsRoom DEF Checked

LEMMA IsNullExpressionRoom == ASSUME Inv, Kept, RoomLeft, IsNullExpression PROVE RoomLeft'
<1> DEFINE op == ""
           pc == "IsNull"
           pr == "IsNullOperand"
<1>1. /\ Calling("Expression")
      /\ Fail(stack) \/ Continue(Frame(pc, op, Arguments(pr, depth + 1)), stack)
  BY DEF IsNullExpression, ExpressionIs
<1> HIDE DEF op, pc, pr
<1>2. QED  BY <1>1, ExpressionChecked, CheckedArguments, CallFailsRoom DEF Checked

LEMMA LikeExpressionRoom == ASSUME Inv, Kept, RoomLeft, LikeExpression PROVE RoomLeft'
<1> DEFINE d == depth + 1
           first == Argument(1, "Character", d)
           second == Argument(2, "Pattern", d)
           calls == <<first, second>>
           op == ""
           pc == "Like"
<1>1. /\ Calling("Expression")
      /\ Fail(stack) \/ Continue(Frame(pc, op, calls), stack)
  BY DEF LikeExpression, ExpressionIs
<1>2. Checked
  BY <1>1, ExpressionChecked
<1>3. d \in {depth + 1, depth + 2}
  OBVIOUS
<1>4. /\ first.proc = "Character" /\ first.depth = d
      /\ second.proc = "Pattern" /\ second.depth = d
  BY DEF Argument, Call
<1> HIDE DEF first, second, d, op, pc
<1>5. DOMAIN calls = 1..2 /\ calls[1] = first /\ calls[2] = second
  OBVIOUS
<1> HIDE DEF calls
<1>6. ASSUME NEW level \in {0, 1} PROVE CallsFit(calls, Space(stack) - level)
  <2>1. CallFits("Character", d, Space(stack) - level) /\ CallFits("Pattern", d, Space(stack) - level)
    BY <1>2, <1>3, CheckedFits
  <2>2. QED  BY <1>4, <1>5, <2>1 DEF CallsFit
<1>7. QED  BY <1>1, <1>2, <1>6, CheckedStart, CallFailsRoom DEF Checked

LEMMA InExpressionRoom == ASSUME Inv, Kept, RoomLeft, InExpression PROVE RoomLeft'
<1> DEFINE calls == ListCalls("Scalar")
           op == ""
           pc == "In"
<1>1. /\ Calling("Expression")
      /\ Fail(stack) \/ Continue(Frame(pc, op, calls), stack)
  BY DEF InExpression, ExpressionIs
<1>2. Checked
  BY <1>1, ExpressionChecked
<1>3. \A i \in DOMAIN calls : calls[i].proc = "Scalar" /\ calls[i].depth \in {depth + 1, depth + 2}
  BY DEF ListCalls, Argument, Call
<1> HIDE DEF calls, op, pc
<1>4. ASSUME NEW level \in {0, 1} PROVE CallsFit(calls, Space(stack) - level)
  <2>1. \A d \in {depth + 1, depth + 2} : CallFits("Scalar", d, Space(stack) - level)
    BY <1>2, CheckedFits
  <2>2. QED  BY <1>3, <2>1 DEF CallsFit
<1>5. QED  BY <1>1, <1>2, <1>4, CheckedStart, CallFailsRoom DEF Checked

-----------------------------------------------------------------------------
(* ... and what it builds.                                                 *)

LEMMA CountedTop ==
    ASSUME NEW pc, Complete(pc), pc \notin {"Try", "Wanted", "Arithmetic", "Function"}
    PROVE  Counted(Top)
  BY DEF Complete, Counted

\* A predicate of what the frame has collected.
LEMMA PredicateRoom ==
    ASSUME NEW pc, Inv, RoomLeft, Complete(pc), pc \notin {"Try", "Wanted", "Arithmetic", "Function"},
           NEW kind, NEW op, NEW src,
           Fail(Below) \/ Return(Predicate(kind, op, Top.acc, src), Below)
    PROVE  RoomLeft'
<1> DEFINE types == {"boolean"}
<1>1. Fail(Below) \/ Return(Node(kind, op, types, Top.acc, src), Below)
  BY DEF Predicate
<1> HIDE DEF types
<1>2. QED  BY <1>1, CountedTop, CollectedRoom, CompleteFailsRoom

LEMMA PredicateCompleteRoom == ASSUME Inv, Kept, RoomLeft, PredicateComplete PROVE RoomLeft'
<1>1. /\ Complete("Predicate")
      /\ Fail(Below) \/ Return(Predicate(PredicateKind(Top.op), Top.op, Top.acc, Top.src), Below)
  BY DEF PredicateComplete
<1>2. QED  BY <1>1, PredicateRoom

LEMMA LogicalCompleteRoom == ASSUME Inv, Kept, RoomLeft, LogicalComplete PROVE RoomLeft'
<1> DEFINE kind == "Logical"
<1>1. Complete("Logical") /\ Return(Predicate(kind, Top.op, Top.acc, Top.src), Below)
  BY DEF LogicalComplete
<1> HIDE DEF kind
<1>2. QED  BY <1>1, PredicateRoom

LEMMA ComparisonCompleteRoom == ASSUME Inv, Kept, RoomLeft, ComparisonComplete PROVE RoomLeft'
<1> DEFINE kind == "Comparison"
<1>1. /\ Complete("Comparison")
      /\ Fail(Below) \/ Return(Predicate(kind, Top.op, Top.acc, Top.src), Below)
  BY DEF ComparisonComplete
<1> HIDE DEF kind
<1>2. QED  BY <1>1, PredicateRoom

LEMMA LikeOrBetweenCompleteRoom == ASSUME Inv, Kept, RoomLeft, LikeOrBetweenComplete PROVE RoomLeft'
<1> DEFINE op == ""
<1>1. /\ Complete("Like") \/ Complete("Between")
      /\ Fail(Below) \/ Return(Predicate(Top.pc, op, Top.acc, Top.src), Below)
  BY DEF LikeOrBetweenComplete
<1> HIDE DEF op
<1>2. QED  BY <1>1, PredicateRoom

LEMMA IsNullCompleteRoom == ASSUME Inv, Kept, RoomLeft, IsNullComplete PROVE RoomLeft'
<1> DEFINE op == ""
           kind == "IsNull"
<1>1. Complete("IsNull") /\ Return(Predicate(kind, op, Top.acc, Top.src), Below)
  BY DEF IsNullComplete
<1> HIDE DEF op, kind
<1>2. QED  BY <1>1, PredicateRoom

\* The flag of the predicate is set, or it becomes an operand.
LEMMA NotCompleteRoom == ASSUME Inv, Kept, RoomLeft, NotComplete PROVE RoomLeft'
<1> DEFINE n == Top.acc[1]
           room == Space(Below)
           less == room - 1
<1>1. Complete("Not") /\ Return(Negated(n, Top.src), Below)
  BY DEF NotComplete
<1>2. /\ Fitting(Below) /\ room \in Int /\ 1 <= room /\ Counted(Top)
      /\ Nested(Top.acc, less)
  BY <1>1, CompleteRoom, CountedTop, CountedRoom
<1>3. less \in Int /\ less + 1 <= room /\ less <= room
  BY <1>2
<1>4. NestsWithin("json", n, less)
  <2>1. /\ Top.pc = "Not" /\ Opened(Top) /\ Len(Top.acc) = OperandCount(Top)
        /\ DOMAIN Top.acc = 1..Len(Top.acc) /\ Len(Top.acc) \in Nat
    BY <1>1, AtComplete
  <2>2. 1 \in DOMAIN Top.acc
    BY <2>1 DEF Opened, OperandCount
  <2>3. QED  BY <1>2, <2>2 DEF Nested
<1> DEFINE neg == Negated(n, Top.src)
<1> HIDE DEF n, room, less
<1>5. CASE n.kind \in {"Like", "Between", "In", "IsNull"} /\ n.op = ""
  <2>1. neg.kind = n.kind /\ neg.op = "NOT" /\ neg.args = n.args
    BY <1>5 DEF Negated, Predicate, Node
  <2> HIDE DEF neg
  <2>2. Inner(neg) = DOMAIN n.args /\ Inner(n) = DOMAIN n.args
    BY <1>5, <2>1 DEF Inner
  <2>3. \A i : Weight("json", neg, i) = Weight("json", n, i)
    BY <1>5, <2>1, JsonWeight
  <2> DEFINE reader == "json"
  <2>4. reader # "none" /\ TwinNodes(reader, n, neg) /\ NestsWithin(reader, n, less)
    BY <1>4, <2>1, <2>2, <2>3 DEF TwinNodes
  <2>5. NestsWithin(reader, n, room)
    <3> HIDE DEF reader
    <3>1. room \in Int
      BY <1>2 DEF room
    <3>2. QED  BY <1>3, <2>4, <3>1, NestingGrows
  <2>6. NestsWithin(reader, neg, room)
    <3> HIDE DEF reader
    <3>1. room \in Int
      BY <1>2 DEF room
    <3>2. QED  BY <2>4, <2>5, <3>1, TwinNests
  <2>7. QED  BY <1>1, <1>2, <2>6, ReturnRoom DEF neg, n, room
<1>6. CASE ~(n.kind \in {"Like", "Between", "In", "IsNull"} /\ n.op = "")
  <2> DEFINE one == <<n>>
  <2>1. neg.args = one
    BY <1>6 DEF Negated, Predicate, Node
  <2>2. DOMAIN one = {1} /\ one[1] = n
    OBVIOUS
  <2> HIDE DEF neg, one
  <2>3. \A i \in Inner(neg) : NestsWithin("json", neg.args[i], less)
    BY <1>4, <2>1, <2>2 DEF Inner
  <2>4. NestsWithin("json", neg, room)
    BY <1>2, <1>3, <2>3, NodeNestsBelow DEF room
  <2>5. QED  BY <1>1, <1>2, <2>4, ReturnRoom DEF neg, n, room
<1>7. QED  BY <1>5, <1>6

LEMMA CoercedNests ==
    ASSUME NEW expr, NEW v, NEW room, room \in Int, NestsWithin("json", v, room)
    PROVE  NestsWithin("json", InCoerce(expr, v), room)
<1> DEFINE n == InCoerce(expr, v)
<1>1. CASE n = v
  BY <1>1
<1>2. CASE n # v
  <2>1. n.args = << >>
    BY <1>2 DEF InCoerce, Instant, Node
  <2> HIDE DEF n
  <2>2. Inner(n) = {}
    BY <2>1 DEF Inner
  <2>3. QED  BY <2>2, NestsRoom, LeafNests DEF n
<1>3. QED  BY <1>1, <1>2

LEMMA InCompleteRoom == ASSUME Inv, Kept, RoomLeft, InComplete PROVE RoomLeft'
<1> DEFINE expr == Head(Top.acc)
           values == Tail(Top.acc)
           args == <<expr>> \o [i \in DOMAIN values |-> InCoerce(expr, values[i])]
           op == ""
           types == {"boolean"}
           n == Node("In", op, types, args, Top.src)
           less == Space(Below) - 1
<1>1. Complete("In") /\ (Fail(Below) \/ Return(n, Below))
  BY DEF InComplete, Predicate
<1>2. CASE Fail(Below)
  BY <1>1, <1>2, CompleteFailsRoom
<1>3. CASE Return(n, Below)
  <2>1. /\ Top.pc = "In" /\ Opened(Top) /\ Len(Top.acc) = OperandCount(Top) /\ IsSequence(Top.acc)
    BY <1>1, AtComplete
  <2>2. Len(Top.acc) > 0
    BY <2>1 DEF Opened, OperandCount
  <2> DEFINE S == {Top.acc[i] : i \in DOMAIN Top.acc}
  <2>3. /\ expr = Top.acc[1] /\ 1 \in DOMAIN Top.acc /\ values \in Seq(S)
        /\ \A i \in DOMAIN values : i + 1 \in DOMAIN Top.acc /\ values[i] = Top.acc[i + 1]
    BY <2>1, <2>2, HeadAndTail
  <2>4. Counted(Top) /\ Nested(Top.acc, less) /\ Space(Below) \in Int
    BY <1>1, CountedTop, CountedRoom, CompleteRoom
  <2>5. less \in Int
    BY <2>4
  <2>6. n.args = args
    BY DEF Node
  <2>7. args = <<expr>> \o [i \in DOMAIN values |-> InCoerce(expr, values[i])]
    OBVIOUS
  <2> HIDE DEF expr, values, less, S, op, types, n, args
  <2>8. /\ DOMAIN args = 1..Len(args) /\ Len(args) = Len(values) + 1 /\ Len(values) \in Nat
        /\ args[1] = expr
        /\ \A i \in 1..Len(values) : args[i + 1] = InCoerce(expr, values[i])
    BY <2>3, <2>7, InArgs
  <2>9. ASSUME NEW i \in DOMAIN args PROVE NestsWithin("json", args[i], less)
    <3>1. CASE i = 1
      BY <2>3, <2>4, <2>8, <3>1 DEF Nested
    <3>2. CASE i # 1
      <4>1. i - 1 \in 1..Len(values) /\ (i - 1) + 1 = i
        BY <2>8, <3>2
      <4>2. i - 1 \in DOMAIN values
        BY <2>3, <4>1
      <4>3. NestsWithin("json", values[i - 1], less)
        BY <2>3, <2>4, <4>2 DEF Nested
      <4>4. args[i] = InCoerce(expr, values[i - 1])
        BY <2>8, <4>1
      <4>5. QED  BY <2>5, <4>3, <4>4, CoercedNests
    <3>3. QED  BY <3>1, <3>2
  <2>10. \A i \in Inner(n) : NestsWithin("json", n.args[i], Space(Below) - 1)
    BY <2>6, <2>9 DEF Inner, less
  <2>11. QED  BY <1>1, <1>3, <2>4, <2>10, BuiltRoom
<1>4. QED  BY <1>1, <1>2, <1>3

-----------------------------------------------------------------------------
(* ... parseJSONFunction and the calls that want a kind of result.         *)

LEMMA DeeperFits ==
    ASSUME Inv, NEW d \in Int, NEW room \in Int, NEW level \in {0, 1}, NEW pr,
           cfg.maxDepth + 2 - d <= room, (level = 0 /\ 1 <= room) \/ pr \notin {"Character", "Numeric"}
    PROVE  CallFits(pr, d + 1, room - level)
<1>1. cfg.maxDepth \in Nat
  BY Limit
<1>2. cfg.maxDepth + 2 - (d + 1) <= room - level
  BY <1>1
<1>3. level = 0 => room - level = room
  OBVIOUS
<1>4. QED  BY <1>2, <1>3 DEF CallFits, OperandOf

LEMMA FunctionRoom ==
    ASSUME Inv, NEW st, Fitting(st), Space(st) \in Int, 1 <= Space(st),
           NEW d \in Int, cfg.maxDepth + 2 - d <= Space(st), Function(d, st)
    PROVE  RoomLeft'
<1> DEFINE op == Folded(OpName(val))
           calls == Arguments("Node", d + 1)
           pc == "Function"
           level == Level(Frame(pc, op, calls))
<1>1. Continue(Frame(pc, op, calls), st)
  BY DEF Function
<1>2. level \in {0, 1}
  BY LevelOf
<1> HIDE DEF op, pc, level
<1>3. CallFits("Node", d + 1, Space(st) - level)
  BY <1>2, DeeperFits
<1>4. CallsFit(calls, Space(st) - level)
  <2> DEFINE e == d + 1
  <2>1. CallFits("Node", e, Space(st) - level) /\ calls = Arguments("Node", e)
    BY <1>3
  <2> HIDE DEF e, calls
  <2>2. QED  BY <2>1, ArgumentsFit
<1> HIDE DEF calls
<1>5. QED  BY <1>1, <1>4, StartRoom DEF level

LEMMA FunctionOfRoom ==
    ASSUME Inv, RoomLeft, 1 <= Space(stack), NEW want,
           NEW d \in Int, cfg.maxDepth + 2 - d <= Space(stack), FunctionOf(want, d)
    PROVE  RoomLeft'
<1> DEFINE none == << >>
           pc == "Wanted"
           f == Frame(pc, want, none)
           st == Append(stack, f)
<1>1. f.pc = "Wanted" /\ f.calls = none /\ f.acc = << >> /\ DOMAIN << >> = {} /\ DOMAIN none = {}
  BY FrameFields
<1>2. Function(d, st)
  BY DEF FunctionOf
<1> HIDE DEF none, f, pc
<1>3. Level(f) = 0
  BY <1>1 DEF Level, Counted
<1>4. Fitting(stack) /\ Space(stack) \in Int
  BY StackFits
<1>5. FrameFits(f, Space(stack), Space(stack) - Level(f))
  BY <1>1 DEF FrameFits
<1>6. Fitting(st) /\ Space(st) = Space(stack) - Level(f)
  BY <1>4, <1>5, PushFits
<1> HIDE DEF st
<1>7. Space(st) = Space(stack)
  BY <1>3, <1>4, <1>6
<1>8. QED  BY <1>2, <1>4, <1>6, <1>7, FunctionRoom

LEMMA FunctionExpressionRoom == ASSUME Inv, Kept, RoomLeft, FunctionExpression PROVE RoomLeft'
<1>1. /\ Calling("Expression")
      /\ Fail(stack) \/ FunctionOf("boolean", depth)
  BY DEF FunctionExpression
<1>2. Checked /\ 1 <= Space(stack) /\ depth \in Int /\ cfg.maxDepth + 2 - depth <= Space(stack)
  BY <1>1, ExpressionChecked, CheckedRoom, CallRoom
<1>3. QED  BY <1>1, <1>2, FunctionOfRoom, CallFailsRoom DEF Checked

LEMMA FunctionCompleteRoom == ASSUME Inv, Kept, RoomLeft, FunctionComplete PROVE RoomLeft'
<1> DEFINE kind == "Function"
           types == cfg.functions[Top.op].returns
           n == Node(kind, Top.op, types, Top.acc, Top.src)
<1>1. Complete("Function") /\ (Fail(Below) \/ Return(n, Below))
  BY DEF FunctionComplete
<1> HIDE DEF kind, types
<1>2. CASE Fail(Below)
  BY <1>1, <1>2, CompleteFailsRoom
<1>3. CASE Return(n, Below) /\ Counted(Top)
  BY <1>1, <1>3, CollectedRoom
<1>4. CASE Return(n, Below) /\ ~Counted(Top)
  <2>1. Top.op \in {"CASEI", "ACCENTI"}
    BY <1>1, <1>4 DEF Complete, Counted
  <2>2. n.op = Top.op /\ n.args = Top.acc
    BY NodeFields
  <2>3. Fitting(Below) /\ Space(Below) \in Int /\ 1 <= Space(Below) /\ Nested(Top.acc, Space(Below))
    BY <1>1, <1>4, CompleteRoom DEF Level
  <2> HIDE DEF n
  <2>4. NestsWithin("json", n, Space(Below))
    BY <2>1, <2>2, <2>3, NodeNests
  <2>5. QED  BY <1>4, <2>3, <2>4, ReturnRoom
<1>5. QED  BY <1>1, <1>2, <1>3, <1>4

LEMMA WantedCompleteRoom == ASSUME Inv, Kept, RoomLeft, WantedComplete PROVE RoomLeft'
<1>1. Complete("Wanted") /\ (Fail(Below) \/ Return(Top.acc[1], Below))
  BY DEF WantedComplete
<1>2. /\ Top.pc = "Wanted" /\ Len(Top.acc) = OperandCount(Top) /\ DOMAIN Top.acc = 1..Len(Top.acc)
  BY <1>1, AtComplete
<1>3. 1 \in DOMAIN Top.acc
  BY <1>2 DEF OperandCount
<1>4. Level(Top) = 0
  BY <1>2 DEF Level, Counted
<1>5. Fitting(Below) /\ Space(Below) \in Int /\ Nested(Top.acc, Space(Below))
  BY <1>1, <1>4, CompleteRoom
<1>6. NestsWithin("json", Top.acc[1], Space(Below))
  BY <1>3, <1>5 DEF Nested
<1>7. QED  BY <1>1, <1>5, <1>6, ReturnRoom, FailRoom

-----------------------------------------------------------------------------
(* ... parseJSONScalar, operators and casts.                               *)

LEMMA ScalarChecked == ASSUME Calling("Scalar") PROVE Checked
  BY CallingChecked DEF DepthChecked

LEMMA ScalarLiteralRoom == ASSUME Inv, Kept, RoomLeft, ScalarLiteral PROVE RoomLeft'
<1>1. Checked /\ (Fail(stack) \/ ReturnLiteral)
  BY ScalarChecked DEF ScalarLiteral
<1>2. QED  BY <1>1, CheckedRoom, ReturnLiteralRoom, CallFailsRoom

LEMMA ScalarPropertyRoom == ASSUME Inv, Kept, RoomLeft, ScalarProperty PROVE RoomLeft'
  BY ScalarChecked, ReturnPropertyRoom DEF ScalarProperty

LEMMA ScalarInstantRoom == ASSUME Inv, Kept, RoomLeft, ScalarInstant PROVE RoomLeft'
  BY ScalarChecked, ReturnInstantRoom DEF ScalarInstant

\* A frame whose operands have no level less.
LEMMA LevelStart ==
    ASSUME Inv, RoomLeft, mode = "call", 1 <= Space(stack), NEW pc, NEW op, NEW pr,
           \A calls : Level(Frame(pc, op, calls)) = 0,
           NEW d \in Int, cfg.maxDepth + 2 - d <= Space(stack),
           Continue(Frame(pc, op, Arguments(pr, d + 1)), stack)
    PROVE  RoomLeft'
<1> DEFINE e == d + 1
           calls == Arguments(pr, e)
           zero == 0
<1>1. Fitting(stack) /\ Space(stack) \in Int
  BY StackFits
<1>2. zero \in {0, 1} /\ zero = 0 /\ Space(stack) - zero = Space(stack)
  BY <1>1
<1> HIDE DEF zero
<1>3. CallFits(pr, e, Space(stack) - zero)
  BY <1>1, <1>2, DeeperFits
<1>4. Continue(Frame(pc, op, calls), stack)
  OBVIOUS
<1> HIDE DEF e
<1>5. CallsFit(calls, Space(stack))
  BY <1>2, <1>3, ArgumentsFit
<1> HIDE DEF calls
<1>6. Level(Frame(pc, op, calls)) = zero
  BY <1>2
<1>7. QED  BY <1>1, <1>2, <1>4, <1>5, <1>6, StartRoom

LEMMA CastRoom ==
    ASSUME Inv, RoomLeft, mode = "call", 1 <= Space(stack), OpName(val) \in {"casei", "accenti"},
           NEW d \in Int, cfg.maxDepth + 2 - d <= Space(stack), Cast(d, stack)
    PROVE  RoomLeft'
<1> DEFINE op == Folded(OpName(val))
           pc == "Function"
           pr == "Character"
<1>1. Fail(stack) \/ Continue(Frame(pc, op, Arguments(pr, d + 1)), stack)
  BY DEF Cast
<1>2. op \in {"CASEI", "ACCENTI"}
  BY DEF Folded, TreeName
<1> HIDE DEF op
<1>3. \A calls : Level(Frame(pc, op, calls)) = 0
  BY <1>2, LevelOf
<1> HIDE DEF pc, pr
<1>4. QED  BY <1>1, <1>3, LevelStart, CallFailsRoom

LEMMA ArithmeticsRoom ==
    ASSUME Inv, RoomLeft, mode = "call", 1 <= Space(stack),
           NEW d \in Int, cfg.maxDepth + 2 - d <= Space(stack), Arithmetics(d, stack)
    PROVE  RoomLeft'
<1> DEFINE op == Folded(OpName(val))
           pc == "Arithmetic"
           pr == "Numeric"
<1>1. Fail(stack) \/ Continue(Frame(pc, op, Arguments(pr, d + 1)), stack)
  BY DEF Arithmetics
<1> HIDE DEF op
<1>2. \A calls : Level(Frame(pc, op, calls)) = 0
  BY LevelOf
<1> HIDE DEF pc, pr
<1>3. QED  BY <1>1, <1>2, LevelStart, CallFailsRoom

LEMMA ArithmeticCompleteRoom == ASSUME Inv, Kept, RoomLeft, ArithmeticComplete PROVE RoomLeft'
<1> DEFINE kind == "Arithmetic"
           types == {"number"}
           n == Node(kind, Top.op, types, Top.acc, Top.src)
<1>1. Complete("Arithmetic") /\ Return(n, Below)
  BY DEF ArithmeticComplete
<1>2. n.kind = "Arithmetic" /\ n.args = Top.acc
  BY NodeFields
<1>3. ~Counted(Top)
  BY <1>1 DEF Complete, Counted
<1>4. Fitting(Below) /\ Space(Below) \in Int /\ 1 <= Space(Below) /\ Nested(Top.acc, Space(Below))
  BY <1>1, <1>3, CompleteRoom DEF Level
<1> HIDE DEF n
<1>5. NestsWithin("json", n, Space(Below))
  BY <1>2, <1>4, NodeNests
<1>6. QED  BY <1>1, <1>4, <1>5, ReturnRoom

LEMMA ScalarOperationRoom == ASSUME Inv, Kept, RoomLeft, ScalarOperation PROVE RoomLeft'
<1>1. /\ Calling("Scalar")
      /\ \/ Fail(stack)
         \/ OpName(val) \in {"casei", "accenti"} /\ Cast(depth, stack)
         \/ Arithmetics(depth, stack)
         \/ Function(depth, stack)
  BY DEF ScalarOperation
<1>2. /\ mode = "call" /\ 1 <= Space(stack) /\ depth \in Int /\ cfg.maxDepth + 2 - depth <= Space(stack)
      /\ Fitting(stack) /\ Space(stack) \in Int
  BY <1>1, ScalarChecked, CheckedRoom, CallRoom
<1>3. CASE Fail(stack)
  BY <1>2, <1>3, CallFailsRoom
<1>4. CASE OpName(val) \in {"casei", "accenti"} /\ Cast(depth, stack)
  BY <1>2, <1>4, CastRoom
<1>5. CASE Arithmetics(depth, stack)
  BY <1>2, <1>5, ArithmeticsRoom
<1>6. CASE Function(depth, stack)
  BY <1>2, <1>6, FunctionRoom
<1>7. QED  BY <1>1, <1>3, <1>4, <1>5, <1>6

LEMMA TypedRoom ==
    ASSUME Inv, RoomLeft, CallingTyped
    PROVE  /\ mode = "call" /\ 1 <= Space(stack) /\ Space(stack) \in Int /\ Fitting(stack)
           /\ depth + 1 \in Int /\ cfg.maxDepth \in Nat
           /\ cfg.maxDepth + 2 - (depth + 1) <= Space(stack)
<1>1. /\ mode = "call" /\ 1 <= Space(stack) /\ Space(stack) \in Int /\ Fitting(stack)
      /\ depth \in Nat /\ cfg.maxDepth \in Nat /\ cfg.maxDepth + 2 - depth <= Space(stack)
  BY TypedProcs, CallRoom
<1>2. QED  BY <1>1

LEMMA TypedLiteralRoom == ASSUME Inv, Kept, RoomLeft, TypedLiteral PROVE RoomLeft'
<1>1. CallingTyped /\ (Fail(stack) \/ ReturnLiteral)
  BY DEF TypedLiteral
<1>2. QED  BY <1>1, TypedRoom, ReturnLiteralRoom, CallFailsRoom

LEMMA TypedPropertyRoom == ASSUME Inv, Kept, RoomLeft, TypedProperty PROVE RoomLeft'
<1> DEFINE d == depth + 1
           c == Call("Scalar", val, path, d)
           calls == <<c>>
           op == OperandOf[proc].want
           pc == "Wanted"
<1>1. CallingTyped /\ Continue(Frame(pc, op, calls), stack)
  BY DEF TypedProperty
<1>2. /\ 1 <= Space(stack) /\ Space(stack) \in Int /\ Fitting(stack) /\ cfg.maxDepth + 2 - d <= Space(stack)
  BY <1>1, TypedRoom
<1>3. c.proc = "Scalar" /\ c.depth = d
  BY DEF Call
<1> HIDE DEF c, op, d
<1>4. DOMAIN calls = {1} /\ calls[1] = c
  OBVIOUS
<1>5. Level(Frame(pc, op, calls)) = 0
  BY LevelOf
<1> HIDE DEF calls
<1>6. CallFits("Scalar", d, Space(stack))
  BY <1>2 DEF CallFits, OperandOf
<1>7. CallsFit(calls, Space(stack) - Level(Frame(pc, op, calls)))
  <2>1. Space(stack) - Level(Frame(pc, op, calls)) = Space(stack)
    BY <1>2, <1>5
  <2>2. CallsFit(calls, Space(stack))
    BY <1>3, <1>4, <1>6 DEF CallsFit
  <2>3. QED  BY <2>1, <2>2
<1> HIDE DEF pc
<1>8. QED  BY <1>1, <1>2, <1>7, StartRoom

LEMMA TypedOperationRoom == ASSUME Inv, Kept, RoomLeft, TypedOperation PROVE RoomLeft'
<1> DEFINE d == depth + 1
           want == OperandOf[proc].want
<1>1. /\ CallingTyped
      /\ \/ Fail(stack)
         \/ OpName(val) \in {"casei", "accenti"} /\ Cast(d, stack)
         \/ Arithmetics(d, stack)
         \/ FunctionOf(want, d)
  BY DEF TypedOperation
<1>2. /\ mode = "call" /\ 1 <= Space(stack) /\ d \in Int /\ cfg.maxDepth + 2 - d <= Space(stack)
  BY <1>1, TypedRoom
<1> HIDE DEF d, want
<1>3. CASE Fail(stack)
  BY <1>2, <1>3, CallFailsRoom
<1>4. CASE OpName(val) \in {"casei", "accenti"} /\ Cast(d, stack)
  BY <1>2, <1>4, CastRoom
<1>5. CASE Arithmetics(d, stack)
  BY <1>2, <1>5, ArithmeticsRoom
<1>6. CASE FunctionOf(want, d)
  BY <1>2, <1>6, FunctionOfRoom
<1>7. QED  BY <1>1, <1>3, <1>4, <1>5, <1>6

LEMMA PatternRoom == ASSUME Inv, Kept, RoomLeft, Pattern PROVE RoomLeft'
<1> DEFINE op == Folded(OpName(val))
           pc == "Function"
           pr == "Pattern"
<1>1. /\ Calling("Pattern")
      /\ Fail(stack) \/ ReturnLiteral \/ Continue(Frame(pc, op, Arguments(pr, depth + 1)), stack)
  BY DEF Pattern
<1>2. Checked
  BY <1>1, CallingChecked DEF DepthChecked
<1> HIDE DEF op, pc, pr
<1>3. QED  BY <1>1, <1>2, CheckedRoom, ReturnLiteralRoom, CheckedArguments, CallFailsRoom

-----------------------------------------------------------------------------
(* ... operands of the predicates, of isNull and of functions.             *)

LEMMA OperandRoom == ASSUME Inv, Kept, RoomLeft, Operand PROVE RoomLeft'
<1> DEFINE d == IF proc \in {"IsNullOperand", "Node"} THEN depth ELSE depth + 1
           calls == [i \in DOMAIN Alternatives[proc] |-> Call(Alternatives[proc][i], val, path, d)]
           op == ""
           pc == "Try"
<1>1. mode = "call" /\ proc \in DOMAIN Alternatives /\ Continue(Frame(pc, op, calls), stack)
  BY DEF Operand
<1>2. /\ Fitting(stack) /\ Space(stack) \in Int
      /\ cfg.maxDepth \in Nat /\ depth \in Nat /\ cfg.maxDepth + 2 - depth <= Space(stack)
  BY <1>1, CallRoom
<1>3. cfg.maxDepth + 2 - d <= Space(stack)
  BY <1>2
<1>4. ASSUME NEW i \in DOMAIN calls
      PROVE  calls[i].proc \notin DOMAIN OperandOf /\ calls[i].depth = d
  <2>1. calls[i].proc = Alternatives[proc][i] /\ calls[i].depth = d /\ i \in DOMAIN Alternatives[proc]
    BY DEF Call
  <2>2. \A pr \in DOMAIN Alternatives : \A j \in DOMAIN Alternatives[pr] : Alternatives[pr][j] \notin {"Character", "Numeric"}
    BY DEF Alternatives
  <2>3. QED  BY <1>1, <2>1, <2>2 DEF OperandOf
<1> HIDE DEF d, calls, op
<1>5. CallsFit(calls, Space(stack))
  BY <1>3, <1>4 DEF CallsFit, CallFits
<1>6. Level(Frame(pc, op, calls)) = 0
  BY LevelOf
<1>7. CallsFit(calls, Space(stack) - Level(Frame(pc, op, calls)))
  <2>1. Space(stack) - Level(Frame(pc, op, calls)) = Space(stack)
    BY <1>2, <1>6
  <2>2. QED  BY <1>5, <2>1
<1>8. QED  BY <1>1, <1>2, <1>7, StartRoom

LEMMA ArrayLiteralRoom == ASSUME Inv, Kept, RoomLeft, ArrayLiteral PROVE RoomLeft'
<1> DEFINE op == ""
           pc == "Array"
           pr == "Node"
<1>1. /\ Calling("ArrayLiteral")
      /\ Fail(stack) \/ Continue(Frame(pc, op, Items(val, pr, path, depth + 1)), stack)
  BY DEF ArrayLiteral
<1>2. Checked
  BY <1>1, CallingChecked DEF DepthChecked
<1> HIDE DEF op, pc, pr
<1>3. QED  BY <1>1, <1>2, CheckedItems, CallFailsRoom DEF Checked

LEMMA ArrayCompleteRoom == ASSUME Inv, Kept, RoomLeft, ArrayComplete PROVE RoomLeft'
<1> DEFINE kind == "Array"
           op == ""
           types == {"array"}
<1>1. Complete("Array") /\ Return(Node(kind, op, types, Top.acc, Top.src), Below)
  BY DEF ArrayComplete
<1> HIDE DEF kind, op, types
<1>2. QED  BY <1>1, CountedTop, CollectedRoom

-----------------------------------------------------------------------------
(* ... parseJSONTemporalInstance, ...Interval and ...IntervalEndpoint.     *)

LEMMA TemporalInstanceRoom == ASSUME Inv, Kept, RoomLeft, TemporalInstance PROVE RoomLeft'
<1> DEFINE d == depth + 1
           c == Call("Interval", val, path, d)
<1>1. Calling("TemporalInstance") /\ (Fail(stack) \/ Enter(c, stack) \/ ReturnInstant)
  BY DEF TemporalInstance
<1>2. Checked
  BY <1>1, CallingChecked DEF DepthChecked
<1>3. CASE Enter(c, stack)
  <2>1. /\ Fitting(stack) /\ Space(stack) \in Int /\ cfg.maxDepth \in Nat /\ depth \in Nat
        /\ cfg.maxDepth + 2 - depth <= Space(stack)
    BY <1>2, CallRoom DEF Checked
  <2>2. c.proc = "Interval" /\ c.depth = d /\ cfg.maxDepth + 2 - d <= Space(stack)
    BY <2>1 DEF Call
  <2> HIDE DEF c, d
  <2>3. CallFits(c.proc, c.depth, Space(stack))
    BY <2>2 DEF CallFits, OperandOf
  <2>4. QED  BY <1>3, <2>1, <2>3, EnterRoom
<1>4. QED  BY <1>1, <1>2, <1>3, ReturnInstantRoom, CallFailsRoom DEF Checked

LEMMA IntervalRoom == ASSUME Inv, Kept, RoomLeft, Interval PROVE RoomLeft'
<1> DEFINE op == ""
           pc == "Interval"
           pr == "Endpoint"
           v == val.fields["interval"]
           p == Append(path, Key("interval"))
<1>1. /\ Calling("Interval")
      /\ Fail(stack) \/ Continue(Frame(pc, op, Items(v, pr, p, depth + 1)), stack)
  BY DEF Interval
<1>2. Checked
  BY <1>1, CallingChecked DEF DepthChecked
<1> HIDE DEF op, pc, pr, v, p
<1>3. QED  BY <1>1, <1>2, CheckedItems, CallFailsRoom DEF Checked

LEMMA IntervalCompleteRoom == ASSUME Inv, Kept, RoomLeft, IntervalComplete PROVE RoomLeft'
<1> DEFINE kind == "Interval"
           op == ""
           types == {"interval"}
<1>1. /\ Complete("Interval")
      /\ Fail(Below) \/ Return(Node(kind, op, types, Top.acc, Top.src), Below)
  BY DEF IntervalComplete
<1> HIDE DEF kind, op, types
<1>2. QED  BY <1>1, CountedTop, CollectedRoom, CompleteFailsRoom

LEMMA EndpointChecked == ASSUME Calling("Endpoint") PROVE Checked
  BY CallingChecked DEF DepthChecked

LEMMA EndpointStringRoom == ASSUME Inv, Kept, RoomLeft, EndpointString PROVE RoomLeft'
<1> DEFINE kind == "Unbounded"
           op == ".."
           none == {}
           instant == "Instant"
           text == val.text
           types == {Instants[text].kind}
<1>1. /\ Calling("Endpoint")
      /\ \/ Fail(stack)
         \/ Return(Node(kind, op, none, << >>, path), stack)
         \/ Return(Node(instant, text, types, << >>, path), stack)
  BY DEF EndpointString, Instant
<1> HIDE DEF kind, op, none, instant, text, types
<1>2. QED  BY <1>1, EndpointChecked, CheckedLeaf, CallFailsRoom DEF Checked

LEMMA EndpointPropertyRoom == ASSUME Inv, Kept, RoomLeft, EndpointProperty PROVE RoomLeft'
  BY EndpointChecked, ReturnPropertyRoom DEF EndpointProperty

LEMMA EndpointFunctionRoom == ASSUME Inv, Kept, RoomLeft, EndpointFunction PROVE RoomLeft'
<1> DEFINE d == depth + 1
<1>1. Calling("Endpoint") /\ (Fail(stack) \/ Function(d, stack))
  BY DEF EndpointFunction
<1>2. Checked
  BY <1>1, EndpointChecked
<1>3. /\ mode = "call" /\ Fitting(stack) /\ Space(stack) \in Int /\ 1 <= Space(stack)
      /\ cfg.maxDepth \in Nat /\ depth \in Nat /\ cfg.maxDepth + 2 - depth <= Space(stack)
  BY <1>2, CheckedRoom, CallRoom
<1>4. d \in Int /\ cfg.maxDepth + 2 - d <= Space(stack)
  BY <1>3
<1> HIDE DEF d
<1>5. QED  BY <1>1, <1>3, <1>4, FunctionRoom, CallFailsRoom

-----------------------------------------------------------------------------
(* ... parseJSONGeometryLiteral.                                           *)

LEMMA GeometryLeaf ==
    ASSUME Inv, RoomLeft, Checked, NEW type, type # "GeometryCollection",
           NEW data, NEW bbox, NEW src, Return(GeometryLiteral(type, data, bbox, src), stack)
    PROVE  RoomLeft'
<1> DEFINE n == GeometryLiteral(type, data, bbox, src)
<1>1. n.kind = "Geometry" /\ n.op = type /\ Return(n, stack)
  BY NodeFields DEF GeometryLiteral
<1> HIDE DEF n
<1>2. Inner(n) = {}
  BY <1>1 DEF Inner
<1>3. 1 <= Space(stack) /\ Fitting(stack) /\ Space(stack) \in Int
  BY CheckedRoom, StackFits
<1>4. NestsWithin("json", n, Space(stack))
  BY <1>2, <1>3, LeafNests
<1>5. QED  BY <1>1, <1>3, <1>4, ReturnRoom

LEMMA GeometryChecked == ASSUME Calling("Geometry") PROVE Checked
  BY CallingChecked DEF DepthChecked

LEMMA GeometryBoxRoom == ASSUME Inv, Kept, RoomLeft, GeometryBox PROVE RoomLeft'
<1> DEFINE type == "BBox"
           data == JsonBBox(val)[1]
           none == << >>
<1>1. /\ Calling("Geometry") /\ type # "GeometryCollection"
      /\ Fail(stack) \/ Return(GeometryLiteral(type, data, none, path), stack)
  BY DEF GeometryBox
<1> HIDE DEF type, data, none
<1>2. QED  BY <1>1, GeometryChecked, GeometryLeaf, CallFailsRoom DEF Checked

LEMMA GeometryDataRoom == ASSUME Inv, Kept, RoomLeft, GeometryData PROVE RoomLeft'
<1> DEFINE data == JsonData(JsonType(val), val.fields["coordinates"])
           bbox == JsonBBox(val)
           collection == IsGeoJson(val) /\ JsonType(val) = "GeometryCollection"
<1>1. /\ Calling("Geometry") /\ ~collection
      /\ \/ Fail(stack)
         \/ IsGeoJson(val) /\ Return(GeometryLiteral(JsonType(val), data, bbox, path), stack)
  BY DEF GeometryData
<1>2. Checked
  BY <1>1, GeometryChecked
<1>3. CASE IsGeoJson(val) /\ Return(GeometryLiteral(JsonType(val), data, bbox, path), stack)
  <2>1. JsonType(val) # "GeometryCollection"
    BY <1>1, <1>3
  <2> HIDE DEF data, bbox
  <2>2. QED  BY <1>2, <1>3, <2>1, GeometryLeaf
<1>4. QED  BY <1>1, <1>2, <1>3, CallFailsRoom DEF Checked

LEMMA GeometryMembersRoom == ASSUME Inv, Kept, RoomLeft, GeometryMembers PROVE RoomLeft'
<1> DEFINE op == ""
           pc == "Collection"
           pr == "Geometry"
           v == val.fields["geometries"]
           p == Append(path, Key("geometries"))
<1>1. /\ Calling("Geometry")
      /\ Fail(stack) \/ Continue(Frame(pc, op, Items(v, pr, p, depth + 1)), stack)
  BY DEF GeometryMembers
<1> HIDE DEF op, pc, pr, v, p
<1>2. QED  BY <1>1, GeometryChecked, CheckedItems, CallFailsRoom DEF Checked

\* A list of numbers is a level of leaves.
LEMMA BoxNests ==
    ASSUME NEW b, BoxRead(b), NEW room, room \in Int, 1 <= room
    PROVE  NestsWithin("json", b, room)
<1>1. PICK ns : NumbersRead(ns) /\ b = List(ns)
  BY DEF BoxRead
<1>2. b.kind = "List" /\ b.args = ns
  BY <1>1 DEF List, Node
<1>3. ASSUME NEW i \in DOMAIN ns PROVE NestsWithin("json", ns[i], room)
  <2>1. PICK text : ns[i] = NumberNode(text)
    BY <1>1 DEF NumbersRead, Listed
  <2>2. ns[i].args = << >>
    BY <2>1, NodeFields DEF NumberNode
  <2>3. Inner(ns[i]) = {}
    BY <2>2 DEF Inner
  <2>4. QED  BY <2>3, LeafNests
<1>4. Nested(b.args, room)
  BY <1>2, <1>3 DEF Nested
<1>5. QED  BY <1>2, <1>4, NodeNests

\* A collection of members, and of a bbox where there is one.
LEMMA GeometryCollectionCompleteRoom ==
    ASSUME Inv, Kept, RoomLeft, GeometryCollectionComplete
    PROVE  RoomLeft'
<1> DEFINE type == "GeometryCollection"
           bbox == JsonBBox(Top.val)
           source == "json"
           list == List(Top.acc)
           n == GeometryLiteral(type, list, bbox, Top.src)
           less == Space(Below) - 1
<1>1. /\ Complete("Collection")
      /\ Fail(Below) \/ (ValidCollection(Top.acc, source) /\ Return(n, Below))
  BY DEF GeometryCollectionComplete
<1>2. CASE ValidCollection(Top.acc, source) /\ Return(n, Below)
  <2>1. Counted(Top) /\ Nested(Top.acc, less) /\ less \in Int
    BY <1>1, CountedTop, CountedRoom, CompleteRoom
  <2>2. /\ Top.pc = "Collection" /\ Opened(Top)
        /\ DOMAIN Top.acc = 1..Len(Top.acc) /\ Len(Top.acc) \in Nat
    BY <1>1, AtComplete
  <2>3. Len(Top.acc) >= 2
    BY <1>2 DEF ValidCollection
  <2>4. 1 \in DOMAIN Top.acc
    BY <2>2, <2>3
  <2>5. 1 <= less
    <3>1. NestsWithin("json", Top.acc[1], less)
      BY <2>1, <2>4 DEF Nested
    <3> HIDE DEF less
    <3>2. QED  BY <2>1, <3>1, NestsRoom
  <2>6. list.kind = "List" /\ list.args = Top.acc
    BY DEF List, Node
  <2>7. NestsWithin("json", list, less)
    <3> HIDE DEF list, less
    <3>1. QED  BY <2>1, <2>5, <2>6, NodeNests
  <2>8. BBoxRead(bbox)
    BY <2>2, OptionalBBoxRead DEF Opened
  <2>9. n.args = <<list>> \o bbox /\ Return(n, Below)
    BY <1>2 DEF GeometryLiteral, Node
  <2> HIDE DEF list, bbox, n, type
  <2>10. \A i \in DOMAIN n.args : n.args[i] = list \/ BoxRead(n.args[i])
    <3>1. CASE bbox = << >>
      <4>1. n.args = <<list>>
        BY <2>9, <3>1
      <4>2. QED  BY <4>1
    <3>2. ASSUME NEW b, BoxRead(b), bbox = <<b>> PROVE <2>10
      <4>1. n.args = <<list>> \o <<b>>
        BY <2>9, <3>2
      <4>2. DOMAIN n.args = 1..2 /\ n.args[1] = list /\ n.args[2] = b
        BY <4>1, Paired
      <4>3. QED  BY <3>2, <4>2
    <3>3. QED  BY <2>8, <3>1, <3>2 DEF BBoxRead
  <2>11. ASSUME NEW i \in DOMAIN n.args PROVE NestsWithin("json", n.args[i], less)
    <3> HIDE DEF less
    <3>1. CASE n.args[i] = list
      BY <2>7, <3>1
    <3>2. CASE BoxRead(n.args[i])
      BY <2>1, <2>5, <3>2, BoxNests
    <3>3. QED  BY <2>10, <3>1, <3>2
  <2>12. \A i \in Inner(n) : i \in DOMAIN n.args
    BY DEF Inner
  <2>13. \A i \in Inner(n) : NestsWithin("json", n.args[i], Space(Below) - 1)
    BY <2>11, <2>12
  <2>14. QED  BY <1>1, <2>1, <2>9, <2>13, BuiltRoom
<1>3. QED  BY <1>1, <1>2, CompleteFailsRoom

-----------------------------------------------------------------------------
(* Every step leaves room, and no step.                                    *)

LEMMA FinishRoom == ASSUME Inv, RoomLeft, Finish PROVE RoomLeft'
<1>1. stack = << >> /\ UNCHANGED <<cfg, depth, node, stack, proc>>
  BY DEF Finish
<1>2. Len(stack) = 0 /\ Len(stack') = 0
  BY <1>1, StackLength
<1>3. mode' # "call" /\ mode' # "return" /\ (mode' = "accepted" => mode = "return")
  BY DEF Finish
<1>4. ASSUME mode' = "accepted" PROVE NestsWithin("json", node', cfg'.maxDepth + 2)
  <2>1. NestsWithin("json", node, Room(stack, 0))
    BY <1>2, <1>3, <1>4 DEF RoomLeft
  <2>2. Room(stack, 0) = cfg.maxDepth + 2
    BY RoomOfNone
  <2>3. QED  BY <1>1, <2>1, <2>2
<1>5. TreeWithinDepth'
  BY <1>4 DEF TreeWithinDepth
<1>6. \A k \in 1..Len(stack') : (FrameFits(stack[k], Room(stack, k - 1), Room(stack, k)))'
  BY <1>2
<1>7. QED  BY <1>3, <1>5, <1>6 DEF RoomLeft

LEMMA StutterRoom == ASSUME RoomLeft, UNCHANGED vars PROVE RoomLeft'
<1>1. UNCHANGED <<cfg, mode, proc, depth, node, stack>>
  BY DEF vars
<1>2. \A k \in 1..Len(stack) : FrameFits(stack[k], Room(stack, k - 1), Room(stack, k))
  BY DEF RoomLeft
<1>3. \A k \in 1..Len(stack') : (FrameFits(stack[k], Room(stack, k - 1), Room(stack, k)))'
  BY <1>1, <1>2 DEF FrameFits, CallFits, Room
<1>4. QED  BY <1>1, <1>3 DEF RoomLeft, CallFits, Room, TreeWithinDepth

LEMMA StepRoom == ASSUME Inv, Kept, RoomLeft, Step PROVE RoomLeft'
  BY MaximumDepthExceededRoom, FinishRoom, CollectRoom, UnwindRoom,
     AlternativeSucceededRoom, AlternativeFailedRoom, LiteralExpressionRoom,
     NotAnExpressionRoom, PredicateExpressionRoom, PredicateCompleteRoom,
     LogicalExpressionRoom, LogicalCompleteRoom, NotExpressionRoom, NotCompleteRoom,
     ComparisonExpressionRoom, ComparisonCompleteRoom, LikeExpressionRoom,
     BetweenExpressionRoom, LikeOrBetweenCompleteRoom, InExpressionRoom, InCompleteRoom,
     IsNullExpressionRoom, IsNullCompleteRoom, FunctionExpressionRoom,
     FunctionCompleteRoom, WantedCompleteRoom, ScalarLiteralRoom, ScalarPropertyRoom,
     ScalarInstantRoom, ScalarOperationRoom, ArithmeticCompleteRoom, TypedLiteralRoom,
     TypedPropertyRoom, TypedOperationRoom, PatternRoom, OperandRoom, ArrayLiteralRoom,
     ArrayCompleteRoom, TemporalInstanceRoom, IntervalRoom, IntervalCompleteRoom,
     EndpointStringRoom, EndpointPropertyRoom, EndpointFunctionRoom, GeometryBoxRoom,
     GeometryMembersRoom, GeometryCollectionCompleteRoom, GeometryDataRoom
     DEF Step

LEMMA InitRoom == Init => RoomLeft
<1> SUFFICES ASSUME Init PROVE RoomLeft
  OBVIOUS
<1>1. Inv
  BY StartsOK
<1>2. stack = << >> /\ Len(<< >>) = 0 /\ mode = "call" /\ depth = 0
  BY DEF Init
<1>3. cfg.maxDepth \in Nat
  BY <1>1, Limit
<1>4. Room(stack, Len(stack)) = cfg.maxDepth + 2
  BY <1>1, <1>2, RoomOfNone
<1>5. CallFits(proc, depth, Room(stack, Len(stack)))
  BY <1>2, <1>3, <1>4 DEF CallFits
<1>6. QED  BY <1>2, <1>5 DEF RoomLeft, TreeWithinDepth

-----------------------------------------------------------------------------
(* The theorems.                                                           *)

\* In every reachable state every operand the parser holds, in a pending
\* frame or on its way back to one, is sound, and a procedure that is asked
\* for a number, a string or a pattern returns one, whatever ways it goes.
THEOREM OperandsStaySound == Spec => []TreeInv
<1>1. Init => Inv /\ Kept
  BY StartsOK, InitKept
<1>2. Inv /\ Kept /\ [Next]_vars => (Inv /\ Kept)'
  BY StepsKeepInv, StepKept, StutterKept DEF Next, Terminated
<1>3. Inv /\ Kept => TreeInv
  BY DEF TreeInv, Kept
<1>4. QED
  BY <1>1, <1>2, <1>3, PTL DEF Spec

\* No accepted document uses a construct whose conformance class is off, or
\* a name that is not registered.
THEOREM ParserIsFailClosed == Spec => []FailClosed
<1>1. TreeInv => FailClosed
  BY DEF TreeInv, OperandsSound, SoundTree, FailClosed
<1>2. QED
  BY <1>1, OperandsStaySound, PTL

\* No accepted document relates operands that never have values of one sort.
THEOREM AcceptedOperandsMeet == Spec => []OperandsCanMeet
<1>1. TreeInv => OperandsCanMeet
  BY DEF TreeInv, OperandsSound, SoundTree, OperandsCanMeet
<1>2. QED
  BY <1>1, OperandsStaySound, PTL

\* No accepted document holds a literal off the globe, open or upside down.
THEOREM AcceptedGeometriesAreSound == Spec => []GeometriesAreSound
<1>1. TreeInv => GeometriesAreSound
  BY DEF TreeInv, OperandsSound, SoundTree, GeometriesAreSound
<1>2. QED
  BY <1>1, OperandsStaySound, PTL

\* In every reachable state what is left of MaxDepth is enough for every
\* operand the parser holds, for every call it still has to make and for the
\* node it is about to return.
THEOREM RoomIsLeft == Spec => []RoomLeft
<1>1. Init => Inv /\ Kept /\ RoomLeft
  BY StartsOK, InitKept, InitRoom
<1>2. Inv /\ Kept /\ RoomLeft /\ [Next]_vars => (Inv /\ Kept /\ RoomLeft)'
  BY StepsKeepInv, StepKept, StutterKept, StepRoom, StutterRoom DEF Next, Terminated
<1>3. QED
  BY <1>1, <1>2, PTL DEF Spec

\* No accepted document nests deeper than MaxDepth and two levels: the
\* deepest expression that passes the check has rank MaxDepth + 1, and the
\* operands below it may be read without one.
THEOREM AcceptedTreesNestWithinDepth == Spec => []TreeWithinDepth
<1>1. RoomLeft => TreeWithinDepth
  BY DEF RoomLeft
<1>2. QED
  BY <1>1, RoomIsLeft, PTL
=============================================================================
