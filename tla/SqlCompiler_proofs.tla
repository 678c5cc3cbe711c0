-------------------------- MODULE SqlCompiler_proofs --------------------------
(***************************************************************************)
(* Placeholders and bind values of the SQL compiler, and that it fails     *)
(* closed, for every set of syntax trees, every dialect and every column   *)
(* mapping.                                                                *)
(***************************************************************************)
EXTENDS SqlSupport, SequenceTheorems, WellFoundedInduction, TLAPS

IsSeq(s) == s \in Seq({s[i] : i \in DOMAIN s})

\* The placeholders of a fragment are a sequence.
IsFragment(f)   == IsSeq(f.holes)
AreFragments(p) == IsSeq(p) /\ \A i \in 1..Len(p) : IsFragment(p[i])

\* The bind values that a fragment, a list of fragments, or a stack of unfinished nodes,
\* refers to.
Refs(f)          == Used(f.holes)
PartsUsed(parts) == UNION {Refs(parts[i]) : i \in DOMAIN parts}
StackUsed(st)    == UNION {PartsUsed(st[i].done) : i \in DOMAIN st}

\* A frame has had some of its node's operands rendered, waits for one, and
\* has the rest to do.
FrameOK(f) ==
    /\ f.node \in Nodes
    /\ f.node.kind = "Logical" /\ f.node.op = "NOT" => Len(f.node.args) = 1
    /\ f.node.kind # "Unbounded"
    /\ IsSeq(f.todo) /\ AreFragments(f.done)
    /\ \A i \in 1..Len(f.todo) : f.todo[i].node \in Nodes
    /\ Len(f.done) + 1 + Len(f.todo) = Len(Requests(f.node))

StackOK(st) == IsSeq(st) /\ \A i \in 1..Len(st) : FrameOK(st[i])

Modes == {"render", "return", "compiled", "failed"}

\* The inductive invariant.
SqlInv ==
    /\ mode \in Modes
    /\ IsSeq(args)
    /\ mode = "render" => node \in Nodes
    /\ IsFragment(fragment)
    /\ StackOK(stack)
    /\ EveryPlaceholderBound

-----------------------------------------------------------------------------
(* Sequences.                                                              *)

LEMMA SeqOfElements ==
    ASSUME NEW S, NEW s \in Seq(S)
    PROVE  IsSeq(s)
  BY DEF IsSeq

LEMMA SeqIsFunction ==
    ASSUME NEW s, IsSeq(s)
    PROVE  Len(s) \in Nat /\ DOMAIN s = 1..Len(s) /\ s = [i \in 1..Len(s) |-> s[i]]
  BY DEF IsSeq

LEMMA AppendFacts ==
    ASSUME NEW s, NEW e, IsSeq(s)
    PROVE  /\ IsSeq(Append(s, e))
           /\ Len(s) \in Nat
           /\ Len(Append(s, e)) = Len(s) + 1
           /\ \A i \in 1..Len(s) : Append(s, e)[i] = s[i]
           /\ Append(s, e)[Len(s) + 1] = e
<1> DEFINE S == {s[i] : i \in DOMAIN s}
<1>1. s \in Seq(S)
  BY DEF IsSeq
<1>2. s \in Seq(S \cup {e})
  BY <1>1
<1>3. Append(s, e) \in Seq(S \cup {e})
  BY <1>2
<1>4. IsSeq(Append(s, e))
  BY <1>3, SeqOfElements
<1> HIDE DEF S
<1>5. QED
  BY <1>1, <1>2, <1>4

LEMMA TailFacts ==
    ASSUME NEW s, IsSeq(s), s # << >>
    PROVE  /\ IsSeq(Tail(s))
           /\ Len(s) \in Nat \ {0}
           /\ Len(Tail(s)) = Len(s) - 1
           /\ \A i \in 1..Len(s) - 1 : Tail(s)[i] = s[i + 1]
<1> DEFINE S == {s[i] : i \in DOMAIN s}
<1>1. s \in Seq(S)
  BY DEF IsSeq
<1>2. Tail(s) \in Seq(S)
  BY <1>1
<1>3. IsSeq(Tail(s))
  BY <1>2, SeqOfElements
<1> HIDE DEF S
<1>4. QED
  BY <1>1, <1>3

\* Element j of a tail, by its place in a sequence that begins before it.
LEMMA PlacesMove ==
    ASSUME NEW l \in Nat, NEW m, m = l - 1, NEW d \in Nat, NEW e, e = d + 1, NEW j \in 1..m
    PROVE  j \in 1..l - 1 /\ j + 1 \in 1..l /\ d + 1 + (j + 1) = e + 1 + j
  OBVIOUS

LEMMA ConcatFacts ==
    ASSUME NEW s, NEW t, IsSeq(s), IsSeq(t)
    PROVE  IsSeq(s \o t) /\ Len(s \o t) = Len(s) + Len(t)
<1> DEFINE S == {s[i] : i \in DOMAIN s}
           T == {t[i] : i \in DOMAIN t}
<1>1. s \in Seq(S) /\ t \in Seq(T)
  BY DEF IsSeq
<1> HIDE DEF S, T
<1>2. s \in Seq(S \cup T) /\ t \in Seq(S \cup T)
  BY <1>1
<1>3. s \o t \in Seq(S \cup T) /\ Len(s \o t) = Len(s) + Len(t)
  BY <1>2
<1>4. QED
  BY <1>3, SeqOfElements

\* The stack without its top frame.
LEMMA Popping ==
    ASSUME NEW st, IsSeq(st), st # << >>
    PROVE  LET low == SubSeq(st, 1, Len(st) - 1)
           IN  /\ IsSeq(low)
               /\ Len(st) \in Nat \ {0}
               /\ Len(low) = Len(st) - 1
               /\ \A i \in 1..Len(st) - 1 : low[i] = st[i]
<1> DEFINE S == {st[i] : i \in DOMAIN st}
           n == Len(st) - 1
<1>1. st \in Seq(S)
  BY DEF IsSeq
<1>2. n \in Nat /\ Len(st) = n + 1
  BY <1>1
<1>3. \A i \in 1..n : st[i] \in S
  BY <1>1, <1>2
<1> HIDE DEF S, n
<1>4. /\ SubSeq(st, 1, n) \in Seq(S)
      /\ Len(SubSeq(st, 1, n)) = IF 1 <= n THEN n - 1 + 1 ELSE 0
      /\ \A i \in 1 .. n - 1 + 1 : SubSeq(st, 1, n)[i] = st[1 + i - 1]
  <2>1. n \in Int /\ 1 \in Int  BY <1>2
  <2>2. QED  BY ONLY <1>3, <2>1, SubSeqProperties
<1>5. n - 1 + 1 = n /\ Len(st) - 1 = n
  BY <1>2
<1>6. \A i \in 1..n : 1 + i - 1 = i
  BY <1>2
<1>7. \A i \in 1..n : SubSeq(st, 1, n)[i] = st[i]
  BY <1>4, <1>5, <1>6
<1>8. Len(SubSeq(st, 1, n)) = n
  BY <1>2, <1>4, <1>5
<1>9. IsSeq(SubSeq(st, 1, n))
  BY <1>4, SeqOfElements
<1>10. QED
  BY <1>2, <1>5, <1>7, <1>8, <1>9

LEMMA SetInduction ==
    ASSUME NEW S, 0 \in S, \A n \in Nat : n \in S => n + 1 \in S
    PROVE  Nat \subseteq S
<1> DEFINE T == Nat \ S
           R == {ss \in Nat \X Nat : ss[1] < ss[2]}
<1>1. R = OpToRel(<, Nat)
  BY DEF OpToRel
<1>2. IsWellFoundedOn(R, Nat)
  BY <1>1, NatLessThanWellFounded
<1>3. SUFFICES ASSUME T # {} PROVE FALSE
  OBVIOUS
<1>4. T \subseteq Nat
  OBVIOUS
<1> HIDE DEF R
<1>5. PICK x \in T : \A y \in T : <<y, x>> \notin R
  BY <1>2, <1>3, <1>4, WFMin
<1>6. x \in Nat /\ x # 0 /\ x \notin S
  BY <1>5
<1>7. x - 1 \in Nat /\ x - 1 < x /\ (x - 1) + 1 = x
  BY <1>6
<1>8. <<x - 1, x>> \in R
  BY <1>6, <1>7 DEF R
<1>9. QED  BY <1>5, <1>6, <1>7, <1>8

-----------------------------------------------------------------------------
(* The placeholders of some fragments, one fragment after the other.       *)

Joined(parts, k, s) == s \o parts[k].holes

\* g holds the placeholders of the first 0 to n parts.
Filled(parts, n, g) ==
    g = [k \in 0..n |-> IF k = 0 THEN << >> ELSE Joined(parts, k, g[k - 1])]

Fills(parts, n, g) ==
    /\ g[0] = << >>
    /\ \A k \in Nat : k + 1 <= n => g[k + 1] = Joined(parts, k + 1, g[k])

LEMMA FilledLevels ==
    ASSUME NEW parts, NEW n \in Nat, NEW g, Filled(parts, n, g)
    PROVE  Fills(parts, n, g)
<1>1. \A k \in 0..n : g[k] = IF k = 0 THEN << >> ELSE Joined(parts, k, g[k - 1])
  BY DEF Filled
<1>2. \A k \in 0..n : k # 0 => g[k] = Joined(parts, k, g[k - 1])
  BY <1>1
<1>3. \A k \in Nat : k + 1 <= n => k + 1 \in 0..n /\ k + 1 # 0 /\ (k + 1) - 1 = k
  OBVIOUS
<1>4. QED  BY <1>1, <1>2, <1>3 DEF Fills

LEMMA FilledExists == ASSUME NEW parts PROVE \A n \in Nat : \E g : Filled(parts, n, g)
<1> DEFINE none == << >>
           S == {n \in Nat : \E g : Filled(parts, n, g)}
<1>1. 0 \in S
  <2>1. Filled(parts, 0, [k \in 0..0 |-> none])
    BY DEF Filled
  <2>2. QED  BY <2>1
<1>2. ASSUME NEW n \in Nat, n \in S PROVE n + 1 \in S
  <2>1. PICK g : Filled(parts, n, g)
    BY <1>2
  <2> DEFINE h == [k \in 0..n + 1 |-> IF k = n + 1 THEN Joined(parts, n + 1, g[n]) ELSE g[k]]
  <2>2. /\ g[0] = none
        /\ \A k \in 0..n : k # 0 => g[k] = Joined(parts, k, g[k - 1])
    <3>1. Fills(parts, n, g)
      BY <2>1, FilledLevels
    <3>2. \A k \in 0..n : k # 0 => k - 1 \in Nat /\ (k - 1) + 1 = k /\ k <= n
      OBVIOUS
    <3>3. QED  BY ONLY <3>1, <3>2 DEF Fills
  <2> HIDE DEF none
  <2>3. ASSUME NEW k \in 0..n + 1 PROVE h[k] = IF k = 0 THEN none ELSE Joined(parts, k, h[k - 1])
    <3>1. CASE k = 0
      BY <2>2, <3>1
    <3>2. CASE k = n + 1
      <4>1. h[k] = Joined(parts, n + 1, g[n])
        BY <3>2
      <4>2. k - 1 = n /\ n \in 0..n + 1 /\ n # n + 1 /\ k # 0
        BY <3>2
      <4>3. h[n] = g[n]
        BY <4>2
      <4>4. QED  BY <3>2, <4>1, <4>2, <4>3
    <3>3. CASE k # 0 /\ k # n + 1
      <4>1. k \in 0..n /\ k - 1 \in 0..n + 1 /\ k - 1 # n + 1
        BY <3>3
      <4>2. h[k] = g[k] /\ h[k - 1] = g[k - 1]
        BY <3>3, <4>1
      <4>3. QED  BY <2>2, <3>3, <4>1, <4>2
    <3>4. QED  BY <3>1, <3>2, <3>3
  <2>4. h = [k \in 0..n + 1 |-> IF k = 0 THEN none ELSE Joined(parts, k, h[k - 1])]
    BY <2>3
  <2>5. Filled(parts, n + 1, h)
    BY ONLY <2>4 DEF Filled, none
  <2>6. QED  BY <2>5
<1>3. Nat \subseteq S
  <2> HIDE DEF S
  <2>1. QED  BY <1>1, <1>2, SetInduction
<1>4. QED  BY <1>3

LEMMA HolesFill ==
    ASSUME NEW parts, Len(parts) \in Nat
    PROVE  Fills(parts, Len(parts), HolesUpTo(parts))
<1> DEFINE n == Len(parts)
           Is(g) == g = [i \in 0..n |-> IF i = 0 THEN << >> ELSE g[i - 1] \o parts[i].holes]
<1>1. HolesUpTo(parts) = CHOOSE g : Is(g)
  BY DEF HolesUpTo
<1>2. \A g : Is(g) <=> Filled(parts, n, g)
  BY DEF Filled, Joined
<1>3. \E g : Is(g)
  BY <1>2, FilledExists
<1> HIDE DEF Is, n
<1>4. Is(HolesUpTo(parts))
  BY <1>1, <1>3
<1>5. n \in Nat
  BY DEF n
<1>6. Fills(parts, n, HolesUpTo(parts))
  BY <1>2, <1>4, <1>5, FilledLevels
<1>7. QED  BY <1>6 DEF n

\* Parts that begin alike have their first placeholders in common.
LEMMA HolesOfPrefix ==
    ASSUME NEW p, NEW q, Len(p) \in Nat, Len(q) \in Nat, Len(p) <= Len(q),
           \A i \in 1..Len(p) : p[i] = q[i]
    PROVE  HolesUpTo(p)[Len(p)] = HolesUpTo(q)[Len(p)]
<1> DEFINE n == Len(p)
           m == Len(q)
           f == HolesUpTo(p)
           g == HolesUpTo(q)
           S == {k \in Nat : k <= n => f[k] = g[k]}
<1>1. Fills(p, n, f) /\ Fills(q, m, g)
  BY HolesFill
<1>2. n \in Nat /\ m \in Nat /\ n <= m /\ \A i \in 1..n : p[i] = q[i]
  OBVIOUS
<1> HIDE DEF n, m, f, g
<1>3. 0 \in S
  BY <1>1 DEF Fills
<1>4. ASSUME NEW k \in Nat, k \in S PROVE k + 1 \in S
  <2> SUFFICES ASSUME k + 1 <= n PROVE f[k + 1] = g[k + 1]
    OBVIOUS
  <2>1. k <= n /\ k + 1 <= m /\ k + 1 \in 1..n
    BY <1>2
  <2>2. f[k] = g[k] /\ p[k + 1] = q[k + 1]
    BY <1>2, <1>4, <2>1
  <2>3. f[k + 1] = Joined(p, k + 1, f[k]) /\ g[k + 1] = Joined(q, k + 1, g[k])
    BY <1>1, <2>1 DEF Fills
  <2>4. Joined(p, k + 1, f[k]) = Joined(q, k + 1, g[k])
    BY <2>2 DEF Joined
  <2>5. QED  BY <2>3, <2>4
<1>5. Nat \subseteq S
  <2> HIDE DEF S
  <2>1. QED  BY <1>3, <1>4, SetInduction
<1>6. f[n] = g[n]
  BY <1>2, <1>5
<1>7. QED  BY <1>6 DEF n, f, g

LEMMA HolesOfNone == Holes(<< >>) = << >>
<1>1. Len(<< >>) = 0
  OBVIOUS
<1>2. Fills(<< >>, 0, HolesUpTo(<< >>))
  BY <1>1, HolesFill
<1>3. QED  BY <1>1, <1>2 DEF Fills, Holes

LEMMA HolesOfAppend ==
    ASSUME NEW p, NEW f, IsSeq(p)
    PROVE  Holes(Append(p, f)) = Holes(p) \o f.holes
<1> DEFINE q == Append(p, f)
           n == Len(p)
<1>1. /\ n \in Nat /\ Len(q) = n + 1
      /\ \A i \in 1..n : q[i] = p[i]
      /\ q[n + 1] = f
  BY AppendFacts
<1> HIDE DEF q
<1>2. HolesUpTo(p)[n] = HolesUpTo(q)[n]
  BY <1>1, HolesOfPrefix
<1>3. Fills(q, n + 1, HolesUpTo(q))
  BY <1>1, HolesFill
<1> HIDE DEF n
<1>4. HolesUpTo(q)[n + 1] = Joined(q, n + 1, HolesUpTo(q)[n])
  BY <1>1, <1>3 DEF Fills
<1>5. Holes(q) = Holes(p) \o f.holes
  BY <1>1, <1>2, <1>4 DEF Holes, Joined, n
<1>6. QED  BY <1>5 DEF q

LEMMA UsedOfConcat ==
    ASSUME NEW s, NEW t, IsSeq(s), IsSeq(t)
    PROVE  Used(s \o t) = Used(s) \cup Used(t)
<1> DEFINE S == {s[i] : i \in DOMAIN s}
           T == {t[i] : i \in DOMAIN t}
           c == s \o t
           n == Len(s)
           m == Len(t)
<1>1. s \in Seq(S) /\ t \in Seq(T)
  BY DEF IsSeq
<1> HIDE DEF S, T
<1>2. s \in Seq(S \cup T) /\ t \in Seq(S \cup T)
  BY <1>1
<1>3. /\ n \in Nat /\ m \in Nat /\ DOMAIN s = 1..n /\ DOMAIN t = 1..m /\ DOMAIN c = 1..n + m
      /\ \A i \in 1..n + m : c[i] = IF i <= n THEN s[i] ELSE t[i - n]
  BY <1>2
<1> HIDE DEF c, n, m
<1>4. \A i \in 1..n : i \in 1..n + m /\ c[i] = s[i]
  BY <1>3
<1>5. \A i \in 1..m : i + n \in 1..n + m /\ ~(i + n <= n) /\ (i + n) - n = i
  BY <1>3
<1>6. \A i \in 1..m : c[i + n] = t[i]
  BY <1>3, <1>5
<1>7. \A i \in 1..n + m : i \in 1..n \/ (i - n \in 1..m /\ c[i] = t[i - n])
  BY <1>3
<1>8. Used(s) \subseteq Used(c)
  BY <1>3, <1>4 DEF Used
<1>9. Used(t) \subseteq Used(c)
  <2>1. ASSUME NEW i \in 1..m PROVE t[i] \in {c[k] : k \in 1..n + m}
    <3>1. i + n \in 1..n + m /\ t[i] = c[i + n]
      BY <1>5, <1>6
    <3>2. QED  BY <3>1
  <2>2. QED  BY <1>3, <2>1 DEF Used
<1>10. Used(c) \subseteq Used(s) \cup Used(t)
  BY <1>3, <1>4, <1>7 DEF Used
<1>11. QED  BY <1>8, <1>9, <1>10 DEF c

-----------------------------------------------------------------------------
(* What fragments refer to.                                                *)

LEMMA HolesUsed ==
    ASSUME NEW parts, AreFragments(parts)
    PROVE  IsSeq(Holes(parts)) /\ Used(Holes(parts)) = PartsUsed(parts)
<1> DEFINE n == Len(parts)
           f == HolesUpTo(parts)
           Right(k) == IsSeq(f[k]) /\ Used(f[k]) = UNION {Refs(parts[i]) : i \in 1..k}
           S == {k \in Nat : k <= n => Right(k)}
<1>1. n \in Nat /\ DOMAIN parts = 1..n
  BY DEF AreFragments, IsSeq
<1>2. Fills(parts, n, f)
  BY <1>1, HolesFill
<1>3. \A i \in 1..n : IsSeq(parts[i].holes)
  BY DEF AreFragments, IsFragment
<1> HIDE DEF n, f
<1>4. 0 \in S
  <2>1. f[0] = << >>
    BY <1>2 DEF Fills
  <2>2. Right(0)
    BY <2>1 DEF IsSeq, Used
  <2>3. QED  BY <2>2
<1>5. ASSUME NEW k \in Nat, k \in S PROVE k + 1 \in S
  <2> SUFFICES ASSUME k + 1 <= n PROVE Right(k + 1)
    OBVIOUS
  <2>1. k <= n /\ k + 1 \in 1..n /\ (1..k + 1) = (1..k) \cup {k + 1}
    BY <1>1
  <2>2. Right(k)
    BY <1>5, <2>1
  <2>3. f[k + 1] = f[k] \o parts[k + 1].holes
    BY <1>2, <2>1 DEF Fills, Joined
  <2>4. IsSeq(parts[k + 1].holes)
    BY <1>3, <2>1
  <2>5. IsSeq(f[k + 1])
    BY <2>2, <2>3, <2>4, ConcatFacts
  <2>6. Used(f[k + 1]) = Used(f[k]) \cup Refs(parts[k + 1])
    BY <2>2, <2>3, <2>4, UsedOfConcat DEF Refs
  <2>7. UNION {Refs(parts[i]) : i \in 1..k + 1} =
          (UNION {Refs(parts[i]) : i \in 1..k}) \cup Refs(parts[k + 1])
    BY <2>1
  <2>8. QED  BY <2>2, <2>5, <2>6, <2>7
<1>6. Nat \subseteq S
  <2> HIDE DEF S
  <2>1. QED  BY <1>4, <1>5, SetInduction
<1>7. Right(n)
  BY <1>1, <1>6
<1>8. Holes(parts) = f[n]
  BY DEF Holes, f, n
<1>9. QED  BY <1>1, <1>7, <1>8 DEF PartsUsed

LEMMA FragmentUsed ==
    ASSUME NEW sql, NEW parts, AreFragments(parts)
    PROVE  /\ IsFragment(Fragment(sql, parts))
           /\ Refs(Fragment(sql, parts)) = PartsUsed(parts)
<1>1. Fragment(sql, parts).holes = Holes(parts)
  BY DEF Fragment
<1>2. QED  BY <1>1, HolesUsed DEF IsFragment, Refs

LEMMA UsedOfNone == AreFragments(<< >>) /\ PartsUsed(<< >>) = {}
  BY DEF PartsUsed, AreFragments, IsSeq

LEMMA UsedOfOne ==
    ASSUME NEW a, IsFragment(a)
    PROVE  AreFragments(<<a>>) /\ PartsUsed(<<a>>) = Refs(a)
<1>1. DOMAIN <<a>> = {1} /\ <<a>>[1] = a /\ Len(<<a>>) = 1
  OBVIOUS
<1>2. QED  BY <1>1 DEF PartsUsed, AreFragments, IsSeq

LEMMA UsedOfTwo ==
    ASSUME NEW a, NEW b, IsFragment(a), IsFragment(b)
    PROVE  AreFragments(<<a, b>>) /\ PartsUsed(<<a, b>>) = Refs(a) \cup Refs(b)
<1>1. DOMAIN <<a, b>> = {1, 2} /\ <<a, b>>[1] = a /\ <<a, b>>[2] = b /\ Len(<<a, b>>) = 2
  OBVIOUS
<1>2. IsSeq(<<a, b>>)
  BY DEF IsSeq
<1>3. QED  BY <1>1, <1>2 DEF PartsUsed, AreFragments

LEMMA UsedOfThree ==
    ASSUME NEW a, NEW b, NEW c, IsFragment(a), IsFragment(b), IsFragment(c)
    PROVE  /\ AreFragments(<<a, b, c>>)
           /\ PartsUsed(<<a, b, c>>) = Refs(a) \cup Refs(b) \cup Refs(c)
<1>1. /\ DOMAIN <<a, b, c>> = {1, 2, 3} /\ Len(<<a, b, c>>) = 3
      /\ <<a, b, c>>[1] = a /\ <<a, b, c>>[2] = b /\ <<a, b, c>>[3] = c
  OBVIOUS
<1>2. IsSeq(<<a, b, c>>)
  BY DEF IsSeq
<1>3. QED  BY <1>1, <1>2 DEF PartsUsed, AreFragments

LEMMA UsedOfSequence ==
    ASSUME NEW p, IsSeq(p)
    PROVE  /\ Len(p) = 1 => PartsUsed(p) = Refs(p[1])
           /\ Len(p) = 2 => PartsUsed(p) = Refs(p[1]) \cup Refs(p[2])
           /\ Len(p) = 4 => PartsUsed(p) = Refs(p[1]) \cup Refs(p[2]) \cup Refs(p[3]) \cup Refs(p[4])
<1>1. DOMAIN p = 1..Len(p)
  BY DEF IsSeq
<1>2. CASE Len(p) = 1
  <2>1. DOMAIN p = {1}  BY <1>1, <1>2
  <2>2. QED  BY <1>2, <2>1 DEF PartsUsed
<1>3. CASE Len(p) = 2
  <2>1. DOMAIN p = {1, 2}  BY <1>1, <1>3
  <2>2. QED  BY <1>3, <2>1 DEF PartsUsed
<1>4. CASE Len(p) = 4
  <2>1. DOMAIN p = {1, 2, 3, 4}  BY <1>1, <1>4
  <2>2. QED  BY <1>4, <2>1 DEF PartsUsed
<1>5. QED  BY <1>2, <1>3, <1>4

LEMMA UsedOfAppend ==
    ASSUME NEW p, NEW f, AreFragments(p), IsFragment(f)
    PROVE  AreFragments(Append(p, f)) /\ PartsUsed(Append(p, f)) = PartsUsed(p) \cup Refs(f)
<1> DEFINE q == Append(p, f)
<1>1. /\ IsSeq(p) /\ IsSeq(q) /\ Len(p) \in Nat /\ Len(q) = Len(p) + 1
      /\ \A i \in 1..Len(p) : q[i] = p[i]
      /\ q[Len(p) + 1] = f
  BY AppendFacts DEF AreFragments
<1>2. DOMAIN p = 1..Len(p) /\ DOMAIN q = 1..Len(q)
  BY <1>1 DEF IsSeq
<1> HIDE DEF q
<1>3. DOMAIN q = DOMAIN p \cup {Len(p) + 1}
  BY <1>1, <1>2
<1>4. PartsUsed(q) = PartsUsed(p) \cup Refs(f)
  BY <1>1, <1>2, <1>3 DEF PartsUsed
<1>5. \A i \in 1..Len(q) : IsFragment(q[i])
  <2>1. \A i \in 1..Len(p) : IsFragment(p[i])
    BY DEF AreFragments
  <2>2. QED  BY <1>1, <1>2, <1>3, <2>1
<1>6. QED  BY <1>1, <1>4, <1>5 DEF q, AreFragments

LEMMA StackUsedOfAppend ==
    ASSUME NEW st, NEW f, IsSeq(st)
    PROVE  StackUsed(Append(st, f)) = StackUsed(st) \cup PartsUsed(f.done)
<1> DEFINE q == Append(st, f)
<1>1. /\ IsSeq(q) /\ Len(st) \in Nat /\ Len(q) = Len(st) + 1
      /\ \A i \in 1..Len(st) : q[i] = st[i]
      /\ q[Len(st) + 1] = f
  BY AppendFacts
<1>2. DOMAIN st = 1..Len(st) /\ DOMAIN q = 1..Len(q)
  BY <1>1 DEF IsSeq
<1> HIDE DEF q
<1>3. DOMAIN q = DOMAIN st \cup {Len(st) + 1}
  BY <1>1, <1>2
<1>4. StackUsed(q) = StackUsed(st) \cup PartsUsed(f.done)
  BY <1>1, <1>2, <1>3 DEF StackUsed
<1>5. QED  BY <1>4 DEF q

LEMMA StackUsedOfTop ==
    ASSUME IsSeq(stack), stack # << >>
    PROVE  StackUsed(stack) = StackUsed(Below) \cup PartsUsed(Top.done)
<1>1. /\ IsSeq(Below) /\ Len(stack) \in Nat \ {0} /\ Len(Below) = Len(stack) - 1
      /\ \A i \in 1..Len(stack) - 1 : Below[i] = stack[i]
  BY Popping DEF Below
<1>2. DOMAIN stack = 1..Len(stack) /\ DOMAIN Below = 1..Len(Below)
  BY <1>1 DEF IsSeq
<1>3. DOMAIN stack = DOMAIN Below \cup {Len(stack)}
  BY <1>1, <1>2
<1>4. \A i \in DOMAIN Below : Below[i] = stack[i]
  BY <1>1, <1>2
<1> HIDE DEF Below
<1>5. QED  BY <1>3, <1>4, ZenonT(30) DEF StackUsed, Top

-----------------------------------------------------------------------------
(* Templates use all the parts they are given.                             *)

LEMMA CompareUsed ==
    ASSUME NEW a, NEW op, NEW b, IsFragment(a), IsFragment(b)
    PROVE  /\ IsFragment(Compare(a, op, b))
           /\ Refs(Compare(a, op, b)) = Refs(a) \cup Refs(b)
  BY FragmentUsed, UsedOfTwo DEF Compare

LEMMA NotUsed ==
    ASSUME NEW sql, NEW f, IsFragment(f)
    PROVE  IsFragment(Fragment(sql, <<f>>)) /\ Refs(Fragment(sql, <<f>>)) = Refs(f)
  BY FragmentUsed, UsedOfOne

LEMMA DisjointUsed ==
    ASSUME NEW ls, NEW le, NEW rs, NEW re,
           IsFragment(ls), IsFragment(le), IsFragment(rs), IsFragment(re)
    PROVE  /\ IsFragment(Disjoint(ls, le, rs, re))
           /\ Refs(Disjoint(ls, le, rs, re)) = Refs(ls) \cup Refs(le) \cup Refs(rs) \cup Refs(re)
<1> DEFINE a == Compare(le, "<", rs)
           b == Compare(ls, ">", re)
<1>1. IsFragment(a) /\ IsFragment(b) /\ Refs(a) = Refs(le) \cup Refs(rs) /\ Refs(b) = Refs(ls) \cup Refs(re)
  BY CompareUsed
<1>2. Disjoint(ls, le, rs, re) = Fragment("OR", <<a, b>>)
  BY DEF Disjoint, Any
<1> HIDE DEF a, b
<1>3. AreFragments(<<a, b>>) /\ PartsUsed(<<a, b>>) = Refs(a) \cup Refs(b)
  BY <1>1, UsedOfTwo
<1>4. QED  BY <1>1, <1>2, <1>3, FragmentUsed

LEMMA TwoCompared ==
    ASSUME NEW a, NEW f, NEW b, NEW c, NEW g, NEW d,
           IsFragment(a), IsFragment(b), IsFragment(c), IsFragment(d)
    PROVE  /\ IsFragment(All(<<Compare(a, f, b), Compare(c, g, d)>>))
           /\ Refs(All(<<Compare(a, f, b), Compare(c, g, d)>>))
                = Refs(a) \cup Refs(b) \cup Refs(c) \cup Refs(d)
<1> DEFINE x == Compare(a, f, b)
           y == Compare(c, g, d)
<1>1. IsFragment(x) /\ IsFragment(y) /\ Refs(x) = Refs(a) \cup Refs(b) /\ Refs(y) = Refs(c) \cup Refs(d)
  BY CompareUsed
<1>2. All(<<x, y>>) = Fragment("AND", <<x, y>>)
  BY DEF All
<1> HIDE DEF x, y
<1>3. AreFragments(<<x, y>>) /\ PartsUsed(<<x, y>>) = Refs(x) \cup Refs(y)
  BY <1>1, UsedOfTwo
<1>4. IsFragment(All(<<x, y>>)) /\ Refs(All(<<x, y>>)) = Refs(a) \cup Refs(b) \cup Refs(c) \cup Refs(d)
  BY <1>1, <1>2, <1>3, FragmentUsed
<1>5. QED  BY <1>4 DEF x, y

LEMMA ThreeCompared ==
    ASSUME NEW a, NEW f, NEW b, NEW c, NEW g, NEW d, NEW h, NEW k, NEW m,
           IsFragment(a), IsFragment(b), IsFragment(c), IsFragment(d), IsFragment(h), IsFragment(m)
    PROVE  /\ IsFragment(All(<<Compare(a, f, b), Compare(c, g, d), Compare(h, k, m)>>))
           /\ Refs(All(<<Compare(a, f, b), Compare(c, g, d), Compare(h, k, m)>>))
                = Refs(a) \cup Refs(b) \cup Refs(c) \cup Refs(d) \cup Refs(h) \cup Refs(m)
<1> DEFINE x == Compare(a, f, b)
           y == Compare(c, g, d)
           z == Compare(h, k, m)
<1>1. /\ IsFragment(x) /\ IsFragment(y) /\ IsFragment(z)
      /\ Refs(x) = Refs(a) \cup Refs(b) /\ Refs(y) = Refs(c) \cup Refs(d) /\ Refs(z) = Refs(h) \cup Refs(m)
  BY CompareUsed
<1>2. All(<<x, y, z>>) = Fragment("AND", <<x, y, z>>)
  BY DEF All
<1> HIDE DEF x, y, z
<1>3. AreFragments(<<x, y, z>>) /\ PartsUsed(<<x, y, z>>) = Refs(x) \cup Refs(y) \cup Refs(z)
  BY <1>1, UsedOfThree
<1>4. /\ IsFragment(All(<<x, y, z>>))
      /\ Refs(All(<<x, y, z>>)) = Refs(a) \cup Refs(b) \cup Refs(c) \cup Refs(d) \cup Refs(h) \cup Refs(m)
  BY <1>1, <1>2, <1>3, FragmentUsed
<1>5. QED  BY <1>4 DEF x, y, z

\* Whatever the relation, its template is one of these.
Relations == {"=", "<", ">", "<=", ">="}

LEMMA TemporalTemplates ==
    ASSUME NEW op, NEW p, Len(p) = 4
    PROVE  LET t  == TemporalSql(op, p)
               ls == p[1]
               le == p[2]
               rs == p[3]
               re == p[4]
           IN  \/ t = Disjoint(ls, le, rs, re)
               \/ t = Fragment("NOT", <<Disjoint(ls, le, rs, re)>>)
               \/ \E f, g \in Relations : t = All(<<Compare(ls, f, rs), Compare(le, g, re)>>)
               \/ \E f, g \in Relations : t = All(<<Compare(le, f, re), Compare(ls, g, rs)>>)
               \/ t = All(<<Compare(rs, "<", ls), Compare(re, ">", ls), Compare(re, "<", le)>>)
               \/ t = All(<<Compare(ls, "<", rs), Compare(le, ">", rs), Compare(le, "<", re)>>)
<1> DEFINE ls == p[1]
           le == p[2]
           rs == p[3]
           re == p[4]
<1>0. /\ "=" \in Relations /\ "<" \in Relations /\ ">" \in Relations
      /\ "<=" \in Relations /\ ">=" \in Relations
  BY DEF Relations
<1>1. op = "T_DISJOINT" => TemporalSql(op, p) = Disjoint(ls, le, rs, re)
  BY DEF TemporalSql
<1>2. op = "T_INTERSECTS" => TemporalSql(op, p) = Fragment("NOT", <<Disjoint(ls, le, rs, re)>>)
  BY DEF TemporalSql
<1>3. op = "T_EQUALS" => TemporalSql(op, p) = All(<<Compare(ls, "=", rs), Compare(le, "=", re)>>)
  BY DEF TemporalSql
<1>4. op = "T_CONTAINS" => TemporalSql(op, p) = All(<<Compare(ls, "<=", rs), Compare(le, ">=", re)>>)
  BY DEF TemporalSql
<1>5. op = "T_DURING" => TemporalSql(op, p) = All(<<Compare(ls, ">=", rs), Compare(le, "<=", re)>>)
  BY DEF TemporalSql
<1>6. op = "T_FINISHEDBY" => TemporalSql(op, p) = All(<<Compare(le, "=", re), Compare(ls, "<", rs)>>)
  BY DEF TemporalSql
<1>7. op = "T_FINISHES" => TemporalSql(op, p) = All(<<Compare(le, "=", re), Compare(ls, ">", rs)>>)
  BY DEF TemporalSql
<1>8. op = "T_STARTEDBY" => TemporalSql(op, p) = All(<<Compare(ls, "=", rs), Compare(le, ">", re)>>)
  BY DEF TemporalSql
<1>9. op = "T_OVERLAPPEDBY" =>
        TemporalSql(op, p) = All(<<Compare(rs, "<", ls), Compare(re, ">", ls), Compare(re, "<", le)>>)
  BY DEF TemporalSql
<1>10. op = "T_OVERLAPS" =>
        TemporalSql(op, p) = All(<<Compare(ls, "<", rs), Compare(le, ">", rs), Compare(le, "<", re)>>)
  BY DEF TemporalSql
<1>11. op \notin {"T_DISJOINT", "T_INTERSECTS", "T_EQUALS", "T_CONTAINS", "T_DURING", "T_FINISHEDBY",
                  "T_FINISHES", "T_STARTEDBY", "T_OVERLAPPEDBY", "T_OVERLAPS"} =>
        TemporalSql(op, p) = All(<<Compare(ls, "=", rs), Compare(le, "<", re)>>)
  BY DEF TemporalSql
<1> HIDE DEF ls, le, rs, re
<1>12. /\ op \in {"T_EQUALS", "T_CONTAINS", "T_DURING", "T_STARTEDBY"} =>
            \E f, g \in Relations : TemporalSql(op, p) = All(<<Compare(ls, f, rs), Compare(le, g, re)>>)
       /\ op \in {"T_FINISHES", "T_FINISHEDBY"} =>
            \E f, g \in Relations : TemporalSql(op, p) = All(<<Compare(le, f, re), Compare(ls, g, rs)>>)
  BY <1>0, <1>3, <1>4, <1>5, <1>6, <1>7, <1>8
<1>13. op \notin {"T_DISJOINT", "T_INTERSECTS", "T_EQUALS", "T_CONTAINS", "T_DURING", "T_FINISHEDBY",
                  "T_FINISHES", "T_STARTEDBY", "T_OVERLAPPEDBY", "T_OVERLAPS"} =>
            \E f, g \in Relations : TemporalSql(op, p) = All(<<Compare(ls, f, rs), Compare(le, g, re)>>)
  BY <1>0, <1>11
<1>14. QED  BY <1>1, <1>2, <1>9, <1>10, <1>12, <1>13 DEF ls, le, rs, re

LEMMA TemporalUsed ==
    ASSUME NEW op, NEW p, AreFragments(p), Len(p) \in {2, 4}
    PROVE  IsFragment(TemporalSql(op, p)) /\ Refs(TemporalSql(op, p)) = PartsUsed(p)
<1>0. IsSeq(p) /\ \A i \in 1..Len(p) : IsFragment(p[i])
  BY DEF AreFragments
<1>1. CASE Len(p) = 2
  <2>1. IsFragment(p[1]) /\ IsFragment(p[2])
    BY <1>0, <1>1
  <2>2. PartsUsed(p) = Refs(p[1]) \cup Refs(p[2])
    BY <1>0, <1>1, UsedOfSequence
  <2>3. PICK f : TemporalSql(op, p) = Compare(p[1], f, p[2])
    BY <1>1 DEF TemporalSql
  <2>4. QED  BY <2>1, <2>2, <2>3, CompareUsed
<1>2. CASE Len(p) = 4
  <2> DEFINE ls == p[1]
             le == p[2]
             rs == p[3]
             re == p[4]
             all == Refs(ls) \cup Refs(le) \cup Refs(rs) \cup Refs(re)
             Right(t) == IsFragment(t) /\ Refs(t) = all
             t == TemporalSql(op, p)
  <2>1. PartsUsed(p) = all
    BY <1>0, <1>2, UsedOfSequence
  <2>2. IsFragment(ls) /\ IsFragment(le) /\ IsFragment(rs) /\ IsFragment(re)
    BY <1>0, <1>2
  <2>3. \/ t = Disjoint(ls, le, rs, re)
        \/ t = Fragment("NOT", <<Disjoint(ls, le, rs, re)>>)
        \/ \E f, g \in Relations : t = All(<<Compare(ls, f, rs), Compare(le, g, re)>>)
        \/ \E f, g \in Relations : t = All(<<Compare(le, f, re), Compare(ls, g, rs)>>)
        \/ t = All(<<Compare(rs, "<", ls), Compare(re, ">", ls), Compare(re, "<", le)>>)
        \/ t = All(<<Compare(ls, "<", rs), Compare(le, ">", rs), Compare(le, "<", re)>>)
    BY <1>2, TemporalTemplates
  <2> HIDE DEF ls, le, rs, re, t
  <2>4. Right(Disjoint(ls, le, rs, re))
    BY <2>2, DisjointUsed
  <2>5. Right(Fragment("NOT", <<Disjoint(ls, le, rs, re)>>))
    BY <2>4, NotUsed
  <2>6. \A f, g : Right(All(<<Compare(ls, f, rs), Compare(le, g, re)>>))
    BY <2>2, TwoCompared
  <2>7. \A f, g : Right(All(<<Compare(le, f, re), Compare(ls, g, rs)>>))
    BY <2>2, TwoCompared
  <2>8. Right(All(<<Compare(rs, "<", ls), Compare(re, ">", ls), Compare(re, "<", le)>>))
    BY <2>2, ThreeCompared
  <2>9. Right(All(<<Compare(ls, "<", rs), Compare(le, ">", rs), Compare(le, "<", re)>>))
    BY <2>2, ThreeCompared
  <2> HIDE DEF Right
  <2>10. Right(t)
    BY <2>3, <2>4, <2>5, <2>6, <2>7, <2>8, <2>9
  <2>11. QED  BY <2>1, <2>10 DEF Right, t
<1>3. QED  BY <1>1, <1>2

\* The number of operands a node's template is filled with.
LEMMA RequestsLength ==
    ASSUME NEW n \in Nodes
    PROVE  /\ IsSeq(Requests(n))
           /\ n.kind = "Temporal" => Len(Requests(n)) \in {2, 4}
           /\ n.kind \notin {"Temporal", "Interval"} => Len(Requests(n)) = Len(n.args)
           /\ n.kind # "Unbounded" =>
                \A i \in 1..Len(Requests(n)) : Requests(n)[i].node \in Nodes
<1>1. n.args \in Seq(Nodes) /\ (n.kind \in {"Interval", "Temporal"} => Len(n.args) = 2)
  BY FiltersAssumption
<1>2. \A m, w : Request(m, w).node = m
  BY DEF Request
<1>3. CASE n.kind \in {"Interval", "Temporal"}
  <2>1. n.args[1] \in Nodes /\ n.args[2] \in Nodes
    BY <1>1, <1>3
  <2>2. CASE n.kind = "Interval"
    <3>1. Requests(n) = <<Request(n, "start"), Request(n, "end")>>
      BY <2>2 DEF Requests
    <3>2. QED  BY <1>2, <2>2, <3>1 DEF IsSeq
  <2>3. CASE n.kind = "Temporal"
    <3>1. CASE n.op \in {"T_AFTER", "T_METBY"}
      <4>1. Requests(n) = <<Request(n.args[1], "start"), Request(n.args[2], "end")>>
        BY <2>3, <3>1 DEF Requests
      <4>2. QED  BY <1>2, <2>1, <2>3, <4>1 DEF IsSeq
    <3>2. CASE n.op \in {"T_BEFORE", "T_MEETS"}
      <4>1. Requests(n) = <<Request(n.args[1], "end"), Request(n.args[2], "start")>>
        BY <2>3, <3>2 DEF Requests
      <4>2. QED  BY <1>2, <2>1, <2>3, <4>1 DEF IsSeq
    <3>3. CASE n.op \notin {"T_AFTER", "T_METBY", "T_BEFORE", "T_MEETS"}
      <4>1. Requests(n) = <<Request(n.args[1], "start"), Request(n.args[1], "end"),
                            Request(n.args[2], "start"), Request(n.args[2], "end")>>
        BY <2>3, <3>3 DEF Requests
      <4>2. QED  BY <1>2, <2>1, <2>3, <4>1 DEF IsSeq
    <3>4. QED  BY <3>1, <3>2, <3>3
  <2>4. QED  BY <1>3, <2>2, <2>3
<1>4. CASE n.kind \notin {"Interval", "Temporal"}
  <2>1. Requests(n) = [i \in DOMAIN n.args |-> Request(n.args[i], "whole")]
    BY <1>4 DEF Requests
  <2>2. DOMAIN n.args = 1..Len(n.args) /\ Len(n.args) \in Nat
    BY <1>1
  <2>3. Requests(n) \in Seq({Requests(n)[i] : i \in DOMAIN Requests(n)})
    BY <2>1, <2>2
  <2>4. \A i \in 1..Len(n.args) : Requests(n)[i].node \in Nodes
    BY <1>1, <1>2, <2>1, <2>2
  <2>5. QED  BY <1>4, <2>1, <2>2, <2>3, <2>4, SMTT(30) DEF IsSeq
<1>5. QED  BY <1>3, <1>4

LEMMA TemplateUsed ==
    ASSUME NEW n \in Nodes, NEW p, AreFragments(p),
           Len(p) = Len(Requests(n)),
           n.kind = "Logical" /\ n.op = "NOT" => Len(n.args) = 1
    PROVE  IsFragment(Template(n, p)) /\ Refs(Template(n, p)) = PartsUsed(p)
<1>0. IsSeq(p) /\ \A i \in 1..Len(p) : IsFragment(p[i])
  BY DEF AreFragments
<1>1. \A sql : IsFragment(Fragment(sql, p)) /\ Refs(Fragment(sql, p)) = PartsUsed(p)
  BY FragmentUsed
<1>2. CASE n.kind = "Logical" /\ n.op = "NOT"
  <2>1. Len(p) = 1
    BY <1>2, RequestsLength
  <2>2. PartsUsed(p) = Refs(p[1]) /\ IsFragment(p[1])
    BY <1>0, <2>1, UsedOfSequence
  <2>3. IsFragment(NotSql(p[1])) /\ Refs(NotSql(p[1])) = Refs(p[1])
    BY <2>2, NotUsed DEF NotSql
  <2>4. Template(n, p) = NotSql(p[1])
    BY <1>2 DEF Template
  <2>5. QED  BY <2>2, <2>3, <2>4
<1>3. CASE n.kind = "Temporal"
  <2>1. Len(p) \in {2, 4}
    BY <1>3, RequestsLength
  <2>2. QED  BY <1>3, <2>1, TemporalUsed DEF Template
<1>4. CASE n.kind \in {"Like", "Between", "In", "IsNull"}
  <2>1. \A sql : /\ IsFragment(Flagged(n, Fragment(sql, p)))
                 /\ Refs(Flagged(n, Fragment(sql, p))) = PartsUsed(p)
    BY <1>1, NotUsed DEF Flagged
  <2>2. QED  BY <1>4, <2>1 DEF Template
<1>5. CASE n.kind \notin {"Temporal", "Like", "Between", "In", "IsNull"}
           /\ ~(n.kind = "Logical" /\ n.op = "NOT")
  <2>1. \E sql : Template(n, p) = Fragment(sql, p)
    BY <1>5 DEF Template
  <2>2. QED  BY <1>1, <2>1
<1>6. QED  BY <1>2, <1>3, <1>4, <1>5

-----------------------------------------------------------------------------
(* Control.                                                                *)

LEMMA UsedNow ==
    ASSUME StackOK(stack)
    PROVE  UsedSoFar = (IF mode = "render" THEN {} ELSE Refs(fragment)) \cup StackUsed(stack)
<1>1. \A i \in DOMAIN stack : AreFragments(stack[i].done)
  <2>1. DOMAIN stack = 1..Len(stack) /\ \A i \in 1..Len(stack) : FrameOK(stack[i])
    BY DEF StackOK, IsSeq
  <2>2. QED  BY <2>1 DEF FrameOK
<1>2. \A i \in DOMAIN stack : Used(Holes(stack[i].done)) = PartsUsed(stack[i].done)
  BY <1>1, HolesUsed
<1>3. QED  BY <1>2 DEF UsedSoFar, StackUsed, Refs

LEMMA UsedThen ==
    ASSUME StackOK(stack')
    PROVE  UsedSoFar' = (IF mode' = "render" THEN {} ELSE Refs(fragment')) \cup StackUsed(stack')
<1>1. \A i \in DOMAIN stack' : AreFragments(stack'[i].done)
  <2>1. DOMAIN stack' = 1..Len(stack') /\ \A i \in 1..Len(stack') : FrameOK(stack'[i])
    BY DEF StackOK, IsSeq
  <2>2. QED  BY <2>1 DEF FrameOK
<1>2. \A i \in DOMAIN stack' : Used(Holes(stack'[i].done)) = PartsUsed(stack'[i].done)
  BY <1>1, HolesUsed
<1>3. QED  BY <1>2 DEF UsedSoFar, StackUsed, Refs

\* Going on with a node whose placeholders are still to come.
LEMMA Rendered ==
    ASSUME NEW r, NEW st, SqlInv, Render(r, st),
           r.node \in Nodes, StackOK(st), StackUsed(st) = 1..Len(args)
    PROVE  SqlInv'
<1>1. /\ mode' = "render" /\ node' = r.node /\ stack' = st /\ args' = args
      /\ fragment' = fragment
  BY DEF Render
<1>2. UsedSoFar' = StackUsed(st)
  BY <1>1, UsedThen
<1>3. EveryPlaceholderBound'
  BY <1>1, <1>2 DEF EveryPlaceholderBound
<1>4. StackOK(stack)'
  BY <1>1 DEF StackOK
<1>5. QED
  BY <1>1, <1>3, <1>4 DEF SqlInv, Modes, IsSeq, IsFragment

\* Coming back with a fragment and the values bound for it.
LEMMA Returned ==
    ASSUME NEW f, NEW values, NEW st, SqlInv, Return(f, values, st),
           IsSeq(values), IsFragment(f), StackOK(st),
           Refs(f) \cup StackUsed(st) = 1..Len(args) + Len(values)
    PROVE  SqlInv'
<1>1. /\ mode' = "return" /\ fragment' = f /\ stack' = st /\ args' = args \o values
  BY DEF Return
<1>2. IsSeq(args')  /\ Len(args') = Len(args) + Len(values)
  BY <1>1, ConcatFacts DEF SqlInv
<1>3. UsedSoFar' = Refs(f) \cup StackUsed(st)
  BY <1>1, UsedThen
<1>4. EveryPlaceholderBound'
  BY <1>2, <1>3 DEF EveryPlaceholderBound
<1>5. StackOK(stack)'
  BY <1>1 DEF StackOK
<1>6. QED
  BY <1>1, <1>2, <1>4, <1>5 DEF SqlInv, Modes, IsSeq, IsFragment

LEMMA Failed == ASSUME SqlInv, Fail PROVE SqlInv'
<1>1. mode' = "failed" /\ UNCHANGED <<node, fragment, args, stack>>
  BY DEF Fail
<1>2. EveryPlaceholderBound'
  BY <1>1 DEF EveryPlaceholderBound
<1>3. StackOK(stack)'
  BY <1>1 DEF SqlInv, StackOK
<1>4. QED
  BY <1>1, <1>2, <1>3 DEF SqlInv, Modes, IsSeq, IsFragment

\* Before an action that renders or returns, the stack and the fragment in
\* hand account for the values bound so far.
LEMMA Accounted ==
    ASSUME SqlInv
    PROVE  /\ Len(args) \in Nat
           /\ mode = "render" => StackUsed(stack) = 1..Len(args)
           /\ mode = "return" => Refs(fragment) \cup StackUsed(stack) = 1..Len(args)
<1>1. args \in Seq({args[i] : i \in DOMAIN args})
  BY DEF SqlInv, IsSeq
<1>2. Len(args) \in Nat
  BY <1>1
<1>3. QED
  BY <1>2, UsedNow DEF SqlInv, EveryPlaceholderBound

LEMMA Initially == ASSUME Init PROVE SqlInv
<1>1. IsSeq(<< >>) /\ StackUsed(<< >>) = {} /\ Len(<< >>) = 0
  BY DEF IsSeq, StackUsed
<1>2. StackOK(stack)
  BY <1>1 DEF Init, StackOK
<1>3. UsedSoFar = {}
  BY <1>1, <1>2, UsedNow DEF Init
<1>4. EveryPlaceholderBound
  BY <1>1, <1>3 DEF Init, EveryPlaceholderBound
<1>5. node \in Nodes
  BY FiltersAssumption DEF Init
<1>6. IsFragment(fragment)
  <2>1. IsFragment(NoFragment)
    BY UsedOfNone, FragmentUsed DEF NoFragment
  <2>2. QED  BY <2>1 DEF Init
<1>7. QED
  BY <1>1, <1>2, <1>4, <1>5, <1>6 DEF Init, SqlInv, Modes

-----------------------------------------------------------------------------
(* Leaves.                                                                 *)

\* A leaf without a placeholder.
LEMMA ReturnsNothing ==
    ASSUME NEW f, SqlInv, mode = "render", IsFragment(f), Refs(f) = {}, Return(f, << >>, stack)
    PROVE  SqlInv'
<1>1. IsSeq(<< >>) /\ Len(<< >>) = 0
  BY DEF IsSeq
<1>2. Refs(f) \cup StackUsed(stack) = 1..Len(args) + Len(<< >>)
  BY <1>1, Accounted
<1>3. QED
  BY <1>1, <1>2, Returned DEF SqlInv

\* A leaf with one value and the placeholder for it.
LEMMA ReturnsNext ==
    ASSUME NEW f, NEW v, SqlInv, mode = "render", IsFragment(f), Refs(f) = {Len(args) + 1},
           Return(f, <<v>>, stack)
    PROVE  SqlInv'
<1>1. IsSeq(<<v>>) /\ Len(<<v>>) = 1
  BY DEF IsSeq
<1>2. Refs(f) \cup StackUsed(stack) = 1..Len(args) + Len(<<v>>)
  BY <1>1, Accounted
<1>3. QED
  BY <1>1, <1>2, Returned DEF SqlInv

LEMMA NextUsed ==
    /\ IsFragment(NextPlaceholder) /\ Refs(NextPlaceholder) = {Len(args) + 1}
    /\ \A sql : /\ IsFragment(Fragment(sql, <<NextPlaceholder>>))
                /\ Refs(Fragment(sql, <<NextPlaceholder>>)) = {Len(args) + 1}
<1>1. NextPlaceholder.holes = <<Len(args) + 1>>
  BY DEF NextPlaceholder, Placeholder
<1>2. IsFragment(NextPlaceholder) /\ Refs(NextPlaceholder) = {Len(args) + 1}
  BY <1>1 DEF IsFragment, Refs, IsSeq, Used
<1>3. QED  BY <1>2, NotUsed

LEMMA BlankUsed == \A sql : IsFragment(Fragment(sql, << >>)) /\ Refs(Fragment(sql, << >>)) = {}
  BY FragmentUsed, UsedOfNone

LEMMA LiteralStep == ASSUME SqlInv, RenderLiteral PROVE SqlInv'
<1>1. mode = "render"
  BY DEF RenderLiteral, Rendering
<1>2. CASE node.types = {"number"}
  <2>1. Return(Fragment("number", <<NextPlaceholder>>), <<node.op>>, stack)
    BY <1>2 DEF RenderLiteral
  <2>2. QED  BY <1>1, <2>1, NextUsed, ReturnsNext
<1>3. CASE node.types # {"number"} /\ node.types = {"string"}
  <2>1. Return(NextPlaceholder, <<node.op>>, stack)
    BY <1>3 DEF RenderLiteral
  <2>2. QED  BY <1>1, <2>1, NextUsed, ReturnsNext
<1>4. CASE node.types # {"number"} /\ node.types # {"string"}
  <2>1. Return(Fragment(node.op, << >>), << >>, stack)
    BY <1>4 DEF RenderLiteral
  <2>2. QED  BY <1>1, <2>1, BlankUsed, ReturnsNothing
<1>5. QED  BY <1>2, <1>3, <1>4

LEMMA InstantStep == ASSUME SqlInv, RenderInstant PROVE SqlInv'
<1>1. mode = "render" /\ Return(Fragment("instant", <<NextPlaceholder>>), <<node.op>>, stack)
  BY DEF RenderInstant, Rendering
<1>2. QED  BY <1>1, NextUsed, ReturnsNext

LEMMA PropertyStep == ASSUME SqlInv, RenderProperty PROVE SqlInv'
<1>1. mode = "render"
  BY DEF RenderProperty, Rendering
<1>2. IsFragment(Column(node.op)) /\ Refs(Column(node.op)) = {}
  BY DEF Column, IsFragment, Refs, IsSeq, Used
<1>3. Return(Column(node.op), << >>, stack) \/ Fail
  BY DEF RenderProperty
<1>4. QED  BY <1>1, <1>2, <1>3, ReturnsNothing, Failed

\* A geometry binds n values at once.
LEMMA GeometryStep == ASSUME SqlInv, RenderGeometry PROVE SqlInv'
<1>1. mode = "render"
  BY DEF RenderGeometry, Rendering
<1>2. CASE Fail
  BY <1>2, Failed
<1>3. CASE ~Fail
  <2> DEFINE n == IF node.op = "BBOX4" THEN 4 ELSE 1
             parts == [i \in 1..n |-> Placeholder(Len(args) + i)]
             values == [i \in 1..n |-> node.op]
             f == Fragment(node.op, parts)
  <2>1. Return(f, values, stack)
    BY <1>3 DEF RenderGeometry
  <2>2. n \in {1, 4}
    OBVIOUS
  <2>3. IsSeq(values) /\ Len(values) = n
    BY <2>2 DEF IsSeq
  <2>4. \A i : IsFragment(Placeholder(i)) /\ Refs(Placeholder(i)) = {i}
    BY DEF Placeholder, IsFragment, Refs, IsSeq, Used
  <2>5. \A i \in 1..n : IsFragment(parts[i]) /\ Refs(parts[i]) = {Len(args) + i}
    BY <2>4
  <2>6. IsSeq(parts) /\ Len(parts) = n /\ DOMAIN parts = 1..n
    <3>1. DOMAIN parts = 1..n /\ n \in Nat
      BY <2>2
    <3> DEFINE S == {Placeholder(Len(args) + i) : i \in 1..n}
    <3>2. \A i \in 1..n : parts[i] \in S
      OBVIOUS
    <3>3. parts \in Seq(S) /\ Len(parts) = n
      <4>1. parts \in [1..n -> S]
        BY <3>2
      <4> HIDE DEF S, parts
      <4>2. DOMAIN parts = 1..n
        BY <4>1
      <4>3. QED  BY <3>1, <4>1, <4>2
    <3>4. QED  BY <3>1, <3>3, SeqOfElements
  <2>10. IsFragment(f) /\ Refs(f) = PartsUsed(parts)
    BY <2>5, <2>6, FragmentUsed DEF AreFragments
  <2> HIDE DEF n, parts, values, f
  <2>7. PartsUsed(parts) = {Len(args) + i : i \in 1..n}
    BY <2>5, <2>6 DEF PartsUsed
  <2>8. Refs(f) \cup StackUsed(stack) = 1..Len(args) + Len(values)
    <3>1. Len(args) \in Nat /\ StackUsed(stack) = 1..Len(args)
      BY <1>1, Accounted
    <3>2. Refs(f) = {Len(args) + i : i \in 1..n}
      BY <2>10, <2>7
    <3>3. Refs(f) = (Len(args) + 1)..(Len(args) + n)
      BY <2>2, <3>1, <3>2
    <3>4. QED  BY <2>2, <2>3, <3>1, <3>3
  <2>9. QED  BY <2>1, <2>3, <2>8, <2>10, Returned DEF SqlInv
<1>4. QED  BY <1>2, <1>3

-----------------------------------------------------------------------------
(* Nodes with operands.                                                    *)

LEMMA EndpointStep == ASSUME SqlInv, RenderEndpoint PROVE SqlInv'
<1> DEFINE end == node.args[IF part = "start" THEN 1 ELSE 2]
<1>1. mode = "render" /\ node.kind = "Interval"
  BY DEF RenderEndpoint
<1>2. node \in Nodes /\ StackOK(stack)
  BY <1>1 DEF SqlInv
<1>3. end \in Nodes
  BY <1>1, <1>2, FiltersAssumption
<1>4. Fail \/ Render(Request(end, "whole"), stack)
  BY DEF RenderEndpoint
<1>5. Request(end, "whole").node = end
  BY DEF Request
<1> HIDE DEF end
<1>6. QED
  BY <1>1, <1>2, <1>3, <1>4, <1>5, Accounted, Rendered, Failed

\* A frame pushed on a stack, or put in the place of one.
LEMMA Pushing ==
    ASSUME NEW st, NEW f, StackOK(st), FrameOK(f)
    PROVE  StackOK(Append(st, f)) /\ StackUsed(Append(st, f)) = StackUsed(st) \cup PartsUsed(f.done)
<1>1. IsSeq(st) /\ \A i \in 1..Len(st) : FrameOK(st[i])
  BY DEF StackOK
<1>2. /\ IsSeq(Append(st, f)) /\ Len(st) \in Nat /\ Len(Append(st, f)) = Len(st) + 1
      /\ \A i \in 1..Len(st) : Append(st, f)[i] = st[i]
      /\ Append(st, f)[Len(st) + 1] = f
  BY <1>1, AppendFacts
<1>3. \A i \in 1..Len(Append(st, f)) : i \in 1..Len(st) \/ i = Len(st) + 1
  BY <1>2
<1>4. \A i \in 1..Len(Append(st, f)) : FrameOK(Append(st, f)[i])
  BY <1>1, <1>2, <1>3
<1>5. QED
  BY <1>1, <1>2, <1>4, StackUsedOfAppend DEF StackOK

LEMMA OperandsStep == ASSUME SqlInv, RenderOperands PROVE SqlInv'
<1> DEFINE requests == Requests(node)
           f == [node |-> node, todo |-> Tail(requests), done |-> << >>]
<1>1. mode = "render" /\ node \in Nodes /\ StackOK(stack)
  BY DEF RenderOperands, Rendering, SqlInv
<1>2. CASE ~Accepts(node)
  BY <1>2, Failed DEF RenderOperands
<1>3. CASE Accepts(node)
  <2>1. (node.kind = "Logical" /\ node.op = "NOT" => Len(node.args) = 1) /\ node.kind # "Unbounded"
    BY <1>3 DEF Accepts
  <2>2. IsSeq(requests) /\ \A i \in 1..Len(requests) : requests[i].node \in Nodes
    BY <1>1, <2>1, RequestsLength
  <2>3. CASE requests = << >>
    <3>1. Return(Template(node, << >>), << >>, stack)
      BY <1>3, <2>3 DEF RenderOperands
    <3>2. IsSeq(<< >>) /\ Len(<< >>) = Len(requests)
      BY <2>3 DEF IsSeq
    <3>3. IsFragment(Template(node, << >>)) /\ Refs(Template(node, << >>)) = {}
      BY <1>1, <2>1, <3>2, TemplateUsed, UsedOfNone
    <3>4. QED  BY <1>1, <3>1, <3>3, ReturnsNothing
  <2>4. CASE requests # << >>
    <3>1. Render(requests[1], Append(stack, f))
      BY <1>3, <2>4 DEF RenderOperands
    <3>2. /\ IsSeq(Tail(requests)) /\ Len(requests) \in Nat \ {0}
          /\ Len(Tail(requests)) = Len(requests) - 1
          /\ \A i \in 1..Len(requests) - 1 : Tail(requests)[i] = requests[i + 1]
      BY <2>2, <2>4, TailFacts
    <3>3. \A i \in 1..Len(requests) - 1 : i + 1 \in 1..Len(requests)
      BY <3>2
    <3>4. \A i \in 1..Len(Tail(requests)) : Tail(requests)[i].node \in Nodes
      BY <2>2, <3>2, <3>3
    <3>5. AreFragments(<< >>) /\ Len(<< >>) = 0
      BY UsedOfNone
    <3>6. Len(<< >>) + 1 + Len(Tail(requests)) = Len(requests)
      BY <3>2, <3>5
    <3>7. FrameOK(f)
      BY <1>1, <2>1, <3>2, <3>4, <3>5, <3>6 DEF FrameOK
    <3>8. requests[1].node \in Nodes
      BY <2>2, <3>2
    <3>9. PartsUsed(f.done) = {}
      BY UsedOfNone
    <3> HIDE DEF f, requests
    <3>10. StackOK(Append(stack, f)) /\ StackUsed(Append(stack, f)) = 1..Len(args)
      BY <1>1, <3>7, <3>9, Pushing, Accounted
    <3>11. QED
      BY <3>1, <3>8, <3>10, Rendered
  <2>5. QED  BY <2>3, <2>4
<1>4. QED  BY <1>2, <1>3

\* An operand joins the finished ones of the frame on top.
LEMMA JoinStep == ASSUME SqlInv, OperandRendered PROVE SqlInv'
<1> DEFINE done == Append(Top.done, fragment)
           f == [node |-> Top.node, todo |-> Tail(Top.todo), done |-> done]
<1>1. mode = "return" /\ stack # << >> /\ StackOK(stack) /\ IsSeq(stack)
  BY DEF OperandRendered, SqlInv, StackOK
<1>2. /\ IsSeq(Below) /\ Len(stack) \in Nat \ {0} /\ Len(Below) = Len(stack) - 1
      /\ \A i \in 1..Len(stack) - 1 : Below[i] = stack[i]
  BY <1>1, Popping DEF Below
<1>3. FrameOK(Top)
  BY <1>1, <1>2 DEF StackOK, Top
<1>4. StackOK(Below)
  <2>1. \A i \in 1..Len(Below) : i \in 1..Len(stack) - 1 /\ i \in 1..Len(stack)
    BY <1>2
  <2>2. \A i \in 1..Len(Below) : FrameOK(Below[i])
    BY <1>1, <1>2, <2>1 DEF StackOK
  <2>3. QED  BY <1>2, <2>2 DEF StackOK
<1>5. /\ Top.node \in Nodes /\ Top.node.kind # "Unbounded"
      /\ (Top.node.kind = "Logical" /\ Top.node.op = "NOT" => Len(Top.node.args) = 1)
      /\ IsSeq(Top.todo) /\ AreFragments(Top.done)
      /\ \A i \in 1..Len(Top.todo) : Top.todo[i].node \in Nodes
      /\ Len(Top.done) + 1 + Len(Top.todo) = Len(Requests(Top.node))
  BY <1>3 DEF FrameOK
<1>6. /\ AreFragments(done) /\ Len(Top.done) \in Nat /\ Len(done) = Len(Top.done) + 1
      /\ PartsUsed(done) = PartsUsed(Top.done) \cup Refs(fragment)
  <2>1. IsFragment(fragment)
    BY DEF SqlInv
  <2>2. IsSeq(Top.done)
    BY <1>5 DEF AreFragments
  <2>3. QED  BY <1>5, <2>1, <2>2, AppendFacts, UsedOfAppend
<1>7. PartsUsed(done) \cup StackUsed(Below) = 1..Len(args)
  BY <1>1, <1>6, StackUsedOfTop, Accounted
<1>8. CASE Top.todo # << >>
  <2>1. Render(Top.todo[1], Append(Below, f))
    BY <1>8 DEF OperandRendered
  <2>2. /\ IsSeq(Tail(Top.todo)) /\ Len(Top.todo) \in Nat \ {0}
        /\ Len(Tail(Top.todo)) = Len(Top.todo) - 1
        /\ \A i \in 1..Len(Top.todo) - 1 : Tail(Top.todo)[i] = Top.todo[i + 1]
    BY <1>5, <1>8, TailFacts
  <2>3. \A i \in 1..Len(Top.todo) - 1 : i + 1 \in 1..Len(Top.todo)
    BY <2>2
  <2>4. \A i \in 1..Len(Tail(Top.todo)) : Tail(Top.todo)[i].node \in Nodes
    BY <1>5, <2>2, <2>3
  <2> HIDE DEF done
  <2>5. Len(done) + 1 + Len(Tail(Top.todo)) = Len(Requests(Top.node))
    <3> DEFINE x == Len(done)
               d == Len(Top.done)
               t == Len(Top.todo)
               u == Len(Tail(Top.todo))
               r == Len(Requests(Top.node))
    <3>1. x = d + 1 /\ d \in Nat
      BY <1>6
    <3>2. d + 1 + t = r
      BY <1>5
    <3>3. t \in Nat \ {0} /\ u = t - 1
      BY <2>2
    <3> HIDE DEF x, d, t, u, r
    <3>4. x + 1 + u = r
      BY <3>1, <3>2, <3>3
    <3>5. QED  BY <3>4 DEF x, u, r
  <2>6. Top.todo[1].node \in Nodes
    BY <1>5, <2>2
  <2>7. f.node = Top.node /\ f.todo = Tail(Top.todo) /\ f.done = done
    OBVIOUS
  <2> HIDE DEF f
  <2>8. FrameOK(f)
    BY <1>5, <1>6, <2>2, <2>4, <2>5, <2>7 DEF FrameOK
  <2>9. StackOK(Append(Below, f)) /\ StackUsed(Append(Below, f)) = 1..Len(args)
    BY <1>4, <1>7, <2>7, <2>8, Pushing
  <2>10. QED
    BY <2>1, <2>6, <2>9, Rendered
<1>9. CASE Top.todo = << >>
  <2>1. Return(Template(Top.node, done), << >>, Below)
    BY <1>9 DEF OperandRendered
  <2>2. Len(done) = Len(Requests(Top.node))
    BY <1>5, <1>6, <1>9
  <2> HIDE DEF done, f
  <2>3. IsFragment(Template(Top.node, done)) /\ Refs(Template(Top.node, done)) = PartsUsed(done)
    BY <1>5, <1>6, <2>2, TemplateUsed
  <2>4. IsSeq(<< >>) /\ Len(<< >>) = 0 /\ Len(args) \in Nat
    BY Accounted DEF IsSeq
  <2>5. Refs(Template(Top.node, done)) \cup StackUsed(Below) = 1..Len(args) + Len(<< >>)
    BY <1>7, <2>3, <2>4
  <2>6. QED  BY <1>4, <2>1, <2>3, <2>4, <2>5, Returned
<1>10. QED  BY <1>8, <1>9

-----------------------------------------------------------------------------

LEMMA Stopping == ASSUME SqlInv, Finish \/ UNCHANGED vars PROVE SqlInv'
<1>1. mode' = mode \/ (mode = "return" /\ mode' = "compiled")
  BY DEF Finish, vars
<1>2. UNCHANGED <<node, fragment, args, stack>>
  BY DEF Finish, vars
<1>3. StackOK(stack) /\ StackOK(stack')
  BY <1>2 DEF SqlInv
<1>4. UsedSoFar' = UsedSoFar
  BY <1>1, <1>2, <1>3, UsedNow, UsedThen
<1>5. EveryPlaceholderBound'
  BY <1>1, <1>2, <1>4 DEF SqlInv, EveryPlaceholderBound
<1>6. StackOK(stack)'
  BY <1>3
<1>7. QED
  BY <1>1, <1>2, <1>5, <1>6 DEF SqlInv, Modes, IsSeq, IsFragment

LEMMA StepsKeepSqlInv == SqlInv /\ [Next]_vars => SqlInv'
<1> SUFFICES ASSUME SqlInv, [Next]_vars PROVE SqlInv'
  OBVIOUS
<1>1. CASE RenderLiteral    BY <1>1, LiteralStep
<1>2. CASE RenderInstant    BY <1>2, InstantStep
<1>3. CASE RenderProperty   BY <1>3, PropertyStep
<1>4. CASE RenderGeometry   BY <1>4, GeometryStep
<1>5. CASE RenderEndpoint   BY <1>5, EndpointStep
<1>6. CASE RenderOperands   BY <1>6, OperandsStep
<1>7. CASE OperandRendered  BY <1>7, JoinStep
<1>8. CASE Finish           BY <1>8, Stopping
<1>9. CASE Terminated       BY <1>9, Stopping DEF Terminated
<1>10. CASE UNCHANGED vars  BY <1>10, Stopping
<1>11. QED
  BY <1>1, <1>2, <1>3, <1>4, <1>5, <1>6, <1>7, <1>8, <1>9, <1>10 DEF Next, Step

\* Whatever trees are compiled, for whatever dialect and mapping: at every
\* point of the walk the placeholders in the SQL built so far are exactly
\* $1..$n for the n values in c.args (AddArg, ToSQL), so Args and Text of the
\* result belong together.
THEOREM PlaceholdersBound == Spec => []EveryPlaceholderBound
<1>1. SqlInv => EveryPlaceholderBound
  BY DEF SqlInv
<1>2. Init => SqlInv
  BY Initially
<1>3. QED  BY <1>1, <1>2, StepsKeepSqlInv, PTL DEF Spec

-----------------------------------------------------------------------------
(* The text of an unfinished walk: its frames hold, from the outermost to  *)
(* the innermost, what is to the left of the node in hand.                 *)

Opened(st) == [i \in DOMAIN st |-> [holes |-> Holes(st[i].done)]]

StackHoles(st) == Holes(Opened(st))

\* The placeholders written so far, from left to right.
Written == IF mode = "render" THEN StackHoles(stack) ELSE StackHoles(stack) \o fragment.holes

\* The k numbers that follow n.
Following(n, k) == [i \in 1..k |-> n + i]

Counted(n) == Following(0, n)

Granted(t, st) ==
    \A i \in 1..Len(st) : st[i].node.kind = "Temporal" => "Temporal" \in t.predicates

\* With SqlInv this is inductive: a dialect whose placeholders are taken by
\* position has no template that writes an operand twice or out of turn, so
\* the nth placeholder of the text so far is the nth value so far.
OrderInv ==
    /\ target \in Targets
    /\ mode = "compiled" => stack = << >>
    /\ Granted(target, stack)
    /\ ~target.numbered /\ mode # "failed" => Written = Counted(Len(args))

LEMMA ConcatLaws ==
    ASSUME NEW s, NEW t, NEW u, IsSeq(s), IsSeq(t), IsSeq(u)
    PROVE  /\ s \o << >> = s /\ << >> \o s = s
           /\ (s \o t) \o u = s \o (t \o u)
<1> DEFINE S == {s[i] : i \in DOMAIN s}
           T == {t[i] : i \in DOMAIN t}
           U == {u[i] : i \in DOMAIN u}
           A == S \cup T \cup U
<1>1. s \in Seq(S) /\ t \in Seq(T) /\ u \in Seq(U)
  BY DEF IsSeq
<1> HIDE DEF S, T, U
<1>2. s \in Seq(A) /\ t \in Seq(A) /\ u \in Seq(A)
  BY <1>1
<1> HIDE DEF A
<1>3. (s \o t) \o u = s \o (t \o u)
  BY <1>2, ConcatAssociative
<1>4. s \o << >> = s /\ << >> \o s = s
  BY <1>2, ConcatEmptySeq
<1>5. QED  BY <1>3, <1>4

LEMMA HolesOfOne ==
    ASSUME NEW f, IsFragment(f)
    PROVE  Holes(<<f>>) = f.holes
<1> DEFINE none == << >>
<1>1. IsSeq(none) /\ <<f>> = Append(none, f) /\ Holes(none) = none
  BY HolesOfNone DEF IsSeq
<1>2. none \o f.holes = f.holes
  BY ConcatLaws DEF IsFragment
<1> HIDE DEF none
<1>3. Holes(Append(none, f)) = Holes(none) \o f.holes
  BY <1>1, HolesOfAppend
<1>4. QED  BY <1>1, <1>2, <1>3

\* Every template but the temporal ones has its operands once and in order.
LEMMA TemplateHoles ==
    ASSUME NEW n \in Nodes, NEW p, AreFragments(p), n.kind # "Temporal",
           Len(p) = Len(Requests(n)),
           n.kind = "Logical" /\ n.op = "NOT" => Len(n.args) = 1
    PROVE  Template(n, p).holes = Holes(p)
<1>0. IsSeq(p) /\ \A i \in 1..Len(p) : IsFragment(p[i])
  BY DEF AreFragments
<1>1. \A sql : Fragment(sql, p).holes = Holes(p) /\ IsFragment(Fragment(sql, p))
  BY FragmentUsed DEF Fragment
<1>2. ASSUME NEW sql, NEW f, IsFragment(f)
      PROVE  Fragment(sql, <<f>>).holes = f.holes /\ IsFragment(Fragment(sql, <<f>>))
  <2>1. Fragment(sql, <<f>>).holes = Holes(<<f>>)
    BY DEF Fragment
  <2>2. QED  BY <1>2, <2>1, HolesOfOne, NotUsed
<1>3. CASE n.kind = "Logical" /\ n.op = "NOT"
  <2>1. Len(p) = 1
    BY <1>3, RequestsLength
  <2>2. p = <<p[1]>> /\ IsFragment(p[1])
    <3>1. p \in Seq({p[i] : i \in DOMAIN p})
      BY <1>0 DEF IsSeq
    <3>2. p = <<p[1]>>
      BY <2>1, <3>1
    <3>3. QED  BY <1>0, <2>1, <3>2
  <2>3. NotSql(p[1]).holes = p[1].holes
    BY <1>2, <2>2 DEF NotSql
  <2>4. Holes(p) = p[1].holes
    BY <2>2, HolesOfOne
  <2>5. Template(n, p) = NotSql(p[1])
    BY <1>3 DEF Template
  <2>6. QED  BY <2>3, <2>4, <2>5
<1>4. CASE n.kind \in {"Like", "Between", "In", "IsNull"}
  <2>1. \A sql : Flagged(n, Fragment(sql, p)).holes = Holes(p)
    BY <1>1, <1>2 DEF Flagged
  <2>2. QED  BY <1>4, <2>1 DEF Template
<1>5. CASE n.kind \notin {"Like", "Between", "In", "IsNull"} /\ ~(n.kind = "Logical" /\ n.op = "NOT")
  <2>1. \E sql : Template(n, p) = Fragment(sql, p)
    BY <1>5 DEF Template
  <2>2. QED  BY <1>1, <2>1
<1>6. QED  BY <1>3, <1>4, <1>5

LEMMA StackHolesOfAppend ==
    ASSUME NEW st, NEW f, IsSeq(st)
    PROVE  StackHoles(Append(st, f)) = StackHoles(st) \o Holes(f.done)
<1> DEFINE q == Append(st, f)
           g == [holes |-> Holes(f.done)]
           o == Opened(st)
           n == Len(st)
<1>1. /\ IsSeq(q) /\ n \in Nat /\ Len(q) = n + 1
      /\ \A i \in 1..n : q[i] = st[i]
      /\ q[n + 1] = f
  BY AppendFacts
<1>2. DOMAIN st = 1..n /\ DOMAIN q = 1..n + 1
  BY <1>1 DEF IsSeq
<1>3. DOMAIN o = 1..n /\ \A i \in 1..n : o[i] = [holes |-> Holes(st[i].done)]
  BY <1>2 DEF Opened
<1>4. IsSeq(o) /\ Len(o) = n
  <2> DEFINE S == {o[i] : i \in 1..n}
  <2>1. o = [i \in 1..n |-> o[i]]
    BY <1>2 DEF Opened
  <2>2. \A i \in 1..n : o[i] \in S
    OBVIOUS
  <2> HIDE DEF o, n, S
  <2>3. o \in Seq(S) /\ Len(o) = n
    BY <1>1, <2>1, <2>2
  <2>4. QED  BY <2>3, SeqOfElements
<1>5. /\ IsSeq(Append(o, g)) /\ Len(Append(o, g)) = n + 1
      /\ \A i \in 1..n : Append(o, g)[i] = o[i]
      /\ Append(o, g)[n + 1] = g
  BY <1>4, AppendFacts
<1>6. DOMAIN Append(o, g) = 1..n + 1 /\ Append(o, g) = [i \in 1..n + 1 |-> Append(o, g)[i]]
  <2> DEFINE a == Append(o, g)
  <2>1. IsSeq(a) /\ Len(a) = n + 1
    BY <1>5
  <2> HIDE DEF a
  <2>2. DOMAIN a = 1..n + 1 /\ a = [i \in 1..n + 1 |-> a[i]]
    BY <2>1, SeqIsFunction
  <2>3. QED  BY <2>2 DEF a
<1>7. Opened(q) = [i \in 1..n + 1 |-> [holes |-> Holes(q[i].done)]]
  BY <1>2 DEF Opened
<1> HIDE DEF q, o, g, n
<1>8. \A i \in 1..n + 1 : [holes |-> Holes(q[i].done)] = Append(o, g)[i]
  <2>1. \A i \in 1..n : [holes |-> Holes(q[i].done)] = Append(o, g)[i]
    BY <1>1, <1>3, <1>5
  <2>2. [holes |-> Holes(q[n + 1].done)] = Append(o, g)[n + 1]
    BY <1>1, <1>5 DEF g
  <2>3. \A i \in 1..n + 1 : i \in 1..n \/ i = n + 1
    BY <1>1
  <2>4. QED  BY <2>1, <2>2, <2>3
<1>9. Opened(q) = Append(o, g)
  BY <1>6, <1>7, <1>8
<1>10. Holes(Append(o, g)) = Holes(o) \o g.holes
  BY <1>4, HolesOfAppend
<1>11. g.holes = Holes(f.done)
  BY DEF g
<1>12. QED  BY <1>9, <1>10, <1>11 DEF StackHoles, q, o

LEMMA StackHolesOfTop ==
    ASSUME IsSeq(stack), stack # << >>
    PROVE  StackHoles(stack) = StackHoles(Below) \o Holes(Top.done)
<1>1. /\ IsSeq(Below) /\ Len(stack) \in Nat \ {0} /\ Len(Below) = Len(stack) - 1
      /\ \A i \in 1..Len(stack) - 1 : Below[i] = stack[i]
  BY Popping DEF Below
<1>2. stack = Append(Below, Top)
  <2> DEFINE q == Append(Below, Top)
             n == Len(stack)
  <2>1. /\ IsSeq(q) /\ Len(q) = Len(Below) + 1
        /\ \A i \in 1..Len(Below) : q[i] = Below[i]
        /\ q[Len(Below) + 1] = Top
    BY <1>1, AppendFacts
  <2>2. Len(q) = n /\ n \in Nat \ {0} /\ \A i \in 1..n : i \in 1..n - 1 \/ i = n
    BY <1>1, <2>1
  <2>3. \A i \in 1..n : q[i] = stack[i]
    BY <1>1, <2>1, <2>2 DEF Top
  <2> HIDE DEF q
  <2>4. q = [i \in 1..n |-> q[i]] /\ stack = [i \in 1..n |-> stack[i]]
    BY <2>1, <2>2, SeqIsFunction
  <2>5. q = stack
    BY <2>3, <2>4
  <2>6. QED  BY <2>5 DEF q
<1>3. StackHoles(Append(Below, Top)) = StackHoles(Below) \o Holes(Top.done)
  BY <1>1, StackHolesOfAppend
<1>4. QED  BY <1>2, <1>3

\* Holes of a stack are a sequence.
LEMMA StackHolesSeq ==
    ASSUME NEW st, StackOK(st)
    PROVE  IsSeq(StackHoles(st))
<1> DEFINE o == Opened(st)
           n == Len(st)
           S == {o[i] : i \in 1..n}
<1>1. DOMAIN st = 1..n /\ n \in Nat /\ \A i \in 1..n : FrameOK(st[i])
  BY DEF StackOK, IsSeq
<1>2. \A i \in 1..n : AreFragments(st[i].done)
  BY <1>1 DEF FrameOK
<1>3. \A i \in 1..n : IsSeq(Holes(st[i].done))
  BY <1>2, HolesUsed
<1>4. o = [i \in 1..n |-> o[i]] /\ \A i \in 1..n : o[i].holes = Holes(st[i].done)
  BY <1>1 DEF Opened
<1>5. \A i \in 1..n : o[i] \in S
  OBVIOUS
<1> HIDE DEF o, n, S
<1>6. o \in Seq(S) /\ Len(o) = n
  BY <1>1, <1>4, <1>5
<1>7. AreFragments(o)
  BY <1>3, <1>4, <1>6, SeqOfElements DEF AreFragments, IsFragment
<1>8. QED  BY <1>7, HolesUsed DEF StackHoles, o

-----------------------------------------------------------------------------

LEMMA CountOn ==
    ASSUME NEW m \in Nat, NEW n \in Nat, NEW k \in Nat
    PROVE  Following(m, n) \o Following(m + n, k) = Following(m, n + k)
<1> DEFINE s == Following(m, n)
           t == Following(m + n, k)
           c == s \o t
<1>1. s \in Seq(Nat) /\ Len(s) = n /\ \A i \in 1..n : s[i] = m + i
  <2>1. \A i \in 1..n : m + i \in Nat
    OBVIOUS
  <2>2. QED  BY <2>1 DEF Following
<1>2. t \in Seq(Nat) /\ Len(t) = k /\ \A i \in 1..k : t[i] = m + n + i
  <2>1. \A i \in 1..k : m + n + i \in Nat
    OBVIOUS
  <2>2. QED  BY <2>1 DEF Following
<1> HIDE DEF s, t
<1>3. /\ c \in Seq(Nat) /\ Len(c) = n + k
      /\ \A i \in 1..n + k : c[i] = IF i <= n THEN s[i] ELSE t[i - n]
  BY <1>1, <1>2, ConcatProperties, ZenonT(30)
<1>4. ASSUME NEW i \in 1..n + k PROVE c[i] = m + i
  <2>1. CASE i <= n
    <3>1. i \in 1..n
      BY <2>1
    <3>2. QED  BY <1>1, <1>3, <2>1, <3>1
  <2>2. CASE ~(i <= n)
    <3>1. i - n \in 1..k /\ m + n + (i - n) = m + i
      BY <2>2
    <3>2. t[i - n] = m + n + (i - n)
      BY <1>2, <3>1
    <3>3. QED  BY <1>3, <2>2, <3>1, <3>2
  <2>3. QED  BY <2>1, <2>2
<1> HIDE DEF c
<1>5. c = [i \in 1..n + k |-> c[i]]
  BY <1>3, SeqOfElements, SeqIsFunction
<1>6. c = [i \in 1..n + k |-> m + i]
  BY <1>4, <1>5
<1>7. QED  BY <1>6 DEF Following, c, s, t

LEMMA PlaceholderHoles ==
    ASSUME NEW m \in Nat, NEW n \in Nat
    PROVE  Holes([i \in 1..n |-> Placeholder(m + i)]) = Following(m, n)
<1> DEFINE parts == [i \in 1..n |-> Placeholder(m + i)]
           f == HolesUpTo(parts)
           S == {k \in Nat : k <= n => f[k] = Following(m, k)}
<1>1. Len(parts) = n /\ \A i \in 1..n : parts[i].holes = <<m + i>>
  <2> DEFINE A == {Placeholder(m + i) : i \in 1..n}
  <2>1. parts \in [1..n -> A] /\ \A i \in 1..n : parts[i] = Placeholder(m + i)
    OBVIOUS
  <2>2. \A i : Placeholder(i).holes = <<i>>
    BY DEF Placeholder
  <2> HIDE DEF A, parts
  <2>3. parts \in Seq(A) /\ DOMAIN parts = 1..n
    BY <2>1
  <2>4. QED  BY <2>1, <2>2, <2>3
<1>2. Fills(parts, n, f)
  BY <1>1, HolesFill
<1> HIDE DEF parts, f
<1>3. 0 \in S
  BY <1>2 DEF Fills, Following
<1>4. ASSUME NEW k \in Nat, k \in S PROVE k + 1 \in S
  <2> SUFFICES ASSUME k + 1 <= n PROVE f[k + 1] = Following(m, k + 1)
    OBVIOUS
  <2>1. k <= n /\ k + 1 \in 1..n
    OBVIOUS
  <2>2. f[k] = Following(m, k)
    BY <1>4, <2>1
  <2>3. f[k + 1] = f[k] \o <<m + (k + 1)>>
    BY <1>1, <1>2, <2>1 DEF Fills, Joined
  <2> DEFINE one == 1
  <2>4. one \in Nat /\ k + one = k + 1 /\ <<m + (k + 1)>> = Following(m + k, one)
    BY DEF Following
  <2> HIDE DEF one
  <2>5. Following(m, k) \o Following(m + k, one) = Following(m, k + one)
    BY <2>4, CountOn
  <2>6. QED  BY <2>2, <2>3, <2>4, <2>5
<1>5. Nat \subseteq S
  <2> HIDE DEF S
  <2>1. QED  BY <1>3, <1>4, SetInduction
<1>6. f[n] = Following(m, n)
  BY <1>5
<1>7. QED  BY <1>1, <1>6 DEF Holes, parts, f

\* What holds of the text and the values before any step.
LEMMA WrittenNow ==
    ASSUME SqlInv, OrderInv, ~target.numbered
    PROVE  /\ Len(args) \in Nat /\ IsSeq(StackHoles(stack)) /\ IsSeq(fragment.holes)
           /\ mode = "render" => StackHoles(stack) = Counted(Len(args))
           /\ mode = "return" => StackHoles(stack) \o fragment.holes = Counted(Len(args))
<1>1. Len(args) \in Nat
  BY Accounted
<1>2. IsSeq(StackHoles(stack)) /\ IsSeq(fragment.holes)
  BY StackHolesSeq DEF SqlInv, IsFragment
<1>3. QED  BY <1>1, <1>2 DEF OrderInv, Written

LEMMA RenderedInOrder ==
    ASSUME NEW r, NEW st, OrderInv, Render(r, st), Granted(target, st),
           ~target.numbered => StackHoles(st) = Counted(Len(args))
    PROVE  OrderInv'
<1>1. mode' = "render" /\ stack' = st /\ args' = args /\ target' = target
  BY DEF Render
<1>2. Written' = StackHoles(st)
  BY <1>1 DEF Written, StackHoles, Opened
<1>3. Granted(target, stack)'
  BY <1>1 DEF Granted
<1>4. QED  BY <1>1, <1>2, <1>3 DEF OrderInv, Counted, Following

LEMMA ReturnedInOrder ==
    ASSUME NEW f, NEW values, NEW st, OrderInv, Return(f, values, st), Granted(target, st),
           IsSeq(args), IsSeq(values),
           ~target.numbered => StackHoles(st) \o f.holes = Counted(Len(args) + Len(values))
    PROVE  OrderInv'
<1>1. mode' = "return" /\ fragment' = f /\ stack' = st /\ args' = args \o values /\ target' = target
  BY DEF Return
<1>2. Len(args') = Len(args) + Len(values)
  BY <1>1, ConcatFacts
<1>3. Written' = StackHoles(st) \o f.holes
  BY <1>1 DEF Written, StackHoles, Opened
<1>4. Granted(target, stack)'
  BY <1>1 DEF Granted
<1>5. ~target'.numbered => Written' = Counted(Len(args'))
  BY <1>1, <1>2, <1>3
<1>6. QED  BY <1>1, <1>4, <1>5 DEF OrderInv, Counted, Following

LEMMA FailedInOrder == ASSUME OrderInv, Fail PROVE OrderInv'
<1>1. mode' = "failed" /\ UNCHANGED <<target, stack>>
  BY DEF Fail
<1>2. QED  BY <1>1 DEF OrderInv, Granted

\* A leaf with k values and, in their order, the placeholders for them.
LEMMA LeafInOrder ==
    ASSUME NEW f, NEW values, NEW k \in Nat, SqlInv, OrderInv, mode = "render",
           Return(f, values, stack), IsSeq(values), Len(values) = k,
           f.holes = [i \in 1..k |-> Len(args) + i]
    PROVE  OrderInv'
<1>1. Granted(target, stack) /\ IsSeq(args)
  BY DEF OrderInv, SqlInv
<1>2. ASSUME ~target.numbered
      PROVE  StackHoles(stack) \o f.holes = Counted(Len(args) + Len(values))
  <2> DEFINE n == Len(args)
  <2>1. n \in Nat /\ StackHoles(stack) = Counted(n)
    BY <1>2, WrittenNow
  <2>2. f.holes = Following(n, k)
    BY DEF Following
  <2> DEFINE zero == 0
  <2>3. zero \in Nat /\ zero + n = n /\ \A x : Counted(x) = Following(zero, x)
    BY <2>1 DEF Counted
  <2> HIDE DEF n, zero
  <2>4. Following(zero, n) \o Following(zero + n, k) = Following(zero, n + k)
    BY <2>1, <2>3, CountOn
  <2>5. StackHoles(stack) \o f.holes = Counted(n + k)
    BY <2>1, <2>2, <2>3, <2>4
  <2>6. QED  BY <2>5 DEF n
<1>3. QED  BY <1>1, <1>2, ReturnedInOrder

LEMMA BlankInOrder ==
    ASSUME NEW f, SqlInv, OrderInv, mode = "render", Return(f, << >>, stack), f.holes = << >>
    PROVE  OrderInv'
<1> DEFINE none == << >>
           zero == 0
<1>1. IsSeq(none) /\ Len(none) = zero /\ zero \in Nat
  BY DEF IsSeq
<1>2. f.holes = [i \in 1..zero |-> Len(args) + i]
  OBVIOUS
<1>3. Return(f, none, stack)
  OBVIOUS
<1> HIDE DEF none, zero
<1>4. QED  BY <1>1, <1>2, <1>3, LeafInOrder

LEMMA NextInOrder ==
    ASSUME NEW f, NEW v, SqlInv, OrderInv, mode = "render", Return(f, <<v>>, stack),
           f.holes = <<Len(args) + 1>>
    PROVE  OrderInv'
<1> DEFINE one == <<v>>
           k == 1
<1>1. IsSeq(one) /\ Len(one) = k /\ k \in Nat
  BY DEF IsSeq
<1>2. f.holes = [i \in 1..k |-> Len(args) + i]
  <2>1. Len(args) \in Nat
    BY Accounted
  <2>2. QED  BY <2>1
<1>3. Return(f, one, stack)
  OBVIOUS
<1> HIDE DEF one, k
<1>4. QED  BY <1>1, <1>2, <1>3, LeafInOrder

LEMMA NextHoles ==
    /\ NextPlaceholder.holes = <<Len(args) + 1>>
    /\ \A sql : Fragment(sql, <<NextPlaceholder>>).holes = <<Len(args) + 1>>
<1>1. NextPlaceholder.holes = <<Len(args) + 1>>
  BY DEF NextPlaceholder, Placeholder
<1>2. Holes(<<NextPlaceholder>>) = NextPlaceholder.holes
  BY NextUsed, HolesOfOne
<1>3. QED  BY <1>1, <1>2 DEF Fragment

LEMMA LiteralInOrder == ASSUME SqlInv, OrderInv, RenderLiteral PROVE OrderInv'
<1>1. mode = "render"
  BY DEF RenderLiteral, Rendering
<1>2. CASE node.types = {"number"}
  <2>1. Return(Fragment("number", <<NextPlaceholder>>), <<node.op>>, stack)
    BY <1>2 DEF RenderLiteral
  <2>2. QED  BY <1>1, <2>1, NextHoles, NextInOrder
<1>3. CASE node.types # {"number"} /\ node.types = {"string"}
  <2>1. Return(NextPlaceholder, <<node.op>>, stack)
    BY <1>3 DEF RenderLiteral
  <2>2. QED  BY <1>1, <2>1, NextHoles, NextInOrder
<1>4. CASE node.types # {"number"} /\ node.types # {"string"}
  <2>1. Return(Fragment(node.op, << >>), << >>, stack)
    BY <1>4 DEF RenderLiteral
  <2>2. Fragment(node.op, << >>).holes = << >>
    BY HolesOfNone DEF Fragment
  <2>3. QED  BY <1>1, <2>1, <2>2, BlankInOrder
<1>5. QED  BY <1>2, <1>3, <1>4

LEMMA InstantInOrder == ASSUME SqlInv, OrderInv, RenderInstant PROVE OrderInv'
<1>1. mode = "render" /\ Return(Fragment("instant", <<NextPlaceholder>>), <<node.op>>, stack)
  BY DEF RenderInstant, Rendering
<1>2. QED  BY <1>1, NextHoles, NextInOrder

LEMMA PropertyInOrder == ASSUME SqlInv, OrderInv, RenderProperty PROVE OrderInv'
<1>1. mode = "render"
  BY DEF RenderProperty, Rendering
<1>2. Column(node.op).holes = << >>
  BY DEF Column
<1>3. Return(Column(node.op), << >>, stack) \/ Fail
  BY DEF RenderProperty
<1>4. QED  BY <1>1, <1>2, <1>3, BlankInOrder, FailedInOrder
LEMMA GeometryInOrder == ASSUME SqlInv, OrderInv, RenderGeometry PROVE OrderInv'
<1>1. mode = "render" /\ Len(args) \in Nat
  BY Accounted DEF RenderGeometry, Rendering
<1>2. CASE Fail
  BY <1>2, FailedInOrder
<1>3. CASE ~Fail
  <2> DEFINE n == IF node.op = "BBOX4" THEN 4 ELSE 1
             parts == [i \in 1..n |-> Placeholder(Len(args) + i)]
             values == [i \in 1..n |-> node.op]
             f == Fragment(node.op, parts)
  <2>1. Return(f, values, stack)
    BY <1>3 DEF RenderGeometry
  <2>2. n \in Nat
    OBVIOUS
  <2>3. IsSeq(values) /\ Len(values) = n
    BY <2>2 DEF IsSeq
  <2>4. f.holes = Holes(parts)
    BY DEF Fragment
  <2> HIDE DEF n, values, f
  <2>5. Holes(parts) = Following(Len(args), n)
    BY <1>1, <2>2, PlaceholderHoles
  <2>6. QED  BY <1>1, <2>1, <2>2, <2>3, <2>4, <2>5, LeafInOrder DEF Following
<1>4. QED  BY <1>2, <1>3

LEMMA EndpointInOrder == ASSUME SqlInv, OrderInv, RenderEndpoint PROVE OrderInv'
<1> DEFINE end == node.args[IF part = "start" THEN 1 ELSE 2]
<1>1. mode = "render"
  BY DEF RenderEndpoint
<1>2. Fail \/ Render(Request(end, "whole"), stack)
  BY DEF RenderEndpoint
<1>3. Granted(target, stack)
  BY DEF OrderInv
<1> HIDE DEF end
<1>4. QED  BY <1>1, <1>2, <1>3, WrittenNow, RenderedInOrder, FailedInOrder

\* A frame for a node the dialect takes.
LEMMA GrantedPush ==
    ASSUME NEW st, NEW f, IsSeq(st), Granted(target, st),
           f.node.kind = "Temporal" => "Temporal" \in target.predicates
    PROVE  Granted(target, Append(st, f))
<1> DEFINE q == Append(st, f)
           n == Len(st)
<1>1. n \in Nat /\ Len(q) = n + 1 /\ (\A i \in 1..n : q[i] = st[i]) /\ q[n + 1] = f
  BY AppendFacts
<1>2. \A i \in 1..n : st[i].node.kind = "Temporal" => "Temporal" \in target.predicates
  BY DEF Granted
<1> HIDE DEF q, n
<1>3. \A i \in 1..Len(q) : i \in 1..n \/ i = n + 1
  BY <1>1
<1>4. \A i \in 1..Len(q) : q[i].node.kind = "Temporal" => "Temporal" \in target.predicates
  BY <1>1, <1>2, <1>3
<1>5. QED  BY <1>4 DEF Granted, q

LEMMA OperandsInOrder == ASSUME SqlInv, OrderInv, RenderOperands PROVE OrderInv'
<1> DEFINE requests == Requests(node)
           none == << >>
           f == [node |-> node, todo |-> Tail(requests), done |-> none]
<1>1. mode = "render" /\ node \in Nodes /\ IsSeq(stack) /\ StackOK(stack) /\ Granted(target, stack)
  BY DEF RenderOperands, Rendering, SqlInv, OrderInv, StackOK
<1>2. CASE ~Accepts(node)
  BY <1>2, FailedInOrder DEF RenderOperands
<1>3. CASE Accepts(node)
  <2>1. node.kind = "Temporal" => "Temporal" \in target.predicates
    BY <1>3 DEF Accepts
  <2>2. node.kind = "Logical" /\ node.op = "NOT" => Len(node.args) = 1
    BY <1>3 DEF Accepts
  <2>3. AreFragments(none) /\ Len(none) = 0 /\ Holes(none) = none
    BY UsedOfNone, HolesOfNone
  <2>4. CASE requests = none
    <3>1. Return(Template(node, none), << >>, stack)
      BY <1>3, <2>4 DEF RenderOperands
    <3>2. Len(none) = Len(requests)
      BY <2>4
    <3>3. node.kind # "Temporal"
      BY <1>1, <2>3, <3>2, RequestsLength
    <3> HIDE DEF none
    <3>4. Template(node, none).holes = none
      BY <1>1, <2>2, <2>3, <3>2, <3>3, TemplateHoles
    <3>5. Template(node, none).holes = << >>
      BY <3>4 DEF none
    <3>6. QED  BY <1>1, <3>1, <3>5, BlankInOrder
  <2>5. CASE requests # none
    <3>1. Render(requests[1], Append(stack, f))
      BY <1>3, <2>5 DEF RenderOperands
    <3>2. f.node = node /\ f.done = none
      OBVIOUS
    <3> HIDE DEF f, requests
    <3>3. Granted(target, Append(stack, f))
      BY <1>1, <2>1, <3>2, GrantedPush
    <3>4. StackHoles(Append(stack, f)) = StackHoles(stack)
      <4>1. StackHoles(Append(stack, f)) = StackHoles(stack) \o none
        BY <1>1, <2>3, <3>2, StackHolesOfAppend
      <4>2. IsSeq(StackHoles(stack))
        BY <1>1, StackHolesSeq
      <4>3. QED  BY <4>1, <4>2, ConcatLaws
    <3>5. QED  BY <1>1, <3>1, <3>3, <3>4, WrittenNow, RenderedInOrder
  <2>6. QED  BY <2>4, <2>5
<1>4. QED  BY <1>2, <1>3

LEMMA JoinInOrder == ASSUME SqlInv, OrderInv, OperandRendered PROVE OrderInv'
<1> DEFINE done == Append(Top.done, fragment)
           f == [node |-> Top.node, todo |-> Tail(Top.todo), done |-> done]
           none == << >>
<1>1. /\ mode = "return" /\ stack # << >> /\ StackOK(stack) /\ IsSeq(stack)
      /\ Granted(target, stack) /\ IsFragment(fragment) /\ IsSeq(args)
  BY DEF OperandRendered, SqlInv, OrderInv, StackOK
<1>2. /\ IsSeq(Below) /\ Len(stack) \in Nat \ {0} /\ Len(Below) = Len(stack) - 1
      /\ \A i \in 1..Len(stack) - 1 : Below[i] = stack[i]
  BY <1>1, Popping DEF Below
<1>3. FrameOK(Top) /\ (Top.node.kind = "Temporal" => "Temporal" \in target.predicates)
  BY <1>1, <1>2 DEF StackOK, Top, Granted
<1>4. \A i \in 1..Len(Below) : i \in 1..Len(stack) - 1 /\ i \in 1..Len(stack)
  BY <1>2
<1>5. StackOK(Below) /\ Granted(target, Below)
  <2>1. \A i \in 1..Len(Below) : FrameOK(Below[i])
    BY <1>1, <1>2, <1>4 DEF StackOK
  <2>2. \A i \in 1..Len(Below) : Below[i].node.kind = "Temporal" => "Temporal" \in target.predicates
    BY <1>1, <1>2, <1>4 DEF Granted
  <2>3. QED  BY <1>2, <2>1, <2>2 DEF StackOK, Granted
<1>6. /\ Top.node \in Nodes /\ AreFragments(Top.done) /\ IsSeq(Top.done)
      /\ (Top.node.kind = "Logical" /\ Top.node.op = "NOT" => Len(Top.node.args) = 1)
      /\ Len(Top.done) + 1 + Len(Top.todo) = Len(Requests(Top.node))
  BY <1>3 DEF FrameOK, AreFragments
<1>7. AreFragments(done) /\ Len(done) = Len(Top.done) + 1 /\ Len(Top.done) \in Nat
  BY <1>1, <1>6, AppendFacts, UsedOfAppend
<1>8. Holes(done) = Holes(Top.done) \o fragment.holes
  BY <1>6, HolesOfAppend
<1>9. IsSeq(StackHoles(Below)) /\ IsSeq(Holes(Top.done)) /\ IsSeq(fragment.holes)
  BY <1>1, <1>5, <1>6, StackHolesSeq, HolesUsed DEF IsFragment
<1> HIDE DEF done
<1>10. ~target.numbered => StackHoles(Below) \o Holes(done) = Counted(Len(args))
  <2>1. StackHoles(stack) = StackHoles(Below) \o Holes(Top.done)
    BY <1>1, StackHolesOfTop
  <2> DEFINE s == StackHoles(Below)
             t == Holes(Top.done)
             u == fragment.holes
  <2>4. IsSeq(s) /\ IsSeq(t) /\ IsSeq(u) /\ Holes(done) = t \o u
    BY <1>8, <1>9
  <2>2. (s \o t) \o u = s \o Holes(done)
    <3> HIDE DEF s, t, u
    <3>1. QED  BY <2>4, ConcatLaws
  <2>3. QED  BY <1>1, <2>1, <2>2, WrittenNow
<1>11. CASE Top.todo # << >>
  <2>1. Render(Top.todo[1], Append(Below, f))
    BY <1>11 DEF OperandRendered, done
  <2>2. f.node = Top.node /\ f.done = done
    OBVIOUS
  <2> HIDE DEF f
  <2>3. Granted(target, Append(Below, f))
    BY <1>2, <1>3, <1>5, <2>2, GrantedPush
  <2>4. StackHoles(Append(Below, f)) = StackHoles(Below) \o Holes(done)
    BY <1>2, <2>2, StackHolesOfAppend
  <2>5. QED  BY <1>10, <2>1, <2>3, <2>4, RenderedInOrder
<1>12. CASE Top.todo = << >>
  <2> DEFINE t == Template(Top.node, done)
  <2>1. Return(t, none, Below)
    BY <1>12 DEF OperandRendered, done
  <2>2. Len(done) = Len(Requests(Top.node))
    BY <1>6, <1>7, <1>12
  <2>3. Top.node.kind # "Temporal" => t.holes = Holes(done)
    BY <1>6, <1>7, <2>2, TemplateHoles
  <2>4. ~target.numbered => Top.node.kind # "Temporal"
    BY <1>3, TargetsAssumption DEF OrderInv
  <2>5. IsSeq(none) /\ Len(none) = 0 /\ Len(args) \in Nat /\ Len(args) + Len(none) = Len(args)
    BY Accounted DEF IsSeq
  <2> HIDE DEF t, none
  <2>6. ~target.numbered => StackHoles(Below) \o t.holes = Counted(Len(args) + Len(none))
    BY <1>10, <2>3, <2>4, <2>5
  <2>7. QED  BY <1>1, <1>5, <2>1, <2>5, <2>6, ReturnedInOrder
<1>13. QED  BY <1>11, <1>12

LEMMA FinishInOrder == ASSUME OrderInv, Finish PROVE OrderInv'
<1>1. mode = "return" /\ mode' = "compiled" /\ stack = << >>
      /\ UNCHANGED <<target, fragment, args, stack>>
  BY DEF Finish
<1>2. Written' = Written
  BY <1>1 DEF Written, StackHoles, Opened
<1>3. QED  BY <1>1, <1>2 DEF OrderInv, Granted, Counted, Following

LEMMA StutterInOrder == ASSUME OrderInv, UNCHANGED vars PROVE OrderInv'
<1>1. UNCHANGED <<mode, target, fragment, args, stack>>
  BY DEF vars
<1>2. Written' = Written
  BY <1>1 DEF Written, StackHoles, Opened
<1>3. QED  BY <1>1, <1>2 DEF OrderInv, Granted, Counted, Following

LEMMA InitiallyInOrder == ASSUME Init PROVE OrderInv
<1> DEFINE none == << >>
<1>1. mode = "render" /\ stack = none /\ args = none /\ target \in Targets
  BY DEF Init
<1>2. Len(none) = 0 /\ Opened(none) = none /\ Counted(0) = none
  BY DEF Opened, Counted, Following
<1>3. StackHoles(none) = none
  BY <1>2, HolesOfNone DEF StackHoles
<1>4. Granted(target, none)
  BY <1>2 DEF Granted
<1> HIDE DEF none
<1>5. QED  BY <1>1, <1>2, <1>3, <1>4 DEF OrderInv, Written

LEMMA StepsKeepOrderInv == SqlInv /\ OrderInv /\ [Next]_vars => OrderInv'
<1> SUFFICES ASSUME SqlInv, OrderInv, [Next]_vars PROVE OrderInv'
  OBVIOUS
<1>1. CASE RenderLiteral    BY <1>1, LiteralInOrder
<1>2. CASE RenderInstant    BY <1>2, InstantInOrder
<1>3. CASE RenderProperty   BY <1>3, PropertyInOrder
<1>4. CASE RenderGeometry   BY <1>4, GeometryInOrder
<1>5. CASE RenderEndpoint   BY <1>5, EndpointInOrder
<1>6. CASE RenderOperands   BY <1>6, OperandsInOrder
<1>7. CASE OperandRendered  BY <1>7, JoinInOrder
<1>8. CASE Finish           BY <1>8, FinishInOrder
<1>9. CASE Terminated       BY <1>9, StutterInOrder DEF Terminated
<1>10. CASE UNCHANGED vars  BY <1>10, StutterInOrder
<1>11. QED
  BY <1>1, <1>2, <1>3, <1>4, <1>5, <1>6, <1>7, <1>8, <1>9, <1>10 DEF Next, Step

LEMMA CompiledInOrder == SqlInv /\ OrderInv => ArgsInPlaceholderOrder
<1> SUFFICES ASSUME SqlInv, OrderInv, mode = "compiled" PROVE ArgsInPlaceholderOrder
  BY DEF ArgsInPlaceholderOrder
<1> DEFINE none == << >>
<1>1. stack = none /\ DOMAIN args = 1..Len(args) /\ IsSeq(fragment.holes)
  BY SeqIsFunction DEF OrderInv, SqlInv, IsFragment
<1>2. CASE target.numbered
  <2>1. UsedSoFar = Refs(fragment) \cup StackUsed(none)
    BY <1>1, UsedNow DEF SqlInv
  <2>2. StackUsed(none) = {}
    BY DEF StackUsed
  <2>3. UsedSoFar = 1..Len(args)
    BY DEF SqlInv, EveryPlaceholderBound
  <2>4. Used(fragment.holes) = DOMAIN args
    BY <1>1, <2>1, <2>2, <2>3 DEF Refs
  <2>5. QED  BY <1>2, <2>4 DEF ArgsInPlaceholderOrder
<1>3. CASE ~target.numbered
  <2>1. Opened(none) = none
    BY DEF Opened
  <2>2. StackHoles(none) = none
    BY <2>1, HolesOfNone DEF StackHoles
  <2>3. none \o fragment.holes = fragment.holes
    BY <1>1, ConcatLaws
  <2> HIDE DEF none
  <2>4. fragment.holes = Counted(Len(args))
    BY <1>1, <1>3, <2>2, <2>3 DEF OrderInv, Written
  <2>5. fragment.holes = [i \in DOMAIN args |-> i]
    BY <1>1, <2>4 DEF Counted, Following
  <2>6. QED  BY <1>3, <2>5 DEF ArgsInPlaceholderOrder
<1>4. QED  BY <1>2, <1>3

\* Whatever trees are compiled, for whatever dialect and mapping: Args holds
\* the bind values in placeholder order (docs/public-api-reference.md).  For a
\* dialect that writes "?", the nth placeholder of the SQL text stands for the
\* nth value; for one that writes "$n", the numbers in the text are exactly
\* those of the values.
THEOREM ArgsStayInOrder == Spec => []ArgsInPlaceholderOrder
<1>1. SqlInv /\ OrderInv => ArgsInPlaceholderOrder
  BY CompiledInOrder
<1>2. Init => SqlInv /\ OrderInv
  BY Initially, InitiallyInOrder
<1>3. SqlInv /\ OrderInv /\ [Next]_vars => (SqlInv /\ OrderInv)'
  BY StepsKeepSqlInv, StepsKeepOrderInv
<1>4. QED  BY <1>1, <1>2, <1>3, PTL DEF Spec

-----------------------------------------------------------------------------
(* What a filter needs, level by level.                                    *)

\* g holds the levels 0 to n.
Upto(f, n, g) ==
    g = [k \in 0..n |-> IF k = 0 THEN {Request(f, "whole")} ELSE Spread(g[k - 1])]

Climbs(f, n, g) ==
    /\ g[0] = {Request(f, "whole")}
    /\ \A k \in Nat : k + 1 <= n => g[k + 1] = Spread(g[k])

LEMMA UptoLevels ==
    ASSUME NEW f, NEW n \in Nat, NEW g, Upto(f, n, g)
    PROVE  Climbs(f, n, g)
<1>1. \A k \in 0..n : g[k] = IF k = 0 THEN {Request(f, "whole")} ELSE Spread(g[k - 1])
  BY DEF Upto
<1>2. \A k \in 0..n : k # 0 => g[k] = Spread(g[k - 1])
  BY <1>1
<1>3. \A k \in Nat : k + 1 <= n => k + 1 \in 0..n /\ k + 1 # 0 /\ (k + 1) - 1 = k
  OBVIOUS
<1>4. QED  BY <1>1, <1>2, <1>3 DEF Climbs

LEMMA UptoExists == ASSUME NEW f PROVE \A n \in Nat : \E g : Upto(f, n, g)
<1> DEFINE root == {Request(f, "whole")}
           S == {n \in Nat : \E g : Upto(f, n, g)}
<1>1. 0 \in S
  <2>1. Upto(f, 0, [k \in 0..0 |-> root])
    BY DEF Upto
  <2>2. QED  BY <2>1
<1>2. ASSUME NEW n \in Nat, n \in S PROVE n + 1 \in S
  <2>1. PICK g : Upto(f, n, g)
    BY <1>2
  <2> DEFINE h == [k \in 0..n + 1 |-> IF k = n + 1 THEN Spread(g[n]) ELSE g[k]]
  <2>2. /\ g[0] = root
        /\ \A k \in 0..n : k # 0 => g[k] = Spread(g[k - 1])
    <3>1. Climbs(f, n, g)
      BY <2>1, UptoLevels
    <3>2. \A k \in 0..n : k # 0 => k - 1 \in Nat /\ (k - 1) + 1 = k /\ k <= n
      OBVIOUS
    <3>3. QED  BY ONLY <3>1, <3>2 DEF Climbs
  <2> HIDE DEF root
  <2>3. ASSUME NEW k \in 0..n + 1 PROVE h[k] = IF k = 0 THEN root ELSE Spread(h[k - 1])
    <3>1. CASE k = 0
      BY <2>2, <3>1
    <3>2. CASE k = n + 1
      <4>1. h[k] = Spread(g[n])
        BY <3>2
      <4>2. k - 1 = n /\ n \in 0..n + 1 /\ n # n + 1 /\ k # 0
        BY <3>2
      <4>3. h[n] = g[n]
        BY <4>2
      <4>4. QED  BY <4>1, <4>2, <4>3
    <3>3. CASE k # 0 /\ k # n + 1
      <4>1. k \in 0..n /\ k - 1 \in 0..n + 1 /\ k - 1 # n + 1
        BY <3>3
      <4>2. h[k] = g[k] /\ h[k - 1] = g[k - 1]
        BY <3>3, <4>1
      <4>3. QED  BY <2>2, <3>3, <4>1, <4>2
    <3>4. QED  BY <3>1, <3>2, <3>3
  <2>4. h = [k \in 0..n + 1 |-> IF k = 0 THEN root ELSE Spread(h[k - 1])]
    BY <2>3
  <2>5. Upto(f, n + 1, h)
    BY ONLY <2>4 DEF Upto, root
  <2>6. QED  BY <2>5
<1>3. Nat \subseteq S
  <2> HIDE DEF S
  <2>1. QED  BY <1>1, <1>2, SetInduction
<1>4. QED  BY <1>3

\* Two of them agree where both are defined.
LEMMA UptoUnique ==
    ASSUME NEW f
    PROVE  \A k \in Nat : \A n, m \in Nat : \A g, h :
              Upto(f, n, g) /\ Upto(f, m, h) /\ k <= n /\ k <= m => g[k] = h[k]
<1> DEFINE Agree(k) == \A n, m \in Nat : \A g, h :
              Upto(f, n, g) /\ Upto(f, m, h) /\ k <= n /\ k <= m => g[k] = h[k]
           S == {k \in Nat : Agree(k)}
<1>1. 0 \in S
  <2>1. Agree(0)  BY UptoLevels DEF Climbs
  <2>2. QED  BY <2>1
<1>2. ASSUME NEW k \in Nat, k \in S PROVE k + 1 \in S
  <2>1. Agree(k + 1)
    <3> SUFFICES ASSUME NEW n \in Nat, NEW m \in Nat, NEW g, NEW h,
                        Upto(f, n, g), Upto(f, m, h), k + 1 <= n, k + 1 <= m
                 PROVE  g[k + 1] = h[k + 1]
      OBVIOUS
    <3>1. k <= n /\ k <= m /\ k + 1 \in 0..n /\ k + 1 \in 0..m /\ k + 1 # 0 /\ (k + 1) - 1 = k
      OBVIOUS
    <3>2. g[k] = h[k]
      BY <1>2, <3>1
    <3>3. Climbs(f, n, g) /\ Climbs(f, m, h)
      BY UptoLevels
    <3>4. g[k + 1] = Spread(g[k]) /\ h[k + 1] = Spread(h[k])
      BY <3>3 DEF Climbs
    <3>5. QED  BY <3>2, <3>4
  <2>2. QED  BY <2>1
<1>3. Nat \subseteq S
  <2> HIDE DEF S
  <2>1. QED  BY <1>1, <1>2, SetInduction
<1>4. QED  BY <1>3

LEMMA LevelsExist ==
    ASSUME NEW f
    PROVE  \E F : F = [k \in Nat |-> IF k = 0 THEN {Request(f, "whole")} ELSE Spread(F[k - 1])]
<1> DEFINE root == {Request(f, "whole")}
           G(k) == CHOOSE g : Upto(f, k, g)
           F == [k \in Nat |-> G(k)[k]]
<1>1. \A k \in Nat : Upto(f, k, G(k))
  BY UptoExists
<1>2. \A k \in Nat : G(k)[0] = root
  BY <1>1, UptoLevels DEF Climbs
<1> HIDE DEF G, root
<1>3. ASSUME NEW k \in Nat
      PROVE  F[k] = IF k = 0 THEN root ELSE Spread(F[k - 1])
  <2>1. F[k] = G(k)[k]
    OBVIOUS
  <2>2. CASE k = 0
    BY <1>2, <2>1, <2>2
  <2>3. CASE k # 0
    <3>1. k - 1 \in Nat /\ k - 1 <= k /\ k \in 0..k
      BY <2>3
    <3>2. F[k - 1] = G(k - 1)[k - 1]
      BY <3>1
    <3>3. G(k)[k - 1] = G(k - 1)[k - 1]
      BY <1>1, <3>1, UptoUnique
    <3>4. G(k)[k] = Spread(G(k)[k - 1])
      <4>1. Climbs(f, k, G(k))
        BY <1>1, UptoLevels
      <4>2. (k - 1) + 1 = k
        OBVIOUS
      <4>3. QED  BY <3>1, <4>1, <4>2 DEF Climbs
    <3>5. QED  BY <2>1, <2>3, <3>2, <3>3, <3>4
  <2>4. QED  BY <2>2, <2>3
<1>4. F = [k \in Nat |-> F[k]]
  OBVIOUS
<1> HIDE DEF F
<1>5. F = [k \in Nat |-> IF k = 0 THEN root ELSE Spread(F[k - 1])]
  BY <1>3, <1>4
<1>6. QED  BY <1>5 DEF root

LEMMA NeededLevels ==
    ASSUME NEW f
    PROVE  /\ NeededWithin(f)[0] = {Request(f, "whole")}
           /\ \A k \in Nat : NeededWithin(f)[k + 1] = Spread(NeededWithin(f)[k])
<1> DEFINE root == {Request(f, "whole")}
           Is(F) == F = [k \in Nat |-> IF k = 0 THEN root ELSE Spread(F[k - 1])]
<1>1. NeededWithin(f) = CHOOSE F : Is(F)
  BY DEF NeededWithin
<1>2. \E F : Is(F)
  BY LevelsExist
<1>3. Is(NeededWithin(f))
  <2> HIDE DEF Is
  <2>1. QED  BY <1>1, <1>2
<1> HIDE DEF root
<1>4. \A k \in Nat : NeededWithin(f)[k] = IF k = 0 THEN root ELSE Spread(NeededWithin(f)[k - 1])
  BY <1>3
<1>5. \A k \in Nat : k + 1 \in Nat /\ k + 1 # 0 /\ (k + 1) - 1 = k
  OBVIOUS
<1>6. QED  BY <1>4, <1>5 DEF root

\* The filter itself is needed, and so is whatever a needed node needs.
LEMMA NeededClosed ==
    ASSUME NEW f \in Filters
    PROVE  /\ Request(f, "whole") \in Needed(f)
           /\ \A r \in Needed(f) : Needs(r) \subseteq Needed(f)
<1> DEFINE root == Request(f, "whole")
           S == {k \in Nat : root \in NeededWithin(f)[k]}
<1>1. 0 \in S
  BY NeededLevels
<1>2. \A k \in Nat : k \in S => k + 1 \in S
  BY NeededLevels DEF Spread
<1>3. Nat \subseteq S
  <2> HIDE DEF S
  <2>1. QED  BY <1>1, <1>2, SetInduction
<1>4. root \in Needed(f)
  BY <1>3, LevelsAssumption DEF Needed
<1>5. Spread(Needed(f)) = Needed(f)
  BY LevelsAssumption
<1>6. QED  BY <1>4, <1>5 DEF Spread

\* ... and nothing else.
LEMMA NeededLeast ==
    ASSUME NEW f, NEW S, Request(f, "whole") \in S, \A r \in S : Needs(r) \subseteq S
    PROVE  Needed(f) \subseteq S
<1> DEFINE T == {k \in Nat : NeededWithin(f)[k] \subseteq S}
<1>1. 0 \in T
  BY NeededLevels
<1>2. \A k \in Nat : k \in T => k + 1 \in T
  BY NeededLevels DEF Spread
<1>3. Nat \subseteq T
  <2> HIDE DEF T
  <2>1. QED  BY <1>1, <1>2, SetInduction
<1>4. QED  BY <1>3, LevelsAssumption DEF Needed

-----------------------------------------------------------------------------
(* What can be backed by SQL: everything it is made of is supported.       *)

Backs(t, S) == \A r \in S : Supports(t, r.node) /\ Needs(r) \subseteq S

Backed(t, r) == \E S : r \in S /\ Backs(t, S)

LEMMA BackedBy ==
    ASSUME NEW t, NEW r
    PROVE  Backed(t, r) <=> Supports(t, r.node) /\ \A q \in Needs(r) : Backed(t, q)
<1>1. ASSUME Backed(t, r)
      PROVE  Supports(t, r.node) /\ \A q \in Needs(r) : Backed(t, q)
  BY <1>1 DEF Backed, Backs
<1>2. ASSUME Supports(t, r.node), \A q \in Needs(r) : Backed(t, q)
      PROVE  Backed(t, r)
  <2> DEFINE G(q) == CHOOSE S : q \in S /\ Backs(t, S)
             S == {r} \cup UNION {G(q) : q \in Needs(r)}
  <2>1. \A q \in Needs(r) : q \in G(q) /\ Backs(t, G(q))
    BY <1>2 DEF Backed
  <2> HIDE DEF G
  <2>2. \A q \in Needs(r) : G(q) \subseteq S
    OBVIOUS
  <2>3. Needs(r) \subseteq S
    BY <2>1
  <2>4. ASSUME NEW p \in S PROVE Supports(t, p.node) /\ Needs(p) \subseteq S
    <3>1. CASE p = r
      BY <1>2, <2>3, <3>1
    <3>2. CASE p # r
      <4>1. PICK q \in Needs(r) : p \in G(q)
        BY <3>2
      <4> HIDE DEF S
      <4>2. QED  BY <2>1, <2>2, <4>1 DEF Backs
    <3>3. QED  BY <3>1, <3>2
  <2>5. r \in S
    OBVIOUS
  <2> HIDE DEF S
  <2>6. QED  BY <2>4, <2>5 DEF Backed, Backs
<1>3. QED  BY <1>1, <1>2

\* Needs and Backed of the ends of an operand.
LEMMA EndsNeed ==
    ASSUME NEW n, NEW p
    PROVE  /\ Request(n, p).node = n /\ Request(n, p).part = p
           /\ Needs(Request(n, p)) \subseteq Needs(Request(n, "whole"))
           /\ n.kind # "Interval" => Needs(Request(n, p)) = Needs(Request(n, "whole"))
           /\ Needs(Request(n, "whole")) \subseteq
                Needs(Request(n, "start")) \cup Needs(Request(n, "end"))
<1>1. \A q : Request(n, q).node = n /\ Request(n, q).part = q
  BY DEF Request
<1>2. CASE n.kind = "Interval"
  <2>1. \A q : Needs(Request(n, q)) = {Request(n.args[e], "whole") : e \in EndsOf(q)}
    BY <1>1, <1>2 DEF Needs
  <2>2. /\ EndsOf("whole") = {1, 2} /\ EndsOf("start") = {1} /\ EndsOf("end") = {2}
        /\ EndsOf(p) \subseteq {1, 2}
    BY DEF EndsOf
  <2>3. QED  BY <1>1, <1>2, <2>1, <2>2
<1>3. CASE n.kind # "Interval"
  <2>1. ASSUME NEW q PROVE Needs(Request(n, q)) = Needs(Request(n, "whole"))
    <3> DEFINE r == Request(n, q)
               w == Request(n, "whole")
    <3>1. r.node = n /\ w.node = n
      BY <1>1
    <3> HIDE DEF r, w
    <3>2. CASE n.kind = "Temporal" /\ n.op \in {"T_AFTER", "T_METBY"}
      <4> DEFINE S == {Request(n.args[1], "start"), Request(n.args[2], "end")}
      <4>1. Needs(r) = S /\ Needs(w) = S
        BY <1>3, <3>1, <3>2 DEF Needs
      <4>2. QED  BY <4>1 DEF r, w
    <3>3. CASE n.kind = "Temporal" /\ n.op \in {"T_BEFORE", "T_MEETS"}
      <4> DEFINE S == {Request(n.args[1], "end"), Request(n.args[2], "start")}
      <4>1. Needs(r) = S /\ Needs(w) = S
        BY <1>3, <3>1, <3>3 DEF Needs
      <4>2. QED  BY <4>1 DEF r, w
    <3>4. CASE n.kind \in {"Literal", "Instant", "Property", "Geometry"}
      <4>1. Needs(r) = {} /\ Needs(w) = {}
        BY <1>3, <3>1, <3>4 DEF Needs
      <4>2. QED  BY <4>1 DEF r, w
    <3>5. CASE /\ n.kind \notin {"Literal", "Instant", "Property", "Geometry"}
               /\ ~(n.kind = "Temporal" /\ n.op \in {"T_AFTER", "T_METBY"})
               /\ ~(n.kind = "Temporal" /\ n.op \in {"T_BEFORE", "T_MEETS"})
      <4> DEFINE S == {Request(n.args[i], "whole") : i \in DOMAIN n.args}
      <4>1. Needs(r) = S
        BY <1>3, <3>1, <3>5 DEF Needs
      <4>2. Needs(w) = S
        BY <1>3, <3>1, <3>5 DEF Needs
      <4>3. QED  BY <4>1, <4>2 DEF r, w
    <3>6. QED  BY <3>2, <3>3, <3>4, <3>5
  <2>2. QED  BY <1>1, <1>3, <2>1
<1>4. QED  BY <1>2, <1>3

LEMMA EndsBack ==
    ASSUME NEW t, NEW n, Backed(t, Request(n, "start")), Backed(t, Request(n, "end"))
    PROVE  Backed(t, Request(n, "whole"))
<1>1. \A q \in Needs(Request(n, "start")) \cup Needs(Request(n, "end")) : Backed(t, q)
  BY BackedBy
<1>2. Supports(t, n)
  <2>1. Request(n, "start").node = n
    BY EndsNeed
  <2>2. Supports(t, Request(n, "start").node)
    BY BackedBy
  <2>3. QED  BY <2>1, <2>2
<1>3. Supports(t, Request(n, "whole").node)
  BY <1>2, EndsNeed
<1>4. \A q \in Needs(Request(n, "whole")) : Backed(t, q)
  BY <1>1, EndsNeed
<1>5. QED  BY <1>3, <1>4, BackedBy

Leaves == {"Literal", "Instant", "Property", "Geometry"}

\* A node whose operands are all backed is backed itself.
LEMMA OperandsBack ==
    ASSUME NEW t, NEW n \in Nodes, NEW p, Supports(t, n), n.kind \notin Leaves,
           n.kind = "Interval" => p = "whole",
           \A j \in 1..Len(Requests(n)) : Backed(t, Requests(n)[j])
    PROVE  Backed(t, Request(n, p))
<1>1. n.args \in Seq(Nodes) /\ (n.kind \in {"Interval", "Temporal"} => Len(n.args) = 2)
  BY FiltersAssumption
<1>2. DOMAIN n.args = 1..Len(n.args) /\ Len(n.args) \in Nat
  BY <1>1
<1>3. Request(n, p).node = n /\ Request(n, "whole").node = n
  BY EndsNeed
<1>4. CASE n.kind = "Interval"
  <2>1. Requests(n) = <<Request(n, "start"), Request(n, "end")>>
    BY <1>4 DEF Requests
  <2>2. 1 \in 1..Len(Requests(n)) /\ 2 \in 1..Len(Requests(n))
    BY <2>1
  <2>3. Backed(t, Request(n, "start")) /\ Backed(t, Request(n, "end"))
    <3>1. Requests(n)[1] = Request(n, "start") /\ Requests(n)[2] = Request(n, "end")
      BY <2>1
    <3>2. Backed(t, Requests(n)[1]) /\ Backed(t, Requests(n)[2])
      BY <2>2
    <3>3. QED  BY <3>1, <3>2
  <2>4. QED  BY <1>4, <2>3, EndsBack
<1>5. CASE n.kind = "Temporal"
  <2>1. Supports(t, Request(n, p).node)
    BY <1>3
  <2> DEFINE a == n.args[1]
             b == n.args[2]
  <2>2. CASE n.op \in {"T_AFTER", "T_METBY"}
    <3>1. Requests(n) = <<Request(a, "start"), Request(b, "end")>>
      BY <1>5, <2>2 DEF Requests
    <3>2. Needs(Request(n, p)) = {Request(a, "start"), Request(b, "end")}
      BY <1>3, <1>5, <2>2 DEF Needs
    <3> HIDE DEF a, b
    <3>3. 1 \in 1..Len(Requests(n)) /\ 2 \in 1..Len(Requests(n))
      BY <3>1
    <3>4. Requests(n)[1] = Request(a, "start") /\ Requests(n)[2] = Request(b, "end")
      BY <3>1
    <3>5. \A q \in Needs(Request(n, p)) : q = Requests(n)[1] \/ q = Requests(n)[2]
      BY <3>2, <3>4
    <3>6. \A q \in Needs(Request(n, p)) : Backed(t, q)
      BY <3>3, <3>5
    <3>7. QED  BY <2>1, <3>6, BackedBy
  <2>3. CASE n.op \in {"T_BEFORE", "T_MEETS"}
    <3>1. Requests(n) = <<Request(a, "end"), Request(b, "start")>>
      BY <1>5, <2>3 DEF Requests
    <3>2. Needs(Request(n, p)) = {Request(a, "end"), Request(b, "start")}
      BY <1>3, <1>5, <2>3 DEF Needs
    <3> HIDE DEF a, b
    <3>3. 1 \in 1..Len(Requests(n)) /\ 2 \in 1..Len(Requests(n))
      BY <3>1
    <3>4. Requests(n)[1] = Request(a, "end") /\ Requests(n)[2] = Request(b, "start")
      BY <3>1
    <3>5. \A q \in Needs(Request(n, p)) : q = Requests(n)[1] \/ q = Requests(n)[2]
      BY <3>2, <3>4
    <3>6. \A q \in Needs(Request(n, p)) : Backed(t, q)
      BY <3>3, <3>5
    <3>7. QED  BY <2>1, <3>6, BackedBy
  <2>4. CASE n.op \notin {"T_AFTER", "T_METBY", "T_BEFORE", "T_MEETS"}
    <3>1. Requests(n) = <<Request(a, "start"), Request(a, "end"), Request(b, "start"), Request(b, "end")>>
      BY <1>5, <2>4 DEF Requests
    <3>2. Needs(Request(n, p)) = {Request(n.args[i], "whole") : i \in DOMAIN n.args}
      BY <1>3, <1>5, <2>4 DEF Needs
    <3>3. DOMAIN n.args = {1, 2}
      <4>1. Len(n.args) = 2 /\ 1..2 = {1, 2}
        BY <1>1, <1>5
      <4>2. QED  BY <1>2, <4>1
    <3>4. Needs(Request(n, p)) = {Request(a, "whole"), Request(b, "whole")}
      BY <3>2, <3>3
    <3> HIDE DEF a, b
    <3>5. \A j \in 1..4 : Backed(t, Requests(n)[j])
      <4>1. Len(Requests(n)) = 4
        BY <3>1
      <4>2. QED  BY <4>1
    <3>6. /\ Requests(n)[1] = Request(a, "start") /\ Requests(n)[2] = Request(a, "end")
          /\ Requests(n)[3] = Request(b, "start") /\ Requests(n)[4] = Request(b, "end")
      BY <3>1
    <3>7. /\ Backed(t, Request(a, "start")) /\ Backed(t, Request(a, "end"))
          /\ Backed(t, Request(b, "start")) /\ Backed(t, Request(b, "end"))
      <4>1. 1 \in 1..4 /\ 2 \in 1..4 /\ 3 \in 1..4 /\ 4 \in 1..4
        OBVIOUS
      <4>2. /\ Backed(t, Requests(n)[1]) /\ Backed(t, Requests(n)[2])
            /\ Backed(t, Requests(n)[3]) /\ Backed(t, Requests(n)[4])
        BY <3>5, <4>1
      <4>3. QED  BY <3>6, <4>2
    <3>8. Backed(t, Request(a, "whole")) /\ Backed(t, Request(b, "whole"))
      BY <3>7, EndsBack
    <3>9. \A q \in Needs(Request(n, p)) : Backed(t, q)
      BY <3>4, <3>8
    <3>10. QED  BY <2>1, <3>9, BackedBy
  <2>5. QED  BY <2>2, <2>3, <2>4
<1>6. CASE n.kind \notin {"Interval", "Temporal"}
  <2>1. Requests(n) = [i \in DOMAIN n.args |-> Request(n.args[i], "whole")]
    BY <1>6 DEF Requests
  <2>2. Len(Requests(n)) = Len(n.args)
    BY <1>6, RequestsLength
  <2>3. Needs(Request(n, p)) = {Request(n.args[i], "whole") : i \in DOMAIN n.args}
    BY <1>3, <1>6 DEF Needs, Leaves
  <2>4. \A i \in DOMAIN n.args : Backed(t, Request(n.args[i], "whole"))
    BY <1>2, <2>1, <2>2
  <2>5. \A q \in Needs(Request(n, p)) : Backed(t, q)
    BY <2>3, <2>4
  <2>6. Supports(t, Request(n, p).node)
    BY <1>3
  <2>7. QED  BY <2>5, <2>6, BackedBy
<1>7. QED  BY <1>4, <1>5, <1>6

-----------------------------------------------------------------------------
(* The walk.  Every node rendered is needed, and what is returned backs    *)
(* what was asked for.                                                     *)

\* Rendering part p of node n answers request r: an end of an interval is
\* answered by the node that stands there.
Serves(r, n, p) ==
    \/ r = Request(n, p)
    \/ /\ r.node.kind = "Interval" /\ r.part \in {"start", "end"} /\ p = "whole"
       /\ n = r.node.args[IF r.part = "start" THEN 1 ELSE 2]

InNeed(f, n, p) ==
    \E q \in Needed(f) : q.node = n /\ Needs(Request(n, p)) \subseteq Needs(q)

\* What the i frames at the bottom of a stack wait for.
Asked(f, st, i) ==
    IF i = 0 THEN Request(f, "whole") ELSE Requests(st[i].node)[Len(st[i].done) + 1]

\* A frame that was pushed to answer r.
FrameSupported(t, f, r, fr) ==
    /\ fr.node.kind \notin Leaves /\ Supports(t, fr.node) /\ InNeed(f, fr.node, "whole")
    /\ \E p : Serves(r, fr.node, p) /\ (fr.node.kind = "Interval" => p = "whole")
    /\ \A j \in 1..Len(fr.done) : Backed(t, Requests(fr.node)[j])
    /\ \A j \in 1..Len(fr.todo) : fr.todo[j] = Requests(fr.node)[Len(fr.done) + 1 + j]

StackSupported(t, f, st) ==
    \A i \in 1..Len(st) : FrameSupported(t, f, Asked(f, st, i - 1), st[i])

Ways == {"whole", "start", "end"}

\* The inductive invariant.
SupportInv ==
    /\ filter \in Filters /\ StackSupported(target, filter, stack)
    /\ mode = "render" =>
         /\ Serves(Asked(filter, stack, Len(stack)), node, part)
         /\ InNeed(filter, node, part) /\ part \in Ways
    /\ mode = "return" => Backed(target, Asked(filter, stack, Len(stack)))
    /\ mode = "compiled" => Backed(target, Request(filter, "whole"))
    /\ mode = "failed" => \E r \in Needed(filter) : ~Supports(target, r.node)

LEMMA ServingBacks ==
    ASSUME NEW t, NEW r, NEW n, NEW p, Serves(r, n, p), Backed(t, Request(n, p))
    PROVE  Backed(t, r)
<1>1. CASE r = Request(n, p)
  BY <1>1
<1>2. CASE r # Request(n, p)
  <2> DEFINE e == IF r.part = "start" THEN 1 ELSE 2
  <2>1. r.node.kind = "Interval" /\ r.part \in {"start", "end"} /\ p = "whole" /\ n = r.node.args[e]
    BY <1>2 DEF Serves
  <2>2. EndsOf(r.part) = {e}
    BY <2>1 DEF EndsOf
  <2> HIDE DEF e
  <2>3. Needs(r) = {Request(r.node.args[i], "whole") : i \in EndsOf(r.part)}
    BY <2>1 DEF Needs
  <2>4. \A q \in Needs(r) : q = Request(n, p)
    BY <2>1, <2>2, <2>3
  <2>5. Supports(t, r.node)
    BY <2>1 DEF Supports
  <2>6. \A q \in Needs(r) : Backed(t, q)
    BY <2>4
  <2>7. QED  BY <2>5, <2>6, BackedBy
<1>3. QED  BY <1>1, <1>2

LEMMA RequestsAreRequests ==
    ASSUME NEW n \in Nodes, NEW j \in 1..Len(Requests(n))
    PROVE  \E m, p : Requests(n)[j] = Request(m, p)
<1>1. DOMAIN n.args = 1..Len(n.args) /\ Len(n.args) \in Nat
  <2>1. n.args \in Seq(Nodes)
    BY FiltersAssumption
  <2>2. QED  BY <2>1
<1>2. CASE n.kind = "Interval"
  <2>1. Requests(n) = <<Request(n, "start"), Request(n, "end")>>
    BY <1>2 DEF Requests
  <2>2. j \in {1, 2}
    BY <2>1
  <2>3. QED  BY <2>1, <2>2
<1>3. CASE n.kind = "Temporal"
  <2> DEFINE a == n.args[1]
             b == n.args[2]
  <2>1. \/ Requests(n) = <<Request(a, "start"), Request(b, "end")>>
        \/ Requests(n) = <<Request(a, "end"), Request(b, "start")>>
        \/ Requests(n) = <<Request(a, "start"), Request(a, "end"), Request(b, "start"), Request(b, "end")>>
    BY <1>3 DEF Requests
  <2> HIDE DEF a, b
  <2>2. QED  BY <2>1
<1>4. CASE n.kind \notin {"Interval", "Temporal"}
  <2>1. Requests(n) = [i \in DOMAIN n.args |-> Request(n.args[i], "whole")]
    BY <1>4 DEF Requests
  <2>2. Len(Requests(n)) = Len(n.args)
    BY <1>4, RequestsLength
  <2>3. QED  BY <1>1, <2>1, <2>2
<1>5. QED  BY <1>2, <1>3, <1>4

\* What is rendered for a needed node is needed.
LEMMA RequestsNeeded ==
    ASSUME NEW f \in Filters, NEW n \in Nodes, n.kind \notin Leaves, InNeed(f, n, "whole"),
           NEW j \in 1..Len(Requests(n))
    PROVE  LET r == Requests(n)[j]
           IN  InNeed(f, r.node, r.part) /\ r.part \in Ways
<1> DEFINE r == Requests(n)[j]
<1>1. n.args \in Seq(Nodes) /\ (n.kind \in {"Interval", "Temporal"} => Len(n.args) = 2)
  BY FiltersAssumption
<1>2. DOMAIN n.args = 1..Len(n.args) /\ Len(n.args) \in Nat
  BY <1>1
<1>3. PICK q \in Needed(f) : q.node = n /\ Needs(Request(n, "whole")) \subseteq Needs(q)
  BY DEF InNeed
<1>4. Needs(Request(n, "whole")) \subseteq Needed(f)
  BY <1>3, NeededClosed
<1>5. ASSUME NEW m, NEW p, NEW w, Request(m, w) \in Needed(f), w = p \/ w = "whole"
      PROVE  InNeed(f, m, p)
  <2>1. Needs(Request(m, p)) \subseteq Needs(Request(m, w))
    BY <1>5, EndsNeed
  <2>2. Request(m, w).node = m
    BY EndsNeed
  <2>3. QED  BY <1>5, <2>1, <2>2 DEF InNeed
<1>6. \A m, p : Request(m, p).node = m /\ Request(m, p).part = p
  BY EndsNeed
<1>7. Request(n, "whole").node = n
  BY <1>6
<1>8. SUFFICES ASSUME NEW m, NEW p, r = Request(m, p)
               PROVE  InNeed(f, m, p) /\ p \in Ways
  <2>1. \E m, p : r = Request(m, p)
    BY RequestsAreRequests
  <2>2. QED  BY <1>6, <2>1
<1>9. CASE n.kind = "Interval"
  <2>1. Requests(n) = <<Request(n, "start"), Request(n, "end")>>
    BY <1>9 DEF Requests
  <2>2. r = Request(n, "start") \/ r = Request(n, "end")
    BY <2>1
  <2>3. m = n /\ p \in {"start", "end"}
    BY <1>6, <1>8, <2>2
  <2>4. Needs(Request(n, p)) \subseteq Needs(Request(n, "whole"))
    BY EndsNeed
  <2>5. QED  BY <1>3, <2>3, <2>4 DEF InNeed, Ways
<1>10. CASE n.kind = "Temporal"
  <2> DEFINE a == n.args[1]
             b == n.args[2]
  <2>1. CASE n.op \in {"T_AFTER", "T_METBY"}
    <3>1. Requests(n) = <<Request(a, "start"), Request(b, "end")>>
      BY <1>10, <2>1 DEF Requests
    <3>2. Needs(Request(n, "whole")) = {Request(a, "start"), Request(b, "end")}
      BY <1>7, <1>10, <2>1 DEF Needs
    <3> HIDE DEF a, b
    <3>3. r = Request(a, "start") \/ r = Request(b, "end")
      BY <3>1
    <3>4. r \in Needed(f) /\ r.part \in {"start", "end"}
      BY <1>4, <1>6, <3>2, <3>3
    <3>5. QED  BY <1>5, <1>6, <1>8, <3>4 DEF Ways
  <2>2. CASE n.op \in {"T_BEFORE", "T_MEETS"}
    <3>1. Requests(n) = <<Request(a, "end"), Request(b, "start")>>
      BY <1>10, <2>2 DEF Requests
    <3>2. Needs(Request(n, "whole")) = {Request(a, "end"), Request(b, "start")}
      BY <1>7, <1>10, <2>2 DEF Needs
    <3> HIDE DEF a, b
    <3>3. r = Request(a, "end") \/ r = Request(b, "start")
      BY <3>1
    <3>4. r \in Needed(f) /\ r.part \in {"start", "end"}
      BY <1>4, <1>6, <3>2, <3>3
    <3>5. QED  BY <1>5, <1>6, <1>8, <3>4 DEF Ways
  <2>3. CASE n.op \notin {"T_AFTER", "T_METBY", "T_BEFORE", "T_MEETS"}
    <3>1. Requests(n) = <<Request(a, "start"), Request(a, "end"), Request(b, "start"), Request(b, "end")>>
      BY <1>10, <2>3 DEF Requests
    <3>2. Needs(Request(n, "whole")) = {Request(n.args[i], "whole") : i \in DOMAIN n.args}
      BY <1>7, <1>10, <2>3 DEF Needs
    <3>3. 1 \in DOMAIN n.args /\ 2 \in DOMAIN n.args
      <4>1. Len(n.args) = 2
        BY <1>1, <1>10
      <4>2. QED  BY <1>2, <4>1
    <3>4. Request(a, "whole") \in Needed(f) /\ Request(b, "whole") \in Needed(f)
      BY <1>4, <3>2, <3>3
    <3> HIDE DEF a, b
    <3>5. \/ r = Request(a, "start") \/ r = Request(a, "end")
          \/ r = Request(b, "start") \/ r = Request(b, "end")
      <4>1. j \in {1, 2, 3, 4}
        <5>1. Len(Requests(n)) = 4
          BY <3>1
        <5>2. QED  BY <5>1
      <4>2. QED  BY <3>1, <4>1
    <3>6. m \in {a, b} /\ p \in {"start", "end"}
      BY <1>6, <1>8, <3>5
    <3>7. QED  BY <1>5, <3>4, <3>6 DEF Ways
  <2>4. QED  BY <2>1, <2>2, <2>3
<1>11. CASE n.kind \notin {"Interval", "Temporal"}
  <2>1. Requests(n) = [i \in DOMAIN n.args |-> Request(n.args[i], "whole")]
    BY <1>11 DEF Requests
  <2>2. Len(Requests(n)) = Len(n.args)
    BY <1>11, RequestsLength
  <2>3. Needs(Request(n, "whole")) = {Request(n.args[i], "whole") : i \in DOMAIN n.args}
    BY <1>7, <1>11 DEF Needs, Leaves
  <2>4. r = Request(n.args[j], "whole") /\ r \in Needs(Request(n, "whole"))
    BY <1>2, <2>1, <2>2, <2>3
  <2> HIDE DEF r
  <2>5. m = n.args[j] /\ p = "whole" /\ Request(m, p) \in Needed(f)
    <3>1. r.node = m /\ r.part = p
      BY <1>6, <1>8
    <3>2. r.node = n.args[j] /\ r.part = "whole"
      BY <1>6, <2>4
    <3>3. r \in Needed(f)
      BY <1>4, <2>4
    <3>4. QED  BY <1>8, <3>1, <3>2, <3>3
  <2>6. QED  BY <1>5, <2>5 DEF Ways
<1>12. QED  BY <1>9, <1>10, <1>11

-----------------------------------------------------------------------------
(* The steps of the walk.                                                  *)

Wanted == Asked(filter, stack, Len(stack))

LEMMA SupportedStack ==
    ASSUME SqlInv
    PROVE  IsSeq(stack) /\ Len(stack) \in Nat
<1>1. IsSeq(stack)
  BY DEF SqlInv, StackOK
<1>2. stack \in Seq({stack[i] : i \in DOMAIN stack})
  BY <1>1 DEF IsSeq
<1>3. QED  BY <1>1, <1>2

LEMMA KeepsRendering ==
    ASSUME NEW r, NEW st, SupportInv, Render(r, st), StackSupported(target, filter, st),
           Serves(Asked(filter, st, Len(st)), r.node, r.part),
           InNeed(filter, r.node, r.part), r.part \in Ways
    PROVE  SupportInv'
<1>1. /\ mode' = "render" /\ node' = r.node /\ part' = r.part /\ stack' = st
      /\ filter' = filter /\ target' = target
  BY DEF Render
<1>2. StackSupported(target, filter, stack)'
  BY <1>1
<1>3. QED  BY <1>1, <1>2 DEF SupportInv

LEMMA KeepsReturning ==
    ASSUME NEW f, NEW values, NEW st, SupportInv, Return(f, values, st),
           StackSupported(target, filter, st), Backed(target, Asked(filter, st, Len(st)))
    PROVE  SupportInv'
<1>1. /\ mode' = "return" /\ stack' = st /\ filter' = filter /\ target' = target
  BY DEF Return
<1>2. StackSupported(target, filter, stack)' /\ Backed(target, Wanted)'
  BY <1>1 DEF Wanted
<1>3. QED  BY <1>1, <1>2 DEF SupportInv, Wanted

LEMMA KeepsFailing ==
    ASSUME SupportInv, Fail, mode = "render",
           \E r \in Needed(filter) : ~Supports(target, r.node)
    PROVE  SupportInv'
<1>1. mode' = "failed" /\ UNCHANGED <<stack, filter, target>>
  BY DEF Fail
<1>2. StackSupported(target, filter, stack)'
  BY <1>1 DEF SupportInv
<1>3. QED  BY <1>1, <1>2 DEF SupportInv

LEMMA NodeNeeded ==
    ASSUME SupportInv, mode = "render", ~Supports(target, node)
    PROVE  \E r \in Needed(filter) : ~Supports(target, r.node)
  BY DEF SupportInv, InNeed

\* A node that has SQL of its own.
LEMMA LeafBacks ==
    ASSUME NEW f, NEW values, SupportInv, mode = "render", node.kind \in Leaves,
           Return(f, values, stack), Supports(target, node)
    PROVE  SupportInv'
<1>1. Request(node, part).node = node
  BY EndsNeed
<1>2. Needs(Request(node, part)) = {}
  BY <1>1 DEF Needs, Leaves
<1>3. Supports(target, Request(node, part).node)
  BY <1>1
<1>4. Backed(target, Request(node, part))
  BY <1>2, <1>3, BackedBy
<1>5. Serves(Wanted, node, part) /\ StackSupported(target, filter, stack)
  BY DEF SupportInv, Wanted
<1>6. Backed(target, Wanted)
  BY <1>4, <1>5, ServingBacks
<1>7. QED  BY <1>5, <1>6, KeepsReturning DEF Wanted

LEMMA LiteralBacks == ASSUME SupportInv, RenderLiteral PROVE SupportInv'
<1>1. mode = "render" /\ node.kind = "Literal"
  BY DEF RenderLiteral, Rendering
<1>2. \E f, values : Return(f, values, stack)
  BY DEF RenderLiteral
<1>3. Supports(target, node) /\ node.kind \in Leaves
  BY <1>1 DEF Supports, Leaves
<1>4. QED  BY <1>1, <1>2, <1>3, LeafBacks

LEMMA InstantBacks == ASSUME SupportInv, RenderInstant PROVE SupportInv'
<1>1. mode = "render" /\ node.kind = "Instant"
  BY DEF RenderInstant, Rendering
<1>2. \E f, values : Return(f, values, stack)
  BY DEF RenderInstant
<1>3. Supports(target, node) /\ node.kind \in Leaves
  BY <1>1 DEF Supports, Leaves
<1>4. QED  BY <1>1, <1>2, <1>3, LeafBacks

LEMMA PropertyBacks == ASSUME SupportInv, RenderProperty PROVE SupportInv'
<1>1. mode = "render" /\ node.kind = "Property"
  BY DEF RenderProperty, Rendering
<1>2. Supports(target, node) <=> Resolved(node.op)
  BY <1>1 DEF Supports, Resolved
<1>3. CASE Resolved(node.op)
  <2>1. Return(Column(node.op), << >>, stack)
    BY <1>3 DEF RenderProperty
  <2>2. node.kind \in Leaves
    BY <1>1 DEF Leaves
  <2>3. QED  BY <1>1, <1>2, <1>3, <2>1, <2>2, LeafBacks
<1>4. CASE ~Resolved(node.op)
  <2>1. Fail
    BY <1>4 DEF RenderProperty
  <2>2. QED  BY <1>1, <1>2, <1>4, <2>1, NodeNeeded, KeepsFailing
<1>5. QED  BY <1>3, <1>4

LEMMA GeometryBacks == ASSUME SupportInv, RenderGeometry PROVE SupportInv'
<1>1. mode = "render" /\ node.kind = "Geometry"
  BY DEF RenderGeometry, Rendering
<1>2. Supports(target, node) <=> "Geometry" \in target.predicates /\ node.op # "BBOX6"
  BY <1>1 DEF Supports
<1>3. CASE Supports(target, node)
  <2>1. \E f, values : Return(f, values, stack)
    BY <1>2, <1>3 DEF RenderGeometry
  <2>2. node.kind \in Leaves
    BY <1>1 DEF Leaves
  <2>3. QED  BY <1>1, <1>3, <2>1, <2>2, LeafBacks
<1>4. CASE ~Supports(target, node)
  <2>1. Fail
    BY <1>2, <1>4 DEF RenderGeometry
  <2>2. QED  BY <1>1, <1>4, <2>1, NodeNeeded, KeepsFailing
<1>5. QED  BY <1>3, <1>4

\* The node at an end of an interval is rendered in its place.
LEMMA EndpointBacks == ASSUME SqlInv, SupportInv, RenderEndpoint PROVE SupportInv'
<1> DEFINE e == IF part = "start" THEN 1 ELSE 2
           end == node.args[e]
<1>1. mode = "render" /\ node.kind = "Interval" /\ part \in {"start", "end"}
  BY DEF RenderEndpoint, SupportInv, Ways
<1>2. /\ filter \in Filters /\ StackSupported(target, filter, stack)
      /\ Serves(Wanted, node, part) /\ InNeed(filter, node, part)
  BY <1>1 DEF SupportInv, Wanted
<1>3. Request(node, part).node = node /\ Request(node, part).part = part
  BY EndsNeed
<1>4. EndsOf(part) = {e}
  BY <1>1 DEF EndsOf
<1>5. Needs(Request(node, part)) = {Request(node.args[i], "whole") : i \in EndsOf(part)}
  BY <1>1, <1>3 DEF Needs
<1>6. Request(end, "whole") \in Needs(Request(node, part))
  BY <1>4, <1>5
<1>7. Request(end, "whole") \in Needed(filter)
  <2>1. PICK q \in Needed(filter) : Needs(Request(node, part)) \subseteq Needs(q)
    BY <1>2 DEF InNeed
  <2>2. QED  BY <1>2, <1>6, <2>1, NeededClosed
<1>8. Request(end, "whole").node = end /\ Request(end, "whole").part = "whole"
  BY EndsNeed
<1>9. Wanted = Request(node, part)
  BY <1>1, <1>2 DEF Serves
<1>10. Serves(Wanted, end, "whole")
  BY <1>1, <1>3, <1>9 DEF Serves
<1>11. CASE end.kind = "Unbounded"
  <2>1. Fail
    BY <1>11 DEF RenderEndpoint
  <2>2. ~Supports(target, Request(end, "whole").node)
    BY <1>8, <1>11 DEF Supports
  <2>3. QED  BY <1>1, <1>7, <2>1, <2>2, KeepsFailing
<1>12. CASE end.kind # "Unbounded"
  <2>1. Render(Request(end, "whole"), stack)
    BY <1>12 DEF RenderEndpoint
  <2> HIDE DEF end, e
  <2>2. InNeed(filter, end, "whole")
    BY <1>7, <1>8 DEF InNeed
  <2> DEFINE r == Request(end, "whole")
  <2>3. /\ Serves(Asked(filter, stack, Len(stack)), r.node, r.part)
        /\ InNeed(filter, r.node, r.part) /\ r.part \in Ways
    BY <1>8, <1>10, <2>2 DEF Wanted, Ways
  <2>4. Render(r, stack)
    BY <2>1
  <2> HIDE DEF r
  <2>5. QED  BY <1>2, <2>3, <2>4, KeepsRendering
<1>13. QED  BY <1>11, <1>12

\* What the hooks accept is what has SQL.
LEMMA AcceptsSupported ==
    ASSUME NEW n \in Nodes, n.kind \in Composites
    PROVE  Accepts(n) <=> Supports(target, n)
<1>1. n.args \in Seq(Nodes)
  BY FiltersAssumption
<1>2. Len(n.args) \in Nat /\ (Len(n.args) = 1 => n.args # << >>)
  <2> DEFINE size == Len(n.args)
  <2>1. n.args = << >> => size = 0
    OBVIOUS
  <2>2. size \in Nat
    BY <1>1
  <2> HIDE DEF size
  <2>3. size = 1 => n.args # << >>
    BY <2>1, <2>2
  <2>4. QED  BY <2>2, <2>3 DEF size
<1>3. CASE n.kind = "Function"
  BY <1>3 DEF Accepts, Supports
<1>4. CASE n.kind \in {"Temporal", "ArrayPredicate", "Spatial"}
  BY <1>4 DEF Accepts, Supports
<1>5. CASE n.kind = "Logical"
  BY <1>2, <1>5 DEF Accepts, Supports
<1>6. CASE n.kind = "In"
  BY <1>2, <1>6 DEF Accepts, Supports
<1>7. CASE n.kind \in {"Comparison", "Like", "Between", "IsNull", "Arithmetic", "Interval", "Array", "Unbounded"}
  BY <1>7 DEF Accepts, Supports
<1>8. QED  BY <1>3, <1>4, <1>5, <1>6, <1>7 DEF Composites

\* A frame pushed on a stack, or put in the place of one.
LEMMA PushSupported ==
    ASSUME NEW t, NEW f, NEW st, NEW fr, IsSeq(st), StackSupported(t, f, st),
           FrameSupported(t, f, Asked(f, st, Len(st)), fr)
    PROVE  LET up == Append(st, fr)
           IN  /\ StackSupported(t, f, up)
               /\ Asked(f, up, Len(up)) = Requests(fr.node)[Len(fr.done) + 1]
<1> DEFINE up == Append(st, fr)
           n == Len(st)
<1>1. /\ n \in Nat /\ Len(up) = n + 1
      /\ \A i \in 1..n : up[i] = st[i]
      /\ up[n + 1] = fr
  BY AppendFacts
<1> HIDE DEF up, n
<1>2. \A i \in 0..n : Asked(f, up, i) = Asked(f, st, i)
  BY <1>1 DEF Asked
<1>3. ASSUME NEW i \in 1..Len(up) PROVE FrameSupported(t, f, Asked(f, up, i - 1), up[i])
  <2>1. CASE i = n + 1
    <3>1. i - 1 = n /\ n \in 0..n
      BY <1>1, <2>1
    <3>2. Asked(f, up, i - 1) = Asked(f, st, n)
      BY <1>2, <3>1
    <3>3. QED  BY <1>1, <2>1, <3>2 DEF n
  <2>2. CASE i # n + 1
    <3>1. i \in 1..n /\ i - 1 \in 0..n
      BY <1>1, <2>2
    <3>2. Asked(f, up, i - 1) = Asked(f, st, i - 1) /\ up[i] = st[i]
      BY <1>1, <1>2, <3>1
    <3>3. QED  BY <3>1, <3>2 DEF StackSupported, n
  <2>3. QED  BY <2>1, <2>2
<1>4. Asked(f, up, Len(up)) = Requests(fr.node)[Len(fr.done) + 1]
  BY <1>1 DEF Asked
<1>5. StackSupported(t, f, up)
  BY <1>3 DEF StackSupported
<1>6. QED  BY <1>4, <1>5 DEF up

LEMMA OperandsBacked == ASSUME SqlInv, SupportInv, RenderOperands PROVE SupportInv'
<1> DEFINE requests == Requests(node)
           fr == [node |-> node, todo |-> Tail(requests), done |-> << >>]
<1>1. mode = "render" /\ node.kind \in Composites /\ node \in Nodes
      /\ (node.kind = "Interval" => part = "whole")
  BY DEF RenderOperands, Rendering, SqlInv
<1>2. /\ filter \in Filters /\ StackSupported(target, filter, stack)
      /\ Serves(Wanted, node, part) /\ InNeed(filter, node, part)
  BY <1>1 DEF SupportInv, Wanted
<1>3. IsSeq(stack) /\ Len(stack) \in Nat
  BY SupportedStack
<1>4. Accepts(node) <=> Supports(target, node)
  BY <1>1, AcceptsSupported
<1>5. node.kind \notin Leaves
  BY <1>1 DEF Composites, Leaves
<1>6. CASE ~Accepts(node)
  <2>1. Fail
    BY <1>6 DEF RenderOperands
  <2>2. QED  BY <1>1, <1>4, <1>6, <2>1, NodeNeeded, KeepsFailing
<1>7. CASE Accepts(node) /\ requests = << >>
  <2>1. Return(Template(node, << >>), << >>, stack)
    BY <1>7 DEF RenderOperands
  <2>2. Len(Requests(node)) = 0
    BY <1>7
  <2>3. \A j \in 1..Len(Requests(node)) : Backed(target, Requests(node)[j])
    BY <2>2
  <2>4. Backed(target, Request(node, part))
    BY <1>1, <1>4, <1>5, <1>7, <2>3, OperandsBack
  <2>5. Backed(target, Wanted)
    BY <1>2, <2>4, ServingBacks
  <2>6. QED  BY <1>2, <2>1, <2>5, KeepsReturning DEF Wanted
<1>8. CASE Accepts(node) /\ requests # << >>
  <2>1. Render(requests[1], Append(stack, fr))
    BY <1>8 DEF RenderOperands
  <2>2. IsSeq(requests)
    BY <1>1, RequestsLength
  <2>3. /\ Len(requests) \in Nat \ {0} /\ Len(Tail(requests)) = Len(requests) - 1
        /\ \A i \in 1..Len(requests) - 1 : Tail(requests)[i] = requests[i + 1]
    BY <1>8, <2>2, TailFacts
  <2>4. InNeed(filter, node, "whole")
    <3>1. CASE node.kind = "Interval"
      BY <1>1, <1>2, <3>1
    <3>2. CASE node.kind # "Interval"
      <4>1. Needs(Request(node, part)) = Needs(Request(node, "whole"))
        BY <3>2, EndsNeed
      <4>2. QED  BY <1>2, <4>1 DEF InNeed
    <3>3. QED  BY <3>1, <3>2
  <2>5. InNeed(filter, requests[1].node, requests[1].part) /\ requests[1].part \in Ways
    <3>1. 1 \in 1..Len(Requests(node))
      BY <2>3
    <3>2. QED  BY <1>1, <1>2, <1>5, <2>4, <3>1, RequestsNeeded
  <2>6. Len(<< >>) = 0 /\ 1..Len(<< >>) = {}
    OBVIOUS
  <2>7. fr.node = node /\ fr.done = << >> /\ fr.todo = Tail(requests)
    OBVIOUS
  <2> DEFINE m == Len(requests)
             todo == Tail(requests)
  <2>8. \A j \in 1..Len(todo) : todo[j] = requests[Len(<< >>) + 1 + j]
    <3>1. \A j \in 1..Len(todo) : j \in 1..m - 1
      BY <2>3
    <3>2. \A j \in 1..m - 1 : Len(<< >>) + 1 + j = j + 1
      BY <2>6
    <3>3. QED  BY <2>3, <3>1, <3>2
  <2> HIDE DEF fr
  <2>9. FrameSupported(target, filter, Wanted, fr)
    <3>1. \A j \in 1..Len(fr.done) : Backed(target, Requests(fr.node)[j])
      BY <2>6, <2>7
    <3>2. \E p : Serves(Wanted, fr.node, p) /\ (fr.node.kind = "Interval" => p = "whole")
      BY <1>1, <1>2, <2>7
    <3>3. \A j \in 1..Len(fr.todo) : fr.todo[j] = Requests(fr.node)[Len(fr.done) + 1 + j]
      BY <2>7, <2>8
    <3>4. fr.node.kind \notin Leaves /\ Supports(target, fr.node) /\ InNeed(filter, fr.node, "whole")
      BY <1>4, <1>5, <1>8, <2>4, <2>7
    <3>5. QED  BY <3>1, <3>2, <3>3, <3>4 DEF FrameSupported
  <2> DEFINE up == Append(stack, fr)
  <2>10. StackSupported(target, filter, up) /\ Asked(filter, up, Len(up)) = Requests(fr.node)[Len(fr.done) + 1]
    BY <1>2, <1>3, <2>9, PushSupported DEF Wanted
  <2>11. Asked(filter, up, Len(up)) = requests[1]
    BY <2>6, <2>7, <2>10
  <2>12. Serves(requests[1], requests[1].node, requests[1].part)
    <3>1. PICK k, p : requests[1] = Request(k, p)
      <4>1. 1 \in 1..Len(Requests(node)) /\ node.kind # "Unbounded"
        BY <1>4, <1>8, <2>3 DEF Supports
      <4>2. QED  BY <1>1, <4>1, RequestsAreRequests
    <3>2. requests[1].node = k /\ requests[1].part = p
      BY <3>1, EndsNeed
    <3>3. QED  BY <3>1, <3>2 DEF Serves
  <2> HIDE DEF requests, up
  <2>13. Serves(Asked(filter, up, Len(up)), requests[1].node, requests[1].part)
    BY <2>11, <2>12
  <2> DEFINE r == requests[1]
  <2>14. Render(r, up)
    BY <2>1 DEF up
  <2>15. Serves(Asked(filter, up, Len(up)), r.node, r.part) /\ InNeed(filter, r.node, r.part) /\ r.part \in Ways
    BY <2>5, <2>13
  <2>16. StackSupported(target, filter, up)
    BY <2>10
  <2> HIDE DEF r
  <2>17. QED  BY <2>14, <2>15, <2>16, KeepsRendering
<1>9. QED  BY <1>6, <1>7, <1>8
\* An operand joins the finished ones of the frame on top.
LEMMA JoinBacked == ASSUME SqlInv, SupportInv, OperandRendered PROVE SupportInv'
<1> DEFINE done == Append(Top.done, fragment)
           fr == [node |-> Top.node, todo |-> Tail(Top.todo), done |-> done]
           n == Len(stack) - 1
           asked == Asked(filter, stack, n)
<1>1. mode = "return" /\ stack # << >> /\ IsSeq(stack)
  BY DEF OperandRendered, SqlInv, StackOK
<1>2. /\ filter \in Filters /\ StackSupported(target, filter, stack)
      /\ Backed(target, Asked(filter, stack, Len(stack)))
  BY <1>1 DEF SupportInv
<1>3. /\ IsSeq(Below) /\ Len(stack) \in Nat \ {0} /\ Len(Below) = n
      /\ \A i \in 1..n : Below[i] = stack[i]
  BY <1>1, Popping DEF Below
<1>4. n \in Nat /\ Len(stack) = n + 1 /\ Len(stack) \in 1..Len(stack) /\ Len(stack) # 0
  BY <1>3
<1>5. FrameSupported(target, filter, asked, Top)
  BY <1>2, <1>4 DEF StackSupported, Top
<1>6. Backed(target, Requests(Top.node)[Len(Top.done) + 1])
  BY <1>2, <1>4 DEF Asked, Top
<1>7. FrameOK(Top)
  BY <1>1, <1>4 DEF SqlInv, StackOK, Top
<1>8. /\ Top.node \in Nodes /\ IsSeq(Top.todo) /\ IsSeq(Top.done)
      /\ Len(Top.done) + 1 + Len(Top.todo) = Len(Requests(Top.node))
  BY <1>7 DEF FrameOK, AreFragments
<1>9. /\ Len(Top.done) \in Nat /\ Len(done) = Len(Top.done) + 1
  BY <1>8, AppendFacts
<1> HIDE DEF done, n
<1>10. StackSupported(target, filter, Below) /\ Asked(filter, Below, Len(Below)) = asked
  <2>1. \A i \in 0..n : Asked(filter, Below, i) = Asked(filter, stack, i)
    BY <1>3, <1>4 DEF Asked
  <2>2. ASSUME NEW i \in 1..Len(Below)
        PROVE  FrameSupported(target, filter, Asked(filter, Below, i - 1), Below[i])
    <3>1. i \in 1..n /\ i - 1 \in 0..n /\ i \in 1..Len(stack)
      BY <1>3, <1>4
    <3>2. Below[i] = stack[i] /\ Asked(filter, Below, i - 1) = Asked(filter, stack, i - 1)
      BY <1>3, <2>1, <3>1
    <3>3. FrameSupported(target, filter, Asked(filter, stack, i - 1), stack[i])
      BY <1>2, <3>1 DEF StackSupported
    <3>4. QED  BY <3>2, <3>3
  <2>3. StackSupported(target, filter, Below)
    BY <2>2 DEF StackSupported
  <2>4. n \in 0..n
    BY <1>4
  <2>5. QED  BY <1>3, <2>1, <2>3, <2>4
<1>11. /\ Top.node.kind \notin Leaves /\ Supports(target, Top.node)
       /\ InNeed(filter, Top.node, "whole")
       /\ \E p : Serves(asked, Top.node, p) /\ (Top.node.kind = "Interval" => p = "whole")
  BY <1>5 DEF FrameSupported
<1>12. \A j \in 1..Len(done) : Backed(target, Requests(Top.node)[j])
  <2>1. \A j \in 1..Len(Top.done) : Backed(target, Requests(Top.node)[j])
    BY <1>5 DEF FrameSupported
  <2>2. \A j \in 1..Len(done) : j \in 1..Len(Top.done) \/ j = Len(Top.done) + 1
    BY <1>9
  <2>3. QED  BY <1>6, <2>1, <2>2
<1> HIDE DEF asked
<1>13. CASE Top.todo = << >>
  <2>1. Return(Template(Top.node, done), << >>, Below)
    BY <1>13 DEF OperandRendered, done
  <2>2. Len(done) = Len(Requests(Top.node))
    <3>1. Len(Top.todo) = 0
      BY <1>13
    <3>2. QED  BY <1>8, <1>9, <3>1
  <2>3. \A j \in 1..Len(Requests(Top.node)) : Backed(target, Requests(Top.node)[j])
    BY <1>12, <2>2
  <2>4. PICK p : Serves(asked, Top.node, p) /\ (Top.node.kind = "Interval" => p = "whole")
    BY <1>11
  <2>5. Backed(target, Request(Top.node, p))
    BY <1>8, <1>11, <2>3, <2>4, OperandsBack
  <2>6. Backed(target, asked)
    BY <2>4, <2>5, ServingBacks
  <2>7. QED  BY <1>10, <2>1, <2>6, KeepsReturning
<1>14. CASE Top.todo # << >>
  <2>1. Render(Top.todo[1], Append(Below, fr))
    BY <1>14 DEF OperandRendered, done
  <2>2. /\ Len(Top.todo) \in Nat \ {0} /\ Len(Tail(Top.todo)) = Len(Top.todo) - 1
        /\ \A i \in 1..Len(Top.todo) - 1 : Tail(Top.todo)[i] = Top.todo[i + 1]
    BY <1>8, <1>14, TailFacts
  <2>3. \A j \in 1..Len(Top.todo) : Top.todo[j] = Requests(Top.node)[Len(Top.done) + 1 + j]
    BY <1>5 DEF FrameSupported
  <2>4. fr.node = Top.node /\ fr.done = done /\ fr.todo = Tail(Top.todo)
    OBVIOUS
  <2>5. \A j \in 1..Len(Tail(Top.todo)) : Tail(Top.todo)[j] = Requests(Top.node)[Len(done) + 1 + j]
    <3> SUFFICES ASSUME NEW j \in 1..Len(Tail(Top.todo))
                 PROVE  Tail(Top.todo)[j] = Requests(Top.node)[Len(done) + 1 + j]
      OBVIOUS
    <3>1. /\ j \in 1..Len(Top.todo) - 1 /\ j + 1 \in 1..Len(Top.todo)
          /\ Len(Top.done) + 1 + (j + 1) = Len(done) + 1 + j
      <4>1. Len(Top.todo) \in Nat /\ Len(Tail(Top.todo)) = Len(Top.todo) - 1
        BY <2>2
      <4>2. j \in 1..Len(Tail(Top.todo))
        OBVIOUS
      <4> DEFINE l == Len(Top.todo)
                 m == Len(Tail(Top.todo))
                 d == Len(Top.done)
                 e == Len(done)
      <4>3. l \in Nat /\ m = l - 1 /\ d \in Nat /\ e = d + 1 /\ j \in 1..m
        BY <1>9, <4>1, <4>2
      <4> HIDE DEF l, m, d, e
      <4>4. j \in 1..l - 1 /\ j + 1 \in 1..l /\ d + 1 + (j + 1) = e + 1 + j
        BY ONLY <4>3, PlacesMove
      <4>5. QED  BY <4>4 DEF l, d, e
    <3>2. Tail(Top.todo)[j] = Top.todo[j + 1]
      BY ONLY <2>2, <3>1
    <3>3. Top.todo[j + 1] = Requests(Top.node)[Len(Top.done) + 1 + (j + 1)]
      BY ONLY <2>3, <3>1
    <3>4. QED  BY ONLY <3>1, <3>2, <3>3
  <2> HIDE DEF fr
  <2>6. FrameSupported(target, filter, asked, fr)
    BY <1>11, <1>12, <2>4, <2>5 DEF FrameSupported
  <2> DEFINE up == Append(Below, fr)
             r == Top.todo[1]
  <2>7. StackSupported(target, filter, up) /\ Asked(filter, up, Len(up)) = Requests(fr.node)[Len(fr.done) + 1]
    BY <1>3, <1>10, <2>6, PushSupported
  <2>8. r = Requests(Top.node)[Len(done) + 1]
    <3>1. 1 \in 1..Len(Top.todo) /\ Len(Top.done) + 1 + 1 = Len(done) + 1
      BY <1>9, <2>2
    <3>2. QED  BY <2>3, <3>1
  <2>9. Len(done) + 1 \in 1..Len(Requests(Top.node))
    <3> DEFINE x == Len(done)
               d == Len(Top.done)
               t == Len(Top.todo)
               m == Len(Requests(Top.node))
    <3>1. d \in Nat /\ x = d + 1 /\ d + 1 + t = m /\ t \in Nat \ {0}
      BY <1>8, <1>9, <2>2
    <3> HIDE DEF x, d, t, m
    <3>2. x + 1 \in 1..m
      BY <3>1
    <3>3. QED  BY <3>2 DEF x, m
  <2>10. InNeed(filter, r.node, r.part) /\ r.part \in Ways
    BY <1>2, <1>8, <1>11, <2>8, <2>9, RequestsNeeded
  <2>11. Serves(r, r.node, r.part)
    <3>1. PICK k, p : r = Request(k, p)
      BY <1>8, <2>8, <2>9, RequestsAreRequests
    <3>2. r.node = k /\ r.part = p
      BY <3>1, EndsNeed
    <3>3. QED  BY <3>1, <3>2 DEF Serves
  <2>12. Asked(filter, up, Len(up)) = r
    BY <2>4, <2>7, <2>8
  <2>13. Render(r, up)
    BY <2>1
  <2> HIDE DEF r, up
  <2>14. Serves(Asked(filter, up, Len(up)), r.node, r.part)
    BY <2>11, <2>12
  <2>15. StackSupported(target, filter, up)
    BY <2>7
  <2>16. QED  BY <2>10, <2>13, <2>14, <2>15, KeepsRendering
<1>15. QED  BY <1>13, <1>14

LEMMA FinishBacked == ASSUME SupportInv, Finish PROVE SupportInv'
<1>1. mode = "return" /\ stack = << >> /\ mode' = "compiled" /\ UNCHANGED <<filter, target, stack>>
  BY DEF Finish
<1>2. StackSupported(target, filter, stack)'
  BY <1>1 DEF SupportInv
<1>3. Len(stack) = 0
  BY <1>1
<1>4. Backed(target, Request(filter, "whole"))
  BY <1>1, <1>3 DEF SupportInv, Asked
<1>5. QED  BY <1>1, <1>2, <1>4 DEF SupportInv

LEMMA StutterBacked == ASSUME SupportInv, UNCHANGED vars PROVE SupportInv'
<1>1. UNCHANGED <<filter, target, mode, node, part, stack>>
  BY DEF vars
<1>2. StackSupported(target, filter, stack)'
  BY <1>1 DEF SupportInv
<1>3. QED  BY <1>1, <1>2 DEF SupportInv

LEMMA InitiallySupported == ASSUME Init PROVE SupportInv
<1>1. /\ filter \in Filters /\ mode = "render" /\ node = filter /\ part = "whole" /\ stack = << >>
  BY DEF Init
<1>2. Len(stack) = 0
  BY <1>1
<1>3. StackSupported(target, filter, stack)
  BY <1>2 DEF StackSupported
<1>4. Asked(filter, stack, Len(stack)) = Request(filter, "whole")
  BY <1>2 DEF Asked
<1>5. Serves(Asked(filter, stack, Len(stack)), node, part)
  BY <1>1, <1>4 DEF Serves
<1>6. InNeed(filter, node, part)
  <2>1. Request(filter, "whole") \in Needed(filter) /\ Request(filter, "whole").node = filter
    BY <1>1, NeededClosed, EndsNeed
  <2>2. QED  BY <1>1, <2>1 DEF InNeed
<1>7. QED  BY <1>1, <1>3, <1>5, <1>6 DEF SupportInv, Ways

LEMMA StepsKeepSupport == SqlInv /\ SupportInv /\ [Next]_vars => SupportInv'
<1> SUFFICES ASSUME SqlInv, SupportInv, [Next]_vars PROVE SupportInv'
  OBVIOUS
<1>1. CASE RenderLiteral    BY <1>1, LiteralBacks
<1>2. CASE RenderInstant    BY <1>2, InstantBacks
<1>3. CASE RenderProperty   BY <1>3, PropertyBacks
<1>4. CASE RenderGeometry   BY <1>4, GeometryBacks
<1>5. CASE RenderEndpoint   BY <1>5, EndpointBacks
<1>6. CASE RenderOperands   BY <1>6, OperandsBacked
<1>7. CASE OperandRendered  BY <1>7, JoinBacked
<1>8. CASE Finish           BY <1>8, FinishBacked
<1>9. CASE Terminated       BY <1>9, StutterBacked DEF Terminated
<1>10. CASE UNCHANGED vars  BY <1>10, StutterBacked
<1>11. QED
  BY <1>1, <1>2, <1>3, <1>4, <1>5, <1>6, <1>7, <1>8, <1>9, <1>10 DEF Next, Step

\* ToSQL fails closed, and only then: for every filter, dialect and mapping,
\* a condition is returned exactly when every node it needs has SQL.
THEOREM FailsClosed == Spec => []CompiledIffSupported
<1>1. Init => SqlInv /\ SupportInv
  BY Initially, InitiallySupported
<1>2. SupportInv => CompiledIffSupported
  <2> SUFFICES ASSUME SupportInv PROVE CompiledIffSupported
    OBVIOUS
  <2>1. ASSUME mode = "compiled" PROVE \A r \in Needed(filter) : Supports(target, r.node)
    <3>1. PICK S : Request(filter, "whole") \in S /\ Backs(target, S)
      BY <2>1 DEF SupportInv, Backed
    <3>2. \A r \in S : Supports(target, r.node) /\ Needs(r) \subseteq S
      BY <3>1 DEF Backs
    <3>3. Needed(filter) \subseteq S
      BY <3>1, <3>2, NeededLeast
    <3>4. QED  BY <3>2, <3>3
  <2>2. QED  BY <2>1 DEF CompiledIffSupported, SupportInv
<1>3. QED  BY <1>1, <1>2, StepsKeepSqlInv, StepsKeepSupport, PTL DEF Spec
=============================================================================
