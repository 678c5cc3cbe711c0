-------------------------- MODULE SqlMeaning_proofs --------------------------
(***************************************************************************)
(* The SQL selects the rows the filter describes, for every set of syntax  *)
(* trees, every dialect and mapping, and every table.                      *)
(***************************************************************************)
EXTENDS SqlMeaning, SqlCompiler_proofs

-----------------------------------------------------------------------------
(* Syntax trees and fragments, level by level.                             *)

\* The trees, or the fragments, one level above those in S.
Above(sort, S) ==
    IF sort = "tree"
    THEN [kind : STRING, op : STRING, types : SUBSET STRING, args : Seq(S),
          src : Seq(Nat), refs : BOOLEAN]
    ELSE [sql : Texts, name : Texts, parts : Seq(S), arg : Nat, holes : Seq(Nat)]

\* g holds the levels 0 to n.
Piled(sort, n, g) == g = [k \in 0..n |-> IF k = 0 THEN {} ELSE Above(sort, g[k - 1])]

Stands(sort, n, g) ==
    /\ g[0] = {}
    /\ \A k \in Nat : k + 1 <= n => g[k + 1] = Above(sort, g[k])

LEMMA PiledStands ==
    ASSUME NEW sort, NEW n \in Nat, NEW g, Piled(sort, n, g)
    PROVE  Stands(sort, n, g)
<1>1. \A k \in 0..n : g[k] = IF k = 0 THEN {} ELSE Above(sort, g[k - 1])
  BY DEF Piled
<1>2. \A k \in 0..n : k # 0 => g[k] = Above(sort, g[k - 1])
  BY <1>1
<1>3. \A k \in Nat : k + 1 <= n => k + 1 \in 0..n /\ k + 1 # 0 /\ (k + 1) - 1 = k
  OBVIOUS
<1>4. QED  BY <1>1, <1>2, <1>3 DEF Stands

LEMMA PiledExists == ASSUME NEW sort PROVE \A n \in Nat : \E g : Piled(sort, n, g)
<1> DEFINE S == {n \in Nat : \E g : Piled(sort, n, g)}
<1>1. 0 \in S
  <2>1. Piled(sort, 0, [k \in 0..0 |-> {}])
    BY DEF Piled
  <2>2. QED  BY <2>1
<1>2. ASSUME NEW n \in Nat, n \in S PROVE n + 1 \in S
  <2>1. PICK g : Piled(sort, n, g)
    BY <1>2
  <2> DEFINE h == [k \in 0..n + 1 |-> IF k = n + 1 THEN Above(sort, g[n]) ELSE g[k]]
  <2>2. /\ g[0] = {}
        /\ \A k \in 0..n : k # 0 => g[k] = Above(sort, g[k - 1])
    <3>1. Stands(sort, n, g)
      BY <2>1, PiledStands
    <3>2. \A k \in 0..n : k # 0 => k - 1 \in Nat /\ (k - 1) + 1 = k /\ k <= n
      OBVIOUS
    <3>3. QED  BY ONLY <3>1, <3>2 DEF Stands
  <2>3. ASSUME NEW k \in 0..n + 1 PROVE h[k] = IF k = 0 THEN {} ELSE Above(sort, h[k - 1])
    <3>1. CASE k = 0
      BY <2>2, <3>1
    <3>2. CASE k = n + 1
      <4>1. h[k] = Above(sort, g[n])
        BY <3>2
      <4>2. k - 1 = n /\ n \in 0..n + 1 /\ n # n + 1 /\ k # 0
        BY <3>2
      <4>3. h[n] = g[n]
        BY <4>2
      <4>4. QED  BY <4>1, <4>2, <4>3
    <3>3. CASE k # 0 /\ k # n + 1
      <4>1. k \in 0..n /\ k - 1 \in 0..n + 1 /\ k - 1 # n + 1
        BY <3>3
      <4>2. h[k] = g[k] /\ h[k - 1] = g[k - 1]
        BY <3>3, <4>1
      <4>3. QED  BY <2>2, <3>3, <4>1, <4>2
    <3>4. QED  BY <3>1, <3>2, <3>3
  <2>4. h = [k \in 0..n + 1 |-> IF k = 0 THEN {} ELSE Above(sort, h[k - 1])]
    BY <2>3
  <2>5. Piled(sort, n + 1, h)
    BY ONLY <2>4 DEF Piled
  <2>6. QED  BY <2>5
<1>3. Nat \subseteq S
  <2> HIDE DEF S
  <2>1. QED  BY <1>1, <1>2, SetInduction
<1>4. QED  BY <1>3

\* Two of them agree where both are defined.
LEMMA PiledUnique ==
    ASSUME NEW sort
    PROVE  \A k \in Nat : \A n, m \in Nat : \A g, h :
              Piled(sort, n, g) /\ Piled(sort, m, h) /\ k <= n /\ k <= m => g[k] = h[k]
<1> DEFINE Agree(k) == \A n, m \in Nat : \A g, h :
              Piled(sort, n, g) /\ Piled(sort, m, h) /\ k <= n /\ k <= m => g[k] = h[k]
           S == {k \in Nat : Agree(k)}
<1>1. 0 \in S
  <2>1. Agree(0)  BY PiledStands DEF Stands
  <2>2. QED  BY <2>1
<1>2. ASSUME NEW k \in Nat, k \in S PROVE k + 1 \in S
  <2>1. Agree(k + 1)
    <3> SUFFICES ASSUME NEW n \in Nat, NEW m \in Nat, NEW g, NEW h,
                        Piled(sort, n, g), Piled(sort, m, h), k + 1 <= n, k + 1 <= m
                 PROVE  g[k + 1] = h[k + 1]
      OBVIOUS
    <3>1. k <= n /\ k <= m
      OBVIOUS
    <3>2. g[k] = h[k]
      BY <1>2, <3>1
    <3>3. Stands(sort, n, g) /\ Stands(sort, m, h)
      BY PiledStands
    <3>4. g[k + 1] = Above(sort, g[k]) /\ h[k + 1] = Above(sort, h[k])
      BY <3>3 DEF Stands
    <3>5. QED  BY <3>2, <3>4
  <2>2. QED  BY <2>1
<1>3. Nat \subseteq S
  <2> HIDE DEF S
  <2>1. QED  BY <1>1, <1>2, SetInduction
<1>4. QED  BY <1>3

LEMMA PilesExist ==
    ASSUME NEW sort
    PROVE  \E F : F = [k \in Nat |-> IF k = 0 THEN {} ELSE Above(sort, F[k - 1])]
<1> DEFINE G(k) == CHOOSE g : Piled(sort, k, g)
           F == [k \in Nat |-> G(k)[k]]
<1>1. \A k \in Nat : Piled(sort, k, G(k))
  BY PiledExists
<1>2. \A k \in Nat : G(k)[0] = {}
  BY <1>1, PiledStands DEF Stands
<1> HIDE DEF G
<1>3. ASSUME NEW k \in Nat
      PROVE  F[k] = IF k = 0 THEN {} ELSE Above(sort, F[k - 1])
  <2>1. F[k] = G(k)[k]
    OBVIOUS
  <2>2. CASE k = 0
    BY <1>2, <2>1, <2>2
  <2>3. CASE k # 0
    <3>1. k - 1 \in Nat /\ k - 1 <= k /\ k \in 0..k
      BY <2>3
    <3>2. F[k - 1] = G(k - 1)[k - 1]
      BY <3>1
    <3>3. G(k)[k - 1] = G(k - 1)[k - 1]
      BY <1>1, <3>1, PiledUnique
    <3>4. G(k)[k] = Above(sort, G(k)[k - 1])
      <4>1. Stands(sort, k, G(k))
        BY <1>1, PiledStands
      <4>2. (k - 1) + 1 = k
        OBVIOUS
      <4>3. QED  BY <3>1, <4>1, <4>2 DEF Stands
    <3>5. QED  BY <2>1, <2>3, <3>2, <3>3, <3>4
  <2>4. QED  BY <2>2, <2>3
<1>4. F = [k \in Nat |-> F[k]]
  OBVIOUS
<1> HIDE DEF F
<1>5. F = [k \in Nat |-> IF k = 0 THEN {} ELSE Above(sort, F[k - 1])]
  BY <1>3, <1>4
<1>6. QED  BY <1>5

LEMMA LevelsStand ==
    /\ TreesWithin[0] = {} /\ \A k \in Nat : TreesWithin[k + 1] = Above("tree", TreesWithin[k])
    /\ FragmentsWithin[0] = {}
    /\ \A k \in Nat : FragmentsWithin[k + 1] = Above("fragment", FragmentsWithin[k])
<1> DEFINE Trunk(S) == [kind : STRING, op : STRING, types : SUBSET STRING, args : Seq(S),
                        src : Seq(Nat), refs : BOOLEAN]
           Text(S)  == [sql : Texts, name : Texts, parts : Seq(S), arg : Nat, holes : Seq(Nat)]
           IsTree(F) == F = [k \in Nat |-> IF k = 0 THEN {} ELSE Trunk(F[k - 1])]
           IsText(F) == F = [k \in Nat |-> IF k = 0 THEN {} ELSE Text(F[k - 1])]
<1>1. TreesWithin = CHOOSE F : IsTree(F)
  BY DEF TreesWithin
<1>2. FragmentsWithin = CHOOSE F : IsText(F)
  BY DEF FragmentsWithin
<1>3. \A S : Above("tree", S) = Trunk(S) /\ Above("fragment", S) = Text(S)
  BY DEF Above
<1> HIDE DEF Trunk, Text
<1>4. \E F : IsTree(F)
  <2>1. PICK F : F = [k \in Nat |-> IF k = 0 THEN {} ELSE Above("tree", F[k - 1])]
    BY PilesExist
  <2>2. QED  BY <1>3, <2>1
<1>5. \E F : IsText(F)
  <2>1. PICK F : F = [k \in Nat |-> IF k = 0 THEN {} ELSE Above("fragment", F[k - 1])]
    BY PilesExist
  <2>2. QED  BY <1>3, <2>1
<1>6. IsTree(TreesWithin) /\ IsText(FragmentsWithin)
  <2> HIDE DEF IsTree, IsText
  <2>1. QED  BY <1>1, <1>2, <1>4, <1>5
<1>7. \A k \in Nat :
         /\ TreesWithin[k] = IF k = 0 THEN {} ELSE Trunk(TreesWithin[k - 1])
         /\ FragmentsWithin[k] = IF k = 0 THEN {} ELSE Text(FragmentsWithin[k - 1])
  BY <1>6
<1>8. \A k \in Nat : k + 1 \in Nat /\ k + 1 # 0 /\ (k + 1) - 1 = k
  OBVIOUS
<1>9. QED  BY <1>3, <1>7, <1>8

LEMMA TreeFacts ==
    ASSUME NEW k, k \in Nat, NEW n, n \in TreesWithin[k + 1]
    PROVE  /\ n.kind \in STRING /\ n.op \in STRING /\ n.types \subseteq STRING
           /\ n.args \in Seq(TreesWithin[k])
           /\ DOMAIN n.args = 1..Len(n.args) /\ Len(n.args) \in Nat
           /\ \A i \in DOMAIN n.args : n.args[i] \in TreesWithin[k]
<1> DEFINE S == TreesWithin[k]
<1>1. TreesWithin[k + 1] = Above("tree", S)
  BY LevelsStand
<1> HIDE DEF S
<1>2. n \in [kind : STRING, op : STRING, types : SUBSET STRING, args : Seq(S),
             src : Seq(Nat), refs : BOOLEAN]
  BY <1>1 DEF Above
<1>3. n.args \in Seq(S)
  BY <1>2
<1>4. QED  BY <1>2, <1>3 DEF S

LEMMA FragmentFacts ==
    ASSUME NEW k, k \in Nat, NEW f, f \in FragmentsWithin[k + 1]
    PROVE  /\ f.holes \in Seq(Nat) /\ f.parts \in Seq(FragmentsWithin[k])
           /\ \A i \in DOMAIN f.parts : f.parts[i] \in FragmentsWithin[k]
<1> DEFINE S == FragmentsWithin[k]
<1>1. FragmentsWithin[k + 1] = Above("fragment", S)
  BY LevelsStand
<1> HIDE DEF S
<1>2. f \in [sql : Texts, name : Texts, parts : Seq(S), arg : Nat, holes : Seq(Nat)]
  BY <1>1 DEF Above
<1>3. f.parts \in Seq(S)
  BY <1>2
<1>4. QED  BY <1>2, <1>3 DEF S

LEMMA FragmentMade ==
    ASSUME NEW k, k \in Nat, NEW sql, sql \in Texts, NEW name, name \in Texts,
           NEW parts, parts \in Seq(FragmentsWithin[k]), NEW arg, arg \in Nat,
           NEW holes, holes \in Seq(Nat)
    PROVE  [sql |-> sql, name |-> name, parts |-> parts, arg |-> arg, holes |-> holes]
             \in FragmentsWithin[k + 1]
<1> DEFINE S == FragmentsWithin[k]
<1>1. FragmentsWithin[k + 1] = Above("fragment", S)
  BY LevelsStand
<1> HIDE DEF S
<1>2. parts \in Seq(S)
  BY DEF S
<1>3. QED  BY <1>1, <1>2 DEF Above

LEMMA AboveGrows ==
    ASSUME NEW sort, NEW S, NEW T, S \subseteq T
    PROVE  Above(sort, S) \subseteq Above(sort, T)
<1>1. Seq(S) \subseteq Seq(T)
  OBVIOUS
<1> DEFINE U == Seq(S)
           V == Seq(T)
<1>2. CASE sort = "tree"
  <2>1. /\ Above(sort, S) = [kind : STRING, op : STRING, types : SUBSET STRING, args : U,
                             src : Seq(Nat), refs : BOOLEAN]
        /\ Above(sort, T) = [kind : STRING, op : STRING, types : SUBSET STRING, args : V,
                             src : Seq(Nat), refs : BOOLEAN]
    BY <1>2 DEF Above
  <2> HIDE DEF U, V
  <2>2. QED  BY <1>1, <2>1 DEF U, V
<1>3. CASE sort # "tree"
  <2>1. /\ Above(sort, S) = [sql : Texts, name : Texts, parts : U, arg : Nat, holes : Seq(Nat)]
        /\ Above(sort, T) = [sql : Texts, name : Texts, parts : V, arg : Nat, holes : Seq(Nat)]
    BY <1>3 DEF Above
  <2> HIDE DEF U, V
  <2>2. QED  BY <1>1, <2>1 DEF U, V
<1>4. QED  BY <1>2, <1>3

\* Every level has the ones below it.
LEMMA LevelsGrow ==
    \A k \in Nat : /\ TreesWithin[k] \subseteq TreesWithin[k + 1]
                   /\ FragmentsWithin[k] \subseteq FragmentsWithin[k + 1]
<1> DEFINE S == {k \in Nat : /\ TreesWithin[k] \subseteq TreesWithin[k + 1]
                             /\ FragmentsWithin[k] \subseteq FragmentsWithin[k + 1]}
<1>1. 0 \in S
  BY LevelsStand
<1>2. ASSUME NEW k \in Nat, k \in S PROVE k + 1 \in S
  <2>1. k + 1 \in Nat
    OBVIOUS
  <2>2. /\ TreesWithin[k + 1] = Above("tree", TreesWithin[k])
        /\ FragmentsWithin[k + 1] = Above("fragment", FragmentsWithin[k])
        /\ TreesWithin[(k + 1) + 1] = Above("tree", TreesWithin[k + 1])
        /\ FragmentsWithin[(k + 1) + 1] = Above("fragment", FragmentsWithin[k + 1])
    BY <2>1, LevelsStand
  <2>3. /\ TreesWithin[k] \subseteq TreesWithin[k + 1]
        /\ FragmentsWithin[k] \subseteq FragmentsWithin[k + 1]
    BY <1>2
  <2>4. /\ TreesWithin[k + 1] \subseteq TreesWithin[(k + 1) + 1]
        /\ FragmentsWithin[k + 1] \subseteq FragmentsWithin[(k + 1) + 1]
    BY <2>2, <2>3, AboveGrows
  <2>5. QED  BY <2>1, <2>4
<1>3. Nat \subseteq S
  <2> HIDE DEF S
  <2>1. QED  BY <1>1, <1>2, SetInduction
<1>4. QED  BY <1>3

LEMMA HigherLevels ==
    ASSUME NEW k, k \in Nat, NEW m, m \in Nat, k <= m
    PROVE  FragmentsWithin[k] \subseteq FragmentsWithin[m]
<1> DEFINE S == {d \in Nat : FragmentsWithin[k] \subseteq FragmentsWithin[k + d]}
<1>1. 0 \in S
  <2>1. k + 0 = k
    OBVIOUS
  <2>2. QED  BY <2>1
<1>2. ASSUME NEW d \in Nat, d \in S PROVE d + 1 \in S
  <2>1. k + d \in Nat /\ k + (d + 1) = (k + d) + 1
    OBVIOUS
  <2>2. FragmentsWithin[k + d] \subseteq FragmentsWithin[(k + d) + 1]
    BY <2>1, LevelsGrow
  <2>3. QED  BY <1>2, <2>1, <2>2
<1>3. Nat \subseteq S
  <2> HIDE DEF S
  <2>1. QED  BY <1>1, <1>2, SetInduction
<1>4. m - k \in Nat /\ k + (m - k) = m
  OBVIOUS
<1>5. m - k \in S
  BY <1>3, <1>4
<1>6. QED  BY <1>4, <1>5

-----------------------------------------------------------------------------
(* The values of fragments, and the meanings of trees.                     *)

Values(e, f) == [i \in DOMAIN f.parts |-> e[f.parts[i]]]

Evaluates(e, S, b, row) == \A f \in S : e[f] = Outcome(f, Values(e, f), b, row)

LEMMA EvaluationExists ==
    ASSUME NEW b, NEW row
    PROVE  \A k \in Nat : \E e : Evaluates(e, FragmentsWithin[k], b, row)
<1> DEFINE S == {k \in Nat : \E e : Evaluates(e, FragmentsWithin[k], b, row)}
<1>1. 0 \in S
  <2>1. FragmentsWithin[0] = {}
    BY LevelsStand
  <2>2. Evaluates({}, FragmentsWithin[0], b, row)
    BY <2>1 DEF Evaluates
  <2>3. QED  BY <2>2
<1>2. ASSUME NEW k \in Nat, k \in S PROVE k + 1 \in S
  <2>1. PICK e : Evaluates(e, FragmentsWithin[k], b, row)
    BY <1>2
  <2> DEFINE h == [f \in FragmentsWithin[k + 1] |-> Outcome(f, Values(e, f), b, row)]
  <2>2. ASSUME NEW f \in FragmentsWithin[k] PROVE h[f] = e[f]
    <3>1. f \in FragmentsWithin[k + 1]
      BY LevelsGrow
    <3>2. QED  BY <2>1, <3>1 DEF Evaluates
  <2>3. ASSUME NEW f \in FragmentsWithin[k + 1] PROVE h[f] = Outcome(f, Values(h, f), b, row)
    <3>1. \A i \in DOMAIN f.parts : f.parts[i] \in FragmentsWithin[k]
      BY FragmentFacts
    <3>2. h[f] = Outcome(f, Values(e, f), b, row)
      OBVIOUS
    <3> HIDE DEF h
    <3>3. Values(h, f) = Values(e, f)
      BY <2>2, <3>1 DEF Values
    <3>4. QED  BY <3>2, <3>3
  <2> HIDE DEF h
  <2>4. Evaluates(h, FragmentsWithin[k + 1], b, row)
    BY <2>3 DEF Evaluates
  <2>5. QED  BY <2>4
<1>3. Nat \subseteq S
  <2> HIDE DEF S
  <2>1. QED  BY <1>1, <1>2, SetInduction
<1>4. QED  BY <1>3

\* How deep the fragments are nested at most.
FragmentLevels == 3 * FilterLevels

LEMMA LevelsAreNatural == FilterLevels \in Nat /\ FragmentLevels \in Nat
<1>1. FilterLevels \in Nat
  BY LevelsAssumption
<1>2. QED  BY <1>1 DEF FragmentLevels

LEMMA EvalEvaluates ==
    ASSUME NEW b, NEW row
    PROVE  \E e : Evaluates(e, Fragments, b, row) /\ \A f : Eval(f, b, row) = e[f]
<1> DEFINE Is(e) == e = [f \in Fragments |-> Outcome(f, [i \in DOMAIN f.parts |-> e[f.parts[i]]], b, row)]
           value == CHOOSE e : Is(e)
<1>1. \A f : Eval(f, b, row) = value[f]
  BY DEF Eval
<1>2. Fragments = FragmentsWithin[FragmentLevels]
  BY DEF Fragments, FragmentLevels
<1>3. PICK e : Evaluates(e, Fragments, b, row)
  BY <1>2, LevelsAreNatural, EvaluationExists
<1> DEFINE h == [f \in Fragments |-> e[f]]
<1>4. ASSUME NEW f \in Fragments PROVE \A i \in DOMAIN f.parts : f.parts[i] \in Fragments
  <2>1. FragmentLevels # 0
    BY <1>2, LevelsStand
  <2>2. FragmentLevels - 1 \in Nat /\ (FragmentLevels - 1) + 1 = FragmentLevels
    BY <2>1, LevelsAreNatural
  <2>3. f \in FragmentsWithin[(FragmentLevels - 1) + 1]
    BY <1>2, <2>2
  <2>4. \A i \in DOMAIN f.parts : f.parts[i] \in FragmentsWithin[FragmentLevels - 1]
    BY <2>2, <2>3, FragmentFacts
  <2>5. FragmentsWithin[FragmentLevels - 1] \subseteq FragmentsWithin[(FragmentLevels - 1) + 1]
    BY <2>2, LevelsGrow
  <2>6. QED  BY <1>2, <2>2, <2>4, <2>5
<1>5. ASSUME NEW f \in Fragments
      PROVE  h[f] = Outcome(f, [i \in DOMAIN f.parts |-> h[f.parts[i]]], b, row)
  <2>1. h[f] = Outcome(f, Values(e, f), b, row)
    BY <1>3 DEF Evaluates
  <2>2. \A i \in DOMAIN f.parts : h[f.parts[i]] = e[f.parts[i]]
    BY <1>4
  <2> HIDE DEF h
  <2>3. [i \in DOMAIN f.parts |-> h[f.parts[i]]] = Values(e, f)
    BY <2>2 DEF Values
  <2>4. QED  BY <2>1, <2>3
<1>6. h = [f \in Fragments |-> h[f]]
  OBVIOUS
<1> HIDE DEF h
<1>7. Is(h)
  BY <1>5, <1>6
<1>8. Is(value)
  <2> HIDE DEF Is
  <2>1. QED  BY <1>7
<1> HIDE DEF value
<1>9. ASSUME NEW f \in Fragments PROVE value[f] = Outcome(f, Values(value, f), b, row)
  <2>1. value[f] = Outcome(f, [i \in DOMAIN f.parts |-> value[f.parts[i]]], b, row)
    BY <1>8
  <2>2. QED  BY <2>1 DEF Values
<1>10. Evaluates(value, Fragments, b, row)
  BY <1>9 DEF Evaluates
<1>11. QED  BY <1>1, <1>10

Meanings(m, n) == [i \in DOMAIN n.args |-> m[n.args[i]]]

Interprets(m, S, row) == \A n \in S : m[n] = MeaningOf(n, Meanings(m, n), row)

LEMMA InterpretationExists ==
    ASSUME NEW row
    PROVE  \A k \in Nat : \E m : Interprets(m, TreesWithin[k], row)
<1> DEFINE S == {k \in Nat : \E m : Interprets(m, TreesWithin[k], row)}
<1>1. 0 \in S
  <2>1. TreesWithin[0] = {}
    BY LevelsStand
  <2>2. Interprets({}, TreesWithin[0], row)
    BY <2>1 DEF Interprets
  <2>3. QED  BY <2>2
<1>2. ASSUME NEW k \in Nat, k \in S PROVE k + 1 \in S
  <2>1. PICK m : Interprets(m, TreesWithin[k], row)
    BY <1>2
  <2> DEFINE h == [n \in TreesWithin[k + 1] |-> MeaningOf(n, Meanings(m, n), row)]
  <2>2. ASSUME NEW n \in TreesWithin[k] PROVE h[n] = m[n]
    <3>1. n \in TreesWithin[k + 1]
      BY LevelsGrow
    <3>2. QED  BY <2>1, <3>1 DEF Interprets
  <2>3. ASSUME NEW n \in TreesWithin[k + 1] PROVE h[n] = MeaningOf(n, Meanings(h, n), row)
    <3>1. \A i \in DOMAIN n.args : n.args[i] \in TreesWithin[k]
      BY TreeFacts
    <3>2. h[n] = MeaningOf(n, Meanings(m, n), row)
      OBVIOUS
    <3> HIDE DEF h
    <3>3. Meanings(h, n) = Meanings(m, n)
      BY <2>2, <3>1 DEF Meanings
    <3>4. QED  BY <3>2, <3>3
  <2> HIDE DEF h
  <2>4. Interprets(h, TreesWithin[k + 1], row)
    BY <2>3 DEF Interprets
  <2>5. QED  BY <2>4
<1>3. Nat \subseteq S
  <2> HIDE DEF S
  <2>1. QED  BY <1>1, <1>2, SetInduction
<1>4. QED  BY <1>3

\* The trees have the trees below them.
LEMMA TreesClosed ==
    ASSUME NEW n, n \in Trees
    PROVE  /\ n.kind \in STRING /\ n.op \in STRING /\ n.types \subseteq STRING
           /\ DOMAIN n.args = 1..Len(n.args) /\ Len(n.args) \in Nat
           /\ \A i \in DOMAIN n.args : n.args[i] \in Trees
<1>1. FilterLevels # 0
  BY LevelsStand DEF Trees
<1>2. FilterLevels - 1 \in Nat /\ (FilterLevels - 1) + 1 = FilterLevels
  BY <1>1, LevelsAreNatural
<1>3. n \in TreesWithin[(FilterLevels - 1) + 1]
  BY <1>2 DEF Trees
<1>4. /\ n.kind \in STRING /\ n.op \in STRING /\ n.types \subseteq STRING
      /\ DOMAIN n.args = 1..Len(n.args) /\ Len(n.args) \in Nat
      /\ \A i \in DOMAIN n.args : n.args[i] \in TreesWithin[FilterLevels - 1]
  BY <1>2, <1>3, TreeFacts
<1>5. TreesWithin[FilterLevels - 1] \subseteq TreesWithin[(FilterLevels - 1) + 1]
  BY <1>2, LevelsGrow
<1>6. QED  BY <1>2, <1>4, <1>5 DEF Trees

\* The meanings of a node's operands.
OperandMeanings(n, row) == [i \in DOMAIN n.args |-> Meaning(n.args[i], row)]

LEMMA MeaningEquation ==
    ASSUME NEW row, NEW n, n \in Trees
    PROVE  Meaning(n, row) = MeaningOf(n, OperandMeanings(n, row), row)
<1> DEFINE Is(m) == m = [t \in Trees |-> MeaningOf(t, [i \in DOMAIN t.args |-> m[t.args[i]]], row)]
           meaning == CHOOSE m : Is(m)
<1>1. \A t : Meaning(t, row) = meaning[t]
  BY DEF Meaning
<1>2. PICK m : Interprets(m, Trees, row)
  BY LevelsAreNatural, InterpretationExists DEF Trees
<1> DEFINE h == [t \in Trees |-> m[t]]
<1>3. ASSUME NEW t \in Trees
      PROVE  h[t] = MeaningOf(t, [i \in DOMAIN t.args |-> h[t.args[i]]], row)
  <2>1. h[t] = MeaningOf(t, Meanings(m, t), row)
    BY <1>2 DEF Interprets
  <2>2. \A i \in DOMAIN t.args : t.args[i] \in Trees
    BY TreesClosed
  <2>3. \A i \in DOMAIN t.args : h[t.args[i]] = m[t.args[i]]
    BY <2>2
  <2> HIDE DEF h
  <2>4. [i \in DOMAIN t.args |-> h[t.args[i]]] = Meanings(m, t)
    BY <2>3 DEF Meanings
  <2>5. QED  BY <2>1, <2>4
<1>4. h = [t \in Trees |-> h[t]]
  OBVIOUS
<1> HIDE DEF h
<1>5. Is(h)
  BY <1>3, <1>4
<1>6. Is(meaning)
  <2> HIDE DEF Is
  <2>1. QED  BY <1>5
<1> HIDE DEF meaning
<1>7. meaning[n] = MeaningOf(n, [i \in DOMAIN n.args |-> meaning[n.args[i]]], row)
  BY <1>6
<1>8. [i \in DOMAIN n.args |-> meaning[n.args[i]]] = OperandMeanings(n, row)
  BY <1>1 DEF OperandMeanings
<1>9. QED  BY <1>1, <1>7, <1>8

-----------------------------------------------------------------------------
(* What meanings are.                                                      *)

\* The operands are k scalars.
Scalars(n, m, k) == Len(n.args) = k /\ Are(m, {"scalar"})

IsBoolean(n) == n.kind = "Literal" /\ n.types = {"boolean"} /\ n.op \in {"TRUE", "FALSE"}
IsNumber(n)  == n.kind = "Literal" /\ n.types \in {{"number"}, {"string"}} /\ n.op \in DOMAIN Numbers
IsInstant(n) == n.kind = "Instant" /\ n.op \in DOMAIN Instants
IsColumn(n, row) == n.kind = "Property" /\ n.op \in DOMAIN row
IsSum(n, m)      == n.kind = "Arithmetic" /\ n.op \in Calculations /\ Scalars(n, m, 2)
IsInterval(n, m) == n.kind = "Interval" /\ Scalars(n, m, 2)

ScalarForm(n, m, row, x) ==
    \/ IsNumber(n) /\ x = Scalar({Numbers[n.op]})
    \/ IsInstant(n) /\ x = Scalar({Instants[n.op].at})
    \/ IsColumn(n, row) /\ x = Scalar(row[n.op])
    \/ IsSum(n, m) /\ x = Scalar(Calculated(n.op, m[1].start, m[2].start))

\* A relation between operands that have ends.
Relates(n, m) == n.kind = "Temporal" /\ n.op \in TemporalOps /\ Are(m, {"scalar", "interval"})

ConditionForm(n, m, x) ==
    \/ IsBoolean(n) /\ x = Condition(n.op = "TRUE")
    \/ /\ n.kind = "Comparison" /\ n.op \in ComparisonSql /\ Scalars(n, m, 2)
       /\ x = Condition(\E y \in m[1].start, z \in m[2].start : Related(n.op, y, z))
    \/ /\ n.kind = "Between" /\ Scalars(n, m, 3)
       /\ x = Condition(Between(n, m[1].start, m[2].start, m[3].start))
    \/ n.kind = "In" /\ Are(m, {"scalar"}) /\ x = Condition(Among(n, m[1].start, m))
    \/ /\ n.kind = "IsNull" /\ Scalars(n, m, 1)
       /\ x = Condition((n.op = "NOT") # (m[1].start = {}))
    \/ /\ Relates(n, m) /\ Proper(m[1]) /\ Proper(m[2])
       /\ x = Condition(Relation(n.op, Covered(m[1]), Covered(m[2])))
    \/ /\ n.kind = "Logical" /\ n.op = "NOT" /\ Are(m, {"condition"})
       /\ x = Condition(m[1].truth = "false")
    \/ /\ n.kind = "Logical" /\ n.op = "AND" /\ Are(m, {"condition"})
       /\ x = Condition(\A i \in DOMAIN m : m[i].truth = "true")
    \/ /\ n.kind = "Logical" /\ n.op = "OR" /\ Are(m, {"condition"})
       /\ x = Condition(\E i \in DOMAIN m : m[i].truth = "true")

\* The meanings there are.
LEMMA MeaningForms ==
    ASSUME NEW n, NEW m, NEW row
    PROVE  LET x == MeaningOf(n, m, row)
           IN  \/ x = Nothing
               \/ ScalarForm(n, m, row, x)
               \/ IsInterval(n, m) /\ x = Interval(m[1].start, m[2].start)
               \/ ConditionForm(n, m, x)
<1> DEFINE x == MeaningOf(n, m, row)
<1>1. CASE n.kind = "Literal"
  BY <1>1 DEF MeaningOf, ScalarForm, ConditionForm, IsBoolean, IsNumber
<1>2. CASE n.kind = "Instant"
  BY <1>2 DEF MeaningOf, ScalarForm, IsInstant
<1>3. CASE n.kind = "Property"
  BY <1>3 DEF MeaningOf, ScalarForm, IsColumn
<1>4. CASE n.kind = "Arithmetic"
  BY <1>4 DEF MeaningOf, ScalarForm, IsSum, Scalars
<1>5. CASE n.kind = "Interval"
  BY <1>5 DEF MeaningOf, IsInterval, Scalars
<1>6. CASE n.kind = "Comparison"
  BY <1>6 DEF MeaningOf, ConditionForm, Scalars
<1>7. CASE n.kind = "Between"
  BY <1>7 DEF MeaningOf, ConditionForm, Scalars
<1>8. CASE n.kind = "In"
  BY <1>8 DEF MeaningOf, ConditionForm
<1>9. CASE n.kind = "IsNull"
  BY <1>9 DEF MeaningOf, ConditionForm, Scalars
<1>10. CASE n.kind = "Temporal"
  BY <1>10 DEF MeaningOf, ConditionForm, Relates
<1>11. CASE n.kind = "Logical"
  BY <1>11 DEF MeaningOf, ConditionForm
<1>12. CASE n.kind \notin {"Literal", "Instant", "Property", "Arithmetic", "Interval", "Comparison",
                          "Between", "In", "IsNull", "Temporal", "Logical"}
  BY <1>12 DEF MeaningOf
<1>13. QED
  BY <1>1, <1>2, <1>3, <1>4, <1>5, <1>6, <1>7, <1>8, <1>9, <1>10, <1>11, <1>12

LEMMA ScalarsMeant ==
    ASSUME NEW n, NEW m, NEW row
    PROVE  LET x == MeaningOf(n, m, row)
           IN  /\ IsNumber(n) => x = Scalar({Numbers[n.op]})
               /\ IsInstant(n) => x = Scalar({Instants[n.op].at})
               /\ IsColumn(n, row) => x = Scalar(row[n.op])
               /\ IsSum(n, m) => x = Scalar(Calculated(n.op, m[1].start, m[2].start))
               /\ IsInterval(n, m) => x = Interval(m[1].start, m[2].start)
<1>1. {"number"} # {"boolean"} /\ {"string"} # {"boolean"}
  OBVIOUS
<1>2. QED
  BY <1>1 DEF MeaningOf, Scalars, IsNumber, IsInstant, IsColumn, IsSum, IsInterval

LEMMA Sorts ==
    /\ \A v : /\ Scalar(v).sort = "scalar" /\ Scalar(v).start = v /\ Scalar(v).end = v
    /\ \A s, e : /\ Interval(s, e).sort = "interval" /\ Interval(s, e).start = s
                 /\ Interval(s, e).end = e
    /\ Nothing.sort = "nothing" /\ Nothing.start = {} /\ Nothing.end = {}
  BY DEF Scalar, Interval, Nothing

LEMMA ConditionSort ==
    ASSUME NEW x, NEW P, P \in BOOLEAN, x = Condition(P)
    PROVE  /\ x.sort = "condition" /\ x.start = {} /\ x.end = {}
           /\ x.truth \in {"true", "false"} /\ (x.truth = "true" <=> P)
  BY DEF Condition, TruthOf

LEMMA RelationHolds ==
    ASSUME NEW op, op \in TemporalOps, NEW A, NEW B
    PROVE  Relation(op, A, B) \in BOOLEAN
<1>1. op \in {"T_AFTER", "T_BEFORE", "T_CONTAINS", "T_DURING", "T_DISJOINT", "T_INTERSECTS", "T_EQUALS",
             "T_STARTS", "T_STARTEDBY", "T_FINISHES", "T_FINISHEDBY", "T_MEETS", "T_METBY",
             "T_OVERLAPS", "T_OVERLAPPEDBY"}
  BY DEF TemporalOps, IntervalOnly
<1>2. QED  BY <1>1 DEF Relation

\* The truth of a condition.
LEMMA ConditionTruth ==
    ASSUME NEW n, NEW m, NEW x, ConditionForm(n, m, x)
    PROVE  /\ x.sort = "condition" /\ x.start = {} /\ x.end = {} /\ x.truth \in {"true", "false"}
<1>1. \E P \in BOOLEAN : x = Condition(P)
  <2>1. CASE IsBoolean(n) /\ x = Condition(n.op = "TRUE")
    BY <2>1
  <2>2. CASE x = Condition(\E y \in m[1].start, z \in m[2].start : Related(n.op, y, z))
    BY <2>2
  <2>3. CASE x = Condition(Between(n, m[1].start, m[2].start, m[3].start))
    BY <2>3 DEF Between
  <2>4. CASE x = Condition(Among(n, m[1].start, m))
    BY <2>4 DEF Among
  <2>5. CASE x = Condition((n.op = "NOT") # (m[1].start = {}))
    BY <2>5
  <2>6. CASE x = Condition(Relation(n.op, Covered(m[1]), Covered(m[2]))) /\ Relates(n, m)
    BY <2>6, RelationHolds DEF Relates
  <2>7. CASE x = Condition(m[1].truth = "false")
    BY <2>7
  <2>8. CASE x = Condition(\A i \in DOMAIN m : m[i].truth = "true")
    BY <2>8
  <2>9. CASE x = Condition(\E i \in DOMAIN m : m[i].truth = "true")
    BY <2>9
  <2>10. QED
    BY <2>1, <2>2, <2>3, <2>4, <2>5, <2>6, <2>7, <2>8, <2>9 DEF ConditionForm
<1>2. QED  BY <1>1, ConditionSort

\* What every tree has when its operands have it.
LEMMA TreeInduction ==
    ASSUME NEW S, \A n \in Trees : (\A i \in DOMAIN n.args : n.args[i] \in S) => n \in S
    PROVE  Trees \subseteq S
<1> DEFINE T == {k \in Nat : TreesWithin[k] \cap Trees \subseteq S}
<1>1. 0 \in T
  BY LevelsStand
<1>2. ASSUME NEW k \in Nat, k \in T PROVE k + 1 \in T
  <2>1. ASSUME NEW n, n \in TreesWithin[k + 1], n \in Trees PROVE n \in S
    <3>1. \A i \in DOMAIN n.args : n.args[i] \in TreesWithin[k]
      BY <2>1, TreeFacts
    <3>2. \A i \in DOMAIN n.args : n.args[i] \in Trees
      BY <2>1, TreesClosed
    <3>3. \A i \in DOMAIN n.args : n.args[i] \in S
      BY <1>2, <3>1, <3>2
    <3>4. QED  BY <2>1, <3>3
  <2>2. QED  BY <2>1
<1>3. Nat \subseteq T
  <2> HIDE DEF T
  <2>1. QED  BY <1>1, <1>2, SetInduction
<1>4. FilterLevels \in T
  BY <1>3, LevelsAreNatural
<1>5. QED  BY <1>4 DEF Trees

\* A scalar is one number, or none.
Known(A) == A \subseteq Int /\ \A x, y \in A : x = y

\* The ends of what a node means.
HasEnds(m) == Known(m.start) /\ Known(m.end)

LEMMA KnownFacts ==
    /\ Known({}) /\ \A x \in Int : Known({x})
    /\ \A A, B : Known(B) /\ A \subseteq B => Known(A)
  BY DEF Known

LEMMA CalculatedKnown ==
    ASSUME NEW op, op \in Calculations, NEW A, NEW B, Known(A), Known(B)
    PROVE  Known(Calculated(op, A, B))
<1>1. CASE op = "+"
  <2>1. Calculated(op, A, B) = {x + y : x \in A, y \in B}
    BY <1>1 DEF Calculated
  <2>2. QED  BY <2>1 DEF Known
<1>2. CASE op = "-"
  <2>1. Calculated(op, A, B) = {x - y : x \in A, y \in B}
    BY <1>2 DEF Calculated
  <2>2. QED  BY <2>1 DEF Known
<1>3. CASE op = "*"
  <2>1. Calculated(op, A, B) = {x * y : x \in A, y \in B}
    BY <1>3 DEF Calculated
  <2>2. \A x \in A, y \in B : x * y \in Int
    BY DEF Known
  <2>3. \A x, u \in A : \A y, v \in B : x * y = u * v
    BY DEF Known
  <2>4. QED  BY <2>1, <2>2, <2>3 DEF Known
<1>4. QED  BY <1>1, <1>2, <1>3 DEF Calculations

LEMMA CalculatedGrows ==
    ASSUME NEW op, op \in Calculations, NEW A, NEW B, NEW C, NEW D, A \subseteq C, B \subseteq D
    PROVE  Calculated(op, A, B) \subseteq Calculated(op, C, D)
<1>1. CASE op = "+"
  BY <1>1 DEF Calculated
<1>2. CASE op = "-"
  BY <1>2 DEF Calculated
<1>3. CASE op = "*"
  <2>1. \A R, Q : Calculated(op, R, Q) = {x * y : x \in R, y \in Q}
    BY <1>3 DEF Calculated
  <2>2. QED  BY <2>1
<1>4. QED  BY <1>1, <1>2, <1>3 DEF Calculations

LEMMA MeaningEnds ==
    ASSUME NEW row, row \in Rows, NEW n, n \in Trees
    PROVE  HasEnds(Meaning(n, row))
<1> DEFINE S == {t \in Trees : HasEnds(Meaning(t, row))}
<1>1. ASSUME NEW t, t \in Trees, \A i \in DOMAIN t.args : t.args[i] \in S PROVE t \in S
  <2> DEFINE m == OperandMeanings(t, row)
             x == MeaningOf(t, m, row)
  <2>1. Meaning(t, row) = x
    BY <1>1, MeaningEquation
  <2>2. \A i \in DOMAIN t.args : m[i] = Meaning(t.args[i], row)
    BY DEF OperandMeanings
  <2>3. \A i \in DOMAIN t.args : HasEnds(m[i])
    BY <1>1, <2>2
  <2>4. DOMAIN t.args = 1..Len(t.args) /\ (Len(t.args) = 2 => 1 \in DOMAIN t.args /\ 2 \in DOMAIN t.args)
    <3>1. DOMAIN t.args = 1..Len(t.args)
      BY <1>1, TreesClosed
    <3>2. Len(t.args) = 2 => DOMAIN t.args = 1..2
      BY <3>1
    <3>3. 1 \in 1..2 /\ 2 \in 1..2
      OBVIOUS
    <3>4. QED  BY <3>1, <3>2, <3>3
  <2>5. Len(t.args) = 2 => Known(m[1].start) /\ Known(m[2].start)
    BY <2>3, <2>4 DEF HasEnds
  <2>6. \/ x = Nothing \/ ScalarForm(t, m, row, x)
        \/ IsInterval(t, m) /\ x = Interval(m[1].start, m[2].start)
        \/ ConditionForm(t, m, x)
    BY MeaningForms
  <2> SUFFICES HasEnds(x)
    BY <1>1, <2>1
  <2> HIDE DEF x, m, S
  <2>7. CASE x = Nothing
    BY <2>7, Sorts, KnownFacts DEF HasEnds
  <2>8. CASE ConditionForm(t, m, x)
    BY <2>8, ConditionTruth, KnownFacts DEF HasEnds
  <2>9. CASE IsInterval(t, m) /\ x = Interval(m[1].start, m[2].start)
    BY <2>5, <2>9, Sorts DEF HasEnds, IsInterval, Scalars
  <2>10. CASE ScalarForm(t, m, row, x)
    <3>1. \A v : x = Scalar(v) /\ Known(v) => HasEnds(x)
      BY Sorts DEF HasEnds
    <3>2. CASE IsNumber(t) /\ x = Scalar({Numbers[t.op]})
      BY <3>1, <3>2, NumbersAssumption, KnownFacts DEF IsNumber
    <3>3. CASE IsInstant(t) /\ x = Scalar({Instants[t.op].at})
      BY <3>1, <3>3, InstantsAssumption, KnownFacts DEF IsInstant
    <3>4. CASE IsColumn(t, row) /\ x = Scalar(row[t.op])
      BY <3>1, <3>4, RowsAssumption DEF IsColumn, Known
    <3>5. CASE IsSum(t, m) /\ x = Scalar(Calculated(t.op, m[1].start, m[2].start))
      BY <2>5, <3>1, <3>5, CalculatedKnown DEF IsSum, Scalars
    <3>6. QED  BY <2>10, <3>2, <3>3, <3>4, <3>5 DEF ScalarForm
  <2>11. QED  BY <2>6, <2>7, <2>8, <2>9, <2>10
<1>2. Trees \subseteq S
  <2> HIDE DEF S
  <2>1. QED  BY <1>1, TreeInduction
<1>3. QED  BY <1>2

\* A value that is missing leaves the sort of a meaning as it is.
Widens(a, b) == a.sort = b.sort /\ a.start \subseteq b.start /\ a.end \subseteq b.end

LEMMA MeaningWidens ==
    ASSUME NEW row, row \in Rows, NEW r, r \in Obscured(row), NEW n, n \in Trees,
           Meaning(n, row).sort \in {"scalar", "interval"}
    PROVE  Widens(Meaning(n, r), Meaning(n, row))
<1> DEFINE Ended(t) == Meaning(t, row).sort \in {"scalar", "interval"}
           S == {t \in Trees : Ended(t) => Widens(Meaning(t, r), Meaning(t, row))}
<1>1. DOMAIN r = DOMAIN row /\ \A c \in DOMAIN row : r[c] \subseteq row[c]
  BY DEF Obscured
<1>2. ASSUME NEW t, t \in Trees, \A i \in DOMAIN t.args : t.args[i] \in S PROVE t \in S
  <2> DEFINE m == OperandMeanings(t, row)
             o == OperandMeanings(t, r)
             x == MeaningOf(t, m, row)
             y == MeaningOf(t, o, r)
  <2>1. Meaning(t, row) = x /\ Meaning(t, r) = y
    BY <1>2, MeaningEquation
  <2>2. \A i \in DOMAIN t.args : m[i] = Meaning(t.args[i], row) /\ o[i] = Meaning(t.args[i], r)
    BY DEF OperandMeanings
  <2>3. DOMAIN m = DOMAIN t.args /\ DOMAIN o = DOMAIN t.args
    BY DEF OperandMeanings
  <2>4. DOMAIN t.args = 1..Len(t.args) /\ (Len(t.args) = 2 => 1 \in DOMAIN t.args /\ 2 \in DOMAIN t.args)
    <3>1. DOMAIN t.args = 1..Len(t.args)
      BY <1>2, TreesClosed
    <3>2. Len(t.args) = 2 => DOMAIN t.args = 1..2
      BY <3>1
    <3>3. 1 \in 1..2 /\ 2 \in 1..2
      OBVIOUS
    <3>4. QED  BY <3>1, <3>2, <3>3
  <2>5. \A i \in DOMAIN t.args : m[i].sort \in {"scalar", "interval"} => Widens(o[i], m[i])
    BY <1>2, <2>2
  <2>6. SUFFICES ASSUME x.sort \in {"scalar", "interval"} PROVE Widens(y, x)
    BY <1>2, <2>1
  <2>7. \/ x = Nothing \/ ScalarForm(t, m, row, x)
        \/ IsInterval(t, m) /\ x = Interval(m[1].start, m[2].start)
        \/ ConditionForm(t, m, x)
    BY MeaningForms
  <2>8. /\ IsNumber(t) => y = Scalar({Numbers[t.op]})
        /\ IsInstant(t) => y = Scalar({Instants[t.op].at})
        /\ IsColumn(t, r) => y = Scalar(r[t.op])
        /\ IsSum(t, o) => y = Scalar(Calculated(t.op, o[1].start, o[2].start))
        /\ IsInterval(t, o) => y = Interval(o[1].start, o[2].start)
    BY ScalarsMeant
  <2> HIDE DEF x, y, m, o, S
  <2>9. x # Nothing /\ ~ConditionForm(t, m, x)
    BY <2>6, Sorts, ConditionTruth
  <2>10. Scalars(t, m, 2) =>
           /\ Scalars(t, o, 2) /\ o[1].start \subseteq m[1].start /\ o[2].start \subseteq m[2].start
    BY <2>3, <2>4, <2>5 DEF Scalars, Are, Widens
  <2>11. \A v, w : x = Scalar(v) /\ y = Scalar(w) /\ w \subseteq v => Widens(y, x)
    BY Sorts DEF Widens
  <2>12. CASE IsInterval(t, m) /\ x = Interval(m[1].start, m[2].start)
    <3>1. IsInterval(t, o) /\ o[1].start \subseteq m[1].start /\ o[2].start \subseteq m[2].start
      BY <2>10, <2>12 DEF IsInterval
    <3>2. y = Interval(o[1].start, o[2].start)
      BY <2>8, <3>1
    <3>3. QED  BY <2>12, <3>1, <3>2, Sorts DEF Widens
  <2>13. CASE IsNumber(t) /\ x = Scalar({Numbers[t.op]})
    BY <2>8, <2>11, <2>13
  <2>14. CASE IsInstant(t) /\ x = Scalar({Instants[t.op].at})
    BY <2>8, <2>11, <2>14
  <2>15. CASE IsColumn(t, row) /\ x = Scalar(row[t.op])
    <3>1. IsColumn(t, r) /\ r[t.op] \subseteq row[t.op]
      BY <1>1, <2>15 DEF IsColumn
    <3>2. QED  BY <2>8, <2>11, <2>15, <3>1
  <2>16. CASE IsSum(t, m) /\ x = Scalar(Calculated(t.op, m[1].start, m[2].start))
    <3>1. /\ IsSum(t, o) /\ t.op \in Calculations
          /\ o[1].start \subseteq m[1].start /\ o[2].start \subseteq m[2].start
      BY <2>10, <2>16 DEF IsSum
    <3>2. Calculated(t.op, o[1].start, o[2].start) \subseteq Calculated(t.op, m[1].start, m[2].start)
      BY <3>1, CalculatedGrows
    <3>3. y = Scalar(Calculated(t.op, o[1].start, o[2].start))
      BY <2>8, <3>1
    <3>4. QED  BY <2>11, <2>16, <3>2, <3>3
  <2>17. QED  BY <2>7, <2>9, <2>12, <2>13, <2>14, <2>15, <2>16 DEF ScalarForm
<1>3. Trees \subseteq S
  <2> HIDE DEF S
  <2>1. QED  BY <1>2, TreeInduction
<1>4. QED  BY <1>3

-----------------------------------------------------------------------------
(* What the database makes of a fragment.                                  *)

LEMMA SeqGrows ==
    ASSUME NEW s, NEW S, NEW T, s \in Seq(S), S \subseteq T
    PROVE  s \in Seq(T)
  OBVIOUS

LEMMA HolesAreNumbers ==
    ASSUME NEW k, k \in Nat, NEW p, p \in Seq(FragmentsWithin[k])
    PROVE  Holes(p) \in Seq(Nat)
<1> DEFINE S == FragmentsWithin[k]
<1>1. IsSeq(p) /\ DOMAIN p = 1..Len(p) /\ \A i \in 1..Len(p) : p[i] \in S
  <2>1. p \in Seq(S)
    OBVIOUS
  <2> HIDE DEF S
  <2>2. QED  BY <2>1, SeqOfElements
<1>2. ASSUME NEW f, f \in S PROVE f.holes \in Seq(Nat)
  <2>1. k # 0
    BY <1>2, LevelsStand
  <2>2. k - 1 \in Nat /\ (k - 1) + 1 = k
    BY <2>1
  <2>3. f \in FragmentsWithin[(k - 1) + 1]
    BY <1>2, <2>2
  <2>4. QED  BY <2>2, <2>3, FragmentFacts
<1> HIDE DEF S
<1>3. AreFragments(p)
  <2>1. ASSUME NEW i \in 1..Len(p) PROVE IsFragment(p[i])
    <3>1. p[i].holes \in Seq(Nat)
      BY <1>1, <1>2
    <3>2. QED  BY <3>1, SeqOfElements DEF IsFragment
  <2>2. QED  BY <1>1, <2>1 DEF AreFragments
<1>4. IsSeq(Holes(p)) /\ Used(Holes(p)) = PartsUsed(p)
  BY <1>3, HolesUsed
<1>5. PartsUsed(p) \subseteq Nat
  <2>1. ASSUME NEW i \in DOMAIN p PROVE Refs(p[i]) \subseteq Nat
    <3> DEFINE h == p[i].holes
    <3>1. h \in Seq(Nat)
      BY <1>1, <1>2
    <3> HIDE DEF h
    <3>2. Used(h) \subseteq Nat
      BY <3>1 DEF Used
    <3>3. QED  BY <3>2 DEF Refs, h
  <2>2. QED  BY <2>1 DEF PartsUsed
<1> DEFINE g == Holes(p)
           G == {g[i] : i \in DOMAIN g}
<1>6. g \in Seq(G) /\ G \subseteq Nat
  BY <1>4, <1>5 DEF IsSeq, Used
<1> HIDE DEF g, G
<1>7. g \in Seq(Nat)
  BY <1>6, SeqGrows
<1>8. QED  BY <1>7 DEF g

LEMMA FragmentLevel ==
    ASSUME NEW k, k \in Nat, NEW sql, sql \in Texts, NEW p, p \in Seq(FragmentsWithin[k])
    PROVE  Fragment(sql, p) \in FragmentsWithin[k + 1]
<1>1. Holes(p) \in Seq(Nat)
  BY HolesAreNumbers
<1>2. "" \in Texts /\ 0 \in Nat
  BY DEF Texts
<1>3. QED  BY <1>1, <1>2, FragmentMade DEF Fragment

\* What is within a level is a fragment.
LEMMA WithinFragments ==
    ASSUME NEW k, k \in Nat, k <= FragmentLevels
    PROVE  FragmentsWithin[k] \subseteq Fragments
<1>1. Fragments = FragmentsWithin[FragmentLevels]
  BY DEF Fragments, FragmentLevels
<1>2. QED  BY <1>1, LevelsAreNatural, HigherLevels

\* A fragment's value comes from the values of its parts.
LEMMA FragmentValue ==
    ASSUME NEW e, NEW b, NEW row, Evaluates(e, Fragments, b, row),
           NEW k, k \in Nat, k + 1 <= FragmentLevels,
           NEW sql, sql \in Texts, NEW p, p \in Seq(FragmentsWithin[k]), NEW v,
           v = [i \in DOMAIN p |-> e[p[i]]]
    PROVE  LET f == Fragment(sql, p)
           IN  /\ f \in FragmentsWithin[k + 1]
               /\ e[f] = Outcome(f, v, b, row)
               /\ f.sql = sql
<1> DEFINE f == Fragment(sql, p)
<1>1. f \in FragmentsWithin[k + 1]
  BY FragmentLevel
<1>2. k + 1 \in Nat
  OBVIOUS
<1>3. f \in Fragments
  BY <1>1, <1>2, WithinFragments
<1>4. f.parts = p /\ f.sql = sql
  BY DEF Fragment
<1> HIDE DEF f
<1>5. e[f] = Outcome(f, Values(e, f), b, row)
  BY <1>3 DEF Evaluates
<1>6. Values(e, f) = v
  BY <1>4 DEF Values
<1>7. QED  BY <1>1, <1>4, <1>5, <1>6 DEF f

\* The outcomes of the templates.
LEMMA OutcomeOfColumn ==
    ASSUME NEW f, NEW v, NEW b, NEW row, f.sql = "column"
    PROVE  Outcome(f, v, b, row) = row[f.name]
  BY DEF Outcome, Calculations, ComparisonSql

LEMMA OutcomeOfArg ==
    ASSUME NEW f, NEW v, NEW b, NEW row, f.sql = "arg"
    PROVE  Outcome(f, v, b, row) = {Constant(b[f.arg])}
  BY DEF Outcome, Calculations, ComparisonSql

LEMMA OutcomeOfCast ==
    ASSUME NEW f, NEW v, NEW b, NEW row, f.sql \in {"number", "instant"}
    PROVE  Outcome(f, v, b, row) = v[1]
  BY DEF Outcome, Calculations, ComparisonSql

LEMMA OutcomeOfSum ==
    ASSUME NEW f, NEW v, NEW b, NEW row, f.sql \in Calculations
    PROVE  Outcome(f, v, b, row) = Calculated(f.sql, v[1], v[2])
  BY DEF Outcome, Calculations, ComparisonSql

LEMMA OutcomeOfConstant ==
    ASSUME NEW f, NEW v, NEW b, NEW row, f.sql \in {"TRUE", "FALSE"}
    PROVE  Outcome(f, v, b, row) = IF f.sql = "TRUE" THEN "true" ELSE "false"
  BY DEF Outcome, Calculations, ComparisonSql, TruthOf

LEMMA OutcomeOfNot ==
    ASSUME NEW f, NEW v, NEW b, NEW row, f.sql = "NOT"
    PROVE  Outcome(f, v, b, row) = Negation(v[1])
  BY DEF Outcome, Calculations, ComparisonSql

LEMMA OutcomeOfCoalesce ==
    ASSUME NEW f, NEW v, NEW b, NEW row, f.sql = "COALESCE"
    PROVE  /\ v[1] = "unknown" => Outcome(f, v, b, row) = "false"
           /\ v[1] # "unknown" => Outcome(f, v, b, row) = v[1]
  BY DEF Outcome, Calculations, ComparisonSql

LEMMA OutcomeOfAnd ==
    ASSUME NEW f, NEW v, NEW b, NEW row, f.sql = "AND"
    PROVE  Outcome(f, v, b, row) = Conjunction({v[i] : i \in DOMAIN v})
  BY DEF Outcome, Calculations, ComparisonSql

LEMMA OutcomeOfOr ==
    ASSUME NEW f, NEW v, NEW b, NEW row, f.sql = "OR"
    PROVE  Outcome(f, v, b, row) = Disjunction({v[i] : i \in DOMAIN v})
  BY DEF Outcome, Calculations, ComparisonSql

LEMMA OutcomeOfComparison ==
    ASSUME NEW f, NEW v, NEW b, NEW row, f.sql \in ComparisonSql
    PROVE  Outcome(f, v, b, row) = Compared(f.sql, v[1], v[2])
  BY DEF Outcome, Calculations, ComparisonSql

LEMMA OutcomeOfBetween ==
    ASSUME NEW f, NEW v, NEW b, NEW row, f.sql = "BETWEEN"
    PROVE  Outcome(f, v, b, row) = Conjunction({Compared(">=", v[1], v[2]), Compared("<=", v[1], v[3])})
  BY DEF Outcome, Calculations, ComparisonSql

LEMMA OutcomeOfIn ==
    ASSUME NEW f, NEW v, NEW b, NEW row, f.sql = "IN"
    PROVE  Outcome(f, v, b, row) = Disjunction({Compared("=", v[1], v[i]) : i \in DOMAIN v \ {1}})
  BY DEF Outcome, Calculations, ComparisonSql

LEMMA OutcomeOfNull ==
    ASSUME NEW f, NEW v, NEW b, NEW row, f.sql = "IS NULL"
    PROVE  /\ v[1] = {} => Outcome(f, v, b, row) = "true"
           /\ v[1] # {} => Outcome(f, v, b, row) = "false"
  BY DEF Outcome, Calculations, ComparisonSql, TruthOf

\* SQL's truth values, and the one it selects.
Truths == {"true", "false", "unknown"}

LEMMA TruthTables ==
    /\ \A P \in BOOLEAN : TruthOf(P) \in Truths /\ (TruthOf(P) = "true" <=> P)
                          /\ (TruthOf(P) = "false" <=> ~P)
    /\ \A t \in Truths : Negation(t) \in Truths /\ (Negation(t) = "true" <=> t = "false")
    /\ \A S \in SUBSET Truths :
         /\ Conjunction(S) \in Truths /\ (Conjunction(S) = "true" <=> \A t \in S : t = "true")
         /\ Conjunction(S) = "false" <=> "false" \in S
         /\ Disjunction(S) \in Truths /\ (Disjunction(S) = "true" <=> "true" \in S)
         /\ Disjunction(S) = "false" <=> \A t \in S : t = "false"
<1>1. \A P \in BOOLEAN : TruthOf(P) \in Truths /\ (TruthOf(P) = "true" <=> P)
                          /\ (TruthOf(P) = "false" <=> ~P)
  BY DEF TruthOf, Truths
<1>2. \A t \in Truths : Negation(t) \in Truths /\ (Negation(t) = "true" <=> t = "false")
  BY DEF Negation, Truths
<1>3. ASSUME NEW S \in SUBSET Truths
      PROVE  /\ Conjunction(S) \in Truths /\ (Conjunction(S) = "true" <=> \A t \in S : t = "true")
             /\ Conjunction(S) = "false" <=> "false" \in S
             /\ Disjunction(S) \in Truths /\ (Disjunction(S) = "true" <=> "true" \in S)
             /\ Disjunction(S) = "false" <=> \A t \in S : t = "false"
  <2>1. /\ Conjunction(S) \in Truths /\ (Conjunction(S) = "true" <=> \A t \in S : t = "true")
        /\ Conjunction(S) = "false" <=> "false" \in S
    BY DEF Conjunction, Truths
  <2>2. /\ Disjunction(S) \in Truths /\ (Disjunction(S) = "true" <=> "true" \in S)
        /\ Disjunction(S) = "false" <=> \A t \in S : t = "false"
    BY DEF Disjunction, Truths
  <2>3. QED  BY <2>1, <2>2
<1>4. QED  BY <1>1, <1>2, <1>3

\* A relation between two known numbers.
Some(op, A, B) == \E x \in A, y \in B : Related(op, x, y)

LEMMA ComparedTruth ==
    ASSUME NEW op, NEW A, NEW B
    PROVE  /\ Compared(op, A, B) \in Truths
           /\ Compared(op, A, B) = "true" <=> Some(op, A, B)
           /\ Compared(op, A, B) = "false" <=> A # {} /\ B # {} /\ ~Some(op, A, B)
<1>1. Some(op, A, B) \in BOOLEAN
  BY DEF Some
<1>2. Some(op, A, B) => A # {} /\ B # {}
  BY DEF Some
<1>3. Compared(op, A, B) = IF A = {} \/ B = {} THEN "unknown" ELSE TruthOf(Some(op, A, B))
  BY DEF Compared, Some
<1> HIDE DEF Some
<1>4. CASE A = {} \/ B = {}
  BY <1>2, <1>3, <1>4 DEF Truths
<1>5. CASE ~(A = {} \/ B = {})
  BY <1>1, <1>3, <1>5, TruthTables
<1>6. QED  BY <1>4, <1>5

-----------------------------------------------------------------------------
(* The values of the templates.                                            *)

LEMMA Tuples ==
    ASSUME NEW S
    PROVE  /\ \A a \in S : <<a>> \in Seq(S)
           /\ \A a, c \in S : <<a, c>> \in Seq(S)
           /\ \A a, c, d \in S : <<a, c, d>> \in Seq(S)
  OBVIOUS

LEMMA ListValue ==
    ASSUME NEW e, NEW b, NEW row, Evaluates(e, Fragments, b, row),
           NEW k, k \in Nat, k + 1 <= FragmentLevels, NEW p, p \in Seq(FragmentsWithin[k])
    PROVE  /\ e[Fragment("AND", p)] = Conjunction({e[p[i]] : i \in DOMAIN p})
           /\ e[Fragment("OR", p)] = Disjunction({e[p[i]] : i \in DOMAIN p})
<1> DEFINE v == [i \in DOMAIN p |-> e[p[i]]]
<1>1. {v[i] : i \in DOMAIN v} = {e[p[i]] : i \in DOMAIN p}
  OBVIOUS
<1> HIDE DEF v
<1>2. v = [i \in DOMAIN p |-> e[p[i]]]
  BY DEF v
<1>3. "AND" \in Texts /\ "OR" \in Texts
  BY DEF Texts
<1> DEFINE a == Fragment("AND", p)
           o == Fragment("OR", p)
<1>4. e[a] = Outcome(a, v, b, row) /\ a.sql = "AND"
  BY <1>2, <1>3, FragmentValue
<1>5. e[o] = Outcome(o, v, b, row) /\ o.sql = "OR"
  BY <1>2, <1>3, FragmentValue
<1> HIDE DEF a, o
<1>6. e[a] = Conjunction({v[i] : i \in DOMAIN v})
  BY ONLY <1>4, OutcomeOfAnd
<1>7. e[o] = Disjunction({v[i] : i \in DOMAIN v})
  BY ONLY <1>5, OutcomeOfOr
<1>8. QED  BY <1>1, <1>6, <1>7 DEF a, o

LEMMA OneValue ==
    ASSUME NEW e, NEW b, NEW row, Evaluates(e, Fragments, b, row),
           NEW k, k \in Nat, k + 1 <= FragmentLevels, NEW a, a \in FragmentsWithin[k]
    PROVE  /\ Fragment("NOT", <<a>>) \in FragmentsWithin[k + 1]
           /\ Fragment("COALESCE", <<a>>) \in FragmentsWithin[k + 1]
           /\ e[Fragment("NOT", <<a>>)] = Negation(e[a])
           /\ e[a] = "unknown" => e[Fragment("COALESCE", <<a>>)] = "false"
           /\ e[a] # "unknown" => e[Fragment("COALESCE", <<a>>)] = e[a]
           /\ \A sql \in {"number", "instant"} :
                /\ Fragment(sql, <<a>>) \in FragmentsWithin[k + 1]
                /\ e[Fragment(sql, <<a>>)] = e[a]
<1> DEFINE p == <<a>>
           v == [i \in DOMAIN p |-> e[p[i]]]
<1>1. p \in Seq(FragmentsWithin[k])
  BY Tuples
<1>2. v[1] = e[a]
  OBVIOUS
<1> HIDE DEF v, p
<1>3. v = [i \in DOMAIN p |-> e[p[i]]]
  BY DEF v
<1>4. \A sql \in {"NOT", "COALESCE", "number", "instant"} : sql \in Texts
  BY DEF Texts
<1>5. \A sql \in {"NOT", "COALESCE", "number", "instant"} :
         LET f == Fragment(sql, p)
         IN  f \in FragmentsWithin[k + 1] /\ e[f] = Outcome(f, v, b, row) /\ f.sql = sql
  BY <1>1, <1>3, <1>4, FragmentValue
<1> DEFINE c == Fragment("COALESCE", p)
           n == Fragment("NOT", p)
<1>6. n \in FragmentsWithin[k + 1] /\ e[n] = Outcome(n, v, b, row) /\ n.sql = "NOT"
  BY <1>5
<1>7. c \in FragmentsWithin[k + 1] /\ e[c] = Outcome(c, v, b, row) /\ c.sql = "COALESCE"
  BY <1>5
<1> HIDE DEF c, n
<1>8. e[n] = Negation(v[1])
  BY ONLY <1>6, OutcomeOfNot
<1>9. (v[1] = "unknown" => e[c] = "false") /\ (v[1] # "unknown" => e[c] = v[1])
  BY ONLY <1>7, OutcomeOfCoalesce
<1>10. ASSUME NEW sql, sql \in {"number", "instant"}
       PROVE  Fragment(sql, p) \in FragmentsWithin[k + 1] /\ e[Fragment(sql, p)] = v[1]
  <2> DEFINE f == Fragment(sql, p)
  <2>1. f \in FragmentsWithin[k + 1] /\ e[f] = Outcome(f, v, b, row) /\ f.sql \in {"number", "instant"}
    BY <1>5, <1>10
  <2> HIDE DEF f
  <2>2. e[f] = v[1]
    BY ONLY <2>1, OutcomeOfCast
  <2>3. QED  BY <2>1, <2>2 DEF f
<1>11. QED  BY <1>2, <1>6, <1>7, <1>8, <1>9, <1>10 DEF p, c, n

LEMMA CompareValue ==
    ASSUME NEW e, NEW b, NEW row, Evaluates(e, Fragments, b, row),
           NEW k, k \in Nat, k + 1 <= FragmentLevels,
           NEW a, a \in FragmentsWithin[k], NEW c, c \in FragmentsWithin[k],
           NEW op, op \in ComparisonSql
    PROVE  /\ Compare(a, op, c) \in FragmentsWithin[k + 1]
           /\ e[Compare(a, op, c)] = Compared(op, e[a], e[c])
           /\ e[Compare(a, op, c)] \in Truths
           /\ e[Compare(a, op, c)] = "true" <=> Some(op, e[a], e[c])
           /\ e[Compare(a, op, c)] = "false" <=> e[a] # {} /\ e[c] # {} /\ ~Some(op, e[a], e[c])
<1> DEFINE p == <<a, c>>
           v == [i \in DOMAIN p |-> e[p[i]]]
<1>1. p \in Seq(FragmentsWithin[k])
  BY Tuples
<1>2. v[1] = e[a] /\ v[2] = e[c]
  OBVIOUS
<1> HIDE DEF v, p
<1>3. v = [i \in DOMAIN p |-> e[p[i]]]
  BY DEF v
<1>4. op \in Texts
  BY DEF Texts, ComparisonSql
<1> DEFINE f == Fragment(op, p)
<1>5. f \in FragmentsWithin[k + 1] /\ e[f] = Outcome(f, v, b, row) /\ f.sql = op /\ f.sql \in ComparisonSql
  BY <1>1, <1>3, <1>4, FragmentValue
<1> HIDE DEF f
<1>6. e[f] = Compared(op, v[1], v[2])
  BY ONLY <1>5, OutcomeOfComparison
<1>7. f = Compare(a, op, c)
  BY DEF f, p, Compare
<1>8. QED  BY <1>2, <1>5, <1>6, <1>7, ComparedTruth

LEMMA TwoTruths ==
    ASSUME NEW s, s \in Truths, NEW t, t \in Truths
    PROVE  /\ Conjunction({s, t}) \in Truths /\ (Conjunction({s, t}) = "true" <=> s = "true" /\ t = "true")
           /\ Conjunction({s, t}) = "false" <=> s = "false" \/ t = "false"
           /\ Disjunction({s, t}) \in Truths /\ (Disjunction({s, t}) = "true" <=> s = "true" \/ t = "true")
           /\ Disjunction({s, t}) = "false" <=> s = "false" /\ t = "false"
<1>1. {s, t} \in SUBSET Truths
  OBVIOUS
<1>2. QED  BY <1>1, TruthTables

\* Two comparisons, or three, of which all must hold or one.
LEMMA PairValue ==
    ASSUME NEW e, NEW b, NEW row, Evaluates(e, Fragments, b, row),
           NEW k, k \in Nat, k + 1 <= FragmentLevels,
           NEW a, a \in FragmentsWithin[k], NEW c, c \in FragmentsWithin[k],
           e[a] \in Truths, e[c] \in Truths
    PROVE  /\ All(<<a, c>>) \in FragmentsWithin[k + 1] /\ Any(<<a, c>>) \in FragmentsWithin[k + 1]
           /\ e[All(<<a, c>>)] \in Truths /\ e[Any(<<a, c>>)] \in Truths
           /\ e[All(<<a, c>>)] = "true" <=> e[a] = "true" /\ e[c] = "true"
           /\ e[Any(<<a, c>>)] = "true" <=> e[a] = "true" \/ e[c] = "true"
           /\ e[Any(<<a, c>>)] = "false" <=> e[a] = "false" /\ e[c] = "false"
<1> DEFINE p == <<a, c>>
<1>1. p \in Seq(FragmentsWithin[k])
  BY Tuples
<1>2. {e[p[i]] : i \in DOMAIN p} = {e[a], e[c]}
  <2>1. DOMAIN p = {1, 2} /\ p[1] = a /\ p[2] = c
    OBVIOUS
  <2> HIDE DEF p
  <2>2. QED  BY <2>1
<1> HIDE DEF p
<1>3. "AND" \in Texts /\ "OR" \in Texts
  BY DEF Texts
<1>4. All(p) \in FragmentsWithin[k + 1] /\ Any(p) \in FragmentsWithin[k + 1]
  BY <1>1, <1>3, FragmentLevel DEF All, Any
<1>5. e[All(p)] = Conjunction({e[a], e[c]}) /\ e[Any(p)] = Disjunction({e[a], e[c]})
  <2>1. /\ e[Fragment("AND", p)] = Conjunction({e[p[i]] : i \in DOMAIN p})
        /\ e[Fragment("OR", p)] = Disjunction({e[p[i]] : i \in DOMAIN p})
    BY <1>1, ListValue
  <2>2. QED  BY ONLY <1>2, <2>1 DEF All, Any
<1>6. QED  BY <1>4, <1>5, TwoTruths DEF p

LEMMA TripleValue ==
    ASSUME NEW e, NEW b, NEW row, Evaluates(e, Fragments, b, row),
           NEW k, k \in Nat, k + 1 <= FragmentLevels,
           NEW a, a \in FragmentsWithin[k], NEW c, c \in FragmentsWithin[k],
           NEW d, d \in FragmentsWithin[k],
           e[a] \in Truths, e[c] \in Truths, e[d] \in Truths
    PROVE  /\ All(<<a, c, d>>) \in FragmentsWithin[k + 1]
           /\ e[All(<<a, c, d>>)] \in Truths
           /\ e[All(<<a, c, d>>)] = "true" <=> e[a] = "true" /\ e[c] = "true" /\ e[d] = "true"
<1> DEFINE p == <<a, c, d>>
<1>1. p \in Seq(FragmentsWithin[k])
  BY Tuples
<1>2. {e[p[i]] : i \in DOMAIN p} = {e[a], e[c], e[d]}
  <2>1. DOMAIN p = {1, 2, 3} /\ p[1] = a /\ p[2] = c /\ p[3] = d
    OBVIOUS
  <2> HIDE DEF p
  <2>2. QED  BY <2>1
<1> HIDE DEF p
<1>3. "AND" \in Texts
  BY DEF Texts
<1>4. All(p) \in FragmentsWithin[k + 1]
  BY <1>1, <1>3, FragmentLevel DEF All
<1>5. e[All(p)] = Conjunction({e[a], e[c], e[d]})
  <2>1. e[Fragment("AND", p)] = Conjunction({e[p[i]] : i \in DOMAIN p})
    BY <1>1, ListValue
  <2>2. QED  BY ONLY <1>2, <2>1 DEF All
<1>6. {e[a], e[c], e[d]} \in SUBSET Truths
  OBVIOUS
<1>7. QED  BY <1>4, <1>5, <1>6, TruthTables DEF p

-----------------------------------------------------------------------------
(* The relations between intervals.                                        *)

\* What the dialect compares, with the values of the four ends.
Ordered(op, ls, le, rs, re) ==
    CASE op = "T_AFTER"        -> Some(">", ls, re)
      [] op = "T_BEFORE"       -> Some("<", le, rs)
      [] op = "T_METBY"        -> Some("=", ls, re)
      [] op = "T_MEETS"        -> Some("=", le, rs)
      [] op = "T_DISJOINT"     -> Some("<", le, rs) \/ Some(">", ls, re)
      [] op = "T_INTERSECTS"   -> Some(">=", le, rs) /\ Some("<=", ls, re)
      [] op = "T_EQUALS"       -> Some("=", ls, rs) /\ Some("=", le, re)
      [] op = "T_CONTAINS"     -> Some("<=", ls, rs) /\ Some(">=", le, re)
      [] op = "T_DURING"       -> Some(">=", ls, rs) /\ Some("<=", le, re)
      [] op = "T_FINISHEDBY"   -> Some("=", le, re) /\ Some("<", ls, rs)
      [] op = "T_FINISHES"     -> Some("=", le, re) /\ Some(">", ls, rs)
      [] op = "T_STARTEDBY"    -> Some("=", ls, rs) /\ Some(">", le, re)
      [] op = "T_STARTS"       -> Some("=", ls, rs) /\ Some("<", le, re)
      [] op = "T_OVERLAPPEDBY" -> Some("<", rs, ls) /\ Some(">", re, ls) /\ Some("<", re, le)
      [] op = "T_OVERLAPS"     -> Some("<", ls, rs) /\ Some(">", le, rs) /\ Some("<", le, re)

OneEnded == {"T_AFTER", "T_METBY", "T_BEFORE", "T_MEETS"}

LEMMA NotLess ==
    ASSUME NEW A, NEW B, Known(A), Known(B)
    PROVE  /\ A # {} /\ B # {} /\ ~Some("<", A, B) <=> Some(">=", A, B)
           /\ A # {} /\ B # {} /\ ~Some(">", A, B) <=> Some("<=", A, B)
  BY DEF Known, Some, Related

Both(a, r, c, d, q, f) == All(<<Compare(a, r, c), Compare(d, q, f)>>)

\* The SQL of a relation that looks at both ends of its operands.
LEMMA RelationValue ==
    ASSUME NEW e, NEW b, NEW row, Evaluates(e, Fragments, b, row),
           NEW k, k \in Nat, k + 3 <= FragmentLevels,
           NEW ls, ls \in FragmentsWithin[k], NEW le, le \in FragmentsWithin[k],
           NEW rs, rs \in FragmentsWithin[k], NEW re, re \in FragmentsWithin[k],
           NEW op, op \in TemporalOps \ OneEnded,
           NEW p, Len(p) = 4, p[1] = ls, p[2] = le, p[3] = rs, p[4] = re,
           Known(e[ls]), Known(e[le]), Known(e[rs]), Known(e[re])
    PROVE  LET x == e[TemporalSql(op, p)]
           IN  x \in Truths /\ (x = "true" <=> Ordered(op, e[ls], e[le], e[rs], e[re]))
<1> DEFINE x == e[TemporalSql(op, p)]
<1>1. k + 1 <= FragmentLevels /\ k + 1 \in Nat /\ (k + 1) + 1 <= FragmentLevels
      /\ (k + 1) + 1 \in Nat /\ ((k + 1) + 1) + 1 <= FragmentLevels
  <2>1. FragmentLevels \in Nat
    BY LevelsAreNatural
  <2>2. QED  BY <2>1
<1> DEFINE E == {ls, le, rs, re}
<1>2. /\ "=" \in ComparisonSql /\ "<" \in ComparisonSql /\ ">" \in ComparisonSql
      /\ "<=" \in ComparisonSql /\ ">=" \in ComparisonSql
      /\ ls \in E /\ le \in E /\ rs \in E /\ re \in E
  BY DEF ComparisonSql
<1>3. \A a, c \in E : \A r \in ComparisonSql :
         /\ Compare(a, r, c) \in FragmentsWithin[k + 1]
         /\ e[Compare(a, r, c)] \in Truths
         /\ e[Compare(a, r, c)] = "true" <=> Some(r, e[a], e[c])
         /\ e[Compare(a, r, c)] = "false" <=> e[a] # {} /\ e[c] # {} /\ ~Some(r, e[a], e[c])
  BY <1>1, CompareValue
<1>4. ASSUME NEW a \in E, NEW c \in E, NEW r \in ComparisonSql,
             NEW d \in E, NEW f \in E, NEW q \in ComparisonSql
      PROVE  LET t == Both(a, r, c, d, q, f)
             IN  e[t] \in Truths /\ (e[t] = "true" <=> Some(r, e[a], e[c]) /\ Some(q, e[d], e[f]))
  <2> DEFINE g == Compare(a, r, c)
             h == Compare(d, q, f)
  <2>1. /\ g \in FragmentsWithin[k + 1] /\ e[g] \in Truths /\ (e[g] = "true" <=> Some(r, e[a], e[c]))
        /\ h \in FragmentsWithin[k + 1] /\ e[h] \in Truths /\ (e[h] = "true" <=> Some(q, e[d], e[f]))
    BY <1>3
  <2> HIDE DEF g, h
  <2>2. /\ e[All(<<g, h>>)] \in Truths
        /\ e[All(<<g, h>>)] = "true" <=> e[g] = "true" /\ e[h] = "true"
    BY <1>1, <2>1, PairValue
  <2>3. QED  BY <2>1, <2>2 DEF Both, g, h
<1>6. LET d == Disjoint(ls, le, rs, re)
      IN  /\ d \in FragmentsWithin[(k + 1) + 1] /\ e[d] \in Truths
          /\ e[d] = "true" <=> Some("<", e[le], e[rs]) \/ Some(">", e[ls], e[re])
          /\ e[d] = "false" <=> Some(">=", e[le], e[rs]) /\ Some("<=", e[ls], e[re])
  <2> DEFINE g == Compare(le, "<", rs)
             h == Compare(ls, ">", re)
  <2>1. "<" \in ComparisonSql /\ ">" \in ComparisonSql
    BY DEF ComparisonSql
  <2>2. /\ g \in FragmentsWithin[k + 1] /\ e[g] \in Truths /\ (e[g] = "true" <=> Some("<", e[le], e[rs]))
        /\ e[g] = "false" <=> e[le] # {} /\ e[rs] # {} /\ ~Some("<", e[le], e[rs])
    BY <1>3, <2>1
  <2>3. /\ h \in FragmentsWithin[k + 1] /\ e[h] \in Truths /\ (e[h] = "true" <=> Some(">", e[ls], e[re]))
        /\ e[h] = "false" <=> e[ls] # {} /\ e[re] # {} /\ ~Some(">", e[ls], e[re])
    BY <1>3, <2>1
  <2>4. /\ e[g] = "false" <=> Some(">=", e[le], e[rs])
        /\ e[h] = "false" <=> Some("<=", e[ls], e[re])
    BY <2>2, <2>3, NotLess
  <2> HIDE DEF g, h
  <2>5. /\ Any(<<g, h>>) \in FragmentsWithin[(k + 1) + 1]
        /\ e[Any(<<g, h>>)] \in Truths
        /\ e[Any(<<g, h>>)] = "true" <=> e[g] = "true" \/ e[h] = "true"
        /\ e[Any(<<g, h>>)] = "false" <=> e[g] = "false" /\ e[h] = "false"
    BY <1>1, <2>2, <2>3, PairValue
  <2>6. Disjoint(ls, le, rs, re) = Any(<<g, h>>)
    BY DEF Disjoint, g, h
  <2>7. QED  BY <2>2, <2>3, <2>4, <2>5, <2>6
<1> HIDE DEF E
<1> DEFINE t == TemporalSql(op, p)
           R(r) == r \in Truths /\ (r = "true" <=> Ordered(op, e[ls], e[le], e[rs], e[re]))
<1>7. op \in {"T_CONTAINS", "T_DURING", "T_DISJOINT", "T_INTERSECTS", "T_EQUALS",
             "T_STARTS", "T_STARTEDBY", "T_FINISHES", "T_FINISHEDBY", "T_OVERLAPS", "T_OVERLAPPEDBY"}
  BY DEF TemporalOps, IntervalOnly, OneEnded
<1>8. CASE op = "T_DISJOINT"
  <2>1. t = Disjoint(ls, le, rs, re)
    BY <1>8 DEF TemporalSql
  <2>2. QED  BY <1>6, <1>8, <2>1 DEF Ordered
<1>9. CASE op = "T_INTERSECTS"
  <2> DEFINE d == Disjoint(ls, le, rs, re)
  <2>1. t = Fragment("NOT", <<d>>)
    BY <1>9 DEF TemporalSql
  <2>2. /\ d \in FragmentsWithin[(k + 1) + 1] /\ e[d] \in Truths
        /\ e[d] = "false" <=> Some(">=", e[le], e[rs]) /\ Some("<=", e[ls], e[re])
    BY <1>6
  <2> HIDE DEF d
  <2>3. e[Fragment("NOT", <<d>>)] = Negation(e[d])
    BY <1>1, <2>2, OneValue
  <2>4. R(e[t])
    BY <1>9, <2>1, <2>2, <2>3, TruthTables DEF Ordered
  <2>5. QED  BY <2>4
<1>10. CASE op = "T_EQUALS"
  <2>1. t = Both(ls, "=", rs, le, "=", re)
    BY <1>10 DEF TemporalSql, Both
  <2>2. /\ e[Both(ls, "=", rs, le, "=", re)] \in Truths
        /\ e[Both(ls, "=", rs, le, "=", re)] = "true" <=>
             Some("=", e[ls], e[rs]) /\ Some("=", e[le], e[re])
    BY ONLY <1>2, <1>4
  <2>3. QED  BY <1>10, <2>1, <2>2 DEF Ordered
<1>11. CASE op = "T_CONTAINS"
  <2>1. t = Both(ls, "<=", rs, le, ">=", re)
    BY <1>11 DEF TemporalSql, Both
  <2>2. /\ e[Both(ls, "<=", rs, le, ">=", re)] \in Truths
        /\ e[Both(ls, "<=", rs, le, ">=", re)] = "true" <=>
             Some("<=", e[ls], e[rs]) /\ Some(">=", e[le], e[re])
    BY ONLY <1>2, <1>4
  <2>3. QED  BY <1>11, <2>1, <2>2 DEF Ordered
<1>12. CASE op = "T_DURING"
  <2>1. t = Both(ls, ">=", rs, le, "<=", re)
    BY <1>12 DEF TemporalSql, Both
  <2>2. /\ e[Both(ls, ">=", rs, le, "<=", re)] \in Truths
        /\ e[Both(ls, ">=", rs, le, "<=", re)] = "true" <=>
             Some(">=", e[ls], e[rs]) /\ Some("<=", e[le], e[re])
    BY ONLY <1>2, <1>4
  <2>3. QED  BY <1>12, <2>1, <2>2 DEF Ordered
<1>13. CASE op = "T_FINISHEDBY"
  <2>1. t = Both(le, "=", re, ls, "<", rs)
    BY <1>13 DEF TemporalSql, Both
  <2>2. /\ e[Both(le, "=", re, ls, "<", rs)] \in Truths
        /\ e[Both(le, "=", re, ls, "<", rs)] = "true" <=>
             Some("=", e[le], e[re]) /\ Some("<", e[ls], e[rs])
    BY ONLY <1>2, <1>4
  <2>3. QED  BY <1>13, <2>1, <2>2 DEF Ordered
<1>14. CASE op = "T_FINISHES"
  <2>1. t = Both(le, "=", re, ls, ">", rs)
    BY <1>14 DEF TemporalSql, Both
  <2>2. /\ e[Both(le, "=", re, ls, ">", rs)] \in Truths
        /\ e[Both(le, "=", re, ls, ">", rs)] = "true" <=>
             Some("=", e[le], e[re]) /\ Some(">", e[ls], e[rs])
    BY ONLY <1>2, <1>4
  <2>3. QED  BY <1>14, <2>1, <2>2 DEF Ordered
<1>15. CASE op = "T_STARTEDBY"
  <2>1. t = Both(ls, "=", rs, le, ">", re)
    BY <1>15 DEF TemporalSql, Both
  <2>2. /\ e[Both(ls, "=", rs, le, ">", re)] \in Truths
        /\ e[Both(ls, "=", rs, le, ">", re)] = "true" <=>
             Some("=", e[ls], e[rs]) /\ Some(">", e[le], e[re])
    BY ONLY <1>2, <1>4
  <2>3. QED  BY <1>15, <2>1, <2>2 DEF Ordered
<1>16. CASE op = "T_STARTS"
  <2>1. t = Both(ls, "=", rs, le, "<", re)
    BY <1>16 DEF TemporalSql, Both
  <2>2. /\ e[Both(ls, "=", rs, le, "<", re)] \in Truths
        /\ e[Both(ls, "=", rs, le, "<", re)] = "true" <=>
             Some("=", e[ls], e[rs]) /\ Some("<", e[le], e[re])
    BY ONLY <1>2, <1>4
  <2>3. QED  BY <1>16, <2>1, <2>2 DEF Ordered
<1>17. CASE op = "T_OVERLAPPEDBY"
  <2> DEFINE g == Compare(rs, "<", ls)
             h == Compare(re, ">", ls)
             i == Compare(re, "<", le)
  <2>1. t = All(<<g, h, i>>)
    BY <1>17 DEF TemporalSql
  <2>2. /\ g \in FragmentsWithin[k + 1] /\ e[g] \in Truths
        /\ e[g] = "true" <=> Some("<", e[rs], e[ls])
    BY <1>2, <1>3
  <2>3. /\ h \in FragmentsWithin[k + 1] /\ e[h] \in Truths
        /\ e[h] = "true" <=> Some(">", e[re], e[ls])
    BY <1>2, <1>3
  <2>4. /\ i \in FragmentsWithin[k + 1] /\ e[i] \in Truths
        /\ e[i] = "true" <=> Some("<", e[re], e[le])
    BY <1>2, <1>3
  <2> HIDE DEF g, h, i, t
  <2>5. /\ e[All(<<g, h, i>>)] \in Truths
        /\ e[All(<<g, h, i>>)] = "true" <=> e[g] = "true" /\ e[h] = "true" /\ e[i] = "true"
    BY <1>1, <2>2, <2>3, <2>4, TripleValue
  <2>6. R(e[t])
    BY <1>17, <2>1, <2>2, <2>3, <2>4, <2>5 DEF Ordered
  <2>7. QED  BY <2>6 DEF t
<1>18. CASE op = "T_OVERLAPS"
  <2> DEFINE g == Compare(ls, "<", rs)
             h == Compare(le, ">", rs)
             i == Compare(le, "<", re)
  <2>1. t = All(<<g, h, i>>)
    BY <1>18 DEF TemporalSql
  <2>2. /\ g \in FragmentsWithin[k + 1] /\ e[g] \in Truths
        /\ e[g] = "true" <=> Some("<", e[ls], e[rs])
    BY <1>2, <1>3
  <2>3. /\ h \in FragmentsWithin[k + 1] /\ e[h] \in Truths
        /\ e[h] = "true" <=> Some(">", e[le], e[rs])
    BY <1>2, <1>3
  <2>4. /\ i \in FragmentsWithin[k + 1] /\ e[i] \in Truths
        /\ e[i] = "true" <=> Some("<", e[le], e[re])
    BY <1>2, <1>3
  <2> HIDE DEF g, h, i, t
  <2>5. /\ e[All(<<g, h, i>>)] \in Truths
        /\ e[All(<<g, h, i>>)] = "true" <=> e[g] = "true" /\ e[h] = "true" /\ e[i] = "true"
    BY <1>1, <2>2, <2>3, <2>4, TripleValue
  <2>6. R(e[t])
    BY <1>18, <2>1, <2>2, <2>3, <2>4, <2>5 DEF Ordered
  <2>7. QED  BY <2>6 DEF t
<1>19. QED
  BY <1>7, <1>8, <1>9, <1>10, <1>11, <1>12, <1>13, <1>14, <1>15, <1>16, <1>17, <1>18

LEMMA SomeGrows ==
    ASSUME NEW op, NEW A, NEW B, NEW C, NEW D, A \subseteq C, B \subseteq D, Some(op, A, B)
    PROVE  Some(op, C, D)
  BY DEF Some

TemporalNames ==
    {"T_AFTER", "T_BEFORE", "T_CONTAINS", "T_DURING", "T_DISJOINT", "T_INTERSECTS", "T_EQUALS",
     "T_STARTS", "T_STARTEDBY", "T_FINISHES", "T_FINISHEDBY", "T_MEETS", "T_METBY",
     "T_OVERLAPS", "T_OVERLAPPEDBY"}

LEMMA NamesOfRelations == TemporalOps = TemporalNames
  BY DEF TemporalOps, IntervalOnly, TemporalNames

\* More of the ends being known takes nothing back.
LEMMA OrderedGrows ==
    ASSUME NEW op, op \in TemporalOps,
           NEW A, NEW B, NEW C, NEW D, NEW As, NEW Bs, NEW Cs, NEW Ds,
           A \subseteq As, B \subseteq Bs, C \subseteq Cs, D \subseteq Ds, Ordered(op, A, B, C, D)
    PROVE  Ordered(op, As, Bs, Cs, Ds)
<1>1. \A r : /\ Some(r, A, C) => Some(r, As, Cs)
             /\ Some(r, A, D) => Some(r, As, Ds)
             /\ Some(r, B, C) => Some(r, Bs, Cs)
             /\ Some(r, B, D) => Some(r, Bs, Ds)
             /\ Some(r, C, A) => Some(r, Cs, As)
             /\ Some(r, D, A) => Some(r, Ds, As)
             /\ Some(r, D, B) => Some(r, Ds, Bs)
  BY SomeGrows
<1>2. op \in TemporalNames
  BY NamesOfRelations
<1>3. QED  BY <1>1, <1>2 DEF Ordered, TemporalNames

\* With both ends known, the comparisons of the ends are the relation.
LEMMA OrderedRelates ==
    ASSUME NEW op, op \in TemporalOps, NEW a, a \in Int, NEW b, b \in Int, a <= b,
           NEW c, c \in Int, NEW d, d \in Int, c <= d
    PROVE  Ordered(op, {a}, {b}, {c}, {d}) <=> Relation(op, a..b, c..d)
<1>1. \A x, y : /\ Some("=", {x}, {y}) <=> x = y
                /\ Some("<", {x}, {y}) <=> x < y
                /\ Some(">", {x}, {y}) <=> x > y
                /\ Some("<=", {x}, {y}) <=> x <= y
                /\ Some(">=", {x}, {y}) <=> x >= y
  BY DEF Some, Related
<1>2. op \in TemporalNames
  BY NamesOfRelations
<1> DEFINE A == a..b
           B == c..d
<1>3. /\ \A x : x \in A <=> x \in Int /\ a <= x /\ x <= b
      /\ \A x : x \in B <=> x \in Int /\ c <= x /\ x <= d
  OBVIOUS
<1>4. a \in A /\ b \in A /\ c \in B /\ d \in B
  BY <1>3
<1> HIDE DEF A, B
<1>5. A \subseteq B <=> c <= a /\ b <= d
  BY <1>3, <1>4
<1>6. B \subseteq A <=> a <= c /\ d <= b
  BY <1>3, <1>4
<1>7. A = B <=> a = c /\ b = d
  <2>1. A = B <=> A \subseteq B /\ B \subseteq A
    OBVIOUS
  <2>2. QED  BY <1>5, <1>6, <2>1
<1>8. \A x \in Int : /\ First(x, A) <=> x = a
                     /\ Last(x, A) <=> x = b
                     /\ First(x, B) <=> x = c
                     /\ Last(x, B) <=> x = d
  BY <1>3, <1>4 DEF First, Last
<1>9. A \subseteq Int /\ B \subseteq Int
  BY <1>3
<1>10. CASE op = "T_AFTER"
  <2>1. Relation(op, A, B) <=> \A x \in A, y \in B : x > y
    BY <1>10 DEF Relation
  <2>2. Ordered(op, {a}, {b}, {c}, {d}) <=> a > d
    BY <1>1, <1>10 DEF Ordered
  <2>3. (\A x \in A, y \in B : x > y) <=> a > d
    BY <1>3, <1>4
  <2>4. QED  BY <2>1, <2>2, <2>3 DEF A, B
<1>11. CASE op = "T_BEFORE"
  <2>1. Relation(op, A, B) <=> \A x \in B, y \in A : x > y
    BY <1>11 DEF Relation
  <2>2. Ordered(op, {a}, {b}, {c}, {d}) <=> b < c
    BY <1>1, <1>11 DEF Ordered
  <2>3. (\A x \in B, y \in A : x > y) <=> b < c
    BY <1>3, <1>4
  <2>4. QED  BY <2>1, <2>2, <2>3 DEF A, B
<1>12. CASE op \in {"T_CONTAINS", "T_DURING", "T_EQUALS"}
  <2>1. /\ op = "T_CONTAINS" => (Relation(op, A, B) <=> B \subseteq A)
        /\ op = "T_DURING" => (Relation(op, A, B) <=> A \subseteq B)
        /\ op = "T_EQUALS" => (Relation(op, A, B) <=> A = B)
    BY DEF Relation
  <2>2. /\ op = "T_CONTAINS" => (Ordered(op, {a}, {b}, {c}, {d}) <=> a <= c /\ b >= d)
        /\ op = "T_DURING" => (Ordered(op, {a}, {b}, {c}, {d}) <=> a >= c /\ b <= d)
        /\ op = "T_EQUALS" => (Ordered(op, {a}, {b}, {c}, {d}) <=> a = c /\ b = d)
    BY <1>1 DEF Ordered
  <2>3. QED  BY <1>5, <1>6, <1>7, <1>12, <2>1, <2>2 DEF A, B
<1>13. CASE op \in {"T_DISJOINT", "T_INTERSECTS"}
  <2>1. A \cap B = {} <=> b < c \/ a > d
    <3>1. ASSUME b < c \/ a > d PROVE A \cap B = {}
      BY <1>3, <3>1
    <3>2. ASSUME ~(b < c \/ a > d) PROVE A \cap B # {}
      <4>1. CASE a <= c
        <5>1. c \in A /\ c \in B
          BY <1>3, <1>4, <3>2, <4>1
        <5>2. QED  BY <5>1
      <4>2. CASE c <= a
        <5>1. a \in A /\ a \in B
          BY <1>3, <1>4, <3>2, <4>2
        <5>2. QED  BY <5>1
      <4>3. QED  BY <4>1, <4>2
    <3>3. QED  BY <3>1, <3>2
  <2>2. /\ op = "T_DISJOINT" => (Relation(op, A, B) <=> A \cap B = {})
        /\ op = "T_INTERSECTS" => (Relation(op, A, B) <=> A \cap B # {})
    BY DEF Relation
  <2>3. /\ op = "T_DISJOINT" => (Ordered(op, {a}, {b}, {c}, {d}) <=> b < c \/ a > d)
        /\ op = "T_INTERSECTS" => (Ordered(op, {a}, {b}, {c}, {d}) <=> b >= c /\ a <= d)
    BY <1>1 DEF Ordered
  <2>4. b >= c /\ a <= d <=> ~(b < c \/ a > d)
    OBVIOUS
  <2>5. QED  BY <1>13, <2>1, <2>2, <2>3, <2>4 DEF A, B
<1>14. CASE op \in {"T_MEETS", "T_METBY"}
  <2>1. /\ op = "T_MEETS" => (Relation(op, A, B) <=> \E t \in A : Last(t, A) /\ First(t, B))
        /\ op = "T_METBY" => (Relation(op, A, B) <=> \E t \in B : Last(t, B) /\ First(t, A))
    BY DEF Relation
  <2>2. /\ (\E t \in A : Last(t, A) /\ First(t, B)) <=> b = c
        /\ (\E t \in B : Last(t, B) /\ First(t, A)) <=> a = d
    BY <1>4, <1>8, <1>9
  <2>3. /\ op = "T_MEETS" => (Ordered(op, {a}, {b}, {c}, {d}) <=> b = c)
        /\ op = "T_METBY" => (Ordered(op, {a}, {b}, {c}, {d}) <=> a = d)
    BY <1>1 DEF Ordered
  <2>4. QED  BY <1>14, <2>1, <2>2, <2>3 DEF A, B
<1>15. CASE op \in {"T_STARTS", "T_STARTEDBY", "T_FINISHES", "T_FINISHEDBY"}
  <2>1. /\ op = "T_STARTS" =>
             (Relation(op, A, B) <=> A \subseteq B /\ A # B /\ \E s \in A : First(s, B))
        /\ op = "T_STARTEDBY" =>
             (Relation(op, A, B) <=> B \subseteq A /\ B # A /\ \E s \in B : First(s, A))
        /\ op = "T_FINISHES" =>
             (Relation(op, A, B) <=> A \subseteq B /\ A # B /\ \E s \in A : Last(s, B))
        /\ op = "T_FINISHEDBY" =>
             (Relation(op, A, B) <=> B \subseteq A /\ B # A /\ \E s \in B : Last(s, A))
    BY DEF Relation
  <2>2. /\ (\E s \in A : First(s, B)) <=> a <= c /\ c <= b
        /\ (\E s \in B : First(s, A)) <=> c <= a /\ a <= d
        /\ (\E s \in A : Last(s, B)) <=> a <= d /\ d <= b
        /\ (\E s \in B : Last(s, A)) <=> c <= b /\ b <= d
    BY <1>3, <1>8, <1>9
  <2>3. /\ op = "T_STARTS" => (Ordered(op, {a}, {b}, {c}, {d}) <=> a = c /\ b < d)
        /\ op = "T_STARTEDBY" => (Ordered(op, {a}, {b}, {c}, {d}) <=> a = c /\ b > d)
        /\ op = "T_FINISHES" => (Ordered(op, {a}, {b}, {c}, {d}) <=> b = d /\ a > c)
        /\ op = "T_FINISHEDBY" => (Ordered(op, {a}, {b}, {c}, {d}) <=> b = d /\ a < c)
    BY <1>1 DEF Ordered
  <2>4. CASE op = "T_STARTS"
    BY <1>5, <1>7, <2>1, <2>2, <2>3, <2>4 DEF A, B
  <2>5. CASE op = "T_STARTEDBY"
    BY <1>6, <1>7, <2>1, <2>2, <2>3, <2>5 DEF A, B
  <2>6. CASE op = "T_FINISHES"
    BY <1>5, <1>7, <2>1, <2>2, <2>3, <2>6 DEF A, B
  <2>7. CASE op = "T_FINISHEDBY"
    BY <1>6, <1>7, <2>1, <2>2, <2>3, <2>7 DEF A, B
  <2>8. QED  BY <1>15, <2>4, <2>5, <2>6, <2>7
<1>16. CASE op = "T_OVERLAPS"
  <2>1. Relation(op, A, B) <=> /\ \E s, t \in A \cap B : s # t
                               /\ \E x \in A : \A y \in B : x < y
                               /\ \E y \in B : \A x \in A : x < y
    BY <1>16 DEF Relation
  <2>2. (\E x \in A : \A y \in B : x < y) <=> a < c
    BY <1>3, <1>4
  <2>3. (\E y \in B : \A x \in A : x < y) <=> b < d
    BY <1>3, <1>4
  <2>4. ASSUME a < c, b < d PROVE (\E s, t \in A \cap B : s # t) <=> b > c
    <3>1. ASSUME b > c PROVE \E s, t \in A \cap B : s # t
      <4>1. c \in A \cap B /\ b \in A \cap B /\ c # b
        BY <1>3, <1>4, <2>4, <3>1
      <4>2. QED  BY <4>1
    <3>2. ASSUME ~(b > c) PROVE ~\E s, t \in A \cap B : s # t
      BY <1>3, <2>4, <3>2
    <3>3. QED  BY <3>1, <3>2
  <2>5. Ordered(op, {a}, {b}, {c}, {d}) <=> a < c /\ b > c /\ b < d
    BY <1>1, <1>16 DEF Ordered
  <2>6. QED  BY <2>1, <2>2, <2>3, <2>4, <2>5 DEF A, B
<1>17. CASE op = "T_OVERLAPPEDBY"
  <2>1. Relation(op, A, B) <=> /\ \E s, t \in B \cap A : s # t
                               /\ \E x \in B : \A y \in A : x < y
                               /\ \E y \in A : \A x \in B : x < y
    BY <1>17 DEF Relation
  <2>2. (\E x \in B : \A y \in A : x < y) <=> c < a
    BY <1>3, <1>4
  <2>3. (\E y \in A : \A x \in B : x < y) <=> d < b
    BY <1>3, <1>4
  <2>4. ASSUME c < a, d < b PROVE (\E s, t \in B \cap A : s # t) <=> d > a
    <3>1. ASSUME d > a PROVE \E s, t \in B \cap A : s # t
      <4>1. a \in B \cap A /\ d \in B \cap A /\ a # d
        BY <1>3, <1>4, <2>4, <3>1
      <4>2. QED  BY <4>1
    <3>2. ASSUME ~(d > a) PROVE ~\E s, t \in B \cap A : s # t
      BY <1>3, <2>4, <3>2
    <3>3. QED  BY <3>1, <3>2
  <2>5. Ordered(op, {a}, {b}, {c}, {d}) <=> c < a /\ d > a /\ d < b
    BY <1>1, <1>17 DEF Ordered
  <2>6. QED  BY <2>1, <2>2, <2>3, <2>4, <2>5 DEF A, B
<1>18. QED
  BY <1>2, <1>10, <1>11, <1>12, <1>13, <1>14, <1>15, <1>16, <1>17 DEF TemporalNames

LEMMA CoveredInstants ==
    ASSUME NEW m
    PROVE  \A t : t \in Covered(m) <=> \E s \in m.start, e \in m.end : t \in s..e
<1> DEFINE I(s, e) == s..e
           C == {s..e : s \in m.start, e \in m.end}
<1>1. Covered(m) = UNION C
  BY DEF Covered
<1>2. \A q : q \in C <=> \E s \in m.start, e \in m.end : q = I(s, e)
  OBVIOUS
<1> HIDE DEF C, I
<1>3. \A t : t \in Covered(m) <=> \E q \in C : t \in q
  BY <1>1
<1>4. \A t : t \in Covered(m) <=> \E s \in m.start, e \in m.end : t \in I(s, e)
  BY ONLY <1>2, <1>3
<1>5. QED  BY <1>4 DEF I

LEMMA ProperRelates ==
    ASSUME NEW op, op \in TemporalOps, NEW m, HasEnds(m), Proper(m), NEW o, HasEnds(o), Proper(o)
    PROVE  Ordered(op, m.start, m.end, o.start, o.end) <=> Relation(op, Covered(m), Covered(o))
<1>1. ASSUME NEW x, HasEnds(x), Proper(x)
      PROVE  \E s \in Int, t \in Int : s <= t /\ x.start = {s} /\ x.end = {t} /\ Covered(x) = s..t
  <2>1. PICK s \in x.start, t \in x.end : s <= t
    BY <1>1 DEF Proper
  <2>2. s \in Int /\ t \in Int /\ x.start = {s} /\ x.end = {t}
    BY <1>1 DEF HasEnds, Known
  <2>3. \A w : w \in Covered(x) <=> \E y \in x.start, z \in x.end : w \in y..z
    BY CoveredInstants
  <2>4. \A w : w \in Covered(x) <=> w \in s..t
    BY <2>2, <2>3
  <2>5. Covered(x) = s..t
    BY <2>4
  <2>6. QED  BY <2>1, <2>2, <2>5
<1>2. PICK a \in Int, b \in Int : a <= b /\ m.start = {a} /\ m.end = {b} /\ Covered(m) = a..b
  BY <1>1
<1>3. PICK c \in Int, d \in Int : c <= d /\ o.start = {c} /\ o.end = {d} /\ Covered(o) = c..d
  BY <1>1
<1>4. QED  BY <1>2, <1>3, OrderedRelates

-----------------------------------------------------------------------------
(* What a fragment must say.                                               *)

\* The value that a fragment has where request r was made.
Answer(x, r, row) ==
    LET m == Meaning(r.node, row)
        o == OperandMeanings(r.node, row)
    IN  /\ m.sort = "scalar" \/ (m.sort = "interval" /\ r.part # "whole")
             => x = IF r.part = "end" THEN m.end ELSE m.start
        /\ m.sort = "condition" => x \in Truths /\ (x = "true" <=> m.truth = "true")
        /\ Relates(r.node, o) =>
             (x = "true" <=> Ordered(r.node.op, o[1].start, o[1].end, o[2].start, o[2].end))

\* An end of an interval is as deep as what stands there.
Depth(r, k) == IF r.node.kind = "Interval" /\ r.part # "whole" THEN 3 * k ELSE 3 * k + 3

Shallow(f, r) ==
    \A k \in Nat : r.node \in TreesWithin[k + 1] => f \in FragmentsWithin[Depth(r, k)]

\* The bind values start with those collected so far.
Begins(b, values) == \A i \in 1..Len(values) : b[i] = values[i]

Means(f, r, values) ==
    /\ Shallow(f, r)
    /\ \A b, e : \A row \in Rows :
          Begins(b, values) /\ Evaluates(e, Fragments, b, row) => Answer(e[f], r, row)

\* More bind values change nothing.
LEMMA MeansMore ==
    ASSUME NEW f, NEW r, NEW values, NEW more, IsSeq(values), IsSeq(more), Means(f, r, values)
    PROVE  Means(f, r, values \o more)
<1> DEFINE all == values \o more
           S == {values[i] : i \in DOMAIN values}
           T == {more[i] : i \in DOMAIN more}
<1>1. values \in Seq(S) /\ more \in Seq(T)
  BY DEF IsSeq
<1> HIDE DEF S, T
<1>2. values \in Seq(S \cup T) /\ more \in Seq(S \cup T)
  BY <1>1
<1>3. /\ Len(all) = Len(values) + Len(more) /\ Len(values) \in Nat /\ Len(more) \in Nat
      /\ \A i \in 1 .. Len(values) + Len(more) :
            all[i] = IF i <= Len(values) THEN values[i] ELSE more[i - Len(values)]
  BY <1>2, ConcatProperties
<1> HIDE DEF all
<1>4. ASSUME NEW b, Begins(b, all) PROVE Begins(b, values)
  <2>1. \A i \in 1..Len(values) : i \in 1..Len(all) /\ all[i] = values[i]
    BY <1>3
  <2>2. QED  BY <1>4, <2>1 DEF Begins
<1>5. QED  BY <1>4 DEF Means, all

LEMMA LevelArithmetic ==
    ASSUME NEW k, k \in Nat
    PROVE  /\ 3 * k \in Nat /\ 3 * k + 3 \in Nat /\ 3 * (k + 1) = 3 * k + 3
           /\ k # 0 => k - 1 \in Nat /\ (k - 1) + 1 = k /\ 3 * (k - 1) + 3 = 3 * k
                       /\ 3 * (k - 1) <= 3 * k
           /\ 3 * k + 1 \in Nat /\ 3 * k + 1 <= 3 * k + 3
  OBVIOUS

LEMMA TreesLevel ==
    \E k \in Nat :
       \/ FilterLevels = k + 1 /\ FragmentLevels = 3 * k + 3 /\ Trees = TreesWithin[k + 1]
       \/ Trees = {}
<1>1. CASE FilterLevels = 0
  BY <1>1, LevelsStand DEF Trees
<1>2. CASE FilterLevels # 0
  <2>1. FilterLevels - 1 \in Nat /\ (FilterLevels - 1) + 1 = FilterLevels
    BY <1>2, LevelsAreNatural
  <2>2. 3 * FilterLevels = 3 * (FilterLevels - 1) + 3
    BY <2>1
  <2>3. QED  BY <2>1, <2>2 DEF Trees, FragmentLevels
<1>3. QED  BY <1>1, <1>2

\* The fragment asked for, where the node at an end of an interval was
\* rendered in its place.
LEMMA ServingMeans ==
    ASSUME NEW f, NEW r, NEW n, NEW p, NEW values, Serves(r, n, p), Means(f, Request(n, p), values),
           p = "whole" \/ n.kind # "Interval" \/ r = Request(n, p),
           r.node \in Nodes
    PROVE  Means(f, r, values)
<1>1. CASE r = Request(n, p)
  BY <1>1
<1>2. CASE r # Request(n, p)
  <2> DEFINE i == IF r.part = "start" THEN 1 ELSE 2
             a == r.node
             q == Request(n, p)
  <2>1. a.kind = "Interval" /\ r.part \in {"start", "end"} /\ p = "whole" /\ n = a.args[i]
    BY <1>2 DEF Serves
  <2>2. a \in Trees
    BY TreesAssumption
  <2>3. q.node = n /\ q.part = "whole"
    BY <2>1, EndsNeed
  <2>4. Len(a.args) = 2 /\ DOMAIN a.args = 1..Len(a.args) /\ i \in 1..2
    BY <2>1, <2>2, TreesClosed, FiltersAssumption
  <2>5. i \in DOMAIN a.args
    BY <2>4
  <2>6. Shallow(f, r)
    <3>1. SUFFICES ASSUME NEW k \in Nat, a \in TreesWithin[k + 1] PROVE f \in FragmentsWithin[3 * k]
      BY <2>1 DEF Shallow, Depth
    <3>2. n \in TreesWithin[k]
      BY <2>1, <2>5, <3>1, TreeFacts
    <3>3. k # 0
      BY <3>2, LevelsStand
    <3>4. k - 1 \in Nat /\ (k - 1) + 1 = k /\ 3 * (k - 1) + 3 = 3 * k
      BY <3>3, LevelArithmetic
    <3>5. n \in TreesWithin[(k - 1) + 1]
      BY <3>2, <3>4
    <3>6. f \in FragmentsWithin[Depth(q, k - 1)]
      BY <2>3, <3>4, <3>5 DEF Means, Shallow
    <3>7. Depth(q, k - 1) = 3 * (k - 1) + 3
      BY <2>3 DEF Depth
    <3>8. QED  BY <3>4, <3>6, <3>7
  <2>7. ASSUME NEW b, NEW e, NEW row \in Rows, Begins(b, values), Evaluates(e, Fragments, b, row)
        PROVE  Answer(e[f], r, row)
    <3> DEFINE x == e[f]
               o == OperandMeanings(a, row)
               m == Meaning(a, row)
    <3>1. Answer(x, q, row)
      BY <2>7 DEF Means
    <3>2. m = MeaningOf(a, o, row)
      BY <2>2, MeaningEquation
    <3>3. \/ m = Nothing
          \/ IsInterval(a, o) /\ m = Interval(o[1].start, o[2].start)
      BY <2>1, <3>2 DEF MeaningOf, IsInterval, Scalars
    <3>4. o[i] = Meaning(n, row) /\ DOMAIN o = DOMAIN a.args
      BY <2>1, <2>5 DEF OperandMeanings
    <3> HIDE DEF m, o, x, i
    <3>5. ~Relates(a, o)
      BY <2>1 DEF Relates
    <3>6. CASE m = Nothing
      <4>1. m.sort = "nothing"
        BY <3>6, Sorts
      <4>2. QED  BY <3>5, <4>1 DEF Answer, m, o
    <3>7. CASE IsInterval(a, o) /\ m = Interval(o[1].start, o[2].start)
      <4>1. m.sort = "interval" /\ m.start = o[1].start /\ m.end = o[2].start
        BY <3>7, Sorts
      <4>2. o[i].sort = "scalar"
        BY <2>5, <3>4, <3>7 DEF IsInterval, Scalars, Are
      <4>3. x = o[i].start
        BY <2>3, <3>1, <3>4, <4>2 DEF Answer
      <4>4. x = IF r.part = "end" THEN m.end ELSE m.start
        BY <2>1, <4>1, <4>3 DEF i
      <4>5. m.sort # "condition"
        BY <4>1
      <4>6. QED  BY <3>5, <4>4, <4>5 DEF Answer, m, o, x
    <3>8. QED  BY <3>3, <3>6, <3>7
  <2>8. QED  BY <2>6, <2>7 DEF Means
<1>3. QED  BY <1>1, <1>2


-----------------------------------------------------------------------------
(* How deep the templates are.                                             *)

\* The SQL of a relation is up to three levels deep.
LEMMA TemporalLevel ==
    ASSUME NEW k, k \in Nat, NEW op, NEW p, p \in Seq(FragmentsWithin[k]), Len(p) \in {2, 4}
    PROVE  TemporalSql(op, p) \in FragmentsWithin[k + 3]
<1>1. /\ k + 1 \in Nat /\ (k + 1) + 1 \in Nat /\ ((k + 1) + 1) + 1 = k + 3
      /\ k + 3 \in Nat /\ k + 1 <= k + 3 /\ (k + 1) + 1 <= k + 3
  OBVIOUS
<1> DEFINE S == FragmentsWithin[k]
           T == FragmentsWithin[k + 1]
           U == FragmentsWithin[(k + 1) + 1]
           V == FragmentsWithin[k + 3]
<1>2. T \subseteq V /\ U \subseteq V
  BY <1>1, HigherLevels
<1>3. Relations \subseteq Texts /\ "AND" \in Texts /\ "OR" \in Texts /\ "NOT" \in Texts
  BY DEF Relations, Texts
<1>4. \A a, c \in S : \A r \in Relations : Compare(a, r, c) \in T
  <2>1. \A a, c \in S : <<a, c>> \in Seq(S)
    BY Tuples
  <2>2. \A r \in Texts : \A s \in Seq(S) : Fragment(r, s) \in T
    BY FragmentLevel
  <2> HIDE DEF S, T
  <2>3. QED  BY <1>3, <2>1, <2>2 DEF Compare
<1>5. /\ \A a, c \in T : All(<<a, c>>) \in U /\ Any(<<a, c>>) \in U
      /\ \A a, c, d \in T : All(<<a, c, d>>) \in U
  <2>1. /\ \A a, c \in T : <<a, c>> \in Seq(T)
        /\ \A a, c, d \in T : <<a, c, d>> \in Seq(T)
    BY Tuples
  <2>2. \A r \in Texts : \A s \in Seq(T) : Fragment(r, s) \in U
    BY <1>1, FragmentLevel
  <2> HIDE DEF T, U
  <2>3. QED  BY <1>3, <2>1, <2>2 DEF All, Any
<1>6. \A a \in U : Fragment("NOT", <<a>>) \in V
  <2>1. \A a \in U : <<a>> \in Seq(U)
    BY Tuples
  <2>2. \A r \in Texts : \A s \in Seq(U) : Fragment(r, s) \in FragmentsWithin[((k + 1) + 1) + 1]
    BY <1>1, FragmentLevel
  <2>3. FragmentsWithin[((k + 1) + 1) + 1] = V
    BY <1>1
  <2> HIDE DEF U, V
  <2>4. QED  BY <1>3, <2>1, <2>2, <2>3
<1> HIDE DEF S, T, U, V
<1>7. \A i \in 1..Len(p) : p[i] \in S
  <2>1. p \in Seq(S)
    BY DEF S
  <2>2. QED  BY <2>1
<1>8. CASE Len(p) = 2
  <2>1. p[1] \in S /\ p[2] \in S
    BY <1>7, <1>8
  <2>2. PICK r \in Relations : TemporalSql(op, p) = Compare(p[1], r, p[2])
    <3>1. ">" \in Relations /\ "<" \in Relations /\ "=" \in Relations
      BY DEF Relations
    <3>2. QED  BY <1>8, <3>1 DEF TemporalSql
  <2>3. QED  BY <1>2, <1>4, <2>1, <2>2 DEF V
<1>9. CASE Len(p) = 4
  <2> DEFINE ls == p[1]
             le == p[2]
             rs == p[3]
             re == p[4]
             t == TemporalSql(op, p)
  <2>1. ls \in S /\ le \in S /\ rs \in S /\ re \in S
    BY <1>7, <1>9
  <2>2. \/ t = Disjoint(ls, le, rs, re)
        \/ t = Fragment("NOT", <<Disjoint(ls, le, rs, re)>>)
        \/ \E f, g \in Relations : t = All(<<Compare(ls, f, rs), Compare(le, g, re)>>)
        \/ \E f, g \in Relations : t = All(<<Compare(le, f, re), Compare(ls, g, rs)>>)
        \/ t = All(<<Compare(rs, "<", ls), Compare(re, ">", ls), Compare(re, "<", le)>>)
        \/ t = All(<<Compare(ls, "<", rs), Compare(le, ">", rs), Compare(le, "<", re)>>)
    BY <1>9, TemporalTemplates
  <2> HIDE DEF ls, le, rs, re, t
  <2>3. "<" \in Relations /\ ">" \in Relations
    BY DEF Relations
  <2>4. Disjoint(ls, le, rs, re) \in U
    BY <1>4, <1>5, <2>1, <2>3 DEF Disjoint
  <2>5. Fragment("NOT", <<Disjoint(ls, le, rs, re)>>) \in V
    BY <1>6, <2>4
  <2>6. \A f, g \in Relations : All(<<Compare(ls, f, rs), Compare(le, g, re)>>) \in U
    BY <1>4, <1>5, <2>1
  <2>7. \A f, g \in Relations : All(<<Compare(le, f, re), Compare(ls, g, rs)>>) \in U
    BY <1>4, <1>5, <2>1
  <2>8. All(<<Compare(rs, "<", ls), Compare(re, ">", ls), Compare(re, "<", le)>>) \in U
    BY <1>4, <1>5, <2>1, <2>3
  <2>9. All(<<Compare(ls, "<", rs), Compare(le, ">", rs), Compare(le, "<", re)>>) \in U
    BY <1>4, <1>5, <2>1, <2>3
  <2>10. t \in U \/ t \in V
    BY <2>2, <2>4, <2>5, <2>6, <2>7, <2>8, <2>9
  <2>11. QED  BY <1>2, <2>10 DEF t, V
<1>10. QED  BY <1>8, <1>9

LEMMA FlaggedLevel ==
    ASSUME NEW k, k \in Nat, NEW n, NEW sql, sql \in Texts, NEW p, p \in Seq(FragmentsWithin[k])
    PROVE  Flagged(n, Fragment(sql, p)) \in FragmentsWithin[k + 3]
<1>1. k + 1 \in Nat /\ (k + 1) + 1 \in Nat /\ k + 3 \in Nat /\ k + 1 <= k + 3 /\ (k + 1) + 1 <= k + 3
  OBVIOUS
<1> DEFINE f == Fragment(sql, p)
           T == FragmentsWithin[k + 1]
<1>2. f \in T
  BY FragmentLevel
<1>3. <<f>> \in Seq(T)
  BY <1>2, Tuples
<1> HIDE DEF f
<1>4. "NOT" \in Texts
  BY DEF Texts
<1>5. Fragment("NOT", <<f>>) \in FragmentsWithin[(k + 1) + 1]
  BY <1>1, <1>3, <1>4, FragmentLevel
<1>6. T \subseteq FragmentsWithin[k + 3] /\ FragmentsWithin[(k + 1) + 1] \subseteq FragmentsWithin[k + 3]
  BY <1>1, HigherLevels
<1>7. QED  BY <1>2, <1>5, <1>6 DEF Flagged, f

LEMMA TemplateLevel ==
    ASSUME NEW k, k \in Nat, NEW n, n \in Nodes, NEW p, p \in Seq(FragmentsWithin[k]),
           n.kind = "Temporal" => Len(p) \in {2, 4},
           n.kind = "Logical" /\ n.op = "NOT" => Len(p) = 1
    PROVE  Template(n, p) \in FragmentsWithin[k + 3]
<1>1. k + 1 \in Nat /\ (k + 1) + 1 \in Nat /\ k + 3 \in Nat /\ k + 1 <= k + 3 /\ (k + 1) + 1 <= k + 3
  OBVIOUS
<1>2. FragmentsWithin[k + 1] \subseteq FragmentsWithin[k + 3]
  BY <1>1, HigherLevels
<1>3. /\ n.op \in Texts /\ "NOT" \in Texts /\ "COALESCE" \in Texts /\ "LIKE" \in Texts
      /\ "BETWEEN" \in Texts /\ "IN" \in Texts /\ "IS NULL" \in Texts /\ "ROW" \in Texts
      /\ "ARRAY" \in Texts
  BY DEF Texts
<1>4. \A sql \in Texts : Fragment(sql, p) \in FragmentsWithin[k + 3]
  BY <1>2, FragmentLevel
<1>5. \A sql \in Texts : Flagged(n, Fragment(sql, p)) \in FragmentsWithin[k + 3]
  BY FlaggedLevel
<1>6. CASE n.kind = "Logical" /\ n.op = "NOT"
  <2> DEFINE S == FragmentsWithin[k]
             T == FragmentsWithin[k + 1]
             a == p[1]
  <2>1. a \in S
    <3>1. p \in Seq(S) /\ Len(p) = 1
      BY <1>6
    <3> HIDE DEF S
    <3>2. QED  BY <3>1
  <2>2. <<a>> \in Seq(S)
    BY <2>1, Tuples
  <2> HIDE DEF a
  <2> DEFINE c == Fragment("COALESCE", <<a>>)
  <2>3. c \in T
    BY <1>3, <2>2, FragmentLevel
  <2> HIDE DEF c
  <2>4. <<c>> \in Seq(T)
    BY <2>3, Tuples
  <2>5. Fragment("NOT", <<c>>) \in FragmentsWithin[(k + 1) + 1]
    BY <1>1, <1>3, <2>4, FragmentLevel
  <2>6. Template(n, p) = Fragment("NOT", <<c>>)
    BY <1>6 DEF Template, NotSql, c, a
  <2>7. FragmentsWithin[(k + 1) + 1] \subseteq FragmentsWithin[k + 3]
    BY <1>1, HigherLevels
  <2>8. QED  BY <2>5, <2>6, <2>7
<1>7. CASE n.kind = "Temporal"
  <2>1. Template(n, p) = TemporalSql(n.op, p)
    BY <1>7 DEF Template
  <2>2. Len(p) \in {2, 4}
    BY <1>7
  <2>3. QED  BY <2>1, <2>2, TemporalLevel
<1> DEFINE F(sql) == Fragment(sql, p)
           t == Template(n, p)
<1>8. CASE n.kind # "Temporal" /\ ~(n.kind = "Logical" /\ n.op = "NOT")
  <2>1. \/ t \in {Flagged(n, F("LIKE")), Flagged(n, F("BETWEEN")), Flagged(n, F("IN")), Flagged(n, F("IS NULL"))}
        \/ t \in {F("ROW"), F("ARRAY"), F(n.op)}
    BY <1>8 DEF Template
  <2>2. QED  BY <1>3, <1>4, <1>5, <2>1
<1>9. QED  BY <1>6, <1>7, <1>8

\* What a node asks for are its own ends, or its operands.
LEMMA RequestsShape ==
    ASSUME NEW n, n \in Nodes, NEW j, j \in 1..Len(Requests(n))
    PROVE  LET r == Requests(n)[j]
           IN  \/ n.kind = "Interval" /\ r.node = n /\ r.part \in {"start", "end"}
               \/ \E i \in DOMAIN n.args : r.node = n.args[i]
<1> DEFINE r == Requests(n)[j]
<1>1. DOMAIN n.args = 1..Len(n.args) /\ Len(n.args) \in Nat
  <2>1. n.args \in Seq(Nodes)
    BY FiltersAssumption
  <2>2. QED  BY <2>1
<1>2. \A m, p : Request(m, p).node = m /\ Request(m, p).part = p
  BY EndsNeed
<1>3. CASE n.kind = "Interval"
  <2>1. Requests(n) = <<Request(n, "start"), Request(n, "end")>>
    BY <1>3 DEF Requests
  <2>2. r = Request(n, "start") \/ r = Request(n, "end")
    BY <2>1
  <2>3. QED  BY <1>2, <1>3, <2>2
<1>4. CASE n.kind = "Temporal"
  <2> DEFINE a == n.args[1]
             b == n.args[2]
  <2>1. \/ Requests(n) = <<Request(a, "start"), Request(b, "end")>>
        \/ Requests(n) = <<Request(a, "end"), Request(b, "start")>>
        \/ Requests(n) = <<Request(a, "start"), Request(a, "end"), Request(b, "start"), Request(b, "end")>>
    BY <1>4 DEF Requests
  <2> HIDE DEF a, b
  <2>2. \/ r = Request(a, "start") \/ r = Request(a, "end")
        \/ r = Request(b, "start") \/ r = Request(b, "end")
    BY <2>1
  <2>3. r.node = a \/ r.node = b
    BY <1>2, <2>2
  <2>4. 1 \in DOMAIN n.args /\ 2 \in DOMAIN n.args
    <3>1. Len(n.args) = 2
      BY <1>4, FiltersAssumption
    <3>2. QED  BY <1>1, <3>1
  <2>5. QED  BY <2>3, <2>4 DEF a, b
<1>5. CASE n.kind \notin {"Interval", "Temporal"}
  <2>1. Requests(n) = [i \in DOMAIN n.args |-> Request(n.args[i], "whole")]
    BY <1>5 DEF Requests
  <2>2. Len(Requests(n)) = Len(n.args)
    BY <1>5, RequestsLength
  <2>3. j \in DOMAIN n.args /\ r = Request(n.args[j], "whole")
    BY <1>1, <2>1, <2>2
  <2>4. r.node = n.args[j]
    BY <1>2, <2>3
  <2>5. QED  BY <2>3, <2>4
<1>6. QED  BY <1>3, <1>4, <1>5

\* The fragments of the operands lie three levels below the node's own.
LEMMA DoneLevel ==
    ASSUME NEW n, n \in Nodes, NEW done, IsSeq(done), Len(done) = Len(Requests(n)),
           \A j \in 1..Len(done) : Shallow(done[j], Requests(n)[j]),
           NEW k, k \in Nat, n \in TreesWithin[k + 1]
    PROVE  done \in Seq(FragmentsWithin[3 * k])
<1>1. ASSUME NEW j, j \in 1..Len(done) PROVE done[j] \in FragmentsWithin[3 * k]
  <2> DEFINE r == Requests(n)[j]
  <2>1. Shallow(done[j], r) /\ j \in 1..Len(Requests(n))
    BY <1>1
  <2>2. \/ n.kind = "Interval" /\ r.node = n /\ r.part \in {"start", "end"}
        \/ \E i \in DOMAIN n.args : r.node = n.args[i]
    BY <2>1, RequestsShape
  <2> HIDE DEF r
  <2>3. CASE n.kind = "Interval" /\ r.node = n /\ r.part \in {"start", "end"}
    <3>1. Depth(r, k) = 3 * k
      BY <2>3 DEF Depth
    <3>2. QED  BY <2>1, <2>3, <3>1 DEF Shallow
  <2>4. CASE \E i \in DOMAIN n.args : r.node = n.args[i]
    <3>1. PICK i \in DOMAIN n.args : r.node = n.args[i]
      BY <2>4
    <3>2. r.node \in TreesWithin[k]
      BY <3>1, TreeFacts
    <3>3. k # 0
      BY <3>2, LevelsStand
    <3>4. /\ k - 1 \in Nat /\ (k - 1) + 1 = k /\ 3 * (k - 1) + 3 = 3 * k /\ 3 * (k - 1) <= 3 * k
          /\ 3 * k \in Nat /\ 3 * (k - 1) \in Nat
      BY <3>3, LevelArithmetic
    <3>5. r.node \in TreesWithin[(k - 1) + 1]
      BY <3>2, <3>4
    <3>6. done[j] \in FragmentsWithin[Depth(r, k - 1)]
      BY <2>1, <3>4, <3>5 DEF Shallow
    <3>7. Depth(r, k - 1) = 3 * (k - 1) \/ Depth(r, k - 1) = 3 * k
      BY <3>4 DEF Depth
    <3>8. FragmentsWithin[3 * (k - 1)] \subseteq FragmentsWithin[3 * k]
      BY <3>4, HigherLevels
    <3>9. QED  BY <3>6, <3>7, <3>8
  <2>5. QED  BY <2>2, <2>3, <2>4
<1> DEFINE S == FragmentsWithin[3 * k]
           D == {done[i] : i \in DOMAIN done}
<1>2. done \in Seq(D) /\ DOMAIN done = 1..Len(done)
  BY SeqIsFunction DEF IsSeq
<1>3. D \subseteq S
  BY <1>1, <1>2
<1> HIDE DEF S, D
<1>4. done \in Seq(S)
  BY <1>2, <1>3, SeqGrows
<1>5. QED  BY <1>4 DEF S

-----------------------------------------------------------------------------
(* What the templates say when their parts say what the operands mean.     *)

\* The parts p have the values that o says the operands have.
Given(e, p, o) ==
    \A i \in DOMAIN p :
        /\ o[i].sort = "scalar" => e[p[i]] = o[i].start /\ Known(o[i].start)
        /\ o[i].sort = "condition" =>
             /\ e[p[i]] \in Truths /\ o[i].truth \in {"true", "false"}
             /\ e[p[i]] = "true" <=> o[i].truth = "true"

\* The value of a template that is one fragment of p.
LEMMA PartsValue ==
    ASSUME NEW e, NEW b, NEW row, Evaluates(e, Fragments, b, row),
           NEW k, k \in Nat, k + 3 <= FragmentLevels,
           NEW sql, sql \in Texts, NEW p, p \in Seq(FragmentsWithin[k])
    PROVE  /\ Fragment(sql, p).sql = sql
           /\ Fragment(sql, p) \in FragmentsWithin[k + 1]
           /\ \E v : /\ DOMAIN v = DOMAIN p /\ \A i \in DOMAIN p : v[i] = e[p[i]]
                     /\ e[Fragment(sql, p)] = Outcome(Fragment(sql, p), v, b, row)
<1> DEFINE v == [i \in DOMAIN p |-> e[p[i]]]
           f == Fragment(sql, p)
<1>1. k + 1 <= FragmentLevels
  <2>1. FragmentLevels \in Nat
    BY LevelsAreNatural
  <2>2. QED  BY <2>1
<1>2. DOMAIN v = DOMAIN p /\ \A i \in DOMAIN p : v[i] = e[p[i]]
  OBVIOUS
<1> HIDE DEF v
<1>3. v = [i \in DOMAIN p |-> e[p[i]]]
  BY DEF v
<1>4. f \in FragmentsWithin[k + 1] /\ e[f] = Outcome(f, v, b, row) /\ f.sql = sql
  BY <1>1, <1>3, FragmentValue
<1>5. QED  BY <1>2, <1>4

LEMMA PartsDomain ==
    ASSUME NEW S, NEW p, p \in Seq(S)
    PROVE  DOMAIN p = 1..Len(p) /\ Len(p) \in Nat
  OBVIOUS

\* Two scalars compared, or calculated with.
LEMMA ComparisonValue ==
    ASSUME NEW e, NEW b, NEW row, Evaluates(e, Fragments, b, row),
           NEW k, k \in Nat, k + 3 <= FragmentLevels, NEW p, p \in Seq(FragmentsWithin[k]),
           NEW o, Given(e, p, o), Len(p) = 2, o[1].sort = "scalar", o[2].sort = "scalar",
           NEW op, op \in ComparisonSql
    PROVE  LET x == e[Fragment(op, p)]
           IN  x \in Truths /\ (x = "true" <=> Some(op, o[1].start, o[2].start))
<1>1. op \in Texts
  BY DEF Texts, ComparisonSql
<1>2. PICK v : /\ DOMAIN v = DOMAIN p /\ \A i \in DOMAIN p : v[i] = e[p[i]]
               /\ e[Fragment(op, p)] = Outcome(Fragment(op, p), v, b, row)
  BY <1>1, PartsValue
<1>3. Fragment(op, p).sql = op
  BY DEF Fragment
<1>4. 1 \in DOMAIN p /\ 2 \in DOMAIN p
  BY PartsDomain
<1>5. v[1] = o[1].start /\ v[2] = o[2].start
  BY <1>2, <1>4 DEF Given
<1> DEFINE f == Fragment(op, p)
<1>6. e[f] = Outcome(f, v, b, row) /\ f.sql = op
  BY <1>2, <1>3
<1> HIDE DEF f
<1>7. e[f] = Compared(op, v[1], v[2])
  BY <1>6, OutcomeOfComparison
<1>8. QED  BY <1>5, <1>7, ComparedTruth DEF f

LEMMA SumValue ==
    ASSUME NEW e, NEW b, NEW row, Evaluates(e, Fragments, b, row),
           NEW k, k \in Nat, k + 3 <= FragmentLevels, NEW p, p \in Seq(FragmentsWithin[k]),
           NEW o, Given(e, p, o), Len(p) = 2, o[1].sort = "scalar", o[2].sort = "scalar",
           NEW op, op \in Calculations, op \in Texts
    PROVE  e[Fragment(op, p)] = Calculated(op, o[1].start, o[2].start)
<1>2. PICK v : /\ DOMAIN v = DOMAIN p /\ \A i \in DOMAIN p : v[i] = e[p[i]]
               /\ e[Fragment(op, p)] = Outcome(Fragment(op, p), v, b, row)
  BY PartsValue
<1>3. Fragment(op, p).sql = op
  BY DEF Fragment
<1>4. 1 \in DOMAIN p /\ 2 \in DOMAIN p
  BY PartsDomain
<1>5. v[1] = o[1].start /\ v[2] = o[2].start
  BY <1>2, <1>4 DEF Given
<1> DEFINE f == Fragment(op, p)
<1>6. e[f] = Outcome(f, v, b, row) /\ f.sql = op
  BY <1>2, <1>3
<1> HIDE DEF f
<1>7. e[f] = Calculated(op, v[1], v[2])
  BY <1>6, OutcomeOfSum
<1>8. QED  BY <1>5, <1>7 DEF f

\* The Not flag of a predicate.
LEMMA FlaggedValue ==
    ASSUME NEW e, NEW b, NEW row, Evaluates(e, Fragments, b, row),
           NEW k, k \in Nat, k + 1 <= FragmentLevels, NEW f, f \in FragmentsWithin[k],
           e[f] \in Truths, NEW n
    PROVE  LET x == e[Flagged(n, f)]
           IN  x \in Truths /\ (n.op = "NOT" => (x = "true" <=> e[f] = "false"))
               /\ (n.op # "NOT" => (x = "true" <=> e[f] = "true"))
<1>2. e[Fragment("NOT", <<f>>)] = Negation(e[f])
  BY OneValue
<1>3. Negation(e[f]) \in Truths /\ (Negation(e[f]) = "true" <=> e[f] = "false")
  BY TruthTables
<1>4. CASE n.op = "NOT"
  <2>1. Flagged(n, f) = Fragment("NOT", <<f>>)
    BY <1>4 DEF Flagged
  <2>2. QED  BY <1>2, <1>3, <1>4, <2>1
<1>5. CASE n.op # "NOT"
  <2>1. Flagged(n, f) = f
    BY <1>5 DEF Flagged
  <2>2. QED  BY <1>5, <2>1
<1>6. QED  BY <1>4, <1>5

LEMMA KnownOrder ==
    ASSUME NEW V, NEW L, NEW U, Known(V), Known(L), Known(U)
    PROVE  /\ Some(">=", V, L) /\ Some("<=", V, U) <=> \E x \in V, y \in L, z \in U : y <= x /\ x <= z
           /\ V # {} /\ L # {} /\ ~Some(">=", V, L) <=> \E x \in V, y \in L : x < y
           /\ V # {} /\ U # {} /\ ~Some("<=", V, U) <=> \E x \in V, y \in U : x > y
  BY DEF Known, Some, Related

LEMMA BetweenValue ==
    ASSUME NEW e, NEW b, NEW row, Evaluates(e, Fragments, b, row),
           NEW k, k \in Nat, k + 3 <= FragmentLevels, NEW p, p \in Seq(FragmentsWithin[k]),
           NEW o, Given(e, p, o), Len(p) = 3,
           o[1].sort = "scalar", o[2].sort = "scalar", o[3].sort = "scalar", NEW n
    PROVE  LET x == e[Flagged(n, Fragment("BETWEEN", p))]
           IN  x \in Truths /\ (x = "true" <=> Between(n, o[1].start, o[2].start, o[3].start))
<1> DEFINE f == Fragment("BETWEEN", p)
           V == o[1].start
           L == o[2].start
           U == o[3].start
<1>1. "BETWEEN" \in Texts
  BY DEF Texts
<1>2. PICK v : /\ DOMAIN v = DOMAIN p /\ \A i \in DOMAIN p : v[i] = e[p[i]]
               /\ e[f] = Outcome(f, v, b, row)
  BY <1>1, PartsValue
<1>3. f \in FragmentsWithin[k + 1] /\ f.sql = "BETWEEN"
  BY <1>1, PartsValue
<1>4. 1 \in DOMAIN p /\ 2 \in DOMAIN p /\ 3 \in DOMAIN p
  BY PartsDomain
<1>5. v[1] = V /\ v[2] = L /\ v[3] = U /\ Known(V) /\ Known(L) /\ Known(U)
  BY <1>2, <1>4 DEF Given
<1> HIDE DEF f, V, L, U
<1> DEFINE s == Compared(">=", V, L)
           t == Compared("<=", V, U)
<1>6. e[f] = Conjunction({s, t})
  <2>1. e[f] = Conjunction({Compared(">=", v[1], v[2]), Compared("<=", v[1], v[3])})
    BY ONLY <1>2, <1>3, OutcomeOfBetween
  <2>2. QED  BY <1>5, <2>1
<1>7. /\ s \in Truths /\ (s = "true" <=> Some(">=", V, L))
      /\ s = "false" <=> V # {} /\ L # {} /\ ~Some(">=", V, L)
      /\ t \in Truths /\ (t = "true" <=> Some("<=", V, U))
      /\ t = "false" <=> V # {} /\ U # {} /\ ~Some("<=", V, U)
  BY ComparedTruth
<1> HIDE DEF s, t
<1>8. /\ e[f] \in Truths /\ (e[f] = "true" <=> s = "true" /\ t = "true")
      /\ e[f] = "false" <=> s = "false" \/ t = "false"
  BY <1>6, <1>7, TwoTruths
<1>9. /\ s = "true" /\ t = "true" <=> \E x \in V, y \in L, z \in U : y <= x /\ x <= z
      /\ s = "false" <=> \E x \in V, y \in L : x < y
      /\ t = "false" <=> \E x \in V, y \in U : x > y
  BY <1>5, <1>7, KnownOrder
<1> DEFINE x == e[Flagged(n, f)]
<1>10. x \in Truths /\ (n.op = "NOT" => (x = "true" <=> e[f] = "false"))
      /\ (n.op # "NOT" => (x = "true" <=> e[f] = "true"))
  <2> DEFINE j == k + 1
  <2>1. Evaluates(e, Fragments, b, row) /\ j \in Nat /\ j + 1 <= FragmentLevels
    BY LevelsAreNatural
  <2>2. f \in FragmentsWithin[j] /\ e[f] \in Truths
    BY <1>3, <1>8
  <2> HIDE DEF j
  <2>3. QED  BY ONLY <2>1, <2>2, FlaggedValue
<1> HIDE DEF x
<1>11. x = "true" <=> Between(n, V, L, U)
  BY <1>8, <1>9, <1>10 DEF Between
<1>12. QED  BY <1>10, <1>11 DEF x, f, V, L, U

LEMMA AmongValue ==
    ASSUME NEW e, NEW b, NEW row, Evaluates(e, Fragments, b, row),
           NEW k, k \in Nat, k + 3 <= FragmentLevels, NEW p, p \in Seq(FragmentsWithin[k]),
           NEW o, Given(e, p, o), Len(p) > 1, DOMAIN o = DOMAIN p, Are(o, {"scalar"}), NEW n
    PROVE  LET x == e[Flagged(n, Fragment("IN", p))]
           IN  x \in Truths /\ (x = "true" <=> Among(n, o[1].start, o))
<1> DEFINE f == Fragment("IN", p)
           V == o[1].start
           others == DOMAIN o \ {1}
<1>1. "IN" \in Texts
  BY DEF Texts
<1>2. PICK v : /\ DOMAIN v = DOMAIN p /\ \A i \in DOMAIN p : v[i] = e[p[i]]
               /\ e[f] = Outcome(f, v, b, row)
  BY <1>1, PartsValue
<1>3. f \in FragmentsWithin[k + 1] /\ f.sql = "IN"
  BY <1>1, PartsValue
<1>4. 1 \in DOMAIN p /\ 2 \in DOMAIN p
  <2>1. DOMAIN p = 1..Len(p) /\ Len(p) \in Nat
    BY PartsDomain
  <2>2. QED  BY <2>1
<1>5. \A i \in DOMAIN o : v[i] = o[i].start /\ i \in DOMAIN p
  BY <1>2 DEF Given, Are
<1> HIDE DEF f
<1> DEFINE S == {Compared("=", v[1], v[i]) : i \in DOMAIN v \ {1}}
<1>6. e[f] = Disjunction(S)
  BY ONLY <1>2, <1>3, OutcomeOfIn
<1>7. \A i \in others : /\ Compared("=", v[1], v[i]) = Compared("=", V, o[i].start)
                        /\ Compared("=", v[1], v[i]) \in S
  BY <1>2, <1>4, <1>5
<1>8. \A t \in S : \E i \in others : t = Compared("=", V, o[i].start)
  BY <1>2, <1>4, <1>5
<1>9. \A i : /\ Compared("=", V, o[i].start) \in Truths
             /\ Compared("=", V, o[i].start) = "true" <=> Some("=", V, o[i].start)
             /\ Compared("=", V, o[i].start) = "false" <=>
                  V # {} /\ o[i].start # {} /\ ~Some("=", V, o[i].start)
  BY ComparedTruth
<1> HIDE DEF S
<1>10. S \in SUBSET Truths
  BY <1>8, <1>9
<1>11. /\ e[f] \in Truths /\ (e[f] = "true" <=> "true" \in S)
       /\ e[f] = "false" <=> \A t \in S : t = "false"
  BY <1>6, <1>10, TruthTables
<1>12. "true" \in S <=> \E i \in others : Some("=", V, o[i].start)
  BY <1>7, <1>8, <1>9
<1>13. (\A t \in S : t = "false") <=> \A i \in others : V # {} /\ o[i].start # {} /\ ~Some("=", V, o[i].start)
  BY <1>7, <1>8, <1>9
<1>14. 2 \in others
  BY <1>4
<1>15. \A i : Some("=", V, o[i].start) <=> \E x \in V, y \in o[i].start : x = y
  BY DEF Some, Related
<1> DEFINE x == e[Flagged(n, f)]
<1>16. x \in Truths /\ (n.op = "NOT" => (x = "true" <=> e[f] = "false"))
      /\ (n.op # "NOT" => (x = "true" <=> e[f] = "true"))
  <2> DEFINE j == k + 1
  <2>1. Evaluates(e, Fragments, b, row) /\ j \in Nat /\ j + 1 <= FragmentLevels
    BY LevelsAreNatural
  <2>2. f \in FragmentsWithin[j] /\ e[f] \in Truths
    BY <1>3, <1>11
  <2> HIDE DEF j
  <2>3. QED  BY ONLY <2>1, <2>2, FlaggedValue
<1> HIDE DEF x, V
<1>17. x = "true" <=> Among(n, V, o)
  <2>1. CASE n.op = "NOT"
    <3>1. Among(n, V, o) <=> V # {} /\ \A i \in others : o[i].start # {} /\ ~Some("=", V, o[i].start)
      BY <1>15, <2>1 DEF Among
    <3>2. QED  BY <1>11, <1>13, <1>14, <1>16, <2>1, <3>1
  <2>2. CASE n.op # "NOT"
    <3>1. Among(n, V, o) <=> \E i \in others : Some("=", V, o[i].start)
      BY <1>15, <2>2 DEF Among
    <3>2. QED  BY <1>11, <1>12, <1>16, <2>2, <3>1
  <2>3. QED  BY <2>1, <2>2
<1>18. QED  BY <1>16, <1>17 DEF x, f, V

NullTest(p) == Fragment("IS NULL", p)

LEMMA NullValue ==
    ASSUME NEW e, NEW b, NEW row, Evaluates(e, Fragments, b, row),
           NEW k, k \in Nat, k + 3 <= FragmentLevels, NEW p, p \in Seq(FragmentsWithin[k]),
           NEW o, Given(e, p, o), Len(p) = 1, o[1].sort = "scalar", NEW n
    PROVE  LET x == e[Flagged(n, NullTest(p))]
           IN  /\ x \in Truths /\ (n.op = "NOT" => (x = "true" <=> o[1].start # {}))
               /\ n.op # "NOT" => (x = "true" <=> o[1].start = {})
<1> DEFINE sql == "IS NULL"
           f == Fragment(sql, p)
           V == o[1].start
<1>1. sql \in Texts
  BY DEF Texts
<1> HIDE DEF sql
<1>2. PICK v : /\ DOMAIN v = DOMAIN p /\ \A i \in DOMAIN p : v[i] = e[p[i]]
               /\ e[f] = Outcome(f, v, b, row)
  BY <1>1, PartsValue
<1>3. f \in FragmentsWithin[k + 1] /\ f.sql = sql
  BY <1>1, PartsValue
<1>4. 1 \in DOMAIN p
  BY PartsDomain
<1>5. v[1] = V
  BY <1>2, <1>4 DEF Given
<1> HIDE DEF f, V
<1>6. (V = {} => e[f] = "true") /\ (V # {} => e[f] = "false")
  <2>1. f.sql = "IS NULL"
    BY <1>3 DEF sql
  <2> DEFINE x == Outcome(f, v, b, row)
  <2>2. (v[1] = {} => x = "true") /\ (v[1] # {} => x = "false")
    BY ONLY <2>1, OutcomeOfNull, Zenon
  <2> HIDE DEF x
  <2>3. e[f] = x
    BY <1>2 DEF x
  <2>4. QED  BY <1>5, <2>2, <2>3
<1>7. e[f] \in Truths /\ (e[f] = "true" <=> V = {}) /\ (e[f] = "false" <=> V # {})
  BY <1>6 DEF Truths
<1> DEFINE x == e[Flagged(n, f)]
<1>8. x \in Truths /\ (n.op = "NOT" => (x = "true" <=> e[f] = "false"))
      /\ (n.op # "NOT" => (x = "true" <=> e[f] = "true"))
  <2> DEFINE j == k + 1
  <2>1. Evaluates(e, Fragments, b, row) /\ j \in Nat /\ j + 1 <= FragmentLevels
    BY LevelsAreNatural
  <2>2. f \in FragmentsWithin[j] /\ e[f] \in Truths
    BY <1>3, <1>7
  <2> HIDE DEF j
  <2>3. QED  BY ONLY <2>1, <2>2, FlaggedValue
<1> HIDE DEF x
<1>9. /\ n.op = "NOT" => (x = "true" <=> V # {})
      /\ n.op # "NOT" => (x = "true" <=> V = {})
  BY <1>7, <1>8
<1>10. NullTest(p) = f
  BY Zenon DEF NullTest, f, sql
<1>11. QED  BY <1>8, <1>9, <1>10 DEF x, V

LEMMA NotValue ==
    ASSUME NEW e, NEW b, NEW row, Evaluates(e, Fragments, b, row),
           NEW k, k \in Nat, k + 3 <= FragmentLevels, NEW p, p \in Seq(FragmentsWithin[k]),
           NEW o, Given(e, p, o), Len(p) = 1, o[1].sort = "condition"
    PROVE  LET x == e[NotSql(p[1])]
           IN  x \in Truths /\ (x = "true" <=> o[1].truth = "false")
<1> DEFINE a == p[1]
           c == Fragment("COALESCE", <<a>>)
           x == Fragment("NOT", <<c>>)
           j == k + 1
<1>1. k + 1 <= FragmentLevels /\ j \in Nat /\ j + 1 <= FragmentLevels
  BY LevelsAreNatural
<1>2. 1 \in DOMAIN p
  BY PartsDomain
<1>3. a \in FragmentsWithin[k]
  <2> DEFINE S == FragmentsWithin[k]
  <2>1. p \in Seq(S)
    OBVIOUS
  <2> HIDE DEF S
  <2>2. 1 \in 1..Len(p)
    OBVIOUS
  <2>3. a \in S
    BY ONLY <2>1, <2>2, ElementOfSeq
  <2>4. QED  BY <2>3 DEF S
<1>4. /\ e[a] \in Truths /\ o[1].truth \in {"true", "false"}
      /\ e[a] = "true" <=> o[1].truth = "true"
  BY <1>2 DEF Given
<1> HIDE DEF a
<1>5. /\ c \in FragmentsWithin[j]
      /\ e[a] = "unknown" => e[c] = "false"
      /\ e[a] # "unknown" => e[c] = e[a]
  <2>1. Evaluates(e, Fragments, b, row) /\ k \in Nat /\ k + 1 <= FragmentLevels /\ a \in FragmentsWithin[k]
    BY <1>1, <1>3
  <2>2. QED  BY ONLY <2>1, OneValue
<1>6. e[c] \in {"true", "false"} /\ (e[c] = "true" <=> e[a] = "true")
  BY <1>4, <1>5 DEF Truths
<1> HIDE DEF c, j
<1>7. e[x] = Negation(e[c])
  <2>1. Evaluates(e, Fragments, b, row) /\ j \in Nat /\ j + 1 <= FragmentLevels /\ c \in FragmentsWithin[j]
    BY <1>1, <1>5
  <2>2. QED  BY ONLY <2>1, OneValue
<1>8. e[c] \in Truths
  BY <1>6 DEF Truths
<1>9. e[x] \in Truths /\ (e[x] = "true" <=> e[c] = "false")
  BY <1>7, <1>8, TruthTables
<1> HIDE DEF x
<1>10. e[x] \in Truths /\ (e[x] = "true" <=> o[1].truth = "false")
  BY <1>4, <1>6, <1>9
<1>11. NotSql(p[1]) = x
  BY DEF NotSql, x, c, a
<1>12. QED  BY <1>10, <1>11

LEMMA ListTruth ==
    ASSUME NEW e, NEW b, NEW row, Evaluates(e, Fragments, b, row),
           NEW k, k \in Nat, k + 3 <= FragmentLevels, NEW p, p \in Seq(FragmentsWithin[k]),
           NEW o, Given(e, p, o), DOMAIN o = DOMAIN p, Are(o, {"condition"})
    PROVE  LET x == e[Fragment("AND", p)]
               y == e[Fragment("OR", p)]
           IN  /\ x \in Truths /\ (x = "true" <=> \A i \in DOMAIN o : o[i].truth = "true")
               /\ y \in Truths /\ (y = "true" <=> \E i \in DOMAIN o : o[i].truth = "true")
<1> DEFINE x == e[Fragment("AND", p)]
           y == e[Fragment("OR", p)]
           S == {e[p[i]] : i \in DOMAIN p}
<1>1. k + 1 <= FragmentLevels
  BY LevelsAreNatural
<1>2. x = Conjunction(S) /\ y = Disjunction(S)
  <2>1. /\ e[Fragment("AND", p)] = Conjunction({e[p[i]] : i \in DOMAIN p})
        /\ e[Fragment("OR", p)] = Disjunction({e[p[i]] : i \in DOMAIN p})
    BY <1>1, ListValue
  <2>2. QED  BY ONLY <2>1
<1>3. \A i \in DOMAIN o : e[p[i]] \in Truths /\ (e[p[i]] = "true" <=> o[i].truth = "true")
  BY DEF Given, Are
<1>4. \A t : t \in S <=> \E i \in DOMAIN p : t = e[p[i]]
  OBVIOUS
<1> HIDE DEF S, x, y
<1>5. S \in SUBSET Truths
  BY <1>3, <1>4
<1>6. /\ x \in Truths /\ (x = "true" <=> \A t \in S : t = "true")
      /\ y \in Truths /\ (y = "true" <=> "true" \in S)
  BY <1>2, <1>5, TruthTables
<1>7. (\A t \in S : t = "true") <=> \A i \in DOMAIN o : o[i].truth = "true"
  BY <1>3, <1>4
<1>8. "true" \in S <=> \E i \in DOMAIN o : o[i].truth = "true"
  BY <1>3, <1>4
<1>9. QED  BY <1>6, <1>7, <1>8 DEF x, y

\* The SQL of a condition on operands that are rendered as a whole.
LEMMA ConditionValue ==
    ASSUME NEW e, NEW b, NEW row, Evaluates(e, Fragments, b, row),
           NEW k, k \in Nat, k + 3 <= FragmentLevels, NEW p, p \in Seq(FragmentsWithin[k]),
           NEW o, Given(e, p, o), NEW n, Len(p) = Len(n.args), DOMAIN o = DOMAIN p,
           n.kind = "In" => Len(p) > 1, n.kind = "Logical" /\ n.op = "NOT" => Len(p) = 1,
           n.kind \notin {"Literal", "Temporal"},
           NEW m, ConditionForm(n, o, m)
    PROVE  LET x == e[Template(n, p)]
           IN  x \in Truths /\ (x = "true" <=> m.truth = "true")
<1> DEFINE x == e[Template(n, p)]
           Says(P) == x \in Truths /\ (x = "true" <=> P)
<1>1. DOMAIN p = 1..Len(p) /\ Len(p) \in Nat
  BY PartsDomain
<1>2. /\ \A i \in DOMAIN o : Are(o, {"scalar"}) => o[i].sort = "scalar"
      /\ \A i \in DOMAIN o : Are(o, {"condition"}) => o[i].sort = "condition"
  BY DEF Are
<1>3. \A P \in BOOLEAN : m = Condition(P) => (m.truth = "true" <=> P)
  BY ConditionSort
<1>4. CASE /\ n.kind = "Comparison" /\ n.op \in ComparisonSql /\ Scalars(n, o, 2)
           /\ m = Condition(\E y \in o[1].start, z \in o[2].start : Related(n.op, y, z))
  <2>1. m.truth = "true" <=> Some(n.op, o[1].start, o[2].start)
    BY <1>4, ConditionSort DEF Some
  <2>2. Len(p) = 2 /\ o[1].sort = "scalar" /\ o[2].sort = "scalar"
    BY <1>1, <1>2, <1>4 DEF Scalars
  <2>3. Template(n, p) = Fragment(n.op, p)
    BY <1>4 DEF Template
  <2> DEFINE q == n.op
             f == Fragment(q, p)
  <2>4. q \in ComparisonSql
    BY <1>4
  <2> HIDE DEF q
  <2>5. e[f] \in Truths /\ (e[f] = "true" <=> Some(q, o[1].start, o[2].start))
    BY <2>2, <2>4, ComparisonValue
  <2>6. QED  BY <2>1, <2>3, <2>5 DEF q
<1>5. CASE /\ n.kind = "Between" /\ Scalars(n, o, 3)
           /\ m = Condition(Between(n, o[1].start, o[2].start, o[3].start))
  <2>1. Between(n, o[1].start, o[2].start, o[3].start) \in BOOLEAN
    BY DEF Between
  <2>2. m.truth = "true" <=> Between(n, o[1].start, o[2].start, o[3].start)
    BY <1>5, <2>1, ConditionSort
  <2>3. Len(p) = 3 /\ o[1].sort = "scalar" /\ o[2].sort = "scalar" /\ o[3].sort = "scalar"
    BY <1>1, <1>2, <1>5 DEF Scalars
  <2> DEFINE f == Flagged(n, Fragment("BETWEEN", p))
  <2>4. Template(n, p) = f
    BY <1>5 DEF Template
  <2>5. e[f] \in Truths /\ (e[f] = "true" <=> Between(n, o[1].start, o[2].start, o[3].start))
    BY <2>3, BetweenValue
  <2> HIDE DEF f
  <2>6. QED  BY <2>2, <2>4, <2>5
<1>6. CASE n.kind = "In" /\ Are(o, {"scalar"}) /\ m = Condition(Among(n, o[1].start, o))
  <2>1. Among(n, o[1].start, o) \in BOOLEAN
    BY DEF Among
  <2>2. m.truth = "true" <=> Among(n, o[1].start, o)
    BY <1>6, <2>1, ConditionSort
  <2> DEFINE f == Flagged(n, Fragment("IN", p))
  <2>3. Template(n, p) = f
    BY <1>6 DEF Template
  <2>4. Len(p) > 1
    BY <1>6
  <2>5. e[f] \in Truths /\ (e[f] = "true" <=> Among(n, o[1].start, o))
    BY <1>6, <2>4, AmongValue
  <2> HIDE DEF f
  <2>6. QED  BY <2>2, <2>3, <2>5
<1>7. CASE /\ n.kind = "IsNull" /\ Scalars(n, o, 1)
           /\ m = Condition((n.op = "NOT") # (o[1].start = {}))
  <2>1. m.truth = "true" <=> (n.op = "NOT") # (o[1].start = {})
    BY <1>7, ConditionSort
  <2>2. Len(p) = 1 /\ o[1].sort = "scalar"
    BY <1>1, <1>2, <1>7 DEF Scalars
  <2> DEFINE f == Flagged(n, NullTest(p))
  <2>3. Template(n, p) = f
    BY <1>7, Zenon DEF Template, NullTest
  <2>4. /\ e[f] \in Truths /\ (n.op = "NOT" => (e[f] = "true" <=> o[1].start # {}))
        /\ n.op # "NOT" => (e[f] = "true" <=> o[1].start = {})
    BY <2>2, NullValue
  <2> HIDE DEF f
  <2>5. QED  BY <2>1, <2>3, <2>4
<1>8. CASE /\ n.kind = "Logical" /\ n.op = "NOT" /\ Are(o, {"condition"})
           /\ m = Condition(o[1].truth = "false")
  <2>1. m.truth = "true" <=> o[1].truth = "false"
    BY <1>8, ConditionSort
  <2>2. Len(p) = 1 /\ o[1].sort = "condition"
    <3>1. Len(p) = 1
      BY <1>8
    <3>2. 1 \in DOMAIN o
      BY <1>1, <3>1
    <3>3. QED  BY <1>2, <1>8, <3>1, <3>2
  <2> DEFINE f == NotSql(p[1])
  <2>3. Template(n, p) = f
    BY <1>8 DEF Template
  <2>4. e[f] \in Truths /\ (e[f] = "true" <=> o[1].truth = "false")
    BY <2>2, NotValue
  <2> HIDE DEF f
  <2>5. QED  BY <2>1, <2>3, <2>4
<1>9. CASE /\ n.kind = "Logical" /\ n.op = "AND" /\ Are(o, {"condition"})
           /\ m = Condition(\A i \in DOMAIN o : o[i].truth = "true")
  <2>1. m.truth = "true" <=> \A i \in DOMAIN o : o[i].truth = "true"
    BY <1>9, ConditionSort
  <2> DEFINE f == Fragment("AND", p)
  <2>2. Template(n, p) = f
    BY <1>9 DEF Template
  <2>3. e[f] \in Truths /\ (e[f] = "true" <=> \A i \in DOMAIN o : o[i].truth = "true")
    BY <1>9, ListTruth
  <2> HIDE DEF f
  <2>4. QED  BY <2>1, <2>2, <2>3
<1>10. CASE /\ n.kind = "Logical" /\ n.op = "OR" /\ Are(o, {"condition"})
            /\ m = Condition(\E i \in DOMAIN o : o[i].truth = "true")
  <2>1. m.truth = "true" <=> \E i \in DOMAIN o : o[i].truth = "true"
    BY <1>10, ConditionSort
  <2> DEFINE f == Fragment("OR", p)
  <2>2. Template(n, p) = f
    BY <1>10 DEF Template
  <2>3. e[f] \in Truths /\ (e[f] = "true" <=> \E i \in DOMAIN o : o[i].truth = "true")
    BY <1>10, ListTruth
  <2> HIDE DEF f
  <2>4. QED  BY <2>1, <2>2, <2>3
<1>11. QED
  BY <1>4, <1>5, <1>6, <1>7, <1>8, <1>9, <1>10 DEF ConditionForm, IsBoolean, Relates

-----------------------------------------------------------------------------
(* A node's template says what the node means.                             *)

LEMMA MeaningTruth ==
    ASSUME NEW row, NEW n, n \in Trees, Meaning(n, row).sort = "condition"
    PROVE  Meaning(n, row).truth \in {"true", "false"}
<1> DEFINE o == OperandMeanings(n, row)
           x == MeaningOf(n, o, row)
<1>1. Meaning(n, row) = x
  BY MeaningEquation
<1>2. \/ x = Nothing \/ ScalarForm(n, o, row, x)
      \/ IsInterval(n, o) /\ x = Interval(o[1].start, o[2].start)
      \/ ConditionForm(n, o, x)
  BY MeaningForms
<1> HIDE DEF x, o
<1>3. x.sort = "condition"
  BY <1>1
<1>4. x # Nothing /\ (\A v : x # Scalar(v)) /\ (\A s, e : x # Interval(s, e))
  BY <1>3, Sorts
<1>5. ConditionForm(n, o, x)
  BY <1>2, <1>4 DEF ScalarForm
<1>6. QED  BY <1>1, <1>5, ConditionTruth

\* The fragments of a node's operands have been given what they must say.
Answered(e, done, n, row) ==
    \A j \in 1..Len(done) : Answer(e[done[j]], Requests(n)[j], row)

LEMMA WholeAnswers ==
    ASSUME NEW row, row \in Rows, NEW n, n \in Nodes, n.kind \notin {"Interval", "Temporal"},
           NEW done, IsSeq(done), Len(done) = Len(Requests(n)), NEW e, Answered(e, done, n, row)
    PROVE  /\ Given(e, done, OperandMeanings(n, row))
           /\ DOMAIN OperandMeanings(n, row) = DOMAIN done
           /\ Len(done) = Len(n.args)
<1> DEFINE o == OperandMeanings(n, row)
<1>1. DOMAIN n.args = 1..Len(n.args) /\ Len(n.args) \in Nat /\ \A i \in DOMAIN n.args : n.args[i] \in Trees
  BY TreesAssumption, TreesClosed
<1>2. Len(done) = Len(n.args)
  BY RequestsLength
<1>3. DOMAIN done = 1..Len(done)
  BY SeqIsFunction
<1>4. DOMAIN o = DOMAIN n.args /\ \A i \in DOMAIN n.args : o[i] = Meaning(n.args[i], row)
  BY DEF OperandMeanings
<1>5. Requests(n) = [i \in DOMAIN n.args |-> Request(n.args[i], "whole")]
  BY DEF Requests
<1> HIDE DEF o
<1>6. ASSUME NEW i \in DOMAIN done
      PROVE  /\ o[i].sort = "scalar" => e[done[i]] = o[i].start /\ Known(o[i].start)
             /\ o[i].sort = "condition" =>
                  /\ e[done[i]] \in Truths /\ o[i].truth \in {"true", "false"}
                  /\ e[done[i]] = "true" <=> o[i].truth = "true"
  <2> DEFINE a == n.args[i]
             x == e[done[i]]
  <2>1. i \in DOMAIN n.args /\ i \in 1..Len(done)
    BY <1>1, <1>2, <1>3
  <2>2. Requests(n)[i] = Request(a, "whole")
    BY <1>5, <2>1
  <2>3. Answer(x, Request(a, "whole"), row)
    BY <2>1, <2>2 DEF Answered
  <2>4. a \in Trees /\ o[i] = Meaning(a, row)
    BY <1>1, <1>4, <2>1
  <2> HIDE DEF a, x
  <2>5. Request(a, "whole").node = a /\ Request(a, "whole").part = "whole"
    BY EndsNeed
  <2>6. /\ o[i].sort = "scalar" => x = o[i].start
        /\ o[i].sort = "condition" => x \in Truths /\ (x = "true" <=> o[i].truth = "true")
    BY <2>3, <2>4, <2>5 DEF Answer
  <2>7. Known(o[i].start)
    BY <2>4, MeaningEnds DEF HasEnds
  <2>8. o[i].sort = "condition" => o[i].truth \in {"true", "false"}
    BY <2>4, MeaningTruth
  <2>9. QED  BY <2>6, <2>7, <2>8 DEF x
<1>7. Given(e, done, o)
  BY <1>6 DEF Given
<1>8. QED  BY <1>1, <1>2, <1>3, <1>4, <1>7 DEF o

LEMMA EndAnswers ==
    ASSUME NEW row, NEW a, NEW x, Meaning(a, row).sort \in {"scalar", "interval"}
    PROVE  /\ Answer(x, Request(a, "start"), row) => x = Meaning(a, row).start
           /\ Answer(x, Request(a, "end"), row) => x = Meaning(a, row).end
<1>1. \A p : Request(a, p).node = a /\ Request(a, p).part = p
  BY EndsNeed
<1>2. QED  BY <1>1 DEF Answer

LEMMA TemporalValue ==
    ASSUME NEW e, NEW b, NEW row, row \in Rows, Evaluates(e, Fragments, b, row),
           NEW k, k \in Nat, k + 3 <= FragmentLevels, NEW n, n \in Nodes,
           NEW done, done \in Seq(FragmentsWithin[k]), Len(done) = Len(Requests(n)),
           Answered(e, done, n, row), Relates(n, OperandMeanings(n, row))
    PROVE  LET o == OperandMeanings(n, row)
               x == e[TemporalSql(n.op, done)]
           IN  x \in Truths /\ (x = "true" <=> Ordered(n.op, o[1].start, o[1].end, o[2].start, o[2].end))
<1> DEFINE o == OperandMeanings(n, row)
           a == n.args[1]
           c == n.args[2]
           u == Meaning(a, row)
           w == Meaning(c, row)
           op == n.op
           x == e[TemporalSql(op, done)]
<1>1. n.kind = "Temporal" /\ op \in TemporalOps /\ Are(o, {"scalar", "interval"})
  BY DEF Relates
<1>2. 1 \in DOMAIN n.args /\ 2 \in DOMAIN n.args /\ a \in Trees /\ c \in Trees
  <2>1. DOMAIN n.args = 1..Len(n.args) /\ \A i \in DOMAIN n.args : n.args[i] \in Trees
    BY TreesAssumption, TreesClosed
  <2>2. Len(n.args) = 2
    BY <1>1, FiltersAssumption
  <2>3. QED  BY <2>1, <2>2
<1>3. DOMAIN o = DOMAIN n.args /\ o[1] = u /\ o[2] = w
  BY <1>2 DEF OperandMeanings
<1>4. u.sort \in {"scalar", "interval"} /\ w.sort \in {"scalar", "interval"}
  <2> HIDE DEF o, u, w
  <2>1. QED  BY <1>1, <1>2, <1>3 DEF Are
<1>5. Known(u.start) /\ Known(u.end) /\ Known(w.start) /\ Known(w.end)
  BY <1>2, MeaningEnds DEF HasEnds
<1>6. /\ \A y : Answer(y, Request(a, "start"), row) => y = u.start
      /\ \A y : Answer(y, Request(a, "end"), row) => y = u.end
      /\ \A y : Answer(y, Request(c, "start"), row) => y = w.start
      /\ \A y : Answer(y, Request(c, "end"), row) => y = w.end
  BY <1>4, EndAnswers
<1>7. /\ DOMAIN done = 1..Len(done) /\ \A j \in DOMAIN done : done[j] \in FragmentsWithin[k]
  <2> DEFINE S == FragmentsWithin[k]
  <2>1. done \in Seq(S)
    OBVIOUS
  <2> HIDE DEF S
  <2>2. DOMAIN done = 1..Len(done) /\ \A j \in DOMAIN done : done[j] \in S
    BY <2>1
  <2>3. QED  BY <2>2 DEF S
<1>8. k + 1 <= FragmentLevels
  BY LevelsAreNatural
<1> SUFFICES x \in Truths /\ (x = "true" <=> Ordered(op, u.start, u.end, w.start, w.end))
  BY <1>3
<1> HIDE DEF o, u, w, x
<1>9. CASE op \in {"T_AFTER", "T_METBY"}
  <2>1. Requests(n) = <<Request(a, "start"), Request(c, "end")>>
    BY <1>1, <1>9 DEF Requests
  <2> HIDE DEF a, c
  <2>2. /\ Len(done) = 2 /\ Requests(n)[1] = Request(a, "start") /\ Requests(n)[2] = Request(c, "end")
    BY <2>1
  <2>3. 1 \in 1..Len(done) /\ 2 \in 1..Len(done)
    BY <2>2
  <2>4. e[done[1]] = u.start /\ e[done[2]] = w.end
    BY <1>6, <2>2, <2>3 DEF Answered
  <2>5. done[1] \in FragmentsWithin[k] /\ done[2] \in FragmentsWithin[k]
    BY <1>7, <2>3
  <2>6. \A r \in ComparisonSql : LET y == e[Compare(done[1], r, done[2])]
                                 IN  y \in Truths /\ (y = "true" <=> Some(r, u.start, w.end))
    <3> DEFINE f == done[1]
               g == done[2]
    <3>1. f \in FragmentsWithin[k] /\ g \in FragmentsWithin[k]
      BY <2>5
    <3>2. Evaluates(e, Fragments, b, row) /\ k \in Nat /\ k + 1 <= FragmentLevels
      BY <1>8
    <3> HIDE DEF f, g
    <3>3. \A r \in ComparisonSql : LET y == e[Compare(f, r, g)]
                                   IN  y \in Truths /\ (y = "true" <=> Some(r, e[f], e[g]))
      BY ONLY <3>1, <3>2, CompareValue
    <3>4. QED  BY <2>4, <3>3 DEF f, g
  <2>7. ">" \in ComparisonSql /\ "=" \in ComparisonSql
    BY DEF ComparisonSql
  <2>8. CASE op = "T_AFTER"
    <3>1. TemporalSql(op, done) = Compare(done[1], ">", done[2])
      BY <2>2, <2>8 DEF TemporalSql
    <3>2. Ordered(op, u.start, u.end, w.start, w.end) <=> Some(">", u.start, w.end)
      BY <2>8 DEF Ordered
    <3>3. QED  BY <2>6, <2>7, <3>1, <3>2 DEF x
  <2>9. CASE op = "T_METBY"
    <3>1. TemporalSql(op, done) = Compare(done[1], "=", done[2])
      BY <2>2, <2>9 DEF TemporalSql
    <3>2. Ordered(op, u.start, u.end, w.start, w.end) <=> Some("=", u.start, w.end)
      BY <2>9 DEF Ordered
    <3>3. QED  BY <2>6, <2>7, <3>1, <3>2 DEF x
  <2>10. QED  BY <1>9, <2>8, <2>9
<1>10. CASE op \in {"T_BEFORE", "T_MEETS"}
  <2>1. Requests(n) = <<Request(a, "end"), Request(c, "start")>>
    BY <1>1, <1>10 DEF Requests
  <2> HIDE DEF a, c
  <2>2. /\ Len(done) = 2 /\ Requests(n)[1] = Request(a, "end") /\ Requests(n)[2] = Request(c, "start")
    BY <2>1
  <2>3. 1 \in 1..Len(done) /\ 2 \in 1..Len(done)
    BY <2>2
  <2>4. e[done[1]] = u.end /\ e[done[2]] = w.start
    BY <1>6, <2>2, <2>3 DEF Answered
  <2>5. done[1] \in FragmentsWithin[k] /\ done[2] \in FragmentsWithin[k]
    BY <1>7, <2>3
  <2>6. \A r \in ComparisonSql : LET y == e[Compare(done[1], r, done[2])]
                                 IN  y \in Truths /\ (y = "true" <=> Some(r, u.end, w.start))
    <3> DEFINE f == done[1]
               g == done[2]
    <3>1. f \in FragmentsWithin[k] /\ g \in FragmentsWithin[k]
      BY <2>5
    <3>2. Evaluates(e, Fragments, b, row) /\ k \in Nat /\ k + 1 <= FragmentLevels
      BY <1>8
    <3> HIDE DEF f, g
    <3>3. \A r \in ComparisonSql : LET y == e[Compare(f, r, g)]
                                   IN  y \in Truths /\ (y = "true" <=> Some(r, e[f], e[g]))
      BY ONLY <3>1, <3>2, CompareValue
    <3>4. QED  BY <2>4, <3>3 DEF f, g
  <2>7. "<" \in ComparisonSql /\ "=" \in ComparisonSql
    BY DEF ComparisonSql
  <2>8. CASE op = "T_BEFORE"
    <3>1. TemporalSql(op, done) = Compare(done[1], "<", done[2])
      BY <2>2, <2>8 DEF TemporalSql
    <3>2. Ordered(op, u.start, u.end, w.start, w.end) <=> Some("<", u.end, w.start)
      BY <2>8 DEF Ordered
    <3>3. QED  BY <2>6, <2>7, <3>1, <3>2 DEF x
  <2>9. CASE op = "T_MEETS"
    <3>1. TemporalSql(op, done) = Compare(done[1], "=", done[2])
      BY <2>2, <2>9 DEF TemporalSql
    <3>2. Ordered(op, u.start, u.end, w.start, w.end) <=> Some("=", u.end, w.start)
      BY <2>9 DEF Ordered
    <3>3. QED  BY <2>6, <2>7, <3>1, <3>2 DEF x
  <2>10. QED  BY <1>10, <2>8, <2>9
<1>11. CASE op \notin {"T_AFTER", "T_METBY", "T_BEFORE", "T_MEETS"}
  <2>1. Requests(n) = <<Request(a, "start"), Request(a, "end"), Request(c, "start"), Request(c, "end")>>
    BY <1>1, <1>11 DEF Requests
  <2> HIDE DEF a, c
  <2>2. /\ Len(done) = 4 /\ Requests(n)[1] = Request(a, "start") /\ Requests(n)[2] = Request(a, "end")
        /\ Requests(n)[3] = Request(c, "start") /\ Requests(n)[4] = Request(c, "end")
    BY <2>1
  <2>3. 1 \in 1..Len(done) /\ 2 \in 1..Len(done) /\ 3 \in 1..Len(done) /\ 4 \in 1..Len(done)
    BY <2>2
  <2>4. /\ e[done[1]] = u.start /\ e[done[2]] = u.end
        /\ e[done[3]] = w.start /\ e[done[4]] = w.end
    BY <1>6, <2>2, <2>3 DEF Answered
  <2> DEFINE ls == done[1]
             le == done[2]
             rs == done[3]
             re == done[4]
  <2>5. /\ ls \in FragmentsWithin[k] /\ le \in FragmentsWithin[k]
        /\ rs \in FragmentsWithin[k] /\ re \in FragmentsWithin[k]
    BY <1>7, <2>3
  <2>6. op \in TemporalOps \ OneEnded
    BY <1>1, <1>11 DEF OneEnded
  <2>7. done[1] = ls /\ done[2] = le /\ done[3] = rs /\ done[4] = re /\ Len(done) = 4
    BY <2>2
  <2>8. Known(e[ls]) /\ Known(e[le]) /\ Known(e[rs]) /\ Known(e[re])
    BY <1>5, <2>4
  <2> HIDE DEF ls, le, rs, re, op
  <2>9. Evaluates(e, Fragments, b, row) /\ k \in Nat /\ k + 3 <= FragmentLevels
    OBVIOUS
  <2>10. LET y == e[TemporalSql(op, done)]
         IN  y \in Truths /\ (y = "true" <=> Ordered(op, e[ls], e[le], e[rs], e[re]))
    BY ONLY <2>5, <2>6, <2>7, <2>8, <2>9, RelationValue
  <2>11. QED  BY <2>4, <2>10 DEF x, ls, le, rs, re
<1>12. QED  BY <1>9, <1>10, <1>11

LEMMA SumOrCondition ==
    ASSUME NEW n, NEW row, n.kind \notin {"Literal", "Instant", "Property", "Geometry", "Interval"},
           NEW o, o = OperandMeanings(n, row), NEW m, m = MeaningOf(n, o, row)
    PROVE  \/ m = Nothing /\ m.sort = "nothing"
           \/ /\ IsSum(n, o) /\ m.sort = "scalar"
              /\ m.start = Calculated(n.op, o[1].start, o[2].start)
              /\ m.end = Calculated(n.op, o[1].start, o[2].start)
           \/ ConditionForm(n, o, m) /\ m.sort = "condition"
<1>1. \/ m = Nothing \/ ScalarForm(n, o, row, m)
      \/ IsInterval(n, o) /\ m = Interval(o[1].start, o[2].start)
      \/ ConditionForm(n, o, m)
  BY MeaningForms
<1>2. /\ ~IsNumber(n) /\ ~IsInstant(n) /\ ~IsColumn(n, row) /\ ~IsInterval(n, o)
  BY DEF IsNumber, IsInstant, IsColumn, IsInterval
<1>3. \/ m = Nothing \/ ConditionForm(n, o, m)
      \/ IsSum(n, o) /\ m = Scalar(Calculated(n.op, o[1].start, o[2].start))
  BY <1>1, <1>2 DEF ScalarForm
<1>4. ConditionForm(n, o, m) => m.sort = "condition"
  BY ConditionTruth
<1>5. QED  BY <1>3, <1>4, Sorts

LEMMA NodeAnswers ==
    ASSUME NEW e, NEW b, NEW row, row \in Rows, Evaluates(e, Fragments, b, row),
           NEW k, k \in Nat, k + 3 <= FragmentLevels, NEW n, n \in Nodes, n.kind \notin Leaves,
           NEW done, done \in Seq(FragmentsWithin[k]), Len(done) = Len(Requests(n)),
           Answered(e, done, n, row),
           n.kind = "In" => Len(n.args) > 1, n.kind = "Logical" /\ n.op = "NOT" => Len(n.args) = 1,
           NEW p, n.kind = "Interval" => p = "whole"
    PROVE  Answer(e[Template(n, done)], Request(n, p), row)
<1> DEFINE o == OperandMeanings(n, row)
           m == MeaningOf(n, o, row)
           t == Template(n, done)
           x == e[t]
           r == Request(n, p)
<1>1. Meaning(n, row) = m
  BY TreesAssumption, MeaningEquation
<1>2. r.node = n /\ r.part = p
  BY EndsNeed
<1>3. IsSeq(done)
  <2> DEFINE S == FragmentsWithin[k]
  <2>1. done \in Seq(S)
    OBVIOUS
  <2> HIDE DEF S
  <2>2. QED  BY <2>1, SeqOfElements
<1>4. n.op \in Texts
  BY DEF Texts
<1>5. SUFFICES /\ m.sort = "scalar" \/ (m.sort = "interval" /\ p # "whole")
                    => x = IF p = "end" THEN m.end ELSE m.start
               /\ m.sort = "condition" => x \in Truths /\ (x = "true" <=> m.truth = "true")
               /\ Relates(n, o) =>
                    (x = "true" <=> Ordered(n.op, o[1].start, o[1].end, o[2].start, o[2].end))
  <2> HIDE DEF m, o, x, r
  <2>1. QED  BY <1>1, <1>2, <1>5 DEF Answer, o, x, r
<1>6. CASE n.kind = "Interval"
  <2>1. m = Nothing \/ m = Interval(o[1].start, o[2].start)
    BY <1>6 DEF MeaningOf
  <2> HIDE DEF m, o, x
  <2>2. m.sort \in {"nothing", "interval"} /\ p = "whole" /\ ~Relates(n, o)
    BY <1>6, <2>1, Sorts DEF Relates
  <2>3. QED  BY <2>2
<1>7. CASE n.kind = "Temporal"
  <2>1. t = TemporalSql(n.op, done)
    BY <1>7 DEF Template
  <2>2. Relates(n, o) =>
          /\ x \in Truths
          /\ x = "true" <=> Ordered(n.op, o[1].start, o[1].end, o[2].start, o[2].end)
    <3> SUFFICES ASSUME Relates(n, o)
                 PROVE  /\ x \in Truths
                        /\ x = "true" <=> Ordered(n.op, o[1].start, o[1].end, o[2].start, o[2].end)
      OBVIOUS
    <3>1. /\ row \in Rows /\ Evaluates(e, Fragments, b, row) /\ k \in Nat /\ k + 3 <= FragmentLevels
          /\ n \in Nodes /\ done \in Seq(FragmentsWithin[k]) /\ Len(done) = Len(Requests(n))
          /\ Answered(e, done, n, row) /\ Relates(n, OperandMeanings(n, row))
      OBVIOUS
    <3>2. LET y == e[TemporalSql(n.op, done)]
          IN  y \in Truths /\ (y = "true" <=> Ordered(n.op, o[1].start, o[1].end, o[2].start, o[2].end))
      BY ONLY <3>1, TemporalValue
    <3>3. QED  BY <2>1, <3>2
  <2>3. Relates(n, o) => HasEnds(o[1]) /\ HasEnds(o[2])
    <3>1. DOMAIN n.args = 1..Len(n.args) /\ \A i \in DOMAIN n.args : n.args[i] \in Trees
      BY TreesAssumption, TreesClosed
    <3>2. Len(n.args) = 2
      BY <1>7, FiltersAssumption
    <3>3. \A i \in DOMAIN n.args : o[i] = Meaning(n.args[i], row)
      BY DEF OperandMeanings
    <3>4. 1 \in DOMAIN n.args /\ 2 \in DOMAIN n.args
      BY <3>1, <3>2
    <3> HIDE DEF o
    <3>5. QED  BY <3>1, <3>3, <3>4, MeaningEnds
  <2>4. \/ m = Nothing /\ m.sort = "nothing"
        \/ /\ IsSum(n, o) /\ m.sort = "scalar"
           /\ m.start = Calculated(n.op, o[1].start, o[2].start)
           /\ m.end = Calculated(n.op, o[1].start, o[2].start)
        \/ ConditionForm(n, o, m) /\ m.sort = "condition"
    BY <1>7, SumOrCondition
  <2> HIDE DEF m, o, t
  <2>5. CASE ConditionForm(n, o, m) /\ m.sort = "condition"
    <3>1. /\ Relates(n, o) /\ Proper(o[1]) /\ Proper(o[2])
          /\ m = Condition(Relation(n.op, Covered(o[1]), Covered(o[2])))
      BY <1>7, <2>5 DEF ConditionForm, IsBoolean
    <3>2. n.op \in TemporalOps
      BY <3>1 DEF Relates
    <3>3. m.truth = "true" <=> Relation(n.op, Covered(o[1]), Covered(o[2]))
      BY <3>1, <3>2, RelationHolds, ConditionSort
    <3>4. Ordered(n.op, o[1].start, o[1].end, o[2].start, o[2].end)
            <=> Relation(n.op, Covered(o[1]), Covered(o[2]))
      BY <2>3, <3>1, <3>2, ProperRelates
    <3>5. QED  BY <2>2, <2>5, <3>1, <3>3, <3>4
  <2>6. CASE m = Nothing /\ m.sort = "nothing"
    BY <2>2, <2>6
  <2>7. ~IsSum(n, o)
    BY <1>7 DEF IsSum
  <2>8. QED  BY <2>4, <2>5, <2>6, <2>7
<1>8. CASE n.kind \notin {"Interval", "Temporal"}
  <2>1. Given(e, done, o) /\ DOMAIN o = DOMAIN done /\ Len(done) = Len(n.args)
    BY <1>3, <1>8, WholeAnswers
  <2>2. \/ m = Nothing /\ m.sort = "nothing"
        \/ /\ IsSum(n, o) /\ m.sort = "scalar"
           /\ m.start = Calculated(n.op, o[1].start, o[2].start)
           /\ m.end = Calculated(n.op, o[1].start, o[2].start)
        \/ ConditionForm(n, o, m) /\ m.sort = "condition"
    BY <1>8, SumOrCondition DEF Leaves
  <2> HIDE DEF m, o, t
  <2>3. ~Relates(n, o)
    BY <1>8 DEF Relates
  <2>4. CASE m = Nothing /\ m.sort = "nothing"
    BY <2>3, <2>4
  <2>5. CASE /\ IsSum(n, o) /\ m.sort = "scalar"
             /\ m.start = Calculated(n.op, o[1].start, o[2].start)
             /\ m.end = Calculated(n.op, o[1].start, o[2].start)
    <3>1. n.kind = "Arithmetic" /\ n.op \in Calculations /\ Len(n.args) = 2 /\ Are(o, {"scalar"})
      BY <2>5 DEF IsSum, Scalars
    <3>2. o[1].sort = "scalar" /\ o[2].sort = "scalar"
      <4>1. 1 \in DOMAIN done /\ 2 \in DOMAIN done
        BY <2>1, <3>1, PartsDomain
      <4>2. QED  BY <2>1, <3>1, <4>1 DEF Are
    <3>3. t = Fragment(n.op, done)
      BY <3>1 DEF Template, t
    <3> DEFINE op == n.op
    <3>4. op \in Calculations /\ op \in Texts /\ Len(done) = 2
      BY <1>4, <2>1, <3>1
    <3>5. /\ Evaluates(e, Fragments, b, row) /\ k \in Nat /\ k + 3 <= FragmentLevels
          /\ done \in Seq(FragmentsWithin[k])
      OBVIOUS
    <3> HIDE DEF op
    <3>6. e[Fragment(op, done)] = Calculated(op, o[1].start, o[2].start)
      BY ONLY <2>1, <3>2, <3>4, <3>5, SumValue
    <3>7. x = m.start /\ x = m.end
      BY <2>5, <3>3, <3>6 DEF op
    <3>8. QED  BY <2>3, <2>5, <3>7
  <2>6. CASE ConditionForm(n, o, m) /\ m.sort = "condition"
    <3>1. /\ Len(done) = Len(n.args) /\ n.kind \notin {"Literal", "Temporal"}
          /\ n.kind = "In" => Len(done) > 1
          /\ n.kind = "Logical" /\ n.op = "NOT" => Len(done) = 1
      BY <1>8, <2>1 DEF Leaves
    <3>2. /\ Evaluates(e, Fragments, b, row) /\ k \in Nat /\ k + 3 <= FragmentLevels
          /\ done \in Seq(FragmentsWithin[k])
      OBVIOUS
    <3>3. e[Template(n, done)] \in Truths /\ (e[Template(n, done)] = "true" <=> m.truth = "true")
      BY ONLY <2>1, <2>6, <3>1, <3>2, ConditionValue
    <3>4. QED  BY <2>3, <2>6, <3>3 DEF t
  <2>7. QED  BY <2>2, <2>4, <2>5, <2>6
<1>9. QED  BY <1>6, <1>7, <1>8

\* What a node's template says is what was asked of the node.
LEMMA TemplateMeans ==
    ASSUME NEW t, NEW n, n \in Nodes, n.kind \notin Leaves, Supports(t, n),
           NEW p, n.kind = "Interval" => p = "whole", NEW values,
           NEW done, IsSeq(done), Len(done) = Len(Requests(n)),
           \A j \in 1..Len(done) : Means(done[j], Requests(n)[j], values)
    PROVE  Means(Template(n, done), Request(n, p), values)
<1> DEFINE f == Template(n, done)
           r == Request(n, p)
<1>1. /\ n.kind = "In" => Len(n.args) > 1
      /\ n.kind = "Logical" /\ n.op = "NOT" => Len(n.args) = 1
  BY DEF Supports
<1>2. /\ n.kind = "Temporal" => Len(done) \in {2, 4}
      /\ n.kind = "Logical" /\ n.op = "NOT" => Len(done) = 1
  BY <1>1, RequestsLength
<1>3. \A j \in 1..Len(done) : Shallow(done[j], Requests(n)[j])
  BY DEF Means
<1>4. r.node = n /\ r.part = p
  BY EndsNeed
<1>5. Shallow(f, r)
  <2>1. ASSUME NEW k \in Nat, n \in TreesWithin[k + 1] PROVE f \in FragmentsWithin[3 * k + 3]
    <3> DEFINE d == 3 * k
    <3>1. done \in Seq(FragmentsWithin[d])
      BY <1>3, <2>1, DoneLevel
    <3>2. d \in Nat
      OBVIOUS
    <3> HIDE DEF d
    <3>3. f \in FragmentsWithin[d + 3]
      BY <1>2, <3>1, <3>2, TemplateLevel
    <3>4. QED  BY <3>3 DEF d
  <2>2. \A k : Depth(r, k) = 3 * k + 3
    BY <1>4 DEF Depth
  <2> HIDE DEF f, r
  <2>3. QED  BY <1>4, <2>1, <2>2 DEF Shallow
<1>6. ASSUME NEW b, NEW e, NEW row \in Rows, Begins(b, values), Evaluates(e, Fragments, b, row)
      PROVE  Answer(e[f], r, row)
  <2>1. n \in Trees
    BY TreesAssumption
  <2>2. PICK k \in Nat : FragmentLevels = 3 * k + 3 /\ Trees = TreesWithin[k + 1]
    BY <2>1, TreesLevel
  <2> DEFINE d == 3 * k
  <2>3. d \in Nat /\ d + 3 <= FragmentLevels
    BY <2>2
  <2>4. done \in Seq(FragmentsWithin[d])
    BY <1>3, <2>1, <2>2, DoneLevel
  <2>5. Answered(e, done, n, row)
    BY <1>6 DEF Answered, Means
  <2>6. row \in Rows /\ Evaluates(e, Fragments, b, row)
    BY <1>6
  <2>7. n \in Nodes /\ n.kind \notin Leaves /\ Len(done) = Len(Requests(n))
        /\ (n.kind = "Interval" => p = "whole")
    OBVIOUS
  <2> HIDE DEF d
  <2>8. QED  BY ONLY <1>1, <2>3, <2>4, <2>5, <2>6, <2>7, NodeAnswers
<1> HIDE DEF f, r
<1>7. QED  BY <1>5, <1>6 DEF Means, f, r

-----------------------------------------------------------------------------
(* The leaves.                                                             *)

LEMMA LeafShallow ==
    ASSUME NEW n, n.kind \in Leaves, NEW p, NEW f, f \in FragmentsWithin[2]
    PROVE  Shallow(f, Request(n, p))
<1> DEFINE r == Request(n, p)
<1>1. r.node = n
  BY EndsNeed
<1>2. n.kind # "Interval"
  BY DEF Leaves
<1>3. \A k : Depth(r, k) = 3 * k + 3
  BY <1>1, <1>2 DEF Depth
<1>4. ASSUME NEW k \in Nat PROVE f \in FragmentsWithin[3 * k + 3]
  <2> DEFINE d == 3 * k + 3
  <2>1. d \in Nat /\ 2 \in Nat /\ 2 <= d
    OBVIOUS
  <2> HIDE DEF d
  <2>2. FragmentsWithin[2] \subseteq FragmentsWithin[d]
    BY <2>1, HigherLevels
  <2>3. f \in FragmentsWithin[d]
    BY <2>2
  <2>4. QED  BY <2>3 DEF d
<1> HIDE DEF r
<1>5. \A k \in Nat : r.node \in TreesWithin[k + 1] => f \in FragmentsWithin[Depth(r, k)]
  BY <1>3, <1>4
<1>6. QED  BY <1>5 DEF Shallow, r

LEMMA LeafAnswers ==
    ASSUME NEW row, NEW n, n \in Nodes, n.kind \in Leaves, NEW p, NEW x,
           IsBoolean(n) => x \in Truths /\ (x = "true" <=> n.op = "TRUE"),
           IsNumber(n) => x = {Numbers[n.op]},
           IsInstant(n) => x = {Instants[n.op].at},
           IsColumn(n, row) => x = row[n.op]
    PROVE  Answer(x, Request(n, p), row)
<1> DEFINE o == OperandMeanings(n, row)
           m == MeaningOf(n, o, row)
           r == Request(n, p)
<1>1. Meaning(n, row) = m
  BY TreesAssumption, MeaningEquation
<1>2. r.node = n /\ r.part = p
  BY EndsNeed
<1>3. \/ m = Nothing \/ ScalarForm(n, o, row, m)
      \/ IsInterval(n, o) /\ m = Interval(o[1].start, o[2].start)
      \/ ConditionForm(n, o, m)
  BY MeaningForms
<1> HIDE DEF o, m, r
<1>4. ~Relates(n, o) /\ ~IsInterval(n, o) /\ ~IsSum(n, o)
  BY DEF Relates, IsInterval, IsSum, Leaves
<1>5. ConditionForm(n, o, m) => IsBoolean(n) /\ m = Condition(n.op = "TRUE")
  BY DEF ConditionForm, Leaves, Relates
<1>6. CASE m = Nothing
  <2>1. m.sort = "nothing"
    BY <1>6, Sorts
  <2>2. QED  BY <1>1, <1>2, <1>4, <2>1 DEF Answer, o, r
<1>7. CASE ScalarForm(n, o, row, m)
  <2>1. m = Scalar(x)
    BY <1>4, <1>7 DEF ScalarForm
  <2>2. m.sort = "scalar" /\ m.start = x /\ m.end = x
    BY <2>1, Sorts
  <2>3. QED  BY <1>1, <1>2, <1>4, <2>2 DEF Answer, o, r
<1>8. CASE ConditionForm(n, o, m)
  <2> DEFINE P == n.op = "TRUE"
  <2>1. m = Condition(P) /\ P \in BOOLEAN /\ IsBoolean(n)
    BY <1>5, <1>8
  <2>2. m.sort = "condition" /\ (m.truth = "true" <=> P)
    BY <2>1, ConditionSort
  <2>3. QED  BY <1>1, <1>2, <1>4, <2>1, <2>2 DEF Answer, o, r
<1>9. QED  BY <1>3, <1>4, <1>6, <1>7, <1>8

\* There is room for a template above a leaf.
LEMMA RoomAboveLeaves ==
    ASSUME NEW n, n \in Nodes
    PROVE  1 <= FragmentLevels /\ 2 <= FragmentLevels
<1>1. n \in Trees
  BY TreesAssumption
<1>2. PICK k \in Nat : FragmentLevels = 3 * k + 3
  BY <1>1, TreesLevel
<1>3. QED  BY <1>2

\* Fragments without parts.
LEMMA Simple ==
    /\ \A i \in Nat : Placeholder(i) \in FragmentsWithin[1] /\ Placeholder(i).sql = "arg"
                      /\ Placeholder(i).arg = i
    /\ \A c \in Texts : Column(c) \in FragmentsWithin[1] /\ Column(c).sql = "column"
                        /\ Column(c).name = c
    /\ \A c \in Texts : Fragment(c, << >>) \in FragmentsWithin[1] /\ Fragment(c, << >>).sql = c
<1>1. "arg" \in Texts /\ "column" \in Texts /\ "" \in Texts
  BY DEF Texts
<1>2. 0 \in Nat /\ 0 + 1 = 1
  OBVIOUS
<1>3. << >> \in Seq(FragmentsWithin[0]) /\ << >> \in Seq(Nat)
  OBVIOUS
<1>4. ASSUME NEW i, i \in Nat
      PROVE  Placeholder(i) \in FragmentsWithin[1] /\ Placeholder(i).sql = "arg" /\ Placeholder(i).arg = i
  <2>1. <<i>> \in Seq(Nat)
    BY <1>4, Tuples
  <2>2. Placeholder(i) \in FragmentsWithin[0 + 1]
    BY <1>1, <1>2, <1>3, <1>4, <2>1, FragmentMade DEF Placeholder
  <2>3. QED  BY <1>2, <2>2 DEF Placeholder
<1>5. ASSUME NEW c, c \in Texts
      PROVE  Column(c) \in FragmentsWithin[1] /\ Column(c).sql = "column" /\ Column(c).name = c
  <2>1. Column(c) \in FragmentsWithin[0 + 1]
    BY <1>1, <1>2, <1>3, <1>5, FragmentMade DEF Column
  <2>2. QED  BY <1>2, <2>1 DEF Column
<1>6. ASSUME NEW c, c \in Texts
      PROVE  Fragment(c, << >>) \in FragmentsWithin[1] /\ Fragment(c, << >>).sql = c
  <2>1. Fragment(c, << >>) \in FragmentsWithin[0 + 1]
    BY <1>2, <1>3, <1>6, FragmentLevel
  <2>2. Fragment(c, << >>).sql = c
    BY DEF Fragment
  <2>3. QED  BY <1>2, <2>1, <2>2
<1>7. QED  BY <1>4, <1>5, <1>6

LEMMA SecondLevel == FragmentsWithin[1] \subseteq FragmentsWithin[2]
<1> DEFINE i == 1
           j == 2
<1>1. i \in Nat /\ j \in Nat /\ i <= j
  OBVIOUS
<1> HIDE DEF i, j
<1>2. FragmentsWithin[i] \subseteq FragmentsWithin[j]
  BY <1>1, HigherLevels
<1>3. QED  BY <1>2 DEF i, j

LEMMA PlaceholderLevels ==
    ASSUME IsSeq(args)
    PROVE  /\ NextPlaceholder \in FragmentsWithin[2]
           /\ Fragment("number", <<NextPlaceholder>>) \in FragmentsWithin[2]
           /\ Fragment("instant", <<NextPlaceholder>>) \in FragmentsWithin[2]
<1>1. Len(args) + 1 \in Nat
  BY SeqIsFunction
<1>2. NextPlaceholder \in FragmentsWithin[1]
  BY <1>1, Simple DEF NextPlaceholder
<1> DEFINE k == 1
           f == NextPlaceholder
<1>3. k \in Nat /\ k + 1 = 2 /\ f \in FragmentsWithin[k]
  BY <1>2
<1>4. "number" \in Texts /\ "instant" \in Texts
  BY DEF Texts
<1> HIDE DEF k, f
<1>5. <<f>> \in Seq(FragmentsWithin[k])
  BY <1>3, Tuples
<1>6. Fragment("number", <<f>>) \in FragmentsWithin[k + 1] /\ Fragment("instant", <<f>>) \in FragmentsWithin[k + 1]
  BY <1>3, <1>4, <1>5, FragmentLevel
<1>7. QED  BY <1>2, <1>3, <1>6, SecondLevel DEF f

\* What a fragment without parts gives.
LEMMA SimpleValue ==
    ASSUME NEW e, NEW b, NEW row, Evaluates(e, Fragments, b, row), 1 <= FragmentLevels,
           NEW f, f \in FragmentsWithin[1]
    PROVE  \E v : e[f] = Outcome(f, v, b, row)
<1>1. f \in Fragments
  BY WithinFragments
<1>2. QED  BY <1>1 DEF Evaluates

\* The placeholder written for a value gives the value.
LEMMA PlaceholderValue ==
    ASSUME NEW e, NEW b, NEW row, Evaluates(e, Fragments, b, row), IsSeq(args),
           1 <= FragmentLevels, 2 <= FragmentLevels, NEW v, Begins(b, args \o <<v>>)
    PROVE  /\ e[NextPlaceholder] = {Constant(v)}
           /\ \A sql \in {"number", "instant"} : e[Fragment(sql, <<NextPlaceholder>>)] = {Constant(v)}
<1> DEFINE n == Len(args)
           f == NextPlaceholder
<1>1. Len(args \o <<v>>) = n + 1 /\ (args \o <<v>>)[n + 1] = v /\ n \in Nat
  <2> DEFINE S == {args[i] : i \in DOMAIN args}
             T == S \cup {v}
  <2>1. args \in Seq(S) /\ S \subseteq T
    BY DEF IsSeq
  <2> HIDE DEF S
  <2>2. args \in Seq(T) /\ <<v>> \in Seq(T)
    BY <2>1, SeqGrows
  <2> HIDE DEF T
  <2>3. QED  BY <2>2
<1>2. n + 1 \in 1..Len(args \o <<v>>) /\ n + 1 \in Nat
  BY <1>1
<1>3. b[n + 1] = v
  BY <1>1, <1>2 DEF Begins
<1>4. f \in FragmentsWithin[1] /\ f.sql = "arg" /\ f.arg = n + 1
  BY <1>2, Simple DEF NextPlaceholder
<1> HIDE DEF f
<1>5. PICK w : e[f] = Outcome(f, w, b, row)
  BY <1>4, SimpleValue
<1>6. e[f] = {Constant(b[f.arg])}
  BY <1>4, <1>5, OutcomeOfArg
<1>7. e[f] = {Constant(v)}
  BY <1>3, <1>4, <1>6
<1>8. \A sql \in {"number", "instant"} : e[Fragment(sql, <<f>>)] = e[f]
  <2> DEFINE k == 1
  <2>1. k \in Nat /\ k + 1 <= FragmentLevels /\ f \in FragmentsWithin[k]
    BY <1>4
  <2> HIDE DEF k
  <2>2. \A sql \in {"number", "instant"} : e[Fragment(sql, <<f>>)] = e[f]
    <3>1. Evaluates(e, Fragments, b, row)
      OBVIOUS
    <3>2. QED  BY ONLY <2>1, <3>1, OneValue
  <2>3. QED  BY <2>2
<1>9. QED  BY <1>7, <1>8 DEF f

\* A number or a string is bound as it is.
LEMMA LiteralMeans ==
    ASSUME NEW n, n \in Nodes, n.kind = "Literal", NEW p, IsSeq(args)
    PROVE  /\ n.types = {"number"} =>
                Means(Fragment("number", <<NextPlaceholder>>), Request(n, p), args \o <<n.op>>)
           /\ n.types = {"string"} => Means(NextPlaceholder, Request(n, p), args \o <<n.op>>)
           /\ n.types # {"number"} /\ n.types # {"string"} =>
                Means(Fragment(n.op, << >>), Request(n, p), args \o << >>)
<1>1. n.kind \in Leaves /\ n.op \in Texts
  BY DEF Leaves, Texts
<1>2. 1 <= FragmentLevels /\ 2 <= FragmentLevels
  BY RoomAboveLeaves
<1>3. n.kind # "Instant" /\ n.kind # "Property"
  OBVIOUS
<1>4. NextPlaceholder \in FragmentsWithin[2] /\ Fragment("number", <<NextPlaceholder>>) \in FragmentsWithin[2]
  BY PlaceholderLevels
<1>5. IsNumber(n) => Constant(n.op) = Numbers[n.op]
  BY NumbersAssumption DEF IsNumber, Constant
<1>6. {"number"} # {"boolean"} /\ {"string"} # {"boolean"} /\ {"number"} # {"string"}
  OBVIOUS
<1>7. n.types \in {{"number"}, {"string"}} => ~IsBoolean(n)
  BY <1>6 DEF IsBoolean
<1>8. \A row : ~IsInstant(n) /\ ~IsColumn(n, row)
  BY <1>3 DEF IsInstant, IsColumn
<1>9. ASSUME n.types \in {{"number"}, {"string"}}, NEW b, NEW e, NEW row \in Rows,
             Begins(b, args \o <<n.op>>), Evaluates(e, Fragments, b, row)
      PROVE  /\ Answer(e[NextPlaceholder], Request(n, p), row)
             /\ Answer(e[Fragment("number", <<NextPlaceholder>>)], Request(n, p), row)
  <2>1. /\ e[NextPlaceholder] = {Constant(n.op)}
        /\ e[Fragment("number", <<NextPlaceholder>>)] = {Constant(n.op)}
    BY <1>2, <1>9, PlaceholderValue
  <2>2. \A x : x = {Constant(n.op)} => Answer(x, Request(n, p), row)
    BY <1>1, <1>5, <1>7, <1>8, <1>9, LeafAnswers
  <2>3. QED  BY <2>1, <2>2
<1>10. CASE n.types = {"number"} \/ n.types = {"string"}
  BY <1>1, <1>4, <1>6, <1>9, <1>10, LeafShallow DEF Means
<1>11. CASE n.types # {"number"} /\ n.types # {"string"}
  <2> DEFINE f == Fragment(n.op, << >>)
  <2>1. f \in FragmentsWithin[1] /\ f.sql = n.op
    BY <1>1, Simple
  <2>2. f \in FragmentsWithin[2]
    BY <2>1, SecondLevel
  <2>3. ~IsNumber(n)
    BY <1>11 DEF IsNumber
  <2> HIDE DEF f
  <2>4. ASSUME NEW b, NEW e, NEW row \in Rows, Evaluates(e, Fragments, b, row)
        PROVE  Answer(e[f], Request(n, p), row)
    <3>1. PICK v : e[f] = Outcome(f, v, b, row)
      BY <1>2, <2>1, <2>4, SimpleValue
    <3>2. IsBoolean(n) => e[f] \in Truths /\ (e[f] = "true" <=> n.op = "TRUE")
      BY <2>1, <3>1, OutcomeOfConstant DEF IsBoolean, Truths
    <3>3. QED  BY <1>1, <1>8, <2>3, <3>2, LeafAnswers
  <2>5. Shallow(f, Request(n, p))
    BY <1>1, <2>2, LeafShallow
  <2>6. Means(f, Request(n, p), args \o << >>)
    BY <2>4, <2>5 DEF Means
  <2>7. QED  BY <1>11, <2>6 DEF f
<1>12. QED  BY <1>10, <1>11

LEMMA InstantMeans ==
    ASSUME NEW n, n \in Nodes, n.kind = "Instant", NEW p, IsSeq(args)
    PROVE  Means(Fragment("instant", <<NextPlaceholder>>), Request(n, p), args \o <<n.op>>)
<1> DEFINE f == Fragment("instant", <<NextPlaceholder>>)
<1>1. n.kind \in Leaves
  BY DEF Leaves
<1>2. 1 <= FragmentLevels /\ 2 <= FragmentLevels
  BY RoomAboveLeaves
<1>3. \A row : ~IsBoolean(n) /\ ~IsNumber(n) /\ ~IsColumn(n, row)
  BY DEF IsBoolean, IsNumber, IsColumn
<1>4. f \in FragmentsWithin[2]
  BY PlaceholderLevels
<1>5. IsInstant(n) => Constant(n.op) = Instants[n.op].at
  BY DEF IsInstant, Constant
<1>6. ASSUME NEW b, NEW e, NEW row \in Rows,
             Begins(b, args \o <<n.op>>), Evaluates(e, Fragments, b, row)
      PROVE  Answer(e[f], Request(n, p), row)
  <2>1. e[f] = {Constant(n.op)}
    BY <1>2, <1>6, PlaceholderValue
  <2> HIDE DEF f
  <2>2. QED  BY <1>1, <1>3, <1>5, <2>1, LeafAnswers
<1> HIDE DEF f
<1>7. Shallow(f, Request(n, p))
  BY <1>1, <1>4, LeafShallow
<1>8. Means(f, Request(n, p), args \o <<n.op>>)
  BY <1>6, <1>7 DEF Means
<1>9. QED  BY <1>8 DEF f

LEMMA PropertyMeans ==
    ASSUME NEW n, n \in Nodes, n.kind = "Property", NEW p
    PROVE  Means(Column(n.op), Request(n, p), args \o << >>)
<1> DEFINE f == Column(n.op)
<1>1. n.kind \in Leaves /\ n.op \in Texts
  BY DEF Leaves, Texts
<1>2. 1 <= FragmentLevels
  BY RoomAboveLeaves
<1>3. ~IsBoolean(n) /\ ~IsNumber(n) /\ ~IsInstant(n)
  BY DEF IsBoolean, IsNumber, IsInstant
<1>4. f \in FragmentsWithin[1] /\ f.sql = "column" /\ f.name = n.op
  BY <1>1, Simple
<1>5. f \in FragmentsWithin[2]
  BY <1>4, SecondLevel
<1> HIDE DEF f
<1>6. ASSUME NEW b, NEW e, NEW row \in Rows, Evaluates(e, Fragments, b, row)
      PROVE  Answer(e[f], Request(n, p), row)
  <2>1. PICK v : e[f] = Outcome(f, v, b, row)
    BY <1>2, <1>4, <1>6, SimpleValue
  <2>2. e[f] = row[n.op]
    BY <1>4, <2>1, OutcomeOfColumn
  <2>3. QED  BY <1>1, <1>3, <2>2, LeafAnswers
<1>7. Shallow(f, Request(n, p))
  BY <1>1, <1>5, LeafShallow
<1>8. Means(f, Request(n, p), args \o << >>)
  BY <1>6, <1>7 DEF Means
<1>9. QED  BY <1>8 DEF f

\* A row decides nothing about a geometry.
LEMMA GeometryMeans ==
    ASSUME NEW n, n \in Nodes, n.kind = "Geometry", NEW p, NEW values,
           NEW parts, parts \in Seq(FragmentsWithin[1])
    PROVE  Means(Fragment(n.op, parts), Request(n, p), values)
<1> DEFINE f == Fragment(n.op, parts)
<1>1. n.kind \in Leaves /\ n.op \in Texts
  BY DEF Leaves, Texts
<1>2. \A row : ~IsBoolean(n) /\ ~IsNumber(n) /\ ~IsInstant(n) /\ ~IsColumn(n, row)
  BY DEF IsBoolean, IsNumber, IsInstant, IsColumn
<1>3. f \in FragmentsWithin[2]
  <2> DEFINE k == 1
  <2>1. k \in Nat /\ parts \in Seq(FragmentsWithin[k]) /\ k + 1 = 2
    OBVIOUS
  <2> HIDE DEF k
  <2>2. f \in FragmentsWithin[k + 1]
    BY <1>1, <2>1, FragmentLevel
  <2>3. QED  BY <2>1, <2>2
<1> HIDE DEF f
<1>4. \A row \in Rows : \A x : Answer(x, Request(n, p), row)
  BY <1>1, <1>2, LeafAnswers
<1>5. Shallow(f, Request(n, p))
  BY <1>1, <1>3, LeafShallow
<1>6. Means(f, Request(n, p), values)
  BY <1>4, <1>5 DEF Means
<1>7. QED  BY <1>6 DEF f

-----------------------------------------------------------------------------
(* The walk.  What is returned says what was asked for.                    *)

FrameMeans(fr, values) ==
    \A j \in 1..Len(fr.done) : Means(fr.done[j], Requests(fr.node)[j], values)

StackMeans(st, values) == \A i \in 1..Len(st) : FrameMeans(st[i], values)

\* The inductive invariant.
MeaningInv ==
    /\ StackMeans(stack, args)
    /\ mode = "return" => Means(fragment, Wanted, args)
    /\ mode = "compiled" => Means(fragment, Request(filter, "whole"), args)

LEMMA StackMeansMore ==
    ASSUME NEW st, NEW values, NEW more, IsSeq(values), IsSeq(more), StackMeans(st, values)
    PROVE  StackMeans(st, values \o more)
  BY MeansMore DEF StackMeans, FrameMeans

\* Only nodes of filters are asked for.
LEMMA AskedNodes ==
    ASSUME SqlInv, SupportInv, NEW i, i \in 0..Len(stack)
    PROVE  Asked(filter, stack, i).node \in Nodes
<1>1. filter \in Nodes
  BY FiltersAssumption DEF SupportInv
<1>2. CASE i = 0
  BY <1>1, <1>2, EndsNeed DEF Asked
<1>3. CASE i # 0
  <2> DEFINE fr == stack[i]
             d == Len(fr.done)
             t == Len(fr.todo)
             n == Len(Requests(fr.node))
  <2>1. i \in 1..Len(stack)
    BY <1>3, SupportedStack
  <2>2. FrameOK(fr)
    BY <2>1 DEF SqlInv, StackOK
  <2>3. d + 1 + t = n /\ d \in Nat /\ t \in Nat
    BY <2>2, SeqIsFunction DEF FrameOK, AreFragments
  <2>4. \A j \in 1..n : Requests(fr.node)[j].node \in Nodes
    BY <2>2, RequestsLength DEF FrameOK
  <2>5. Asked(filter, stack, i) = Requests(fr.node)[d + 1]
    BY <1>3 DEF Asked
  <2> HIDE DEF d, t, n, fr
  <2>6. d + 1 \in 1..n
    BY <2>3
  <2>7. QED  BY <2>4, <2>5, <2>6
<1>4. QED  BY <1>2, <1>3

LEMMA SaysRendering ==
    ASSUME NEW r, NEW st, Render(r, st), StackMeans(st, args)
    PROVE  MeaningInv'
<1>1. mode' = "render" /\ stack' = st /\ args' = args
  BY DEF Render
<1>2. StackMeans(stack, args)'
  BY <1>1
<1>3. QED  BY <1>1, <1>2 DEF MeaningInv

LEMMA SaysReturning ==
    ASSUME NEW f, NEW values, NEW st, Return(f, values, st), IsSeq(args), IsSeq(values),
           StackMeans(st, args), Means(f, Asked(filter, st, Len(st)), args \o values)
    PROVE  MeaningInv'
<1>1. mode' = "return" /\ stack' = st /\ args' = args \o values /\ fragment' = f /\ filter' = filter
  BY DEF Return
<1>2. StackMeans(st, args \o values)
  BY StackMeansMore
<1>3. StackMeans(stack, args)' /\ Means(fragment, Wanted, args)'
  BY <1>1, <1>2 DEF Wanted
<1>4. QED  BY <1>1, <1>3 DEF MeaningInv

LEMMA SaysFailing == ASSUME MeaningInv, Fail PROVE MeaningInv'
<1>1. mode' = "failed" /\ UNCHANGED <<stack, args>>
  BY DEF Fail
<1>2. StackMeans(stack, args)'
  BY <1>1 DEF MeaningInv
<1>3. QED  BY <1>1, <1>2 DEF MeaningInv

LEMMA LeafSays ==
    ASSUME SqlInv, SupportInv, MeaningInv, mode = "render", node.kind \in Leaves,
           NEW f, NEW values, Return(f, values, stack), IsSeq(values),
           Means(f, Request(node, part), args \o values)
    PROVE  MeaningInv'
<1>1. Serves(Wanted, node, part)
  BY DEF SupportInv, Wanted
<1>2. node.kind # "Interval"
  BY DEF Leaves
<1>3. Len(stack) \in Nat /\ Len(stack) \in 0..Len(stack)
  BY SupportedStack
<1>4. Wanted.node \in Nodes
  BY <1>3, AskedNodes DEF Wanted
<1>5. Means(f, Wanted, args \o values)
  BY <1>1, <1>2, <1>4, ServingMeans
<1>6. IsSeq(args) /\ StackMeans(stack, args)
  BY DEF SqlInv, MeaningInv
<1>7. QED  BY <1>5, <1>6, SaysReturning DEF Wanted

LEMMA OneOrNone == IsSeq(<< >>) /\ \A v : IsSeq(<<v>>)
  BY DEF IsSeq

LEMMA LiteralSays ==
    ASSUME SqlInv, SupportInv, MeaningInv, RenderLiteral
    PROVE  MeaningInv'
<1>1. mode = "render" /\ node.kind = "Literal" /\ node \in Nodes /\ IsSeq(args)
  BY DEF RenderLiteral, Rendering, SqlInv
<1>2. node.kind \in Leaves
  BY <1>1 DEF Leaves
<1>3. {"number"} # {"string"}
  OBVIOUS
<1>4. CASE node.types = {"number"}
  <2>1. Return(Fragment("number", <<NextPlaceholder>>), <<node.op>>, stack)
    BY <1>4 DEF RenderLiteral
  <2>2. Means(Fragment("number", <<NextPlaceholder>>), Request(node, part), args \o <<node.op>>)
    BY <1>1, <1>4, LiteralMeans
  <2>3. QED  BY <1>1, <1>2, <2>1, <2>2, OneOrNone, LeafSays
<1>5. CASE node.types = {"string"}
  <2>1. Return(NextPlaceholder, <<node.op>>, stack)
    BY <1>3, <1>5 DEF RenderLiteral
  <2>2. Means(NextPlaceholder, Request(node, part), args \o <<node.op>>)
    BY <1>1, <1>5, LiteralMeans
  <2>3. QED  BY <1>1, <1>2, <2>1, <2>2, OneOrNone, LeafSays
<1>6. CASE node.types # {"number"} /\ node.types # {"string"}
  <2>1. Return(Fragment(node.op, << >>), << >>, stack)
    BY <1>6 DEF RenderLiteral
  <2>2. Means(Fragment(node.op, << >>), Request(node, part), args \o << >>)
    BY <1>1, <1>6, LiteralMeans
  <2>3. QED  BY <1>1, <1>2, <2>1, <2>2, OneOrNone, LeafSays
<1>7. QED  BY <1>4, <1>5, <1>6

LEMMA InstantSays ==
    ASSUME SqlInv, SupportInv, MeaningInv, RenderInstant
    PROVE  MeaningInv'
<1>1. /\ mode = "render" /\ node.kind = "Instant" /\ node \in Nodes /\ IsSeq(args)
      /\ Return(Fragment("instant", <<NextPlaceholder>>), <<node.op>>, stack)
  BY DEF RenderInstant, Rendering, SqlInv
<1>2. node.kind \in Leaves
  BY <1>1 DEF Leaves
<1>3. Means(Fragment("instant", <<NextPlaceholder>>), Request(node, part), args \o <<node.op>>)
  BY <1>1, InstantMeans
<1>4. QED  BY <1>1, <1>2, <1>3, OneOrNone, LeafSays

LEMMA PropertySays ==
    ASSUME SqlInv, SupportInv, MeaningInv, RenderProperty
    PROVE  MeaningInv'
<1>1. mode = "render" /\ node.kind = "Property" /\ node \in Nodes
  BY DEF RenderProperty, Rendering, SqlInv
<1>2. node.kind \in Leaves
  BY <1>1 DEF Leaves
<1>3. Means(Column(node.op), Request(node, part), args \o << >>)
  BY <1>1, PropertyMeans
<1>4. Return(Column(node.op), << >>, stack) \/ Fail
  BY DEF RenderProperty
<1>5. QED  BY <1>1, <1>2, <1>3, <1>4, OneOrNone, LeafSays, SaysFailing

LEMMA GeometrySays ==
    ASSUME SqlInv, SupportInv, MeaningInv, RenderGeometry
    PROVE  MeaningInv'
<1>1. mode = "render" /\ node.kind = "Geometry" /\ node \in Nodes /\ IsSeq(args)
  BY DEF RenderGeometry, Rendering, SqlInv
<1>2. node.kind \in Leaves
  BY <1>1 DEF Leaves
<1>3. CASE Fail
  BY <1>3, SaysFailing
<1>4. CASE ~Fail
  <2> DEFINE n == IF node.op = "BBOX4" THEN 4 ELSE 1
             parts == [i \in 1..n |-> Placeholder(Len(args) + i)]
             values == [i \in 1..n |-> node.op]
             f == Fragment(node.op, parts)
  <2>1. Return(f, values, stack)
    BY <1>4 DEF RenderGeometry
  <2>2. n \in {1, 4}
    OBVIOUS
  <2>3. IsSeq(values)
    <3> DEFINE V == {node.op}
    <3>1. n \in Nat /\ DOMAIN values = 1..n /\ \A i \in 1..n : values[i] \in V
      BY <2>2
    <3>2. values \in [1..n -> V]
      BY <3>1
    <3> HIDE DEF n, values, V
    <3>3. values \in Seq(V)
      BY <3>1, <3>2
    <3>4. QED  BY <3>3, SeqOfElements
  <2>4. ASSUME NEW i \in 1..n PROVE parts[i] \in FragmentsWithin[1]
    <3>1. Len(args) \in Nat
      BY <1>1, SeqIsFunction
    <3>2. Len(args) + i \in Nat
      BY <2>2, <3>1
    <3>3. QED  BY <3>2, Simple
  <2> DEFINE S == FragmentsWithin[1]
  <2>5. parts \in Seq(S)
    <3> HIDE DEF S
    <3>1. n \in Nat /\ DOMAIN parts = 1..n /\ \A i \in 1..n : parts[i] \in S
      BY <2>2, <2>4 DEF S
    <3>2. parts \in [1..n -> S]
      BY <3>1
    <3> HIDE DEF n, parts
    <3>3. QED  BY <3>1, <3>2
  <2> HIDE DEF n, parts, values
  <2>6. Means(f, Request(node, part), args \o values)
    BY <1>1, <2>5, GeometryMeans
  <2>7. QED  BY <1>1, <1>2, <2>1, <2>3, <2>6, LeafSays
<1>5. QED  BY <1>3, <1>4

LEMMA EndpointSays ==
    ASSUME MeaningInv, RenderEndpoint
    PROVE  MeaningInv'
<1>1. Fail \/ \E r : Render(r, stack)
  BY DEF RenderEndpoint
<1>2. StackMeans(stack, args)
  BY DEF MeaningInv
<1>3. QED  BY <1>1, <1>2, SaysFailing, SaysRendering

\* A frame pushed on a stack, or put in the place of one.
LEMMA PushMeans ==
    ASSUME NEW st, NEW fr, NEW values, IsSeq(st), StackMeans(st, values), FrameMeans(fr, values)
    PROVE  StackMeans(Append(st, fr), values)
<1> DEFINE up == Append(st, fr)
           n == Len(st)
<1>1. /\ n \in Nat /\ Len(up) = n + 1
      /\ \A i \in 1..n : up[i] = st[i]
      /\ up[n + 1] = fr
  BY AppendFacts
<1> HIDE DEF up
<1>2. \A i \in 1..Len(up) : i = n + 1 \/ i \in 1..n
  BY <1>1
<1>3. StackMeans(up, values)
  BY <1>1, <1>2 DEF StackMeans
<1>4. QED  BY <1>3 DEF up

LEMMA OperandsSay ==
    ASSUME SqlInv, SupportInv, MeaningInv, RenderOperands
    PROVE  MeaningInv'
<1> DEFINE requests == Requests(node)
           fr == [node |-> node, todo |-> Tail(requests), done |-> << >>]
<1>1. mode = "render" /\ node.kind \in Composites /\ node \in Nodes
      /\ (node.kind = "Interval" => part = "whole")
  BY DEF RenderOperands, Rendering, SqlInv
<1>2. Serves(Wanted, node, part) /\ StackMeans(stack, args) /\ IsSeq(args) /\ IsSeq(stack)
  BY <1>1 DEF SupportInv, Wanted, MeaningInv, SqlInv, StackOK
<1>3. node.kind \notin Leaves
  BY <1>1 DEF Composites, Leaves
<1>4. CASE ~Accepts(node)
  <2>1. Fail
    BY <1>4 DEF RenderOperands
  <2>2. QED  BY <2>1, SaysFailing
<1>5. CASE Accepts(node) /\ requests = << >>
  <2>1. Return(Template(node, << >>), << >>, stack)
    BY <1>5 DEF RenderOperands
  <2>2. Len(Requests(node)) = 0 /\ Len(<< >>) = 0
    BY <1>5
  <2>3. Supports(target, node)
    BY <1>1, <1>5, AcceptsSupported
  <2> DEFINE none == << >>
  <2>4. IsSeq(none) /\ Len(none) = 0 /\ Len(none) = Len(Requests(node))
    BY <2>2, OneOrNone
  <2> HIDE DEF none
  <2>5. \A j \in 1..Len(none) : Means(none[j], Requests(node)[j], args \o none)
    BY <2>4
  <2>6. Means(Template(node, none), Request(node, part), args \o none)
    BY <1>1, <1>3, <2>3, <2>4, <2>5, TemplateMeans
  <2>7. Len(stack) \in 0..Len(stack)
    BY SupportedStack
  <2>8. Wanted.node \in Nodes
    BY <2>7, AskedNodes DEF Wanted
  <2>9. Means(Template(node, none), Wanted, args \o none)
    BY <1>1, <1>2, <2>6, <2>8, ServingMeans
  <2>10. Return(Template(node, none), none, stack)
    BY <2>1 DEF none
  <2>11. QED  BY <1>2, <2>4, <2>9, <2>10, SaysReturning DEF Wanted
<1>6. CASE Accepts(node) /\ requests # << >>
  <2>1. Render(requests[1], Append(stack, fr))
    BY <1>6 DEF RenderOperands
  <2>2. fr.done = << >>
    OBVIOUS
  <2> HIDE DEF fr
  <2>3. Len(fr.done) = 0
    BY <2>2
  <2>4. FrameMeans(fr, args)
    BY <2>3 DEF FrameMeans
  <2>5. StackMeans(Append(stack, fr), args)
    BY <1>2, <2>4, PushMeans
  <2>6. QED  BY <2>1, <2>5, SaysRendering
<1>7. QED  BY <1>4, <1>5, <1>6

LEMMA JoinSays ==
    ASSUME SqlInv, SupportInv, MeaningInv, OperandRendered
    PROVE  MeaningInv'
<1> DEFINE done == Append(Top.done, fragment)
           fr == [node |-> Top.node, todo |-> Tail(Top.todo), done |-> done]
           n == Len(stack) - 1
           asked == Asked(filter, stack, n)
<1>1. mode = "return" /\ stack # << >> /\ IsSeq(stack) /\ IsSeq(args)
  BY DEF OperandRendered, SqlInv, StackOK
<1>2. /\ StackSupported(target, filter, stack) /\ StackMeans(stack, args)
      /\ Means(fragment, Asked(filter, stack, Len(stack)), args)
  BY <1>1 DEF SupportInv, MeaningInv, Wanted
<1>3. /\ IsSeq(Below) /\ Len(stack) \in Nat \ {0} /\ Len(Below) = n
      /\ \A i \in 1..n : Below[i] = stack[i]
  BY <1>1, Popping DEF Below
<1>4. /\ n \in Nat /\ Len(stack) = n + 1 /\ Len(stack) \in 1..Len(stack) /\ Len(stack) # 0
      /\ n \in 0..Len(stack) /\ \A i \in 1..n : i \in 1..Len(stack)
  BY <1>3
<1>5. FrameSupported(target, filter, asked, Top) /\ FrameMeans(Top, args)
  BY <1>2, <1>4 DEF StackSupported, StackMeans, Top
<1>6. Means(fragment, Requests(Top.node)[Len(Top.done) + 1], args)
  BY <1>2, <1>4 DEF Asked, Top
<1>7. FrameOK(Top)
  BY <1>1, <1>4 DEF SqlInv, StackOK, Top
<1>8. /\ Top.node \in Nodes /\ IsSeq(Top.todo) /\ IsSeq(Top.done)
      /\ Len(Top.done) + 1 + Len(Top.todo) = Len(Requests(Top.node))
  BY <1>7 DEF FrameOK, AreFragments
<1>9. /\ Len(Top.done) \in Nat /\ Len(done) = Len(Top.done) + 1 /\ IsSeq(done)
      /\ \A j \in 1..Len(Top.done) : done[j] = Top.done[j]
      /\ done[Len(Top.done) + 1] = fragment
  BY <1>8, AppendFacts
<1>10. asked.node \in Nodes
  BY <1>4, AskedNodes
<1>11. Asked(filter, Below, Len(Below)) = asked
  BY <1>3, <1>4, SMTT(30) DEF Asked
<1> HIDE DEF done, n, asked
<1>12. StackMeans(Below, args)
  BY <1>2, <1>3, <1>4 DEF StackMeans
<1>13. \A j \in 1..Len(done) : Means(done[j], Requests(Top.node)[j], args)
  <2>1. \A j \in 1..Len(Top.done) : Means(Top.done[j], Requests(Top.node)[j], args)
    BY <1>5 DEF FrameMeans
  <2>2. \A j \in 1..Len(done) : j \in 1..Len(Top.done) \/ j = Len(Top.done) + 1
    BY <1>9
  <2>3. QED  BY <1>6, <1>9, <2>1, <2>2
<1>14. CASE Top.todo = << >>
  <2>1. Return(Template(Top.node, done), << >>, Below)
    BY <1>14 DEF OperandRendered, done
  <2>2. Len(done) = Len(Requests(Top.node))
    <3>1. Len(Top.todo) = 0
      BY <1>14
    <3>2. QED  BY <1>8, <1>9, <3>1
  <2>3. PICK p : Serves(asked, Top.node, p) /\ (Top.node.kind = "Interval" => p = "whole")
    BY <1>5 DEF FrameSupported
  <2>4. Top.node.kind \notin Leaves /\ Supports(target, Top.node)
    BY <1>5 DEF FrameSupported
  <2>5. Means(Template(Top.node, done), Request(Top.node, p), args)
    BY <1>8, <1>9, <1>13, <2>2, <2>3, <2>4, TemplateMeans
  <2>6. Means(Template(Top.node, done), asked, args)
    BY <1>10, <2>3, <2>5, ServingMeans
  <2>7. Means(Template(Top.node, done), asked, args \o << >>)
    BY <1>1, <2>6, OneOrNone, MeansMore
  <2>8. QED  BY <1>1, <1>11, <1>12, <2>1, <2>7, OneOrNone, SaysReturning
<1>15. CASE Top.todo # << >>
  <2>1. Render(Top.todo[1], Append(Below, fr))
    BY <1>15 DEF OperandRendered, done
  <2>2. fr.done = done /\ fr.node = Top.node
    OBVIOUS
  <2> HIDE DEF fr
  <2>3. FrameMeans(fr, args)
    BY <1>13, <2>2 DEF FrameMeans
  <2>4. StackMeans(Append(Below, fr), args)
    BY <1>3, <1>12, <2>3, PushMeans
  <2>5. QED  BY <2>1, <2>4, SaysRendering
<1>16. QED  BY <1>14, <1>15

LEMMA FinishSays == ASSUME MeaningInv, Finish PROVE MeaningInv'
<1>1. /\ mode = "return" /\ stack = << >> /\ mode' = "compiled"
      /\ UNCHANGED <<filter, fragment, args, stack>>
  BY DEF Finish
<1>2. Len(stack) = 0
  BY <1>1
<1>3. Means(fragment, Request(filter, "whole"), args)
  BY <1>1, <1>2 DEF MeaningInv, Wanted, Asked
<1>4. StackMeans(stack, args)' /\ Means(fragment, Request(filter, "whole"), args)'
  BY <1>1, <1>3 DEF MeaningInv
<1>5. QED  BY <1>1, <1>4 DEF MeaningInv

LEMMA StutterSays == ASSUME MeaningInv, UNCHANGED vars PROVE MeaningInv'
<1>1. UNCHANGED <<filter, mode, fragment, args, stack>>
  BY DEF vars
<1>2. StackMeans(stack, args)'
  BY <1>1 DEF MeaningInv
<1>3. QED  BY <1>1, <1>2 DEF MeaningInv, Wanted

LEMMA InitiallyMeant == ASSUME Init PROVE MeaningInv
<1>1. mode = "render" /\ stack = << >>
  BY DEF Init
<1>2. Len(stack) = 0
  BY <1>1
<1>3. StackMeans(stack, args)
  BY <1>2 DEF StackMeans
<1>4. QED  BY <1>1, <1>3 DEF MeaningInv

LEMMA StepsKeepMeaning == SqlInv /\ SupportInv /\ MeaningInv /\ [Next]_vars => MeaningInv'
<1> SUFFICES ASSUME SqlInv, SupportInv, MeaningInv, [Next]_vars PROVE MeaningInv'
  OBVIOUS
<1>1. CASE RenderLiteral    BY <1>1, LiteralSays
<1>2. CASE RenderInstant    BY <1>2, InstantSays
<1>3. CASE RenderProperty   BY <1>3, PropertySays
<1>4. CASE RenderGeometry   BY <1>4, GeometrySays
<1>5. CASE RenderEndpoint   BY <1>5, EndpointSays
<1>6. CASE RenderOperands   BY <1>6, OperandsSay
<1>7. CASE OperandRendered  BY <1>7, JoinSays
<1>8. CASE Finish           BY <1>8, FinishSays
<1>9. CASE Terminated       BY <1>9, StutterSays DEF Terminated
<1>10. CASE UNCHANGED vars  BY <1>10, StutterSays
<1>11. QED
  BY <1>1, <1>2, <1>3, <1>4, <1>5, <1>6, <1>7, <1>8, <1>9, <1>10 DEF Next, Step

-----------------------------------------------------------------------------
(* What the SQL selects.                                                   *)

\* The value of the SQL returned, for the values bound.
LEMMA CompiledAnswers ==
    ASSUME MeaningInv, mode = "compiled", NEW row, row \in Rows
    PROVE  \E x : (Selected(row) <=> x = "true") /\ Answer(x, Request(filter, "whole"), row)
<1>1. PICK e : Evaluates(e, Fragments, args, row) /\ \A f : Eval(f, args, row) = e[f]
  BY EvalEvaluates
<1>2. Begins(args, args)
  BY DEF Begins
<1>3. Means(fragment, Request(filter, "whole"), args)
  BY DEF MeaningInv
<1>4. Answer(e[fragment], Request(filter, "whole"), row)
  BY <1>1, <1>2, <1>3 DEF Means
<1>5. Selected(row) <=> e[fragment] = "true"
  BY <1>1 DEF Selected
<1>6. QED  BY <1>4, <1>5

\* The WHERE clause selects the rows the filter describes, for every filter,
\* dialect, mapping and table.
THEOREM SelectsExactly == Spec => []SelectsTheFilter
<1>1. Init => SqlInv /\ SupportInv /\ MeaningInv
  BY Initially, InitiallySupported, InitiallyMeant
<1>2. MeaningInv => SelectsTheFilter
  <2> SUFFICES ASSUME MeaningInv, mode = "compiled", NEW row \in Rows, Decided(filter, row)
               PROVE  Selected(row) <=> Holds(filter, row)
    BY DEF SelectsTheFilter
  <2>1. PICK x : (Selected(row) <=> x = "true") /\ Answer(x, Request(filter, "whole"), row)
    BY CompiledAnswers
  <2>2. Request(filter, "whole").node = filter
    BY EndsNeed
  <2>3. x = "true" <=> Meaning(filter, row).truth = "true"
    BY <2>1, <2>2 DEF Answer, Decided
  <2>4. QED  BY <2>1, <2>3 DEF Holds
<1>3. QED
  BY <1>1, <1>2, StepsKeepSqlInv, StepsKeepSupport, StepsKeepMeaning, PTL DEF Spec

\* A temporal relation that does not hold of two intervals is not selected
\* where some of their ends are missing.
LEMMA MissingEndsSelectNothing ==
    ASSUME MeaningInv, SupportInv, mode = "compiled", filter.kind = "Temporal",
           NEW row, row \in Rows, Decided(filter, row), NEW r, r \in Obscured(row), Selected(r)
    PROVE  Holds(filter, row)
<1> DEFINE o == OperandMeanings(filter, row)
           q == OperandMeanings(filter, r)
           m == MeaningOf(filter, o, row)
           op == filter.op
<1>1. filter \in Nodes /\ filter \in Trees /\ r \in Rows
  BY FiltersAssumption, TreesAssumption DEF SupportInv, Obscured
<1>2. Meaning(filter, row) = m
  BY <1>1, MeaningEquation
<1>3. \/ m = Nothing \/ ScalarForm(filter, o, row, m)
      \/ IsInterval(filter, o) /\ m = Interval(o[1].start, o[2].start)
      \/ ConditionForm(filter, o, m)
  BY MeaningForms
<1>4. 1 \in DOMAIN filter.args /\ 2 \in DOMAIN filter.args
  <2>1. Len(filter.args) = 2
    BY <1>1, FiltersAssumption
  <2>2. DOMAIN filter.args = 1..2
    BY <1>1, <2>1, TreesClosed
  <2>3. QED  BY <2>2
<1>5. /\ DOMAIN o = DOMAIN filter.args /\ DOMAIN q = DOMAIN filter.args
      /\ \A i \in DOMAIN filter.args :
            o[i] = Meaning(filter.args[i], row) /\ q[i] = Meaning(filter.args[i], r)
  BY DEF OperandMeanings
<1>6. m.sort = "condition"
  BY <1>2 DEF Decided
<1> HIDE DEF o, q, m
<1>7. ConditionForm(filter, o, m)
  <2>1. m # Nothing /\ (\A v : m # Scalar(v)) /\ (\A s, t : m # Interval(s, t))
    BY <1>6, Sorts
  <2>2. QED  BY <1>3, <2>1 DEF ScalarForm
<1>8. /\ Relates(filter, o) /\ Proper(o[1]) /\ Proper(o[2])
      /\ m = Condition(Relation(op, Covered(o[1]), Covered(o[2])))
  BY <1>7 DEF ConditionForm, IsBoolean
<1>9. op \in TemporalOps
  BY <1>8 DEF Relates
<1>10. ASSUME NEW i, i \in DOMAIN filter.args PROVE Widens(q[i], o[i]) /\ HasEnds(o[i])
  <2>1. filter.args[i] \in Trees
    BY <1>1, <1>10, TreesClosed
  <2>2. o[i].sort \in {"scalar", "interval"}
    BY <1>5, <1>8, <1>10 DEF Relates, Are
  <2>3. Meaning(filter.args[i], row).sort \in {"scalar", "interval"}
    BY <1>5, <1>10, <2>2
  <2>4. Widens(Meaning(filter.args[i], r), Meaning(filter.args[i], row))
    BY <2>1, <2>3, MeaningWidens
  <2>5. HasEnds(Meaning(filter.args[i], row))
    BY <2>1, MeaningEnds
  <2>6. QED  BY <1>5, <1>10, <2>4, <2>5
<1>11. Relates(filter, q)
  BY <1>5, <1>8, <1>10 DEF Relates, Are, Widens
<1>12. PICK x : (Selected(r) <=> x = "true") /\ Answer(x, Request(filter, "whole"), r)
  BY <1>1, CompiledAnswers
<1>13. Request(filter, "whole").node = filter
  BY EndsNeed
<1>14. Ordered(op, q[1].start, q[1].end, q[2].start, q[2].end)
  BY <1>11, <1>12, <1>13 DEF Answer, q
<1>15. /\ q[1].start \subseteq o[1].start /\ q[1].end \subseteq o[1].end
       /\ q[2].start \subseteq o[2].start /\ q[2].end \subseteq o[2].end
       /\ HasEnds(o[1]) /\ HasEnds(o[2])
  BY <1>4, <1>10 DEF Widens
<1>16. Ordered(op, o[1].start, o[1].end, o[2].start, o[2].end)
  BY <1>9, <1>14, <1>15, OrderedGrows
<1>17. Relation(op, Covered(o[1]), Covered(o[2]))
  BY <1>8, <1>9, <1>15, <1>16, ProperRelates
<1>18. m.truth = "true"
  <2> DEFINE P == Relation(op, Covered(o[1]), Covered(o[2]))
  <2>1. P \in BOOLEAN /\ m = Condition(P) /\ P
    BY <1>8, <1>9, <1>17, RelationHolds
  <2> HIDE DEF P
  <2>2. QED  BY <2>1, ConditionSort
<1>19. QED  BY <1>2, <1>18 DEF Holds

\* Where an end of an interval is missing, a temporal relation is selected
\* only if it holds whatever the end is, for every filter and table.
THEOREM RelatesSafely == Spec => []RelatesTheIntervals
<1>1. Init => SqlInv /\ SupportInv /\ MeaningInv
  BY Initially, InitiallySupported, InitiallyMeant
<1>2. SupportInv /\ MeaningInv => RelatesTheIntervals
  BY MissingEndsSelectNothing DEF RelatesTheIntervals
<1>3. QED
  BY <1>1, <1>2, StepsKeepSqlInv, StepsKeepSupport, StepsKeepMeaning, PTL DEF Spec
=============================================================================
