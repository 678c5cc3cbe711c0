----------------------------- MODULE Trees_proofs ----------------------------
(***************************************************************************)
(* What is known of the nodes of a tree from the nodes of its arguments,   *)
(* for every tree and every number of levels, and what the validators of   *)
(* TypeRules and Geometry say of the operands they let through.            *)
(***************************************************************************)
EXTENDS Trees, FiniteSetTheorems, SequenceTheorems, WellFoundedInduction, TLAPS

-----------------------------------------------------------------------------
(* Induction over the natural numbers, for a set of them.                  *)

LEMMA SetInduction ==
    ASSUME NEW S, 0 \in S, \A n \in Nat : n \in S => n + 1 \in S
    PROVE  Nat \subseteq S
<1> DEFINE T == Nat \ S
           R == {ss \in Nat \X Nat : ss[1] < ss[2]}
<1>1. R = OpToRel(<, Nat)
  BY DEF OpToRel
<1>2. IsWellFoundedOn(R, Nat)
  BY <1>1, NatLessThanWellFounded
<1>3. SUFFICES ASSUME T # {} PROVE FALSE
  OBVIOUS
<1>4. T \subseteq Nat
  OBVIOUS
<1> HIDE DEF R
<1>5. PICK x \in T : \A y \in T : <<y, x>> \notin R
  BY <1>2, <1>3, <1>4, WFMin
<1>6. x \in Nat /\ x # 0 /\ x \notin S
  BY <1>5
<1>7. x - 1 \in Nat /\ x - 1 < x /\ (x - 1) + 1 = x
  BY <1>6
<1>8. <<x - 1, x>> \in R
  BY <1>6, <1>7 DEF R
<1>9. QED
  BY <1>5, <1>6, <1>7, <1>8

-----------------------------------------------------------------------------
(* The levels of a tree, with and without the ranks of its nodes.          *)

Grown(reader, S) == IF reader = "none" THEN WithChildren(S) ELSE WithRanked(reader, S)

\* g holds the levels 0 to n above the set at.
Upto(reader, at, n, g) ==
    g = [k \in 0..n |-> IF k = 0 THEN at ELSE Grown(reader, g[k - 1])]

Climbs(reader, at, n, g) ==
    /\ g[0] = at
    /\ \A k \in Nat : k + 1 <= n => g[k + 1] = Grown(reader, g[k])

LEMMA UptoLevels ==
    ASSUME NEW reader, NEW at, NEW n \in Nat, NEW g, Upto(reader, at, n, g)
    PROVE  Climbs(reader, at, n, g)
<1>1. \A k \in 0..n : g[k] = IF k = 0 THEN at ELSE Grown(reader, g[k - 1])
  BY DEF Upto
<1>2. \A k \in 0..n : k # 0 => g[k] = Grown(reader, g[k - 1])
  BY <1>1
<1>3. \A k \in Nat : k + 1 <= n => k + 1 \in 0..n /\ k + 1 # 0 /\ (k + 1) - 1 = k
  OBVIOUS
<1>4. QED  BY <1>1, <1>2, <1>3 DEF Climbs

LEMMA UptoExists == ASSUME NEW reader, NEW at PROVE \A n \in Nat : \E g : Upto(reader, at, n, g)
<1> DEFINE S == {n \in Nat : \E g : Upto(reader, at, n, g)}
<1>1. 0 \in S
  <2>1. Upto(reader, at, 0, [k \in 0..0 |-> at])
    BY DEF Upto
  <2>2. QED  BY <2>1
<1>2. ASSUME NEW n \in Nat, n \in S PROVE n + 1 \in S
  <2>1. PICK g : Upto(reader, at, n, g)
    BY <1>2
  <2> DEFINE h == [k \in 0..n + 1 |-> IF k = n + 1 THEN Grown(reader, g[n]) ELSE g[k]]
  <2>2. /\ g[0] = at
        /\ \A k \in 0..n : k # 0 => g[k] = Grown(reader, g[k - 1])
    <3>1. Climbs(reader, at, n, g)
      BY <2>1, UptoLevels
    <3>2. \A k \in 0..n : k # 0 => k - 1 \in Nat /\ (k - 1) + 1 = k /\ k <= n
      OBVIOUS
    <3>3. QED  BY ONLY <3>1, <3>2 DEF Climbs
  <2>3. ASSUME NEW k \in 0..n + 1 PROVE h[k] = IF k = 0 THEN at ELSE Grown(reader, h[k - 1])
    <3>1. CASE k = 0
      BY <2>2, <3>1
    <3>2. CASE k = n + 1
      <4>1. h[k] = Grown(reader, g[n])
        BY <3>2
      <4>2. k - 1 = n /\ n \in 0..n + 1 /\ n # n + 1 /\ k # 0
        BY <3>2
      <4>3. h[n] = g[n]
        BY <4>2
      <4>4. QED  BY <4>1, <4>2, <4>3
    <3>3. CASE k # 0 /\ k # n + 1
      <4>1. k \in 0..n /\ k - 1 \in 0..n + 1 /\ k - 1 # n + 1
        BY <3>3
      <4>2. h[k] = g[k] /\ h[k - 1] = g[k - 1]
        BY <3>3, <4>1
      <4>3. QED  BY <2>2, <3>3, <4>1, <4>2
    <3>4. QED  BY <3>1, <3>2, <3>3
  <2>4. h = [k \in 0..n + 1 |-> IF k = 0 THEN at ELSE Grown(reader, h[k - 1])]
    BY <2>3
  <2>5. Upto(reader, at, n + 1, h)
    BY ONLY <2>4 DEF Upto
  <2>6. QED  BY <2>5
<1>3. Nat \subseteq S
  <2> HIDE DEF S
  <2>1. QED  BY <1>1, <1>2, SetInduction
<1>4. QED  BY <1>3

\* Two of them agree where both are defined.
LEMMA UptoUnique ==
    ASSUME NEW reader, NEW at
    PROVE  \A k \in Nat : \A n, m \in Nat : \A g, h :
              Upto(reader, at, n, g) /\ Upto(reader, at, m, h) /\ k <= n /\ k <= m => g[k] = h[k]
<1> DEFINE Agree(k) == \A n, m \in Nat : \A g, h :
              Upto(reader, at, n, g) /\ Upto(reader, at, m, h) /\ k <= n /\ k <= m => g[k] = h[k]
           S == {k \in Nat : Agree(k)}
<1>1. 0 \in S
  <2>1. Agree(0)  BY UptoLevels DEF Climbs
  <2>2. QED  BY <2>1
<1>2. ASSUME NEW k \in Nat, k \in S PROVE k + 1 \in S
  <2>1. Agree(k + 1)
    <3> SUFFICES ASSUME NEW n \in Nat, NEW m \in Nat, NEW g, NEW h,
                        Upto(reader, at, n, g), Upto(reader, at, m, h), k + 1 <= n, k + 1 <= m
                 PROVE  g[k + 1] = h[k + 1]
      OBVIOUS
    <3>1. k <= n /\ k <= m /\ k + 1 \in 0..n /\ k + 1 \in 0..m /\ k + 1 # 0 /\ (k + 1) - 1 = k
      OBVIOUS
    <3>2. g[k] = h[k]
      BY <1>2, <3>1
    <3>3. Climbs(reader, at, n, g) /\ Climbs(reader, at, m, h)
      BY UptoLevels
    <3>4. g[k + 1] = Grown(reader, g[k]) /\ h[k + 1] = Grown(reader, h[k])
      BY <3>3 DEF Climbs
    <3>5. QED  BY <3>2, <3>4
  <2>2. QED  BY <2>1
<1>3. Nat \subseteq S
  <2> HIDE DEF S
  <2>1. QED  BY <1>1, <1>2, SetInduction
<1>4. QED  BY <1>3

Grows(reader, at, f) == f = [k \in Nat |-> IF k = 0 THEN at ELSE Grown(reader, f[k - 1])]

LEMMA LevelsExist ==
    ASSUME NEW reader, NEW at
    PROVE  \E f : Grows(reader, at, f)
<1> DEFINE G(k) == CHOOSE g : Upto(reader, at, k, g)
           F == [k \in Nat |-> G(k)[k]]
<1>1. \A k \in Nat : Upto(reader, at, k, G(k))
  BY UptoExists
<1> HIDE DEF G
<1>2. ASSUME NEW k \in Nat
      PROVE  F[k] = IF k = 0 THEN at ELSE Grown(reader, F[k - 1])
  <2>1. F[k] = G(k)[k]
    OBVIOUS
  <2>2. CASE k = 0
    BY <1>1, <2>1, <2>2, UptoLevels DEF Climbs
  <2>3. CASE k # 0
    <3>1. k - 1 \in Nat /\ k - 1 <= k /\ k \in 0..k
      BY <2>3
    <3>2. F[k - 1] = G(k - 1)[k - 1]
      BY <3>1
    <3>3. G(k)[k - 1] = G(k - 1)[k - 1]
      BY <1>1, <3>1, UptoUnique
    <3>4. G(k)[k] = Grown(reader, G(k)[k - 1])
      <4>1. Climbs(reader, at, k, G(k))
        BY <1>1, UptoLevels
      <4>2. (k - 1) + 1 = k
        OBVIOUS
      <4>3. QED  BY <3>1, <4>1, <4>2 DEF Climbs
    <3>5. QED  BY <2>1, <2>3, <3>2, <3>3, <3>4
  <2>4. QED  BY <2>2, <2>3
<1>3. F = [k \in Nat |-> F[k]]
  OBVIOUS
<1> HIDE DEF F
<1>4. F = [k \in Nat |-> IF k = 0 THEN at ELSE Grown(reader, F[k - 1])]
  BY <1>2, <1>3
<1>5. Grows(reader, at, F)
  BY <1>4 DEF Grows
<1>6. QED  BY <1>5

LEMMA WithinLevels ==
    ASSUME NEW tree
    PROVE  /\ Within(tree)[0] = {tree}
           /\ \A k \in Nat : Within(tree)[k + 1] = WithChildren(Within(tree)[k])
<1> DEFINE Is(f) == f = [k \in Nat |-> IF k = 0 THEN {tree} ELSE WithChildren(f[k - 1])]
<1>1. Within(tree) = CHOOSE f : Is(f)
  BY DEF Within
<1>2. \E f : Is(f)
  <2> DEFINE plain == "none"
             at == {tree}
  <2>1. \A S : Grown(plain, S) = WithChildren(S)
    BY DEF Grown
  <2> HIDE DEF plain, at
  <2>2. PICK f : Grows(plain, at, f)
    BY LevelsExist
  <2>3. f = [k \in Nat |-> IF k = 0 THEN at ELSE WithChildren(f[k - 1])]
    BY <2>1, <2>2 DEF Grows
  <2>4. QED  BY <2>3 DEF at
<1>3. Is(Within(tree))
  <2> HIDE DEF Is
  <2>1. QED  BY <1>1, <1>2
<1>4. \A k \in Nat : Within(tree)[k] = IF k = 0 THEN {tree} ELSE WithChildren(Within(tree)[k - 1])
  BY <1>3
<1>5. \A k \in Nat : k + 1 \in Nat /\ k + 1 # 0 /\ (k + 1) - 1 = k
  OBVIOUS
<1>6. QED  BY <1>4, <1>5

\* The root is at every level, and no level is lost further down.
LEMMA Climbing ==
    ASSUME NEW tree
    PROVE  \A k \in Nat : tree \in Within(tree)[k] /\ Within(tree)[k] \subseteq Within(tree)[k + 1]
<1> DEFINE S == {k \in Nat : tree \in Within(tree)[k]}
<1>1. \A k \in Nat : Within(tree)[k] \subseteq Within(tree)[k + 1]
  BY WithinLevels DEF WithChildren
<1>2. 0 \in S
  BY WithinLevels
<1>3. \A k \in Nat : k \in S => k + 1 \in S
  BY <1>1
<1>4. Nat \subseteq S
  <2> HIDE DEF S
  <2>1. QED  BY <1>2, <1>3, SetInduction
<1>5. QED  BY <1>1, <1>4

\* A node below the root is at a lower level of an argument.
LEMMA Descending ==
    ASSUME NEW n
    PROVE  \A k \in Nat : \A m \in Within(n)[k + 1] :
              m = n \/ \E i \in DOMAIN n.args : m \in Within(n.args[i])[k]
<1> DEFINE Below(k) == \A m \in Within(n)[k + 1] :
              m = n \/ \E i \in DOMAIN n.args : m \in Within(n.args[i])[k]
           S == {k \in Nat : Below(k)}
<1>1. 0 \in S
  <2>1. Within(n)[0 + 1] = WithChildren({n})
    BY WithinLevels
  <2>2. \A i \in DOMAIN n.args : Within(n.args[i])[0] = {n.args[i]}
    BY WithinLevels
  <2>3. Below(0)
    BY <2>1, <2>2 DEF WithChildren, Children
  <2>4. QED  BY <2>3
<1>2. ASSUME NEW k \in Nat, k \in S PROVE k + 1 \in S
  <2>1. ASSUME NEW m \in Within(n)[(k + 1) + 1]
        PROVE  m = n \/ \E i \in DOMAIN n.args : m \in Within(n.args[i])[k + 1]
    <3>1. Below(k) /\ k + 1 \in Nat
      BY <1>2
    <3>2. Within(n)[(k + 1) + 1] = WithChildren(Within(n)[k + 1])
      BY <3>1, WithinLevels
    <3>3. \A i \in DOMAIN n.args : Within(n.args[i])[k + 1] = WithChildren(Within(n.args[i])[k])
      BY WithinLevels
    <3>4. \A i \in DOMAIN n.args : n.args[i] \in Within(n.args[i])[k + 1]
      BY <3>1, Climbing
    <3>5. CASE m \in Within(n)[k + 1]
      BY <3>1, <3>3, <3>5 DEF WithChildren
    <3>6. CASE \E p \in Within(n)[k + 1] : m \in Children(p)
      <4>1. PICK p \in Within(n)[k + 1] : m \in Children(p)
        BY <3>6
      <4>2. CASE p = n
        BY <4>1, <4>2, <3>4 DEF Children
      <4>3. CASE \E i \in DOMAIN n.args : p \in Within(n.args[i])[k]
        BY <4>1, <4>3, <3>3 DEF WithChildren
      <4>4. QED  BY <3>1, <4>2, <4>3
    <3>7. QED  BY <2>1, <3>2, <3>5, <3>6 DEF WithChildren
  <2>2. QED  BY <2>1
<1>3. Nat \subseteq S
  <2> HIDE DEF S
  <2>1. QED  BY <1>1, <1>2, SetInduction
<1>4. QED  BY <1>3

\* The nodes of a tree are its root and the nodes of its arguments.
LEMMA SubtreesOf ==
    ASSUME NEW n
    PROVE  /\ n \in Subtrees(n)
           /\ \A m \in Subtrees(n) : m = n \/ \E i \in DOMAIN n.args : m \in Subtrees(n.args[i])
<1>1. n \in Subtrees(n)
  BY Climbing, TreeLevelsAssumption DEF Subtrees
<1>2. CASE TreeLevels = 0
  BY <1>2, WithinLevels DEF Subtrees
<1>3. CASE TreeLevels # 0
  <2>1. PICK k \in Nat : TreeLevels = k + 1
    <3>1. TreeLevels - 1 \in Nat /\ TreeLevels = (TreeLevels - 1) + 1
      BY <1>3, TreeLevelsAssumption
    <3>2. QED  BY <3>1
  <2>2. \A i \in DOMAIN n.args : Within(n.args[i])[k] \subseteq Within(n.args[i])[k + 1]
    BY Climbing
  <2>3. QED  BY <1>1, <2>1, <2>2, Descending DEF Subtrees
<1>4. QED  BY <1>2, <1>3

\* A node that takes over the arguments of another has the same nodes below.
LEMMA SubtreesOfTwin ==
    ASSUME NEW n, NEW twin, twin.args = n.args
    PROVE  \A m \in Subtrees(twin) : m = twin \/ m \in Subtrees(n)
<1> DEFINE S == {k \in Nat : Within(twin)[k] \subseteq {twin} \cup Within(n)[k]}
<1>1. 0 \in S
  BY WithinLevels
<1>2. ASSUME NEW k \in Nat, k \in S PROVE k + 1 \in S
  <2>1. /\ Within(twin)[k + 1] = WithChildren(Within(twin)[k])
        /\ Within(n)[k + 1] = WithChildren(Within(n)[k])
    BY WithinLevels
  <2>2. n \in Within(n)[k] /\ Children(twin) = Children(n)
    BY Climbing DEF Children
  <2>3. QED  BY <1>2, <2>1, <2>2 DEF WithChildren
<1>3. Nat \subseteq S
  <2> HIDE DEF S
  <2>1. QED  BY <1>1, <1>2, SetInduction
<1>4. QED  BY <1>3, TreeLevelsAssumption DEF Subtrees

-----------------------------------------------------------------------------
(* The ranks of the nodes of a tree.                                       *)

LEMMA RanksLevels ==
    ASSUME NEW reader, reader # "none", NEW tree
    PROVE  /\ Ranks(reader, tree)[0] = {<<tree, 1>>}
           /\ \A k \in Nat : Ranks(reader, tree)[k + 1] = WithRanked(reader, Ranks(reader, tree)[k])
<1> DEFINE Is(f) == f = [k \in Nat |-> IF k = 0 THEN {<<tree, 1>>} ELSE WithRanked(reader, f[k - 1])]
<1>1. Ranks(reader, tree) = CHOOSE f : Is(f)
  BY DEF Ranks
<1>2. \E f : Is(f)
  <2> DEFINE at == {<<tree, 1>>}
  <2>1. \A S : Grown(reader, S) = WithRanked(reader, S)
    BY DEF Grown
  <2> HIDE DEF at
  <2>2. PICK f : Grows(reader, at, f)
    BY LevelsExist
  <2>3. f = [k \in Nat |-> IF k = 0 THEN at ELSE WithRanked(reader, f[k - 1])]
    BY <2>1, <2>2 DEF Grows
  <2>4. QED  BY <2>3 DEF at
<1>3. Is(Ranks(reader, tree))
  <2> HIDE DEF Is
  <2>1. QED  BY <1>1, <1>2
<1>4. \A k \in Nat : Ranks(reader, tree)[k] =
                       IF k = 0 THEN {<<tree, 1>>} ELSE WithRanked(reader, Ranks(reader, tree)[k - 1])
  BY <1>3
<1>5. \A k \in Nat : k + 1 \in Nat /\ k + 1 # 0 /\ (k + 1) - 1 = k
  OBVIOUS
<1>6. QED  BY <1>4, <1>5

LEMMA RanksStep ==
    ASSUME NEW reader, reader # "none", NEW tree, NEW k, k \in Nat
    PROVE  Ranks(reader, tree)[k + 1] = WithRanked(reader, Ranks(reader, tree)[k])
<1>1. \A j \in Nat : Ranks(reader, tree)[j + 1] = WithRanked(reader, Ranks(reader, tree)[j])
  BY RanksLevels
<1>2. QED  BY <1>1

LEMMA InWithRanked ==
    ASSUME NEW reader, NEW S, NEW x
    PROVE  x \in WithRanked(reader, S) <=> x \in S \/ \E q \in S : x \in Ranked(reader, q[1], q[2])
<1>1. x \in UNION {Ranked(reader, q[1], q[2]) : q \in S} <=> \E q \in S : x \in Ranked(reader, q[1], q[2])
  OBVIOUS
<1>2. QED  BY <1>1 DEF WithRanked

LEMMA RanksClimb ==
    ASSUME NEW reader, reader # "none", NEW tree
    PROVE  \A k \in Nat : /\ <<tree, 1>> \in Ranks(reader, tree)[k]
                          /\ Ranks(reader, tree)[k] \subseteq Ranks(reader, tree)[k + 1]
<1> DEFINE S == {k \in Nat : <<tree, 1>> \in Ranks(reader, tree)[k]}
<1>1. \A k \in Nat : Ranks(reader, tree)[k] \subseteq Ranks(reader, tree)[k + 1]
  <2> TAKE k \in Nat
  <2>1. Ranks(reader, tree)[k + 1] = WithRanked(reader, Ranks(reader, tree)[k])
    BY RanksStep
  <2>2. QED  BY <2>1, InWithRanked
<1>2. 0 \in S
  BY RanksLevels
<1>3. \A k \in Nat : k \in S => k + 1 \in S
  BY <1>1
<1>4. Nat \subseteq S
  <2> HIDE DEF S
  <2>1. QED  BY <1>2, <1>3, SetInduction
<1>5. QED  BY <1>1, <1>4

LEMMA WeightRange == ASSUME NEW reader, NEW n, NEW i PROVE Weight(reader, n, i) \in {0, 1}
  BY DEF Weight

LEMMA RanksAreInts ==
    ASSUME NEW reader, reader # "none", NEW tree
    PROVE  \A k \in Nat : \A p \in Ranks(reader, tree)[k] : p[2] \in Int
<1> DEFINE S == {k \in Nat : \A p \in Ranks(reader, tree)[k] : p[2] \in Int}
<1>1. 0 \in S
  <2>1. Ranks(reader, tree)[0] = {<<tree, 1>>}
    BY RanksLevels
  <2>2. \A p \in Ranks(reader, tree)[0] : p = <<tree, 1>>
    BY <2>1
  <2>3. \A p \in Ranks(reader, tree)[0] : p[2] \in Int
    BY <2>2
  <2>4. QED  BY <2>3
<1>2. ASSUME NEW k \in Nat, k \in S PROVE k + 1 \in S
  <2>1. ASSUME NEW p \in Ranks(reader, tree)[k + 1] PROVE p[2] \in Int
    <3>1. p \in Ranks(reader, tree)[k] \/ \E q \in Ranks(reader, tree)[k] : p \in Ranked(reader, q[1], q[2])
      <4>1. Ranks(reader, tree)[k + 1] = WithRanked(reader, Ranks(reader, tree)[k])
        BY RanksStep
      <4>2. QED  BY <4>1, InWithRanked
    <3>2. ASSUME NEW q \in Ranks(reader, tree)[k], p \in Ranked(reader, q[1], q[2]) PROVE p[2] \in Int
      <4>1. PICK i \in Inner(q[1]) : p = <<q[1].args[i], q[2] + Weight(reader, q[1], i)>>
        BY <3>2 DEF Ranked
      <4>2. q[2] \in Int
        BY <1>2
      <4>3. QED  BY <4>1, <4>2, WeightRange
    <3>3. QED  BY <1>2, <3>1, <3>2
  <2>2. QED  BY <2>1
<1>3. Nat \subseteq S
  <2> HIDE DEF S
  <2>1. QED  BY <1>1, <1>2, SetInduction
<1>4. QED  BY <1>3

\* A node below the root has in the argument it is in a rank less by the
\* weight of the argument.
RankBelow(reader, n, k, p) ==
    \E i \in Inner(n) : \E q \in Ranks(reader, n.args[i])[k] :
        p[1] = q[1] /\ p[2] = q[2] + Weight(reader, n, i)

LEMMA RanksDescend ==
    ASSUME NEW reader, reader # "none", NEW n
    PROVE  \A k \in Nat : \A p \in Ranks(reader, n)[k + 1] : p = <<n, 1>> \/ RankBelow(reader, n, k, p)
<1> DEFINE All(k) == \A p \in Ranks(reader, n)[k + 1] : p = <<n, 1>> \/ RankBelow(reader, n, k, p)
           S == {k \in Nat : All(k)}
\* An argument of the root.
<1>1. ASSUME NEW k \in Nat, NEW p \in Ranked(reader, n, 1) PROVE RankBelow(reader, n, k, p)
  <2>1. PICK i \in Inner(n) : p = <<n.args[i], 1 + Weight(reader, n, i)>>
    BY <1>1 DEF Ranked
  <2>2. <<n.args[i], 1>> \in Ranks(reader, n.args[i])[k]
    BY RanksClimb
  <2> DEFINE q == <<n.args[i], 1>>
  <2>3. q[1] = n.args[i] /\ q[2] = 1 /\ p[1] = n.args[i] /\ p[2] = 1 + Weight(reader, n, i)
    BY <2>1
  <2>4. p[1] = q[1] /\ p[2] = q[2] + Weight(reader, n, i) /\ q \in Ranks(reader, n.args[i])[k]
    BY <2>2, <2>3
  <2> HIDE DEF q
  <2>5. QED  BY <2>4 DEF RankBelow
<1>2. 0 \in S
  <2>1. ASSUME NEW p \in Ranks(reader, n)[0 + 1] PROVE p = <<n, 1>> \/ RankBelow(reader, n, 0, p)
    <3> DEFINE zero == 0
               root == <<n, 1>>
    <3>1. zero \in Nat /\ root[1] = n /\ root[2] = 1
      OBVIOUS
    <3>2. Ranks(reader, n)[zero + 1] = WithRanked(reader, {root})
      <4>1. /\ Ranks(reader, n)[0] = {<<n, 1>>}
            /\ \A j \in Nat : Ranks(reader, n)[j + 1] = WithRanked(reader, Ranks(reader, n)[j])
        BY RanksLevels
      <4>2. Ranks(reader, n)[zero + 1] = WithRanked(reader, Ranks(reader, n)[zero])
        BY <4>1
      <4>3. QED  BY <4>1, <4>2
    <3> HIDE DEF zero, root
    <3>3. p \in {root} \/ \E q \in {root} : p \in Ranked(reader, q[1], q[2])
      BY <2>1, <3>2, InWithRanked DEF zero
    <3>4. p = root \/ p \in Ranked(reader, n, 1)
      BY <3>1, <3>3
    <3>5. QED  BY <1>1, <3>1, <3>4 DEF zero, root
  <2>2. QED  BY <2>1
<1>3. ASSUME NEW k \in Nat, k \in S PROVE k + 1 \in S
  <2>1. ASSUME NEW p \in Ranks(reader, n)[(k + 1) + 1]
        PROVE  p = <<n, 1>> \/ RankBelow(reader, n, k + 1, p)
    <3>1. All(k) /\ k + 1 \in Nat
      BY <1>3
    <3>2. \/ p \in Ranks(reader, n)[k + 1]
          \/ \E m \in Ranks(reader, n)[k + 1] : p \in Ranked(reader, m[1], m[2])
      <4>1. Ranks(reader, n)[(k + 1) + 1] = WithRanked(reader, Ranks(reader, n)[k + 1])
        BY <3>1, RanksStep
      <4>2. QED  BY <2>1, <4>1, InWithRanked
    <3>3. CASE p \in Ranks(reader, n)[k + 1]
      BY <3>1, <3>3, RanksClimb DEF RankBelow
    <3>4. ASSUME NEW m \in Ranks(reader, n)[k + 1], p \in Ranked(reader, m[1], m[2])
          PROVE  RankBelow(reader, n, k + 1, p)
      <4>1. CASE m = <<n, 1>>
        <5>1. p \in Ranked(reader, n, 1)
          BY <3>4, <4>1
        <5>2. QED  BY <1>1, <3>1, <5>1
      <4>2. CASE RankBelow(reader, n, k, m)
        <5>0. PICK i \in Inner(n) : \E q \in Ranks(reader, n.args[i])[k] :
                m[1] = q[1] /\ m[2] = q[2] + Weight(reader, n, i)
          BY <4>2 DEF RankBelow
        <5>1. PICK q \in Ranks(reader, n.args[i])[k] :
                m[1] = q[1] /\ m[2] = q[2] + Weight(reader, n, i)
          BY <5>0
        <5>2. PICK j \in Inner(m[1]) : p = <<m[1].args[j], m[2] + Weight(reader, m[1], j)>>
          BY <3>4 DEF Ranked
        <5> DEFINE r == <<q[1].args[j], q[2] + Weight(reader, q[1], j)>>
        <5>3. r \in Ranked(reader, q[1], q[2])
          BY <5>1, <5>2 DEF Ranked
        <5>4. r \in Ranks(reader, n.args[i])[k + 1]
          <6> DEFINE arg == n.args[i]
          <6> HIDE DEF arg
          <6>0. \A l \in Nat : Ranks(reader, arg)[l + 1] = WithRanked(reader, Ranks(reader, arg)[l])
            BY RanksLevels
          <6>1. Ranks(reader, n.args[i])[k + 1] = WithRanked(reader, Ranks(reader, n.args[i])[k])
            BY <6>0 DEF arg
          <6> HIDE DEF r
          <6>2. QED  BY <5>3, <6>1, InWithRanked
        <5>5. q[2] \in Int
          BY RanksAreInts
        <5>6. r[1] = p[1] /\ p[2] = m[2] + Weight(reader, m[1], j) /\ r[2] = q[2] + Weight(reader, q[1], j)
          BY <5>1, <5>2
        <5> DEFINE a == Weight(reader, n, i)
                   b == Weight(reader, m[1], j)
        <5>7. a \in Int /\ b \in Int
          BY WeightRange
        <5>8. p[2] = q[2] + a + b /\ r[2] = q[2] + b
          BY <5>1, <5>6
        <5> HIDE DEF a, b, r
        <5>9. p[2] = r[2] + a
          BY <5>5, <5>7, <5>8
        <5>10. QED  BY <5>4, <5>6, <5>9 DEF RankBelow, a
      <4>3. QED  BY <3>1, <4>1, <4>2
    <3>5. QED  BY <3>2, <3>3, <3>4
  <2>2. QED  BY <2>1
<1>4. Nat \subseteq S
  <2> HIDE DEF S
  <2>1. QED  BY <1>2, <1>3, SetInduction
<1>5. QED  BY <1>4

\* A tree that nests within d has room for its root, and nests within more.
LEMMA NestingRoom ==
    ASSUME NEW reader, reader # "none", NEW n, NEW d \in Int, NestsWithin(reader, n, d)
    PROVE  1 <= d
<1>1. <<n, 1>> \in Ranks(reader, n)[TreeLevels]
  BY RanksClimb, TreeLevelsAssumption
<1>2. <<n, 1>>[2] <= d
  BY <1>1 DEF NestsWithin
<1>3. QED  BY <1>2

LEMMA NestingGrows ==
    ASSUME NEW reader, reader # "none", NEW n, NEW d \in Int, NEW e \in Int,
           NestsWithin(reader, n, d), d <= e
    PROVE  NestsWithin(reader, n, e)
<1>1. \A p \in Ranks(reader, n)[TreeLevels] : p[2] \in Int
  BY RanksAreInts, TreeLevelsAssumption
<1>2. QED  BY <1>1 DEF NestsWithin

\* A node nests within d if it has room for itself and its operands nest
\* within what is left.
LEMMA NestingNode ==
    ASSUME NEW reader, reader # "none", NEW n, NEW d \in Int, 1 <= d,
           \A i \in Inner(n) : NestsWithin(reader, n.args[i], d - Weight(reader, n, i))
    PROVE  NestsWithin(reader, n, d)
<1> SUFFICES ASSUME NEW p \in Ranks(reader, n)[TreeLevels] PROVE p[2] <= d
  BY DEF NestsWithin
<1>1. CASE p = <<n, 1>>
  BY <1>1
<1>2. CASE p # <<n, 1>>
  <2>1. TreeLevels # 0
    BY <1>2, RanksLevels
  <2>2. PICK k \in Nat : TreeLevels = k + 1
    <3>1. TreeLevels - 1 \in Nat /\ TreeLevels = (TreeLevels - 1) + 1
      BY <2>1, TreeLevelsAssumption
    <3>2. QED  BY <3>1
  <2>3. PICK i \in Inner(n) : \E q \in Ranks(reader, n.args[i])[k] :
          p[1] = q[1] /\ p[2] = q[2] + Weight(reader, n, i)
    <3>1. p \in Ranks(reader, n)[k + 1]
      BY <2>2
    <3>2. RankBelow(reader, n, k, p)
      BY <1>2, <3>1, RanksDescend
    <3>3. QED  BY <3>2 DEF RankBelow
  <2>4. PICK q \in Ranks(reader, n.args[i])[k] :
          p[1] = q[1] /\ p[2] = q[2] + Weight(reader, n, i)
    BY <2>3
  <2>5. q \in Ranks(reader, n.args[i])[TreeLevels] /\ q[2] \in Int
    BY <2>2, RanksClimb, RanksAreInts
  <2>6. q[2] <= d - Weight(reader, n, i)
    BY <2>5 DEF NestsWithin
  <2> DEFINE w == Weight(reader, n, i)
  <2>7. w \in Int /\ q[2] <= d - w /\ p[2] = q[2] + w
    BY <2>4, <2>6, WeightRange
  <2> HIDE DEF w
  <2>8. QED  BY <2>5, <2>7
<1>3. QED  BY <1>1, <1>2

\* What is below two nodes of the same operands has the same rank in both.
TwinNodes(reader, n, m) ==
    m.args = n.args /\ Inner(m) = Inner(n) /\ \A i : Weight(reader, m, i) = Weight(reader, n, i)

LEMMA TwinRanks ==
    ASSUME NEW reader, reader # "none", NEW n, NEW m, TwinNodes(reader, n, m)
    PROVE  \A k \in Nat : \A p \in Ranks(reader, m)[k] : p = <<m, 1>> \/ p \in Ranks(reader, n)[k]
<1> DEFINE S == {k \in Nat : \A p \in Ranks(reader, m)[k] : p = <<m, 1>> \/ p \in Ranks(reader, n)[k]}
<1>1. 0 \in S
  BY RanksLevels
<1>2. ASSUME NEW k \in Nat, k \in S PROVE k + 1 \in S
  <2>1. ASSUME NEW p \in Ranks(reader, m)[k + 1] PROVE p = <<m, 1>> \/ p \in Ranks(reader, n)[k + 1]
    <3>0. \A q \in Ranks(reader, m)[k] : q = <<m, 1>> \/ q \in Ranks(reader, n)[k]
      BY <1>2
    <3>1. p \in Ranks(reader, m)[k] \/ \E q \in Ranks(reader, m)[k] : p \in Ranked(reader, q[1], q[2])
      <4>1. Ranks(reader, m)[k + 1] = WithRanked(reader, Ranks(reader, m)[k])
        BY RanksStep
      <4>2. QED  BY <2>1, <4>1, InWithRanked
    <3>2. CASE p \in Ranks(reader, m)[k]
      BY <3>0, <3>2, RanksClimb
    <3>3. ASSUME NEW q \in Ranks(reader, m)[k], p \in Ranked(reader, q[1], q[2])
          PROVE  p \in Ranks(reader, n)[k + 1]
      <4>1. Ranks(reader, n)[k + 1] = WithRanked(reader, Ranks(reader, n)[k])
        BY RanksStep
      <4>2. CASE q = <<m, 1>>
        <5> DEFINE r == <<n, 1>>
        <5>1. r \in Ranks(reader, n)[k] /\ r[1] = n /\ r[2] = 1 /\ q[1] = m /\ q[2] = 1
          BY <4>2, RanksClimb
        <5>2. Ranked(reader, m, 1) = Ranked(reader, n, 1)
          BY DEF TwinNodes, Ranked
        <5> HIDE DEF r
        <5>3. p \in Ranked(reader, r[1], r[2])
          BY <3>3, <5>1, <5>2
        <5>4. QED  BY <4>1, <5>1, <5>3, InWithRanked
      <4>3. CASE q \in Ranks(reader, n)[k]
        BY <3>3, <4>1, <4>3, InWithRanked
      <4>4. QED  BY <3>0, <4>2, <4>3
    <3>4. QED  BY <3>1, <3>2, <3>3
  <2>2. QED  BY <2>1
<1>3. Nat \subseteq S
  <2> HIDE DEF S
  <2>1. QED  BY <1>1, <1>2, SetInduction
<1>4. QED  BY <1>3

LEMMA TwinNests ==
    ASSUME NEW reader, reader # "none", NEW n, NEW m, TwinNodes(reader, n, m),
           NEW d \in Int, NestsWithin(reader, n, d)
    PROVE  NestsWithin(reader, m, d)
<1> SUFFICES ASSUME NEW p \in Ranks(reader, m)[TreeLevels] PROVE p[2] <= d
  BY DEF NestsWithin
<1>1. p = <<m, 1>> \/ p \in Ranks(reader, n)[TreeLevels]
  BY TwinRanks, TreeLevelsAssumption
<1>2. CASE p = <<m, 1>>
  BY <1>2, NestingRoom
<1>3. CASE p \in Ranks(reader, n)[TreeLevels]
  BY <1>3 DEF NestsWithin
<1>4. QED  BY <1>1, <1>2, <1>3

-----------------------------------------------------------------------------
(* Building a sound tree of sound trees.                                   *)

SoundNode(config, n) ==
    OnGlobe(n) /\ EnabledNode(config, n) /\ MeetingNode(n) /\ SoundGeometry(n)

LEMMA SoundNodes ==
    ASSUME NEW config, NEW n
    PROVE  SoundTree(config, n) <=>
              /\ TypedNode(n) /\ RefsKnown(n)
              /\ \A m \in Subtrees(n) : SoundNode(config, m)
  BY DEF SoundTree, SoundNode, EnabledTree, MeetingOperands, SoundGeometries

LEMMA NodeFields ==
    ASSUME NEW kind, NEW op, NEW types, NEW args, NEW src
    PROVE  /\ Node(kind, op, types, args, src).kind = kind
           /\ Node(kind, op, types, args, src).op = op
           /\ Node(kind, op, types, args, src).types = types
           /\ Node(kind, op, types, args, src).args = args
           /\ Node(kind, op, types, args, src).src = src
           /\ ~Node(kind, op, types, args, src).refs =>
                 kind # "Property" /\ \A i \in DOMAIN args : ~args[i].refs
           /\ kind # "Property" /\ (\A i \in DOMAIN args : ~args[i].refs) =>
                 ~Node(kind, op, types, args, src).refs
           /\ Node(kind, op, types, args, src).refs =>
                 kind = "Property" \/ \E i \in DOMAIN args : args[i].refs
  BY DEF Node

LEMMA Assembly ==
    ASSUME NEW config, NEW kind, NEW op, NEW types, NEW args, NEW src,
           \A i \in DOMAIN args : SoundTree(config, args[i]),
           TypedNode(Node(kind, op, types, args, src)),
           SoundNode(config, Node(kind, op, types, args, src))
    PROVE  SoundTree(config, Node(kind, op, types, args, src))
<1> DEFINE n == Node(kind, op, types, args, src)
<1>1. /\ n.kind = kind /\ n.args = args
      /\ ~n.refs => kind # "Property" /\ \A i \in DOMAIN args : ~args[i].refs
      /\ n.refs => kind = "Property" \/ \E i \in DOMAIN args : args[i].refs
  BY NodeFields
<1>2. TypedNode(n) /\ SoundNode(config, n)
  OBVIOUS
<1> HIDE DEF n
<1>3. \A m \in Subtrees(n) : m = n \/ \E i \in DOMAIN args : m \in Subtrees(args[i])
  BY <1>1, SubtreesOf
<1>4. \A m \in Subtrees(n) : SoundNode(config, m)
  BY <1>2, <1>3, SoundNodes
<1>5. RefsKnown(n)
  <2>1. \A i \in DOMAIN args : RefsKnown(args[i])
    BY SoundNodes
  <2>2. QED  BY <1>1, <1>3, <2>1 DEF RefsKnown
<1>6. SoundTree(config, n)
  BY <1>2, <1>4, <1>5, SoundNodes
<1>7. QED  BY <1>6 DEF n

\* The kinds about which nothing is promised but what their operands keep.
PlainKinds == {"Literal", "Logical", "IsNull", "Instant", "Interval", "Unbounded",
               "Array", "List", "None"}

LEMMA PlainNode ==
    ASSUME NEW config, NEW n, n.kind \in PlainKinds
    PROVE  SoundNode(config, n)
  BY DEF SoundNode, OnGlobe, EnabledNode, MeetingNode, SoundGeometry, PlainKinds

LEMMA PlainTree ==
    ASSUME NEW config, NEW kind \in PlainKinds, NEW op, NEW types, NEW args, NEW src,
           \A i \in DOMAIN args : SoundTree(config, args[i]),
           kind = "Literal"  => \E t \in {"string", "number", "boolean"} : types = {t},
           kind = "Instant"  => \E t \in InstantTypes : types = {t},
           kind = "Interval" => types = {"interval"},
           kind = "Array"    => types = {"array"}
    PROVE  SoundTree(config, Node(kind, op, types, args, src))
<1> DEFINE n == Node(kind, op, types, args, src)
<1>1. n.kind = kind /\ n.types = types
  BY NodeFields
<1>2. TypedNode(n)
  BY <1>1 DEF TypedNode, PlainKinds
<1>3. SoundNode(config, n)
  BY <1>1, PlainNode
<1>4. QED  BY <1>2, <1>3, Assembly

\* A predicate whose operands may be its operands.
LEMMA PredicateTree ==
    ASSUME NEW config, NEW kind, NEW op, NEW args, NEW src,
           kind \in {"Comparison", "Like", "Between", "In", "Temporal", "ArrayPredicate", "Spatial"},
           \A i \in DOMAIN args : SoundTree(config, args[i]),
           EnabledNode(config, Predicate(kind, op, args, src)),
           MeetingNode(Predicate(kind, op, args, src))
    PROVE  SoundTree(config, Predicate(kind, op, args, src))
<1> DEFINE n == Node(kind, op, {"boolean"}, args, src)
<1>1. n = Predicate(kind, op, args, src)
  BY DEF Predicate
<1>2. n.kind = kind
  BY NodeFields
<1>3. EnabledNode(config, n) /\ MeetingNode(n)
  BY <1>1
<1> HIDE DEF n
<1>4. TypedNode(n) /\ OnGlobe(n) /\ SoundGeometry(n)
  BY <1>2 DEF TypedNode, OnGlobe, SoundGeometry
<1>5. TypedNode(n) /\ SoundNode(config, n)
  BY <1>3, <1>4 DEF SoundNode
<1>6. QED  BY <1>1, <1>5, Assembly DEF n

\* A property the registry knows, a call of a registered function and an
\* operator in a configuration that has arithmetic.
LEMMA PropertyTree ==
    ASSUME NEW config, NEW name, NEW type \in KnownPropertyTypes \cup {"any"}, NEW src,
           config.restricted => name \in DOMAIN config.properties /\ type = config.properties[name]
    PROVE  SoundTree(config, Node("Property", name, {type}, << >>, src))
<1> DEFINE n == Node("Property", name, {type}, << >>, src)
<1>1. n.kind = "Property" /\ n.op = name /\ n.types = {type}
  BY NodeFields
<1> HIDE DEF n
<1>2. TypedNode(n)
  BY <1>1 DEF TypedNode
<1>3. SoundNode(config, n)
  BY <1>1 DEF SoundNode, OnGlobe, EnabledNode, MeetingNode, SoundGeometry
<1>4. \A i \in DOMAIN << >> : SoundTree(config, << >>[i])
  OBVIOUS
<1>5. QED  BY <1>2, <1>3, <1>4, Assembly DEF n

LEMMA CallTree ==
    ASSUME NEW config, NEW name, NEW args, NEW src,
           ValidCall(config.functions, name, args),
           \A i \in DOMAIN args : SoundTree(config, args[i])
    PROVE  SoundTree(config, Node("Function", name, config.functions[name].returns, args, src))
<1> DEFINE types == config.functions[name].returns
           n == Node("Function", name, types, args, src)
<1>1. n.kind = "Function" /\ n.op = name /\ n.types = types
  BY NodeFields
<1>2. name \in DOMAIN config.functions /\ types # {} /\ types \subseteq KnownFunctionTypes
  BY DEF ValidCall, ValidDefinition
<1> HIDE DEF n, types
<1>3. TypedNode(n)
  BY <1>1, <1>2 DEF TypedNode
<1>4. SoundNode(config, n)
  BY <1>1, <1>2 DEF SoundNode, OnGlobe, EnabledNode, MeetingNode, SoundGeometry
<1>5. QED  BY <1>3, <1>4, Assembly DEF n, types

LEMMA ArithmeticTree ==
    ASSUME NEW config, NEW op, NEW args, NEW src,
           config.arithmetic,
           \A i \in DOMAIN args : SoundTree(config, args[i]) /\ CanBe(args[i], {"number"})
    PROVE  SoundTree(config, Node("Arithmetic", op, {"number"}, args, src))
<1> DEFINE n == Node("Arithmetic", op, {"number"}, args, src)
<1>1. n.kind = "Arithmetic" /\ n.types = {"number"} /\ n.args = args
  BY NodeFields
<1> HIDE DEF n
<1>2. TypedNode(n)
  BY <1>1 DEF TypedNode
<1>3. SoundNode(config, n)
  BY <1>1 DEF SoundNode, OnGlobe, EnabledNode, MeetingNode, SoundGeometry
<1>4. QED  BY <1>2, <1>3, Assembly DEF n

-----------------------------------------------------------------------------
(* What the validators say of the operands they let through.               *)

LEMMA SortValues ==
    /\ Sort("any") = "any" /\ Sort("string") = "string" /\ Sort("boolean") = "boolean"
    /\ Sort("interval") = "interval" /\ Sort("array") = "array"
    /\ \A t \in NumericTypes : Sort(t) = "number"
    /\ \A t \in InstantTypes \cup {"datetime"} : Sort(t) = "instant"
    /\ \A t \in GeometryTypes : Sort(t) = "geometry"
  BY DEF Sort, NumericTypes, InstantTypes, GeometryTypes

\* A call whose return types overlap one type can be of that type's sort.
LEMMA ReturnsCanBe ==
    ASSUME NEW n, NEW type \in KnownFunctionTypes \ {"any"},
           TypedNode(n), n.kind = "Function", Returns(n, type)
    PROVE  CanBe(n, {Sort(type)})
<1>1. n.types # {} /\ n.types \subseteq KnownFunctionTypes
  BY DEF TypedNode
<1>2. PICK a \in n.types : Compatible(type, a)
  BY <1>1 DEF Returns, Overlap
<1>3. a = "any" \/ Sort(a) = Sort(type)
  BY <1>2, SMTT(60) DEF Compatible, Sort, NumericTypes, InstantTypes, GeometryTypes
<1>4. Sort(a) \in Sorts(n)
  BY DEF Sorts
<1>5. QED  BY <1>3, <1>4, SortValues DEF CanBe

\* A property of one type, where only types of one sort are let through.
LEMMA PropertyCanBe ==
    ASSUME NEW n, NEW allowed, NEW sorts,
           TypedNode(n), n.kind = "Property", n.types \subseteq {"any"} \cup allowed,
           \A t \in allowed : Sort(t) \in sorts
    PROVE  CanBe(n, sorts)
<1>1. PICK t : n.types = {t}
  BY DEF TypedNode
<1>2. Sort(t) \in Sorts(n)
  BY <1>1 DEF Sorts
<1>3. t = "any" \/ t \in allowed
  BY <1>1
<1>4. QED  BY <1>2, <1>3, SortValues DEF CanBe

LEMMA OneSort ==
    ASSUME NEW n, NEW t, n.types = {t}
    PROVE  Sorts(n) = {Sort(t)}
  BY DEF Sorts

LEMMA NumericCanBe ==
    ASSUME NEW n, TypedNode(n), IsNumeric(n)
    PROVE  CanBe(n, {"number"})
<1>1. CASE n.kind = "Literal"
  <2>1. n.types = {"number"}
    BY <1>1 DEF IsNumeric
  <2>2. QED  BY <2>1, OneSort, SortValues DEF CanBe, NumericTypes
<1>2. CASE n.kind = "Property"
  <2>1. n.types \subseteq {"any"} \cup NumericTypes
    BY <1>2 DEF IsNumeric
  <2>2. QED  BY <1>2, <2>1, PropertyCanBe, SortValues
<1>3. CASE n.kind = "Function"
  <2>1. Returns(n, "number") \/ Returns(n, "integer")
    BY <1>3 DEF IsNumeric
  <2>2. {"number", "integer"} \subseteq KnownFunctionTypes \ {"any"}
    BY DEF KnownFunctionTypes, ScalarPropertyTypes, NumericTypes
  <2>3. Sort("number") = "number" /\ Sort("integer") = "number"
    BY SortValues DEF NumericTypes
  <2>4. QED  BY <1>3, <2>1, <2>2, <2>3, ReturnsCanBe
<1>4. CASE n.kind \notin {"Literal", "Property", "Function"}
  <2>1. n.kind = "Arithmetic"
    BY <1>4 DEF IsNumeric
  <2>2. n.types = {"number"}
    BY <2>1 DEF TypedNode
  <2>3. QED  BY <2>2, OneSort, SortValues DEF CanBe, NumericTypes
<1>5. QED  BY <1>1, <1>2, <1>3, <1>4

LEMMA CharacterCanBe ==
    ASSUME NEW n, TypedNode(n), IsCharacter(n)
    PROVE  CanBe(n, {"string"})
<1>1. CASE n.kind = "Literal"
  <2>1. n.types = {"string"}
    BY <1>1 DEF IsCharacter
  <2>2. QED  BY <2>1, OneSort, SortValues DEF CanBe
<1>2. CASE n.kind = "Property"
  <2>1. n.types \subseteq {"any"} \cup {"string"}
    BY <1>2 DEF IsCharacter
  <2>2. QED  BY <1>2, <2>1, PropertyCanBe, SortValues
<1>3. CASE n.kind = "Function"
  <2>1. Returns(n, "string")
    BY <1>3 DEF IsCharacter
  <2>2. "string" \in KnownFunctionTypes \ {"any"}
    BY DEF KnownFunctionTypes, ScalarPropertyTypes
  <2>3. QED  BY <1>3, <2>1, <2>2, ReturnsCanBe, SortValues
<1>4. QED  BY <1>1, <1>2, <1>3 DEF IsCharacter

LEMMA TemporalCanBe ==
    ASSUME NEW n, TypedNode(n), IsTemporalOperand(n)
    PROVE  CanBe(n, {"instant", "interval"})
<1> DEFINE sorts == {"instant", "interval"}
<1>1. CASE n.kind = "Property"
  <2>1. n.types \subseteq {"any"} \cup ({"interval"} \cup InstantTypes)
    BY <1>1 DEF IsTemporalOperand
  <2>2. \A t \in {"interval"} \cup InstantTypes : Sort(t) \in sorts
    BY SortValues
  <2>3. QED  BY <1>1, <2>1, <2>2, PropertyCanBe
<1>2. CASE n.kind = "Function"
  <2>1. PICK t \in {"date", "timestamp", "datetime", "interval"} : Returns(n, t)
    BY <1>2 DEF IsTemporalOperand
  <2>2. t \in KnownFunctionTypes \ {"any"} /\ Sort(t) \in sorts
    BY SortValues DEF KnownFunctionTypes, ScalarPropertyTypes, InstantTypes
  <2>3. CanBe(n, {Sort(t)})
    BY <1>2, <2>1, <2>2, ReturnsCanBe
  <2>4. QED  BY <2>2, <2>3 DEF CanBe
<1>3. CASE n.kind \notin {"Property", "Function"}
  <2>1. n.kind \in {"Instant", "Interval"}
    BY <1>3 DEF IsTemporalOperand
  <2>2. PICK t \in InstantTypes \cup {"interval"} : n.types = {t}
    BY <2>1 DEF TypedNode
  <2>3. QED  BY <2>2, OneSort, SortValues DEF CanBe
<1>4. QED  BY <1>1, <1>2, <1>3

LEMMA ArrayCanBe ==
    ASSUME NEW n, TypedNode(n), IsArrayOperand(n)
    PROVE  CanBe(n, {"array"})
<1>1. CASE n.kind = "Property"
  <2>1. n.types \subseteq {"any"} \cup {"array"}
    BY <1>1 DEF IsArrayOperand
  <2>2. QED  BY <1>1, <2>1, PropertyCanBe, SortValues
<1>2. CASE n.kind = "Function"
  <2>1. Returns(n, "array") /\ "array" \in KnownFunctionTypes \ {"any"}
    BY <1>2 DEF IsArrayOperand, KnownFunctionTypes
  <2>2. QED  BY <1>2, <2>1, ReturnsCanBe, SortValues
<1>3. CASE n.kind \notin {"Property", "Function"}
  <2>1. n.types = {"array"}
    BY <1>3 DEF IsArrayOperand, TypedNode
  <2>2. QED  BY <2>1, OneSort, SortValues DEF CanBe
<1>4. QED  BY <1>1, <1>2, <1>3

LEMMA SpatialCanBe ==
    ASSUME NEW n, TypedNode(n), IsSpatialOperand(n)
    PROVE  CanBe(n, {"geometry"})
<1>1. CASE n.kind = "Property"
  <2>1. n.types \subseteq {"any"} \cup GeometryTypes
    BY <1>1 DEF IsSpatialOperand
  <2>2. QED  BY <1>1, <2>1, PropertyCanBe, SortValues
<1>2. CASE n.kind = "Function"
  <2>1. Returns(n, "geometry") /\ "geometry" \in KnownFunctionTypes \ {"any"}
    BY <1>2 DEF IsSpatialOperand, KnownFunctionTypes
  <2>2. QED  BY <1>2, <2>1, ReturnsCanBe, SortValues DEF GeometryTypes
<1>3. CASE n.kind \notin {"Property", "Function"}
  <2>1. n.types = {"geometry"}
    BY <1>3 DEF IsSpatialOperand, TypedNode
  <2>2. QED  BY <2>1, OneSort, SortValues DEF CanBe, GeometryTypes
<1>4. QED  BY <1>1, <1>2, <1>3

\* The one type of a scalar is of the node's sort, and the types
\* of one class are of one sort.
LEMMA KnownTypesFinite == IsFiniteSet(KnownFunctionTypes)
<1> DEFINE A == {"string", "boolean"} \cup {"number", "integer"} \cup {"date", "timestamp"}
           B == {"any", "datetime"} \cup {"interval", "geometry"} \cup {"array"}
<1>1. \A x, y : IsFiniteSet({x, y})
  <2> TAKE x, y
  <2>1. {x, y} = {x} \cup {y}
    OBVIOUS
  <2>2. IsFiniteSet({x}) /\ IsFiniteSet({y})
    BY FS_Singleton
  <2>3. IsFiniteSet({x} \cup {y})
    BY <2>2, FS_Union
  <2>4. QED  BY <2>1, <2>3
<1>2. IsFiniteSet(A) /\ IsFiniteSet(B)
  BY <1>1, FS_Singleton, FS_Union
<1>3. KnownFunctionTypes = A \cup B
  BY DEF KnownFunctionTypes, ScalarPropertyTypes, NumericTypes, InstantTypes
<1>4. QED  BY <1>2, <1>3, FS_Union

LEMMA ScalarSort ==
    ASSUME NEW n, TypedNode(n), ~Choice(n),
           ScalarType(n) \in KnownPropertyTypes \cup {"any"}
    PROVE  Sorts(n) = {Sort(ScalarType(n))}
<1>1. CASE n.kind = "Function"
  <2>1. IsFiniteSet(n.types) /\ n.types # {} /\ n.types \subseteq KnownFunctionTypes
    BY <1>1, KnownTypesFinite, FS_Subset DEF TypedNode
  <2>2. Cardinality(n.types) = 1
    BY <1>1, <2>1, FS_EmptySet, FS_CardinalityType DEF Choice
  <2>3. PICK t : n.types = {t}
    BY <2>1, <2>2, FS_Singleton
  <2>4. (CHOOSE x \in n.types : TRUE) = t
    BY <2>3
  <2>5. ScalarType(n) = IF t = "datetime" THEN "timestamp" ELSE t
    BY <1>1, <2>2, <2>3, <2>4 DEF ScalarType, ReturnPropertyType
  <2>6. Sort(ScalarType(n)) = Sort(t)
    BY <2>5, SortValues DEF InstantTypes
  <2>7. QED  BY <2>3, <2>6, OneSort
<1>2. CASE n.kind \in {"Literal", "Property", "Arithmetic", "Instant"}
  <2>1. PICK t : n.types = {t}
    BY <1>2 DEF TypedNode
  <2>2. ScalarType(n) = t
    BY <1>2, <2>1 DEF ScalarType
  <2>3. QED  BY <2>1, <2>2, OneSort
<1>3. CASE n.kind \notin {"Function", "Literal", "Property", "Arithmetic", "Instant"}
  <2>1. ScalarType(n) = "unsupported"
    BY <1>3 DEF ScalarType
  <2>2. QED
    BY <2>1 DEF KnownPropertyTypes, ScalarPropertyTypes, NumericTypes, InstantTypes, GeometryTypes
<1>4. QED  BY <1>1, <1>2, <1>3

LEMMA ComparableMeet ==
    ASSUME NEW l, NEW r, TypedNode(l), TypedNode(r),
           ComparableTypes(ScalarType(l), ScalarType(r))
    PROVE  Choice(l) \/ Choice(r) \/ Meet(l, r)
<1> SUFFICES ASSUME ~Choice(l), ~Choice(r) PROVE Meet(l, r)
  OBVIOUS
<1> DEFINE s == ScalarType(l)
           t == ScalarType(r)
<1>1. Sorts(l) = {Sort(s)} /\ Sorts(r) = {Sort(t)}
  BY ScalarSort DEF ComparableTypes
<1>2. s = "any" \/ t = "any" \/ Sort(s) = Sort(t)
  <2>1. SameClass(s, t) \/ s = t
    BY DEF ComparableTypes
  <2> HIDE DEF s, t
  <2>2. QED  BY <2>1, SortValues DEF SameClass
<1> HIDE DEF s, t
<1>3. QED  BY <1>1, <1>2, SortValues DEF Meet, CanBe

-----------------------------------------------------------------------------
(* The predicates, from what the validators were asked.                    *)

PredicateNames == SpatialOps \cup TemporalOps \cup ArrayOps

NoReferences(args) == \A i \in 2..Len(args) : ~args[i].refs

\* With no property-property conformance no right side holds a property.
LEMMA RightSides ==
    ASSUME NEW config, NEW args, NEW n, n.args = args,
           DOMAIN args = 1..Len(args), Len(args) \in Nat,
           \A i \in DOMAIN args : SoundTree(config, args[i]),
           config.propertyProperty \/ NoReferences(args),
           n.kind \in {"Comparison", "Like", "Between", "In"},
           n.kind = "Comparison" \/ config.advanced
    PROVE  EnabledNode(config, n)
<1>1. ASSUME ~config.propertyProperty, NEW i \in 2..Len(args), NEW m \in Subtrees(args[i])
      PROVE  m.kind # "Property"
  <2>1. i \in DOMAIN args /\ ~args[i].refs
    BY <1>1 DEF NoReferences
  <2>2. RefsKnown(args[i])
    BY <2>1 DEF SoundTree
  <2>3. QED  BY <1>1, <2>1, <2>2 DEF RefsKnown
<1>2. QED  BY <1>1 DEF EnabledNode

LEMMA PropertyUse ==
    ASSUME NEW allowed, NEW args, ValidPropertyUse(allowed, args)
    PROVE  allowed \/ NoReferences(args)
  BY DEF ValidPropertyUse, NoReferences

LEMMA PredicateFields ==
    ASSUME NEW kind, NEW op, NEW args, NEW src
    PROVE  /\ Predicate(kind, op, args, src).kind = kind
           /\ Predicate(kind, op, args, src).op = op
           /\ Predicate(kind, op, args, src).args = args
           /\ Predicate(kind, op, args, src).types = {"boolean"}
  BY NodeFields DEF Predicate

LEMMA ComparisonTree ==
    ASSUME NEW config, NEW op, NEW args, NEW src,
           DOMAIN args = 1..2, Len(args) = 2,
           \A i \in DOMAIN args : SoundTree(config, args[i]),
           ValidComparison(op, args[1], args[2]),
           config.propertyProperty \/ NoReferences(args)
    PROVE  SoundTree(config, Predicate("Comparison", op, args, src))
<1> DEFINE n == Predicate("Comparison", op, args, src)
<1>1. n.kind = "Comparison" /\ n.args = args
  BY PredicateFields
<1> HIDE DEF n
<1>2. EnabledNode(config, n)
  BY <1>1, RightSides
<1>3. TypedNode(args[1]) /\ TypedNode(args[2])
  BY DEF SoundTree
<1>4. Choice(args[1]) \/ Choice(args[2]) \/ Meet(args[1], args[2])
  BY <1>3, ComparableMeet DEF ValidComparison
<1>5. \A i \in 2..Len(args) : i = 2
  OBVIOUS
<1>6. MeetingNode(n)
  BY <1>1, <1>4, <1>5 DEF MeetingNode
<1>7. QED  BY <1>2, <1>6, PredicateTree DEF n

LEMMA LikeTree ==
    ASSUME NEW config, NEW op, NEW args, NEW src,
           DOMAIN args = 1..2, Len(args) = 2,
           \A i \in DOMAIN args : SoundTree(config, args[i]),
           config.advanced,
           CanBe(args[1], {"string"}) \/ IsCast(args[1]),
           IsPattern(args[2]),
           config.propertyProperty \/ NoReferences(args)
    PROVE  SoundTree(config, Predicate("Like", op, args, src))
<1> DEFINE n == Predicate("Like", op, args, src)
<1>1. n.kind = "Like" /\ n.args = args
  BY PredicateFields
<1> HIDE DEF n
<1>2. EnabledNode(config, n)
  BY <1>1, RightSides
<1>3. MeetingNode(n)
  BY <1>1 DEF MeetingNode
<1>4. QED  BY <1>2, <1>3, PredicateTree DEF n

LEMMA BetweenTree ==
    ASSUME NEW config, NEW op, NEW args, NEW src,
           DOMAIN args = 1..Len(args), Len(args) \in Nat,
           \A i \in DOMAIN args : SoundTree(config, args[i]) /\ CanBe(args[i], {"number"}),
           config.advanced,
           config.propertyProperty \/ NoReferences(args)
    PROVE  SoundTree(config, Predicate("Between", op, args, src))
<1> DEFINE n == Predicate("Between", op, args, src)
<1>1. n.kind = "Between" /\ n.args = args
  BY PredicateFields
<1> HIDE DEF n
<1>2. EnabledNode(config, n)
  BY <1>1, RightSides
<1>3. MeetingNode(n)
  BY <1>1 DEF MeetingNode
<1>4. QED  BY <1>2, <1>3, PredicateTree DEF n

\* A coerced value is a sound instant, and refers to no property.
LEMMA Coerced ==
    ASSUME NEW config, NEW expr, NEW v, SoundTree(config, v), InCoercible(expr, v)
    PROVE  /\ SoundTree(config, InCoerce(expr, v))
           /\ ~v.refs => ~InCoerce(expr, v).refs
<1>1. CASE ScalarType(expr) \in InstantTypes /\ v.kind = "Literal" /\ v.types = {"string"}
  <2>1. v.op \in DOMAIN Instants
    BY <1>1 DEF InCoercible
  <2>2. Instants[v.op].kind \in InstantTypes
    BY <2>1, InstantsAssumption DEF InstantTypes
  <2>3. InCoerce(expr, v) = Node("Instant", v.op, {Instants[v.op].kind}, << >>, v.src)
    BY <1>1 DEF InCoerce, Instant
  <2>4. \A i \in DOMAIN << >> : SoundTree(config, << >>[i])
    OBVIOUS
  <2>5. SoundTree(config, InCoerce(expr, v))
    BY <2>2, <2>3, <2>4, PlainTree DEF PlainKinds
  <2>6. ~InCoerce(expr, v).refs
    <3>1. \A i \in DOMAIN << >> : ~<< >>[i].refs
      OBVIOUS
    <3>2. QED  BY <2>3, <3>1, NodeFields
  <2>7. QED  BY <2>5, <2>6
<1>2. CASE ~(ScalarType(expr) \in InstantTypes /\ v.kind = "Literal" /\ v.types = {"string"})
  BY <1>2 DEF InCoerce
<1>3. QED  BY <1>1, <1>2

LEMMA InTree ==
    ASSUME NEW config, NEW op, NEW args, NEW src,
           DOMAIN args = 1..Len(args), Len(args) \in Nat \ {0},
           \A i \in DOMAIN args : SoundTree(config, args[i]),
           \A i \in 2..Len(args) : ComparableTypes(ScalarType(args[1]), ScalarType(args[i])),
           config.advanced,
           config.propertyProperty \/ NoReferences(args)
    PROVE  SoundTree(config, Predicate("In", op, args, src))
<1> DEFINE n == Predicate("In", op, args, src)
<1>1. n.kind = "In" /\ n.args = args
  BY PredicateFields
<1> HIDE DEF n
<1>2. EnabledNode(config, n)
  BY <1>1, RightSides
<1>3. \A i \in DOMAIN args : TypedNode(args[i])
  BY DEF SoundTree
<1>4. \A i \in 2..Len(args) : Choice(args[1]) \/ Choice(args[i]) \/ Meet(args[1], args[i])
  <2> TAKE i \in 2..Len(args)
  <2>1. 1 \in DOMAIN args /\ i \in DOMAIN args
    OBVIOUS
  <2>2. QED  BY <1>3, <2>1, ComparableMeet
<1>5. MeetingNode(n)
  BY <1>1, <1>4 DEF MeetingNode
<1>6. QED  BY <1>2, <1>5, PredicateTree DEF n

\* The operands of IN are the expression and the coerced values.
LEMMA InArgs ==
    ASSUME NEW S, NEW expr, NEW values \in Seq(S), NEW args,
           args = <<expr>> \o [i \in DOMAIN values |-> InCoerce(expr, values[i])]
    PROVE  /\ DOMAIN args = 1..Len(args) /\ Len(args) = Len(values) + 1 /\ Len(values) \in Nat
           /\ args[1] = expr
           /\ \A i \in 1..Len(values) : args[i + 1] = InCoerce(expr, values[i])
<1> DEFINE first == <<expr>>
           coerced == [i \in DOMAIN values |-> InCoerce(expr, values[i])]
           T == {expr} \cup {coerced[i] : i \in DOMAIN coerced}
<1>1. DOMAIN values = 1..Len(values) /\ Len(values) \in Nat
  OBVIOUS
<1>2. coerced \in Seq(T) /\ Len(coerced) = Len(values)
  BY <1>1, IsASeq
<1>3. first \in Seq(T) /\ Len(first) = 1 /\ first[1] = expr
  OBVIOUS
<1>4. \A i \in 1..Len(values) : coerced[i] = InCoerce(expr, values[i])
  BY <1>1
<1>5. args = first \o coerced
  OBVIOUS
<1> HIDE DEF T, first, coerced
<1>6. /\ args \in Seq(T) /\ Len(args) = 1 + Len(values)
      /\ \A i \in 1 .. 1 + Len(values) : args[i] = IF i <= 1 THEN first[i] ELSE coerced[i - 1]
  <2>1. /\ first \o coerced \in Seq(T) /\ Len(first \o coerced) = Len(first) + Len(coerced)
        /\ \A i \in 1 .. Len(first) + Len(coerced) : (first \o coerced)[i] =
               IF i <= Len(first) THEN first[i] ELSE coerced[i - Len(first)]
    BY ONLY <1>2, <1>3, ConcatProperties, ZenonT(30)
  <2>2. QED  BY <1>2, <1>3, <1>5, <2>1
<1>7. DOMAIN args = 1..Len(args) /\ Len(args) = Len(values) + 1
  BY <1>1, <1>6
<1>8. args[1] = expr
  BY <1>1, <1>3, <1>6
<1>9. ASSUME NEW i \in 1..Len(values) PROVE args[i + 1] = InCoerce(expr, values[i])
  <2>1. i + 1 \in 1 .. 1 + Len(values) /\ ~(i + 1 <= 1) /\ (i + 1) - 1 = i
    BY <1>1
  <2>2. args[i + 1] = coerced[i]
    BY <1>6, <2>1
  <2>3. QED  BY <1>4, <2>2
<1>10. QED  BY <1>1, <1>7, <1>8, <1>9

LEMMA ValidInTree ==
    ASSUME NEW config, NEW op, NEW S, NEW expr, NEW values \in Seq(S), NEW args, NEW src,
           args = <<expr>> \o [i \in DOMAIN values |-> InCoerce(expr, values[i])],
           SoundTree(config, expr), \A i \in DOMAIN values : SoundTree(config, values[i]),
           ValidIn(expr, values), config.advanced,
           config.propertyProperty \/ NoReferences(args)
              \/ \A i \in DOMAIN values : ~values[i].refs
    PROVE  SoundTree(config, Predicate("In", op, args, src))
<1>1. /\ DOMAIN args = 1..Len(args) /\ Len(args) = Len(values) + 1 /\ Len(values) \in Nat
      /\ args[1] = expr
      /\ \A i \in 1..Len(values) : args[i + 1] = InCoerce(expr, values[i])
      /\ DOMAIN values = 1..Len(values)
  BY InArgs
<1>2. \A i \in 1..Len(values) :
         /\ InCoercible(expr, values[i])
         /\ ComparableTypes(ScalarType(expr), ScalarType(InCoerce(expr, values[i])))
         /\ SoundTree(config, values[i])
  BY <1>1 DEF ValidIn
<1>3. \A i \in 1..Len(values) :
         /\ SoundTree(config, args[i + 1])
         /\ ComparableTypes(ScalarType(expr), ScalarType(args[i + 1]))
         /\ ~values[i].refs => ~args[i + 1].refs
  BY <1>1, <1>2, Coerced
<1>4. \A j \in 2..Len(args) : \E i \in 1..Len(values) : j = i + 1
  <2> TAKE j \in 2..Len(args)
  <2>1. j - 1 \in 1..Len(values) /\ j = (j - 1) + 1
    BY <1>1
  <2>2. QED  BY <2>1
<1>5. \A j \in 2..Len(args) :
         SoundTree(config, args[j]) /\ ComparableTypes(ScalarType(args[1]), ScalarType(args[j]))
  BY <1>1, <1>3, <1>4
<1>6. config.propertyProperty \/ NoReferences(args)
  BY <1>1, <1>3, <1>4 DEF NoReferences
<1>7. \A i \in DOMAIN args : SoundTree(config, args[i])
  BY <1>1, <1>5
<1>8. Len(args) \in Nat \ {0}
  BY <1>1
<1>9. QED  BY <1>1, <1>5, <1>6, <1>7, <1>8, InTree

\* A temporal, array or spatial predicate of two valid operands.
SwitchedOn(config, op) ==
    /\ op \in TemporalOps => config.temporal
    /\ op \in ArrayOps => config.arrays
    /\ op \in SpatialOps => SpatialEnabled(config.spatial, op)

LEMMA OperatorKinds ==
    /\ \A op \in TemporalOps : op \notin ArrayOps /\ op \notin SpatialOps
    /\ \A op \in ArrayOps : op \notin SpatialOps
  BY SMTT(60) DEF TemporalOps, IntervalOnly, ArrayOps, SpatialOps

LEMMA OperandsTree ==
    ASSUME NEW config, NEW op \in PredicateNames, NEW args, NEW src,
           DOMAIN args = 1..2,
           \A i \in DOMAIN args : SoundTree(config, args[i]),
           ValidOperands(op, args[1], args[2]), SwitchedOn(config, op)
    PROVE  SoundTree(config, Predicate(PredicateKind(op), op, args, src))
<1> DEFINE kind == PredicateKind(op)
           n == Predicate(kind, op, args, src)
<1>1. n.kind = kind /\ n.op = op /\ n.args = args
  BY PredicateFields
<1>2. TypedNode(args[1]) /\ TypedNode(args[2])
  BY DEF SoundTree
<1>3. CASE op \in TemporalOps
  <2>1. kind = "Temporal" /\ config.temporal
    BY <1>3, OperatorKinds DEF PredicateKind, SwitchedOn
  <2>2. IsTemporalOperand(args[1]) /\ IsTemporalOperand(args[2])
    BY <1>3, OperatorKinds DEF ValidOperands, ValidTemporalOperands
  <2>3. \A i \in DOMAIN args : CanBe(args[i], {"instant", "interval"})
    BY <1>2, <2>2, TemporalCanBe
  <2> HIDE DEF kind, n
  <2>4. EnabledNode(config, n) /\ MeetingNode(n)
    BY <1>1, <2>1, <2>3 DEF EnabledNode, MeetingNode
  <2>5. SoundTree(config, n)
    BY <2>1, <2>4, PredicateTree DEF n
  <2>6. QED  BY <2>5 DEF n, kind
<1>4. CASE op \in ArrayOps
  <2>1. kind = "ArrayPredicate" /\ config.arrays
    BY <1>4, OperatorKinds DEF PredicateKind, SwitchedOn
  <2>2. IsArrayOperand(args[1]) /\ IsArrayOperand(args[2])
    BY <1>4, OperatorKinds DEF ValidOperands
  <2>3. \A i \in DOMAIN args : CanBe(args[i], {"array"})
    BY <1>2, <2>2, ArrayCanBe
  <2> HIDE DEF kind, n
  <2>4. EnabledNode(config, n) /\ MeetingNode(n)
    BY <1>1, <2>1, <2>3 DEF EnabledNode, MeetingNode
  <2>5. SoundTree(config, n)
    BY <2>1, <2>4, PredicateTree DEF n
  <2>6. QED  BY <2>5 DEF n, kind
<1>5. CASE op \in SpatialOps
  <2>1. kind = "Spatial" /\ SpatialEnabled(config.spatial, op)
    BY <1>5, OperatorKinds DEF PredicateKind, SwitchedOn
  <2>2. IsSpatialOperand(args[1]) /\ IsSpatialOperand(args[2])
    BY <1>5, OperatorKinds DEF ValidOperands
  <2>3. \A i \in DOMAIN args : CanBe(args[i], {"geometry"})
    BY <1>2, <2>2, SpatialCanBe
  <2> HIDE DEF kind, n
  <2>4. EnabledNode(config, n) /\ MeetingNode(n)
    BY <1>1, <2>1, <2>3 DEF EnabledNode, MeetingNode
  <2>5. SoundTree(config, n)
    BY <2>1, <2>4, PredicateTree DEF n
  <2>6. QED  BY <2>5 DEF n, kind
<1>6. QED  BY <1>3, <1>4, <1>5 DEF PredicateNames

-----------------------------------------------------------------------------
(* The data of a geometry literal, however it was read.                    *)

Listed(items) == DOMAIN items = 1..Len(items) /\ Len(items) \in Nat

NumbersRead(ns) ==
    Listed(ns) /\ \A i \in DOMAIN ns : \E text : ns[i] = NumberNode(text)

CoordinateRead(c) ==
    \E ns : /\ NumbersRead(ns) /\ Len(ns) \in {2, 3}
            /\ c = Coordinate(ns) /\ InRange(ns[1], ns[2])

LineRead(l, min) ==
    \E items : /\ Listed(items) /\ Len(items) >= min /\ l = List(items)
               /\ \A i \in DOMAIN items : CoordinateRead(items[i])

LinesRead(v, min) ==
    \E items : /\ Listed(items) /\ v = List(items)
               /\ \A i \in DOMAIN items : LineRead(items[i], min)

RingsRead(v) ==
    \E items : /\ Listed(items) /\ v = List(items)
               /\ \A i \in DOMAIN items : LineRead(items[i], 4) /\ ValidRing(items[i])

PolygonsRead(v) ==
    \E items : /\ Listed(items) /\ v = List(items)
               /\ \A i \in DOMAIN items : RingsRead(items[i])

BoxRead(v) == \E ns : NumbersRead(ns) /\ ValidBBox(ns) /\ v = List(ns)

DataRead(type, data) ==
    CASE type = "Point"           -> \E c : CoordinateRead(c) /\ data = List(<<c>>)
      [] type = "MultiPoint"      -> LineRead(data, 0)
      [] type = "LineString"      -> LineRead(data, 2)
      [] type = "Polygon"         -> RingsRead(data)
      [] type = "MultiLineString" -> LinesRead(data, 2)
      [] type = "MultiPolygon"    -> PolygonsRead(data)
      [] type = "BBox"            -> BoxRead(data)
      [] OTHER                    -> FALSE

LEMMA ListFields ==
    ASSUME NEW items
    PROVE  List(items).kind = "List" /\ List(items).args = items
  BY DEF List, Node

LEMMA ListTree ==
    ASSUME NEW config, NEW items, \A i \in DOMAIN items : SoundTree(config, items[i])
    PROVE  SoundTree(config, List(items))
  BY PlainTree DEF List, PlainKinds

LEMMA NumberTree ==
    ASSUME NEW config, NEW text
    PROVE  SoundTree(config, NumberNode(text))
<1>1. \A i \in DOMAIN << >> : SoundTree(config, << >>[i])
  OBVIOUS
<1>2. QED  BY <1>1, PlainTree DEF NumberNode, PlainKinds

LEMMA NumbersTree ==
    ASSUME NEW config, NEW ns, NumbersRead(ns)
    PROVE  \A i \in DOMAIN ns : SoundTree(config, ns[i])
  BY NumberTree DEF NumbersRead

LEMMA CoordinateTree ==
    ASSUME NEW config, NEW c, CoordinateRead(c)
    PROVE  SoundTree(config, c)
<1>1. PICK ns : NumbersRead(ns) /\ c = Coordinate(ns) /\ InRange(ns[1], ns[2])
  BY DEF CoordinateRead
<1>2. c = Node("Coordinate", "", {}, ns, << >>)
  BY <1>1 DEF Coordinate
<1>3. c.kind = "Coordinate" /\ c.args = ns
  BY <1>2 DEF Node
<1>4. \A i \in DOMAIN ns : SoundTree(config, ns[i])
  BY <1>1, NumbersTree
<1>5. TypedNode(c)
  BY <1>3 DEF TypedNode
<1>6. SoundNode(config, c)
  BY <1>1, <1>3 DEF SoundNode, OnGlobe, EnabledNode, MeetingNode, SoundGeometry, InRange
<1>7. QED  BY <1>2, <1>4, <1>5, <1>6, Assembly

LEMMA LineTree ==
    ASSUME NEW config, NEW l, NEW min, LineRead(l, min)
    PROVE  SoundTree(config, l)
  BY CoordinateTree, ListTree DEF LineRead

LEMMA RingsTree ==
    ASSUME NEW config, NEW v, RingsRead(v)
    PROVE  SoundTree(config, v)
  BY LineTree, ListTree DEF RingsRead

LEMMA LinesTree ==
    ASSUME NEW config, NEW v, NEW min, LinesRead(v, min)
    PROVE  SoundTree(config, v)
  BY LineTree, ListTree DEF LinesRead

LEMMA PolygonsTree ==
    ASSUME NEW config, NEW v, PolygonsRead(v)
    PROVE  SoundTree(config, v)
  BY RingsTree, ListTree DEF PolygonsRead

LEMMA BoxTree ==
    ASSUME NEW config, NEW v, BoxRead(v)
    PROVE  SoundTree(config, v) /\ HasCorners(v)
<1>1. PICK ns : NumbersRead(ns) /\ ValidBBox(ns) /\ v = List(ns)
  BY DEF BoxRead
<1>2. SoundTree(config, v)
  BY <1>1, NumbersTree, ListTree
<1>3. v.args = ns
  BY <1>1, ListFields
<1>4. QED  BY <1>1, <1>2, <1>3 DEF HasCorners, ValidBBox

LEMMA DataTree ==
    ASSUME NEW config, NEW type, NEW data, DataRead(type, data)
    PROVE  SoundTree(config, data)
<1>1. CASE type = "Point"
  <2>1. PICK c : CoordinateRead(c) /\ data = List(<<c>>)
    BY <1>1 DEF DataRead
  <2>2. \A i \in DOMAIN <<c>> : SoundTree(config, <<c>>[i])
    BY <2>1, CoordinateTree
  <2>3. QED  BY <2>1, <2>2, ListTree
<1>2. CASE type \in {"MultiPoint", "LineString"}
  <2>1. LineRead(data, 0) \/ LineRead(data, 2)
    BY <1>2 DEF DataRead
  <2>2. QED  BY <2>1, LineTree
<1>3. CASE type = "Polygon"
  BY <1>3, RingsTree DEF DataRead
<1>4. CASE type = "MultiLineString"
  BY <1>4, LinesTree DEF DataRead
<1>5. CASE type = "MultiPolygon"
  BY <1>5, PolygonsTree DEF DataRead
<1>6. CASE type = "BBox"
  BY <1>6, BoxTree DEF DataRead
<1>7. QED  BY <1>1, <1>2, <1>3, <1>4, <1>5, <1>6 DEF DataRead

\* What SoundGeometry asks of the data of each type.
LEMMA LineData ==
    ASSUME NEW l, LineRead(l, 2)
    PROVE  IsLineData(l)
  BY ListFields DEF LineRead, IsLineData

LEMMA RingData ==
    ASSUME NEW r, LineRead(r, 4), ValidRing(r)
    PROVE  IsRingData(r)
<1>1. PICK items : /\ Listed(items) /\ Len(items) >= 4 /\ r = List(items)
                   /\ \A i \in DOMAIN items : CoordinateRead(items[i])
  BY DEF LineRead
<1>2. r.args = items
  BY <1>1, ListFields
<1>3. 1 \in DOMAIN items /\ Len(items) \in DOMAIN items
  BY <1>1 DEF Listed
<1> DEFINE c == items[1]
           d == items[Len(items)]
<1>4. SameCoordinate(c, d)
  BY <1>2 DEF ValidRing
<1>5. CoordinateRead(c) /\ CoordinateRead(d)
  BY <1>1, <1>3
<1> HIDE DEF c, d
<1>6. Len(c.args) \in {2, 3}
  <2>1. PICK ns : Len(ns) \in {2, 3} /\ c = Coordinate(ns)
    BY <1>5 DEF CoordinateRead
  <2>2. c.args = ns
    BY <2>1 DEF Coordinate, Node
  <2>3. QED  BY <2>1, <2>2
<1>7. Len(d.args) = Len(c.args)
  BY <1>4 DEF SameCoordinate
<1>8. \A i \in 1..Len(c.args) : Value(c.args[i]) = Value(d.args[i])
  BY <1>4, <1>6 DEF SameCoordinate
<1>9. Values(c) = Values(d)
  BY <1>7, <1>8 DEF Values
<1>10. QED  BY <1>1, <1>2, <1>9 DEF IsRingData, c, d

LEMMA ChildrenOfList ==
    ASSUME NEW items
    PROVE  \A c \in Children(List(items)) : \E i \in DOMAIN items : c = items[i]
  BY ListFields DEF Children

LEMMA RingsData ==
    ASSUME NEW v, RingsRead(v)
    PROVE  \A r \in Children(v) : IsRingData(r)
<1>1. PICK items : /\ v = List(items)
                   /\ \A i \in DOMAIN items : LineRead(items[i], 4) /\ ValidRing(items[i])
  BY DEF RingsRead
<1>2. QED  BY <1>1, ChildrenOfList, RingData

BBoxRead(bbox) == bbox = << >> \/ \E b : BoxRead(b) /\ bbox = <<b>>

LEMMA Paired ==
    ASSUME NEW x, NEW y
    PROVE  /\ DOMAIN (<<x>> \o <<y>>) = 1..2 /\ Len(<<x>> \o <<y>>) = 2
           /\ (<<x>> \o <<y>>)[1] = x /\ (<<x>> \o <<y>>)[2] = y
<1> DEFINE S == {x, y}
           s == <<x>>
           t == <<y>>
           p == s \o t
<1>1. s \in Seq(S) /\ t \in Seq(S) /\ Len(s) = 1 /\ Len(t) = 1 /\ s[1] = x /\ t[1] = y
  OBVIOUS
<1> HIDE DEF S, s, t
<1>2. /\ p \in Seq(S) /\ Len(p) = Len(s) + Len(t)
      /\ \A i \in 1 .. Len(s) + Len(t) : p[i] = IF i <= Len(s) THEN s[i] ELSE t[i - Len(s)]
  BY <1>1, ConcatProperties
<1> HIDE DEF p
<1>3. DOMAIN p = 1..2 /\ Len(p) = 2 /\ p[1] = x /\ p[2] = y
  BY <1>1, <1>2
<1>4. QED  BY <1>3 DEF p, s, t

LEMMA GeometryTree ==
    ASSUME NEW config, NEW type, NEW data, NEW bbox, NEW src,
           DataRead(type, data), BBoxRead(bbox)
    PROVE  SoundTree(config, GeometryLiteral(type, data, bbox, src))
<1> DEFINE args == <<data>> \o bbox
           n == Node("Geometry", type, {"geometry"}, args, src)
<1>1. n.kind = "Geometry" /\ n.op = type /\ n.types = {"geometry"} /\ n.args = args
  BY DEF Node
<1>2. SoundTree(config, data)
  BY DataTree
<1>3. /\ args[1] = data
      /\ \A i \in DOMAIN args : SoundTree(config, args[i])
      /\ Len(args) = 2 => HasCorners(args[2])
  <2>1. CASE bbox = << >>
    BY <1>2, <2>1
  <2>2. CASE \E b : BoxRead(b) /\ bbox = <<b>>
    <3>1. PICK b : BoxRead(b) /\ bbox = <<b>>
      BY <2>2
    <3>2. SoundTree(config, b) /\ HasCorners(b)
      BY <3>1, BoxTree
    <3>3. DOMAIN args = 1..2 /\ args[1] = data /\ args[2] = b
      BY <3>1, Paired
    <3> HIDE DEF args
    <3>4. QED  BY <1>2, <3>2, <3>3
  <2>3. QED  BY <2>1, <2>2 DEF BBoxRead
<1> HIDE DEF args, n
<1>4. \A m \in Subtrees(data) : OnGlobe(m)
  BY <1>2 DEF SoundTree
<1>5. type # "GeometryCollection"
  BY DEF DataRead
<1>6. type = "LineString" => IsLineData(data)
  BY LineData DEF DataRead
<1>7. type = "MultiLineString" => \A l \in Children(data) : IsLineData(l)
  BY LineData, ChildrenOfList DEF DataRead, LinesRead
<1>8. type = "Polygon" => \A r \in Children(data) : IsRingData(r)
  BY RingsData DEF DataRead
<1>9. type = "MultiPolygon" => \A p \in Children(data) : \A r \in Children(p) : IsRingData(r)
  BY RingsData, ChildrenOfList DEF DataRead, PolygonsRead
<1>10. type = "BBox" => HasCorners(data)
  BY BoxTree DEF DataRead
<1>11. SoundGeometry(n)
  BY <1>1, <1>3, <1>4, <1>5, <1>6, <1>7, <1>8, <1>9, <1>10 DEF SoundGeometry
<1>12. TypedNode(n)
  BY <1>1 DEF TypedNode
<1>13. SoundNode(config, n)
  BY <1>1, <1>11 DEF SoundNode, OnGlobe, EnabledNode, MeetingNode
<1>14. SoundTree(config, n)
  BY <1>3, <1>12, <1>13, Assembly DEF n
<1>15. QED  BY <1>14 DEF GeometryLiteral, n, args

\* A collection of geometries that may be in one.
LEMMA CollectionTree ==
    ASSUME NEW config, NEW members, NEW bbox, NEW src, NEW source,
           \A i \in DOMAIN members : SoundTree(config, members[i]),
           ValidCollection(members, source), BBoxRead(bbox)
    PROVE  SoundTree(config, GeometryLiteral("GeometryCollection", List(members), bbox, src))
<1> DEFINE data == List(members)
           args == <<data>> \o bbox
           n == Node("Geometry", "GeometryCollection", {"geometry"}, args, src)
<1>1. /\ n.kind = "Geometry" /\ n.op = "GeometryCollection"
      /\ n.types = {"geometry"} /\ n.args = args
  BY DEF Node
<1>2. SoundTree(config, data)
  BY ListTree
<1>3. \A c \in Children(data) : c.op \notin {"BBox", "GeometryCollection"}
  BY ChildrenOfList DEF ValidCollection
<1> HIDE DEF data
<1>4. /\ args[1] = data
      /\ \A i \in DOMAIN args : SoundTree(config, args[i])
      /\ Len(args) = 2 => HasCorners(args[2])
  <2>1. CASE bbox = << >>
    BY <1>2, <2>1
  <2>2. CASE \E b : BoxRead(b) /\ bbox = <<b>>
    <3>1. PICK b : BoxRead(b) /\ bbox = <<b>>
      BY <2>2
    <3>2. SoundTree(config, b) /\ HasCorners(b)
      BY <3>1, BoxTree
    <3>3. DOMAIN args = 1..2 /\ args[1] = data /\ args[2] = b
      BY <3>1, Paired
    <3> HIDE DEF args
    <3>4. QED  BY <1>2, <3>2, <3>3
  <2>3. QED  BY <2>1, <2>2 DEF BBoxRead
<1> HIDE DEF args, n
<1>5. \A m \in Subtrees(data) : OnGlobe(m)
  BY <1>2 DEF SoundTree
<1>6. SoundGeometry(n)
  BY <1>1, <1>3, <1>4, <1>5 DEF SoundGeometry
<1>7. TypedNode(n)
  BY <1>1 DEF TypedNode
<1>8. SoundNode(config, n)
  BY <1>1, <1>6 DEF SoundNode, OnGlobe, EnabledNode, MeetingNode
<1>9. SoundTree(config, n)
  BY <1>4, <1>7, <1>8, Assembly DEF n
<1>10. QED  BY <1>9 DEF GeometryLiteral, n, args, data

-----------------------------------------------------------------------------
(* A negated predicate: its flag is set, its operands are the same.        *)

LEMMA NegatedTree ==
    ASSUME NEW config, NEW n, NEW src, SoundTree(config, n),
           n.kind \in {"Like", "Between", "In", "IsNull"}
    PROVE  SoundTree(config, Predicate(n.kind, "NOT", n.args, src))
<1> DEFINE twin == Predicate(n.kind, "NOT", n.args, src)
<1>1. /\ twin.kind = n.kind /\ twin.args = n.args
      /\ ~twin.refs => \A i \in DOMAIN n.args : ~n.args[i].refs
      /\ twin.refs => \E i \in DOMAIN n.args : n.args[i].refs
  BY NodeFields DEF Predicate
<1> HIDE DEF twin
<1>2. \A m \in Subtrees(twin) : m = twin \/ m \in Subtrees(n)
  BY <1>1, SubtreesOfTwin
<1>3. TypedNode(twin)
  BY <1>1 DEF TypedNode
<1>4. RefsKnown(n) /\ \A m \in Subtrees(n) : SoundNode(config, m)
  BY SoundNodes
<1>5. RefsKnown(twin)
  BY <1>1, <1>2, <1>4 DEF RefsKnown
<1>6. SoundNode(config, n)
  BY <1>4, SubtreesOf
<1>7. SoundNode(config, twin)
  BY <1>1, <1>6 DEF SoundNode, OnGlobe, EnabledNode, MeetingNode, SoundGeometry
<1>8. SoundTree(config, twin)
  BY <1>2, <1>3, <1>4, <1>5, <1>7, SoundNodes
<1>9. QED  BY <1>8 DEF twin

=============================================================================
