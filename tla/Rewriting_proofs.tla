--------------------------- MODULE Rewriting_proofs --------------------------
(***************************************************************************)
(* Theorems about the lexer, for texts of any length: tokens never overlap *)
(* and lose no character, numbers are longest and keep their value in      *)
(* canonical form, and what ToText writes reads as the tokens it meant.    *)
(***************************************************************************)
EXTENDS Rewriting, FiniteSetTheorems, SequenceTheorems, WellFoundedInduction, TLAPS

\* STRING, with the characters the lexer, the serializer and number.go put
\* into a text, of which the provers do not know that they are strings.
Character == STRING \cup {Quote, Double, Space, "I", "N"} \cup Digits \cup {".", "-"}

-----------------------------------------------------------------------------
(* Induction over the natural numbers, for a set of them.                  *)

LEMMA NatLeast ==
    ASSUME NEW T, T \subseteq Nat, T # {}
    PROVE  \E x \in T : \A y \in T : x <= y
<1> DEFINE R == {ss \in Nat \X Nat : ss[1] < ss[2]}
<1>1. R = OpToRel(<, Nat)
  BY DEF OpToRel
<1>2. IsWellFoundedOn(R, Nat)
  BY <1>1, NatLessThanWellFounded
<1> HIDE DEF R
<1>3. PICK x \in T : \A y \in T : <<y, x>> \notin R
  BY <1>2, WFMin
<1>4. ASSUME NEW y \in T PROVE x <= y
  <2>1. ~(y < x)
    BY <1>3 DEF R
  <2>2. QED  BY <2>1
<1>5. QED  BY <1>4

LEMMA SetInduction ==
    ASSUME NEW S, 0 \in S, \A n \in Nat : n \in S => n + 1 \in S
    PROVE  Nat \subseteq S
<1>1. SUFFICES ASSUME Nat \ S # {} PROVE FALSE
  OBVIOUS
<1>2. PICK x \in Nat \ S : \A y \in Nat \ S : x <= y
  BY <1>1, NatLeast
<1>3. x # 0 /\ x - 1 \in Nat /\ ~(x <= x - 1) /\ (x - 1) + 1 = x
  BY <1>2
<1>4. QED  BY <1>2, <1>3

-----------------------------------------------------------------------------
(* Scanning.                                                               *)

\* A run of characters ends where the first one stands that is not in S.
LEMMA RunEndFound ==
    ASSUME NEW cs \in Seq(Character), NEW p \in 1 .. Len(cs) + 1, NEW S
    PROVE  /\ RunEnd(cs, p, S) \in p .. Len(cs) + 1
           /\ \A r \in p .. RunEnd(cs, p, S) - 1 : cs[r] \in S
           /\ ~At(cs, RunEnd(cs, p, S), S)
<1> DEFINE Ends(q) == (\A r \in p .. q - 1 : cs[r] \in S) /\ ~At(cs, q, S)
           T == {q \in p .. Len(cs) + 1 : ~At(cs, q, S)}
<1>1. Len(cs) \in Nat /\ DOMAIN cs = 1 .. Len(cs)
  BY LenProperties
<1>2. T \subseteq Nat /\ Len(cs) + 1 \in T
  BY <1>1 DEF At
<1>3. PICK q \in T : \A y \in T : q <= y
  <2> HIDE DEF T
  <2>1. QED  BY <1>2, NatLeast
<1>4. ASSUME NEW r \in p .. q - 1 PROVE cs[r] \in S
  <2>1. r \in p .. Len(cs) + 1 /\ ~(q <= r) /\ r \in DOMAIN cs
    BY <1>1, <1>3
  <2>2. r \notin T
    BY <1>3, <2>1
  <2>3. QED  BY <2>1, <2>2 DEF At
<1>5. \E x \in p .. Len(cs) + 1 : Ends(x)
  BY <1>3, <1>4
<1>6. RunEnd(cs, p, S) = CHOOSE x \in p .. Len(cs) + 1 : Ends(x)
  BY DEF RunEnd
<1>7. RunEnd(cs, p, S) \in p .. Len(cs) + 1 /\ Ends(RunEnd(cs, p, S))
  <2> HIDE DEF Ends
  <2>1. QED  BY <1>5, <1>6
<1>8. QED  BY <1>7

LEMMA RunEndIs ==
    ASSUME NEW cs \in Seq(Character), NEW p \in 1 .. Len(cs) + 1, NEW S, NEW q \in p .. Len(cs) + 1,
           \A r \in p .. q - 1 : cs[r] \in S, ~At(cs, q, S)
    PROVE  RunEnd(cs, p, S) = q
<1> DEFINE x == RunEnd(cs, p, S)
<1>1. Len(cs) \in Nat /\ DOMAIN cs = 1 .. Len(cs)
  BY LenProperties
<1>2. x \in p .. Len(cs) + 1 /\ (\A r \in p .. x - 1 : cs[r] \in S) /\ ~At(cs, x, S)
  BY RunEndFound
<1> HIDE DEF x
<1>3. ~(x < q)
  <2> SUFFICES ASSUME x < q PROVE FALSE
    OBVIOUS
  <2>1. x \in p .. q - 1 /\ x \in DOMAIN cs
    BY <1>1, <1>2
  <2>2. QED  BY <1>2, <2>1 DEF At
<1>4. ~(q < x)
  <2> SUFFICES ASSUME q < x PROVE FALSE
    OBVIOUS
  <2>1. q \in p .. x - 1 /\ q \in DOMAIN cs
    BY <1>1, <1>2
  <2>2. QED  BY <1>2, <2>1 DEF At
<1>5. QED  BY <1>1, <1>2, <1>3, <1>4 DEF x

\* A piece of a text.
LEMMA Piece ==
    ASSUME NEW cs \in Seq(Character), NEW p \in 1 .. Len(cs) + 1, NEW q \in p .. Len(cs) + 1
    PROVE  /\ Run(cs, p, q) \in Seq(Character)
           /\ Len(Run(cs, p, q)) = q - p
           /\ \A k \in 1 .. q - p : Run(cs, p, q)[k] = cs[p + k - 1]
<1>1. Len(cs) \in Nat
  BY LenProperties
<1>2. \A k \in p .. q - 1 : k \in 1 .. Len(cs)
  BY <1>1
<1>3. CASE p <= q - 1
  <2>1. QED  BY <1>1, <1>3, SubSeqProperties DEF Run
<1>4. CASE ~(p <= q - 1)
  <2>1. p = q
    BY <1>4
  <2>2. SubSeq(cs, p, q - 1) = << >>
    BY <1>1, <2>1, SubSeqEmpty
  <2>3. QED  BY <2>1, <2>2, EmptySeq DEF Run
<1>5. QED  BY <1>3, <1>4

LEMMA PieceIsSubSeq ==
    ASSUME NEW cs \in Seq(Character), NEW p \in 1 .. Len(cs), NEW z \in p .. Len(cs)
    PROVE  /\ SubSeq(cs, p, z) \in Seq(Character)
           /\ Len(SubSeq(cs, p, z)) = z - p + 1
           /\ DOMAIN SubSeq(cs, p, z) = 1 .. z - p + 1
           /\ \A k \in 1 .. z - p + 1 : SubSeq(cs, p, z)[k] = cs[p + k - 1]
<1>1. Len(cs) \in Nat
  BY LenProperties
<1>2. z + 1 \in p .. Len(cs) + 1 /\ (z + 1) - 1 = z /\ p \in 1 .. Len(cs) + 1
  BY <1>1
<1>3. SubSeq(cs, p, z) \in Seq(Character) /\ Len(SubSeq(cs, p, z)) = (z + 1) - p
      /\ \A k \in 1 .. (z + 1) - p : SubSeq(cs, p, z)[k] = cs[p + k - 1]
  BY <1>2, Piece DEF Run
<1>4. (z + 1) - p = z - p + 1
  BY <1>1
<1>5. QED  BY <1>3, <1>4, LenProperties

LEMMA UnsignedPiece ==
    ASSUME NEW cs \in Seq(Character), NEW p \in 1 .. Len(cs), NEW z \in p .. Len(cs)
    PROVE  Unsigned(SubSeq(cs, p, z)) = SubSeq(cs, IF At(cs, p, Signs) THEN p + 1 ELSE p, z)
<1>1. Len(cs) \in Nat /\ DOMAIN cs = 1 .. Len(cs)
  BY LenProperties
<1>2. At(SubSeq(cs, p, z), 1, Signs) <=> At(cs, p, Signs)
  <2>1. 1 \in 1 .. z - p + 1 /\ p + 1 - 1 = p
    BY <1>1
  <2>2. QED  BY <1>1, <2>1, PieceIsSubSeq DEF At
<1>3. Tail(SubSeq(cs, p, z)) = SubSeq(cs, p + 1, z)
  BY HeadTailOfSubSeq
<1>4. QED  BY <1>2, <1>3 DEF Unsigned

-----------------------------------------------------------------------------
(* Numbers.                                                                *)

Only(cs, p, q, S) == \A r \in p .. q - 1 : cs[r] \in S

\* A number of cs from s to before q: its digits begin at d, its point is at
\* i, its fraction ends at f, and the digits of its exponent begin at e.
NumberAt(cs, s, d, i, f, e, q) ==
    /\ d = IF At(cs, s, Signs) THEN s + 1 ELSE s
    /\ i \in d .. Len(cs) + 1 /\ Only(cs, d, i, Digits) /\ ~At(cs, i, Digits)
    /\ IF At(cs, i, {"."})
       THEN f \in i + 1 .. Len(cs) + 1 /\ Only(cs, i + 1, f, Digits) /\ ~At(cs, f, Digits)
       ELSE f = i
    /\ i > d \/ f > i + 1
    /\ IF At(cs, f, {"e", "E"})
       THEN /\ e = IF At(cs, f + 1, Signs) THEN f + 2 ELSE f + 1
            /\ q \in e + 1 .. Len(cs) + 1 /\ Only(cs, e, q, Digits) /\ ~At(cs, q, Digits)
       ELSE e = f /\ q = f

\* What isNumberStart begins and numberToken reads is one.
LEMMA NumberFound ==
    ASSUME NEW cs \in Seq(Character), NEW s \in 1 .. Len(cs) + 1,
           StartsNumber(cs, s, TRUE), NumberEnd(cs, s) # 0
    PROVE  \E d, i, f, e : NumberAt(cs, s, d, i, f, e, NumberEnd(cs, s))
<1> DEFINE d == IF At(cs, s, Signs) THEN s + 1 ELSE s
           i == RunEnd(cs, d, Digits)
           f == IF At(cs, i, {"."}) THEN RunEnd(cs, i + 1, Digits) ELSE i
           p == IF At(cs, f + 1, Signs) THEN f + 2 ELSE f + 1
           q == NumberEnd(cs, s)
<1>1. Len(cs) \in Nat /\ DOMAIN cs = 1 .. Len(cs)
  BY LenProperties
<1>2. q = IF ~At(cs, f, {"e", "E"}) THEN f
          ELSE IF At(cs, p, Digits) THEN RunEnd(cs, p, Digits) ELSE 0
  BY DEF NumberEnd
<1>3. d \in 1 .. Len(cs) + 1
  BY <1>1 DEF At
<1>4. i \in d .. Len(cs) + 1 /\ Only(cs, d, i, Digits) /\ ~At(cs, i, Digits)
  BY <1>3, RunEndFound DEF Only
<1>5. At(cs, i, {"."}) => i + 1 \in 1 .. Len(cs) + 1
  BY <1>1, <1>3, <1>4 DEF At
<1>6. IF At(cs, i, {"."})
      THEN f \in i + 1 .. Len(cs) + 1 /\ Only(cs, i + 1, f, Digits) /\ ~At(cs, f, Digits)
      ELSE f = i
  BY <1>5, RunEndFound DEF Only
<1>7. At(cs, d, Digits) \/ (At(cs, d, {"."}) /\ At(cs, d + 1, Digits))
  <2>1. CASE At(cs, s, Signs)
    <3>1. ~At(cs, s, Digits) /\ ~At(cs, s, {"."})
      BY <2>1 DEF At, Signs, Digits
    <3>2. QED  BY <2>1, <3>1 DEF StartsNumber
  <2>2. CASE ~At(cs, s, Signs)
    BY <2>2 DEF StartsNumber
  <2>3. QED  BY <2>1, <2>2
<1> HIDE DEF d, i, f, p, q
<1>8. i > d \/ f > i + 1
  <2>1. CASE At(cs, d, Digits)
    BY <2>1, <1>3, <1>4
  <2>2. CASE At(cs, d, {"."}) /\ At(cs, d + 1, Digits)
    <3>1. CASE i > d
      BY <3>1
    <3>2. CASE ~(i > d)
      <4>1. i = d
        BY <1>3, <1>4, <3>2
      <4>2. QED  BY <1>3, <1>6, <2>2, <4>1
    <3>3. QED  BY <3>1, <3>2
  <2>3. QED  BY <1>7, <2>1, <2>2
<1>9. f \in i .. Len(cs) + 1 /\ f \in 1 .. Len(cs) + 1
  BY <1>1, <1>3, <1>4, <1>6
<1>10. CASE At(cs, f, {"e", "E"})
  <2>1. q = RunEnd(cs, p, Digits) /\ At(cs, p, Digits)
    BY <1>2, <1>10 DEF q
  <2>2. p \in 1 .. Len(cs) + 1
    BY <1>1, <2>1 DEF At
  <2>3. q \in p .. Len(cs) + 1 /\ Only(cs, p, q, Digits) /\ ~At(cs, q, Digits)
    BY <2>1, <2>2, RunEndFound DEF Only
  <2>4. q \in p + 1 .. Len(cs) + 1
    BY <1>1, <2>1, <2>2, <2>3
  <2>5. NumberAt(cs, s, d, i, f, p, q)
    BY <1>4, <1>6, <1>8, <1>10, <2>3, <2>4 DEF NumberAt, d, p
  <2>6. QED  BY <2>5 DEF q
<1>11. CASE ~At(cs, f, {"e", "E"})
  <2>1. NumberAt(cs, s, d, i, f, f, q)
    BY <1>2, <1>4, <1>6, <1>8, <1>11 DEF NumberAt, d
  <2>2. QED  BY <2>1 DEF q
<1>12. QED  BY <1>10, <1>11

\* The positions of a number are in order, and one determines the next.
LEMMA NumberPlaces ==
    ASSUME NEW cs \in Seq(Character), NEW s \in 1 .. Len(cs) + 1,
           NEW d, NEW i, NEW f, NEW e, NEW q, NumberAt(cs, s, d, i, f, e, q)
    PROVE  /\ d \in s .. s + 1 /\ i \in d .. f /\ f \in d + 1 .. q
           /\ q \in s + 1 .. Len(cs) + 1 /\ e \in f .. f + 2 /\ s \in 1 .. Len(cs)
           /\ Len(cs) \in Nat
<1>1. Len(cs) \in Nat /\ DOMAIN cs = 1 .. Len(cs)
  BY LenProperties
<1>2. d \in s .. s + 1 /\ i \in d .. Len(cs) + 1 /\ (i > d \/ f > i + 1)
  BY DEF NumberAt
<1>3. f \in i .. Len(cs) + 1 /\ f > d
  BY <1>1, <1>2 DEF NumberAt
<1>4. e \in f .. f + 2 /\ q \in f .. Len(cs) + 1
  BY <1>1, <1>2, <1>3 DEF NumberAt
<1>5. QED  BY <1>1, <1>2, <1>3, <1>4

LEMMA NumberReads ==
    ASSUME NEW cs \in Seq(Character), NEW s \in 1 .. Len(cs) + 1,
           NEW d, NEW i, NEW f, NEW e, NEW q, NumberAt(cs, s, d, i, f, e, q)
    PROVE  NumberEnd(cs, s) = q /\ StartsNumber(cs, s, TRUE)
<1>1. Len(cs) \in Nat /\ DOMAIN cs = 1 .. Len(cs)
  BY LenProperties
<1>2. d \in s .. s + 1 /\ i \in d .. f /\ f \in d + 1 .. q /\ q \in s + 1 .. Len(cs) + 1
      /\ e \in f .. f + 2
  BY NumberPlaces
<1>3. RunEnd(cs, d, Digits) = i
  <2>1. d \in 1 .. Len(cs) + 1 /\ i \in d .. Len(cs) + 1
    BY <1>1, <1>2
  <2>2. QED  BY <2>1, RunEndIs DEF NumberAt, Only
<1>4. At(cs, i, {"."}) => RunEnd(cs, i + 1, Digits) = f
  <2> SUFFICES ASSUME At(cs, i, {"."}) PROVE RunEnd(cs, i + 1, Digits) = f
    OBVIOUS
  <2>1. i + 1 \in 1 .. Len(cs) + 1
    BY <1>1 DEF At
  <2>2. QED  BY <2>1, RunEndIs DEF NumberAt, Only
<1>5. At(cs, f, {"e", "E"}) => RunEnd(cs, e, Digits) = q /\ At(cs, e, Digits)
  <2> SUFFICES ASSUME At(cs, f, {"e", "E"}) PROVE RunEnd(cs, e, Digits) = q /\ At(cs, e, Digits)
    OBVIOUS
  <2>1. q \in e + 1 .. Len(cs) + 1 /\ Only(cs, e, q, Digits) /\ ~At(cs, q, Digits)
    BY DEF NumberAt
  <2>2. e \in 1 .. Len(cs) + 1 /\ q \in e .. Len(cs) + 1 /\ e \in e .. q - 1
    BY <1>1, <1>2, <2>1
  <2>3. RunEnd(cs, e, Digits) = q
    BY <2>1, <2>2, RunEndIs DEF Only
  <2>4. At(cs, e, Digits)
    BY <1>1, <1>2, <2>1, <2>2 DEF Only, At
  <2>5. QED  BY <2>3, <2>4
<1>6. NumberEnd(cs, s) = q
  <2> DEFINE D == IF At(cs, s, Signs) THEN s + 1 ELSE s
             I == RunEnd(cs, D, Digits)
             F == IF At(cs, I, {"."}) THEN RunEnd(cs, I + 1, Digits) ELSE I
             P == IF At(cs, F + 1, Signs) THEN F + 2 ELSE F + 1
  <2>1. NumberEnd(cs, s) = IF ~At(cs, F, {"e", "E"}) THEN F
                           ELSE IF At(cs, P, Digits) THEN RunEnd(cs, P, Digits) ELSE 0
    BY DEF NumberEnd
  <2>2. D = d /\ I = i
    BY <1>3 DEF NumberAt
  <2>3. F = f
    BY <1>4, <2>2 DEF NumberAt
  <2>4. At(cs, F, {"e", "E"}) => P = e
    BY <2>3 DEF NumberAt
  <2> HIDE DEF D, I, F, P
  <2>5. QED  BY <1>5, <2>1, <2>3, <2>4 DEF NumberAt
<1>7. At(cs, d, Digits) \/ (At(cs, d, {"."}) /\ At(cs, d + 1, Digits))
  <2>1. CASE i > d
    <3>1. d \in d .. i - 1 /\ d \in DOMAIN cs
      BY <1>1, <1>2, <2>1
    <3>2. QED  BY <3>1 DEF NumberAt, Only, At
  <2>2. CASE ~(i > d)
    <3>1. i = d /\ f > i + 1
      BY <1>2, <2>2 DEF NumberAt
    <3>2. At(cs, i, {"."}) /\ Only(cs, i + 1, f, Digits)
      BY <1>2, <3>1 DEF NumberAt
    <3>3. d + 1 \in i + 1 .. f - 1 /\ d + 1 \in DOMAIN cs
      BY <1>1, <1>2, <3>1
    <3>4. QED  BY <3>1, <3>2, <3>3 DEF Only, At
  <2>3. QED  BY <2>1, <2>2
<1>8. StartsNumber(cs, s, TRUE)
  BY <1>7 DEF StartsNumber, NumberAt
<1>9. QED  BY <1>6, <1>8

LEMMA AtMostOne ==
    ASSUME NEW T, IsFiniteSet(T), Cardinality(T) <= 1, NEW x \in T, NEW y \in T
    PROVE  x = y
<1> SUFFICES ASSUME x # y PROVE FALSE
  OBVIOUS
<1>1. {x, y} \subseteq T
  OBVIOUS
<1>2. Cardinality({x, y}) <= Cardinality(T) /\ IsFiniteSet({x, y})
  BY <1>1, FS_Subset
<1>3. Cardinality({x}) = 1 /\ IsFiniteSet({x}) /\ y \notin {x}
  BY FS_Singleton
<1>4. Cardinality({x} \cup {y}) = Cardinality({x}) + 1
  BY <1>3, FS_AddElement
<1>5. {x} \cup {y} = {x, y}
  OBVIOUS
<1>6. Cardinality(T) \in Nat
  BY FS_CardinalityType
<1>7. QED  BY <1>2, <1>3, <1>4, <1>5, <1>6

LEMMA OneAtMost ==
    ASSUME NEW T, NEW x, T \subseteq {x}
    PROVE  Cardinality(T) <= 1 /\ IsFiniteSet(T)
<1>1. IsFiniteSet({x}) /\ Cardinality({x}) = 1
  BY FS_Singleton
<1>2. QED  BY <1>1, FS_Subset

LEMMA WhereFinite ==
    ASSUME NEW u \in Seq(Character), NEW S
    PROVE  IsFiniteSet(Where(u, S))
<1>1. DOMAIN u = 1 .. Len(u) /\ Len(u) \in Nat
  BY LenProperties
<1>2. IsFiniteSet(1 .. Len(u))
  BY <1>1, FS_Interval
<1>3. Where(u, S) \subseteq 1 .. Len(u)
  BY <1>1 DEF Where
<1>4. QED  BY <1>2, <1>3, FS_Subset

\* The characters before the exponent.
LEMMA MantissaHolds ==
    ASSUME NEW cs \in Seq(Character), NEW s \in 1 .. Len(cs) + 1,
           NEW d, NEW i, NEW f, NEW e, NEW q, NumberAt(cs, s, d, i, f, e, q)
    PROVE  /\ \A r \in d .. f - 1 : cs[r] \in Digits \cup {"."}
           /\ \A r \in d .. f - 1 : cs[r] = "." => r = i
           /\ \E r \in d .. f - 1 : cs[r] \in Digits
           /\ f \in 1 .. Len(cs) => cs[f] \notin Digits \/ At(cs, f, {"e", "E"})
           /\ f \in 1 .. Len(cs) /\ cs[f] = "." => i \in d .. f - 1 /\ cs[i] = "."
<1>1. DOMAIN cs = 1 .. Len(cs)
  BY LenProperties
<1>2. d \in s .. s + 1 /\ i \in d .. f /\ f \in d + 1 .. q /\ q \in s + 1 .. Len(cs) + 1
      /\ Len(cs) \in Nat
  BY NumberPlaces
<1>3. \A r \in d .. i - 1 : cs[r] \in Digits
  BY DEF NumberAt, Only
<1>4. CASE At(cs, i, {"."})
  <2>1. f \in i + 1 .. Len(cs) + 1 /\ (\A r \in i + 1 .. f - 1 : cs[r] \in Digits) /\ ~At(cs, f, Digits)
        /\ cs[i] = "."
    BY <1>4 DEF NumberAt, Only, At
  <2>2. \A r \in d .. f - 1 : r \in d .. i - 1 \/ r = i \/ r \in i + 1 .. f - 1
    BY <1>2, <2>1
  <2>3. \E r \in d .. f - 1 : cs[r] \in Digits
    <3>1. CASE i > d
      <4>1. d \in d .. i - 1 /\ d \in d .. f - 1
        BY <1>2, <3>1
      <4>2. QED  BY <1>3, <4>1
    <3>2. CASE f > i + 1
      <4>1. i + 1 \in i + 1 .. f - 1 /\ i + 1 \in d .. f - 1
        BY <1>2, <3>2
      <4>2. QED  BY <2>1, <4>1
    <3>3. QED  BY <3>1, <3>2 DEF NumberAt
  <2>4. i \in d .. f - 1
    BY <1>2, <2>1
  <2>5. "." \notin Digits
    BY DEF Digits
  <2>6. QED  BY <1>1, <1>3, <2>1, <2>2, <2>3, <2>4, <2>5 DEF At
<1>5. CASE ~At(cs, i, {"."})
  <2>1. f = i /\ i > d
    BY <1>2, <1>5 DEF NumberAt
  <2>2. d \in d .. f - 1
    BY <1>2, <2>1
  <2>3. ~At(cs, f, Digits) /\ ~At(cs, f, {"."})
    BY <1>5, <2>1 DEF NumberAt
  <2>4. "." \notin Digits
    BY DEF Digits
  <2>5. QED  BY <1>1, <1>3, <2>1, <2>2, <2>3, <2>4 DEF At
<1>6. QED  BY <1>4, <1>5

\* What is to be known of the piece u of cs from d to z.
PieceOf(cs, d, z, u) ==
    /\ d \in 1 .. Len(cs) /\ z \in d .. Len(cs) /\ u \in Seq(Character)
    /\ Len(u) = z - d + 1 /\ DOMAIN u = 1 .. z - d + 1
    /\ \A k \in 1 .. z - d + 1 : u[k] = cs[d + k - 1]

LEMMA PieceOfText ==
    ASSUME NEW cs \in Seq(Character), NEW d \in 1 .. Len(cs), NEW z \in d .. Len(cs)
    PROVE  PieceOf(cs, d, z, SubSeq(cs, d, z))
BY PieceIsSubSeq DEF PieceOf

LEMMA PieceWhere ==
    ASSUME NEW cs, NEW d, NEW z, NEW u, PieceOf(cs, d, z, u), NEW S, NEW k
    PROVE  k \in Where(u, S) <=> k \in 1 .. z - d + 1 /\ cs[d + k - 1] \in S
BY DEF PieceOf, Where

LEMMA PieceRange ==
    ASSUME NEW cs, NEW d, NEW z, NEW u, PieceOf(cs, d, z, u), NEW S,
           \A r \in d .. z : cs[r] \in S
    PROVE  Range(u) \subseteq S
<1>1. d \in Int /\ z \in Int
  BY DEF PieceOf
<1>2. \A k \in 1 .. z - d + 1 : d + k - 1 \in d .. z
  BY <1>1
<1>3. QED  BY <1>2 DEF PieceOf, Range

LEMMA PieceOfPiece ==
    ASSUME NEW cs \in Seq(Character), NEW d \in 1 .. Len(cs), NEW z \in d .. Len(cs)
    PROVE  \A m, n \in 1 .. z - d + 1 : \A a, b \in Int : a = d + m - 1 /\ b = d + n - 1
              => SubSeq(SubSeq(cs, d, z), m, n) = SubSeq(cs, a, b)
<1>1. Len(cs) \in Nat
  BY LenProperties
<1>2. z \in 1 .. Len(cs) /\ SubSeq(cs, d, z) \in Seq(Character)
  BY <1>1, PieceIsSubSeq
<1>3. QED  BY <1>1, <1>2, SubSeqOfSubSeq

\* A piece from s on that ends at z or later, without its sign.
LEMMA NumberPiece ==
    ASSUME NEW cs \in Seq(Character), NEW s \in 1 .. Len(cs) + 1,
           NEW d, NEW i, NEW f, NEW e, NEW q, NumberAt(cs, s, d, i, f, e, q),
           NEW z \in q - 1 .. Len(cs)
    PROVE  /\ Unsigned(SubSeq(cs, s, z)) = SubSeq(cs, d, z)
           /\ PieceOf(cs, d, z, SubSeq(cs, d, z))
<1>1. d \in s .. s + 1 /\ i \in d .. f /\ f \in d + 1 .. q /\ q \in s + 1 .. Len(cs) + 1
      /\ s \in 1 .. Len(cs) /\ Len(cs) \in Nat
  BY NumberPlaces
<1>2. z \in s .. Len(cs) /\ z \in d .. Len(cs) /\ d \in 1 .. Len(cs)
  BY <1>1
<1>3. Unsigned(SubSeq(cs, s, z)) = SubSeq(cs, d, z)
  BY <1>1, <1>2, UnsignedPiece DEF NumberAt
<1>4. QED  BY <1>2, <1>3, PieceOfText

\* The text of a number is one to number.go.
LEMMA NumberIsText ==
    ASSUME NEW cs \in Seq(Character), NEW s \in 1 .. Len(cs) + 1,
           NEW d, NEW i, NEW f, NEW e, NEW q, NumberAt(cs, s, d, i, f, e, q)
    PROVE  IsNumberText(SubSeq(cs, s, q - 1))
<1> DEFINE z  == q - 1
           u  == SubSeq(cs, d, z)
           es == Where(u, {"e", "E"})
           x  == IF es = {} THEN Len(u) + 1 ELSE CHOOSE k \in es : TRUE
           m  == Run(u, 1, x)
           p  == Unsigned(Run(u, x + 1, Len(u) + 1))
<1>1. /\ d \in s .. s + 1 /\ i \in d .. f /\ f \in d + 1 .. q /\ q \in s + 1 .. Len(cs) + 1
      /\ s \in 1 .. Len(cs) /\ Len(cs) \in Nat /\ e \in f .. f + 2
  BY NumberPlaces
<1>2. z \in Int /\ z = q - 1 /\ z \in q - 1 .. Len(cs)
  BY <1>1
<1> HIDE DEF z
<1>3. Unsigned(SubSeq(cs, s, z)) = u /\ PieceOf(cs, d, z, u)
  BY <1>2, NumberPiece
<1>13. d \in 1 .. Len(cs) /\ z \in d .. Len(cs) /\ u \in Seq(Character) /\ Len(u) = z - d + 1
  BY <1>3 DEF PieceOf
<1>14. u = SubSeq(cs, d, z)
  OBVIOUS
<1> HIDE DEF u
<1>4. /\ \A r \in d .. f - 1 : cs[r] \in Digits \cup {"."}
      /\ \A r \in d .. f - 1 : cs[r] = "." => r = i
      /\ \E r \in d .. f - 1 : cs[r] \in Digits
  BY MantissaHolds
<1>5. PieceOf(cs, d, f - 1, SubSeq(cs, d, f - 1))
  <2>1. f - 1 \in d .. Len(cs) /\ d \in 1 .. Len(cs)
    BY <1>1, <1>2, <1>13
  <2>2. QED  BY <2>1, PieceOfText
<1>6. /\ Range(SubSeq(cs, d, f - 1)) \subseteq Digits \cup {"."}
      /\ Where(SubSeq(cs, d, f - 1), Digits) # {}
      /\ Where(SubSeq(cs, d, f - 1), {"."}) \subseteq {i - d + 1}
  <2>2. Range(SubSeq(cs, d, f - 1)) \subseteq Digits \cup {"."}
    BY <1>4, <1>5, PieceRange
  <2>3. PICK r \in d .. f - 1 : cs[r] \in Digits
    BY <1>4
  <2>4. r - d + 1 \in 1 .. f - 1 - d + 1 /\ d + (r - d + 1) - 1 = r
    BY <1>1
  <2>5. r - d + 1 \in Where(SubSeq(cs, d, f - 1), Digits)
    BY <1>5, <2>3, <2>4, PieceWhere
  <2>6. ASSUME NEW k \in Where(SubSeq(cs, d, f - 1), {"."}) PROVE k = i - d + 1
    <3>1. k \in 1 .. f - 1 - d + 1 /\ cs[d + k - 1] \in {"."}
      BY <1>5, PieceWhere
    <3>2. d + k - 1 \in d .. f - 1 /\ k = (d + k - 1) - d + 1
      BY <1>1, <3>1
    <3>3. QED  BY <1>4, <3>1, <3>2
  <2>7. QED  BY <2>2, <2>5, <2>6
<1>7. {"e", "E"} \cap (Digits \cup Signs \cup {"."}) = {}
  BY DEF Digits, Signs
<1>8. m = SubSeq(cs, d, f - 1) /\ es \subseteq {f - d + 1} /\ (es # {} => p # << >> /\ Range(p) \subseteq Digits)
  <2>1. CASE At(cs, f, {"e", "E"})
    <3>1. /\ e = IF At(cs, f + 1, Signs) THEN f + 2 ELSE f + 1
          /\ q \in e + 1 .. Len(cs) + 1 /\ \A r \in e .. z : cs[r] \in Digits
      BY <1>2, <2>1 DEF NumberAt, Only
    <3>2. f - d + 1 \in 1 .. z - d + 1 /\ d + (f - d + 1) - 1 = f /\ f + 1 <= z
      BY <1>1, <1>2, <3>1
    <3>3. \A r \in d .. z : r \in d .. f - 1 \/ r = f \/ (r = f + 1 /\ cs[r] \in Signs) \/ r \in e .. z
      BY <1>1, <1>2, <3>1 DEF At
    <3>4. \A r \in d .. z : cs[r] \in {"e", "E"} => r = f
      BY <1>4, <1>7, <3>1, <3>3
    <3>5. \A k \in 1 .. z - d + 1 : d + k - 1 \in d .. z /\ k = (d + k - 1) - d + 1
      BY <1>1, <1>2
    <3>6. es = {f - d + 1}
      <4>1. f - d + 1 \in es
        BY <1>3, <2>1, <3>2, PieceWhere DEF At
      <4>2. ASSUME NEW k \in es PROVE k = f - d + 1
        <5>1. k \in 1 .. z - d + 1 /\ cs[d + k - 1] \in {"e", "E"}
          BY <1>3, PieceWhere
        <5>2. QED  BY <3>4, <3>5, <5>1
      <4>3. QED  BY <4>1, <4>2
    <3>7. x = f - d + 1
      BY <3>6
    <3>8. m = SubSeq(cs, d, f - 1)
      <4>1. f - d \in 1 .. z - d + 1 /\ x - 1 = f - d /\ f - 1 = d + (f - d) - 1
        BY <1>1, <1>2, <3>7
      <4>2. 1 \in 1 .. z - d + 1 /\ d = d + 1 - 1
        BY <1>13
      <4>3. SubSeq(u, 1, f - d) = SubSeq(cs, d, f - 1)
        <5>2. \A m1, n1 \in 1 .. z - d + 1 : \A a, b \in Int : a = d + m1 - 1 /\ b = d + n1 - 1
                 => SubSeq(SubSeq(cs, d, z), m1, n1) = SubSeq(cs, a, b)
          BY <1>13, PieceOfPiece
        <5>4. d \in Int /\ f - 1 \in Int
          BY <1>1
        <5>5. SubSeq(SubSeq(cs, d, z), 1, f - d) = SubSeq(cs, d, f - 1)
          BY ONLY <4>1, <4>2, <5>2, <5>4
        <5>3. QED  BY <1>14, <5>5
      <4>4. QED  BY <4>1, <4>2, <4>3 DEF Run
    <3>9. Run(u, x + 1, Len(u) + 1) = SubSeq(cs, f + 1, z)
      <4> HIDE DEF x
      <4>1. /\ x + 1 \in 1 .. z - d + 1 /\ Len(u) \in 1 .. z - d + 1
            /\ f + 1 = d + (x + 1) - 1 /\ z = d + Len(u) - 1 /\ (Len(u) + 1) - 1 = Len(u)
        BY <1>1, <1>2, <1>13, <3>2, <3>7
      <4>2. SubSeq(u, x + 1, Len(u)) = SubSeq(cs, f + 1, z)
        <5>2. \A m1, n1 \in 1 .. z - d + 1 : \A a, b \in Int : a = d + m1 - 1 /\ b = d + n1 - 1
                 => SubSeq(SubSeq(cs, d, z), m1, n1) = SubSeq(cs, a, b)
          BY <1>13, PieceOfPiece
        <5>4. f + 1 \in Int /\ z \in Int
          BY <1>1, <1>2
        <5>5. SubSeq(SubSeq(cs, d, z), x + 1, Len(u)) = SubSeq(cs, f + 1, z)
          BY ONLY <4>1, <5>2, <5>4, ZenonT(30)
        <5>3. QED  BY <1>14, <5>5
      <4>3. QED  BY <4>1, <4>2 DEF Run
    <3>10. p = SubSeq(cs, e, z)
      <4>1. f + 1 \in 1 .. Len(cs) /\ z \in f + 1 .. Len(cs) /\ (f + 1) + 1 = f + 2
        BY <1>1, <1>2, <3>2
      <4>2. QED  BY <3>1, <3>9, <4>1, UnsignedPiece
    <3>11. PieceOf(cs, e, z, p)
      <4>1. e \in 1 .. Len(cs) /\ z \in e .. Len(cs)
        BY <1>1, <1>2, <3>1
      <4>2. QED  BY <3>10, <4>1, PieceOfText
    <3>12. p # << >> /\ Range(p) \subseteq Digits
      <4> HIDE DEF p
      <4>1. Range(p) \subseteq Digits
        BY <3>1, <3>11, PieceRange
      <4>2. Len(p) # 0
        BY <1>2, <3>1, <3>11 DEF PieceOf
      <4>3. QED  BY <4>1, <4>2
    <3>13. QED  BY <3>6, <3>8, <3>12
  <2>2. CASE ~At(cs, f, {"e", "E"})
    <3>1. q = f
      BY <2>2 DEF NumberAt
    <3>2. \A k \in 1 .. z - d + 1 : d + k - 1 \in d .. f - 1
      BY <1>1, <1>2, <3>1
    <3>3. es = {}
      <4>1. ASSUME NEW k \in es PROVE FALSE
        <5>1. k \in 1 .. z - d + 1 /\ cs[d + k - 1] \in {"e", "E"}
          BY <1>3, PieceWhere
        <5>2. QED  BY <1>4, <1>7, <3>2, <5>1
      <4>2. QED  BY <4>1
    <3>4. x = Len(u) + 1 /\ (x - 1) = Len(u) /\ Len(u) \in 1 .. z - d + 1 /\ d + Len(u) - 1 = f - 1
      BY <1>1, <1>2, <1>13, <3>1, <3>3
    <3>5. m = SubSeq(cs, d, f - 1)
      <4>1. SubSeq(u, 1, Len(u)) = u
        BY <1>13, SubSeqFull
      <4>2. z = f - 1
        BY <1>2, <3>1
      <4>3. QED  BY <1>14, <3>4, <4>1, <4>2 DEF Run
    <3>6. QED  BY <3>3, <3>5
  <2>3. QED  BY <2>1, <2>2
<1>9. Cardinality(es) <= 1 /\ Cardinality(Where(m, {"."})) <= 1
  BY <1>6, <1>8, OneAtMost
<1>10. QED
  <2>1. QED  BY <1>2, <1>3, <1>6, <1>8, <1>9 DEF IsNumberText, es, x, m, p

\* No longer piece of the text from its start is one.
LEMMA NumberIsLongest ==
    ASSUME NEW cs \in Seq(Character), NEW s \in 1 .. Len(cs) + 1,
           NEW d, NEW i, NEW f, NEW e, NEW q, NumberAt(cs, s, d, i, f, e, q),
           NEW z \in q .. Len(cs)
    PROVE  ~IsNumberText(SubSeq(cs, s, z))
<1> DEFINE u  == SubSeq(cs, d, z)
           es == Where(u, {"e", "E"})
           x  == IF es = {} THEN Len(u) + 1 ELSE CHOOSE k \in es : TRUE
           m  == Run(u, 1, x)
           p  == Unsigned(Run(u, x + 1, Len(u) + 1))
<1>1. /\ d \in s .. s + 1 /\ i \in d .. f /\ f \in d + 1 .. q /\ q \in s + 1 .. Len(cs) + 1
      /\ s \in 1 .. Len(cs) /\ Len(cs) \in Nat /\ e \in f .. f + 2
  BY NumberPlaces
<1>2. z \in q - 1 .. Len(cs) /\ z \in d .. Len(cs) /\ d \in 1 .. Len(cs) /\ f \in 1 .. Len(cs)
  BY <1>1
<1>3. Unsigned(SubSeq(cs, s, z)) = u /\ PieceOf(cs, d, z, u)
  BY <1>2, NumberPiece
<1>4. /\ \A r \in d .. f - 1 : cs[r] \in Digits \cup {"."}
      /\ f \in 1 .. Len(cs) => cs[f] \notin Digits \/ At(cs, f, {"e", "E"})
      /\ f \in 1 .. Len(cs) /\ cs[f] = "." => i \in d .. f - 1 /\ cs[i] = "."
  BY MantissaHolds
<1>5. \A m1, n1 \in 1 .. z - d + 1 : \A a, b \in Int : a = d + m1 - 1 /\ b = d + n1 - 1
                 => SubSeq(u, m1, n1) = SubSeq(cs, a, b)
  BY <1>2, PieceOfPiece
<1>6. u \in Seq(Character) /\ Len(u) = z - d + 1
  BY <1>3 DEF PieceOf
<1> HIDE DEF u
<1>7. IsFiniteSet(es)
  BY <1>6, WhereFinite
<1>8. \A k : k \in es <=> k \in 1 .. z - d + 1 /\ cs[d + k - 1] \in {"e", "E"}
  BY <1>3, PieceWhere
<1>9. {"e", "E"} \cap (Digits \cup Signs \cup {"."}) = {}
  BY DEF Digits, Signs
<1> SUFFICES ASSUME IsNumberText(SubSeq(cs, s, z)) PROVE FALSE
  OBVIOUS
<1>10. /\ Cardinality(es) <= 1 /\ Cardinality(Where(m, {"."})) <= 1
       /\ Range(m) \subseteq Digits \cup {"."}
       /\ es # {} => p # << >> /\ Range(p) \subseteq Digits
  BY <1>3 DEF IsNumberText
<1> HIDE DEF es
<1>11. CASE At(cs, f, {"e", "E"})
  <2>1. /\ e = IF At(cs, f + 1, Signs) THEN f + 2 ELSE f + 1
        /\ q \in e + 1 .. Len(cs) + 1 /\ ~At(cs, q, Digits)
    BY <1>11 DEF NumberAt
  <2>2. f - d + 1 \in 1 .. z - d + 1 /\ d + (f - d + 1) - 1 = f
    BY <1>1, <1>2, <2>1
  <2>3. f - d + 1 \in es
    BY <1>8, <1>11, <2>2 DEF At
  <2>4. x = f - d + 1
    <3>1. x \in es
      BY <2>3
    <3> HIDE DEF x
    <3>2. QED  BY <1>7, <1>10, <2>3, <3>1, AtMostOne
  <2>5. p # << >> /\ Range(p) \subseteq Digits
    BY <1>10, <2>3
  <2>6. Run(u, x + 1, Len(u) + 1) = SubSeq(cs, f + 1, z)
    <3> HIDE DEF x
    <3>1. /\ x + 1 \in 1 .. z - d + 1 /\ Len(u) \in 1 .. z - d + 1
          /\ f + 1 = d + (x + 1) - 1 /\ z = d + Len(u) - 1 /\ (Len(u) + 1) - 1 = Len(u)
          /\ f + 1 \in Int /\ z \in Int
      BY <1>1, <1>2, <1>6, <2>1, <2>2, <2>4
    <3>2. SubSeq(u, x + 1, Len(u)) = SubSeq(cs, f + 1, z)
      BY ONLY <1>5, <3>1, ZenonT(30)
    <3>3. QED  BY <3>1, <3>2 DEF Run
  <2>7. p = SubSeq(cs, e, z)
    <3>1. f + 1 \in 1 .. Len(cs) /\ z \in f + 1 .. Len(cs) /\ (f + 1) + 1 = f + 2
      BY <1>1, <1>2, <2>1
    <3>2. QED  BY <2>1, <2>6, <3>1, UnsignedPiece
  <2>8. PieceOf(cs, e, z, p)
    <3>1. e \in 1 .. Len(cs) /\ z \in e .. Len(cs)
      BY <1>1, <1>2, <2>1
    <3>2. QED  BY <2>7, <3>1, PieceOfText
  <2> HIDE DEF p
  <2>9. q - e + 1 \in DOMAIN p /\ p[q - e + 1] = cs[q]
    <3>1. q - e + 1 \in 1 .. z - e + 1 /\ e + (q - e + 1) - 1 = q
      BY <1>1, <1>2, <2>1
    <3>2. QED  BY <2>8, <3>1 DEF PieceOf
  <2>10. cs[q] \in Digits
    BY <2>5, <2>9 DEF Range
  <2>11. q \in DOMAIN cs
    BY <1>1, <1>2, LenProperties
  <2>12. QED  BY <2>1, <2>10, <2>11 DEF At
<1>12. CASE ~At(cs, f, {"e", "E"})
  <2>1. q = f
    BY <1>12 DEF NumberAt
  <2>2. x \in Int /\ x > f - d + 1 /\ x <= Len(u) + 1
    <3>1. CASE es = {}
      <4>1. x = Len(u) + 1
        BY <3>1
      <4>2. QED  BY <1>1, <1>2, <1>6, <2>1, <4>1
    <3>2. CASE es # {}
      <4>1. x \in es
        BY <3>2
      <4> HIDE DEF x
      <4>2. x \in 1 .. z - d + 1 /\ cs[d + x - 1] \in {"e", "E"}
        BY <1>8, <4>1
      <4>3. d + x - 1 \notin d .. f - 1
        BY <1>4, <1>9, <4>2
      <4>4. d + x - 1 # f
        BY <1>2, <1>12, <4>2, LenProperties DEF At
      <4>5. QED  BY <1>1, <1>6, <4>2, <4>3, <4>4
    <3>3. QED  BY <3>1, <3>2
  <2> HIDE DEF x
  <2>3. m = SubSeq(cs, d, d + x - 2) /\ PieceOf(cs, d, d + x - 2, m)
    <3>1. 1 \in 1 .. z - d + 1 /\ x - 1 \in 1 .. z - d + 1 /\ d = d + 1 - 1
          /\ d + x - 2 = d + (x - 1) - 1 /\ d \in Int /\ d + x - 2 \in Int
          /\ d + x - 2 \in d .. Len(cs)
      BY <1>1, <1>2, <1>6, <2>2
    <3>2. SubSeq(u, 1, x - 1) = SubSeq(cs, d, d + x - 2)
      BY ONLY <1>5, <3>1
    <3>3. m = SubSeq(cs, d, d + x - 2)
      BY <3>2 DEF Run
    <3> HIDE DEF m
    <3>4. QED  BY <1>2, <3>1, <3>3, PieceOfText
  <2> HIDE DEF m
  <2>4. f - d + 1 \in 1 .. (d + x - 2) - d + 1 /\ d + (f - d + 1) - 1 = f
    BY <1>1, <2>2
  <2>5. m[f - d + 1] = cs[f] /\ f - d + 1 \in DOMAIN m
    BY <2>3, <2>4 DEF PieceOf
  <2>6. cs[f] \in Digits \cup {"."}
    BY <1>10, <2>5 DEF Range
  <2>7. cs[f] = "."
    BY <1>2, <1>4, <1>12, <2>6
  <2>8. i \in d .. f - 1 /\ cs[i] = "."
    BY <1>2, <1>4, <2>7
  <2>9. i - d + 1 \in 1 .. (d + x - 2) - d + 1 /\ d + (i - d + 1) - 1 = i
    BY <1>1, <2>2, <2>8
  <2>10. i - d + 1 \in Where(m, {"."}) /\ f - d + 1 \in Where(m, {"."})
    BY <2>3, <2>4, <2>7, <2>8, <2>9, PieceWhere
  <2>11. IsFiniteSet(Where(m, {"."}))
    BY <2>3, WhereFinite DEF PieceOf
  <2>12. i - d + 1 = f - d + 1
    BY <1>10, <2>10, <2>11, AtMostOne
  <2>13. QED  BY <1>1, <2>8, <2>12
<1>13. QED  BY <1>11, <1>12

\* A number is read alike wherever its characters stand, if no character
\* follows that could belong to it.
LEMMA NumberMoves ==
    ASSUME NEW cs \in Seq(Character), NEW s \in 1 .. Len(cs) + 1,
           NEW d, NEW i, NEW f, NEW e, NEW q, NumberAt(cs, s, d, i, f, e, q),
           NEW other \in Seq(Character), NEW t \in 1 .. Len(other) + 1,
           t + (q - s) <= Len(other) + 1,
           \A r \in 0 .. q - s - 1 : other[t + r] = cs[s + r],
           ~At(other, t + (q - s), Digits \cup Signs \cup {".", "e", "E"})
    PROVE  \E d1, i1, f1, e1 : NumberAt(other, t, d1, i1, f1, e1, t + (q - s))
<1> DEFINE To(r) == t + (r - s)
<1>1. /\ d \in s .. s + 1 /\ i \in d .. f /\ f \in d + 1 .. q /\ q \in s + 1 .. Len(cs) + 1
      /\ s \in 1 .. Len(cs) /\ Len(cs) \in Nat /\ e \in f .. f + 2
  BY NumberPlaces
<1>2. Len(other) \in Nat /\ DOMAIN other = 1 .. Len(other) /\ DOMAIN cs = 1 .. Len(cs)
  BY LenProperties
<1>3. ASSUME NEW r \in s .. q - 1 PROVE To(r) \in 1 .. Len(other) /\ r \in 1 .. Len(cs) /\ other[To(r)] = cs[r]
  <2>1. r - s \in 0 .. q - s - 1 /\ s + (r - s) = r
    BY <1>1
  <2>2. To(r) \in 1 .. Len(other) /\ r \in 1 .. Len(cs)
    BY <1>1, <1>2, <2>1
  <2>3. QED  BY <2>1, <2>2
<1>4. \A r \in s .. q - 1 : \A S : At(other, To(r), S) <=> At(cs, r, S)
  BY <1>2, <1>3 DEF At
<1>5. \A S : S \subseteq Digits \cup Signs \cup {".", "e", "E"} => ~At(other, To(q), S)
  BY DEF At
<1>6. \A p \in s .. q : \A z \in p .. q : \A S : Only(cs, p, z, S) => Only(other, To(p), To(z), S)
  <2> SUFFICES ASSUME NEW p \in s .. q, NEW z \in p .. q, NEW S, Only(cs, p, z, S),
                      NEW y \in To(p) .. To(z) - 1
               PROVE  other[y] \in S
    BY DEF Only
  <2>1. s + (y - t) \in p .. z - 1 /\ s + (y - t) \in s .. q - 1 /\ To(s + (y - t)) = y
    BY <1>1
  <2>2. QED  BY <1>3, <2>1 DEF Only
<1>7. /\ To(s) = t /\ To(d) \in To(s) .. To(s) + 1 /\ To(s + 1) = t + 1
      /\ To(i + 1) = To(i) + 1 /\ To(f + 1) = To(f) + 1 /\ To(f + 2) = To(f) + 2
      /\ To(e + 1) = To(e) + 1
  BY <1>1
<1>8. To(q) \in 1 .. Len(other) + 1 /\ \A r \in s .. q : To(r) \in t .. Len(other) + 1
  BY <1>1, <1>2, SMTT(30)
<1>9. \A r, y \in s .. q + 2 : r <= y <=> To(r) <= To(y)
  BY <1>1
<1> HIDE DEF To
<1>10. To(d) = IF At(other, To(s), Signs) THEN To(s) + 1 ELSE To(s)
  <2>1. s \in s .. q - 1
    BY <1>1
  <2>2. QED  BY <1>4, <1>7, <2>1 DEF NumberAt
<1>11. To(i) \in To(d) .. Len(other) + 1 /\ Only(other, To(d), To(i), Digits) /\ ~At(other, To(i), Digits)
  <2>1. Only(cs, d, i, Digits) /\ ~At(cs, i, Digits)
    BY DEF NumberAt
  <2>2. i \in s .. q - 1 \/ i = q
    BY <1>1, SMTT(30)
  <2>3. d \in s .. q /\ i \in d .. q /\ i \in s .. q
    BY <1>1
  <2>4. QED  BY <1>1, <1>2, <1>4, <1>5, <1>6, <1>8, <1>9, <2>1, <2>2, <2>3, SMTT(30)
<1>12. At(other, To(i), {"."}) <=> At(cs, i, {"."})
  <2>1. CASE i \in s .. q - 1
    BY <1>4, <2>1
  <2>2. CASE i = q
    <3>1. ~At(other, To(i), {"."})
      BY <1>5, <2>2
    <3>2. ~At(cs, i, {"."})
      <4>1. At(cs, i, {"."}) => f \in i + 1 .. Len(cs) + 1
        BY DEF NumberAt
      <4>2. QED  BY <1>1, <2>2, <4>1
    <3>3. QED  BY <3>1, <3>2
  <2>3. QED  BY <1>1, <2>1, <2>2
<1>13. IF At(other, To(i), {"."})
       THEN To(f) \in To(i) + 1 .. Len(other) + 1 /\ Only(other, To(i) + 1, To(f), Digits) /\ ~At(other, To(f), Digits)
       ELSE To(f) = To(i)
  <2>1. CASE At(cs, i, {"."})
    <3>1. f \in i + 1 .. Len(cs) + 1 /\ Only(cs, i + 1, f, Digits) /\ ~At(cs, f, Digits)
      BY <2>1 DEF NumberAt
    <3>2. f \in s .. q - 1 \/ f = q
      BY <1>1, SMTT(30)
    <3>3. i + 1 \in s .. q /\ f \in i + 1 .. q /\ f \in s .. q
      BY <1>1, <3>1
    <3>4. To(i) + 1 = To(i + 1) /\ To(i + 1) \in Int /\ To(f) \in Int
      BY <1>1, SMTT(30) DEF To
    <3>5. Only(other, To(i) + 1, To(f), Digits)
      BY <1>6, <3>1, <3>3, <3>4
    <3>6. ~At(other, To(f), Digits)
      BY <1>4, <1>5, <3>1, <3>2
    <3>7. To(f) \in To(i) + 1 .. Len(other) + 1
      <4>1. To(i + 1) <= To(f)
        BY <1>1, <3>1 DEF To
      <4>2. To(f) <= Len(other) + 1
        BY <1>2, <1>8, <3>3
      <4>3. QED  BY <1>2, <3>4, <4>1, <4>2
    <3>8. QED  BY <1>12, <2>1, <3>5, <3>6, <3>7
  <2>2. CASE ~At(cs, i, {"."})
    BY <1>12, <2>2 DEF NumberAt
  <2>3. QED  BY <2>1, <2>2
<1>14. To(i) > To(d) \/ To(f) > To(i) + 1
  BY <1>1 DEF NumberAt, To
<1>15. CASE At(cs, f, {"e", "E"})
  <2>1. /\ e = IF At(cs, f + 1, Signs) THEN f + 2 ELSE f + 1
        /\ q \in e + 1 .. Len(cs) + 1 /\ Only(cs, e, q, Digits) /\ ~At(cs, q, Digits)
    BY <1>15 DEF NumberAt
  <2>2. f \in s .. q - 1 /\ f + 1 \in s .. q - 1
    BY <1>1, <2>1
  <2>3. At(other, To(f), {"e", "E"}) /\ (At(other, To(f) + 1, Signs) <=> At(cs, f + 1, Signs))
    BY <1>4, <1>7, <1>15, <2>2
  <2>4. To(e) = IF At(other, To(f) + 1, Signs) THEN To(f) + 2 ELSE To(f) + 1
    BY <1>7, <2>1, <2>3
  <2>5. To(q) \in To(e) + 1 .. Len(other) + 1
    BY <1>1, <1>2, <1>8, <2>1 DEF To
  <2>6. Only(other, To(e), To(q), Digits) /\ ~At(other, To(q), Digits)
    <3>1. e \in s .. q /\ q \in e .. q
      BY <1>1, <2>1
    <3>2. QED  BY <1>5, <1>6, <2>1, <3>1
  <2>7. NumberAt(other, t, To(d), To(i), To(f), To(e), To(q))
    BY <1>7, <1>10, <1>11, <1>13, <1>14, <2>3, <2>4, <2>5, <2>6 DEF NumberAt
  <2>8. QED  BY <2>7 DEF To
<1>16. CASE ~At(cs, f, {"e", "E"})
  <2>1. q = f
    BY <1>16 DEF NumberAt
  <2>2. ~At(other, To(f), {"e", "E"})
    BY <1>5, <2>1
  <2>3. NumberAt(other, t, To(d), To(i), To(f), To(f), To(q))
    BY <1>7, <1>10, <1>11, <1>13, <1>14, <2>1, <2>2 DEF NumberAt
  <2>4. QED  BY <2>3 DEF To
<1>17. QED  BY <1>15, <1>16

-----------------------------------------------------------------------------
(* Canonical numbers.                                                      *)

\* The digits whose weights are the value.
Ones(digits, point) == {<<point - k, digits[k]>> : k \in Where(digits, Digits \ {"0"})}

LEMMA NumberCharacters ==
    /\ Digits \subseteq Character /\ "0" \in Digits /\ {"0", ".", "-"} \subseteq Character
    /\ "." \notin Digits \cup Signs \cup {"e", "E"} /\ "-" \notin Digits \cup {".", "e", "E"}
    /\ "+" \notin Digits \cup {".", "e", "E"} /\ "e" \notin Digits \cup Signs /\ "E" \notin Digits \cup Signs
BY DEF Digits, Signs, Character

\* Where the parts of a number are.
PartsAre(cs, d, i, f) ==
    /\ Parts(cs).negative = At(cs, 1, {"-"})
    /\ Parts(cs).whole = Run(cs, d, i)
    /\ Parts(cs).part = IF At(cs, i, {"."}) THEN Run(cs, i + 1, f) ELSE << >>
    /\ Parts(cs).exponent = Run(cs, f + 1, Len(cs) + 1)
    /\ Where(cs, {"e", "E"}) = IF At(cs, f, {"e", "E"}) THEN {f} ELSE {}
    /\ Where(cs, {"."}) = IF At(cs, i, {"."}) THEN {i} ELSE {}

LEMMA NumberParts ==
    ASSUME NEW cs \in Seq(Character),
           NEW d, NEW i, NEW f, NEW e, NumberAt(cs, 1, d, i, f, e, Len(cs) + 1)
    PROVE  PartsAre(cs, d, i, f)
<1> DEFINE n == Len(cs)
<1>1. n \in Nat /\ DOMAIN cs = 1 .. n
  BY LenProperties
<1>2. 1 \in 1 .. n + 1
  BY <1>1
<1>3. d \in 1 .. 2 /\ i \in d .. f /\ f \in d + 1 .. n + 1 /\ e \in f .. f + 2
  BY <1>1, <1>2, NumberPlaces
<1>4. d = IF At(cs, 1, Signs) THEN 2 ELSE 1
  BY DEF NumberAt
<1>5. \A r \in d .. i - 1 : cs[r] \in Digits
  BY DEF NumberAt, Only
<1>6. ~At(cs, f, Digits)
  BY DEF NumberAt
<1>7. At(cs, i, {"."}) => i < f /\ \A r \in i + 1 .. f - 1 : cs[r] \in Digits
  BY <1>1, <1>3 DEF NumberAt, Only
<1>8. ~At(cs, i, {"."}) => f = i
  BY DEF NumberAt
<1>9. \A r \in 1 .. d - 1 : cs[r] \in Signs
  BY <1>1, <1>4 DEF At
<1>10. IF At(cs, f, {"e", "E"})
       THEN /\ e = IF At(cs, f + 1, Signs) THEN f + 2 ELSE f + 1
            /\ \A r \in e .. n : cs[r] \in Digits
       ELSE f = n + 1
  BY <1>1 DEF NumberAt, Only
<1>11. At(cs, f, {"e", "E"}) => \A r \in f + 1 .. n : cs[r] \in Digits \cup Signs
  <2> SUFFICES ASSUME At(cs, f, {"e", "E"}), NEW r \in f + 1 .. n PROVE cs[r] \in Digits \cup Signs
    OBVIOUS
  <2>1. CASE r \in e .. n
    BY <1>10, <2>1
  <2>2. CASE r \notin e .. n
    <3>1. r = f + 1 /\ At(cs, f + 1, Signs)
      BY <1>1, <1>3, <1>10, <2>2
    <3>2. QED  BY <3>1 DEF At
  <2>3. QED  BY <2>1, <2>2
<1>12. Where(cs, {"e", "E"}) = IF At(cs, f, {"e", "E"}) THEN {f} ELSE {}
  <2>1. ASSUME NEW r \in 1 .. n, cs[r] \in {"e", "E"} PROVE r = f
    <3>1. r \notin 1 .. d - 1 /\ r \notin d .. i - 1
      BY <1>5, <1>9, <2>1, NumberCharacters
    <3>2. ~(r = i /\ At(cs, i, {"."}))
      BY <2>1 DEF At
    <3>3. At(cs, i, {"."}) => r \notin i + 1 .. f - 1
      BY <1>7, <2>1, NumberCharacters
    <3>4. At(cs, f, {"e", "E"}) => r \notin f + 1 .. n
      BY <1>11, <2>1, NumberCharacters
    <3>5. ~(f = n + 1 /\ r > f)
      BY <1>1
    <3>6. QED  BY <1>1, <1>3, <1>7, <1>8, <1>10, <3>1, <3>2, <3>3, <3>4, <3>5
  <2>2. Where(cs, {"e", "E"}) = {r \in 1 .. n : cs[r] \in {"e", "E"}}
    BY <1>1 DEF Where
  <2>3. At(cs, f, {"e", "E"}) <=> f \in 1 .. n /\ cs[f] \in {"e", "E"}
    BY <1>1 DEF At
  <2>4. QED  BY <2>1, <2>2, <2>3
<1>13. Where(cs, {"."}) = IF At(cs, i, {"."}) THEN {i} ELSE {}
  <2>1. ASSUME NEW r \in 1 .. n, cs[r] \in {"."} PROVE r = i
    <3>1. r \notin 1 .. d - 1 /\ r \notin d .. i - 1
      BY <1>5, <1>9, <2>1, NumberCharacters
    <3>2. At(cs, i, {"."}) => r \notin i + 1 .. f - 1
      BY <1>7, <2>1, NumberCharacters
    <3>3. At(cs, f, {"e", "E"}) => r \notin f + 1 .. n /\ r # f
      <4> SUFFICES ASSUME At(cs, f, {"e", "E"}) PROVE r \notin f + 1 .. n /\ r # f
        OBVIOUS
      <4>1. r \notin f + 1 .. n
        BY <1>11, <2>1, NumberCharacters
      <4>2. r # f
        BY <2>1 DEF At
      <4>3. QED  BY <4>1, <4>2
    <3>4. ~(f = n + 1 /\ r >= f)
      BY <1>1
    <3>5. QED  BY <1>1, <1>3, <1>7, <1>8, <1>10, <3>1, <3>2, <3>3, <3>4
  <2>2. Where(cs, {"."}) = {r \in 1 .. n : cs[r] \in {"."}}
    BY <1>1 DEF Where
  <2>3. At(cs, i, {"."}) <=> i \in 1 .. n /\ cs[i] \in {"."}
    BY <1>1 DEF At
  <2>4. QED  BY <2>1, <2>2, <2>3
<1> DEFINE es == Where(cs, {"e", "E"})
           ee == IF es = {} THEN n + 1 ELSE CHOOSE k \in es : TRUE
           ps == Where(cs, {"."})
           pp == IF ps = {} THEN ee ELSE CHOOSE k \in ps : TRUE
<1>14. ee = f
  BY <1>10, <1>12
<1>15. pp = i
  BY <1>8, <1>13, <1>14
<1>16. Parts(cs) = [negative |-> At(cs, 1, {"-"}), whole |-> Run(cs, IF At(cs, 1, Signs) THEN 2 ELSE 1, pp),
                    part |-> Run(cs, pp + 1, ee), exponent |-> Run(cs, ee + 1, n + 1)]
  BY DEF Parts
<1> HIDE DEF es, ee, ps, pp
<1>17. ~At(cs, i, {"."}) => Run(cs, i + 1, f) = << >>
  <2> SUFFICES ASSUME ~At(cs, i, {"."}) PROVE Run(cs, i + 1, f) = << >>
    OBVIOUS
  <2>1. f = i /\ i + 1 \in Int /\ f - 1 \in Int /\ f - 1 < i + 1
    BY <1>3, <1>8
  <2>2. QED  BY <2>1, SubSeqEmpty DEF Run
<1>18. /\ Parts(cs).negative = At(cs, 1, {"-"}) /\ Parts(cs).whole = Run(cs, d, i)
       /\ Parts(cs).part = Run(cs, i + 1, f) /\ Parts(cs).exponent = Run(cs, f + 1, n + 1)
  BY <1>4, <1>14, <1>15, <1>16
<1>19. QED  BY <1>12, <1>13, <1>17, <1>18 DEF PartsAre

\* A number written without an exponent: digits before the point, and those
\* behind it if there are any.
Mark(negative) == IF negative THEN <<"-">> ELSE << >>

Fraction(b) == IF b = << >> THEN << >> ELSE <<".">> \o b

Spelled(negative, a, b) == Mark(negative) \o (a \o Fraction(b))

LEMMA FractionIs ==
    ASSUME NEW b \in Seq(Digits)
    PROVE  /\ Fraction(b) \in Seq(Character) /\ Len(b) \in Nat
           /\ Len(Fraction(b)) = IF b = << >> THEN 0 ELSE Len(b) + 1
           /\ b # << >> => /\ Fraction(b)[1] = "."
                           /\ \A k \in 1 .. Len(b) : Fraction(b)[k + 1] = b[k]
<1>1. b \in Seq(Character) /\ Len(b) \in Nat
  BY SeqMonotonic, NumberCharacters, LenProperties
<1>2. <<".">> \in Seq(Character) /\ Len(<<".">>) = 1 /\ <<".">>[1] = "."
  BY NumberCharacters
<1>3. CASE b = << >>
  BY <1>1, <1>3, EmptySeq DEF Fraction
<1>4. CASE b # << >>
  <2>1. Fraction(b) = <<".">> \o b
    BY <1>4 DEF Fraction
  <2>2. /\ Fraction(b) \in Seq(Character) /\ Len(Fraction(b)) = 1 + Len(b)
        /\ \A k \in 1 .. 1 + Len(b) : Fraction(b)[k] = IF k <= 1 THEN <<".">>[k] ELSE b[k - 1]
    BY <1>1, <1>2, <2>1, ConcatProperties
  <2>3. 1 \in 1 .. 1 + Len(b) /\ \A k \in 1 .. Len(b) : k + 1 \in 1 .. 1 + Len(b) /\ ~(k + 1 <= 1) /\ (k + 1) - 1 = k
    BY <1>1
  <2>4. QED  BY <1>1, <1>2, <1>4, <2>2, <2>3
<1>5. QED  BY <1>3, <1>4

SignLength(negative) == IF negative THEN 1 ELSE 0

SpelledAs(t, s, negative, a, b) ==
    /\ t \in Seq(Character) /\ Len(a) \in Nat /\ Len(b) \in Nat
    /\ Len(t) = s + Len(a) + (IF b = << >> THEN 0 ELSE Len(b) + 1)
    /\ negative => t[1] = "-"
    /\ \A k \in 1 .. Len(a) : t[s + k] = a[k]
    /\ b # << >> => t[s + Len(a) + 1] = "." /\ \A k \in 1 .. Len(b) : t[s + Len(a) + 1 + k] = b[k]

LEMMA Spells ==
    ASSUME NEW negative \in BOOLEAN, NEW a \in Seq(Digits), NEW b \in Seq(Digits)
    PROVE  SpelledAs(Spelled(negative, a, b), SignLength(negative), negative, a, b)
<1> DEFINE u == a \o Fraction(b)
           t == Spelled(negative, a, b)
           m == Len(a)
           n == IF b = << >> THEN 0 ELSE Len(b) + 1
           s == SignLength(negative)
<1>1. a \in Seq(Character) /\ m \in Nat
  BY SeqMonotonic, NumberCharacters, LenProperties
<1>2. /\ Fraction(b) \in Seq(Character) /\ Len(Fraction(b)) = n /\ Len(b) \in Nat
      /\ b # << >> => /\ Fraction(b)[1] = "."
                      /\ \A k \in 1 .. Len(b) : Fraction(b)[k + 1] = b[k]
  BY FractionIs
<1>3. /\ u \in Seq(Character) /\ Len(u) = m + n
      /\ \A k \in 1 .. m + n : u[k] = IF k <= m THEN a[k] ELSE Fraction(b)[k - m]
  <2>1. /\ u \in Seq(Character) /\ Len(u) = Len(a) + Len(Fraction(b))
        /\ \A k \in 1 .. Len(a) + Len(Fraction(b)) : u[k] = IF k <= Len(a) THEN a[k] ELSE Fraction(b)[k - Len(a)]
    BY <1>1, <1>2, ConcatProperties
  <2> HIDE DEF u, n
  <2>2. QED  BY <1>2, <2>1
<1>4. n \in Nat
  BY <1>2
<1>5. /\ Mark(negative) \in Seq(Character) /\ Len(Mark(negative)) = s
      /\ negative => Mark(negative)[1] = "-"
  <2>1. CASE negative
    BY <2>1, NumberCharacters DEF Mark, SignLength
  <2>2. CASE ~negative
    BY <2>2, EmptySeq DEF Mark, SignLength
  <2>3. QED  BY <2>1, <2>2
<1>6. t = Mark(negative) \o u
  BY DEF Spelled
<1> HIDE DEF u, t, n
<1>7. /\ t \in Seq(Character) /\ Len(t) = s + (m + n)
      /\ \A k \in 1 .. s + (m + n) : t[k] = IF k <= s THEN Mark(negative)[k] ELSE u[k - s]
  <2>1. /\ t \in Seq(Character) /\ Len(t) = Len(Mark(negative)) + Len(u)
        /\ \A k \in 1 .. Len(Mark(negative)) + Len(u) :
              t[k] = IF k <= Len(Mark(negative)) THEN Mark(negative)[k] ELSE u[k - Len(Mark(negative))]
    BY <1>3, <1>5, <1>6, ConcatProperties
  <2>2. QED  BY <1>3, <1>5, <2>1
<1>8. s \in 0 .. 1 /\ (negative => s = 1)
  BY DEF SignLength
<1> HIDE DEF s
<1>9. \A k \in 1 .. m + n : t[s + k] = u[k]
  <2>1. \A k \in 1 .. m + n : s + k \in 1 .. s + (m + n) /\ ~(s + k <= s) /\ (s + k) - s = k
    BY <1>1, <1>4, <1>8
  <2>2. QED  BY <1>7, <2>1
<1>10. \A k \in 1 .. m : t[s + k] = a[k]
  <2>1. \A k \in 1 .. m : k \in 1 .. m + n /\ k <= m
    BY <1>1, <1>4
  <2>2. QED  BY <1>3, <1>9, <2>1
<1>11. \A k \in 1 .. n : t[s + m + k] = Fraction(b)[k]
  <2>1. \A k \in 1 .. n : m + k \in 1 .. m + n /\ ~(m + k <= m) /\ (m + k) - m = k /\ s + (m + k) = s + m + k
    BY <1>1, <1>4, <1>8
  <2>2. QED  BY <1>3, <1>9, <2>1
<1>12. negative => t[1] = "-"
  <2>1. negative => 1 \in 1 .. s + (m + n) /\ 1 <= s
    BY <1>1, <1>4, <1>8
  <2>2. QED  BY <1>5, <1>7, <2>1
<1>13. b # << >> => t[s + m + 1] = "." /\ \A k \in 1 .. Len(b) : t[s + m + 1 + k] = b[k]
  <2> SUFFICES ASSUME b # << >> PROVE t[s + m + 1] = "." /\ \A k \in 1 .. Len(b) : t[s + m + 1 + k] = b[k]
    OBVIOUS
  <2>1. n = Len(b) + 1
    BY DEF n
  <2>2. 1 \in 1 .. n /\ \A k \in 1 .. Len(b) : k + 1 \in 1 .. n /\ s + m + (k + 1) = s + m + 1 + k
    <3> HIDE DEF m
    <3>1. QED  BY <1>1, <1>2, <1>8, <2>1
  <2>3. QED  BY <1>2, <1>11, <2>2
<1>14. s + (m + n) = s + m + n
  BY <1>1, <1>4, <1>8
<1>15. SpelledAs(t, s, negative, a, b)
  BY <1>1, <1>2, <1>7, <1>10, <1>12, <1>13, <1>14 DEF SpelledAs, n
<1>16. QED  BY <1>15 DEF t, s

\* Such a text is read as a number, and its parts are those it was made of.
PartsOfSpelled(t, negative, a, b) ==
    /\ t \in Seq(Character) /\ (negative \/ At(t, 1, Digits))
    /\ \E d, i, f, e : NumberAt(t, 1, d, i, f, e, Len(t) + 1)
    /\ Parts(t).negative = negative /\ Parts(t).whole = a /\ Parts(t).part = b
    /\ Parts(t).exponent = << >>
    /\ IsNumberText(t) /\ ~At(t, 1, {"+"}) /\ Where(t, {"e", "E"}) = {}
    /\ b = << >> => Where(t, {"."}) = {}
    /\ b # << >> => t[Len(t)] = b[Len(b)]

LEMMA SpelledParts ==
    ASSUME NEW negative \in BOOLEAN, NEW a \in Seq(Digits), NEW b \in Seq(Digits), a # << >>
    PROVE  PartsOfSpelled(Spelled(negative, a, b), negative, a, b)
<1> DEFINE t == Spelled(negative, a, b)
           s == SignLength(negative)
           m == Len(a)
           n == Len(b)
           z == Len(t)
           i == s + m + 1
<1>1. /\ t \in Seq(Character) /\ m \in Nat /\ n \in Nat
      /\ z = s + m + (IF b = << >> THEN 0 ELSE n + 1)
      /\ negative => t[1] = "-"
      /\ \A k \in 1 .. m : t[s + k] = a[k]
      /\ b # << >> => t[s + m + 1] = "." /\ \A k \in 1 .. n : t[s + m + 1 + k] = b[k]
  BY Spells DEF SpelledAs
<1>2. m # 0 /\ (b # << >> => n # 0)
  BY EmptySeq
<1>3. s \in 0 .. 1 /\ (negative <=> s = 1)
  BY DEF SignLength
<1>4. (\A k \in 1 .. m : a[k] \in Digits) /\ (\A k \in 1 .. n : b[k] \in Digits)
  BY ElementOfSeq
<1>5. z \in Nat /\ DOMAIN t = 1 .. z
  BY <1>1, LenProperties
<1> HIDE DEF t, s, m, n, z
<1>6. \A r \in s + 1 .. i - 1 : t[r] \in Digits
  <2> SUFFICES ASSUME NEW r \in s + 1 .. i - 1 PROVE t[r] \in Digits
    OBVIOUS
  <2>1. r - s \in 1 .. m /\ s + (r - s) = r
    BY <1>1, <1>3
  <2>2. QED  BY <1>1, <1>4, <2>1
<1>7. b # << >> => \A r \in i + 1 .. z : t[r] \in Digits
  <2> SUFFICES ASSUME b # << >>, NEW r \in i + 1 .. z PROVE t[r] \in Digits
    OBVIOUS
  <2>1. r - i \in 1 .. n /\ s + m + 1 + (r - i) = r
    BY <1>1, <1>3, <1>5
  <2>2. QED  BY <1>1, <1>4, <2>1, ZenonT(30)
<1>8. s + 1 \in s + 1 .. i - 1 /\ s + 1 \in DOMAIN t
  BY <1>1, <1>2, <1>3, <1>5
<1>9. s + 1 = IF At(t, 1, Signs) THEN 1 + 1 ELSE 1
  <2>1. CASE negative
    BY <1>1, <1>2, <1>3, <1>5, <2>1 DEF At, Signs
  <2>2. CASE ~negative
    <3>1. t[1] \in Digits /\ s = 0
      BY <1>3, <1>6, <1>8, <2>2
    <3>2. ~At(t, 1, Signs)
      BY <3>1 DEF At, Signs, Digits
    <3>3. QED  BY <3>1, <3>2
  <2>3. QED  BY <2>1, <2>2
<1>10. i \in s + 1 .. z + 1 /\ (b = << >> => i = z + 1) /\ (b # << >> => z + 1 \in i + 1 .. z + 1)
  BY <1>1, <1>2, <1>3
<1>11. At(t, i, {"."}) <=> b # << >>
  <2>1. CASE b = << >>
    BY <1>5, <1>10, <2>1 DEF At
  <2>2. CASE b # << >>
    <3>1. i \in DOMAIN t
      BY <1>1, <1>3, <1>5, <1>10, <2>2
    <3>2. QED  BY <1>1, <2>2, <3>1 DEF At
  <2>3. QED  BY <2>1, <2>2
<1>12. ~At(t, i, Digits)
  <2>1. CASE b = << >>
    BY <1>5, <1>10, <2>1 DEF At
  <2>2. CASE b # << >>
    BY <1>11, <2>2 DEF At, Digits
  <2>3. QED  BY <2>1, <2>2
<1>13. ~At(t, z + 1, Digits) /\ ~At(t, z + 1, {"e", "E"})
  BY <1>5 DEF At
<1>14. Only(t, s + 1, i, Digits) /\ (b # << >> => Only(t, i + 1, z + 1, Digits))
  <2>1. (z + 1) - 1 = z
    BY <1>5
  <2>2. QED  BY <1>6, <1>7, <2>1 DEF Only
<1>15. i > s + 1
  BY <1>1, <1>2, <1>3
<1>16. NumberAt(t, 1, s + 1, i, z + 1, z + 1, z + 1)
  <2>1. IF At(t, i, {"."})
        THEN z + 1 \in i + 1 .. z + 1 /\ Only(t, i + 1, z + 1, Digits) /\ ~At(t, z + 1, Digits)
        ELSE z + 1 = i
    BY <1>10, <1>11, <1>13, <1>14
  <2>2. i \in s + 1 .. Len(t) + 1
    BY <1>10 DEF z
  <2> DEFINE d == s + 1
             f == z + 1
  <2>3. d = IF At(t, 1, Signs) THEN 1 + 1 ELSE 1
    BY <1>9
  <2>4. i \in d .. Len(t) + 1 /\ Only(t, d, i, Digits) /\ ~At(t, i, Digits) /\ i > d
    BY <1>12, <1>14, <1>15, <2>2
  <2>5. IF At(t, i, {"."})
        THEN f \in i + 1 .. Len(t) + 1 /\ Only(t, i + 1, f, Digits) /\ ~At(t, f, Digits)
        ELSE f = i
    BY <2>1 DEF z
  <2>6. ~At(t, f, {"e", "E"})
    BY <1>13
  <2> HIDE DEF i, d, f
  <2>7. NumberAt(t, 1, d, i, f, f, f)
    BY <2>3, <2>4, <2>5, <2>6 DEF NumberAt
  <2>8. QED  BY <2>7 DEF d, f
<1>17. 1 \in 1 .. z + 1
  BY <1>5
<1>18. /\ Parts(t).negative = At(t, 1, {"-"})
       /\ Parts(t).whole = Run(t, s + 1, i)
       /\ Parts(t).part = IF At(t, i, {"."}) THEN Run(t, i + 1, z + 1) ELSE << >>
       /\ Parts(t).exponent = Run(t, (z + 1) + 1, z + 1)
       /\ Where(t, {"e", "E"}) = {}
       /\ Where(t, {"."}) = IF At(t, i, {"."}) THEN {i} ELSE {}
  <2> DEFINE f == z + 1
             d == s + 1
  <2>1. f = Len(t) + 1 /\ t \in Seq(Character) /\ ~At(t, f, {"e", "E"})
    BY <1>1, <1>13 DEF z
  <2>2. NumberAt(t, 1, d, i, f, f, Len(t) + 1)
    BY <1>16, <2>1
  <2> HIDE DEF i, f, d
  <2>3. PartsAre(t, d, i, f)
    BY <2>1, <2>2, NumberParts
  <2>4. Run(t, f + 1, Len(t) + 1) = Run(t, f + 1, f)
    BY <2>1
  <2>5. QED  BY <2>1, <2>3, <2>4 DEF f, d, PartsAre
<1>19. At(t, 1, {"-"}) = negative /\ ~At(t, 1, {"+"})
  <2>1. CASE negative
    <3>1. 1 \in DOMAIN t /\ t[1] = "-"
      BY <1>1, <1>2, <1>3, <1>5, <2>1
    <3>2. QED  BY <2>1, <3>1 DEF At
  <2>2. CASE ~negative
    <3>1. t[1] \in Digits
      BY <1>3, <1>6, <1>8, <2>2
    <3>2. QED  BY <2>2, <3>1 DEF At, Digits
  <2>3. QED  BY <2>1, <2>2
<1>20. Run(t, s + 1, i) = a
  <2>1. s + 1 \in 1 .. z + 1 /\ i \in s + 1 .. z + 1 /\ i - (s + 1) = m
    BY <1>1, <1>3, <1>5, <1>10
  <2>2. Run(t, s + 1, i) \in Seq(Character) /\ Len(Run(t, s + 1, i)) = m
        /\ \A k \in 1 .. m : Run(t, s + 1, i)[k] = t[s + 1 + k - 1]
    <3> DEFINE d == s + 1
    <3>1. d \in 1 .. Len(t) + 1 /\ i \in d .. Len(t) + 1 /\ i - d = m
      BY <2>1 DEF z
    <3> HIDE DEF i, d
    <3>2. Run(t, d, i) \in Seq(Character) /\ Len(Run(t, d, i)) = i - d
          /\ \A k \in 1 .. i - d : Run(t, d, i)[k] = t[d + k - 1]
      BY <1>1, <3>1, Piece
    <3>3. QED  BY <3>1, <3>2 DEF d
  <2>3. \A k \in 1 .. m : s + 1 + k - 1 = s + k
    BY <1>1, <1>3
  <2>4. a \in Seq(Character)
    BY SeqMonotonic, NumberCharacters
  <2>5. \A k \in 1 .. m : Run(t, s + 1, i)[k] = a[k]
    BY <1>1, <2>2, <2>3, ZenonT(30)
  <2> HIDE DEF i
  <2>6. QED  BY <2>2, <2>4, <2>5, SeqEqual DEF m
<1>21. b # << >> => Run(t, i + 1, z + 1) = b
  <2> SUFFICES ASSUME b # << >> PROVE Run(t, i + 1, z + 1) = b
    OBVIOUS
  <2>1. i + 1 \in 1 .. z + 1 /\ z + 1 \in i + 1 .. z + 1 /\ (z + 1) - (i + 1) = n
    BY <1>1, <1>3, <1>5, <1>10
  <2>2. Run(t, i + 1, z + 1) \in Seq(Character) /\ Len(Run(t, i + 1, z + 1)) = n
        /\ \A k \in 1 .. n : Run(t, i + 1, z + 1)[k] = t[(i + 1) + k - 1]
    <3> DEFINE d == i + 1
               q == z + 1
    <3>1. d \in 1 .. Len(t) + 1 /\ q \in d .. Len(t) + 1 /\ q - d = n
      BY <2>1 DEF z
    <3> HIDE DEF i, d, q
    <3>2. Run(t, d, q) \in Seq(Character) /\ Len(Run(t, d, q)) = q - d
          /\ \A k \in 1 .. q - d : Run(t, d, q)[k] = t[d + k - 1]
      BY <1>1, <3>1, Piece
    <3>3. QED  BY <3>1, <3>2 DEF d, q
  <2>3. \A k \in 1 .. n : (i + 1) + k - 1 = s + m + 1 + k
    BY <1>1, <1>3
  <2>4. b \in Seq(Character)
    BY SeqMonotonic, NumberCharacters
  <2>5. \A k \in 1 .. n : Run(t, i + 1, z + 1)[k] = b[k]
    BY <1>1, <2>2, <2>3
  <2> HIDE DEF i
  <2>6. QED  BY <2>2, <2>4, <2>5, SeqEqual DEF n
<1>22. Run(t, (z + 1) + 1, z + 1) = << >>
  <2>1. (z + 1) + 1 \in Int /\ (z + 1) - 1 \in Int /\ (z + 1) - 1 < (z + 1) + 1
    BY <1>5
  <2>2. QED  BY <2>1, SubSeqEmpty DEF Run
<1>23. IsNumberText(t)
  <2>1. IsNumberText(SubSeq(t, 1, (z + 1) - 1))
    BY <1>1, <1>16, <1>17, NumberIsText DEF z
  <2>2. (z + 1) - 1 = Len(t)
    BY <1>5 DEF z
  <2>3. QED  BY <1>1, <2>1, <2>2, SubSeqFull
<1>24. b # << >> => t[z] = b[n]
  <2> SUFFICES ASSUME b # << >> PROVE t[z] = b[n]
    OBVIOUS
  <2>1. n \in 1 .. n /\ s + m + 1 + n = z
    BY <1>1, <1>2, <1>3
  <2>2. QED  BY <1>1, <2>1
<1>25. ~negative => At(t, 1, Digits)
  BY <1>3, <1>6, <1>8 DEF At
<1>26. \E d, j, f, e : NumberAt(t, 1, d, j, f, e, Len(t) + 1)
  BY <1>16 DEF z
<1>27. PartsOfSpelled(t, negative, a, b)
  BY <1>1, <1>25, <1>26, <1>11, <1>18, <1>19, <1>20, <1>21, <1>22, <1>23, <1>24 DEF PartsOfSpelled, z, n
<1>28. QED  BY <1>27 DEF t

-----------------------------------------------------------------------------
(* The value of a number, and its digits when zeros are trimmed.           *)

LEMMA NoExponent == SmallInt(<< >>) = 0
<1> DEFINE Is(g) == g = [k \in 0 .. Len(<< >>) |->
                           IF k = 0 THEN 0 ELSE 10 * g[k - 1] + (IF << >>[k] = "0" THEN 0 ELSE 1)]
           none == [k \in 0 .. 0 |-> 0]
<1>1. Len(<< >>) = 0
  OBVIOUS
<1>2. Is(none)
  <2> DEFINE h == [k \in 0 .. Len(<< >>) |->
                     IF k = 0 THEN 0 ELSE 10 * none[k - 1] + (IF << >>[k] = "0" THEN 0 ELSE 1)]
  <2>1. DOMAIN h = 0 .. 0 /\ DOMAIN none = 0 .. 0 /\ \A k \in 0 .. 0 : k = 0
    BY <1>1
  <2>2. \A k \in 0 .. 0 : h[k] = 0 /\ none[k] = 0
    BY <1>1
  <2>3. h = none
    BY <2>1, <2>2
  <2>4. QED  BY <2>3
<1>3. Is(CHOOSE g : Is(g))
  <2> HIDE DEF Is
  <2>1. QED  BY <1>2
<1>4. (CHOOSE g : Is(g))[0] = 0
  <2> DEFINE g == CHOOSE x : Is(x)
  <2>1. Is(g)
    BY <1>3
  <2> HIDE DEF g
  <2>2. g[0] = 0
    BY <1>1, <2>1
  <2>3. QED  BY <2>2 DEF g
<1>5. Decimal(<< >>) = (CHOOSE g : Is(g))[Len(<< >>)]
  BY DEF Decimal
<1>6. ~At(<< >>, 1, {"-"}) /\ ~At(<< >>, 1, {"+"})
  BY DEF At
<1> HIDE DEF Is
<1>7. QED  BY <1>1, <1>4, <1>5, <1>6 DEF SmallInt

NonZero == Digits \ {"0"}

LEMMA SameOnes ==
    ASSUME NEW x \in Seq(Digits), NEW y \in Seq(Digits), NEW p \in Int, NEW c \in Int,
           \A k \in Where(x, NonZero) : k + c \in Where(y, NonZero) /\ y[k + c] = x[k],
           \A k \in Where(y, NonZero) : k - c \in Where(x, NonZero)
    PROVE  Ones(y, p + c) = Ones(x, p)
<1>1. Where(x, NonZero) \subseteq Int /\ Where(y, NonZero) \subseteq Int
  <2>1. DOMAIN x = 1 .. Len(x) /\ DOMAIN y = 1 .. Len(y)
    BY LenProperties
  <2>2. QED  BY <2>1 DEF Where
<1>2. ASSUME NEW k \in Where(x, NonZero)
      PROVE  <<p - k, x[k]>> \in Ones(y, p + c)
  <2>1. (p + c) - (k + c) = p - k
    BY <1>1
  <2>2. k + c \in Where(y, NonZero) /\ y[k + c] = x[k]
    OBVIOUS
  <2>3. <<(p + c) - (k + c), y[k + c]>> \in Ones(y, p + c)
    BY <2>2 DEF Ones, NonZero
  <2>4. QED  BY <2>1, <2>2, <2>3
<1>3. ASSUME NEW k \in Where(y, NonZero)
      PROVE  <<(p + c) - k, y[k]>> \in Ones(x, p)
  <2>1. p - (k - c) = (p + c) - k /\ (k - c) + c = k
    BY <1>1
  <2>2. k - c \in Where(x, NonZero)
    OBVIOUS
  <2>3. y[(k - c) + c] = x[k - c]
    BY <2>2
  <2>4. <<p - (k - c), x[k - c]>> \in Ones(x, p)
    BY <2>2 DEF Ones, NonZero
  <2>5. QED  BY <2>1, <2>3, <2>4
<1>4. QED  BY <1>2, <1>3 DEF Ones, NonZero

LEMMA ValueIs ==
    ASSUME NEW cs, Parts(cs).whole \in Seq(Digits), Parts(cs).part \in Seq(Digits),
           SmallInt(Parts(cs).exponent) \in Int
    PROVE  NumberValue(cs) =
             LET ones == Ones(Parts(cs).whole \o Parts(cs).part,
                              Len(Parts(cs).whole) + SmallInt(Parts(cs).exponent))
             IN  [ones |-> ones, negative |-> Parts(cs).negative /\ ones # {}]
<1> DEFINE w == Len(Parts(cs).whole)
           x == SmallInt(Parts(cs).exponent)
           digits == Parts(cs).whole \o Parts(cs).part
<1>1. w \in Int /\ x \in Int /\ \A k \in Int : w - k + x = w + x - k
  <2>1. w \in Int
    BY LenProperties
  <2>2. QED  BY <2>1
<1>2. NumberValue(cs) =
        LET ones == {<<w - k + x, digits[k]>> : k \in Where(digits, Digits \ {"0"})}
        IN  [ones |-> ones, negative |-> Parts(cs).negative /\ ones # {}]
  BY DEF NumberValue
<1>3. Where(digits, Digits \ {"0"}) \subseteq Int
  <2>1. digits \in Seq(Digits)
    BY ConcatProperties
  <2>2. DOMAIN digits = 1 .. Len(digits)
    BY <2>1, LenProperties
  <2> HIDE DEF digits
  <2>3. QED  BY <2>2 DEF Where
<1> HIDE DEF w, x, digits
<1>4. {<<w - k + x, digits[k]>> : k \in Where(digits, Digits \ {"0"})} = Ones(digits, w + x)
  <2> DEFINE ks == Where(digits, Digits \ {"0"})
  <2>1. \A k \in ks : w - k + x = w + x - k
    BY <1>1, <1>3
  <2> HIDE DEF ks
  <2>2. {<<w - k + x, digits[k]>> : k \in ks} = {<<w + x - k, digits[k]>> : k \in ks}
    BY <2>1
  <2> DEFINE p == w + x
  <2>3. \A k \in ks : p - k = w + x - k
    <3>1. ks \subseteq Int
      BY <1>3 DEF ks
    <3>2. QED  BY <1>1, <3>1
  <2> HIDE DEF p
  <2>4. Ones(digits, p) = {<<p - k, digits[k]>> : k \in ks}
    BY DEF Ones, ks
  <2>5. {<<p - k, digits[k]>> : k \in ks} = {<<w + x - k, digits[k]>> : k \in ks}
    BY <2>3
  <2>6. QED  BY <2>2, <2>4, <2>5 DEF ks, p
<1>5. QED  BY <1>2, <1>4 DEF w, x, digits

LEMMA TrimmedLeft ==
    ASSUME NEW cs \in Seq(Digits)
    PROVE  \E y \in 0 .. Len(cs) :
              /\ TrimLeft(cs) \in Seq(Digits) /\ Len(TrimLeft(cs)) = Len(cs) - y
              /\ \A k \in 1 .. y : cs[k] = "0"
              /\ \A k \in 1 .. Len(cs) - y : TrimLeft(cs)[k] = cs[y + k]
              /\ TrimLeft(cs) # << >> => TrimLeft(cs)[1] # "0"
<1> DEFINE n == Len(cs)
           z == RunEnd(cs, 1, {"0"})
<1>1. cs \in Seq(Character) /\ n \in Nat /\ DOMAIN cs = 1 .. n
  BY SeqMonotonic, NumberCharacters, LenProperties
<1>2. 1 \in 1 .. n + 1
  BY <1>1
<1>3. z \in 1 .. n + 1 /\ (\A r \in 1 .. z - 1 : cs[r] \in {"0"}) /\ ~At(cs, z, {"0"})
  BY <1>1, <1>2, RunEndFound
<1>4. TrimLeft(cs) = Run(cs, z, n + 1)
  BY DEF TrimLeft
<1> HIDE DEF z
<1>5. n + 1 \in z .. n + 1
  BY <1>1, <1>3
<1>6. /\ Len(Run(cs, z, n + 1)) = (n + 1) - z
      /\ \A k \in 1 .. (n + 1) - z : Run(cs, z, n + 1)[k] = cs[z + k - 1]
  BY <1>1, <1>3, <1>5, Piece
<1>7. Run(cs, z, n + 1) \in Seq(Digits)
  <2>1. z \in Int /\ (n + 1) - 1 \in Int /\ \A k \in z .. (n + 1) - 1 : k \in 1 .. n
    BY <1>1, <1>3
  <2>2. \A k \in z .. (n + 1) - 1 : cs[k] \in Digits
    BY <2>1, ElementOfSeq
  <2>3. QED  BY <2>1, <2>2, SubSeqProperties DEF Run
<1> DEFINE y == z - 1
<1>8. y \in 0 .. n /\ (n + 1) - z = n - y /\ \A k \in 1 .. n - y : z + k - 1 = y + k
  BY <1>1, <1>3
<1>9. \A k \in 1 .. y : cs[k] = "0"
  BY <1>3
<1>10. TrimLeft(cs) # << >> => TrimLeft(cs)[1] # "0"
  <2> SUFFICES ASSUME TrimLeft(cs) # << >> PROVE TrimLeft(cs)[1] # "0"
    OBVIOUS
  <2>1. n - y # 0
    BY <1>4, <1>6, <1>7, <1>8, EmptySeq
  <2>2. 1 \in 1 .. n - y /\ y + 1 = z /\ z \in 1 .. n
    BY <1>1, <1>3, <2>1
  <2>3. TrimLeft(cs)[1] = cs[z]
    BY <1>4, <1>6, <1>8, <2>2
  <2>4. QED  BY <1>1, <1>3, <2>2, <2>3 DEF At
<1> HIDE DEF y
<1>11. TrimLeft(cs) \in Seq(Digits) /\ Len(TrimLeft(cs)) = n - y
  BY <1>4, <1>6, <1>7, <1>8
<1>12. \A k \in 1 .. n - y : TrimLeft(cs)[k] = cs[y + k]
  BY <1>4, <1>6, <1>8
<1>13. QED  BY <1>8, <1>9, <1>10, <1>11, <1>12

LEMMA TrimmedRight ==
    ASSUME NEW cs \in Seq(Character)
    PROVE  \E m \in 0 .. Len(cs) :
              /\ TrimRight(cs) = SubSeq(cs, 1, m)
              /\ \A k \in m + 1 .. Len(cs) : cs[k] = "0"
              /\ m > 0 => cs[m] # "0"
<1> DEFINE n == Len(cs)
           back == Reverse(cs)
           r == RunEnd(back, 1, {"0"})
           m == n + 1 - r
           left == TrimLeft(back)
<1>1. n \in Nat /\ DOMAIN cs = 1 .. n
  BY LenProperties
<1>2. \A k \in 1 .. n : (n - k) + 1 \in 1 .. n /\ cs[(n - k) + 1] \in Character
  <2>1. \A k \in 1 .. n : (n - k) + 1 \in 1 .. n
    BY <1>1
  <2>2. QED  BY <2>1, ElementOfSeq
<1>3. back \in Seq(Character) /\ Len(back) = n /\ DOMAIN back = 1 .. n
      /\ \A k \in 1 .. n : back[k] = cs[(n - k) + 1]
  <2>1. back = [k \in 1 .. n |-> cs[(n - k) + 1]]
    BY DEF Reverse
  <2>2. back \in Seq(Character)
    BY <1>1, <1>2, <2>1, IsASeq
  <2>3. QED  BY <1>1, <2>1, <2>2, LenProperties
<1>4. r \in 1 .. n + 1 /\ (\A k \in 1 .. r - 1 : back[k] \in {"0"}) /\ ~At(back, r, {"0"})
  <2>1. 1 \in 1 .. Len(back) + 1
    BY <1>1, <1>3
  <2> HIDE DEF back
  <2>2. QED  BY <1>3, <2>1, RunEndFound
<1>5. left = Run(back, r, n + 1)
  BY <1>3 DEF TrimLeft
<1>6. TrimRight(cs) = Reverse(left)
  BY DEF TrimRight
<1> HIDE DEF back, r
<1>7. m \in 0 .. n /\ n + 1 \in r .. n + 1 /\ r \in 1 .. Len(back) + 1 /\ n + 1 \in r .. Len(back) + 1
  BY <1>1, <1>3, <1>4
<1>8. left \in Seq(Character) /\ Len(left) = m /\ \A k \in 1 .. m : left[k] = back[r + k - 1]
  <2> DEFINE q == n + 1
  <2>1. q \in r .. Len(back) + 1 /\ r \in 1 .. Len(back) + 1 /\ q - r = m
    BY <1>7
  <2> HIDE DEF q
  <2>2. /\ Run(back, r, q) \in Seq(Character) /\ Len(Run(back, r, q)) = q - r
        /\ \A k \in 1 .. q - r : Run(back, r, q)[k] = back[r + k - 1]
    BY <1>3, <2>1, Piece
  <2> HIDE DEF m, left
  <2>3. QED  BY <1>5, <2>1, <2>2 DEF q
<1> HIDE DEF left
<1>9. \A k \in 1 .. m : left[k] = cs[m + 1 - k]
  <2>1. \A k \in 1 .. m : r + k - 1 \in 1 .. n /\ (n - (r + k - 1)) + 1 = m + 1 - k
    BY <1>1, <1>4
  <2>2. QED  BY <1>3, <1>8, <2>1
<1>10. Reverse(left) = [k \in 1 .. m |-> left[(m - k) + 1]]
  BY <1>8 DEF Reverse
<1>11. \A k \in 1 .. m : (m - k) + 1 \in 1 .. m /\ m + 1 - ((m - k) + 1) = k /\ k \in 1 .. n
  BY <1>1, <1>7
<1>12. \A k \in 1 .. m : left[(m - k) + 1] = cs[k]
  BY <1>9, <1>11
<1>13. m \in Nat /\ 1 \in Int /\ m \in Int /\ \A k \in 1 .. m : cs[k] \in Character
  BY <1>7, <1>11, ElementOfSeq
<1> HIDE DEF m
<1>14. SubSeq(cs, 1, m) \in Seq(Character) /\ Len(SubSeq(cs, 1, m)) = m
       /\ \A k \in 1 .. m : SubSeq(cs, 1, m)[k] = cs[k]
  <2>1. /\ SubSeq(cs, 1, m) \in Seq(Character)
        /\ Len(SubSeq(cs, 1, m)) = IF 1 <= m THEN m - 1 + 1 ELSE 0
        /\ \A k \in 1 .. m - 1 + 1 : SubSeq(cs, 1, m)[k] = cs[1 + k - 1]
    BY <1>13, SubSeqProperties
  <2>2. m - 1 + 1 = m /\ (~(1 <= m) => m = 0) /\ \A k \in 1 .. m : 1 + k - 1 = k
    BY <1>13
  <2>3. QED  BY <2>1, <2>2
<1>15. Reverse(left) \in Seq(Character) /\ Len(Reverse(left)) = m
       /\ \A k \in 1 .. m : Reverse(left)[k] = cs[k]
  <2> DEFINE f == [k \in 1 .. m |-> left[(m - k) + 1]]
  <2>1. \A k \in 1 .. m : left[(m - k) + 1] \in Character
    BY <1>12, <1>13
  <2>2. f \in Seq(Character)
    BY <1>13, <2>1, IsASeq
  <2>3. QED  BY <1>10, <1>12, <1>13, <2>2, LenProperties
<1>16. TrimRight(cs) = SubSeq(cs, 1, m)
  BY <1>6, <1>14, <1>15, SeqEqual
<1>17. \A k \in m + 1 .. n : cs[k] = "0"
  <2> SUFFICES ASSUME NEW k \in m + 1 .. n PROVE cs[k] = "0"
    OBVIOUS
  <2>1. (n - k) + 1 \in 1 .. r - 1 /\ (n - k) + 1 \in 1 .. n /\ (n - ((n - k) + 1)) + 1 = k
    BY <1>1, <1>4, <1>7 DEF m
  <2>2. back[(n - k) + 1] = cs[k]
    BY <1>3, <2>1
  <2>3. QED  BY <1>4, <2>1, <2>2
<1>18. m > 0 => cs[m] # "0"
  <2> SUFFICES ASSUME m > 0 PROVE cs[m] # "0"
    OBVIOUS
  <2>1. r \in 1 .. n /\ (n - r) + 1 = m
    BY <1>1, <1>4 DEF m
  <2>2. back[r] = cs[m]
    BY <1>3, <2>1
  <2>3. QED  BY <1>3, <1>4, <2>1, <2>2 DEF At
<1>19. m \in 0 .. n
  BY <1>7 DEF m
<1>20. QED  BY <1>16, <1>17, <1>18, <1>19

LEMMA Prefix ==
    ASSUME NEW S, NEW t \in Seq(S), NEW p \in 0 .. Len(t)
    PROVE  /\ SubSeq(t, 1, p) \in Seq(S) /\ Len(SubSeq(t, 1, p)) = p
           /\ \A k \in 1 .. p : SubSeq(t, 1, p)[k] = t[k]
<1>1. Len(t) \in Nat
  BY LenProperties
<1>2. p \in Int /\ \A k \in 1 .. p : k \in 1 .. Len(t)
  BY <1>1
<1>3. \A k \in 1 .. p : t[k] \in S
  BY <1>2, ElementOfSeq
<1>4. /\ SubSeq(t, 1, p) \in Seq(S) /\ Len(SubSeq(t, 1, p)) = IF 1 <= p THEN p - 1 + 1 ELSE 0
      /\ \A k \in 1 .. p - 1 + 1 : SubSeq(t, 1, p)[k] = t[1 + k - 1]
  BY <1>2, <1>3, SubSeqProperties
<1>5. p - 1 + 1 = p /\ (~(1 <= p) => p = 0) /\ \A k \in 1 .. p : 1 + k - 1 = k
  BY <1>1
<1>6. QED  BY <1>4, <1>5

\* The digits behind the point end with the last that is not zero.
LEMMA TrimmedFraction ==
    ASSUME NEW a \in Seq(Digits), NEW b \in Seq(Digits), b # << >>
    PROVE  \E l \in 0 .. Len(b) :
              /\ TrimFraction(Spelled(FALSE, a, b)) = Spelled(FALSE, a, SubSeq(b, 1, l))
              /\ \A k \in l + 1 .. Len(b) : b[k] = "0"
              /\ l > 0 => b[l] # "0"
<1> DEFINE t == Spelled(FALSE, a, b)
           m == Len(a)
           n == Len(b)
           z == Len(t)
<1>1. /\ t \in Seq(Character) /\ m \in Nat /\ n \in Nat
      /\ z = 0 + m + (n + 1)
      /\ \A k \in 1 .. m : t[0 + k] = a[k]
      /\ t[0 + m + 1] = "." /\ \A k \in 1 .. n : t[0 + m + 1 + k] = b[k]
  <2>1. SpelledAs(t, SignLength(FALSE), FALSE, a, b)
    BY Spells
  <2>2. SignLength(FALSE) = 0
    BY DEF SignLength
  <2> HIDE DEF t
  <2>3. QED  BY <2>1, <2>2 DEF SpelledAs
<1>2. (\A k \in 1 .. m : a[k] \in Character) /\ \A k \in 1 .. n : b[k] \in Digits
  <2>1. a \in Seq(Character)
    BY SeqMonotonic, NumberCharacters
  <2>2. QED  BY <2>1, ElementOfSeq
<1> HIDE DEF t, z
<1>3. PICK y \in 0 .. z : /\ TrimRight(t) = SubSeq(t, 1, y)
                          /\ \A k \in y + 1 .. z : t[k] = "0"
                          /\ y > 0 => t[y] # "0"
  BY <1>1, TrimmedRight DEF z
<1>4. DOMAIN t = 1 .. z
  BY <1>1, LenProperties DEF z
<1> DEFINE l == y - (m + 1)
<1>5. l \in 0 .. n /\ y = m + 1 + l
  <2> HIDE DEF m, n
  <2>1. m + 1 \notin y + 1 .. z
    <3>1. t[m + 1] # "0"
      <4>1. 0 + m + 1 = m + 1
        BY <1>1
      <4>2. QED  BY <1>1, <4>1
    <3>2. QED  BY <1>3, <3>1
  <2>2. QED  BY <1>1, <1>3, <2>1
<1>6. Where(t, {"."}) # {}
  <2>1. m + 1 \in Where(t, {"."})
    BY <1>1, <1>4 DEF Where
  <2>2. QED  BY <2>1
<1>7. /\ SubSeq(t, 1, y) \in Seq(Character) /\ Len(SubSeq(t, 1, y)) = y
      /\ \A k \in 1 .. y : SubSeq(t, 1, y)[k] = t[k]
  BY <1>1, <1>3, Prefix DEF z
<1>8. TrimFraction(t) = IF SubSeq(t, 1, y)[y] = "." THEN Front(SubSeq(t, 1, y)) ELSE SubSeq(t, 1, y)
  BY <1>3, <1>6, <1>7 DEF TrimFraction
<1>9. y \in 1 .. y
  <2> HIDE DEF m, n
  <2>1. QED  BY <1>1, <1>5
<1> DEFINE d == SubSeq(b, 1, l)
<1>10. d \in Seq(Digits) /\ Len(d) = l /\ \A k \in 1 .. l : d[k] = b[k]
  BY <1>5, Prefix
<1> DEFINE u == Spelled(FALSE, a, d)
<1>11. /\ u \in Seq(Character) /\ Len(u) = 0 + m + (IF d = << >> THEN 0 ELSE l + 1)
       /\ \A k \in 1 .. m : u[0 + k] = a[k]
       /\ d # << >> => u[0 + m + 1] = "." /\ \A k \in 1 .. l : u[0 + m + 1 + k] = d[k]
  <2>1. d \in Seq(Digits)
    BY <1>10
  <2> HIDE DEF d
  <2>2. SpelledAs(u, SignLength(FALSE), FALSE, a, d)
    BY <2>1, Spells
  <2>3. SignLength(FALSE) = 0
    BY DEF SignLength
  <2> HIDE DEF u, l
  <2>4. QED  BY <1>10, <2>2, <2>3 DEF SpelledAs
<1>12. d = << >> <=> l = 0
  <2> HIDE DEF d, l
  <2>1. QED  BY <1>10, EmptySeq
<1> HIDE DEF u, l, d
<1>13. ASSUME l = 0 PROVE TrimFraction(t) = u
  <2>1. y = m + 1 /\ SubSeq(t, 1, y)[y] = "."
    BY <1>1, <1>5, <1>7, <1>9, <1>13
  <2>2. TrimFraction(t) = SubSeq(SubSeq(t, 1, y), 1, y - 1)
    BY <1>7, <1>8, <2>1 DEF Front
  <2>3. y - 1 \in 0 .. y /\ y - 1 = m
    BY <1>1, <2>1
  <2>4. /\ TrimFraction(t) \in Seq(Character) /\ Len(TrimFraction(t)) = m
        /\ \A k \in 1 .. m : TrimFraction(t)[k] = SubSeq(t, 1, y)[k]
    <3> DEFINE w == SubSeq(t, 1, y)
               x == y - 1
    <3>1. w \in Seq(Character) /\ x \in 0 .. Len(w) /\ x = m
      BY <1>7, <2>3
    <3> HIDE DEF w, x, m
    <3>2. SubSeq(w, 1, x) \in Seq(Character) /\ Len(SubSeq(w, 1, x)) = x
          /\ \A k \in 1 .. x : SubSeq(w, 1, x)[k] = w[k]
      BY <3>1, Prefix
    <3>3. TrimFraction(t) = SubSeq(w, 1, x)
      BY <2>2 DEF w, x
    <3>4. QED  BY <3>1, <3>2, <3>3 DEF w
  <2>5. Len(u) = m /\ \A k \in 1 .. m : u[k] = a[k] /\ t[k] = a[k] /\ k \in 1 .. y
    BY <1>1, <1>11, <1>12, <1>13, <2>1
  <2>6. \A k \in 1 .. m : TrimFraction(t)[k] = u[k]
    BY <1>7, <2>4, <2>5
  <2> HIDE DEF m
  <2>7. TrimFraction(t) = u
    BY <1>11, <2>4, <2>5, <2>6, SeqEqual
  <2>8. QED  BY <2>7
<1>14. ASSUME l # 0 PROVE TrimFraction(t) = u
  <2>1. l \in 1 .. n /\ m + 1 + l = y /\ t[0 + m + 1 + l] = b[l] /\ 0 + m + 1 + l = y
    BY <1>1, <1>5, <1>14
  <2>2. SubSeq(t, 1, y)[y] # "."
    BY <1>2, <1>7, <1>9, <2>1, NumberCharacters
  <2>3. TrimFraction(t) = SubSeq(t, 1, y)
    BY <1>8, <2>2
  <2>4. Len(u) = y
    BY <1>1, <1>11, <1>12, <1>14, <2>1
  <2>5. \A k \in 1 .. y : SubSeq(t, 1, y)[k] = u[k]
    <3> SUFFICES ASSUME NEW k \in 1 .. y PROVE t[k] = u[k]
      BY <1>7
    <3>1. CASE k \in 1 .. m
      BY <1>1, <1>11, <3>1
    <3>2. CASE k = m + 1
      BY <1>1, <1>11, <1>12, <1>14, <3>2
    <3>3. CASE k > m + 1
      <4>1. k - (m + 1) \in 1 .. l /\ k - (m + 1) \in 1 .. n /\ 0 + m + 1 + (k - (m + 1)) = k
        BY <1>1, <2>1, <3>3
      <4>2. t[k] = b[k - (m + 1)]
        BY <1>1, <4>1
      <4>3. u[k] = d[k - (m + 1)]
        BY <1>11, <1>12, <1>14, <4>1
      <4>4. QED  BY <1>10, <4>1, <4>2, <4>3
    <3>4. QED
      <4> HIDE DEF m
      <4>1. QED  BY <1>1, <3>1, <3>2, <3>3
  <2>6. SubSeq(t, 1, y) = u
    BY <1>7, <1>11, <2>4, <2>5, SeqEqual
  <2>7. QED  BY <2>3, <2>6
<1>15. \A k \in l + 1 .. n : b[k] = "0"
  <2> SUFFICES ASSUME NEW k \in l + 1 .. n PROVE b[k] = "0"
    OBVIOUS
  <2>1. 0 + m + 1 + k \in y + 1 .. z /\ k \in 1 .. n
    BY <1>1, <1>5
  <2>2. QED  BY <1>1, <1>3, <2>1
<1>16. l > 0 => b[l] # "0"
  <2> SUFFICES ASSUME l > 0 PROVE b[l] # "0"
    OBVIOUS
  <2>1. l \in 1 .. n /\ 0 + m + 1 + l = y /\ y > 0
    BY <1>1, <1>5
  <2>2. QED  BY <1>1, <1>3, <2>1
<1>17. TrimFraction(t) = u
  BY <1>13, <1>14
<1>18. QED  BY <1>5, <1>15, <1>16, <1>17 DEF t, u, d, n

\* One text of digits is another, but for zeros before and behind.
LEMMA ShiftedOnes ==
    ASSUME NEW x \in Seq(Digits), NEW y \in Seq(Digits), NEW p \in Int, NEW c \in Int,
           \A k \in 1 .. Len(x) : x[k] # "0" => k + c \in 1 .. Len(y) /\ y[k + c] = x[k],
           \A k \in 1 .. Len(y) : y[k] # "0" => k - c \in 1 .. Len(x) /\ x[k - c] = y[k]
    PROVE  Ones(y, p + c) = Ones(x, p)
<1>1. /\ DOMAIN x = 1 .. Len(x) /\ DOMAIN y = 1 .. Len(y)
      /\ \A k \in 1 .. Len(x) : x[k] \in Digits
      /\ \A k \in 1 .. Len(y) : y[k] \in Digits
  BY LenProperties, ElementOfSeq
<1>2. /\ \A k : k \in Where(x, NonZero) <=> k \in 1 .. Len(x) /\ x[k] # "0"
      /\ \A k : k \in Where(y, NonZero) <=> k \in 1 .. Len(y) /\ y[k] # "0"
  BY <1>1 DEF Where, NonZero
<1>3. \A k \in Where(x, NonZero) : k + c \in Where(y, NonZero) /\ y[k + c] = x[k]
  BY <1>2
<1>4. \A k \in Where(y, NonZero) : k - c \in Where(x, NonZero)
  BY <1>2
<1>5. QED  BY <1>3, <1>4, SameOnes

\* z is x and y behind it.
IsBoth(z, x, y) ==
    /\ Len(x) \in Nat /\ Len(y) \in Nat /\ Len(z) = Len(x) + Len(y)
    /\ \A k \in 1 .. Len(x) : z[k] = x[k]
    /\ \A k \in 1 .. Len(y) : z[Len(x) + k] = y[k]

LEMMA Both ==
    ASSUME NEW S, NEW x \in Seq(S), NEW y \in Seq(S)
    PROVE  x \o y \in Seq(S) /\ IsBoth(x \o y, x, y)
<1>1. /\ x \o y \in Seq(S) /\ Len(x) \in Nat /\ Len(y) \in Nat /\ Len(x \o y) = Len(x) + Len(y)
      /\ \A k \in 1 .. Len(x) + Len(y) : (x \o y)[k] = IF k <= Len(x) THEN x[k] ELSE y[k - Len(x)]
  BY ConcatProperties, LenProperties
<1>2. \A k \in 1 .. Len(x) : k \in 1 .. Len(x) + Len(y) /\ k <= Len(x)
  BY <1>1
<1>3. \A k \in 1 .. Len(y) : /\ Len(x) + k \in 1 .. Len(x) + Len(y) /\ ~(Len(x) + k <= Len(x))
                             /\ (Len(x) + k) - Len(x) = k
  BY <1>1
<1>4. QED  BY <1>1, <1>2, <1>3 DEF IsBoth

LEMMA ZerosAre ==
    ASSUME NEW n \in Nat
    PROVE  Zeros(n) \in Seq(Digits) /\ Len(Zeros(n)) = n /\ \A k \in 1 .. n : Zeros(n)[k] = "0"
<1>1. [k \in 1 .. n |-> "0"] \in Seq(Digits)
  BY NumberCharacters, IsASeq
<1>2. QED  BY <1>1, LenProperties DEF Zeros

LEMMA Bare ==
    ASSUME NEW a \in Seq(Digits), NEW b \in Seq(Digits)
    PROVE  Spelled(FALSE, a, b) = IF b = << >> THEN a ELSE a \o (<<".">> \o b)
<1>1. Fraction(b) \in Seq(Character) /\ a \in Seq(Character)
  BY FractionIs, SeqMonotonic, NumberCharacters
<1>2. a \o Fraction(b) \in Seq(Character) /\ a \o << >> = a
  BY <1>1, ConcatProperties, ConcatEmptySeq
<1>3. << >> \o (a \o Fraction(b)) = a \o Fraction(b)
  BY <1>2, ConcatEmptySeq
<1>4. QED  BY <1>2, <1>3 DEF Spelled, Mark, Fraction

\* The digits with the point where canonicalNumber puts it.
Placing(digits, scale) ==
    IF scale <= 0 THEN digits \o Zeros(-scale)
    ELSE IF Len(digits) - scale <= 0
         THEN <<"0", ".">> \o Zeros(-(Len(digits) - scale)) \o digits
         ELSE Run(digits, 1, Len(digits) - scale + 1) \o <<".">>
                \o Run(digits, Len(digits) - scale + 1, Len(digits) + 1)

LeadsWell(a) == a # << >> /\ (a = <<"0">> \/ a[1] # "0")

LEMMA PlacedDigits ==
    ASSUME NEW g \in Seq(Digits), g # << >>, g[1] # "0", NEW scale \in Int
    PROVE  \E a, b \in Seq(Digits) :
              /\ LeadsWell(a)
              /\ Placing(g, scale) = Spelled(FALSE, a, b)
              /\ Ones(a \o b, Len(a)) = Ones(g, Len(g) - scale)
<1> DEFINE n == Len(g)
           point == n - scale
<1>1. n \in Nat /\ n # 0 /\ DOMAIN g = 1 .. n /\ g \in Seq(Character)
  BY LenProperties, EmptySeq, SeqMonotonic, NumberCharacters
<1>2. CASE scale <= 0
  <2> DEFINE zeros == Zeros(-scale)
             a == g \o zeros
  <2>1. -scale \in Nat
    BY <1>2
  <2>2. zeros \in Seq(Digits) /\ Len(zeros) = -scale /\ \A k \in 1 .. -scale : zeros[k] = "0"
    BY <2>1, ZerosAre
  <2>3. /\ a \in Seq(Digits) /\ Len(a) = n + -scale
        /\ \A k \in 1 .. n : a[k] = g[k]
        /\ \A k \in 1 .. -scale : a[n + k] = "0"
    <3> HIDE DEF zeros
    <3>1. a \in Seq(Digits) /\ IsBoth(a, g, zeros)
      BY <2>2, Both
    <3> HIDE DEF a
    <3>2. QED  BY <2>2, <3>1 DEF IsBoth
  <2>4. Len(a) = point /\ Len(a) \in Nat
    <3> HIDE DEF a, n
    <3>1. QED  BY <1>1, <2>1, <2>3
  <2>5. 1 \in 1 .. n
    BY <1>1
  <2>6. a # << >> /\ a[1] # "0"
    <3> HIDE DEF a
    <3>1. Len(a) # 0
      BY <1>1, <2>1, <2>3
    <3>2. QED  BY <2>3, <2>5, <3>1, EmptySeq
  <2>7. Placing(g, scale) = a
    BY <1>2 DEF Placing
  <2> HIDE DEF a, n
  <2>8. Placing(g, scale) = Spelled(FALSE, a, << >>) /\ a \o << >> = a /\ << >> \in Seq(Digits)
    BY <2>3, <2>7, Bare, ConcatEmptySeq, EmptySeq
  <2>9. Ones(a, point + 0) = Ones(g, point)
    <3>1. \A k \in 1 .. n : k + 0 = k /\ k - 0 = k /\ k \in 1 .. Len(a)
      BY <1>1, <2>1, <2>3
    <3>2. ASSUME NEW k \in 1 .. Len(a), a[k] # "0" PROVE k - 0 \in 1 .. n /\ g[k - 0] = a[k]
      <4>1. CASE k \in 1 .. n
        BY <2>3, <3>1, <4>1
      <4>2. CASE k \notin 1 .. n
        <5>1. k - n \in 1 .. -scale /\ n + (k - n) = k
          BY <1>1, <2>1, <2>3, <4>2
        <5>2. QED  BY <2>3, <3>2, <5>1
      <4>3. QED  BY <4>1, <4>2
    <3>3. point \in Int
      BY <1>1
    <3>4. \A k \in 1 .. n : g[k] # "0" => k + 0 \in 1 .. Len(a) /\ a[k + 0] = g[k]
      BY <2>3, <3>1
    <3> DEFINE c == 0
    <3>5. c \in Int
      OBVIOUS
    <3>6. \A k \in 1 .. n : g[k] # "0" => k + c \in 1 .. Len(a) /\ a[k + c] = g[k]
      BY <3>4
    <3>7. \A k \in 1 .. Len(a) : a[k] # "0" => k - c \in 1 .. n /\ g[k - c] = a[k]
      BY <3>2
    <3> HIDE DEF point, c
    <3>8. Ones(a, point + c) = Ones(g, point)
      BY <2>3, <3>3, <3>5, <3>6, <3>7, ShiftedOnes DEF n
    <3>9. QED  BY <3>8 DEF c
  <2>10. point + 0 = point
    BY <1>1
  <2>11. QED  BY <2>3, <2>4, <2>6, <2>8, <2>9, <2>10 DEF LeadsWell, n
<1>3. CASE scale > 0 /\ point <= 0
  <2> DEFINE zeros == Zeros(-point)
             a == <<"0">>
             b == zeros \o g
             c == 1 - point
  <2>1. -point \in Nat
    BY <1>1, <1>3
  <2>2. /\ zeros \in Seq(Digits) /\ Len(zeros) = -point /\ \A k \in 1 .. -point : zeros[k] = "0"
        /\ zeros \in Seq(Character)
    <3> HIDE DEF point
    <3>1. zeros \in Seq(Digits) /\ Len(zeros) = -point /\ \A k \in 1 .. -point : zeros[k] = "0"
      BY <2>1, ZerosAre
    <3>2. QED  BY <3>1, SeqMonotonic, NumberCharacters
  <2>3. a \in Seq(Digits) /\ Len(a) = 1 /\ a[1] = "0" /\ a # << >>
    BY NumberCharacters
  <2> HIDE DEF zeros
  <2>4. /\ b \in Seq(Digits) /\ Len(b) = -point + n
        /\ \A k \in 1 .. -point : b[k] = "0"
        /\ \A k \in 1 .. n : b[-point + k] = g[k]
    <3>1. b \in Seq(Digits) /\ IsBoth(b, zeros, g)
      BY <2>2, Both
    <3> HIDE DEF b, point
    <3>2. QED  BY <2>2, <3>1 DEF IsBoth
  <2>5. Placing(g, scale) = <<"0", ".">> \o zeros \o g
    BY <1>1, <1>3 DEF Placing, zeros
  <2>6. Placing(g, scale) = a \o (<<".">> \o b)
    <3>1. <<"0">> \in Seq(Character) /\ <<".">> \in Seq(Character) /\ <<".">> \o zeros \in Seq(Character)
      BY <2>2, NumberCharacters, ConcatProperties
    <3>2. <<"0", ".">> = <<"0">> \o <<".">>
      OBVIOUS
    <3>3. (<<"0">> \o <<".">>) \o zeros = <<"0">> \o (<<".">> \o zeros)
      BY <2>2, <3>1, ConcatAssociative
    <3>4. (<<"0">> \o (<<".">> \o zeros)) \o g = <<"0">> \o ((<<".">> \o zeros) \o g)
      BY <1>1, <3>1, ConcatAssociative
    <3>5. (<<".">> \o zeros) \o g = <<".">> \o (zeros \o g)
      BY <1>1, <2>2, <3>1, ConcatAssociative
    <3>6. QED  BY <2>5, <3>2, <3>3, <3>4, <3>5
  <2> HIDE DEF a, b
  <2>7. b # << >>
    <3>1. Len(b) # 0
      BY <1>1, <2>1, <2>4
    <3>2. QED  BY <2>4, <3>1, EmptySeq
  <2>8. Placing(g, scale) = Spelled(FALSE, a, b)
    BY <2>3, <2>4, <2>6, <2>7, Bare
  <2> DEFINE ab == a \o b
  <2>9. /\ ab \in Seq(Digits) /\ Len(ab) = 1 + (-point + n)
        /\ ab[1] = "0" /\ \A k \in 1 .. -point + n : ab[1 + k] = b[k]
    <3>1. /\ ab \in Seq(Digits) /\ Len(ab) = Len(a) + Len(b)
          /\ \A k \in 1 .. Len(a) : ab[k] = a[k]
          /\ \A k \in 1 .. Len(b) : ab[Len(a) + k] = b[k]
      <4>1. ab \in Seq(Digits) /\ IsBoth(ab, a, b)
        BY <2>3, <2>4, Both
      <4> HIDE DEF ab
      <4>2. QED  BY <4>1 DEF IsBoth
    <3>2. 1 \in 1 .. 1
      OBVIOUS
    <3> HIDE DEF ab, point, n
    <3>3. QED  BY <2>3, <2>4, <3>1, <3>2
  <2> HIDE DEF ab
  <2>10. ASSUME NEW k \in 1 .. n PROVE k + c \in 1 .. Len(ab) /\ ab[k + c] = g[k]
    <3>1. k + c \in 1 .. Len(ab) /\ k + c = 1 + (-point + k) /\ -point + k \in 1 .. -point + n
      BY <1>1, <2>1, <2>9
    <3>2. QED  BY <2>4, <2>9, <3>1
  <2>11. ASSUME NEW k \in 1 .. Len(ab), ab[k] # "0" PROVE k - c \in 1 .. n /\ g[k - c] = ab[k]
    <3>1. k # 1
      BY <2>9, <2>11
    <3>2. k - 1 \in 1 .. -point + n /\ 1 + (k - 1) = k
      BY <1>1, <2>1, <2>9, <3>1
    <3>3. b[k - 1] = ab[k]
      BY <2>9, <3>2
    <3>4. k - 1 \notin 1 .. -point
      BY <2>4, <2>11, <3>3
    <3>5. k - c \in 1 .. n /\ -point + (k - c) = k - 1
      BY <1>1, <2>1, <3>2, <3>4
    <3>6. QED  BY <2>4, <3>3, <3>5
  <2>12. point \in Int /\ c \in Int /\ point + c = 1
    BY <1>1
  <2>13. Ones(ab, point + c) = Ones(g, point)
    <3> HIDE DEF point, c
    <3>1. QED  BY <2>9, <2>10, <2>11, <2>12, ShiftedOnes, ZenonT(30) DEF n
  <2>14. LeadsWell(a)
    BY <2>3 DEF LeadsWell, a
  <2>15. Ones(a \o b, Len(a)) = Ones(g, n - scale)
    BY <2>3, <2>12, <2>13 DEF ab
  <2>16. QED  BY <2>3, <2>4, <2>8, <2>14, <2>15
<1>4. CASE scale > 0 /\ ~(point <= 0)
  <2> DEFINE a == SubSeq(g, 1, point)
             b == SubSeq(g, point + 1, n)
  <2>1. point \in 1 .. n - 1 /\ point \in 0 .. n /\ (point + 1) - 1 = point /\ (n + 1) - 1 = n
    BY <1>1, <1>4
  <2>2. a \in Seq(Digits) /\ Len(a) = point /\ \A k \in 1 .. point : a[k] = g[k]
    <3> HIDE DEF point
    <3>1. QED  BY <2>1, Prefix
  <2>3. b \in Seq(Digits) /\ Len(b) = n - point
    <3>1. point + 1 \in Int /\ n \in Int /\ point + 1 <= n /\ n - (point + 1) + 1 = n - point
          /\ \A k \in point + 1 .. n : k \in 1 .. n
      BY <1>1, <2>1
    <3>2. \A k \in point + 1 .. n : g[k] \in Digits
      BY <3>1, ElementOfSeq
    <3> HIDE DEF point, n
    <3>3. QED  BY <3>1, <3>2, SubSeqProperties
  <2>4. a \o b = g
    <3>1. 1 \in 1 .. n + 1 /\ point \in 1 - 1 .. n /\ n \in point .. n
      BY <1>1, <2>1
    <3> HIDE DEF point
    <3>2. a \o b = SubSeq(g, 1, n)
      BY <3>1, ConcatAdjacentSubSeq
    <3>3. QED  BY <3>2, SubSeqFull
  <2>5. Placing(g, scale) = (SubSeq(g, 1, (point + 1) - 1) \o <<".">>) \o SubSeq(g, point + 1, (n + 1) - 1)
    <3>1. ~(scale <= 0) /\ ~(Len(g) - scale <= 0)
      BY <1>1, <1>4
    <3>2. QED  BY <3>1 DEF Placing, Run
  <2>6. Placing(g, scale) = (a \o <<".">>) \o b
    BY <2>1, <2>5
  <2>7. a \in Seq(Character) /\ b \in Seq(Character) /\ <<".">> \in Seq(Character)
    <3> HIDE DEF a, b
    <3>1. QED  BY <2>2, <2>3, SeqMonotonic, NumberCharacters
  <2>8. 1 \in 1 .. point
    BY <2>1
  <2>9. Len(a) # 0 /\ Len(b) # 0
    <3> HIDE DEF a, b, n
    <3>1. QED  BY <1>1, <2>1, <2>2, <2>3
  <2> HIDE DEF a, b
  <2>10. a # << >> /\ b # << >> /\ a[1] # "0"
    BY <2>2, <2>3, <2>8, <2>9, EmptySeq
  <2>11. Placing(g, scale) = a \o (<<".">> \o b)
    BY <2>6, <2>7, ConcatAssociative
  <2>12. Placing(g, scale) = Spelled(FALSE, a, b)
    BY <2>2, <2>3, <2>10, <2>11, Bare
  <2>13. QED  BY <2>2, <2>3, <2>4, <2>10, <2>12 DEF LeadsWell
<1>5. scale <= 0 \/ (scale > 0 /\ point <= 0) \/ (scale > 0 /\ ~(point <= 0))
  OBVIOUS
<1>6. QED  BY <1>2, <1>3, <1>4, <1>5

\* Zeros before the first digit that is not zero have no value.
LEMMA TrimmedOnes ==
    ASSUME NEW d \in Seq(Digits), NEW p \in Int
    PROVE  LET g == TrimLeft(d) IN
           /\ g \in Seq(Digits) /\ Len(g) \in Nat /\ (g # << >> => g[1] # "0")
           /\ Ones(g, p - (Len(d) - Len(g))) = Ones(d, p)
           /\ g = << >> => Ones(d, p) = {}
<1> DEFINE g == TrimLeft(d)
           n == Len(d)
<1>1. PICK y \in 0 .. n :
         /\ g \in Seq(Digits) /\ Len(g) = n - y
         /\ \A k \in 1 .. y : d[k] = "0"
         /\ \A k \in 1 .. n - y : g[k] = d[y + k]
         /\ g # << >> => g[1] # "0"
  BY TrimmedLeft
<1>2. n \in Nat /\ Len(g) \in Nat /\ DOMAIN d = 1 .. n
  BY <1>1, LenProperties
<1> DEFINE q == p - y
<1> HIDE DEF g
<1>3. ASSUME NEW k \in 1 .. Len(g) PROVE k + y \in 1 .. n /\ d[k + y] = g[k]
  <2>1. k \in 1 .. n - y /\ k + y \in 1 .. n /\ y + k = k + y
    BY <1>1, <1>2
  <2>2. QED  BY <1>1, <2>1
<1>4. ASSUME NEW k \in 1 .. n, d[k] # "0" PROVE k - y \in 1 .. Len(g) /\ g[k - y] = d[k]
  <2>1. k \notin 1 .. y
    BY <1>1, <1>4
  <2>2. k - y \in 1 .. n - y /\ y + (k - y) = k
    BY <1>2, <2>1
  <2>3. QED  BY <1>1, <2>2
<1>5. q \in Int /\ y \in Int /\ q + y = p
  OBVIOUS
<1>6. Ones(d, q + y) = Ones(g, q)
  <2>1. \A k \in 1 .. Len(g) : g[k] # "0" => k + y \in 1 .. Len(d) /\ d[k + y] = g[k]
    BY <1>3
  <2>2. \A k \in 1 .. Len(d) : d[k] # "0" => k - y \in 1 .. Len(g) /\ g[k - y] = d[k]
    BY <1>4
  <2> HIDE DEF q
  <2>3. g \in Seq(Digits) /\ q \in Int /\ y \in Int
    BY <1>1, <1>5
  <2>4. QED  BY <2>1, <2>2, <2>3, ShiftedOnes
<1>7. q = p - (n - Len(g))
  BY <1>1, <1>2
<1>8. g = << >> => Ones(d, p) = {}
  <2> SUFFICES ASSUME g = << >> PROVE Ones(d, p) = {}
    OBVIOUS
  <2>1. y = n
    BY <1>1, <1>2, EmptySeq
  <2>2. Where(d, Digits \ {"0"}) = {}
    BY <1>1, <1>2, <2>1 DEF Where
  <2>3. QED  BY <2>2 DEF Ones
<1>9. QED  BY <1>1, <1>2, <1>5, <1>6, <1>7, <1>8 DEF g, n

\* Zeros behind the last digit that is not zero neither.
LEMMA CutOnes ==
    ASSUME NEW a \in Seq(Digits), NEW b \in Seq(Digits), NEW l \in 0 .. Len(b),
           \A k \in l + 1 .. Len(b) : b[k] = "0"
    PROVE  Ones(a \o SubSeq(b, 1, l), Len(a)) = Ones(a \o b, Len(a))
<1> DEFINE x == a \o b
           y == a \o SubSeq(b, 1, l)
           m == Len(a)
           n == Len(b)
           c == 0
<1>1. SubSeq(b, 1, l) \in Seq(Digits) /\ Len(SubSeq(b, 1, l)) = l
      /\ \A k \in 1 .. l : SubSeq(b, 1, l)[k] = b[k]
  BY Prefix
<1>2. x \in Seq(Digits) /\ IsBoth(x, a, b)
  BY Both
<1>3. y \in Seq(Digits) /\ IsBoth(y, a, SubSeq(b, 1, l))
  BY <1>1, Both
<1> HIDE DEF x, y
<1>4. /\ m \in Nat /\ n \in Nat /\ Len(x) = m + n /\ Len(y) = m + l
      /\ \A k \in 1 .. m : x[k] = a[k] /\ y[k] = a[k]
      /\ \A k \in 1 .. n : x[m + k] = b[k]
      /\ \A k \in 1 .. l : y[m + k] = b[k]
  <2>1. Len(x) = m + n /\ (\A k \in 1 .. m : x[k] = a[k]) /\ (\A k \in 1 .. n : x[m + k] = b[k])
    BY <1>2 DEF IsBoth
  <2>2. /\ Len(y) = m + Len(SubSeq(b, 1, l)) /\ (\A k \in 1 .. m : y[k] = a[k])
        /\ \A k \in 1 .. Len(SubSeq(b, 1, l)) : y[m + k] = SubSeq(b, 1, l)[k]
    BY <1>3 DEF IsBoth
  <2> HIDE DEF m, n
  <2>3. QED  BY <1>1, <2>1, <2>2, LenProperties DEF m, n
<1> HIDE DEF m, n
<1>5. ASSUME NEW k \in 1 .. m + l PROVE k \in 1 .. m + n /\ x[k] = y[k]
  <2>1. k \in 1 .. m + n
    BY <1>4 DEF n
  <2>2. CASE k \in 1 .. m
    BY <1>4, <2>1, <2>2
  <2>3. CASE k \notin 1 .. m
    <3>1. k - m \in 1 .. l /\ k - m \in 1 .. n /\ m + (k - m) = k
      BY <1>4, <2>1, <2>3
    <3>2. QED  BY <1>4, <2>1, <3>1
  <2>4. QED  BY <2>2, <2>3
<1>6. ASSUME NEW k \in 1 .. m + n, x[k] # "0" PROVE k \in 1 .. m + l
  <2> SUFFICES ASSUME k \notin 1 .. m + l PROVE FALSE
    OBVIOUS
  <2>1. k - m \in l + 1 .. n /\ k - m \in 1 .. n /\ m + (k - m) = k
    BY <1>4
  <2>2. x[k] = b[k - m] /\ b[k - m] = "0"
    BY <1>4, <2>1 DEF n
  <2>3. QED  BY <1>6, <2>2
<1>7. \A k \in 1 .. Len(x) : x[k] # "0" => k + c \in 1 .. Len(y) /\ y[k + c] = x[k]
  BY <1>4, <1>5, <1>6
<1>8. \A k \in 1 .. Len(y) : y[k] # "0" => k - c \in 1 .. Len(x) /\ x[k - c] = y[k]
  BY <1>4, <1>5
<1>9. c \in Int /\ m \in Int /\ m + c = m
  BY <1>4
<1> HIDE DEF c
<1>10. Ones(y, m + c) = Ones(x, m)
  BY <1>2, <1>3, <1>7, <1>8, <1>9, ShiftedOnes, ZenonT(30)
<1>11. QED  BY <1>9, <1>10 DEF x, y, m

-----------------------------------------------------------------------------
(* The canonical form of a number.                                         *)

\* Digits behind the point end with one that counts.
EndsWell(b) == b # << >> => b[Len(b)] # "0"

LEMMA TrimmedDigits ==
    ASSUME NEW a \in Seq(Digits), NEW b \in Seq(Digits)
    PROVE  \E c \in Seq(Digits) :
              /\ TrimFraction(Spelled(FALSE, a, b)) = Spelled(FALSE, a, c)
              /\ EndsWell(c)
              /\ Ones(a \o c, Len(a)) = Ones(a \o b, Len(a))
<1>1. CASE b = << >>
  <2>1. Spelled(FALSE, a, b) = a
    BY <1>1, Bare
  <2>2. Where(a, {"."}) = {}
    <3>1. DOMAIN a = 1 .. Len(a) /\ \A k \in 1 .. Len(a) : a[k] \in Digits
      BY LenProperties, ElementOfSeq
    <3>2. QED  BY <3>1, NumberCharacters DEF Where
  <2>3. TrimFraction(a) = a
    BY <2>2 DEF TrimFraction
  <2>4. QED  BY <1>1, <2>1, <2>3 DEF EndsWell
<1>2. CASE b # << >>
  <2>1. PICK l \in 0 .. Len(b) :
           /\ TrimFraction(Spelled(FALSE, a, b)) = Spelled(FALSE, a, SubSeq(b, 1, l))
           /\ \A k \in l + 1 .. Len(b) : b[k] = "0"
           /\ l > 0 => b[l] # "0"
    BY <1>2, TrimmedFraction
  <2> DEFINE c == SubSeq(b, 1, l)
  <2>2. c \in Seq(Digits) /\ Len(c) = l /\ \A k \in 1 .. l : c[k] = b[k]
    BY Prefix
  <2>3. Ones(a \o c, Len(a)) = Ones(a \o b, Len(a))
    BY <2>1, CutOnes
  <2> HIDE DEF c
  <2>4. EndsWell(c)
    <3> SUFFICES ASSUME c # << >> PROVE c[Len(c)] # "0"
      BY DEF EndsWell
    <3>1. l # 0
      BY <2>2, EmptySeq
    <3>2. l > 0 /\ l \in 1 .. l
      BY <3>1
    <3>3. QED  BY <2>1, <2>2, <3>2
  <2>5. TrimFraction(Spelled(FALSE, a, b)) = Spelled(FALSE, a, c)
    BY <2>1 DEF c
  <2>6. QED  BY <2>2, <2>3, <2>4, <2>5
<1>3. QED  BY <1>1, <1>2

\* A form of digits a before and b behind the point that says what cs says.
FormOf(cs, negative, a, b) ==
    LET parts == Parts(cs)
        ones  == Ones(parts.whole \o parts.part, Len(parts.whole) + SmallInt(parts.exponent))
    IN  /\ LeadsWell(a) /\ EndsWell(b)
        /\ Canonical(cs) = Spelled(negative, a, b)
        /\ Ones(a \o b, Len(a)) = ones
        /\ negative = (parts.negative /\ ones # {})
        /\ Canonical(cs) = <<"0">> \/ ones # {}

LEMMA CanonicalIs ==
    ASSUME NEW cs, Parts(cs).whole \in Seq(Digits), Parts(cs).part \in Seq(Digits),
           SmallInt(Parts(cs).exponent) \in Int, Parts(cs).negative \in BOOLEAN
    PROVE  \E negative \in BOOLEAN : \E a, b \in Seq(Digits) : FormOf(cs, negative, a, b)
<1> DEFINE parts == Parts(cs)
           whole == parts.whole
           part == parts.part
           x == SmallInt(parts.exponent)
           d == whole \o part
           g == TrimLeft(d)
           scale == Len(part) - x
           p == Len(whole) + x
           ones == Ones(d, p)
<1>1. Len(whole) \in Nat /\ Len(part) \in Nat /\ d \in Seq(Digits) /\ Len(d) = Len(whole) + Len(part)
  BY ConcatProperties, LenProperties
<1>2. x \in Int /\ scale \in Int /\ p \in Int
  BY <1>1
<1>3. Canonical(cs) = IF g = << >> THEN <<"0">>
                      ELSE Mark(parts.negative) \o TrimFraction(Placing(g, scale))
  BY DEF Canonical, Placing, Mark
<1> HIDE DEF parts, whole, part, x, p, scale, d, g
<1>4. /\ g \in Seq(Digits) /\ Len(g) \in Nat /\ (g # << >> => g[1] # "0")
      /\ Ones(g, p - (Len(d) - Len(g))) = ones
      /\ g = << >> => ones = {}
  BY <1>1, <1>2, TrimmedOnes DEF g
<1>5. p - (Len(d) - Len(g)) = Len(g) - scale
  BY <1>1, <1>2, <1>4 DEF p, scale
<1>6. ones = Ones(parts.whole \o parts.part, Len(parts.whole) + SmallInt(parts.exponent))
  BY DEF d, p, whole, part, x
<1> HIDE DEF ones
<1>7. CASE g = << >>
  <2> DEFINE a == <<"0">>
             b == << >>
  <2>1. a \in Seq(Digits) /\ b \in Seq(Digits) /\ a # << >> /\ LeadsWell(a) /\ EndsWell(b)
    BY NumberCharacters, EmptySeq DEF LeadsWell, EndsWell
  <2>2. Canonical(cs) = a
    BY <1>3, <1>7
  <2>3. Spelled(FALSE, a, b) = a
    BY <2>1, Bare
  <2>4. Ones(a \o b, Len(a)) = {}
    <3>1. a \o b = a
      BY <2>1, ConcatEmptySeq
    <3>2. Where(a, Digits \ {"0"}) = {}
      BY DEF Where
    <3> HIDE DEF a, b
    <3>3. QED  BY <3>1, <3>2 DEF Ones
  <2>5. ones = {}
    BY <1>4, <1>7
  <2> HIDE DEF b
  <2>6. FormOf(cs, FALSE, a, b)
    BY <1>6, <2>1, <2>2, <2>3, <2>4, <2>5 DEF FormOf, parts
  <2>7. QED  BY <2>1, <2>6
<1>8. CASE g # << >>
  <2>1. PICK a \in Seq(Digits), e \in Seq(Digits) :
           /\ LeadsWell(a)
           /\ Placing(g, scale) = Spelled(FALSE, a, e)
           /\ Ones(a \o e, Len(a)) = Ones(g, Len(g) - scale)
    BY <1>2, <1>4, <1>8, PlacedDigits
  <2>2. PICK b \in Seq(Digits) :
           /\ TrimFraction(Spelled(FALSE, a, e)) = Spelled(FALSE, a, b)
           /\ EndsWell(b)
           /\ Ones(a \o b, Len(a)) = Ones(a \o e, Len(a))
    BY TrimmedDigits
  <2>3. Ones(a \o b, Len(a)) = ones
    BY <1>4, <1>5, <2>1, <2>2
  <2>4. Canonical(cs) = Spelled(parts.negative, a, b)
    <3>1. Canonical(cs) = Mark(parts.negative) \o Spelled(FALSE, a, b)
      BY <1>3, <1>8, <2>1, <2>2
    <3>2. a \o Fraction(b) \in Seq(Character)
      <4>1. a \in Seq(Character) /\ Fraction(b) \in Seq(Character)
        BY FractionIs, SeqMonotonic, NumberCharacters
      <4>2. QED  BY <4>1, ConcatProperties
    <3>3. << >> \o (a \o Fraction(b)) = a \o Fraction(b)
      BY <3>2, ConcatEmptySeq
    <3>4. Spelled(FALSE, a, b) = a \o Fraction(b)
      BY <3>3 DEF Spelled, Mark
    <3>5. QED  BY <3>1, <3>4 DEF Spelled
  <2>5. ones # {}
    <3>1. 1 \in 1 .. Len(g)
      BY <1>4, <1>8, EmptySeq
    <3>2. DOMAIN g = 1 .. Len(g) /\ g[1] \in Digits
      BY <1>4, <3>1, LenProperties, ElementOfSeq
    <3>3. 1 \in Where(g, Digits \ {"0"})
      BY <1>4, <1>8, <3>1, <3>2 DEF Where
    <3>4. Ones(g, Len(g) - scale) # {}
      BY <3>3 DEF Ones
    <3>5. QED  BY <1>4, <1>5, <3>4
  <2>6. parts.negative \in BOOLEAN
    BY DEF parts
  <2>7. FormOf(cs, parts.negative, a, b)
    <3>1. parts.negative = (parts.negative /\ ones # {})
      BY <2>5, <2>6
    <3>2. QED  BY <1>6, <2>1, <2>2, <2>3, <2>4, <2>5, <3>1 DEF FormOf, parts
  <2>8. QED  BY <2>6, <2>7
<1>9. QED  BY <1>7, <1>8

\* What NumbersKeepTheirValue says of one number.
KeepsValue(text) ==
    LET form == Canonical(text)
    IN  Representable(text) =>
            /\ NumberValue(form) = NumberValue(text)
            /\ IsPlainNumber(form) /\ (form # <<"0">> => NumberValue(form).ones # {})

LEMMA FormKeepsValue ==
    ASSUME NEW cs, Parts(cs).whole \in Seq(Digits), Parts(cs).part \in Seq(Digits),
           SmallInt(Parts(cs).exponent) \in Int,
           NEW negative \in BOOLEAN, NEW a \in Seq(Digits), NEW b \in Seq(Digits),
           FormOf(cs, negative, a, b)
    PROVE  KeepsValue(cs)
<1> DEFINE t == Spelled(negative, a, b)
           ones == Ones(Parts(cs).whole \o Parts(cs).part,
                        Len(Parts(cs).whole) + SmallInt(Parts(cs).exponent))
<1>1. /\ a # << >> /\ (a = <<"0">> \/ a[1] # "0") /\ EndsWell(b)
      /\ Canonical(cs) = t
      /\ Ones(a \o b, Len(a)) = ones
      /\ negative = (Parts(cs).negative /\ ones # {})
      /\ Canonical(cs) = <<"0">> \/ ones # {}
  BY DEF FormOf, LeadsWell
<1>2. /\ Parts(t).negative = negative /\ Parts(t).whole = a /\ Parts(t).part = b
      /\ Parts(t).exponent = << >>
      /\ IsNumberText(t) /\ ~At(t, 1, {"+"}) /\ Where(t, {"e", "E"}) = {}
      /\ b = << >> => Where(t, {"."}) = {}
      /\ b # << >> => t[Len(t)] = b[Len(b)]
  <2>1. PartsOfSpelled(t, negative, a, b)
    BY <1>1, SpelledParts
  <2> HIDE DEF t
  <2>2. QED  BY <2>1 DEF PartsOfSpelled
<1>3. NumberValue(cs) = [ones |-> ones, negative |-> Parts(cs).negative /\ ones # {}]
  BY ValueIs
<1> HIDE DEF t, ones
<1>4. SmallInt(Parts(t).exponent) = 0
  BY <1>2, NoExponent
<1>5. NumberValue(t) = [ones |-> Ones(a \o b, Len(a) + 0), negative |-> negative /\ Ones(a \o b, Len(a) + 0) # {}]
  <2>1. /\ Parts(t).whole \in Seq(Digits) /\ Parts(t).part \in Seq(Digits)
        /\ SmallInt(Parts(t).exponent) \in Int
    BY <1>2, <1>4
  <2>2. NumberValue(t) =
          LET os == Ones(Parts(t).whole \o Parts(t).part, Len(Parts(t).whole) + SmallInt(Parts(t).exponent))
          IN  [ones |-> os, negative |-> Parts(t).negative /\ os # {}]
    BY <2>1, ValueIs
  <2>3. QED  BY <1>2, <1>4, <2>2
<1>6. Len(a) + 0 = Len(a)
  BY LenProperties
<1>7. NumberValue(t) = NumberValue(cs) /\ NumberValue(t).ones = ones
  <2>1. Ones(a \o b, Len(a) + 0) = ones
    BY <1>1, <1>6
  <2>2. NumberValue(t) = [ones |-> ones, negative |-> negative /\ ones # {}]
    BY <1>5, <2>1
  <2>3. (negative /\ ones # {}) = (Parts(cs).negative /\ ones # {})
    BY <1>1
  <2>4. QED  BY <1>3, <2>2, <2>3
<1>8. IsPlainNumber(t)
  <2>1. ASSUME b # << >> PROVE ~At(t, Len(t), {"0", "."})
    <3>1. Len(b) \in 1 .. Len(b)
      <4>1. Len(b) \in Nat /\ Len(b) # 0
        BY <2>1, LenProperties, EmptySeq
      <4>2. QED  BY <4>1
    <3>2. b[Len(b)] \in Digits /\ b[Len(b)] # "0"
      BY <1>1, <2>1, <3>1, ElementOfSeq DEF EndsWell
    <3>3. t[Len(t)] \notin {"0", "."}
      BY <1>2, <2>1, <3>2, NumberCharacters
    <3>4. QED  BY <3>3 DEF At
  <2>2. Parts(t).whole = <<"0">> \/ (Parts(t).whole # << >> /\ Parts(t).whole[1] # "0")
    BY <1>1, <1>2
  <2>3. QED  BY <1>2, <2>1, <2>2 DEF IsPlainNumber
<1>9. QED  BY <1>1, <1>7, <1>8 DEF KeepsValue

LEMMA NumberHasForm ==
    ASSUME NEW cs \in Seq(Character),
           NEW d, NEW i, NEW f, NEW e, NumberAt(cs, 1, d, i, f, e, Len(cs) + 1),
           Representable(cs)
    PROVE  /\ Parts(cs).whole \in Seq(Digits) /\ Parts(cs).part \in Seq(Digits)
           /\ SmallInt(Parts(cs).exponent) \in Int
           /\ Parts(cs).negative = At(cs, 1, {"-"})
           /\ \E negative \in BOOLEAN : \E a, b \in Seq(Digits) : FormOf(cs, negative, a, b)
<1>1. Len(cs) \in Nat /\ DOMAIN cs = 1 .. Len(cs)
  BY LenProperties
<1>2. 1 \in 1 .. Len(cs) + 1
  BY <1>1
<1>3. d \in 1 .. 2 /\ i \in d .. f /\ f \in d + 1 .. Len(cs) + 1
  BY <1>1, <1>2, NumberPlaces
<1>4. PartsAre(cs, d, i, f)
  BY NumberParts
<1>5. ASSUME NEW y \in Int, NEW z \in Int, \A r \in y .. z - 1 : cs[r] \in Digits
      PROVE  Run(cs, y, z) \in Seq(Digits)
  <2>1. z - 1 \in Int
    OBVIOUS
  <2>2. QED  BY <1>5, <2>1, SubSeqProperties DEF Run
<1>6. Parts(cs).whole \in Seq(Digits)
  <2>1. \A r \in d .. i - 1 : cs[r] \in Digits
    BY DEF NumberAt, Only
  <2>2. QED  BY <1>3, <1>4, <1>5, <2>1 DEF PartsAre
<1>7. Parts(cs).part \in Seq(Digits)
  <2>1. CASE At(cs, i, {"."})
    <3>1. \A r \in i + 1 .. f - 1 : cs[r] \in Digits
      BY <2>1 DEF NumberAt, Only
    <3>2. i + 1 \in Int /\ f \in Int
      BY <1>3
    <3>3. QED  BY <1>4, <1>5, <2>1, <3>1, <3>2 DEF PartsAre
  <2>2. CASE ~At(cs, i, {"."})
    BY <1>4, <2>2, EmptySeq DEF PartsAre
  <2>3. QED  BY <2>1, <2>2
<1>8. SmallInt(Parts(cs).exponent) \in Int
  BY MaxExponentAssumption DEF Representable
<1>9. Parts(cs).negative \in BOOLEAN
  BY <1>4 DEF PartsAre, At
<1>10. \E negative \in BOOLEAN : \E a, b \in Seq(Digits) : FormOf(cs, negative, a, b)
  BY <1>6, <1>7, <1>8, <1>9, CanonicalIs
<1>11. QED  BY <1>4, <1>6, <1>7, <1>8, <1>10 DEF PartsAre

LEMMA NumberKeepsValue ==
    ASSUME NEW cs \in Seq(Character),
           NEW d, NEW i, NEW f, NEW e, NumberAt(cs, 1, d, i, f, e, Len(cs) + 1),
           Representable(cs)
    PROVE  KeepsValue(cs)
<1>1. /\ Parts(cs).whole \in Seq(Digits) /\ Parts(cs).part \in Seq(Digits)
      /\ SmallInt(Parts(cs).exponent) \in Int
      /\ \E negative \in BOOLEAN : \E a, b \in Seq(Digits) : FormOf(cs, negative, a, b)
  BY NumberHasForm
<1>2. PICK negative \in BOOLEAN, a \in Seq(Digits), b \in Seq(Digits) : FormOf(cs, negative, a, b)
  BY <1>1
<1>3. QED  BY <1>1, <1>2, FormKeepsValue

\* A canonical number is read as a number, and wherever the first one is.
LEMMA CanonicalIsNumber ==
    ASSUME NEW cs \in Seq(Character), NEW signed \in BOOLEAN,
           NEW d, NEW i, NEW f, NEW e, NumberAt(cs, 1, d, i, f, e, Len(cs) + 1),
           StartsNumber(cs, 1, signed), Representable(cs)
    PROVE  /\ Canonical(cs) \in Seq(Character)
           /\ \E d1, i1, f1, e1 : NumberAt(Canonical(cs), 1, d1, i1, f1, e1, Len(Canonical(cs)) + 1)
           /\ StartsNumber(Canonical(cs), 1, signed)
<1> DEFINE t == Canonical(cs)
<1>1. /\ Parts(cs).negative = At(cs, 1, {"-"})
      /\ \E negative \in BOOLEAN : \E a, b \in Seq(Digits) : FormOf(cs, negative, a, b)
  BY NumberHasForm
<1>2. PICK negative \in BOOLEAN, a \in Seq(Digits), b \in Seq(Digits) : FormOf(cs, negative, a, b)
  BY <1>1
<1>3. a # << >> /\ t = Spelled(negative, a, b) /\ (negative => Parts(cs).negative)
  BY <1>2 DEF FormOf, LeadsWell
<1> HIDE DEF t
<1>4. PartsOfSpelled(t, negative, a, b)
  BY <1>3, SpelledParts
<1>5. /\ t \in Seq(Character) /\ (negative \/ At(t, 1, Digits))
      /\ \E d1, i1, f1, e1 : NumberAt(t, 1, d1, i1, f1, e1, Len(t) + 1)
  BY <1>4 DEF PartsOfSpelled
<1>6. StartsNumber(t, 1, signed)
  <2>1. CASE ~negative
    BY <1>5, <2>1 DEF StartsNumber
  <2>2. CASE negative
    <3>1. At(cs, 1, {"-"})
      BY <1>1, <1>3, <2>2
    <3>2. signed = TRUE
      <4>1. ~At(cs, 1, Digits) /\ ~At(cs, 1, {"."})
        BY <3>1, NumberCharacters DEF At
      <4>2. QED  BY <4>1 DEF StartsNumber
    <3>3. PICK d1, i1, f1, e1 : NumberAt(t, 1, d1, i1, f1, e1, Len(t) + 1)
      BY <1>5
    <3>4. 1 \in 1 .. Len(t) + 1
      BY <1>5, LenProperties
    <3>5. StartsNumber(t, 1, TRUE)
      BY <1>5, <3>3, <3>4, NumberReads
    <3>6. QED  BY <3>2, <3>5
  <2>3. QED  BY <2>1, <2>2
<1>7. QED  BY <1>5, <1>6 DEF t

LEMMA DownInduction ==
    ASSUME NEW lo \in Int, NEW hi \in Int, NEW S,
           \A q \in lo .. hi : (\A r \in q + 1 .. hi : r \in S) => q \in S
    PROVE  lo .. hi \subseteq S
<1> DEFINE T == {n \in Nat : n <= hi - lo /\ hi - n \notin S}
<1>1. SUFFICES ASSUME NEW q \in lo .. hi, q \notin S PROVE FALSE
  OBVIOUS
<1>2. hi - q \in T /\ T \subseteq Nat
  <2>1. hi - (hi - q) = q /\ hi - q \in Nat /\ hi - q <= hi - lo
    OBVIOUS
  <2>2. QED  BY <1>1, <2>1
<1>3. PICK n \in T : \A m \in T : n <= m
  <2> HIDE DEF T
  <2>1. QED  BY <1>2, NatLeast
<1>4. n \in Nat /\ n <= hi - lo /\ hi - n \notin S
  BY <1>3
<1>5. ASSUME NEW r \in (hi - n) + 1 .. hi PROVE r \in S
  <2>1. hi - r \in Nat /\ hi - r <= hi - lo /\ hi - (hi - r) = r /\ ~(n <= hi - r)
    BY <1>4
  <2>2. QED  BY <1>3, <2>1
<1>6. hi - n \in lo .. hi
  BY <1>4
<1>7. QED  BY <1>4, <1>5, <1>6

QuotedAt(cs, q) == At(cs, q, {Quote, Escape}) /\ At(cs, q + 1, {Quote})

\* One step of stringToken, at q.
ReadFrom(cs, read, q) ==
    IF q > Len(cs) THEN [value |-> << >>, end |-> 0]
    ELSE IF QuotedAt(cs, q)
    THEN [value |-> <<Quote>> \o read[q + 2].value, end |-> read[q + 2].end]
    ELSE IF cs[q] = Quote THEN [value |-> << >>, end |-> q]
    ELSE [value |-> <<cs[q]>> \o read[q + 1].value, end |-> read[q + 1].end]

Reader(cs, lo, read) == read = [q \in lo .. Len(cs) + 2 |-> ReadFrom(cs, read, q)]

LEMMA ReadFromSame ==
    ASSUME NEW cs \in Seq(Character), NEW q \in Int, NEW g, NEW h,
           \A r \in q + 1 .. Len(cs) + 2 : g[r] = h[r]
    PROVE  ReadFrom(cs, g, q) = ReadFrom(cs, h, q)
<1>1. Len(cs) \in Nat
  BY LenProperties
<1>2. CASE q > Len(cs)
  BY <1>2 DEF ReadFrom
<1>3. CASE ~(q > Len(cs))
  <2>1. q + 1 \in q + 1 .. Len(cs) + 2 /\ q + 2 \in q + 1 .. Len(cs) + 2
    BY <1>1, <1>3
  <2>2. g[q + 1] = h[q + 1] /\ g[q + 2] = h[q + 2]
    BY <2>1
  <2>3. QED  BY <2>2 DEF ReadFrom
<1>4. QED  BY <1>2, <1>3

LEMMA ReaderExists ==
    ASSUME NEW cs \in Seq(Character), NEW lo \in 1 .. Len(cs) + 2
    PROVE  \E read : Reader(cs, lo, read)
<1> DEFINE S == {q \in lo .. Len(cs) + 2 : \E read : Reader(cs, q, read)}
           hi == Len(cs) + 2
<1>1. Len(cs) \in Nat /\ hi \in Int /\ lo \in Int /\ lo \in lo .. hi
  BY LenProperties
<1>2. ASSUME NEW q \in lo .. hi, \A r \in q + 1 .. hi : r \in S
      PROVE  q \in S
  <2>1. CASE q = hi
    <3> DEFINE g == [r \in q .. hi |-> [value |-> << >>, end |-> 0]]
    <3>1. \A r \in q .. hi : ReadFrom(cs, g, r) = [value |-> << >>, end |-> 0]
      <4>1. \A r \in q .. hi : r > Len(cs)
        BY <1>1, <2>1
      <4>2. QED  BY <4>1 DEF ReadFrom
    <3>2. g = [r \in q .. hi |-> ReadFrom(cs, g, r)]
      BY <3>1
    <3>3. Reader(cs, q, g)
      BY <3>2 DEF Reader
    <3>4. QED  BY <3>3
  <2>2. CASE q # hi
    <3>1. q + 1 \in q + 1 .. hi
      BY <1>1, <2>2
    <3>2. PICK g : Reader(cs, q + 1, g)
      BY <1>2, <3>1
    <3> DEFINE h == [r \in q .. hi |-> IF r = q THEN ReadFrom(cs, g, q) ELSE g[r]]
    <3>3. \A r \in q + 1 .. hi : h[r] = g[r]
      OBVIOUS
    <3>4. \A r \in q + 1 .. hi : g[r] = ReadFrom(cs, g, r)
      BY <3>2 DEF Reader
    <3> HIDE DEF h
    <3>5. ASSUME NEW r \in q .. hi PROVE h[r] = ReadFrom(cs, h, r)
      <4>1. \A y \in r + 1 .. Len(cs) + 2 : g[y] = h[y]
        BY <1>1, <3>3
      <4>2. ReadFrom(cs, g, r) = ReadFrom(cs, h, r)
        BY <4>1, ReadFromSame
      <4>3. h[r] = ReadFrom(cs, g, r)
        <5>1. CASE r = q
          BY <5>1 DEF h
        <5>2. CASE r # q
          <6>1. r \in q + 1 .. hi
            BY <5>2
          <6>2. QED  BY <3>3, <3>4, <6>1
        <5>3. QED  BY <5>1, <5>2
      <4>4. QED  BY <4>2, <4>3
    <3>6. h = [r \in q .. hi |-> h[r]]
      BY DEF h
    <3>7. Reader(cs, q, h)
      BY <3>5, <3>6 DEF Reader
    <3>8. QED  BY <3>7
  <2>3. QED  BY <2>1, <2>2
<1>3. lo .. hi \subseteq S
  <2> HIDE DEF S, hi
  <2>1. QED  BY <1>1, <1>2, DownInduction
<1>4. QED  BY <1>1, <1>3

\* stringToken at the quote p.
LEMMA StringRead ==
    ASSUME NEW cs \in Seq(Character), NEW p \in 1 .. Len(cs)
    PROVE  \E read : /\ ReadString(cs, p) = read[p + 1]
                     /\ \A q \in p + 1 .. Len(cs) + 2 : read[q] = ReadFrom(cs, read, q)
<1> DEFINE read == CHOOSE g : Reader(cs, p + 1, g)
<1>1. ReadString(cs, p) = read[p + 1]
  BY DEF ReadString, Reader, ReadFrom, QuotedAt
<1>2. p + 1 \in 1 .. Len(cs) + 2
  BY LenProperties
<1>3. Reader(cs, p + 1, read)
  BY <1>2, ReaderExists
<1> HIDE DEF read
<1>4. \A q \in p + 1 .. Len(cs) + 2 : read[q] = ReadFrom(cs, read, q)
  BY <1>3 DEF Reader
<1>5. QED  BY <1>1, <1>4

\* What it returns: the value and the end of the string.
LEMMA StringTyped ==
    ASSUME NEW cs \in Seq(Character), NEW lo \in 1 .. Len(cs) + 2, NEW read,
           \A q \in lo .. Len(cs) + 2 : read[q] = ReadFrom(cs, read, q)
    PROVE  \A q \in lo .. Len(cs) + 2 :
              read[q].value \in Seq(Character) /\ read[q].end \in {0} \cup q .. Len(cs)
<1> DEFINE hi == Len(cs) + 2
           Typed(q) == read[q].value \in Seq(Character) /\ read[q].end \in {0} \cup q .. Len(cs)
           S == {q \in lo .. hi : Typed(q)}
<1>1. Len(cs) \in Nat /\ hi \in Int /\ lo \in Int /\ DOMAIN cs = 1 .. Len(cs)
  BY LenProperties
<1>2. ASSUME NEW q \in lo .. hi, \A r \in q + 1 .. hi : r \in S
      PROVE  q \in S
  <2>1. read[q] = ReadFrom(cs, read, q) /\ << >> \in Seq(Character) /\ <<Quote>> \in Seq(Character)
    <3>1. Quote \in Character
      BY DEF Character
    <3>2. << >> \in Seq(Character)
      BY EmptySeq
    <3> HIDE DEF Typed
    <3>3. QED  BY <3>1, <3>2
  <2>2. CASE q > Len(cs)
    <3>1. read[q] = [value |-> << >>, end |-> 0]
      BY <2>1, <2>2 DEF ReadFrom
    <3>2. Typed(q)
      BY ONLY <2>1, <3>1 DEF Typed
    <3>3. QED  BY <3>2
  <2>3. CASE ~(q > Len(cs))
    <3>1. q + 1 \in q + 1 .. hi /\ q + 2 \in q + 1 .. hi /\ q \in DOMAIN cs
      BY <1>1, <2>3
    <3>2. Typed(q + 1) /\ Typed(q + 2) /\ cs[q] \in Character
      BY <1>1, <1>2, <3>1, ElementOfSeq
    <3>3. <<cs[q]>> \in Seq(Character)
      BY <3>2
    <3>4. <<Quote>> \o read[q + 2].value \in Seq(Character) /\ <<cs[q]>> \o read[q + 1].value \in Seq(Character)
      BY <2>1, <3>2, <3>3, ConcatProperties
    <3>5. read[q + 1].end \in {0} \cup q .. Len(cs) /\ read[q + 2].end \in {0} \cup q .. Len(cs) /\ q \in q .. Len(cs)
      BY <1>1, <2>3, <3>2
    <3>6. \/ read[q] = [value |-> <<Quote>> \o read[q + 2].value, end |-> read[q + 2].end]
          \/ read[q] = [value |-> << >>, end |-> q]
          \/ read[q] = [value |-> <<cs[q]>> \o read[q + 1].value, end |-> read[q + 1].end]
      BY <2>1, <2>3 DEF ReadFrom
    <3>7. Typed(q)
      <4>1. CASE read[q] = [value |-> <<Quote>> \o read[q + 2].value, end |-> read[q + 2].end]
        <5>1. read[q].value = <<Quote>> \o read[q + 2].value /\ read[q].end = read[q + 2].end
          BY <4>1
        <5>2. QED  BY ONLY <3>4, <3>5, <5>1
      <4>2. CASE read[q] = [value |-> << >>, end |-> q]
        <5>1. read[q].value = << >> /\ read[q].end = q
          BY <4>2
        <5>2. QED  BY ONLY <2>1, <3>5, <5>1
      <4>3. CASE read[q] = [value |-> <<cs[q]>> \o read[q + 1].value, end |-> read[q + 1].end]
        <5>1. read[q].value = <<cs[q]>> \o read[q + 1].value /\ read[q].end = read[q + 1].end
          BY <4>3
        <5>2. QED  BY ONLY <3>4, <3>5, <5>1
      <4>4. QED  BY <3>6, <4>1, <4>2, <4>3
    <3>8. QED  BY <3>7
  <2>4. QED  BY <2>2, <2>3
<1>3. lo .. hi \subseteq S
  <2> HIDE DEF S, hi
  <2>1. QED  BY <1>1, <1>2, DownInduction
<1>4. QED  BY <1>3

-----------------------------------------------------------------------------
(* One token.                                                              *)

Kinds == {"LParen", "RParen", "Comma", "String", "QuotedIdentifier", "Number", "Keyword",
          "Identifier", "Operator"}

TokenSet == [kind : Kinds, text : Seq(Character), first : Nat, last : Nat]

IsName(text) ==
    /\ text # << >> /\ text[1] \in Letters
    /\ \A k \in DOMAIN text : text[k] \in IdentifierPart

\* canStartSignedNumber, of the kind of the token before.
SignAfter(previous) == previous \in {"none", "Operator", "LParen", "Comma", "Keyword"}

IsNumber(text, signed) ==
    /\ \E d, i, f, e : NumberAt(text, 1, d, i, f, e, Len(text) + 1)
    /\ StartsNumber(text, 1, signed)

\* What the text of a token is made of, after a token of the kind previous.
WellFormed(kind, text, previous) ==
    /\ kind = "LParen" => text = <<"(">>
    /\ kind = "RParen" => text = <<")">>
    /\ kind = "Comma" => text = <<",">>
    /\ kind = "QuotedIdentifier" => IsName(text)
    /\ kind = "Identifier" => IsName(text) /\ Upper(text) \notin Keywords
    /\ kind = "Keyword" => text \in Keywords
    /\ kind = "Number" => IsNumber(text, SignAfter(previous))
    /\ kind = "Operator" =>
          (Len(text) = 1 /\ text[1] \in OperatorChars) \/ text \in LongOperators

\* A number as it stands in the text.
Stands(kind, text, first, next) ==
    kind = "Number" =>
        /\ text = SubSeq(chars, first, next - 1)
        /\ \E d, i, f, e : NumberAt(chars, first, d, i, f, e, next)

\* A token the lexer reads from Start to before next.
Reads(kind, text, next) ==
    /\ kind \in Kinds /\ text \in Seq(Character)
    /\ next \in Start + 1 .. Len(chars) + 1
    /\ WellFormed(kind, text, Previous)
    /\ Stands(kind, text, Start, next)

LEMMA StartsWith ==
    ASSUME NEW cs, NEW p, NEW signed, StartsNumber(cs, p, signed)
    PROVE  p \in DOMAIN cs /\ cs[p] \in Digits \cup Signs \cup {"."}
BY DEF StartsNumber, At

\* The character decides what is read.
LEMMA BeginsIs ==
    ASSUME Start \in DOMAIN chars
    PROVE  /\ Begins = "LParen" <=> chars[Start] = "("
           /\ Begins = "RParen" <=> chars[Start] = ")"
           /\ Begins = "Comma" <=> chars[Start] = ","
           /\ Begins = "String" <=> chars[Start] = Quote
           /\ Begins = "QuotedIdentifier" <=> chars[Start] = Double
           /\ Begins = "Number" <=> StartsNumber(chars, Start, SignStartsNumber)
           /\ Begins = "Word" <=> chars[Start] \in Letters
           /\ Begins = "Operator" <=> chars[Start] \in OperatorChars
                                      /\ ~StartsNumber(chars, Start, SignStartsNumber)
<1> DEFINE c == chars[Start]
           number == StartsNumber(chars, Start, SignStartsNumber)
<1>1. number => c \in Digits \cup Signs \cup {"."}
  BY StartsWith
<1>2. Begins = CASE c = "(" -> "LParen"
          [] c = ")" -> "RParen"
          [] c = "," -> "Comma"
          [] c = Quote  -> "String"
          [] c = Double -> "QuotedIdentifier"
          [] number -> "Number"
          [] c \in Letters -> "Word"
          [] c \in OperatorChars /\ ~number -> "Operator"
          [] OTHER -> "nothing"
  BY DEF Begins
<1> HIDE DEF c, number
<1>3. number \in BOOLEAN
  BY DEF number, StartsNumber, At
<1>4. QED
  BY <1>1, <1>2, <1>3 DEF Quote, Double, Digits, Signs, Letters, OperatorChars, c, number

LEMMA StartFound ==
    ASSUME chars \in Seq(Character), at \in 1 .. Len(chars) + 1
    PROVE  /\ Start \in at .. Len(chars) + 1 /\ Start \in 1 .. Len(chars) + 1
           /\ \A r \in at .. Start - 1 : chars[r] = Space
           /\ More => Start \in 1 .. Len(chars) /\ Start \in DOMAIN chars
           /\ Len(chars) \in Nat
<1>1. Len(chars) \in Nat /\ DOMAIN chars = 1 .. Len(chars)
  BY LenProperties
<1>2. /\ Start \in at .. Len(chars) + 1
      /\ \A r \in at .. Start - 1 : chars[r] \in {Space}
  BY RunEndFound DEF Start
<1>3. Start \in 1 .. Len(chars) + 1
  BY <1>1, <1>2
<1>4. More => Start \in 1 .. Len(chars)
  BY <1>1, <1>3 DEF More
<1>5. QED  BY <1>1, <1>2, <1>3, <1>4

LEMMA NamePiece ==
    ASSUME NEW cs \in Seq(Character), NEW a \in 1 .. Len(cs), NEW b \in a .. Len(cs) + 1,
           At(cs, a, Letters), b = RunEnd(cs, a, IdentifierPart)
    PROVE  /\ b \in a + 1 .. Len(cs) + 1
           /\ Run(cs, a, b) \in Seq(Character) /\ IsName(Run(cs, a, b))
<1>1. Len(cs) \in Nat /\ DOMAIN cs = 1 .. Len(cs) /\ a \in 1 .. Len(cs) + 1
  BY LenProperties
<1>2. (\A r \in a .. b - 1 : cs[r] \in IdentifierPart) /\ ~At(cs, b, IdentifierPart)
  BY <1>1, RunEndFound
<1>3. At(cs, a, IdentifierPart)
  BY DEF At, IdentifierPart
<1>4. b \in a + 1 .. Len(cs) + 1
  BY <1>1, <1>2, <1>3
<1>5. b - 1 \in a .. Len(cs)
  BY <1>1, <1>4
<1>6. PieceOf(cs, a, b - 1, Run(cs, a, b))
  BY <1>5, PieceOfText DEF Run
<1>7. IsName(Run(cs, a, b))
  <2> DEFINE t == Run(cs, a, b)
  <2>1. /\ t \in Seq(Character) /\ Len(t) = b - 1 - a + 1 /\ DOMAIN t = 1 .. b - 1 - a + 1
        /\ \A k \in 1 .. b - 1 - a + 1 : t[k] = cs[a + k - 1]
    BY <1>6 DEF PieceOf
  <2>2. 1 \in 1 .. b - 1 - a + 1 /\ a + 1 - 1 = a
    BY <1>1, <1>4
  <2>3. \A k \in 1 .. b - 1 - a + 1 : a + k - 1 \in a .. b - 1
    BY <1>1, <1>4
  <2> HIDE DEF t
  <2>4. t # << >> /\ t[1] = cs[a]
    BY <2>1, <2>2
  <2>5. \A k \in DOMAIN t : t[k] \in IdentifierPart
    BY <1>2, <2>1, <2>3
  <2>6. IsName(t)
    BY <2>4, <2>5 DEF IsName, At
  <2>7. QED  BY <2>6 DEF t
<1>8. QED  BY <1>4, <1>6, <1>7 DEF PieceOf

\* A number, moved into a text of its own.
LEMMA NumberPieceIs ==
    ASSUME NEW cs \in Seq(Character), NEW s \in 1 .. Len(cs) + 1, NEW signed,
           NEW d, NEW i, NEW f, NEW e, NEW q, NumberAt(cs, s, d, i, f, e, q),
           StartsNumber(cs, s, signed)
    PROVE  SubSeq(cs, s, q - 1) \in Seq(Character) /\ IsNumber(SubSeq(cs, s, q - 1), signed)
<1> DEFINE t == SubSeq(cs, s, q - 1)
<1>1. /\ q \in s + 1 .. Len(cs) + 1 /\ s \in 1 .. Len(cs) /\ Len(cs) \in Nat
  BY NumberPlaces
<1>2. q - 1 \in s .. Len(cs)
  BY <1>1
<1>3. PieceOf(cs, s, q - 1, t)
  BY <1>2, <1>1, PieceOfText
<1> HIDE DEF t
<1>4. /\ t \in Seq(Character) /\ Len(t) = q - s /\ DOMAIN t = 1 .. q - s
      /\ \A r \in 0 .. q - s - 1 : t[1 + r] = cs[s + r]
  <2>1. /\ t \in Seq(Character) /\ Len(t) = q - 1 - s + 1 /\ DOMAIN t = 1 .. q - 1 - s + 1
        /\ \A k \in 1 .. q - 1 - s + 1 : t[k] = cs[s + k - 1]
    BY <1>3 DEF PieceOf
  <2>2. q - 1 - s + 1 = q - s
    BY <1>1
  <2>3. ASSUME NEW r \in 0 .. q - s - 1 PROVE t[1 + r] = cs[s + r]
    <3>1. 1 + r \in 1 .. q - s /\ s + (1 + r) - 1 = s + r
      BY <1>1
    <3>2. QED  BY <2>1, <2>2, <3>1
  <2>4. QED  BY <2>1, <2>2, <2>3
<1>5. ~At(t, 1 + (q - s), Digits \cup Signs \cup {".", "e", "E"})
  BY <1>1, <1>4 DEF At
<1>6. 1 \in 1 .. Len(t) + 1 /\ 1 + (q - s) <= Len(t) + 1 /\ 1 + (q - s) = Len(t) + 1
  BY <1>1, <1>4
<1>7. \E d1, i1, f1, e1 : NumberAt(t, 1, d1, i1, f1, e1, Len(t) + 1)
  <2>1. \E d1, i1, f1, e1 : NumberAt(t, 1, d1, i1, f1, e1, 1 + (q - s))
    BY <1>4, <1>5, <1>6, NumberMoves
  <2>2. QED  BY <1>6, <2>1
<1>8. StartsNumber(t, 1, TRUE)
  BY <1>4, <1>6, <1>7, NumberReads
<1>9. At(t, 1, Signs) <=> At(cs, s, Signs)
  <2>1. 0 \in 0 .. q - s - 1 /\ 1 + 0 = 1 /\ s + 0 = s /\ 1 \in 1 .. q - s /\ s \in DOMAIN cs
    BY <1>1, LenProperties
  <2>2. t[1] = cs[s]
    BY <1>4, <2>1
  <2>3. QED  BY <1>4, <2>1, <2>2 DEF At
<1>10. StartsNumber(t, 1, signed)
  <2>1. CASE At(cs, s, Signs)
    <3>1. ~At(cs, s, Digits) /\ ~At(cs, s, {"."})
      BY <2>1 DEF At, Signs, Digits
    <3>2. signed
      BY <3>1 DEF StartsNumber
    <3>3. QED  BY <1>8, <3>2 DEF StartsNumber
  <2>2. CASE ~At(cs, s, Signs)
    BY <1>8, <1>9, <2>2 DEF StartsNumber
  <2>3. QED  BY <2>1, <2>2
<1>11. IsNumber(t, signed)
  BY <1>7, <1>10 DEF IsNumber
<1>12. QED  BY <1>4, <1>11 DEF t

LEMMA PairIs ==
    ASSUME NEW t \in Seq(Character), Len(t) = 2
    PROVE  t = <<t[1], t[2]>>
<1>1. t[1] \in Character /\ t[2] \in Character
  <2>1. 1 \in 1 .. Len(t) /\ 2 \in 1 .. Len(t)
    OBVIOUS
  <2>2. QED  BY <2>1, ElementOfSeq
<1>2. <<t[1], t[2]>> \in Seq(Character) /\ Len(<<t[1], t[2]>>) = 2
  BY <1>1
<1>3. \A k \in 1 .. 2 : t[k] = <<t[1], t[2]>>[k]
  OBVIOUS
<1>4. QED  BY <1>2, <1>3, SeqEqual

\* Every step of the lexer reads one token, gives up or ends.
LEMMA StepReads ==
    ASSUME chars \in Seq(Character), at \in 1 .. Len(chars) + 1, Lex
    PROVE  \/ More /\ \E kind, text, next : Reads(kind, text, next) /\ Emit(kind, text, next)
           \/ More /\ Fail
           \/ EndOfText
<1>1. /\ Start \in 1 .. Len(chars) + 1 /\ Len(chars) \in Nat /\ DOMAIN chars = 1 .. Len(chars)
      /\ More => Start \in DOMAIN chars
  BY StartFound, LenProperties
<1>2. CASE Punctuation
  <2>1. More /\ Begins \in {"LParen", "RParen", "Comma"} /\ Emit(Begins, <<chars[Start]>>, Start + 1)
    BY <1>2 DEF Punctuation
  <2>2. Start \in DOMAIN chars /\ chars[Start] \in Character
    BY <1>1, <2>1, ElementOfSeq
  <2>3. <<chars[Start]>> \in Seq(Character)
    BY <2>2
  <2>4. WellFormed(Begins, <<chars[Start]>>, Previous)
    BY <2>1, <2>2, BeginsIs DEF WellFormed
  <2>5. Start + 1 \in Start + 1 .. Len(chars) + 1
    BY <1>1, <2>2
  <2>6. Reads(Begins, <<chars[Start]>>, Start + 1)
    BY <2>1, <2>3, <2>4, <2>5 DEF Reads, Kinds, Stands
  <2>7. QED  BY <2>1, <2>6
<1>3. CASE String
  <2> DEFINE string == ReadString(chars, Start)
  <2>1. More /\ IF string.end = 0 THEN Fail ELSE Emit("String", string.value, string.end + 1)
    BY <1>3 DEF String
  <2>2. Start \in 1 .. Len(chars)
    BY <1>1, <2>1
  <2>3. PICK read : string = read[Start + 1]
                    /\ \A q \in Start + 1 .. Len(chars) + 2 : read[q] = ReadFrom(chars, read, q)
    BY <2>2, StringRead
  <2>4. Start + 1 \in 1 .. Len(chars) + 2 /\ Start + 1 \in Start + 1 .. Len(chars) + 2
    BY <1>1, <2>2
  <2>5. string.value \in Seq(Character) /\ string.end \in {0} \cup Start + 1 .. Len(chars)
    BY <2>3, <2>4, StringTyped
  <2> HIDE DEF string
  <2>6. CASE string.end = 0
    BY <2>1, <2>6
  <2>7. CASE string.end # 0
    <3>1. string.end + 1 \in Start + 1 .. Len(chars) + 1
      BY <1>1, <2>5, <2>7
    <3>2. Reads("String", string.value, string.end + 1)
      BY <2>5, <3>1 DEF Reads, WellFormed, Kinds, Stands
    <3>3. QED  BY <2>1, <2>7, <3>2
  <2>8. QED  BY <2>6, <2>7
<1>4. CASE QuotedIdentifier
  <2> DEFINE end == QuotedEnd(chars, Start)
  <2>1. More /\ IF end = 0 THEN Fail
                ELSE Emit("QuotedIdentifier", Run(chars, Start + 1, end), end + 1)
    BY <1>4 DEF QuotedIdentifier
  <2>2. CASE end = 0
    BY <2>1, <2>2
  <2>3. CASE end # 0
    <3>1. /\ end = RunEnd(chars, Start + 1, IdentifierPart)
          /\ At(chars, Start + 1, Letters) /\ At(chars, end, {Double})
      BY <2>3 DEF QuotedEnd
    <3> HIDE DEF end
    <3>2. Start + 1 \in 1 .. Len(chars) /\ Start + 1 \in 1 .. Len(chars) + 1 /\ end \in 1 .. Len(chars)
      BY <1>1, <3>1 DEF At
    <3>3. end \in Start + 1 .. Len(chars) + 1
      BY <3>1, <3>2, RunEndFound
    <3>4. Run(chars, Start + 1, end) \in Seq(Character) /\ IsName(Run(chars, Start + 1, end))
      BY <3>1, <3>2, <3>3, NamePiece
    <3>5. end + 1 \in Start + 1 .. Len(chars) + 1
      BY <1>1, <3>2, <3>3
    <3>6. Reads("QuotedIdentifier", Run(chars, Start + 1, end), end + 1)
      BY <3>4, <3>5 DEF Reads, WellFormed, Kinds, Stands
    <3>7. QED  BY <2>1, <2>3, <3>6
  <2>4. QED  BY <2>2, <2>3
<1>5. CASE Number
  <2> DEFINE end == NumberEnd(chars, Start)
  <2>1. More /\ Begins = "Number" /\ IF end = 0 THEN Fail ELSE Emit("Number", Run(chars, Start, end), end)
    BY <1>5 DEF Number
  <2>2. CASE end = 0
    BY <2>1, <2>2
  <2>3. CASE end # 0
    <3>1. Start \in DOMAIN chars
      BY <1>1, <2>1
    <3>2. StartsNumber(chars, Start, SignStartsNumber)
      BY <2>1, <3>1, BeginsIs
    <3>3. StartsNumber(chars, Start, TRUE)
      BY <3>2 DEF StartsNumber
    <3>4. PICK d, i, f, e : NumberAt(chars, Start, d, i, f, e, end)
      BY <1>1, <2>3, <3>3, NumberFound
    <3> HIDE DEF end
    <3>5. end \in Start + 1 .. Len(chars) + 1
      BY <1>1, <3>4, NumberPlaces
    <3>6. /\ SubSeq(chars, Start, end - 1) \in Seq(Character)
          /\ IsNumber(SubSeq(chars, Start, end - 1), SignStartsNumber)
      BY <1>1, <3>2, <3>4, NumberPieceIs
    <3>7. SignStartsNumber = SignAfter(Previous)
      BY DEF SignStartsNumber, SignAfter
    <3>8. Stands("Number", Run(chars, Start, end), Start, end)
      BY <3>4 DEF Stands, Run
    <3>9. Reads("Number", Run(chars, Start, end), end)
      BY <3>5, <3>6, <3>7, <3>8 DEF Reads, WellFormed, Kinds, Run
    <3>10. QED  BY <2>1, <2>3, <3>9
  <2>4. QED  BY <2>2, <2>3
<1>6. CASE Word
  <2> DEFINE end  == RunEnd(chars, Start, IdentifierPart)
             text == Run(chars, Start, end)
  <2>1. More /\ Begins = "Word" /\ IF Upper(text) \in Keywords THEN Emit("Keyword", Upper(text), end)
                                   ELSE Emit("Identifier", text, end)
    BY <1>6 DEF Word
  <2>2. Start \in DOMAIN chars /\ Start \in 1 .. Len(chars)
    BY <1>1, <2>1
  <2>3. At(chars, Start, Letters)
    BY <2>1, <2>2, BeginsIs DEF At
  <2>4. end \in Start .. Len(chars) + 1
    BY <1>1, RunEndFound
  <2>5. end \in Start + 1 .. Len(chars) + 1 /\ text \in Seq(Character) /\ IsName(text)
    BY <2>2, <2>3, <2>4, NamePiece
  <2> HIDE DEF end, text
  <2>6. CASE Upper(text) \in Keywords
    <3>1. Upper(text) \in Seq(Character)
      <4>1. Upper(text) = <<"I", "N">>
        BY <2>6 DEF Keywords
      <4>2. "I" \in Character /\ "N" \in Character
        BY DEF Character
      <4>3. <<"I", "N">> \in Seq(Character)
        BY <4>2
      <4>4. QED  BY <4>1, <4>3
    <3>2. Reads("Keyword", Upper(text), end)
      BY <2>5, <2>6, <3>1 DEF Reads, WellFormed, Kinds, Stands
    <3>3. QED  BY <2>1, <2>6, <3>2
  <2>7. CASE Upper(text) \notin Keywords
    <3>1. Reads("Identifier", text, end)
      BY <2>5, <2>7 DEF Reads, WellFormed, Kinds, Stands
    <3>2. QED  BY <2>1, <2>7, <3>1
  <2>8. QED  BY <2>6, <2>7
<1>7. CASE Operator
  <2> DEFINE long == \E op \in LongOperators : At(chars, Start, {op[1]}) /\ At(chars, Start + 1, {op[2]})
             end  == IF long THEN Start + 2 ELSE Start + 1
             text == Run(chars, Start, end)
  <2>1. More /\ Begins = "Operator" /\ Emit("Operator", text, end)
    BY <1>7 DEF Operator
  <2>2. Start \in DOMAIN chars /\ Start \in 1 .. Len(chars)
    BY <1>1, <2>1
  <2>3. chars[Start] \in OperatorChars
    BY <2>1, <2>2, BeginsIs
  <2>4. end \in Start + 1 .. Len(chars) + 1
    BY <1>1, <2>2 DEF At
  <2>5. Start \in 1 .. Len(chars) + 1 /\ end \in Start .. Len(chars) + 1
    <3> HIDE DEF end
    <3>1. QED  BY <1>1, <2>4
  <2>6. /\ text \in Seq(Character) /\ Len(text) = end - Start
        /\ \A k \in 1 .. end - Start : text[k] = chars[Start + k - 1]
    BY <2>5, Piece
  <2>7. (Len(text) = 1 /\ text[1] \in OperatorChars) \/ text \in LongOperators
    <3>1. CASE long
      <4>1. PICK op \in LongOperators : At(chars, Start, {op[1]}) /\ At(chars, Start + 1, {op[2]})
        BY <3>1
      <4>2. end = Start + 2
        BY <3>1
      <4> HIDE DEF long, end, text
      <4>3. Len(text) = 2 /\ text[1] = chars[Start] /\ text[2] = chars[Start + 1]
        BY <1>1, <2>6, <4>2
      <4>4. text[1] = op[1] /\ text[2] = op[2]
        BY <4>1, <4>3 DEF At
      <4>5. text = <<op[1], op[2]>>
        BY <2>6, <4>3, <4>4, PairIs
      <4>6. op = <<op[1], op[2]>>
        BY <4>1 DEF LongOperators
      <4>7. QED  BY <4>1, <4>5, <4>6
    <3>2. CASE ~long
      <4>1. end = Start + 1
        BY <3>2
      <4> HIDE DEF long, end, text
      <4>2. Len(text) = 1 /\ text[1] = chars[Start]
        BY <1>1, <2>6, <4>1
      <4>3. QED  BY <2>3, <4>2
    <3>3. QED  BY <3>1, <3>2
  <2> HIDE DEF long, end, text
  <2>8. Reads("Operator", text, end)
    BY <2>4, <2>6, <2>7 DEF Reads, WellFormed, Kinds, Stands
  <2>9. QED  BY <2>1, <2>8
<1>8. CASE UnexpectedCharacter
  BY <1>8 DEF UnexpectedCharacter
<1>9. CASE EndOfText
  BY <1>9
<1>10. QED
  BY <1>2, <1>3, <1>4, <1>5, <1>6, <1>7, <1>8, <1>9 DEF Lex

-----------------------------------------------------------------------------
(* Texts that are put together.                                            *)

\* Induction upwards from the beginning of an interval.
LEMMA UpInduction ==
    ASSUME NEW lo \in Int, NEW hi \in Int, NEW S,
           \A q \in lo .. hi : (\A r \in lo .. q - 1 : r \in S) => q \in S
    PROVE  lo .. hi \subseteq S
<1> DEFINE T == {n \in Nat : n <= hi - lo /\ lo + n \notin S}
<1>1. SUFFICES ASSUME NEW q \in lo .. hi, q \notin S PROVE FALSE
  OBVIOUS
<1>2. q - lo \in T /\ T \subseteq Nat
  <2>1. lo + (q - lo) = q /\ q - lo \in Nat /\ q - lo <= hi - lo
    OBVIOUS
  <2>2. QED  BY <1>1, <2>1
<1>3. PICK n \in T : \A m \in T : n <= m
  <2> HIDE DEF T
  <2>1. QED  BY <1>2, NatLeast
<1>4. n \in Nat /\ n <= hi - lo /\ lo + n \notin S
  BY <1>3
<1>5. ASSUME NEW r \in lo .. (lo + n) - 1 PROVE r \in S
  <2>1. r - lo \in Nat /\ r - lo <= hi - lo /\ lo + (r - lo) = r /\ ~(n <= r - lo)
    BY <1>4
  <2>2. QED  BY <1>3, <2>1
<1>6. lo + n \in lo .. hi
  BY <1>4
<1>7. QED  BY <1>4, <1>5, <1>6

\* The pieces one after the other: g[k] are the first k of them.
Joins(pieces, g) ==
    /\ g[0] = << >>
    /\ \A k \in 1 .. Len(pieces) : g[k] = g[k - 1] \o pieces[k]

\* Where the k-th piece is among the first m.
PieceIn(pieces, g, m, k) ==
    /\ Len(g[k]) = Len(g[k - 1]) + Len(pieces[k]) /\ Len(g[k]) <= Len(g[m])
    /\ Len(g[k - 1]) \in Nat /\ pieces[k] \in Seq(Character) /\ Len(pieces[k]) \in Nat
    /\ \A j \in 1 .. Len(pieces[k]) : g[m][Len(g[k - 1]) + j] = pieces[k][j]

JoinedTo(pieces, g, m) ==
    /\ g[m] \in Seq(Character) /\ Len(g[m]) \in Nat
    /\ \A k \in 1 .. m : PieceIn(pieces, g, m, k)

LEMMA Sums ==
    \A a, b \in Nat : \A j \in 1 .. b :
        a + j \in 1 .. a + b /\ ~(a + j <= a) /\ (a + j) - a = j
OBVIOUS

LEMMA SumIsNat ==
    \A a, b \in Nat : a + b \in Nat
OBVIOUS

LEMMA JoinedAt ==
    ASSUME NEW pieces \in Seq(Seq(Character)), NEW g, Joins(pieces, g)
    PROVE  \A m \in 0 .. Len(pieces) : JoinedTo(pieces, g, m)
<1> DEFINE n == Len(pieces)
           lo == 0
           S == {m \in lo .. n : JoinedTo(pieces, g, m)}
<1>1. n \in Nat /\ lo = 0 /\ lo \in Int /\ n \in Int
  BY LenProperties
<1>2. ASSUME NEW m \in lo .. n, \A r \in lo .. m - 1 : r \in S
      PROVE  m \in S
  <2>1. CASE m = 0
    <3>1. g[0] = << >> /\ << >> \in Seq(Character) /\ Len(<< >>) = 0
      BY EmptySeq DEF Joins
    <3>2. \A k \in 1 .. m : FALSE
      BY <2>1
    <3>3. JoinedTo(pieces, g, m)
      BY <2>1, <3>1, <3>2 DEF JoinedTo
    <3>4. QED  BY <3>3
  <2>2. CASE m # 0
    <3>1. m - 1 \in lo .. m - 1 /\ m \in 1 .. n /\ m - 1 \in Nat /\ m \in Nat
      BY <1>1, <2>2
    <3>2. JoinedTo(pieces, g, m - 1)
      BY <1>2, <3>1
    <3>3. g[m] = g[m - 1] \o pieces[m] /\ pieces[m] \in Seq(Character)
      BY <3>1, ElementOfSeq DEF Joins
    <3>4. g[m - 1] \in Seq(Character) /\ Len(g[m - 1]) \in Nat /\ Len(pieces[m]) \in Nat
      BY <3>2, <3>3, LenProperties DEF JoinedTo
    <3>5. /\ g[m] \in Seq(Character) /\ Len(g[m]) = Len(g[m - 1]) + Len(pieces[m])
          /\ \A i \in 1 .. Len(g[m - 1]) + Len(pieces[m]) :
                g[m][i] = IF i <= Len(g[m - 1]) THEN g[m - 1][i] ELSE pieces[m][i - Len(g[m - 1])]
      <4>1. /\ g[m - 1] \o pieces[m] \in Seq(Character)
            /\ Len(g[m - 1] \o pieces[m]) = Len(g[m - 1]) + Len(pieces[m])
            /\ \A i \in 1 .. Len(g[m - 1]) + Len(pieces[m]) :
                  (g[m - 1] \o pieces[m])[i] =
                     IF i <= Len(g[m - 1]) THEN g[m - 1][i] ELSE pieces[m][i - Len(g[m - 1])]
        BY <3>3, <3>4, ConcatProperties
      <4>2. QED  BY <3>3, <4>1
    <3> HIDE DEF S, n, lo
    <3>6. ASSUME NEW k \in 1 .. m PROVE PieceIn(pieces, g, m, k)
      <4>1. CASE k = m
        <5>1. ASSUME NEW j \in 1 .. Len(pieces[m])
              PROVE  g[m][Len(g[m - 1]) + j] = pieces[m][j]
          <6>1. /\ Len(g[m - 1]) + j \in 1 .. Len(g[m - 1]) + Len(pieces[m])
                /\ ~(Len(g[m - 1]) + j <= Len(g[m - 1])) /\ (Len(g[m - 1]) + j) - Len(g[m - 1]) = j
            BY <3>4, Sums
          <6>2. QED  BY <3>5, <6>1
        <5>2. Len(g[m]) <= Len(g[m])
          BY <3>4, <3>5
        <5>3. QED  BY <3>3, <3>4, <3>5, <4>1, <5>1, <5>2 DEF PieceIn
      <4>2. CASE k # m
        <5>1. k \in 1 .. m - 1
          BY <3>1, <4>2
        <5>2. PieceIn(pieces, g, m - 1, k)
          BY <3>2, <5>1 DEF JoinedTo
        <5>3. /\ Len(g[k]) = Len(g[k - 1]) + Len(pieces[k]) /\ Len(g[k]) <= Len(g[m - 1])
              /\ Len(g[k - 1]) \in Nat /\ Len(pieces[k]) \in Nat
              /\ \A j \in 1 .. Len(pieces[k]) : g[m - 1][Len(g[k - 1]) + j] = pieces[k][j]
          BY <5>2 DEF PieceIn
        <5>4. ASSUME NEW j \in 1 .. Len(pieces[k])
              PROVE  g[m][Len(g[k - 1]) + j] = pieces[k][j]
          <6>1. Len(g[k - 1]) + j \in 1 .. Len(g[k])
            BY <5>3, Sums
          <6>2. \A a, b, c \in Nat : b <= a => \A i \in 1 .. b : i \in 1 .. a + c /\ i <= a
            OBVIOUS
          <6>3. Len(g[k]) \in Nat
            BY <5>3, SumIsNat
          <6>4. /\ Len(g[k - 1]) + j \in 1 .. Len(g[m - 1]) + Len(pieces[m])
                /\ Len(g[k - 1]) + j <= Len(g[m - 1])
            BY <3>4, <5>3, <6>1, <6>2, <6>3
          <6>5. QED  BY <3>5, <5>3, <6>4
        <5>5. Len(g[k]) <= Len(g[m])
          <6>1. Len(g[k]) \in Nat
            BY <5>3, SumIsNat
          <6>2. \A a, b, c \in Nat : b <= a => b <= a + c
            OBVIOUS
          <6>3. QED  BY <3>4, <3>5, <5>3, <6>1, <6>2
        <5>6. QED  BY <5>2, <5>4, <5>5 DEF PieceIn
      <4>3. QED  BY <4>1, <4>2
    <3>7. JoinedTo(pieces, g, m)
      <4>1. Len(g[m]) \in Nat
        BY <3>4, <3>5, SumIsNat
      <4>2. QED  BY <3>5, <3>6, <4>1 DEF JoinedTo
    <3>8. QED  BY <3>7 DEF S
  <2>3. QED  BY <2>1, <2>2
<1>3. lo .. n \subseteq S
  <2> HIDE DEF S, n, lo
  <2>1. QED  BY <1>1, <1>2, UpInduction
<1>4. QED  BY <1>3

FlatTo(pieces, m, g) ==
    g = [i \in 1 .. m |-> IF i = 1 THEN pieces[i] ELSE g[i - 1] \o pieces[i]]

LEMMA FlatExists ==
    ASSUME NEW pieces, NEW n \in Nat, NEW m \in 1 .. n
    PROVE  \E g : FlatTo(pieces, m, g)
<1> DEFINE lo == 1
           S == {q \in lo .. n : \E g : FlatTo(pieces, q, g)}
<1>1. ASSUME NEW q \in lo .. n, \A r \in lo .. q - 1 : r \in S
      PROVE  q \in S
  <2>1. CASE q = 1
    <3>1. FlatTo(pieces, 1, [i \in 1 .. 1 |-> pieces[1]])
      BY DEF FlatTo
    <3>2. QED  BY <2>1, <3>1
  <2>2. CASE q # 1
    <3>1. q - 1 \in lo .. q - 1
      BY <2>2
    <3>2. PICK g : FlatTo(pieces, q - 1, g)
      BY <1>1, <3>1
    <3> DEFINE h == [i \in 1 .. q |-> IF i = q THEN g[q - 1] \o pieces[q] ELSE g[i]]
    <3>9. q \in 1 .. q /\ \A i \in 1 .. q - 1 : i \in 1 .. q /\ i # q
      OBVIOUS
    <3>10. \A i \in 1 .. q - 1 : g[i] = IF i = 1 THEN pieces[i] ELSE g[i - 1] \o pieces[i]
      BY <3>2 DEF FlatTo
    <3>3. \A i \in 1 .. q - 1 : h[i] = g[i] /\ g[i] = IF i = 1 THEN pieces[i] ELSE g[i - 1] \o pieces[i]
      BY <3>9, <3>10
    <3>4. h[q] = g[q - 1] \o pieces[q] /\ h = [i \in 1 .. q |-> h[i]]
      BY <3>9
    <3> HIDE DEF h
    <3>5. ASSUME NEW i \in 1 .. q
          PROVE  h[i] = IF i = 1 THEN pieces[i] ELSE h[i - 1] \o pieces[i]
      <4>1. CASE i = q
        <5>1. q - 1 \in 1 .. q - 1 /\ i # 1
          BY <2>2, <4>1
        <5>2. h[q - 1] = g[q - 1]
          BY <3>3, <5>1
        <5>3. QED  BY <3>4, <4>1, <5>1, <5>2
      <4>2. CASE i # q
        <5>1. i \in 1 .. q - 1 /\ (i # 1 => i - 1 \in 1 .. q - 1)
          BY <4>2
        <5>2. QED  BY <3>3, <5>1
      <4>3. QED  BY <4>1, <4>2
    <3>6. FlatTo(pieces, q, h)
      BY <3>4, <3>5 DEF FlatTo
    <3>7. QED  BY <3>6
  <2>3. QED  BY <2>1, <2>2
<1>2. lo .. n \subseteq S
  <2>1. lo \in Int /\ n \in Int
    OBVIOUS
  <2> HIDE DEF S, lo
  <2>2. QED  BY <1>1, <2>1, UpInduction
<1>3. QED  BY <1>2

\* FlattenSeq joins.
LEMMA FlattenJoins ==
    ASSUME NEW pieces \in Seq(Seq(Character))
    PROVE  \E g : Joins(pieces, g) /\ FlattenSeq(pieces) = g[Len(pieces)]
<1>1. Len(pieces) \in Nat
  BY LenProperties
<1>2. CASE Len(pieces) = 0
  <2>1. pieces = << >>
    BY <1>2, EmptySeq
  <2>2. FlattenSeq(pieces) = << >>
    BY <1>2, <2>1 DEF FlattenSeq
  <2>3. Joins(pieces, [k \in {0} |-> << >>])
    BY <1>2 DEF Joins
  <2>4. [k \in {0} |-> << >>][Len(pieces)] = << >>
    BY <1>2
  <2>5. QED  BY <2>2, <2>3, <2>4
<1>3. CASE Len(pieces) # 0
  <2> DEFINE flat == CHOOSE g : FlatTo(pieces, Len(pieces), g)
             h == [k \in 0 .. Len(pieces) |-> IF k = 0 THEN << >> ELSE flat[k]]
  <2>1. FlattenSeq(pieces) = flat[Len(pieces)]
    BY <1>3 DEF FlattenSeq, FlatTo
  <2>2. FlatTo(pieces, Len(pieces), flat)
    <3>1. Len(pieces) \in 1 .. Len(pieces)
      BY <1>1, <1>3
    <3>2. QED  BY <1>1, <3>1, FlatExists
  <2> HIDE DEF flat
  <2>3. \A k \in 1 .. Len(pieces) : flat[k] = IF k = 1 THEN pieces[k] ELSE flat[k - 1] \o pieces[k]
    BY <2>2 DEF FlatTo
  <2>4. h[0] = << >> /\ \A k \in 1 .. Len(pieces) : h[k] = flat[k]
    BY <1>1
  <2> HIDE DEF h
  <2>5. ASSUME NEW k \in 1 .. Len(pieces) PROVE h[k] = h[k - 1] \o pieces[k]
    <3>1. CASE k = 1
      <4>1. pieces[1] \in Seq(Character)
        BY <3>1, ElementOfSeq
      <4>2. << >> \o pieces[1] = pieces[1]
        BY <4>1, ConcatEmptySeq
      <4>3. k - 1 = 0
        BY <3>1
      <4>4. QED  BY <2>3, <2>4, <3>1, <4>2, <4>3
    <3>2. CASE k # 1
      <4>1. k - 1 \in 1 .. Len(pieces)
        BY <1>1, <3>2
      <4>2. QED  BY <2>3, <2>4, <3>2, <4>1
    <3>3. QED  BY <3>1, <3>2
  <2>6. Joins(pieces, h)
    BY <2>4, <2>5 DEF Joins
  <2>7. Len(pieces) \in 1 .. Len(pieces)
    BY <1>1, <1>3
  <2>8. QED  BY <2>1, <2>4, <2>6, <2>7
<1>4. QED  BY <1>2, <1>3

-----------------------------------------------------------------------------
(* What ToText writes.                                                     *)

Doubled(c) == IF c = Quote THEN <<Quote, Quote>> ELSE <<c>>

DoubledPieces(v) == [k \in DOMAIN v |-> Doubled(v[k])]

DoubledTo(v, m, g) ==
    g = [k \in 0 .. m |-> IF k = 0 THEN << >>
                          ELSE g[k - 1] \o (IF v[k] = Quote THEN <<Quote, Quote>> ELSE <<v[k]>>)]

LEMMA DoubledExists ==
    ASSUME NEW v, NEW n \in Nat, NEW m \in 0 .. n
    PROVE  \E g : DoubledTo(v, m, g)
<1> DEFINE lo == 0
           S == {q \in lo .. n : \E g : DoubledTo(v, q, g)}
           piece(k) == IF v[k] = Quote THEN <<Quote, Quote>> ELSE <<v[k]>>
<1>1. ASSUME NEW q \in lo .. n, \A r \in lo .. q - 1 : r \in S
      PROVE  q \in S
  <2>1. CASE q = 0
    <3>1. DoubledTo(v, 0, [k \in 0 .. 0 |-> << >>])
      BY DEF DoubledTo
    <3>2. QED  BY <2>1, <3>1
  <2>2. CASE q # 0
    <3>1. q - 1 \in lo .. q - 1
      BY <2>2
    <3>2. PICK g : DoubledTo(v, q - 1, g)
      BY <1>1, <3>1
    <3> HIDE DEF piece
    <3> DEFINE h == [k \in 0 .. q |-> IF k = q THEN g[q - 1] \o piece(q) ELSE g[k]]
    <3>3. q \in 0 .. q /\ \A k \in 0 .. q - 1 : k \in 0 .. q /\ k # q
      OBVIOUS
    <3>4. \A k \in 0 .. q - 1 : g[k] = IF k = 0 THEN << >> ELSE g[k - 1] \o piece(k)
      BY <3>2 DEF DoubledTo, piece
    <3>5. \A k \in 0 .. q - 1 : h[k] = g[k]
      BY <3>3
    <3>6. h[q] = g[q - 1] \o piece(q) /\ h = [k \in 0 .. q |-> h[k]]
      BY <3>3
    <3> HIDE DEF h
    <3>7. ASSUME NEW k \in 0 .. q
          PROVE  h[k] = IF k = 0 THEN << >> ELSE h[k - 1] \o piece(k)
      <4>1. CASE k = q
        <5>1. q - 1 \in 0 .. q - 1
          BY <2>2
        <5>2. h[q - 1] = g[q - 1]
          BY <3>5, <5>1
        <5>3. QED  BY <2>2, <3>6, <4>1, <5>2
      <4>2. CASE k # q
        <5>1. k \in 0 .. q - 1 /\ (k # 0 => k - 1 \in 0 .. q - 1)
          BY <4>2
        <5>2. QED  BY <3>4, <3>5, <5>1
      <4>3. QED  BY <4>1, <4>2
    <3>8. DoubledTo(v, q, h)
      BY <3>6, <3>7 DEF DoubledTo, piece
    <3>9. QED  BY <3>8
  <2>3. QED  BY <2>1, <2>2
<1>2. lo .. n \subseteq S
  <2>1. lo \in Int /\ n \in Int
    OBVIOUS
  <2> HIDE DEF S, lo
  <2>2. QED  BY <1>1, <2>1, UpInduction
<1>3. QED  BY <1>2

LEMMA QuotesTyped ==
    /\ <<Quote>> \in Seq(Character) /\ <<Double>> \in Seq(Character) /\ <<Space>> \in Seq(Character)
    /\ << >> \in Seq(Character) /\ Len(<<Quote>>) = 1 /\ Len(<<Double>>) = 1 /\ Len(<<Space>>) = 1
    /\ <<Quote>>[1] = Quote /\ <<Double>>[1] = Double /\ <<Space>>[1] = Space
<1>1. Quote \in Character /\ Double \in Character /\ Space \in Character
  BY DEF Character
<1>2. QED  BY <1>1, EmptySeq

LEMMA DoubledPiecesTyped ==
    ASSUME NEW v \in Seq(Character)
    PROVE  /\ DoubledPieces(v) \in Seq(Seq(Character)) /\ Len(DoubledPieces(v)) = Len(v)
           /\ \A k \in 1 .. Len(v) : DoubledPieces(v)[k] = Doubled(v[k])
<1>1. Len(v) \in Nat /\ DOMAIN v = 1 .. Len(v)
  BY LenProperties
<1>2. ASSUME NEW k \in 1 .. Len(v) PROVE Doubled(v[k]) \in Seq(Character)
  <2>1. Quote \in Character /\ v[k] \in Character
    BY ElementOfSeq DEF Character
  <2>2. <<Quote, Quote>> \in Seq(Character) /\ <<v[k]>> \in Seq(Character)
    BY <2>1
  <2>3. QED  BY <2>2 DEF Doubled
<1>3. DoubledPieces(v) = [k \in 1 .. Len(v) |-> Doubled(v[k])]
  BY <1>1 DEF DoubledPieces
<1>4. DoubledPieces(v) \in [1 .. Len(v) -> Seq(Character)]
  BY <1>2, <1>3
<1>5. DoubledPieces(v) \in Seq(Seq(Character)) /\ DOMAIN DoubledPieces(v) = 1 .. Len(v)
  <2>1. DoubledPieces(v) \in UNION {[1 .. n -> Seq(Character)] : n \in Nat}
    BY <1>1, <1>4
  <2>2. QED  BY <1>3, <2>1, SeqDef
<1>6. Len(DoubledPieces(v)) = Len(v)
  BY <1>1, <1>5, LenProperties
<1>7. QED  BY <1>3, <1>5, <1>6

\* The text of a string is its characters, quotes doubled, between quotes.
LEMMA QuoteJoins ==
    ASSUME NEW v \in Seq(Character)
    PROVE  \E g : /\ Joins(DoubledPieces(v), g)
                  /\ QuoteString(v) = <<Quote>> \o g[Len(v)] \o <<Quote>>
<1> DEFINE g == CHOOSE x : DoubledTo(v, Len(v), x)
<1>1. QuoteString(v) = <<Quote>> \o g[Len(v)] \o <<Quote>>
  BY DEF QuoteString, DoubledTo
<1>2. DoubledTo(v, Len(v), g)
  <2>1. Len(v) \in Nat /\ Len(v) \in 0 .. Len(v)
    BY LenProperties
  <2>2. QED  BY <2>1, DoubledExists
<1> HIDE DEF g
<1>3. \A k \in 0 .. Len(v) : g[k] = IF k = 0 THEN << >> ELSE g[k - 1] \o Doubled(v[k])
  BY <1>2 DEF DoubledTo, Doubled
<1>4. Joins(DoubledPieces(v), g)
  <2>1. Len(v) \in Nat /\ Len(DoubledPieces(v)) = Len(v)
    BY LenProperties, DoubledPiecesTyped
  <2>2. g[0] = << >>
    BY <1>3, <2>1
  <2>3. ASSUME NEW k \in 1 .. Len(v) PROVE g[k] = g[k - 1] \o DoubledPieces(v)[k]
    <3>1. k \in 0 .. Len(v) /\ k # 0
      OBVIOUS
    <3>2. QED  BY <1>3, <3>1, DoubledPiecesTyped
  <2>4. QED  BY <2>1, <2>2, <2>3 DEF Joins
<1>5. QED  BY <1>1, <1>4

\* A text between two marks.
LEMMA Enclosed ==
    ASSUME NEW mark \in Seq(Character), Len(mark) = 1, NEW t \in Seq(Character)
    PROVE  /\ mark \o t \o mark \in Seq(Character)
           /\ Len(mark \o t \o mark) = Len(t) + 2 /\ Len(t) \in Nat
           /\ (mark \o t \o mark)[1] = mark[1] /\ (mark \o t \o mark)[Len(t) + 2] = mark[1]
           /\ \A i \in 1 .. Len(t) : (mark \o t \o mark)[i + 1] = t[i]
<1> DEFINE u == mark \o t
<1>1. Len(t) \in Nat
  BY LenProperties
<1>2. /\ u \in Seq(Character) /\ Len(u) = 1 + Len(t)
      /\ \A i \in 1 .. 1 + Len(t) : u[i] = IF i <= 1 THEN mark[i] ELSE t[i - 1]
  BY ConcatProperties, SMTT(30)
<1> HIDE DEF u
<1>3. /\ u \o mark \in Seq(Character) /\ Len(u \o mark) = (1 + Len(t)) + 1
      /\ \A i \in 1 .. (1 + Len(t)) + 1 : (u \o mark)[i] = IF i <= 1 + Len(t) THEN u[i] ELSE mark[i - (1 + Len(t))]
  <2>1. /\ u \o mark \in Seq(Character) /\ Len(u \o mark) = Len(u) + Len(mark)
        /\ \A i \in 1 .. Len(u) + Len(mark) : (u \o mark)[i] = IF i <= Len(u) THEN u[i] ELSE mark[i - Len(u)]
    BY <1>2, ConcatProperties
  <2>2. Len(u) = 1 + Len(t) /\ Len(mark) = 1
    BY <1>2
  <2>3. QED  BY <2>1, <2>2
<1>4. (1 + Len(t)) + 1 = Len(t) + 2 /\ 1 \in 1 .. Len(t) + 2 /\ Len(t) + 2 \in 1 .. Len(t) + 2
      /\ (Len(t) + 2) - (1 + Len(t)) = 1 /\ 1 <= 1 + Len(t) /\ ~(Len(t) + 2 <= 1 + Len(t))
      /\ 1 \in 1 .. 1 + Len(t)
  BY <1>1
<1>5. ASSUME NEW i \in 1 .. Len(t) PROVE (u \o mark)[i + 1] = t[i]
  <2>1. i + 1 \in 1 .. Len(t) + 2 /\ i + 1 <= 1 + Len(t) /\ i + 1 \in 1 .. 1 + Len(t) /\ ~(i + 1 <= 1)
        /\ (i + 1) - 1 = i
    BY <1>1
  <2>2. QED  BY <1>2, <1>3, <1>4, <2>1
<1>6. (u \o mark)[1] = mark[1] /\ (u \o mark)[Len(t) + 2] = mark[1]
  BY <1>2, <1>3, <1>4
<1>7. QED  BY <1>1, <1>3, <1>4, <1>5, <1>6 DEF u

LEMMA WrittenTyped ==
    ASSUME NEW t \in TokenSet
    PROVE  /\ Written(t) \in Seq(Character)
           /\ t.kind = "String" => Written(t) = QuoteString(t.text)
           /\ t.kind = "QuotedIdentifier" => Written(t) = <<Double>> \o t.text \o <<Double>>
           /\ t.kind \notin {"String", "QuotedIdentifier"} => Written(t) = t.text
<1>1. t.text \in Seq(Character)
  BY DEF TokenSet
<1>2. QuoteString(t.text) \in Seq(Character)
  <2>1. PICK g : /\ Joins(DoubledPieces(t.text), g)
                 /\ QuoteString(t.text) = <<Quote>> \o g[Len(t.text)] \o <<Quote>>
    BY <1>1, QuoteJoins
  <2>2. /\ DoubledPieces(t.text) \in Seq(Seq(Character)) /\ Len(DoubledPieces(t.text)) = Len(t.text)
        /\ Len(t.text) \in 0 .. Len(t.text)
    BY <1>1, DoubledPiecesTyped, LenProperties
  <2>3. JoinedTo(DoubledPieces(t.text), g, Len(t.text))
    BY <2>1, <2>2, JoinedAt
  <2>4. g[Len(t.text)] \in Seq(Character)
    BY <2>3 DEF JoinedTo
  <2>5. QED  BY <2>1, <2>4, Enclosed, QuotesTyped
<1>3. <<Double>> \o t.text \o <<Double>> \in Seq(Character)
  BY <1>1, Enclosed, QuotesTyped
<1>4. /\ t.kind = "String" => Written(t) = QuoteString(t.text)
      /\ t.kind = "QuotedIdentifier" => Written(t) = <<Double>> \o t.text \o <<Double>>
      /\ t.kind \notin {"String", "QuotedIdentifier"} => Written(t) = t.text
  BY DEF Written
<1>5. QED  BY <1>1, <1>2, <1>3, <1>4

\* The tokens ts as ToText writes them.
WrittenPiece(ts, spaced, k) ==
    IF k = 1 THEN Written(ts[1]) ELSE Gap(spaced, ts[k - 1], ts[k]) \o Written(ts[k])

WrittenPieces(ts, spaced) == [k \in DOMAIN ts |-> WrittenPiece(ts, spaced, k)]

LEMMA WrittenPiecesTyped ==
    ASSUME NEW ts \in Seq(TokenSet), NEW spaced \in BOOLEAN
    PROVE  /\ WrittenPieces(ts, spaced) \in Seq(Seq(Character))
           /\ Len(WrittenPieces(ts, spaced)) = Len(ts)
           /\ \A k \in 1 .. Len(ts) : WrittenPieces(ts, spaced)[k] = WrittenPiece(ts, spaced, k)
<1>1. Len(ts) \in Nat /\ DOMAIN ts = 1 .. Len(ts)
  BY LenProperties
<1>2. ASSUME NEW k \in 1 .. Len(ts) PROVE WrittenPiece(ts, spaced, k) \in Seq(Character)
  <2>1. ts[k] \in TokenSet
    BY ElementOfSeq
  <2>2. Written(ts[k]) \in Seq(Character)
    BY <2>1, WrittenTyped
  <2>3. Gap(spaced, ts[k - 1], ts[k]) \in Seq(Character)
    BY QuotesTyped DEF Gap
  <2>4. Gap(spaced, ts[k - 1], ts[k]) \o Written(ts[k]) \in Seq(Character)
    BY <2>2, <2>3, ConcatProperties
  <2>5. QED  BY <2>2, <2>4 DEF WrittenPiece
<1>3. WrittenPieces(ts, spaced) = [k \in 1 .. Len(ts) |-> WrittenPiece(ts, spaced, k)]
  BY <1>1 DEF WrittenPieces
<1>4. WrittenPieces(ts, spaced) \in [1 .. Len(ts) -> Seq(Character)]
  BY <1>2, <1>3
<1>5. WrittenPieces(ts, spaced) \in Seq(Seq(Character)) /\ DOMAIN WrittenPieces(ts, spaced) = 1 .. Len(ts)
  <2>1. WrittenPieces(ts, spaced) \in UNION {[1 .. n -> Seq(Character)] : n \in Nat}
    BY <1>1, <1>4
  <2>2. QED  BY <1>3, <2>1, SeqDef
<1>6. Len(WrittenPieces(ts, spaced)) = Len(ts)
  BY <1>1, <1>5, LenProperties
<1>7. QED  BY <1>3, <1>5, <1>6

LEMMA RewrittenIs ==
    ASSUME NEW ts, NEW spaced \in BOOLEAN
    PROVE  Rewritten(ts, spaced) = FlattenSeq(WrittenPieces(ts, spaced))
BY DEF Rewritten, WrittenPieces, WrittenPiece

LEMMA RewrittenTyped ==
    ASSUME NEW ts \in Seq(TokenSet), NEW spaced \in BOOLEAN
    PROVE  FlattenSeq(WrittenPieces(ts, spaced)) \in Seq(Character)
<1>1. WrittenPieces(ts, spaced) \in Seq(Seq(Character))
  BY WrittenPiecesTyped
<1>2. PICK g : /\ Joins(WrittenPieces(ts, spaced), g)
               /\ FlattenSeq(WrittenPieces(ts, spaced)) = g[Len(WrittenPieces(ts, spaced))]
  BY <1>1, FlattenJoins
<1>3. Len(WrittenPieces(ts, spaced)) \in 0 .. Len(WrittenPieces(ts, spaced))
  BY <1>1, LenProperties
<1>4. QED  BY <1>1, <1>2, <1>3, JoinedAt DEF JoinedTo

-----------------------------------------------------------------------------
(* The invariant of the lexer.                                             *)

KindBefore(ts, k) == IF k = 1 THEN "none" ELSE ts[k - 1].kind

Sound(ts) ==
    /\ ts \in Seq(TokenSet)
    /\ \A k \in 1 .. Len(ts) : WellFormed(ts[k].kind, ts[k].text, KindBefore(ts, k))

\* Every token is well-formed and stands where it was read, in the first
\* text and in the one written anew.
LexInv ==
    /\ chars \in Seq(Character) /\ Sound(tokens) /\ Sound(original)
    /\ TypeOK
    /\ \A k \in 1 .. Len(tokens) :
          /\ tokens[k].first \in 1 .. Len(chars)
          /\ Stands(tokens[k].kind, tokens[k].text, tokens[k].first, tokens[k].last + 1)
    /\ stage \in {"first", "again"}
    /\ stage = "again" => \E spaced \in BOOLEAN : chars = FlattenSeq(WrittenPieces(original, spaced))

LEMMA NoTokens == Sound(<< >>)
BY DEF Sound

LEMMA OneMore ==
    ASSUME NEW ts \in Seq(TokenSet), NEW t \in TokenSet
    PROVE  /\ Append(ts, t) \in Seq(TokenSet) /\ Len(Append(ts, t)) = Len(ts) + 1 /\ Len(ts) \in Nat
           /\ \A k \in 1 .. Len(ts) : Append(ts, t)[k] = ts[k]
           /\ Append(ts, t)[Len(ts) + 1] = t
BY AppendProperties, LenProperties

LEMMA SoundMore ==
    ASSUME NEW ts, Sound(ts), NEW t \in TokenSet,
           WellFormed(t.kind, t.text, IF ts = << >> THEN "none" ELSE ts[Len(ts)].kind)
    PROVE  Sound(Append(ts, t))
<1>1. /\ ts \in Seq(TokenSet)
      /\ \A k \in 1 .. Len(ts) : WellFormed(ts[k].kind, ts[k].text, KindBefore(ts, k))
  BY DEF Sound
<1> DEFINE us == Append(ts, t)
<1>2. /\ us \in Seq(TokenSet) /\ Len(us) = Len(ts) + 1 /\ Len(ts) \in Nat
      /\ \A k \in 1 .. Len(ts) : us[k] = ts[k]
      /\ us[Len(ts) + 1] = t
  BY <1>1, OneMore
<1>3. ts = << >> <=> Len(ts) = 0
  BY <1>1, EmptySeq
<1> HIDE DEF us
<1>4. ASSUME NEW k \in 1 .. Len(us) PROVE WellFormed(us[k].kind, us[k].text, KindBefore(us, k))
  <2>1. CASE k \in 1 .. Len(ts)
    <3>1. us[k] = ts[k] /\ (k # 1 => k - 1 \in 1 .. Len(ts))
      BY <1>2, <2>1
    <3>2. KindBefore(us, k) = KindBefore(ts, k)
      BY <1>2, <3>1 DEF KindBefore
    <3>3. QED  BY <1>1, <2>1, <3>1, <3>2
  <2>2. CASE k = Len(ts) + 1
    <3>1. us[k] = t /\ (Len(ts) # 0 => Len(ts) \in 1 .. Len(ts) /\ k # 1 /\ k - 1 = Len(ts))
          /\ (Len(ts) = 0 => k = 1)
      BY <1>2, <2>2
    <3>2. KindBefore(us, k) = IF ts = << >> THEN "none" ELSE ts[Len(ts)].kind
      <4>1. CASE Len(ts) = 0
        BY <1>3, <3>1, <4>1 DEF KindBefore
      <4>2. CASE Len(ts) # 0
        <5>1. us[k - 1] = ts[Len(ts)]
          BY <1>2, <3>1, <4>2
        <5>2. QED  BY <1>3, <3>1, <4>2, <5>1 DEF KindBefore
      <4>3. QED  BY <4>1, <4>2
    <3>3. QED  BY <3>1, <3>2
  <2>3. k \in 1 .. Len(ts) \/ k = Len(ts) + 1
    BY <1>2
  <2>4. QED  BY <2>1, <2>2, <2>3
<1>5. Sound(us)
  BY <1>2, <1>4 DEF Sound
<1>6. QED  BY <1>5 DEF us

LEMMA LexInvInit ==
    ASSUME Init
    PROVE  LexInv
<1>1. /\ chars \in Texts /\ at = 1 /\ tokens = << >> /\ mode = "lexing" /\ stage = "first"
      /\ original = << >>
  BY DEF Init, LexInit
<1>2. chars \in Seq(Character)
  <2>1. chars \in Seq(STRING)
    BY <1>1, TextsAssumption
  <2>2. STRING \subseteq Character
    BY DEF Character
  <2>3. \A i \in 1 .. Len(chars) : chars[i] \in Character
    BY <2>1, <2>2, ElementOfSeq
  <2>4. Len(chars) \in Nat /\ DOMAIN chars = 1 .. Len(chars) /\ chars = [i \in 1 .. Len(chars) |-> chars[i]]
    BY <2>1, LenProperties, SeqDef
  <2>5. chars \in [1 .. Len(chars) -> Character]
    BY <2>3, <2>4
  <2>6. chars \in UNION {[1 .. n -> Character] : n \in Nat}
    BY <2>4, <2>5
  <2>7. QED  BY <2>6, SeqDef
<1>3. TypeOK
  <2>1. Len(chars) \in Nat /\ DOMAIN tokens = {}
    BY <1>1, <1>2, LenProperties
  <2>2. at \in 1 .. Len(chars) + 1 /\ 1 .. at - 1 = {}
    BY <1>1, <2>1
  <2>3. QED  BY <1>1, <2>1, <2>2 DEF TypeOK
<1>4. Len(tokens) = 0
  BY <1>1
<1>5. QED  BY <1>1, <1>2, <1>3, <1>4, NoTokens DEF LexInv

LEMMA LexInvFail ==
    ASSUME LexInv, Fail, UNCHANGED <<stage, original>>
    PROVE  LexInv'
<1>1. /\ mode' = "failed" /\ UNCHANGED <<chars, at, tokens>>
  BY DEF Fail
<1>2. TypeOK'
  BY <1>1 DEF LexInv, TypeOK
<1>3. QED  BY <1>1, <1>2 DEF LexInv, Stands

LEMMA LexInvEnd ==
    ASSUME LexInv, EndOfText, UNCHANGED <<stage, original>>
    PROVE  LexInv'
<1>1. /\ mode' = "done" /\ at' = Start /\ UNCHANGED <<chars, tokens>>
  BY DEF EndOfText
<1>2. chars \in Seq(Character) /\ at \in 1 .. Len(chars) + 1
  BY DEF LexInv, TypeOK
<1>3. /\ Start \in at .. Len(chars) + 1 /\ Start \in 1 .. Len(chars) + 1
      /\ \A r \in at .. Start - 1 : chars[r] = Space
      /\ Len(chars) \in Nat
  BY <1>2, StartFound
<1> DEFINE start == Start
<1> HIDE DEF start
<1>4. TypeOK'
  <2>1. at' = start /\ start \in at .. Len(chars) + 1 /\ start \in 1 .. Len(chars) + 1
        /\ \A r \in at .. start - 1 : chars[r] = Space
    BY <1>1, <1>3 DEF start
  <2>2. \A k \in DOMAIN tokens : tokens[k].last < start
    <3>1. ASSUME NEW k \in DOMAIN tokens PROVE tokens[k].last < start
      <4>1. tokens[k].last \in Nat
        <5>1. tokens \in Seq(TokenSet) /\ DOMAIN tokens = 1 .. Len(tokens)
          BY LenProperties DEF LexInv, Sound
        <5>2. tokens[k] \in TokenSet
          BY <5>1, ElementOfSeq
        <5>3. QED  BY <5>2 DEF TokenSet
      <4>2. tokens[k].last < at
        BY DEF LexInv, TypeOK
      <4>3. QED  BY <1>2, <1>3, <2>1, <4>1, <4>2
    <3>2. QED  BY <3>1
  <2>3. ASSUME NEW p \in 1 .. start - 1
        PROVE  \/ chars[p] = Space
               \/ \E k \in DOMAIN tokens : p \in tokens[k].first .. tokens[k].last
    <3>1. p \in 1 .. at - 1 \/ p \in at .. start - 1
      BY <1>2, <1>3, <2>1
    <3>2. QED  BY <2>1, <3>1 DEF LexInv, TypeOK
  <2>4. QED  BY <1>1, <2>1, <2>2, <2>3 DEF LexInv, TypeOK
<1>5. QED  BY <1>1, <1>4 DEF LexInv, Stands

LEMMA LexInvEmit ==
    ASSUME LexInv, UNCHANGED <<stage, original>>, NEW kind, NEW text, NEW next,
           Reads(kind, text, next), Emit(kind, text, next)
    PROVE  LexInv'
<1> DEFINE start == Start
           t == [kind |-> kind, text |-> text, first |-> Start, last |-> next - 1]
<1>1. tokens' = Append(tokens, t) /\ at' = next /\ UNCHANGED <<chars, mode>>
  BY DEF Emit
<1>2. chars \in Seq(Character) /\ at \in 1 .. Len(chars) + 1 /\ Sound(tokens) /\ tokens \in Seq(TokenSet)
  BY DEF LexInv, TypeOK, Sound
<1>3. /\ start \in at .. Len(chars) + 1 /\ start \in 1 .. Len(chars) + 1
      /\ \A r \in at .. start - 1 : chars[r] = Space
      /\ Len(chars) \in Nat
  BY <1>2, StartFound
<1>4. /\ kind \in Kinds /\ text \in Seq(Character)
      /\ next \in start + 1 .. Len(chars) + 1
      /\ WellFormed(kind, text, Previous)
      /\ Stands(kind, text, start, next)
  BY DEF Reads
<1>5. t.kind = kind /\ t.text = text /\ t.first = start /\ t.last = next - 1
  OBVIOUS
<1> HIDE DEF start
<1>6. start \in Nat /\ next - 1 \in Nat /\ next - 1 + 1 = next /\ start <= next - 1 /\ start \in 1 .. Len(chars)
      /\ next - 1 < next /\ at <= start
  BY <1>2, <1>3, <1>4
<1>7. t \in TokenSet
  BY <1>4, <1>6 DEF TokenSet, start
<1> HIDE DEF t
<1>8. Sound(Append(tokens, t))
  <2>1. WellFormed(t.kind, t.text, IF tokens = << >> THEN "none" ELSE tokens[Len(tokens)].kind)
    BY <1>4, <1>5 DEF Previous
  <2>2. QED  BY <1>2, <1>7, <2>1, SoundMore
<1> DEFINE us == Append(tokens, t)
           n == Len(tokens)
<1>9. /\ us \in Seq(TokenSet) /\ Len(us) = n + 1 /\ n \in Nat
      /\ \A k \in 1 .. n : us[k] = tokens[k]
      /\ us[n + 1] = t
      /\ DOMAIN tokens = 1 .. n /\ DOMAIN us = 1 .. n + 1
      /\ \A k \in 1 .. n : tokens[k].first \in Nat /\ tokens[k].last \in Nat
  <2>1. ASSUME NEW k \in 1 .. n PROVE tokens[k].first \in Nat /\ tokens[k].last \in Nat
    <3>1. tokens[k] \in TokenSet
      BY <1>2, ElementOfSeq
    <3>2. QED  BY <3>1 DEF TokenSet
  <2>2. us \in Seq(TokenSet) /\ Len(us) = n + 1 /\ n \in Nat
        /\ (\A k \in 1 .. n : us[k] = tokens[k]) /\ us[n + 1] = t
    BY <1>2, <1>7, OneMore
  <2>3. DOMAIN us = 1 .. n + 1
    BY <2>2, LenProperties
  <2>4. DOMAIN tokens = 1 .. n
    BY <1>2, LenProperties
  <2>5. QED  BY <2>1, <2>2, <2>3, <2>4
<1>10. tokens' = us
  BY <1>1
<1> HIDE DEF us, n
<1>11. \A k \in 1 .. n : /\ tokens[k].first <= tokens[k].last /\ tokens[k].last < at
                        /\ \A j \in 1 .. n : j < k => tokens[j].last < tokens[k].first
  BY <1>9 DEF LexInv, TypeOK
<1>12. \A k \in 1 .. n + 1 : us[k].first <= us[k].last /\ us[k].last < next
  <2>1. ASSUME NEW k \in 1 .. n + 1 PROVE us[k].first <= us[k].last /\ us[k].last < next
    <3>1. CASE k = n + 1
      <4>1. us[k].first = start /\ us[k].last = next - 1
        BY <1>5, <1>9, <3>1
      <4>2. QED  BY <1>6, <4>1
    <3>2. CASE k \in 1 .. n
      <4>1. us[k] = tokens[k] /\ tokens[k].first <= tokens[k].last /\ tokens[k].last < at
            /\ tokens[k].last \in Nat
        BY <1>9, <1>11, <3>2
      <4>2. at \in Nat /\ next \in Nat /\ at < next
        BY <1>2, <1>3, <1>4, <1>6
      <4>3. QED  BY <4>1, <4>2
    <3>3. QED  BY <1>9, <3>1, <3>2
  <2>2. QED  BY <2>1
<1>13. \A j, k \in 1 .. n + 1 : j < k => us[j].last < us[k].first
  <2>1. ASSUME NEW j \in 1 .. n + 1, NEW k \in 1 .. n + 1, j < k PROVE us[j].last < us[k].first
    <3>1. j \in 1 .. n /\ us[j] = tokens[j] /\ tokens[j].last < at /\ tokens[j].last \in Nat
      <4>1. j \in 1 .. n
        BY <1>9, <2>1
      <4>2. QED  BY <1>9, <1>11, <4>1
    <3>2. CASE k = n + 1
      <4>1. us[k].first = start
        BY <1>5, <1>9, <3>2
      <4>2. QED  BY <1>2, <1>6, <3>1, <4>1
    <3>3. CASE k \in 1 .. n
      <4>1. us[k] = tokens[k]
        BY <1>9, <3>3
      <4>2. QED  BY <1>11, <2>1, <3>1, <3>3, <4>1
    <3>4. QED  BY <1>9, <3>2, <3>3
  <2>2. QED  BY <2>1
<1>14. \A p \in 1 .. next - 1 : \/ chars[p] = Space
                               \/ \E k \in 1 .. n + 1 : p \in us[k].first .. us[k].last
  <2>1. ASSUME NEW p \in 1 .. next - 1
        PROVE  \/ chars[p] = Space
               \/ \E k \in 1 .. n + 1 : p \in us[k].first .. us[k].last
    <3>1. p \in 1 .. at - 1 \/ p \in at .. start - 1 \/ p \in start .. next - 1
      BY <1>2, <1>3, <1>4
    <3>2. CASE p \in 1 .. at - 1
      <4>1. chars[p] = Space \/ \E k \in 1 .. n : p \in tokens[k].first .. tokens[k].last
        BY <1>9, <3>2 DEF LexInv, TypeOK
      <4>2. \A k \in 1 .. n : k \in 1 .. n + 1 /\ us[k] = tokens[k]
        BY <1>9
      <4>3. QED  BY <4>1, <4>2
    <3>3. CASE p \in at .. start - 1
      BY <1>3, <3>3
    <3>4. CASE p \in start .. next - 1
      <4>1. us[n + 1].first = start /\ us[n + 1].last = next - 1 /\ n + 1 \in 1 .. n + 1
        BY <1>5, <1>9
      <4>2. QED  BY <3>4, <4>1
    <3>5. QED  BY <3>1, <3>2, <3>3, <3>4
  <2>2. QED  BY <2>1
<1>15. TypeOK'
  <2>1. next \in 1 .. Len(chars) + 1
    BY <1>3, <1>4
  <2>2. mode' \in {"lexing", "done", "failed"}
    BY <1>1 DEF LexInv, TypeOK
  <2>3. QED  BY <1>1, <1>9, <1>10, <1>12, <1>13, <1>14, <2>1, <2>2 DEF TypeOK
<1>16. ASSUME NEW k \in 1 .. n + 1
       PROVE  /\ us[k].first \in 1 .. Len(chars)
              /\ Stands(us[k].kind, us[k].text, us[k].first, us[k].last + 1)
  <2>1. CASE k = n + 1
    <3>1. us[k].first = start /\ us[k].last = next - 1 /\ us[k].kind = kind /\ us[k].text = text
      BY <1>5, <1>9, <2>1
    <3>2. QED  BY <1>4, <1>6, <3>1
  <2>2. CASE k \in 1 .. n
    <3>1. us[k] = tokens[k]
      BY <1>9, <2>2
    <3>2. QED  BY <2>2, <3>1 DEF LexInv, n
  <2>3. QED  BY <1>9, <2>1, <2>2
<1>17. QED  BY <1>1, <1>8, <1>10, <1>15, <1>16, <1>9 DEF LexInv, Stands, us

\* What the parser takes the tokens for is as well-formed as they are.
LEMMA TakenSound ==
    ASSUME LexInv, Accepted
    PROVE  Sound([k \in DOMAIN tokens |-> Taken(tokens[k])])
<1> DEFINE ts == [k \in DOMAIN tokens |-> Taken(tokens[k])]
<1>1. /\ tokens \in Seq(TokenSet) /\ Len(tokens) \in Nat /\ DOMAIN tokens = 1 .. Len(tokens)
      /\ \A k \in 1 .. Len(tokens) : WellFormed(tokens[k].kind, tokens[k].text, KindBefore(tokens, k))
  BY LenProperties DEF LexInv, Sound
<1>2. ASSUME NEW k \in 1 .. Len(tokens)
      PROVE  /\ ts[k] \in TokenSet /\ ts[k].kind = tokens[k].kind
             /\ WellFormed(ts[k].kind, ts[k].text, KindBefore(tokens, k))
  <2> DEFINE t == tokens[k]
             previous == KindBefore(tokens, k)
  <2>1. t \in TokenSet /\ ts[k] = Taken(t) /\ WellFormed(t.kind, t.text, previous)
    BY <1>1, ElementOfSeq
  <2>2. t.kind = "Number" => Representable(t.text)
    BY <1>1 DEF Accepted, Numbers
  <2> HIDE DEF t, ts, previous
  <2>3. CASE t.kind # "Number"
    <3>1. ts[k] = t
      BY <2>1, <2>3 DEF Taken
    <3>2. QED  BY <2>1, <3>1 DEF t, previous
  <2>4. CASE t.kind = "Number"
    <3>1. t.text \in Seq(Character) /\ SignAfter(previous) \in BOOLEAN
      BY <2>1 DEF TokenSet, SignAfter
    <3>2. /\ \E d, i, f, e : NumberAt(t.text, 1, d, i, f, e, Len(t.text) + 1)
          /\ StartsNumber(t.text, 1, SignAfter(previous))
      BY <2>1, <2>4 DEF WellFormed, IsNumber
    <3> DEFINE c == Canonical(t.text)
    <3>3. c \in Seq(Character) /\ IsNumber(c, SignAfter(previous))
      BY <2>2, <2>4, <3>1, <3>2, CanonicalIsNumber DEF IsNumber
    <3>4. ts[k] = [t EXCEPT !.text = c]
      BY <2>1, <2>4 DEF Taken
    <3> HIDE DEF c
    <3>5. ts[k] \in TokenSet /\ ts[k].kind = "Number" /\ ts[k].text = c
      BY <2>1, <2>4, <3>3, <3>4 DEF TokenSet
    <3>6. WellFormed(ts[k].kind, ts[k].text, previous)
      BY <3>3, <3>5 DEF WellFormed
    <3>7. QED  BY <2>4, <3>5, <3>6 DEF t, previous
  <2>5. QED  BY <2>3, <2>4
<1>3. ts \in Seq(TokenSet) /\ Len(ts) = Len(tokens)
  <2>1. ts = [k \in 1 .. Len(tokens) |-> ts[k]]
    BY <1>1
  <2>2. \A k \in 1 .. Len(tokens) : ts[k] \in TokenSet
    BY <1>2
  <2> HIDE DEF ts
  <2>3. ts \in Seq(TokenSet)
    BY <1>1, <2>1, <2>2, IsASeq
  <2>4. QED  BY <1>1, <2>1, <2>3, LenProperties
<1> HIDE DEF ts
<1>4. ASSUME NEW k \in 1 .. Len(ts) PROVE WellFormed(ts[k].kind, ts[k].text, KindBefore(ts, k))
  <2>1. k = 1 \/ k - 1 \in 1 .. Len(tokens)
    BY <1>1, <1>3
  <2>2. KindBefore(ts, k) = KindBefore(tokens, k)
    BY <1>2, <2>1 DEF KindBefore
  <2>3. QED  BY <1>2, <1>3, <2>2
<1>5. QED  BY <1>3, <1>4 DEF Sound, ts

LEMMA LexInvRewrite ==
    ASSUME LexInv, Rewrite
    PROVE  LexInv'
<1> DEFINE ts == [k \in DOMAIN tokens |-> Taken(tokens[k])]
<1>1. PICK spaced \in BOOLEAN : chars' = Rewritten(original', spaced)
  BY DEF Rewrite
<1>2. at' = 1 /\ tokens' = << >> /\ mode' = "lexing" /\ stage' = "again" /\ original' = ts
  BY DEF Rewrite
<1>3. Sound(ts) /\ ts \in Seq(TokenSet)
  BY TakenSound DEF Rewrite, Sound
<1> HIDE DEF ts
<1>4. chars' = FlattenSeq(WrittenPieces(ts, spaced)) /\ chars' \in Seq(Character)
  BY <1>1, <1>2, <1>3, RewrittenIs, RewrittenTyped
<1>5. Sound(original)'
  BY <1>2, <1>3 DEF Sound, WellFormed, KindBefore
<1>6. TypeOK'
  <2>1. Len(chars') \in Nat /\ DOMAIN tokens' = {}
    BY <1>2, <1>4, LenProperties
  <2>2. at' \in 1 .. Len(chars') + 1 /\ 1 .. at' - 1 = {}
    BY <1>2, <2>1
  <2>3. QED  BY <1>2, <2>1, <2>2 DEF TypeOK
<1>7. Len(tokens') = 0 /\ Sound(tokens)'
  BY <1>2 DEF Sound
<1>8. (\E sp \in BOOLEAN : chars = FlattenSeq(WrittenPieces(original, sp)))'
  BY <1>2, <1>4
<1>9. QED  BY <1>2, <1>4, <1>5, <1>6, <1>7, <1>8 DEF LexInv

LEMMA LexInvNext ==
    ASSUME LexInv, [Next]_vars
    PROVE  LexInv'
<1>1. CASE Lex /\ UNCHANGED <<stage, original>>
  <2>1. chars \in Seq(Character) /\ at \in 1 .. Len(chars) + 1
    BY DEF LexInv, TypeOK
  <2>2. \/ More /\ \E kind, text, next : Reads(kind, text, next) /\ Emit(kind, text, next)
        \/ More /\ Fail
        \/ EndOfText
    BY <1>1, <2>1, StepReads
  <2>3. CASE More /\ \E kind, text, next : Reads(kind, text, next) /\ Emit(kind, text, next)
    BY <1>1, <2>3, LexInvEmit
  <2>4. CASE Fail
    BY <1>1, <2>4, LexInvFail
  <2>5. CASE EndOfText
    BY <1>1, <2>5, LexInvEnd
  <2>6. QED  BY <2>2, <2>3, <2>4, <2>5
<1>2. CASE Rewrite
  BY <1>2, LexInvRewrite
<1>3. CASE UNCHANGED vars
  <2>1. UNCHANGED <<chars, at, tokens, mode, stage, original>>
    BY <1>3 DEF vars
  <2>2. QED  BY <2>1, ZenonT(30) DEF LexInv, TypeOK, Stands, Sound, WellFormed, KindBefore
<1>4. QED  BY <1>1, <1>2, <1>3 DEF Next, Terminated

\* Texts are read without losing or reading twice any of their characters.
THEOREM LexerTypes == Spec => []TypeOK
<1>1. Init => LexInv
  BY LexInvInit
<1>2. LexInv /\ [Next]_vars => LexInv'
  BY LexInvNext
<1>3. LexInv => TypeOK
  BY DEF LexInv
<1>4. QED  BY <1>1, <1>2, <1>3, PTL DEF Spec

LEMMA NumbersOfTheInvariant ==
    ASSUME LexInv
    PROVE  NumbersAreLongest
<1>1. chars \in Seq(Character) /\ tokens \in Seq(TokenSet)
  BY DEF LexInv, Sound
<1>2. DOMAIN tokens = 1 .. Len(tokens) /\ Len(chars) \in Nat
  BY <1>1, LenProperties
<1>3. ASSUME NEW k \in Numbers
      PROVE  /\ IsNumberText(tokens[k].text)
             /\ \A q \in tokens[k].last + 1 .. Len(chars) : ~IsNumberText(SubSeq(chars, tokens[k].first, q))
  <2>1. k \in 1 .. Len(tokens) /\ tokens[k].kind = "Number" /\ tokens[k] \in TokenSet
    BY <1>1, <1>2, ElementOfSeq DEF Numbers
  <2> DEFINE s == tokens[k].first
             q == tokens[k].last + 1
  <2>2. /\ s \in 1 .. Len(chars)
        /\ Stands(tokens[k].kind, tokens[k].text, s, q)
    BY <2>1 DEF LexInv
  <2> HIDE DEF s, q
  <2>3. /\ tokens[k].text = SubSeq(chars, s, q - 1)
        /\ \E d, i, f, e : NumberAt(chars, s, d, i, f, e, q)
    BY <2>1, <2>2 DEF Stands
  <2>4. PICK d, i, f, e : NumberAt(chars, s, d, i, f, e, q)
    BY <2>3
  <2>5. s \in 1 .. Len(chars) + 1
    BY <1>2, <2>2
  <2>6. IsNumberText(tokens[k].text)
    BY <1>1, <2>3, <2>4, <2>5, NumberIsText
  <2>7. ASSUME NEW z \in q .. Len(chars) PROVE ~IsNumberText(SubSeq(chars, s, z))
    BY <1>1, <2>4, <2>5, NumberIsLongest
  <2>8. QED  BY <2>6, <2>7 DEF s, q
<1>4. QED  BY <1>3 DEF NumbersAreLongest

\* The lexer's numbers are the numbers of number.go, and as long as they can be.
THEOREM NumbersStayLongest == Spec => []NumbersAreLongest
<1>1. Init => LexInv
  BY LexInvInit
<1>2. LexInv /\ [Next]_vars => LexInv'
  BY LexInvNext
<1>3. LexInv => NumbersAreLongest
  BY NumbersOfTheInvariant
<1>4. QED  BY <1>1, <1>2, <1>3, PTL DEF Spec

LEMMA ValuesOfTheInvariant ==
    ASSUME LexInv
    PROVE  NumbersKeepTheirValue
<1>1. chars \in Seq(Character) /\ tokens \in Seq(TokenSet)
  BY DEF LexInv, Sound
<1>2. DOMAIN tokens = 1 .. Len(tokens) /\ Len(chars) \in Nat
  BY <1>1, LenProperties
<1>3. ASSUME NEW k \in Numbers, Representable(tokens[k].text) PROVE KeepsValue(tokens[k].text)
  <2>1. k \in 1 .. Len(tokens) /\ tokens[k].kind = "Number" /\ tokens[k] \in TokenSet
    BY <1>1, <1>2, ElementOfSeq DEF Numbers
  <2> DEFINE s == tokens[k].first
             q == tokens[k].last + 1
             text == tokens[k].text
  <2>2. s \in 1 .. Len(chars) /\ Stands(tokens[k].kind, text, s, q)
    BY <2>1 DEF LexInv
  <2> HIDE DEF s, q, text
  <2>3. text = SubSeq(chars, s, q - 1) /\ \E d, i, f, e : NumberAt(chars, s, d, i, f, e, q)
    BY <2>1, <2>2 DEF Stands
  <2>4. PICK d, i, f, e : NumberAt(chars, s, d, i, f, e, q)
    BY <2>3
  <2>5. s \in 1 .. Len(chars) + 1
    BY <1>2, <2>2
  <2>6. q \in s + 1 .. Len(chars) + 1
    BY <1>1, <2>4, <2>5, NumberPlaces
  <2>7. q \in s .. Len(chars) + 1
    BY <1>2, <2>5, <2>6
  <2>8. text \in Seq(Character) /\ Len(text) = q - s /\ \A r \in 1 .. q - s : text[r] = chars[s + r - 1]
    BY <1>1, <2>3, <2>5, <2>7, Piece DEF Run
  <2>9. /\ 1 \in 1 .. Len(text) + 1 /\ 1 + (q - s) <= Len(text) + 1 /\ 1 + (q - s) = Len(text) + 1
        /\ 1 + (q - s) \notin 1 .. Len(text)
    BY <1>2, <2>5, <2>6, <2>8
  <2>10. \A r \in 0 .. q - s - 1 : text[1 + r] = chars[s + r]
    <3>1. \A r \in 0 .. q - s - 1 : 1 + r \in 1 .. q - s /\ s + (1 + r) - 1 = s + r
      BY <1>2, <2>5, <2>6
    <3>2. QED  BY <2>8, <3>1
  <2>11. ~At(text, 1 + (q - s), Digits \cup Signs \cup {".", "e", "E"})
    <3>1. DOMAIN text = 1 .. Len(text)
      BY <2>8, LenProperties
    <3>2. QED  BY <2>9, <3>1 DEF At
  <2>12. \E d1, i1, f1, e1 : NumberAt(text, 1, d1, i1, f1, e1, 1 + (q - s))
    BY <1>1, <2>4, <2>5, <2>8, <2>9, <2>10, <2>11, NumberMoves
  <2>13. PICK d1, i1, f1, e1 : NumberAt(text, 1, d1, i1, f1, e1, Len(text) + 1)
    BY <2>9, <2>12
  <2>14. Representable(text)
    BY <1>3 DEF text
  <2>15. KeepsValue(text)
    BY <2>8, <2>13, <2>14, NumberKeepsValue
  <2>16. QED  BY <2>15 DEF text
<1>4. \A k \in Numbers : KeepsValue(tokens[k].text)
  BY <1>3 DEF KeepsValue
<1>5. QED  BY <1>4 DEF NumbersKeepTheirValue, KeepsValue

\* Every number the lexer reads has one canonical form, with its value.
THEOREM NumbersStayEqual == Spec => []NumbersKeepTheirValue
<1>1. Init => LexInv
  BY LexInvInit
<1>2. LexInv /\ [Next]_vars => LexInv'
  BY LexInvNext
<1>3. LexInv => NumbersKeepTheirValue
  BY ValuesOfTheInvariant
<1>4. QED  BY <1>1, <1>2, <1>3, PTL DEF Spec

-----------------------------------------------------------------------------
(* Reading what is written: a text w that stands at p.                     *)

Placed(cs, p, w) ==
    /\ w \in Seq(Character) /\ p \in 1 .. Len(cs) /\ p + Len(w) \in p + 1 .. Len(cs) + 1
    /\ \A r \in 0 .. Len(w) - 1 : cs[p + r] = w[1 + r]

\* No character goes on with a token that ends before q.
Separators == {Space, "(", ")", ","}

Separated(cs, q) == q \in DOMAIN cs => cs[q] \in Separators

LEMMA PlacedFirst ==
    ASSUME NEW cs \in Seq(Character), NEW p, NEW w, Placed(cs, p, w)
    PROVE  /\ Len(w) \in Nat \ {0} /\ DOMAIN w = 1 .. Len(w) /\ Len(cs) \in Nat /\ DOMAIN cs = 1 .. Len(cs)
           /\ p \in DOMAIN cs /\ cs[p] = w[1] /\ p + Len(w) \in p .. Len(cs) + 1 /\ p \in 1 .. Len(cs) + 1
           /\ \A j \in p .. p + Len(w) - 1 : j - p + 1 \in 1 .. Len(w) /\ cs[j] = w[j - p + 1]
<1>1. Len(w) \in Nat /\ DOMAIN w = 1 .. Len(w) /\ Len(cs) \in Nat /\ DOMAIN cs = 1 .. Len(cs)
  BY LenProperties DEF Placed
<1>2. /\ p \in 1 .. Len(cs) /\ p + Len(w) \in p + 1 .. Len(cs) + 1
      /\ \A r \in 0 .. Len(w) - 1 : cs[p + r] = w[1 + r]
  BY DEF Placed
<1>3. Len(w) # 0 /\ p + Len(w) \in p .. Len(cs) + 1 /\ p \in 1 .. Len(cs) + 1
  BY <1>1, <1>2
<1>4. cs[p] = w[1]
  <2>1. 0 \in 0 .. Len(w) - 1 /\ p + 0 = p /\ 1 + 0 = 1
    BY <1>1, <1>2, <1>3
  <2>2. QED  BY <1>2, <2>1
<1>5. ASSUME NEW j \in p .. p + Len(w) - 1 PROVE j - p + 1 \in 1 .. Len(w) /\ cs[j] = w[j - p + 1]
  <2>1. j - p \in 0 .. Len(w) - 1 /\ p + (j - p) = j /\ 1 + (j - p) = j - p + 1 /\ j - p + 1 \in 1 .. Len(w)
    BY <1>1, <1>2
  <2>2. QED  BY <1>2, <2>1
<1>6. QED  BY <1>1, <1>2, <1>3, <1>4, <1>5

LEMMA PlacedRun ==
    ASSUME NEW cs \in Seq(Character), NEW p, NEW w, Placed(cs, p, w)
    PROVE  Run(cs, p, p + Len(w)) = w
<1>1. /\ Len(w) \in Nat \ {0} /\ p + Len(w) \in p .. Len(cs) + 1 /\ p \in 1 .. Len(cs) + 1
      /\ \A j \in p .. p + Len(w) - 1 : cs[j] = w[j - p + 1]
  BY PlacedFirst
<1>2. w \in Seq(Character)
  BY DEF Placed
<1> DEFINE q == p + Len(w)
           t == Run(cs, p, q)
<1>3. /\ t \in Seq(Character) /\ Len(t) = q - p
      /\ \A k \in 1 .. q - p : t[k] = cs[p + k - 1]
  BY <1>1, Piece
<1> HIDE DEF t
<1>4. q - p = Len(w)
  BY <1>1
<1>5. ASSUME NEW k \in 1 .. Len(t) PROVE t[k] = w[k]
  <2>1. k \in 1 .. q - p /\ p + k - 1 \in p .. p + Len(w) - 1 /\ (p + k - 1) - p + 1 = k
    BY <1>1, <1>3, <1>4
  <2>2. QED  BY <1>1, <1>3, <2>1
<1>6. t = w
  BY <1>2, <1>3, <1>4, <1>5, SeqEqual
<1>7. QED  BY <1>6 DEF t

\* What a character begins decides which step reads it.
LEMMA OnlyOne ==
    ASSUME chars \in Seq(Character), at \in 1 .. Len(chars) + 1, More, Lex
    PROVE  /\ Begins \in {"LParen", "RParen", "Comma"} => Punctuation
           /\ Begins = "String" => String
           /\ Begins = "QuotedIdentifier" => QuotedIdentifier
           /\ Begins = "Number" => Number
           /\ Begins = "Word" => Word
           /\ Begins = "Operator" => Operator
<1>1. ~EndOfText
  <2>1. Start \in 1 .. Len(chars) /\ Len(chars) \in Nat
    BY StartFound
  <2>2. ~(Start > Len(chars))
    BY <2>1
  <2>3. QED  BY <2>2 DEF EndOfText
<1>2. /\ Punctuation => Begins \in {"LParen", "RParen", "Comma"}
      /\ String => Begins = "String"
      /\ QuotedIdentifier => Begins = "QuotedIdentifier"
      /\ Number => Begins = "Number"
      /\ Word => Begins = "Word"
      /\ Operator => Begins = "Operator"
      /\ UnexpectedCharacter => Begins = "nothing"
  BY DEF Punctuation, String, QuotedIdentifier, Number, Word, Operator, UnexpectedCharacter
<1> DEFINE b == Begins
<1>3. b = Begins
  OBVIOUS
<1> HIDE DEF b
<1>4. QED  BY <1>1, <1>2, <1>3 DEF Lex

LEMMA PlacedPunctuation ==
    ASSUME chars \in Seq(Character), at \in 1 .. Len(chars) + 1, More, Lex,
           NEW kind \in {"LParen", "RParen", "Comma"}, NEW text, Placed(chars, Start, text),
           WellFormed(kind, text, "none")
    PROVE  Emit(kind, text, Start + Len(text))
<1>1. Start \in DOMAIN chars /\ chars[Start] = text[1]
  BY PlacedFirst
<1>2. text = <<chars[Start]>> /\ Len(text) = 1
      /\ (kind = "LParen" => chars[Start] = "(") /\ (kind = "RParen" => chars[Start] = ")")
      /\ (kind = "Comma" => chars[Start] = ",")
  <2>1. kind = "LParen" \/ kind = "RParen" \/ kind = "Comma"
    OBVIOUS
  <2>2. CASE kind = "LParen"
    <3>1. text = <<"(">>
      BY <2>2 DEF WellFormed
    <3>2. QED  BY <1>1, <2>2, <3>1
  <2>3. CASE kind = "RParen"
    <3>1. text = <<")">>
      BY <2>3 DEF WellFormed
    <3>2. QED  BY <1>1, <2>3, <3>1
  <2>4. CASE kind = "Comma"
    <3>1. text = <<",">>
      BY <2>4 DEF WellFormed
    <3>2. QED  BY <1>1, <2>4, <3>1
  <2>5. QED  BY <2>1, <2>2, <2>3, <2>4
<1>3. Begins = kind
  BY <1>1, <1>2, BeginsIs
<1>4. Punctuation
  BY <1>3, OnlyOne
<1>5. QED  BY <1>2, <1>3, <1>4 DEF Punctuation

LEMMA PlacedNumber ==
    ASSUME chars \in Seq(Character), at \in 1 .. Len(chars) + 1, More, Lex, NEW text, Placed(chars, Start, text),
           IsNumber(text, SignAfter(Previous)), Separated(chars, Start + Len(text))
    PROVE  Emit("Number", text, Start + Len(text))
<1> DEFINE p == Start
           n == Len(text)
<1>1. /\ n \in Nat \ {0} /\ DOMAIN text = 1 .. n /\ Len(chars) \in Nat /\ DOMAIN chars = 1 .. Len(chars)
      /\ p \in DOMAIN chars /\ chars[p] = text[1] /\ p + n \in p .. Len(chars) + 1 /\ p \in 1 .. Len(chars) + 1
  BY PlacedFirst
<1>2. /\ text \in Seq(Character)
      /\ \A r \in 0 .. n - 1 : chars[p + r] = text[1 + r]
  BY DEF Placed
<1>3. PICK d, i, f, e : NumberAt(text, 1, d, i, f, e, n + 1)
  BY DEF IsNumber
<1>4. /\ ~At(chars, p + n, Digits \cup Signs \cup {".", "e", "E"})
  BY DEF Separated, Separators, At, Digits, Signs, Space
<1> HIDE DEF p, n
<1>5. /\ 1 \in 1 .. n + 1 /\ p + ((n + 1) - 1) = p + n /\ (n + 1) - 1 - 1 = n - 1 /\ p + n <= Len(chars) + 1
  BY <1>1
<1>6. \A r \in 0 .. (n + 1) - 1 - 1 : chars[p + r] = text[1 + r]
  BY <1>2, <1>5
<1>7. PICK d1, i1, f1, e1 : NumberAt(chars, p, d1, i1, f1, e1, p + ((n + 1) - 1))
  BY <1>1, <1>2, <1>3, <1>4, <1>5, <1>6, NumberMoves DEF n
<1>8. NumberEnd(chars, p) = p + n /\ StartsNumber(chars, p, TRUE)
  BY <1>1, <1>5, <1>7, NumberReads
<1>9. StartsNumber(chars, p, SignStartsNumber)
  <2>1. SignStartsNumber = SignAfter(Previous)
    BY DEF SignStartsNumber, SignAfter
  <2>2. StartsNumber(text, 1, SignAfter(Previous))
    BY DEF IsNumber
  <2>3. At(text, 1, Signs) <=> At(chars, p, Signs)
    BY <1>1 DEF At
  <2>4. At(text, 1, Signs) => SignAfter(Previous)
    <3>1. At(text, 1, Signs) => ~At(text, 1, Digits) /\ ~At(text, 1, {"."})
      BY DEF At, Signs, Digits
    <3>2. QED  BY <2>2, <3>1 DEF StartsNumber
  <2>5. QED  BY <1>8, <2>1, <2>3, <2>4 DEF StartsNumber
<1>10. Begins = "Number"
  BY <1>1, <1>9, BeginsIs DEF p
<1>11. Number
  BY <1>10, OnlyOne
<1>12. Run(chars, p, p + n) = text
  BY PlacedRun DEF p, n
<1>13. p + n # 0
  BY <1>1
<1>14. QED  BY <1>8, <1>11, <1>12, <1>13 DEF Number, p, n

LEMMA PlacedWord ==
    ASSUME chars \in Seq(Character), at \in 1 .. Len(chars) + 1, More, Lex,
           NEW kind \in {"Keyword", "Identifier"}, NEW text, Placed(chars, Start, text),
           WellFormed(kind, text, "none"), Separated(chars, Start + Len(text))
    PROVE  Emit(kind, text, Start + Len(text))
<1> DEFINE p == Start
           n == Len(text)
<1>1. /\ n \in Nat \ {0} /\ DOMAIN text = 1 .. n /\ Len(chars) \in Nat /\ DOMAIN chars = 1 .. Len(chars)
      /\ p \in DOMAIN chars /\ chars[p] = text[1] /\ p + n \in p .. Len(chars) + 1 /\ p \in 1 .. Len(chars) + 1
      /\ \A j \in p .. p + n - 1 : j - p + 1 \in 1 .. n /\ chars[j] = text[j - p + 1]
  BY PlacedFirst
<1>2. kind = "Keyword" => text = <<"I", "N">>
  BY DEF WellFormed, Keywords
<1>3. text[1] \in Letters /\ \A k \in 1 .. n : text[k] \in IdentifierPart
  <2>1. CASE kind = "Keyword"
    <3>1. text = <<"I", "N">> /\ n = 2
      BY <1>2, <2>1
    <3>2. text[1] = "I" /\ text[2] = "N"
      BY <3>1
    <3>3. \A k \in 1 .. 2 : k = 1 \/ k = 2
      OBVIOUS
    <3>4. "I" \in Letters /\ "N" \in Letters /\ Letters \subseteq IdentifierPart
      BY DEF Letters, IdentifierPart
    <3>5. QED  BY <3>1, <3>2, <3>3, <3>4
  <2>2. CASE kind = "Identifier"
    BY <1>1, <2>2 DEF WellFormed, IsName
  <2>3. QED  BY <2>1, <2>2
<1>4. ~At(chars, p + n, IdentifierPart)
  BY DEF Separated, Separators, At, IdentifierPart, Letters, Digits, Space
<1> HIDE DEF p, n
<1>5. \A r \in p .. p + n - 1 : chars[r] \in IdentifierPart
  BY <1>1, <1>3
<1>6. RunEnd(chars, p, IdentifierPart) = p + n
  <2> DEFINE q == p + n
  <2>1. q \in p .. Len(chars) + 1 /\ p \in 1 .. Len(chars) + 1 /\ ~At(chars, q, IdentifierPart)
        /\ \A r \in p .. q - 1 : chars[r] \in IdentifierPart
    BY <1>1, <1>4, <1>5
  <2> HIDE DEF q
  <2>2. RunEnd(chars, p, IdentifierPart) = q
    BY <2>1, RunEndIs
  <2>3. QED  BY <2>2 DEF q
<1>7. Begins = "Word"
  BY <1>1, <1>3, BeginsIs DEF p
<1>8. Word
  BY <1>7, OnlyOne
<1>9. Run(chars, p, p + n) = text
  BY PlacedRun DEF p, n
<1>10. IF Upper(text) \in Keywords THEN Emit("Keyword", Upper(text), p + n)
       ELSE Emit("Identifier", text, p + n)
  BY <1>6, <1>8, <1>9 DEF Word, p
<1>11. CASE kind = "Keyword"
  <2>1. text = <<"I", "N">>
    BY <1>2, <1>11
  <2>2. Upper(<<"I", "N">>) = <<"I", "N">>
    <3>1. DOMAIN <<"I", "N">> = 1 .. 2 /\ <<"I", "N">>[1] = "I" /\ <<"I", "N">>[2] = "N"
      OBVIOUS
    <3>2. Upper(<<"I", "N">>) = [k \in 1 .. 2 |-> <<"I", "N">>[k]]
      <4>1. \A k \in 1 .. 2 : <<"I", "N">>[k] = "I" \/ <<"I", "N">>[k] = "N"
        BY <3>1
      <4>2. \A k \in 1 .. 2 : <<"I", "N">>[k] =
                  CASE <<"I", "N">>[k] = "i" -> "I" [] <<"I", "N">>[k] = "n" -> "N"
                    [] <<"I", "N">>[k] = "e" -> "E" [] OTHER -> <<"I", "N">>[k]
        BY <4>1
      <4>3. QED  BY <3>1, <4>2 DEF Upper
    <3>3. QED  BY <3>2
  <2>3. QED  BY <1>10, <1>11, <2>1, <2>2 DEF Keywords, p, n
<1>12. CASE kind = "Identifier"
  <2>1. Upper(text) \notin Keywords
    BY <1>12 DEF WellFormed
  <2>2. QED  BY <1>10, <1>12, <2>1 DEF p, n
<1>13. QED  BY <1>11, <1>12

\* A text between two marks, where it stands.
Inside(cs, p, mark, t) ==
    /\ Len(t) \in Nat /\ Len(mark \o t \o mark) = Len(t) + 2 /\ p + 1 + Len(t) \in p + 1 .. Len(cs)
    /\ cs[p] = mark[1] /\ cs[p + 1 + Len(t)] = mark[1]
    /\ \A i \in 1 .. Len(t) : cs[p + i] = t[i]
    /\ t # << >> => Placed(cs, p + 1, t)

LEMMA PlacedInside ==
    ASSUME NEW cs \in Seq(Character), NEW p, NEW mark \in Seq(Character), Len(mark) = 1,
           NEW t \in Seq(Character), Placed(cs, p, mark \o t \o mark)
    PROVE  Inside(cs, p, mark, t)
<1> DEFINE w == mark \o t \o mark
           n == Len(t)
<1>1. /\ w \in Seq(Character) /\ Len(w) = n + 2 /\ n \in Nat
      /\ w[1] = mark[1] /\ w[n + 2] = mark[1]
      /\ \A i \in 1 .. n : w[i + 1] = t[i]
  BY Enclosed
<1>2. /\ p \in 1 .. Len(cs) /\ p + Len(w) \in p + 1 .. Len(cs) + 1
      /\ \A r \in 0 .. Len(w) - 1 : cs[p + r] = w[1 + r]
  BY DEF Placed
<1>3. Len(cs) \in Nat
  BY LenProperties
<1> HIDE DEF w, n
<1>4. p + 1 + n \in p + 1 .. Len(cs) /\ p + 1 + n = p + (n + 1)
  BY <1>1, <1>2, <1>3
<1>5. cs[p] = mark[1]
  <2>1. 0 \in 0 .. Len(w) - 1 /\ p + 0 = p /\ 1 + 0 = 1
    BY <1>1, <1>2
  <2>2. QED  BY <1>1, <1>2, <2>1
<1>6. cs[p + 1 + n] = mark[1]
  <2>1. n + 1 \in 0 .. Len(w) - 1 /\ 1 + (n + 1) = n + 2
    BY <1>1
  <2>2. QED  BY <1>1, <1>2, <1>4, <2>1
<1>7. ASSUME NEW i \in 1 .. n PROVE cs[p + i] = t[i]
  <2>1. i \in 0 .. Len(w) - 1 /\ 1 + i = i + 1
    BY <1>1
  <2>2. QED  BY <1>1, <1>2, <2>1
<1>8. ASSUME t # << >> PROVE Placed(cs, p + 1, t)
  <2>1. n # 0
    BY <1>8, EmptySeq DEF n
  <2>2. p + 1 \in 1 .. Len(cs) /\ (p + 1) + n \in (p + 1) + 1 .. Len(cs) + 1
    BY <1>1, <1>2, <1>3, <1>4, <2>1
  <2>3. ASSUME NEW r \in 0 .. n - 1 PROVE cs[(p + 1) + r] = t[1 + r]
    <3>1. 1 + r \in 1 .. n /\ (p + 1) + r = p + (1 + r)
      BY <1>1, <1>2
    <3>2. QED  BY <1>7, <3>1
  <2>4. QED  BY <2>2, <2>3 DEF Placed, n
<1>9. QED  BY <1>1, <1>4, <1>5, <1>6, <1>7, <1>8 DEF Inside, w, n

LEMMA PlacedQuotedIdentifier ==
    ASSUME chars \in Seq(Character), at \in 1 .. Len(chars) + 1, More, Lex,
           NEW text \in Seq(Character), IsName(text), Placed(chars, Start, <<Double>> \o text \o <<Double>>)
    PROVE  Emit("QuotedIdentifier", text, Start + Len(<<Double>> \o text \o <<Double>>))
<1> DEFINE p == Start
           n == Len(text)
           w == <<Double>> \o text \o <<Double>>
<1>1. <<Double>> \in Seq(Character) /\ Len(<<Double>>) = 1 /\ <<Double>>[1] = Double
  BY QuotesTyped
<1>2. /\ n \in Nat /\ Len(w) = n + 2 /\ p + 1 + n \in p + 1 .. Len(chars)
      /\ chars[p] = Double /\ chars[p + 1 + n] = Double
      /\ \A i \in 1 .. n : chars[p + i] = text[i]
      /\ text # << >> => Placed(chars, p + 1, text)
  <2> DEFINE mark == <<Double>>
  <2>1. mark \in Seq(Character) /\ Len(mark) = 1 /\ mark[1] = Double
    BY <1>1
  <2>2. Placed(chars, p, mark \o text \o mark) /\ w = mark \o text \o mark
    OBVIOUS
  <2>3. Placed(chars, p, mark \o text \o mark)
    BY <2>2
  <2> HIDE DEF mark, w, p, n
  <2>4. Inside(chars, p, mark, text)
    BY <2>1, <2>3, PlacedInside
  <2>5. QED  BY <2>1, <2>2, <2>4 DEF n, Inside
<1>3. text # << >> /\ text[1] \in Letters /\ \A k \in 1 .. n : text[k] \in IdentifierPart
  BY LenProperties DEF IsName
<1>4. /\ n \in Nat \ {0} /\ p + 1 \in DOMAIN chars /\ chars[p + 1] = text[1] /\ DOMAIN chars = 1 .. Len(chars)
      /\ p + 1 + n \in p + 1 .. Len(chars) + 1 /\ p + 1 \in 1 .. Len(chars) + 1
      /\ \A j \in p + 1 .. p + 1 + n - 1 : j - (p + 1) + 1 \in 1 .. n /\ chars[j] = text[j - (p + 1) + 1]
  BY <1>2, <1>3, PlacedFirst
<1>5. p \in DOMAIN chars /\ Len(chars) \in Nat
  BY PlacedFirst
<1>6. Run(chars, p + 1, p + 1 + n) = text
  BY <1>2, <1>3, PlacedRun
<1> HIDE DEF p, n, w
<1>7. ~At(chars, p + 1 + n, IdentifierPart)
  BY <1>2 DEF At, Double, IdentifierPart, Letters, Digits
<1>8. RunEnd(chars, p + 1, IdentifierPart) = p + 1 + n
  <2> DEFINE a == p + 1
             q == p + 1 + n
  <2>1. q \in a .. Len(chars) + 1 /\ a \in 1 .. Len(chars) + 1 /\ ~At(chars, q, IdentifierPart)
    BY <1>4, <1>7
  <2>2. ASSUME NEW r \in a .. q - 1 PROVE chars[r] \in IdentifierPart
    <3>1. p \in Int /\ n \in Int
      BY <1>4, <1>5
    <3>2. q - 1 = p + 1 + n - 1
      BY <3>1
    <3>3. r \in p + 1 .. p + 1 + n - 1
      BY <3>2
    <3>4. r - (p + 1) + 1 \in 1 .. n /\ chars[r] = text[r - (p + 1) + 1]
      BY <1>4, <3>3, ZenonT(30)
    <3>5. QED  BY <1>3, <3>4
  <2> HIDE DEF a, q
  <2>3. RunEnd(chars, a, IdentifierPart) = q
    BY <2>1, <2>2, RunEndIs
  <2>4. QED  BY <2>3 DEF a, q
<1>9. QuotedEnd(chars, p) = p + 1 + n
  <2>1. At(chars, p + 1, Letters)
    BY <1>3, <1>4 DEF At
  <2>2. At(chars, p + 1 + n, {Double})
    BY <1>2, <1>4, <1>5 DEF At
  <2>3. QED  BY <1>8, <2>1, <2>2 DEF QuotedEnd
<1>10. Begins = "QuotedIdentifier"
  BY <1>2, <1>5, BeginsIs DEF p
<1>11. QuotedIdentifier
  BY <1>10, OnlyOne
<1>12. p + 1 + n # 0 /\ p + 1 + n + 1 = p + (n + 2)
  BY <1>4, <1>5
<1>13. Emit("QuotedIdentifier", Run(chars, p + 1, p + 1 + n), p + 1 + n + 1)
  BY <1>9, <1>11, <1>12 DEF QuotedIdentifier, p
<1>14. QED  BY <1>2, <1>6, <1>12, <1>13 DEF p, w

LEMMA PlacedOperator ==
    ASSUME chars \in Seq(Character), at \in 1 .. Len(chars) + 1, More, Lex,
           NEW text, Placed(chars, Start, text),
           WellFormed("Operator", text, "none"), Separated(chars, Start + Len(text))
    PROVE  Emit("Operator", text, Start + Len(text))
<1> DEFINE p == Start
           n == Len(text)
<1>1. /\ n \in Nat \ {0} /\ DOMAIN text = 1 .. n /\ Len(chars) \in Nat /\ DOMAIN chars = 1 .. Len(chars)
      /\ p \in DOMAIN chars /\ chars[p] = text[1] /\ p + n \in p .. Len(chars) + 1 /\ p \in 1 .. Len(chars) + 1
      /\ \A j \in p .. p + n - 1 : j - p + 1 \in 1 .. n /\ chars[j] = text[j - p + 1]
  BY PlacedFirst
<1>2. (n = 1 /\ text[1] \in OperatorChars) \/ text \in LongOperators
  BY DEF WellFormed
<1>3. p + n \in DOMAIN chars => chars[p + n] \in Separators
  BY DEF Separated
<1>4. Run(chars, p, p + n) = text
  BY PlacedRun
<1>5. text \in LongOperators => n = 2 /\ text[1] \in {"<", ">"} /\ text[2] \in {"=", ">"} /\ text[1] \in OperatorChars
  <2>1. ASSUME text \in LongOperators PROVE text = <<"<", "=">> \/ text = <<">", "=">> \/ text = <<"<", ">">>
    BY <2>1 DEF LongOperators
  <2>2. QED  BY <2>1 DEF OperatorChars
<1> HIDE DEF p, n
<1>6. ~StartsNumber(chars, p, SignStartsNumber)
  <2>1. ASSUME StartsNumber(chars, p, SignStartsNumber) PROVE FALSE
    <3>1. chars[p] \in Digits \cup Signs \cup {"."}
      BY <2>1, StartsWith
    <3>2. chars[p] \in OperatorChars
      BY <1>1, <1>2, <1>5
    <3>3. chars[p] \in Signs /\ chars[p] \notin {"<", ">"}
      BY <3>1, <3>2 DEF OperatorChars, Digits, Signs
    <3>4. n = 1
      BY <1>1, <1>2, <1>5, <3>3
    <3>5. ~At(chars, p, Digits) /\ ~At(chars, p, {"."})
      BY <3>3 DEF At, Signs, Digits
    <3>6. At(chars, p + 1, Digits) \/ At(chars, p + 1, {"."})
      BY <2>1, <3>5 DEF StartsNumber
    <3>7. p + 1 \in DOMAIN chars => chars[p + 1] \in Separators
      BY <1>3, <3>4
    <3>8. QED  BY <3>6, <3>7 DEF At, Separators, Space, Digits
  <2>2. QED  BY <2>1
<1>7. Begins = "Operator"
  BY <1>1, <1>2, <1>5, <1>6, BeginsIs DEF p
<1>8. Operator
  BY <1>7, OnlyOne
<1> DEFINE long == \E op \in LongOperators : At(chars, p, {op[1]}) /\ At(chars, p + 1, {op[2]})
<1>9. Emit("Operator", Run(chars, p, IF long THEN p + 2 ELSE p + 1), IF long THEN p + 2 ELSE p + 1)
  BY <1>8 DEF Operator, p
<1>10. long <=> n = 2
  <2>1. ASSUME long PROVE n = 2
    <3>1. PICK op \in LongOperators : At(chars, p, {op[1]}) /\ At(chars, p + 1, {op[2]})
      BY <2>1
    <3>2. op[2] \in {"=", ">"}
      <4>1. op = <<"<", "=">> \/ op = <<">", "=">> \/ op = <<"<", ">">>
        BY DEF LongOperators
      <4>2. QED  BY <4>1
    <3>3. p + 1 \in DOMAIN chars /\ chars[p + 1] \in {"=", ">"}
      BY <3>1, <3>2 DEF At
    <3>4. n # 1
      BY <1>3, <3>3 DEF Separators, Space
    <3>5. QED  BY <1>2, <1>5, <3>4
  <2>2. ASSUME n = 2 PROVE long
    <3>1. text \in LongOperators
      BY <1>2, <2>2
    <3>2. p + 1 \in p .. p + n - 1 /\ (p + 1) - p + 1 = 2 /\ p + 1 \in DOMAIN chars
      BY <1>1, <2>2
    <3>3. chars[p + 1] = text[2]
      BY <1>1, <3>2
    <3>4. QED  BY <1>1, <3>1, <3>2, <3>3 DEF At
  <2>3. QED  BY <2>1, <2>2
<1> HIDE DEF long
<1>11. n = 1 \/ n = 2
  BY <1>2, <1>5
<1>12. CASE long
  BY <1>4, <1>9, <1>10, <1>12 DEF p, n
<1>13. CASE ~long
  <2>1. n = 1
    BY <1>10, <1>11, <1>13
  <2>2. QED  BY <1>4, <1>9, <1>13, <2>1 DEF p, n
<1>14. QED  BY <1>12, <1>13

-----------------------------------------------------------------------------
(* Strings, written with their quotes doubled and read again.              *)

EscapedAt(v, k) == v[k] = Escape /\ (k = Len(v) \/ v[k + 1] = Quote)

HasEscape(v) == \E k \in 1 .. Len(v) : EscapedAt(v, k)

\* The characters of v from after p on, the k-th at pos[k], and the closing
\* quote after them.
Spread(cs, p, v, pos) ==
    /\ pos[1] = p + 1 /\ pos[Len(v) + 1] \in 1 .. Len(cs) /\ cs[pos[Len(v) + 1]] = Quote
    /\ \A k \in 1 .. Len(v) :
          /\ pos[k] \in p + 1 .. Len(cs) - 1
          /\ pos[k + 1] = IF v[k] = Quote THEN pos[k] + 2 ELSE pos[k] + 1
          /\ cs[pos[k]] = v[k]
          /\ v[k] = Quote => cs[pos[k] + 1] = Quote

LEMMA DoubledIs ==
    ASSUME NEW c \in Character
    PROVE  /\ Len(Doubled(c)) = (IF c = Quote THEN 2 ELSE 1) /\ Doubled(c)[1] = c
           /\ c = Quote => Doubled(c)[2] = Quote
BY DEF Doubled

LEMMA QuotedSpreads ==
    ASSUME NEW cs \in Seq(Character), NEW p, NEW v \in Seq(Character), Placed(cs, p, QuoteString(v))
    PROVE  \E pos : /\ Spread(cs, p, v, pos) /\ cs[p] = Quote
                    /\ pos[Len(v) + 1] + 1 = p + Len(QuoteString(v)) /\ p + 1 <= pos[Len(v) + 1]
<1> DEFINE n == Len(v)
           dp == DoubledPieces(v)
<1>1. PICK g : Joins(dp, g) /\ QuoteString(v) = <<Quote>> \o g[n] \o <<Quote>>
  BY QuoteJoins
<1>2. /\ dp \in Seq(Seq(Character)) /\ Len(dp) = n /\ n \in Nat
      /\ \A k \in 1 .. n : dp[k] = Doubled(v[k])
  BY DoubledPiecesTyped, LenProperties
<1> HIDE DEF n, dp
<1>3. JoinedTo(dp, g, n)
  <2>1. n \in 0 .. Len(dp)
    BY <1>2
  <2>2. QED  BY <1>1, <1>2, <2>1, JoinedAt
<1> DEFINE b == g[n]
           m == Len(b)
<1>4. /\ b \in Seq(Character) /\ m \in Nat /\ g[0] = << >>
      /\ \A k \in 1 .. n :
            /\ Len(g[k]) = Len(g[k - 1]) + Len(dp[k]) /\ Len(g[k]) <= m
            /\ Len(g[k - 1]) \in Nat
            /\ \A j \in 1 .. Len(dp[k]) : b[Len(g[k - 1]) + j] = dp[k][j]
  BY <1>1, <1>3 DEF JoinedTo, PieceIn, Joins
<1>5. /\ m \in Nat /\ Len(QuoteString(v)) = m + 2 /\ p + 1 + m \in p + 1 .. Len(cs)
      /\ cs[p] = Quote /\ cs[p + 1 + m] = Quote
      /\ \A i \in 1 .. m : cs[p + i] = b[i]
  <2> HIDE DEF b
  <2> DEFINE mark == <<Quote>>
  <2>1. mark \in Seq(Character) /\ Len(mark) = 1 /\ mark[1] = Quote
    BY QuotesTyped
  <2>2. QuoteString(v) = mark \o b \o mark
    BY <1>1 DEF b
  <2> HIDE DEF mark, m
  <2>3. Placed(cs, p, mark \o b \o mark)
    BY <2>2
  <2>4. b \in Seq(Character)
    BY <1>4
  <2>5. Inside(cs, p, mark, b)
    BY <2>1, <2>3, <2>4, PlacedInside
  <2>6. QED  BY <2>1, <2>2, <2>5 DEF m, Inside
<1>6. p \in 1 .. Len(cs) /\ Len(cs) \in Nat
  BY LenProperties DEF Placed
<1> DEFINE pos == [k \in 1 .. n + 1 |-> p + 1 + Len(g[k - 1])]
<1>7. 1 \in 1 .. n + 1 /\ 1 - 1 = 0 /\ n + 1 \in 1 .. n + 1 /\ (n + 1) - 1 = n
  BY <1>2
<1>8. pos[1] = p + 1
  <2> DEFINE z == Len(g[0])
  <2>1. z = 0
    BY <1>4
  <2>2. pos[1] = p + 1 + z
    BY <1>7
  <2> HIDE DEF z, pos
  <2>3. QED  BY <1>6, <2>1, <2>2
<1>9. pos[n + 1] = p + 1 + m
  BY <1>7
<1>10. ASSUME NEW k \in 1 .. n
       PROVE  /\ pos[k] \in p + 1 .. Len(cs) - 1
              /\ pos[k + 1] = IF v[k] = Quote THEN pos[k] + 2 ELSE pos[k] + 1
              /\ cs[pos[k]] = v[k]
              /\ v[k] = Quote => cs[pos[k] + 1] = Quote
  <2>1. v[k] \in Character
    BY ElementOfSeq DEF n
  <2>2. /\ Len(dp[k]) = (IF v[k] = Quote THEN 2 ELSE 1) /\ dp[k][1] = v[k]
        /\ v[k] = Quote => dp[k][2] = Quote
    BY <1>2, <2>1, DoubledIs
  <2>3. k \in 1 .. n + 1 /\ k + 1 \in 1 .. n + 1 /\ (k + 1) - 1 = k
    BY <1>2
  <2> DEFINE a == Len(g[k - 1])
             c == Len(g[k])
  <2>4. pos[k] = p + 1 + a /\ pos[k + 1] = p + 1 + c
    BY <2>3
  <2>5. /\ c = a + Len(dp[k]) /\ c <= m /\ a \in Nat
        /\ \A j \in 1 .. Len(dp[k]) : b[a + j] = dp[k][j]
    BY <1>4
  <2> HIDE DEF a, c, b, m, pos
  <2>6. 1 \in 1 .. Len(dp[k]) /\ a + 1 \in 1 .. m /\ (v[k] = Quote => 2 \in 1 .. Len(dp[k]) /\ a + 2 \in 1 .. m)
    BY <1>5, <2>2, <2>5
  <2>7. cs[p + (a + 1)] = v[k] /\ (v[k] = Quote => cs[p + (a + 2)] = Quote)
    BY <1>5, <2>2, <2>5, <2>6
  <2>8. p + 1 + a = p + (a + 1) /\ (p + 1 + a) + 1 = p + (a + 2) /\ p + 1 + a \in p + 1 .. Len(cs) - 1
    <3>1. p \in Nat /\ a \in Nat /\ m \in Nat /\ a + 1 <= m
      BY <1>5, <1>6, <2>5, <2>6
    <3>2. p + 1 + m <= Len(cs) /\ Len(cs) \in Nat
      BY <1>5, <1>6
    <3>3. p + 1 + a = p + (a + 1) /\ (p + 1 + a) + 1 = p + (a + 2)
      BY <3>1
    <3>4. QED  BY ONLY <3>1, <3>2, <3>3
  <2>9. p + 1 + c = IF v[k] = Quote THEN (p + 1 + a) + 2 ELSE (p + 1 + a) + 1
    BY <1>6, <2>2, <2>5
  <2>10. QED  BY <2>4, <2>7, <2>8, <2>9
<1> HIDE DEF pos, m
<1>11. pos[n + 1] + 1 = p + (m + 2) /\ p + 1 + m \in 1 .. Len(cs) /\ p + 1 <= pos[n + 1]
  BY <1>5, <1>6, <1>9
<1>12. Spread(cs, p, v, pos)
  BY <1>5, <1>8, <1>9, <1>10, <1>11 DEF Spread, n
<1>13. QED  BY <1>5, <1>11, <1>12 DEF n

Reading(cs, p, read) == \A q \in p + 1 .. Len(cs) + 2 : read[q] = ReadFrom(cs, read, q)

ReadsOn(v, pos, read, k) ==
    IF EscapedAt(v, k)
    THEN read[pos[k]].value = <<Quote>> \o read[pos[k] + 2].value
    ELSE read[pos[k]] = [value |-> <<v[k]>> \o read[pos[k + 1]].value, end |-> read[pos[k + 1]].end]

\* stringToken at the k-th character of a string written anew.
LEMMA OneRead ==
    ASSUME NEW cs \in Seq(Character), NEW p \in Nat, NEW v \in Seq(Character), NEW pos, Spread(cs, p, v, pos),
           NEW read, Reading(cs, p, read), NEW k \in 1 .. Len(v)
    PROVE  ReadsOn(v, pos, read, k)
<1> DEFINE q == pos[k]
           r == pos[k + 1]
           n == Len(v)
<1>1. /\ n \in Nat /\ Len(cs) \in Nat /\ DOMAIN cs = 1 .. Len(cs)
  BY LenProperties
<1>2. /\ q \in p + 1 .. Len(cs) - 1
      /\ r = IF v[k] = Quote THEN q + 2 ELSE q + 1
      /\ cs[q] = v[k]
      /\ v[k] = Quote => cs[q + 1] = Quote
  BY DEF Spread
<1>3. cs[pos[n + 1]] = Quote
  BY DEF Spread
<1>4. k + 1 \in 1 .. n => cs[r] = v[k + 1]
  BY DEF Spread
<1>5. k = n => cs[r] = Quote
  BY <1>3
<1>6. k # n => k + 1 \in 1 .. n
  BY <1>1
<1> HIDE DEF q, r, n
<1>7. /\ q \in DOMAIN cs /\ q + 1 \in DOMAIN cs /\ ~(q > Len(cs)) /\ q \in p + 1 .. Len(cs) + 2
  BY <1>1, <1>2
<1>8. read[q] = ReadFrom(cs, read, q)
  BY <1>7 DEF Reading
<1>9. QuotedAt(cs, q) <=> v[k] \in {Quote, Escape} /\ cs[q + 1] = Quote
  BY <1>2, <1>7 DEF QuotedAt, At
<1>10. CASE EscapedAt(v, k)
  <2>1. v[k] = Escape /\ v[k] # Quote
    BY <1>10 DEF EscapedAt, Escape, Quote
  <2>2. r = q + 1
    BY <1>2, <2>1
  <2>3. cs[r] = Quote
    <3>1. CASE k = n
      BY <1>5, <3>1
    <3>2. CASE k # n
      BY <1>4, <1>6, <1>10, <3>2 DEF EscapedAt, n
    <3>3. QED  BY <3>1, <3>2
  <2>4. QuotedAt(cs, q)
    BY <1>9, <2>1, <2>2, <2>3
  <2>5. read[q] = [value |-> <<Quote>> \o read[q + 2].value, end |-> read[q + 2].end]
    BY <1>7, <1>8, <2>4 DEF ReadFrom
  <2>6. read[q].value = <<Quote>> \o read[q + 2].value
    BY <2>5
  <2>7. QED  BY <1>10, <2>6 DEF q, ReadsOn
<1>11. CASE ~EscapedAt(v, k)
  <2>1. CASE v[k] = Quote
    <3>1. QuotedAt(cs, q) /\ r = q + 2
      BY <1>2, <1>9, <2>1
    <3>2. read[q] = [value |-> <<Quote>> \o read[r].value, end |-> read[r].end]
      BY <1>7, <1>8, <3>1 DEF ReadFrom
    <3>3. QED  BY <1>11, <2>1, <3>2 DEF q, r, ReadsOn
  <2>2. CASE v[k] # Quote
    <3>1. r = q + 1
      BY <1>2, <2>2
    <3>2. ~QuotedAt(cs, q)
      <4>1. CASE v[k] = Escape
        <5>1. k # n /\ v[k + 1] # Quote
          BY <1>11, <4>1 DEF EscapedAt, n
        <5>2. QED  BY <1>4, <1>6, <1>9, <3>1, <5>1
      <4>2. CASE v[k] # Escape
        BY <1>9, <2>2, <4>2
      <4>3. QED  BY <4>1, <4>2
    <3>3. cs[q] # Quote
      BY <1>2, <2>2
    <3>4. read[q] = [value |-> <<cs[q]>> \o read[r].value, end |-> read[r].end]
      BY <1>7, <1>8, <3>1, <3>2, <3>3 DEF ReadFrom
    <3>5. QED  BY <1>2, <1>11, <3>4 DEF q, r, ReadsOn
  <2>3. QED  BY <2>1, <2>2
<1>12. QED  BY <1>10, <1>11

LEMMA OnePlus ==
    ASSUME NEW c \in Character, NEW t \in Seq(Character)
    PROVE  /\ <<c>> \o t \in Seq(Character) /\ Len(<<c>> \o t) = Len(t) + 1 /\ Len(t) \in Nat
           /\ (<<c>> \o t)[1] = c
           /\ \A i \in 1 .. Len(t) : (<<c>> \o t)[i + 1] = t[i]
<1> DEFINE u == <<c>>
<1>1. u \in Seq(Character) /\ Len(u) = 1 /\ u[1] = c
  OBVIOUS
<1>2. Len(t) \in Nat
  BY LenProperties
<1> HIDE DEF u
<1>3. /\ u \o t \in Seq(Character) /\ Len(u \o t) = Len(u) + Len(t)
      /\ \A i \in 1 .. Len(u) + Len(t) : (u \o t)[i] = IF i <= Len(u) THEN u[i] ELSE t[i - Len(u)]
  BY <1>1, ConcatProperties
<1>4. (u \o t)[1] = c
  <2>1. 1 \in 1 .. Len(u) + Len(t) /\ 1 <= Len(u)
    BY <1>1, <1>2
  <2>2. QED  BY <1>1, <1>3, <2>1
<1>5. ASSUME NEW i \in 1 .. Len(t) PROVE (u \o t)[i + 1] = t[i]
  <2>1. i + 1 \in 1 .. Len(u) + Len(t) /\ ~(i + 1 <= Len(u)) /\ (i + 1) - Len(u) = i
    BY <1>1, <1>2
  <2>2. QED  BY <1>3, <2>1
<1>6. Len(u \o t) = Len(t) + 1
  BY <1>1, <1>2, <1>3
<1>7. QED  BY <1>2, <1>3, <1>4, <1>5, <1>6 DEF u

\* The value read from the k-th character of v on is the rest of v.
ReadBack(v, pos, read, k) ==
    LET s == read[pos[k]]
    IN  /\ s.end = pos[Len(v) + 1] /\ s.value \in Seq(Character) /\ Len(s.value) + k = Len(v) + 1
        /\ \A i \in k .. Len(v) : s.value[i - k + 1] = v[i]

\* No quote follows the closing one, at q.
ClosedAt(cs, p, q) == ~At(cs, q + 1, {Quote}) /\ p + 1 <= q

LEMMA ReadsWhole ==
    ASSUME NEW cs \in Seq(Character), NEW p \in Nat, NEW v \in Seq(Character), NEW pos, Spread(cs, p, v, pos),
           NEW read, Reading(cs, p, read),
           ClosedAt(cs, p, pos[Len(v) + 1]), ~HasEscape(v)
    PROVE  read[p + 1].value = v /\ read[p + 1].end = pos[Len(v) + 1]
<1> DEFINE n == Len(v)
           lo == 1
           hi == n + 1
           S == {k \in lo .. hi : ReadBack(v, pos, read, k)}
<1>1. n \in Nat /\ Len(cs) \in Nat /\ lo = 1 /\ hi = n + 1 /\ lo \in Int /\ hi \in Int /\ DOMAIN cs = 1 .. Len(cs)
  BY LenProperties
<1> HIDE DEF n
<1>2. ASSUME NEW k \in lo .. hi, \A j \in k + 1 .. hi : j \in S PROVE k \in S
  <2>1. CASE k = n + 1
    <3> DEFINE q == pos[n + 1]
    <3>1. cs[q] = Quote /\ q \in 1 .. Len(cs) /\ ~At(cs, q + 1, {Quote}) /\ p + 1 <= q
      BY DEF Spread, ClosedAt, n
    <3> HIDE DEF q
    <3>2. q \in p + 1 .. Len(cs) + 2 /\ ~(q > Len(cs)) /\ ~QuotedAt(cs, q)
      BY <1>1, <3>1 DEF QuotedAt
    <3>3. read[q] = [value |-> << >>, end |-> q]
      BY <3>1, <3>2 DEF ReadFrom, Reading
    <3>4. read[q].value = << >> /\ read[q].end = q /\ << >> \in Seq(Character) /\ Len(<< >>) + (n + 1) = n + 1
      BY <1>1, <3>3
    <3>5. \A i \in n + 1 .. n : FALSE
      BY <1>1
    <3>6. ReadBack(v, pos, read, n + 1)
      BY <3>4, <3>5 DEF ReadBack, q, n
    <3>7. QED  BY <1>1, <2>1, <3>6
  <2>2. CASE k \in 1 .. n
    <3>1. k + 1 \in k + 1 .. hi
      BY <1>1, <2>2
    <3>2. ReadBack(v, pos, read, k + 1)
      BY <1>2, <3>1
    <3>3. read[pos[k]] = [value |-> <<v[k]>> \o read[pos[k + 1]].value, end |-> read[pos[k + 1]].end]
      <4>1. ReadsOn(v, pos, read, k)
        BY <2>2, OneRead DEF n
      <4>2. ~EscapedAt(v, k)
        BY <2>2 DEF n, HasEscape
      <4>3. QED  BY <4>1, <4>2 DEF ReadsOn
    <3> DEFINE rest == read[pos[k + 1]].value
               whole == read[pos[k]].value
    <3>4. /\ read[pos[k + 1]].end = pos[n + 1] /\ rest \in Seq(Character) /\ Len(rest) + (k + 1) = n + 1
          /\ \A i \in k + 1 .. n : rest[i - (k + 1) + 1] = v[i]
      BY <3>2 DEF ReadBack, n
    <3>5. whole = <<v[k]>> \o rest /\ read[pos[k]].end = pos[n + 1]
      <4>1. whole = <<v[k]>> \o rest /\ read[pos[k]].end = read[pos[k + 1]].end
        BY <3>3, SMTT(30)
      <4>2. read[pos[k + 1]].end = pos[n + 1]
        BY <3>4
      <4>3. QED  BY <4>1, <4>2
    <3>6. v[k] \in Character
      BY <2>2, ElementOfSeq DEF n
    <3> HIDE DEF rest, whole
    <3>7. /\ whole \in Seq(Character) /\ Len(whole) = Len(rest) + 1 /\ Len(rest) \in Nat
          /\ whole[1] = v[k] /\ \A i \in 1 .. Len(rest) : whole[i + 1] = rest[i]
      BY <3>4, <3>5, <3>6, OnePlus
    <3>8. Len(whole) + k = n + 1
      BY <1>1, <2>2, <3>4, <3>7
    <3>9. ASSUME NEW i \in k .. n PROVE whole[i - k + 1] = v[i]
      <4>1. CASE i = k
        <5>1. i - k + 1 = 1
          BY <2>2, <4>1
        <5>2. QED  BY <3>7, <4>1, <5>1
      <4>2. CASE i # k
        <5>1. i \in k + 1 .. n /\ i - (k + 1) + 1 \in 1 .. Len(rest) /\ (i - (k + 1) + 1) + 1 = i - k + 1
          BY <1>1, <2>2, <3>4, <3>7, <4>2
        <5>2. whole[(i - (k + 1) + 1) + 1] = rest[i - (k + 1) + 1]
          BY <3>7, <5>1
        <5>3. QED  BY <3>4, <5>1, <5>2
      <4>3. QED  BY <4>1, <4>2
    <3>10. ReadBack(v, pos, read, k)
      BY <3>5, <3>7, <3>8, <3>9 DEF ReadBack, whole, n
    <3>11. QED  BY <3>10
  <2>3. k = n + 1 \/ k \in 1 .. n
    BY <1>1
  <2>4. QED  BY <2>1, <2>2, <2>3
<1>3. lo .. hi \subseteq S
  <2>1. lo \in Int /\ hi \in Int
    BY <1>1
  <2> HIDE DEF S, lo, hi
  <2>2. QED  BY <1>2, <2>1, DownInduction
<1>4. 1 \in lo .. hi
  BY <1>1
<1>5. ReadBack(v, pos, read, 1)
  BY <1>3, <1>4
<1>6. pos[1] = p + 1
  BY DEF Spread
<1> DEFINE value == read[p + 1].value
<1>7. /\ read[p + 1].end = pos[n + 1] /\ value \in Seq(Character) /\ Len(value) + 1 = n + 1
      /\ \A i \in 1 .. n : value[i - 1 + 1] = v[i]
  BY <1>5, <1>6 DEF ReadBack, n
<1> HIDE DEF value
<1>8. Len(value) = n
  <2>1. Len(value) \in Nat
    BY <1>7, LenProperties
  <2>2. QED  BY <1>1, <1>7, <2>1
<1>9. \A i \in 1 .. Len(value) : value[i] = v[i]
  <2>1. \A i \in 1 .. n : i - 1 + 1 = i
    BY <1>1
  <2>2. QED  BY <1>7, <1>8, <2>1
<1>10. value = v
  BY <1>7, <1>8, <1>9, SeqEqual DEF n
<1>11. QED  BY <1>7, <1>10 DEF value, n

LEMMA ReadsBroken ==
    ASSUME NEW cs \in Seq(Character), NEW p \in Nat, NEW v \in Seq(Character), NEW pos, Spread(cs, p, v, pos),
           p \in 1 .. Len(cs),
           NEW read, Reading(cs, p, read),
           NEW m \in 1 .. Len(v), EscapedAt(v, m)
    PROVE  read[p + 1].value # v
<1> DEFINE n == Len(v)
           T == {k \in Nat : k \in 1 .. n /\ EscapedAt(v, k)}
<1>1. n \in Nat /\ Len(cs) \in Nat
  BY LenProperties
<1>2. PICK j \in T : \A k \in T : j <= k
  <2>1. m \in T /\ T \subseteq Nat
    OBVIOUS
  <2> HIDE DEF T
  <2>2. QED  BY <2>1, NatLeast
<1>3. j \in 1 .. n /\ EscapedAt(v, j) /\ \A k \in 1 .. j - 1 : ~EscapedAt(v, k)
  <2>1. j \in Nat /\ j \in 1 .. n /\ EscapedAt(v, j)
    BY <1>2
  <2>2. ASSUME NEW k \in 1 .. j - 1 PROVE ~EscapedAt(v, k)
    <3>1. k \in Nat /\ k \in 1 .. n /\ ~(j <= k)
      BY <1>1, <2>1
    <3>2. QED  BY <1>2, <3>1
  <2>3. QED  BY <2>1, <2>2
<1> HIDE DEF T, n
<1>4. \A q \in p + 1 .. Len(cs) + 2 : read[q].value \in Seq(Character)
  <2>1. p + 1 \in 1 .. Len(cs) + 2
    BY <1>1
  <2> DEFINE lo == p + 1
  <2>2. lo \in 1 .. Len(cs) + 2 /\ \A q \in lo .. Len(cs) + 2 : read[q] = ReadFrom(cs, read, q)
    BY <2>1 DEF Reading
  <2> HIDE DEF lo
  <2>3. \A q \in lo .. Len(cs) + 2 : read[q].value \in Seq(Character)
    BY <2>2, StringTyped
  <2>4. QED  BY <2>3 DEF lo
<1> DEFINE Shows(k) == read[pos[k]].value[j - k + 1] = Quote /\ j - k + 1 \in 1 .. Len(read[pos[k]].value)
           lo == 1
           S == {k \in lo .. j : Shows(k)}
<1>5. j \in Nat /\ j \in 1 .. n /\ lo = 1 /\ lo \in Int /\ j \in Int
  BY <1>1, <1>3
<1>6. ASSUME NEW k \in 1 .. n
      PROVE  pos[k] \in p + 1 .. Len(cs) + 2 /\ pos[k] + 2 \in p + 1 .. Len(cs) + 2
  <2>1. pos[k] \in p + 1 .. Len(cs) - 1
    BY DEF Spread, n
  <2>2. QED  BY <1>1, <2>1
<1>7. ASSUME NEW k \in lo .. j, \A i \in k + 1 .. j : i \in S PROVE k \in S
  <2>1. CASE k = j
    <3>1. read[pos[j]].value = <<Quote>> \o read[pos[j] + 2].value
      <4>1. ReadsOn(v, pos, read, j)
        BY <1>3, OneRead DEF n
      <4>2. QED  BY <1>3, <4>1 DEF ReadsOn
    <3>2. Quote \in Character /\ read[pos[j] + 2].value \in Seq(Character)
      BY <1>3, <1>4, <1>6 DEF Character
    <3> DEFINE rest == read[pos[j] + 2].value
               whole == read[pos[j]].value
    <3> HIDE DEF rest, whole
    <3>3. Len(whole) = Len(rest) + 1 /\ Len(rest) \in Nat /\ whole[1] = Quote
      BY <3>1, <3>2, OnePlus DEF rest, whole
    <3>4. j - j + 1 = 1 /\ 1 \in 1 .. Len(whole)
      BY <1>5, <3>3
    <3>5. Shows(j)
      BY <3>3, <3>4 DEF whole
    <3>6. QED  BY <2>1, <3>5
  <2>2. CASE k \in 1 .. j - 1
    <3>1. k + 1 \in k + 1 .. j /\ k \in 1 .. n /\ k + 1 \in 1 .. n
      BY <1>1, <1>5, <2>2
    <3>2. Shows(k + 1)
      BY <1>7, <3>1
    <3>3. ~EscapedAt(v, k)
      BY <1>3, <2>2
    <3>4. read[pos[k]] = [value |-> <<v[k]>> \o read[pos[k + 1]].value, end |-> read[pos[k + 1]].end]
      <4>1. ReadsOn(v, pos, read, k)
        BY <3>1, OneRead DEF n
      <4>2. QED  BY <3>3, <4>1 DEF ReadsOn
    <3> DEFINE rest == read[pos[k + 1]].value
               whole == read[pos[k]].value
    <3>5. rest \in Seq(Character) /\ v[k] \in Character /\ whole = <<v[k]>> \o rest
      <4>1. v[k] \in Character
        BY <3>1, ElementOfSeq DEF n
      <4>2. pos[k + 1] \in p + 1 .. Len(cs) + 2
        BY <1>6, <3>1
      <4>3. QED  BY <1>4, <3>4, <4>1, <4>2, SMTT(30)
    <3>6. rest[j - (k + 1) + 1] = Quote /\ j - (k + 1) + 1 \in 1 .. Len(rest)
      BY <3>2
    <3> HIDE DEF rest, whole, Shows
    <3>7. /\ Len(whole) = Len(rest) + 1 /\ Len(rest) \in Nat
          /\ \A i \in 1 .. Len(rest) : whole[i + 1] = rest[i]
      BY <3>5, OnePlus
    <3>8. (j - (k + 1) + 1) + 1 = j - k + 1 /\ j - k + 1 \in 1 .. Len(whole)
      BY <1>5, <2>2, <3>6, <3>7
    <3>9. whole[(j - (k + 1) + 1) + 1] = Quote
      BY <3>6, <3>7
    <3>10. Shows(k)
      BY <3>8, <3>9 DEF Shows, whole
    <3>11. QED  BY <3>10
  <2>3. k = j \/ k \in 1 .. j - 1
    BY <1>5
  <2>4. QED  BY <2>1, <2>2, <2>3
<1>8. lo .. j \subseteq S
  <2> HIDE DEF S, lo
  <2>1. QED  BY <1>5, <1>7, DownInduction
<1>9. 1 \in lo .. j
  BY <1>5
<1>10. read[pos[1]].value[j - 1 + 1] = Quote /\ j - 1 + 1 = j
  BY <1>5, <1>8, <1>9
<1>11. pos[1] = p + 1
  BY DEF Spread
<1>12. v[j] = Escape /\ Escape # Quote
  BY <1>3 DEF EscapedAt, Escape, Quote
<1>13. QED  BY <1>10, <1>11, <1>12

\* A string written anew reads as itself, or as another one if the code that
\* reads it takes a backslash of its own for an escape.
LEMMA PlacedString ==
    ASSUME chars \in Seq(Character), at \in 1 .. Len(chars) + 1, More, Lex, NEW v \in Seq(Character),
           Placed(chars, Start, QuoteString(v)), Separated(chars, Start + Len(QuoteString(v)))
    PROVE  \/ ~HasEscape(v) /\ Emit("String", v, Start + Len(QuoteString(v)))
           \/ HasEscape(v) /\ (Fail \/ \E text, next : text # v /\ Emit("String", text, next))
<1> DEFINE p == Start
           n == Len(v)
           w == QuoteString(v)
           string == ReadString(chars, p)
<1>1. p \in DOMAIN chars /\ p \in 1 .. Len(chars) /\ Len(chars) \in Nat /\ DOMAIN chars = 1 .. Len(chars)
      /\ p + Len(w) \in p + 1 .. Len(chars) + 1
  BY PlacedFirst DEF Placed
<1> HIDE DEF p, w
<1>2. PICK pos : /\ Spread(chars, p, v, pos) /\ chars[p] = Quote
                 /\ pos[n + 1] + 1 = p + Len(w) /\ p + 1 <= pos[n + 1]
  BY QuotedSpreads DEF p, w
<1>3. Begins = "String"
  BY <1>1, <1>2, BeginsIs DEF p
<1>4. String
  BY <1>3, OnlyOne
<1>5. IF string.end = 0 THEN Fail ELSE Emit("String", string.value, string.end + 1)
  BY <1>4 DEF String, p
<1>6. PICK read : /\ string = read[p + 1]
                  /\ \A q \in p + 1 .. Len(chars) + 2 : read[q] = ReadFrom(chars, read, q)
  BY <1>1, StringRead
<1>7. Reading(chars, p, read) /\ p \in Nat
  BY <1>1, <1>6 DEF Reading
<1>8. ~At(chars, pos[n + 1] + 1, {Quote})
  <2>1. Separated(chars, p + Len(w))
    BY DEF p, w
  <2>2. QED  BY <1>2, <2>1 DEF Separated, Separators, At, Quote, Space
<1> HIDE DEF string, n
<1>9. CASE ~HasEscape(v)
  <2>1. /\ Spread(chars, p, v, pos) /\ Reading(chars, p, read) /\ p \in Nat
        /\ ClosedAt(chars, p, pos[Len(v) + 1]) /\ ~HasEscape(v)
    BY <1>2, <1>7, <1>8, <1>9 DEF n, ClosedAt
  <2>2. read[p + 1].value = v /\ read[p + 1].end = pos[Len(v) + 1]
    BY <2>1, ReadsWhole
  <2>3. string.value = v /\ string.end = pos[n + 1]
    BY <1>6, <2>2 DEF n
  <2>4. string.end # 0
    BY <1>1, <1>2, <2>3
  <2>5. QED  BY <1>2, <1>5, <1>9, <2>3, <2>4 DEF p, w
<1>10. CASE HasEscape(v)
  <2>1. PICK m \in 1 .. Len(v) : EscapedAt(v, m)
    BY <1>10 DEF HasEscape
  <2>2. string.value # v
    BY <1>1, <1>2, <1>6, <1>7, <2>1, ReadsBroken
  <2>3. QED  BY <1>5, <1>10, <2>2
<1>11. QED  BY <1>9, <1>10

-----------------------------------------------------------------------------
(* Where ToText puts the tokens.                                           *)

Punctuations == {"LParen", "RParen", "Comma"}

LEMMA QuoteFirst ==
    ASSUME NEW v \in Seq(Character)
    PROVE  QuoteString(v) \in Seq(Character) /\ Len(QuoteString(v)) \in Nat \ {0} /\ QuoteString(v)[1] = Quote
<1>1. PICK g : /\ Joins(DoubledPieces(v), g)
               /\ QuoteString(v) = <<Quote>> \o g[Len(v)] \o <<Quote>>
  BY QuoteJoins
<1>2. /\ DoubledPieces(v) \in Seq(Seq(Character)) /\ Len(DoubledPieces(v)) = Len(v)
      /\ Len(v) \in 0 .. Len(v)
  BY DoubledPiecesTyped, LenProperties
<1>3. JoinedTo(DoubledPieces(v), g, Len(v))
  BY <1>1, <1>2, JoinedAt
<1> DEFINE b == g[Len(v)]
           mark == <<Quote>>
<1>4. b \in Seq(Character) /\ mark \in Seq(Character) /\ Len(mark) = 1 /\ mark[1] = Quote
  BY <1>3, QuotesTyped DEF JoinedTo
<1>5. QuoteString(v) = mark \o b \o mark
  BY <1>1
<1> HIDE DEF b, mark
<1>6. /\ mark \o b \o mark \in Seq(Character)
      /\ Len(mark \o b \o mark) = Len(b) + 2 /\ Len(b) \in Nat
      /\ (mark \o b \o mark)[1] = mark[1]
  BY <1>4, Enclosed
<1>7. Len(b) + 2 \in Nat \ {0}
  BY <1>6
<1>8. QED  BY <1>4, <1>5, <1>6, <1>7

LEMMA WrittenFirst ==
    ASSUME NEW t \in TokenSet, NEW previous, WellFormed(t.kind, t.text, previous)
    PROVE  /\ Written(t) \in Seq(Character) /\ Len(Written(t)) \in Nat \ {0} /\ Written(t)[1] # Space
           /\ t.kind \in Punctuations => Written(t)[1] \in Separators
<1>1. t.kind \in Kinds /\ t.text \in Seq(Character) /\ Len(t.text) \in Nat /\ DOMAIN t.text = 1 .. Len(t.text)
  BY LenProperties DEF TokenSet
<1>2. /\ Written(t) \in Seq(Character)
      /\ t.kind = "String" => Written(t) = QuoteString(t.text)
      /\ t.kind = "QuotedIdentifier" => Written(t) = <<Double>> \o t.text \o <<Double>>
      /\ t.kind \notin {"String", "QuotedIdentifier"} => Written(t) = t.text
  BY WrittenTyped
<1>3. CASE t.kind = "String"
  BY <1>1, <1>2, <1>3, QuoteFirst DEF Punctuations, Quote, Space
<1>4. CASE t.kind = "QuotedIdentifier"
  <2> DEFINE mark == <<Double>>
             v == t.text
  <2>1. mark \in Seq(Character) /\ Len(mark) = 1 /\ mark[1] = Double
    BY QuotesTyped
  <2>2. Written(t) = mark \o v \o mark /\ v \in Seq(Character)
    BY <1>1, <1>2, <1>4
  <2> HIDE DEF mark, v
  <2>3. Len(mark \o v \o mark) = Len(v) + 2 /\ Len(v) \in Nat /\ (mark \o v \o mark)[1] = mark[1]
    BY <2>1, <2>2, Enclosed
  <2>4. Len(v) + 2 \in Nat \ {0}
    BY <2>3
  <2>5. QED  BY <1>2, <1>4, <2>1, <2>2, <2>3, <2>4 DEF Punctuations, Double, Space
<1>5. CASE t.kind \in Punctuations
  <2>1. t.text = <<"(">> \/ t.text = <<")">> \/ t.text = <<",">>
    BY <1>5 DEF Punctuations, WellFormed
  <2> DEFINE v == t.text
             w == Written(t)
  <2>2. Len(v) = 1 /\ v[1] \in {"(", ")", ","}
    <3>1. v = <<"(">> \/ v = <<")">> \/ v = <<",">>
      BY <2>1
    <3> HIDE DEF v
    <3>2. CASE v = <<"(">>
      BY <3>2
    <3>3. CASE v = <<")">>
      BY <3>3
    <3>4. CASE v = <<",">>
      BY <3>4
    <3>5. QED  BY <3>1, <3>2, <3>3, <3>4
  <2>3. w = v /\ w \in Seq(Character)
    BY <1>2, <1>5 DEF Punctuations
  <2> HIDE DEF v, w
  <2>4. Len(w) \in Nat \ {0}
    <3>1. Len(w) = 1
      BY <2>2, <2>3
    <3>2. QED  BY <3>1
  <2>5. w[1] # Space
    BY <2>2, <2>3 DEF Space
  <2>6. w[1] \in Separators
    BY <2>2, <2>3 DEF Separators
  <2>7. QED  BY <2>3, <2>4, <2>5, <2>6 DEF w
<1>6. CASE t.kind = "Number"
  <2>1. IsNumber(t.text, SignAfter(previous))
    BY <1>6 DEF WellFormed
  <2>2. 1 \in DOMAIN t.text /\ t.text[1] \in Digits \cup Signs \cup {"."}
    BY <2>1, StartsWith DEF IsNumber
  <2> DEFINE v == t.text
  <2> HIDE DEF v
  <2>3. v[1] # Space /\ Len(v) # 0
    <3>1. 1 \in DOMAIN v /\ v[1] \in Digits \cup Signs \cup {"."} /\ DOMAIN v = 1 .. Len(v)
      BY <1>1, <2>2 DEF v
    <3>2. v[1] # Space
      BY <3>1 DEF Digits, Signs, Space
    <3>3. Len(v) # 0
      BY <3>1
    <3>4. QED  BY <3>2, <3>3
  <2>4. QED  BY <1>1, <1>2, <1>6, <2>3 DEF Punctuations, v
<1>7. CASE t.kind \in {"Keyword", "Identifier"}
  <2>1. Len(t.text) # 0 /\ t.text[1] \in Letters
    <3>1. CASE t.kind = "Keyword"
      <4>1. t.text = <<"I", "N">>
        BY <3>1 DEF WellFormed, Keywords
      <4>2. QED  BY <4>1 DEF Letters
    <3>2. CASE t.kind = "Identifier"
      <4>1. t.text # << >> /\ t.text[1] \in Letters
        BY <3>2 DEF WellFormed, IsName
      <4>2. QED  BY <1>1, <4>1, EmptySeq
    <3>3. QED  BY <1>7, <3>1, <3>2
  <2>2. t.text[1] # Space
    BY <2>1 DEF Letters, Space
  <2>3. QED  BY <1>1, <1>2, <1>7, <2>1, <2>2 DEF Punctuations
<1>8. CASE t.kind = "Operator"
  <2> DEFINE v == t.text
  <2>1. (Len(v) = 1 /\ v[1] \in OperatorChars) \/ v \in LongOperators
    BY <1>8 DEF WellFormed
  <2> HIDE DEF v
  <2>2. v \in LongOperators => Len(v) = 2 /\ v[1] \in {"<", ">"}
    <3>1. ASSUME v \in LongOperators PROVE v = <<"<", "=">> \/ v = <<">", "=">> \/ v = <<"<", ">">>
      BY <3>1 DEF LongOperators
    <3>2. QED  BY <3>1
  <2>3. v[1] # Space
    BY <2>1, <2>2 DEF OperatorChars, Signs, Space
  <2>4. Len(v) # 0
    BY <2>1, <2>2
  <2>5. QED  BY <1>1, <1>2, <1>8, <2>3, <2>4 DEF Punctuations, v
<1>9. QED  BY <1>1, <1>3, <1>4, <1>5, <1>6, <1>7, <1>8 DEF Kinds, Punctuations

GapBefore(ts, spaced, k) == IF k = 1 THEN << >> ELSE Gap(spaced, ts[k - 1], ts[k])

LEMMA GapIs ==
    ASSUME NEW ts, NEW spaced \in BOOLEAN, NEW k
    PROVE  /\ GapBefore(ts, spaced, k) = << >> \/ GapBefore(ts, spaced, k) = <<Space>>
           /\ k # 1 /\ GapBefore(ts, spaced, k) = << >> => {ts[k - 1].kind, ts[k].kind} \cap Punctuations # {}
<1>1. k # 1 => GapBefore(ts, spaced, k) = IF spaced \/ {ts[k - 1].kind, ts[k].kind} \cap Punctuations = {}
                                          THEN <<Space>> ELSE << >>
  BY DEF GapBefore, Gap, Punctuations
<1>2. << >> # <<Space>>
  <2>1. Len(<< >>) = 0 /\ Len(<<Space>>) = 1
    OBVIOUS
  <2>2. QED  BY <2>1
<1>3. QED  BY <1>1, <1>2 DEF GapBefore

\* A gap of at most one space, and then what is written.
Parts2(piece, gap, w) ==
    /\ Len(gap) \in {0, 1} /\ Len(w) \in Nat /\ Len(piece) = Len(gap) + Len(w)
    /\ Len(gap) = 0 <=> gap = << >>
    /\ Len(gap) = 1 => piece[1] = Space
    /\ \A j \in 1 .. Len(w) : piece[Len(gap) + j] = w[j]

LEMMA PieceParts ==
    ASSUME NEW ts \in Seq(TokenSet), NEW spaced \in BOOLEAN, NEW k \in 1 .. Len(ts)
    PROVE  Parts2(WrittenPiece(ts, spaced, k), GapBefore(ts, spaced, k), Written(ts[k]))
<1> DEFINE w == Written(ts[k])
           gap == GapBefore(ts, spaced, k)
           piece == WrittenPiece(ts, spaced, k)
<1>1. w \in Seq(Character) /\ Len(w) \in Nat
  <2>1. ts[k] \in TokenSet
    BY ElementOfSeq
  <2>2. w \in Seq(Character)
    BY <2>1, WrittenTyped
  <2>3. QED  BY <2>2, LenProperties
<1>2. gap = << >> \/ gap = <<Space>>
  BY GapIs
<1>3. piece = gap \o w
  <2>1. k = 1 => piece = w /\ gap = << >>
    BY DEF WrittenPiece, GapBefore
  <2>2. k # 1 => piece = gap \o w
    BY DEF WrittenPiece, GapBefore
  <2> HIDE DEF piece, gap, w
  <2>3. << >> \o w = w
    BY <1>1, ConcatEmptySeq
  <2>4. QED  BY <2>1, <2>2, <2>3
<1> HIDE DEF piece, gap, w
<1>4. CASE gap = << >>
  <2>1. piece = w
    BY <1>1, <1>3, <1>4, ConcatEmptySeq
  <2>2. Len(gap) = 0 /\ 0 + Len(w) = Len(w) /\ \A j \in 1 .. Len(w) : 0 + j = j
    BY <1>1, <1>4
  <2>3. Parts2(piece, gap, w)
    BY <1>1, <1>4, <2>1, <2>2 DEF Parts2
  <2>4. QED  BY <2>3 DEF piece, gap, w
<1>5. CASE gap = <<Space>>
  <2>1. gap \in Seq(Character) /\ Len(gap) = 1 /\ gap[1] = Space /\ gap # << >>
    <3>1. Len(<< >>) = 0
      OBVIOUS
    <3>2. QED  BY <1>5, <3>1, QuotesTyped
  <2>2. /\ Len(gap \o w) = Len(gap) + Len(w)
        /\ \A i \in 1 .. Len(gap) + Len(w) : (gap \o w)[i] = IF i <= Len(gap) THEN gap[i] ELSE w[i - Len(gap)]
    BY <1>1, <2>1, ConcatProperties
  <2>3. piece[1] = Space
    <3>1. 1 \in 1 .. Len(gap) + Len(w) /\ 1 <= Len(gap)
      BY <1>1, <2>1
    <3>2. QED  BY <1>3, <2>1, <2>2, <3>1
  <2>4. ASSUME NEW j \in 1 .. Len(w) PROVE piece[Len(gap) + j] = w[j]
    <3>1. Len(gap) + j \in 1 .. Len(gap) + Len(w) /\ ~(Len(gap) + j <= Len(gap)) /\ (Len(gap) + j) - Len(gap) = j
      BY <1>1, <2>1
    <3>2. QED  BY <1>3, <2>2, <3>1
  <2>5. Parts2(piece, gap, w)
    BY <1>1, <1>3, <2>1, <2>2, <2>3, <2>4 DEF Parts2
  <2>6. QED  BY <2>5 DEF piece, gap, w
<1>6. QED  BY <1>2, <1>4, <1>5

\* Between two tokens neither of which is punctuation lies a space.
LEMMA PieceFirst ==
    ASSUME NEW ts, Sound(ts), NEW spaced \in BOOLEAN, NEW k \in 2 .. Len(ts), ts[k - 1].kind \notin Punctuations
    PROVE  Len(WrittenPiece(ts, spaced, k)) \in Nat \ {0} /\ WrittenPiece(ts, spaced, k)[1] \in Separators
<1> DEFINE w == Written(ts[k])
           gap == GapBefore(ts, spaced, k)
           piece == WrittenPiece(ts, spaced, k)
<1>1. ts \in Seq(TokenSet) /\ Len(ts) \in Nat
  BY LenProperties DEF Sound
<1>2. k \in 1 .. Len(ts) /\ k # 1
  BY <1>1
<1>3. ts[k] \in TokenSet /\ WellFormed(ts[k].kind, ts[k].text, KindBefore(ts, k))
  BY <1>1, <1>2, ElementOfSeq DEF Sound
<1>4. /\ Len(w) \in Nat \ {0}
      /\ ts[k].kind \in Punctuations => w[1] \in Separators
  BY <1>3, WrittenFirst
<1>5. Parts2(piece, gap, w)
  BY <1>1, <1>2, PieceParts
<1>6. gap = << >> => ts[k].kind \in Punctuations
  <2>1. gap = << >> => {ts[k - 1].kind, ts[k].kind} \cap Punctuations # {}
    BY <1>2, GapIs
  <2>2. QED  BY <2>1
<1> HIDE DEF gap, w, piece
<1>7. /\ Len(gap) \in {0, 1} /\ Len(w) \in Nat /\ Len(piece) = Len(gap) + Len(w)
      /\ Len(gap) = 0 <=> gap = << >>
      /\ Len(gap) = 1 => piece[1] = Space
      /\ \A j \in 1 .. Len(w) : piece[Len(gap) + j] = w[j]
  BY <1>5 DEF Parts2
<1>8. Len(piece) \in Nat \ {0}
  BY <1>4, <1>7
<1>9. piece[1] \in Separators
  <2>1. CASE Len(gap) = 1
    BY <1>7, <2>1 DEF Separators
  <2>2. CASE Len(gap) = 0
    <3>1. 1 \in 1 .. Len(w) /\ Len(gap) + 1 = 1
      BY <1>4, <2>2
    <3>2. piece[Len(gap) + 1] = w[1]
      BY <1>7, <3>1
    <3>3. QED  BY <1>4, <1>6, <1>7, <2>2, <3>1, <3>2
  <2>3. QED  BY <1>7, <2>1, <2>2
<1>10. QED  BY <1>8, <1>9 DEF piece

\* The k-th token, where it is written: at p, after spaces from a on.
LaidAt(cs, t, a, p, q) ==
    /\ p \in a .. Len(cs) /\ \A r \in a .. p - 1 : cs[r] = Space
    /\ Placed(cs, p, Written(t)) /\ cs[p] # Space /\ p + Len(Written(t)) = q
    /\ t.kind \notin Punctuations => Separated(cs, q)

LEMMA LaidOut ==
    ASSUME NEW ts, Sound(ts), NEW spaced \in BOOLEAN, NEW g, Joins(WrittenPieces(ts, spaced), g),
           NEW k \in 1 .. Len(ts)
    PROVE  /\ Len(g[k - 1]) \in Nat /\ Len(g[k]) \in Nat
           /\ \E p : LaidAt(g[Len(ts)], ts[k], Len(g[k - 1]) + 1, p, Len(g[k]) + 1)
<1> DEFINE n == Len(ts)
           pieces == WrittenPieces(ts, spaced)
           cs == g[n]
           w == Written(ts[k])
           gap == GapBefore(ts, spaced, k)
           a == Len(g[k - 1])
           b == Len(g[k])
           p == a + 1 + Len(gap)
<1>1. ts \in Seq(TokenSet) /\ n \in Nat
  BY LenProperties DEF Sound
<1>2. /\ pieces \in Seq(Seq(Character)) /\ Len(pieces) = n
      /\ \A i \in 1 .. n : pieces[i] = WrittenPiece(ts, spaced, i)
  BY <1>1, WrittenPiecesTyped
<1>3. JoinedTo(pieces, g, n)
  <2> HIDE DEF pieces, n
  <2>1. n \in 0 .. Len(pieces) /\ Joins(pieces, g)
    BY <1>1, <1>2 DEF pieces
  <2>2. QED  BY <1>2, <2>1, JoinedAt
<1>4. cs \in Seq(Character) /\ Len(cs) \in Nat /\ \A i \in 1 .. n : PieceIn(pieces, g, n, i)
  BY <1>3 DEF JoinedTo
<1>5. ts[k] \in TokenSet /\ WellFormed(ts[k].kind, ts[k].text, KindBefore(ts, k))
  BY <1>1, ElementOfSeq DEF Sound
<1>6. w \in Seq(Character) /\ Len(w) \in Nat \ {0} /\ w[1] # Space
  BY <1>5, WrittenFirst
<1>7. Parts2(pieces[k], gap, w)
  BY <1>1, <1>2, PieceParts
<1>8. PieceIn(pieces, g, n, k)
  BY <1>4
<1> HIDE DEF pieces, w, gap
<1>9. /\ b = a + Len(pieces[k]) /\ b <= Len(cs) /\ a \in Nat
      /\ \A j \in 1 .. Len(pieces[k]) : cs[a + j] = pieces[k][j]
  BY <1>8 DEF PieceIn
<1> HIDE DEF cs, a, b
<1>10. /\ Len(gap) \in {0, 1} /\ Len(w) \in Nat /\ Len(pieces[k]) = Len(gap) + Len(w)
       /\ Len(gap) = 1 => pieces[k][1] = Space
       /\ \A j \in 1 .. Len(w) : pieces[k][Len(gap) + j] = w[j]
  BY <1>7 DEF Parts2
<1>11. /\ p \in a + 1 .. Len(cs) /\ p + Len(w) = b + 1 /\ b \in Nat /\ p \in 1 .. Len(cs)
       /\ p + Len(w) \in p + 1 .. Len(cs) + 1
  BY <1>4, <1>6, <1>9, <1>10
<1>12. ASSUME NEW r \in 0 .. Len(w) - 1 PROVE cs[p + r] = w[1 + r]
  <2>1. /\ 1 + r \in 1 .. Len(w) /\ Len(gap) + (1 + r) \in 1 .. Len(pieces[k])
        /\ a + (Len(gap) + (1 + r)) = p + r
    BY <1>9, <1>10
  <2>2. cs[a + (Len(gap) + (1 + r))] = pieces[k][Len(gap) + (1 + r)]
    BY <1>9, <2>1
  <2>3. QED  BY <1>10, <2>1, <2>2
<1>13. ASSUME NEW r \in a + 1 .. p - 1 PROVE cs[r] = Space
  <2> DEFINE c == Len(gap)
             d == Len(w)
             m == Len(pieces[k])
  <2>1. a \in Nat /\ c \in {0, 1} /\ d \in Nat \ {0} /\ m = c + d /\ r \in a + 1 .. (a + 1 + c) - 1
    BY <1>6, <1>9, <1>10
  <2> HIDE DEF c, d, m
  <2>2. r = a + 1 /\ c = 1 /\ 1 \in 1 .. m
    BY ONLY <2>1
  <2>3. cs[a + 1] = pieces[k][1]
    BY <1>9, <2>2 DEF m
  <2>4. QED  BY <1>10, <2>2, <2>3 DEF c
<1>14. Placed(cs, p, w)
  <2> HIDE DEF p
  <2>1. QED  BY <1>6, <1>11, <1>12 DEF Placed
<1>15. cs[p] # Space
  <2>1. 0 \in 0 .. Len(w) - 1 /\ p + 0 = p /\ 1 + 0 = 1
    BY <1>6, <1>11
  <2>2. cs[p] = w[1]
    BY <1>12, <2>1
  <2>3. QED  BY <1>6, <2>2
<1>16. ASSUME ts[k].kind \notin Punctuations PROVE Separated(cs, b + 1)
  <2>1. CASE k = n
    <3>1. b = Len(cs)
      BY <2>1 DEF b, cs
    <3>2. b + 1 \notin DOMAIN cs
      <4>1. DOMAIN cs = 1 .. Len(cs)
        BY <1>4, LenProperties
      <4>2. QED  BY <1>4, <3>1, <4>1
    <3>3. QED  BY <3>2 DEF Separated
  <2>2. CASE k # n
    <3>1. k + 1 \in 2 .. n /\ k + 1 \in 1 .. n /\ (k + 1) - 1 = k
      BY <1>1, <2>2
    <3>2. Len(pieces[k + 1]) \in Nat \ {0} /\ pieces[k + 1][1] \in Separators
      BY <1>2, <1>16, <3>1, PieceFirst, SMTT(30)
    <3>3. \A j \in 1 .. Len(pieces[k + 1]) : cs[b + j] = pieces[k + 1][j]
      <4>1. PieceIn(pieces, g, n, k + 1)
        BY <1>4, <3>1
      <4>2. \A j \in 1 .. Len(pieces[k + 1]) : g[n][Len(g[(k + 1) - 1]) + j] = pieces[k + 1][j]
        BY <4>1 DEF PieceIn
      <4>3. QED  BY <3>1, <4>2 DEF cs, b
    <3>4. 1 \in 1 .. Len(pieces[k + 1])
      BY <3>2
    <3>5. cs[b + 1] \in Separators
      BY <3>2, <3>3, <3>4
    <3>6. QED  BY <3>5 DEF Separated
  <2>3. QED  BY <2>1, <2>2
<1> HIDE DEF p
<1>17. LaidAt(cs, ts[k], a + 1, p, b + 1)
  BY <1>11, <1>13, <1>14, <1>15, <1>16 DEF LaidAt, w
<1>18. QED  BY <1>9, <1>11, <1>17 DEF cs, a, b

\* What the lexer does where a token is written.
EscapedToken(t) == t.kind = "String" /\ HasEscape(t.text)

LEMMA PlacedToken ==
    ASSUME chars \in Seq(Character), at \in 1 .. Len(chars) + 1, More, Lex,
           NEW t \in TokenSet, WellFormed(t.kind, t.text, Previous), NEW a, NEW q, LaidAt(chars, t, a, Start, q)
    PROVE  \/ ~EscapedToken(t) /\ Emit(t.kind, t.text, q)
           \/ EscapedToken(t) /\ (Fail \/ \E text, next : text # t.text /\ Emit(t.kind, text, next))
<1> DEFINE kind == t.kind
           v == t.text
           w == Written(t)
<1>1. kind \in Kinds /\ v \in Seq(Character)
  BY DEF TokenSet
<1>2. /\ kind = "String" => w = QuoteString(v)
      /\ kind = "QuotedIdentifier" => w = <<Double>> \o v \o <<Double>>
      /\ kind \notin {"String", "QuotedIdentifier"} => w = v
  BY WrittenTyped
<1>3. /\ Placed(chars, Start, w) /\ Start + Len(w) = q
      /\ kind \notin Punctuations => Separated(chars, q)
  BY DEF LaidAt
<1>4. WellFormed(kind, v, Previous)
  OBVIOUS
<1>5. kind # "Number" => WellFormed(kind, v, "none")
  BY <1>4 DEF WellFormed
<1>6. EscapedToken(t) <=> kind = "String" /\ HasEscape(v)
  BY DEF EscapedToken
<1> HIDE DEF kind, v, w
<1>7. CASE kind = "String"
  <2>1. Placed(chars, Start, QuoteString(v)) /\ Separated(chars, Start + Len(QuoteString(v)))
        /\ Start + Len(QuoteString(v)) = q
    BY <1>2, <1>3, <1>7 DEF Punctuations
  <2>2. \/ ~HasEscape(v) /\ Emit("String", v, Start + Len(QuoteString(v)))
        \/ HasEscape(v) /\ (Fail \/ \E text, next : text # v /\ Emit("String", text, next))
    BY <1>1, <2>1, PlacedString
  <2>3. QED  BY <1>6, <1>7, <2>1, <2>2 DEF kind, v
<1>8. CASE kind = "QuotedIdentifier"
  <2>1. Placed(chars, Start, <<Double>> \o v \o <<Double>>) /\ IsName(v)
        /\ Start + Len(<<Double>> \o v \o <<Double>>) = q
    BY <1>2, <1>3, <1>4, <1>8 DEF WellFormed
  <2>2. Emit("QuotedIdentifier", v, Start + Len(<<Double>> \o v \o <<Double>>))
    BY <1>1, <2>1, PlacedQuotedIdentifier
  <2>3. QED  BY <1>6, <1>8, <2>1, <2>2 DEF kind, v
<1>9. CASE kind \notin {"String", "QuotedIdentifier"}
  <2>1. Placed(chars, Start, v) /\ Start + Len(v) = q /\ ~EscapedToken(t)
    BY <1>2, <1>3, <1>6, <1>9
  <2>2. CASE kind \in {"LParen", "RParen", "Comma"}
    <3>1. Emit(kind, v, Start + Len(v))
      BY <1>5, <2>1, <2>2, PlacedPunctuation
    <3>2. QED  BY <2>1, <3>1 DEF kind, v
  <2>3. CASE kind = "Number"
    <3>1. IsNumber(v, SignAfter(Previous)) /\ Separated(chars, Start + Len(v))
      BY <1>3, <1>4, <2>1, <2>3 DEF WellFormed, Punctuations
    <3>2. Emit("Number", v, Start + Len(v))
      BY <2>1, <3>1, PlacedNumber
    <3>3. QED  BY <2>1, <2>3, <3>2 DEF kind, v
  <2>4. CASE kind \in {"Keyword", "Identifier"}
    <3>1. Separated(chars, Start + Len(v))
      BY <1>3, <2>1, <2>4 DEF Punctuations
    <3>2. Emit(kind, v, Start + Len(v))
      BY <1>5, <2>1, <2>4, <3>1, PlacedWord
    <3>3. QED  BY <2>1, <3>2 DEF kind, v
  <2>5. CASE kind = "Operator"
    <3>1. Separated(chars, Start + Len(v)) /\ WellFormed("Operator", v, "none")
      BY <1>3, <1>5, <2>1, <2>5 DEF Punctuations
    <3>2. Emit("Operator", v, Start + Len(v))
      BY <2>1, <3>1, PlacedOperator
    <3>3. QED  BY <2>1, <2>5, <3>2 DEF kind, v
  <2>6. QED  BY <1>1, <1>9, <2>2, <2>3, <2>4, <2>5 DEF Kinds
<1>10. QED  BY <1>7, <1>8, <1>9

-----------------------------------------------------------------------------
(* The second text reads as the first, unless a string of it has a         *)
(* backslash before a quote or at its end.                                 *)

AnyEscape == \E k \in 1 .. Len(original) : EscapedToken(original[k])

\* So far the tokens are the original ones.
Agreeing(g) ==
    /\ Len(tokens) <= Len(original)
    /\ \A k \in 1 .. Len(tokens) : Plain(tokens[k]) = Plain(original[k]) /\ ~EscapedToken(original[k])
    /\ \/ mode = "lexing" /\ at = Len(g[Len(tokens)]) + 1
       \/ mode = "done" /\ Len(tokens) = Len(original)

\* From the first escaped string on they are not.
Diverged ==
    /\ AnyEscape
    /\ \/ mode = "failed"
       \/ \E k \in 1 .. Len(tokens) : k \in 1 .. Len(original) /\ Plain(tokens[k]) # Plain(original[k])

Alike ==
    stage = "again" =>
        \E spaced \in BOOLEAN : \E g :
            /\ Joins(WrittenPieces(original, spaced), g) /\ chars = g[Len(original)]
            /\ Agreeing(g) \/ Diverged

LEMMA DivergedStays ==
    ASSUME LexInv, Diverged, Lex, UNCHANGED <<stage, original>>
    PROVE  Diverged'
<1>1. chars \in Seq(Character) /\ at \in 1 .. Len(chars) + 1 /\ tokens \in Seq(TokenSet)
  BY DEF LexInv, TypeOK, Sound
<1>2. AnyEscape'
  BY DEF Diverged, AnyEscape
<1>3. \/ More /\ \E kind, text, next : Reads(kind, text, next) /\ Emit(kind, text, next)
      \/ More /\ Fail
      \/ EndOfText
  BY <1>1, StepReads
<1>4. mode = "lexing"
  BY <1>3 DEF More, EndOfText
<1>5. PICK k \in 1 .. Len(tokens) : k \in 1 .. Len(original) /\ Plain(tokens[k]) # Plain(original[k])
  BY <1>4 DEF Diverged
<1>6. CASE Fail
  BY <1>2, <1>6 DEF Fail, Diverged
<1>7. CASE EndOfText
  <2>1. tokens' = tokens
    BY <1>7 DEF EndOfText
  <2>2. QED  BY <1>2, <1>5, <2>1 DEF Diverged
<1>8. CASE \E kind, text, next : Reads(kind, text, next) /\ Emit(kind, text, next)
  <2>1. PICK kind, text, next : Reads(kind, text, next) /\ Emit(kind, text, next)
    BY <1>8
  <2> DEFINE t == [kind |-> kind, text |-> text, first |-> Start, last |-> next - 1]
  <2>2. tokens' = Append(tokens, t)
    BY <2>1 DEF Emit
  <2> HIDE DEF t
  <2>3. k \in 1 .. Len(tokens') /\ tokens'[k] = tokens[k]
    BY <1>1, <2>2, AppendProperties, LenProperties
  <2>4. Plain(tokens'[k]) # Plain(original[k])
    BY <1>5, <2>3
  <2>5. \E i \in 1 .. Len(tokens') : i \in 1 .. Len(original) /\ Plain(tokens'[i]) # Plain(original[i])
    BY <1>5, <2>3, <2>4
  <2>6. QED  BY <1>2, <2>5 DEF Diverged, Plain
<1>9. QED  BY <1>3, <1>6, <1>7, <1>8

LEMMA AgreeingStep ==
    ASSUME LexInv, NEW spaced \in BOOLEAN, NEW g, Joins(WrittenPieces(original, spaced), g),
           chars = g[Len(original)], Agreeing(g), Lex, UNCHANGED <<stage, original>>
    PROVE  Agreeing(g)' \/ Diverged'
<1> DEFINE n == Len(tokens)
           m == Len(original)
<1>1. /\ chars \in Seq(Character) /\ at \in 1 .. Len(chars) + 1 /\ tokens \in Seq(TokenSet)
      /\ Sound(original) /\ original \in Seq(TokenSet)
  BY DEF LexInv, TypeOK, Sound
<1>2. n \in Nat /\ m \in Nat /\ Len(chars) \in Nat /\ n <= m
  BY <1>1, LenProperties DEF Agreeing
<1>3. \/ More /\ \E kind, text, next : Reads(kind, text, next) /\ Emit(kind, text, next)
      \/ More /\ Fail
      \/ EndOfText
  BY <1>1, StepReads
<1>4. mode = "lexing" /\ at = Len(g[n]) + 1
  BY <1>3 DEF More, EndOfText, Agreeing
<1>5. \A k \in 1 .. n : Plain(tokens[k]) = Plain(original[k]) /\ ~EscapedToken(original[k])
  BY DEF Agreeing
<1>6. /\ Start \in at .. Len(chars) + 1 /\ (More => Start \in 1 .. Len(chars))
  BY <1>1, StartFound
<1>7. CASE n = m
  <2>1. at = Len(chars) + 1
    BY <1>4, <1>7
  <2>2. Start = Len(chars) + 1 /\ ~More
    BY <1>1, <1>2, <1>6, <2>1
  <2>3. EndOfText
    BY <1>3, <2>2
  <2>4. mode' = "done" /\ tokens' = tokens /\ original' = original
    BY <2>3 DEF EndOfText
  <2>5. QED  BY <1>2, <1>5, <1>7, <2>4 DEF Agreeing, Plain
<1>8. CASE n # m
  <2> DEFINE k == n + 1
             t == original[k]
  <2>1. k \in 1 .. m /\ k - 1 = n
    BY <1>2, <1>8
  <2> HIDE DEF n, m
  <2>2. t \in TokenSet /\ WellFormed(t.kind, t.text, KindBefore(original, k))
    BY <1>1, <2>1, ElementOfSeq DEF Sound, m
  <2> HIDE DEF k
  <2>3. Len(g[k - 1]) \in Nat /\ Len(g[k]) \in Nat
        /\ \E p : LaidAt(g[m], t, Len(g[k - 1]) + 1, p, Len(g[k]) + 1)
    BY <1>1, <2>1, LaidOut DEF m
  <2> DEFINE q == Len(g[k]) + 1
  <2>4. PICK p : LaidAt(chars, t, at, p, q)
    BY <1>4, <2>1, <2>3 DEF m
  <2>5. /\ p \in at .. Len(chars) /\ \A r \in at .. p - 1 : chars[r] = Space
        /\ chars[p] # Space
    BY <2>4 DEF LaidAt
  <2>6. Start = p
    <3>1. at \in 1 .. Len(chars) + 1 /\ p \in at .. Len(chars) + 1
      BY <1>1, <1>2, <2>5
    <3>2. (\A r \in at .. p - 1 : chars[r] \in {Space}) /\ ~At(chars, p, {Space})
      BY <2>5 DEF At
    <3>3. RunEnd(chars, at, {Space}) = p
      BY <1>1, <3>1, <3>2, RunEndIs
    <3>4. QED  BY <3>3 DEF Start
  <2>7. More
    <3>1. Start <= Len(chars)
      BY <1>1, <1>2, <2>5, <2>6
    <3>2. QED  BY <1>4, <3>1 DEF More
  <2>8. Previous = KindBefore(original, k)
    <3>1. CASE n = 0
      <4>1. tokens = << >> /\ k = 1
        BY <1>1, <2>1, <3>1, EmptySeq DEF n, k
      <4>2. QED  BY <4>1 DEF Previous, KindBefore
    <3>2. CASE n # 0
      <4>1. n \in 1 .. n /\ tokens # << >> /\ k # 1
        BY <1>1, <1>2, <3>2, EmptySeq DEF n, k
      <4>2. Plain(tokens[n]) = Plain(original[n])
        BY <1>5, <4>1
      <4>3. tokens[n].kind = original[n].kind
        BY <4>2 DEF Plain
      <4>4. QED  BY <2>1, <4>1, <4>3 DEF Previous, KindBefore, n
    <3>3. QED  BY <3>1, <3>2
  <2> HIDE DEF t, q
  <2>9. WellFormed(t.kind, t.text, Previous)
    BY <2>2, <2>8
  <2>10. LaidAt(chars, t, at, Start, q)
    BY <2>4, <2>6
  <2>11. \/ ~EscapedToken(t) /\ Emit(t.kind, t.text, q)
         \/ EscapedToken(t) /\ (Fail \/ \E text, next : text # t.text /\ Emit(t.kind, text, next))
    BY <1>1, <2>2, <2>7, <2>9, <2>10, PlacedToken
  <2>12. original' = original
    OBVIOUS
  <2>13. ASSUME EscapedToken(t) PROVE AnyEscape'
    <3>1. EscapedToken(original[k]) /\ k \in 1 .. Len(original)
      BY <2>1, <2>13 DEF t, m
    <3>2. QED  BY <2>12, <3>1 DEF AnyEscape
  <2>14. ASSUME NEW text, NEW next, Emit(t.kind, text, next)
         PROVE  /\ Len(tokens') = k /\ Plain(tokens'[k]) = [kind |-> t.kind, text |-> text]
                /\ \A j \in 1 .. n : tokens'[j] = tokens[j]
    <3> DEFINE u == [kind |-> t.kind, text |-> text, first |-> Start, last |-> next - 1]
    <3>1. tokens' = Append(tokens, u)
      BY <2>14 DEF Emit
    <3>2. u.kind = t.kind /\ u.text = text
      OBVIOUS
    <3> HIDE DEF u
    <3>3. Len(tokens') = k /\ tokens'[k] = u /\ \A j \in 1 .. n : tokens'[j] = tokens[j]
      BY <1>1, <3>1, AppendProperties, LenProperties DEF n, k
    <3>4. QED  BY <3>2, <3>3 DEF Plain
  <2>15. CASE ~EscapedToken(t) /\ Emit(t.kind, t.text, q)
    <3>1. /\ Len(tokens') = k /\ Plain(tokens'[k]) = [kind |-> t.kind, text |-> t.text]
          /\ \A j \in 1 .. n : tokens'[j] = tokens[j]
      BY <2>14, <2>15
    <3>2. at' = q /\ mode' = mode
      BY <2>15 DEF Emit
    <3>3. ASSUME NEW j \in 1 .. k PROVE Plain(tokens'[j]) = Plain(original[j]) /\ ~EscapedToken(original[j])
      <4>1. CASE j = k
        BY <2>15, <3>1, <4>1 DEF t, Plain
      <4>2. CASE j \in 1 .. n
        BY <1>5, <3>1, <4>2
      <4>3. j = k \/ j \in 1 .. n
        BY <1>2, <2>1
      <4>4. QED  BY <4>1, <4>2, <4>3
    <3>4. k <= m
      BY <2>1
    <3>5. (\A j \in 1 .. Len(tokens) : Plain(tokens[j]) = Plain(original[j]) /\ ~EscapedToken(original[j]))'
      BY <2>12, <3>1, <3>3 DEF Plain
    <3>6. (Len(tokens) <= Len(original))' /\ (mode = "lexing" /\ at = Len(g[Len(tokens)]) + 1)'
      BY <1>4, <2>12, <3>1, <3>2, <3>4 DEF m, q
    <3>7. QED  BY <3>5, <3>6 DEF Agreeing
  <2>16. CASE EscapedToken(t) /\ Fail
    BY <2>13, <2>16 DEF Fail, Diverged
  <2>17. CASE EscapedToken(t) /\ \E text, next : text # t.text /\ Emit(t.kind, text, next)
    <3>1. PICK text, next : text # t.text /\ Emit(t.kind, text, next)
      BY <2>17
    <3>2. Len(tokens') = k /\ Plain(tokens'[k]) = [kind |-> t.kind, text |-> text]
      BY <2>14, <3>1
    <3>3. Plain(tokens'[k]) # Plain(original[k])
      <4>1. Plain(tokens'[k]).text = text /\ Plain(original[k]).text = t.text
        BY <3>2 DEF Plain, t
      <4>2. QED  BY <3>1, <4>1
    <3>4. k \in 1 .. Len(tokens') /\ k \in 1 .. Len(original)
      BY <2>1, <3>2 DEF m
    <3>5. (\E i \in 1 .. Len(tokens) : i \in 1 .. Len(original) /\ Plain(tokens[i]) # Plain(original[i]))'
      BY <2>12, <3>3, <3>4 DEF Plain
    <3>6. QED  BY <2>13, <2>17, <3>5 DEF Diverged
  <2>18. QED  BY <2>11, <2>15, <2>16, <2>17
<1>9. QED  BY <1>7, <1>8

LEMMA AlikeLex ==
    ASSUME LexInv, Alike, Lex, UNCHANGED <<stage, original>>
    PROVE  Alike'
<1>1. CASE stage # "again"
  BY <1>1 DEF Alike
<1>2. CASE stage = "again"
  <2>1. PICK spaced \in BOOLEAN : \E g :
            /\ Joins(WrittenPieces(original, spaced), g) /\ chars = g[Len(original)]
            /\ Agreeing(g) \/ Diverged
    BY <1>2 DEF Alike
  <2>2. PICK g : /\ Joins(WrittenPieces(original, spaced), g) /\ chars = g[Len(original)]
                 /\ Agreeing(g) \/ Diverged
    BY <2>1
  <2>3. Agreeing(g)' \/ Diverged'
    BY <2>2, AgreeingStep, DivergedStays
  <2>4. chars' = chars
    <3>1. chars \in Seq(Character) /\ at \in 1 .. Len(chars) + 1
      BY DEF LexInv, TypeOK
    <3>2. \/ More /\ \E kind, text, next : Reads(kind, text, next) /\ Emit(kind, text, next)
          \/ More /\ Fail
          \/ EndOfText
      BY <3>1, StepReads
    <3>3. QED  BY <3>2 DEF Emit, Fail, EndOfText
  <2>5. (Joins(WrittenPieces(original, spaced), g) /\ chars = g[Len(original)])'
    <3>1. original' = original
      OBVIOUS
    <3>2. WrittenPieces(original, spaced)' = WrittenPieces(original, spaced)
      BY <3>1 DEF WrittenPieces, WrittenPiece, Gap
    <3>3. QED  BY <2>2, <2>4, <3>1, <3>2 DEF Joins
  <2>6. QED  BY <2>3, <2>5 DEF Alike
<1>3. QED  BY <1>1, <1>2

LEMMA AlikeRewrite ==
    ASSUME LexInv, Rewrite
    PROVE  Alike'
<1> DEFINE ts == [k \in DOMAIN tokens |-> Taken(tokens[k])]
<1>1. PICK spaced \in BOOLEAN : chars' = Rewritten(original', spaced)
  BY DEF Rewrite
<1>2. at' = 1 /\ tokens' = << >> /\ mode' = "lexing" /\ stage' = "again" /\ original' = ts
  BY DEF Rewrite
<1>3. ts \in Seq(TokenSet) /\ Len(ts) \in Nat
  BY TakenSound, LenProperties DEF Rewrite, Sound
<1> HIDE DEF ts
<1> DEFINE pieces == WrittenPieces(ts, spaced)
<1>4. pieces \in Seq(Seq(Character)) /\ Len(pieces) = Len(ts)
  BY <1>3, WrittenPiecesTyped
<1>5. chars' = FlattenSeq(pieces)
  BY <1>1, <1>2, RewrittenIs
<1> HIDE DEF pieces
<1>6. PICK g : Joins(pieces, g) /\ FlattenSeq(pieces) = g[Len(pieces)]
  BY <1>4, FlattenJoins
<1>7. chars' = g[Len(ts)] /\ g[0] = << >>
  BY <1>4, <1>5, <1>6 DEF Joins
<1>8. (Joins(WrittenPieces(original, spaced), g))'
  <2>1. WrittenPieces(original, spaced)' = pieces
    BY <1>2 DEF WrittenPieces, WrittenPiece, Gap, pieces
  <2>2. QED  BY <1>6, <2>1 DEF Joins
<1>9. Agreeing(g)'
  <2>1. Len(tokens') = 0 /\ Len(original') \in Nat /\ at' = Len(g[Len(tokens')]) + 1
    <3>1. Len(tokens') = 0
      BY <1>2
    <3>2. Len(g[0]) = 0
      BY <1>7
    <3>3. QED  BY <1>2, <1>3, <3>1, <3>2
  <2>2. Len(tokens') <= Len(original') /\ \A k \in 1 .. Len(tokens') : FALSE
    BY <2>1
  <2>3. QED  BY <1>2, <2>1, <2>2 DEF Agreeing
<1>10. (chars = g[Len(original)])'
  BY <1>2, <1>7
<1>11. QED  BY <1>8, <1>9, <1>10 DEF Alike

LEMMA AlikeNext ==
    ASSUME LexInv, Alike, [Next]_vars
    PROVE  Alike'
<1>1. CASE Lex /\ UNCHANGED <<stage, original>>
  BY <1>1, AlikeLex
<1>2. CASE Rewrite
  BY <1>2, AlikeRewrite
<1>3. CASE UNCHANGED vars
  <2>1. UNCHANGED <<chars, at, tokens, mode, stage, original>>
    BY <1>3 DEF vars
  <2>2. CASE stage # "again"
    BY <2>1, <2>2 DEF Alike
  <2>3. CASE stage = "again"
    <3>1. PICK spaced \in BOOLEAN : \E g :
              /\ Joins(WrittenPieces(original, spaced), g) /\ chars = g[Len(original)]
              /\ Agreeing(g) \/ Diverged
      BY <2>3 DEF Alike
    <3>2. PICK g : /\ Joins(WrittenPieces(original, spaced), g) /\ chars = g[Len(original)]
                   /\ Agreeing(g) \/ Diverged
      BY <3>1
    <3>3. Agreeing(g)' \/ Diverged'
      BY <2>1, <3>2 DEF Agreeing, Diverged, AnyEscape, Plain
    <3>4. WrittenPieces(original, spaced)' = WrittenPieces(original, spaced)
      BY <2>1 DEF WrittenPieces, WrittenPiece, Gap
    <3>5. (Joins(WrittenPieces(original, spaced), g) /\ chars = g[Len(original)])'
      BY <2>1, <3>2, <3>4 DEF Joins
    <3>6. QED  BY <3>3, <3>5 DEF Alike
  <2>4. QED  BY <2>2, <2>3
<1>4. QED  BY <1>1, <1>2, <1>3 DEF Next, Terminated

LEMMA AlikeSuffices ==
    ASSUME LexInv, Alike
    PROVE  RewrittenTextLexesAlike
<1> DEFINE escaped(s) == \E k \in DOMAIN s : s[k] = Escape /\ (k = Len(s) \/ s[k + 1] = Quote)
           same == mode = "done" /\ [k \in DOMAIN tokens |-> Plain(tokens[k])]
                                      = [k \in DOMAIN original |-> Plain(original[k])]
           some == \E k \in DOMAIN original : original[k].kind = "String" /\ escaped(original[k].text)
<1>1. SUFFICES ASSUME stage = "again", Ended PROVE same <=> ~some
  BY DEF RewrittenTextLexesAlike
<1>2. /\ tokens \in Seq(TokenSet) /\ original \in Seq(TokenSet)
      /\ DOMAIN tokens = 1 .. Len(tokens) /\ DOMAIN original = 1 .. Len(original)
  BY LenProperties DEF LexInv, Sound
<1>3. some <=> AnyEscape
  <2>1. ASSUME NEW k \in 1 .. Len(original)
        PROVE  (original[k].kind = "String" /\ escaped(original[k].text)) <=> EscapedToken(original[k])
    <3>1. original[k] \in TokenSet
      BY <1>2, ElementOfSeq
    <3>2. original[k].text \in Seq(Character)
      BY <3>1 DEF TokenSet
    <3>3. DOMAIN original[k].text = 1 .. Len(original[k].text)
      BY <3>2, LenProperties
    <3>4. escaped(original[k].text) <=> HasEscape(original[k].text)
      BY <3>3 DEF HasEscape, EscapedAt
    <3> HIDE DEF escaped
    <3>5. QED  BY <3>4 DEF EscapedToken
  <2> HIDE DEF escaped
  <2>2. QED  BY <1>2, <2>1 DEF AnyEscape
<1> HIDE DEF some
<1>4. PICK g : Agreeing(g) \/ Diverged
  BY <1>1 DEF Alike
<1>5. mode \in {"done", "failed"}
  BY <1>1 DEF Ended
<1>6. CASE Agreeing(g)
  <2>1. /\ mode = "done" /\ Len(tokens) = Len(original)
        /\ \A k \in 1 .. Len(tokens) : Plain(tokens[k]) = Plain(original[k]) /\ ~EscapedToken(original[k])
    BY <1>5, <1>6 DEF Agreeing
  <2>2. same
    BY <1>2, <2>1
  <2>3. ~AnyEscape
    BY <2>1 DEF AnyEscape
  <2>4. QED  BY <1>3, <2>2, <2>3
<1>7. CASE Diverged
  <2>1. ASSUME same PROVE FALSE
    <3>1. PICK k \in 1 .. Len(tokens) : k \in 1 .. Len(original) /\ Plain(tokens[k]) # Plain(original[k])
      BY <1>7, <2>1 DEF Diverged
    <3>2. [i \in DOMAIN tokens |-> Plain(tokens[i])][k] = [i \in DOMAIN original |-> Plain(original[i])][k]
      BY <2>1
    <3>3. QED  BY <1>2, <3>1, <3>2
  <2>2. AnyEscape
    BY <1>7 DEF Diverged
  <2>3. QED  BY <1>3, <2>1, <2>2
<1>8. QED  BY <1>4, <1>6, <1>7

\* Every token that ToText writes is read back as it was, whatever stands
\* beside it, but for the strings of which it doubles the quotes only.
THEOREM WritingReadsBack == Spec => []RewrittenTextLexesAlike
<1>1. Init => LexInv /\ Alike
  <2>1. Init => LexInv
    BY LexInvInit
  <2>2. Init => Alike
    BY DEF Init, Alike
  <2>3. QED  BY <2>1, <2>2
<1>2. LexInv /\ Alike /\ [Next]_vars => (LexInv /\ Alike)'
  BY LexInvNext, AlikeNext
<1>3. LexInv /\ Alike => RewrittenTextLexesAlike
  BY AlikeSuffices
<1>4. QED  BY <1>1, <1>2, <1>3, PTL DEF Spec
=============================================================================
