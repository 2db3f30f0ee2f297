---------------------------- MODULE SearchProofs ----------------------------
(***************************************************************************)
(* What the joins of the search do to the average of a photo: nothing, for *)
(* every table and every query.                                            *)
(*                                                                         *)
(* The sums of Search.tla are folds, defined by recursion over the subsets *)
(* of a finite set.  A fact about all sums is here a set of subsets, shown *)
(* to hold the whole by the minimal subset that it would leave out.        *)
(***************************************************************************)
EXTENDS Search, FiniteSetTheorems, WellFoundedInduction, TLAPS

-----------------------------------------------------------------------------
(* Induction over the subsets of a finite set                              *)

LEMMA SubsetInduction ==
  ASSUME NEW S, IsFiniteSet(S), NEW G,
         \A T \in SUBSET S : (\A U \in SUBSET T : U # T => U \in G) => T \in G
  PROVE  \A T \in SUBSET S : T \in G
<1> DEFINE Bad == (SUBSET S) \ G
<1>1. SUFFICES ASSUME Bad # {} PROVE FALSE OBVIOUS
<1>2. IsWellFoundedOn(StrictSubsetOrdering(S), SUBSET S)
  BY FS_StrictSubsetOrderingWellFounded, FS_FiniteSubsetsOfFinite
<1>3. PICK T \in Bad : \A U \in Bad : ~ (<<U, T>> \in StrictSubsetOrdering(S))
  <2>1. Bad \subseteq SUBSET S OBVIOUS
  <2> HIDE DEF Bad
  <2>2. QED BY ONLY <1>1, <1>2, <2>1, WFMin
<1>4. ASSUME NEW U \in SUBSET T, U # T PROVE U \in G
  <2>1. <<U, T>> \in StrictSubsetOrdering(S) <=> U \in SUBSET S /\ T \in SUBSET S /\ U # T
    BY <1>4 DEF StrictSubsetOrdering
  <2>2. QED BY <1>3, <1>4, <2>1
<1>5. QED BY <1>3, <1>4

-----------------------------------------------------------------------------
(* Sums                                                                    *)

\* MapThenSumSet of a function.
SumOver(g, S) == MapThenSumSet(LAMBDA x : g[x], S)

\* The recursive equation behind it.
SumEq(iter, g, S) ==
  iter = [s \in SUBSET S |-> IF s = {} THEN 0
                             ELSE LET x == CHOOSE x \in s : TRUE IN g[x] + iter[s \ {x}]]

LEMMA SumDefinition ==
  ASSUME NEW g, NEW S
  PROVE  SumOver(g, S) = (CHOOSE iter : SumEq(iter, g, S))[S]
BY DEF SumOver, MapThenSumSet, MapThenFoldSet, SumEq

LEMMA SumEqUnique ==
  ASSUME NEW g, NEW S, IsFiniteSet(S), NEW A, NEW e, NEW f, IsFiniteSet(A),
         S \subseteq A, SumEq(e, g, S), SumEq(f, g, A)
  PROVE  \A s \in SUBSET S : e[s] = f[s]
<1> DEFINE G == {s \in SUBSET S : e[s] = f[s]}
<1>1. ASSUME NEW T \in SUBSET S, \A U \in SUBSET T : U # T => U \in G
      PROVE  T \in G
  <2>1. CASE T = {}
    <3>1. e[T] = 0 BY <2>1 DEF SumEq
    <3>2. f[T] = 0 BY <2>1 DEF SumEq
    <3>3. QED BY <3>1, <3>2
  <2>2. CASE T # {}
    <3> DEFINE x == CHOOSE x \in T : TRUE
    <3>1. x \in T BY <2>2
    <3>2. e[T] = g[x] + e[T \ {x}] BY <2>2 DEF SumEq
    <3>3. f[T] = g[x] + f[T \ {x}]
      <4>1. T \in SUBSET A OBVIOUS
      <4>2. QED BY <2>2, <4>1 DEF SumEq
    <3>4. T \ {x} \in G BY <1>1, <3>1
    <3>5. QED BY <3>2, <3>3, <3>4
  <2>3. QED BY <2>1, <2>2
<1> HIDE DEF G
<1>2. \A T \in SUBSET S : T \in G BY ONLY <1>1, IsFiniteSet(S), SubsetInduction
<1>3. QED BY <1>2 DEF G

LEMMA SumEqExists ==
  ASSUME NEW g, NEW S, IsFiniteSet(S)
  PROVE  \E e : SumEq(e, g, S)
<1> DEFINE G == {s \in SUBSET S : \E e : SumEq(e, g, s)}
           Of(s) == CHOOSE e : SumEq(e, g, s)
<1>1. ASSUME NEW T \in SUBSET S, \A U \in SUBSET T : U # T => U \in G
      PROVE  T \in G
  <2> DEFINE e == [s \in SUBSET T |->
                     IF s = {} THEN 0
                     ELSE LET x == CHOOSE x \in s : TRUE IN g[x] + Of(s \ {x})[s \ {x}]]
  <2>1. ASSUME NEW s \in SUBSET T, s # T PROVE e[s] = Of(s)[s]
    <3>1. SumEq(Of(s), g, s) BY <1>1, <2>1
    <3>2. CASE s = {} BY <3>1, <3>2 DEF SumEq
    <3>3. CASE s # {}
      <4> DEFINE x == CHOOSE x \in s : TRUE
                 r == s \ {x}
      <4>1. x \in s BY <3>3
      <4>2. e[s] = g[x] + Of(r)[r] BY <3>3
      <4>3. Of(s)[s] = g[x] + Of(s)[r] BY <3>1, <3>3 DEF SumEq
      <4>4. SumEq(Of(r), g, r)
        <5>1. r \in SUBSET T /\ r # T BY <4>1
        <5>2. QED BY <1>1, <5>1
      <4>5. Of(r)[r] = Of(s)[r]
        <5>1. IsFiniteSet(s) /\ IsFiniteSet(r) /\ r \subseteq s BY FS_Subset
        <5> HIDE DEF r, Of
        <5>2. QED BY ONLY <3>1, <4>4, <5>1, SumEqUnique
      <4> HIDE DEF e, r, x, Of
      <4>6. QED BY <4>2, <4>3, <4>5
    <3>4. QED BY <3>2, <3>3
  <2>2. SumEq(e, g, T)
    <3>1. ASSUME NEW s \in SUBSET T, NEW y \in s PROVE Of(s \ {y})[s \ {y}] = e[s \ {y}]
      <4>1. s \ {y} \in SUBSET T /\ s \ {y} # T OBVIOUS
      <4> HIDE DEF e, Of
      <4>2. QED BY <2>1, <4>1
    <3> DEFINE h == [s \in SUBSET T |->
                       IF s = {} THEN 0
                       ELSE LET x == CHOOSE x \in s : TRUE IN g[x] + e[s \ {x}]]
    <3>2. ASSUME NEW s \in SUBSET T PROVE e[s] = h[s]
      <4>1. CASE s = {} BY <4>1
      <4>2. CASE s # {}
        <5> DEFINE x == CHOOSE x \in s : TRUE
        <5>1. e[s] = g[x] + Of(s \ {x})[s \ {x}] BY <4>2
        <5>2. h[s] = g[x] + e[s \ {x}] BY <4>2
        <5>3. Of(s \ {x})[s \ {x}] = e[s \ {x}]
          <6>1. x \in s BY <4>2
          <6> HIDE DEF x, e, Of
          <6>2. QED BY <3>1, <6>1
        <5>4. QED BY <5>1, <5>2, <5>3
      <4>3. QED BY <4>1, <4>2
    <3>3. e = h BY <3>2
    <3> HIDE DEF e
    <3>4. QED BY <3>3 DEF SumEq
  <2> HIDE DEF e, Of
  <2>3. QED BY <2>2
<1> HIDE DEF G
<1>2. \A T \in SUBSET S : T \in G BY ONLY <1>1, IsFiniteSet(S), SubsetInduction
<1>3. QED BY <1>2 DEF G

LEMMA SumEquation ==
  ASSUME NEW g, NEW S, IsFiniteSet(S)
  PROVE  /\ S = {} => SumOver(g, S) = 0
         /\ S # {} => LET x == CHOOSE x \in S : TRUE
                      IN SumOver(g, S) = g[x] + SumOver(g, S \ {x})
<1> DEFINE Of(T) == CHOOSE e : SumEq(e, g, T)
<1>1. ASSUME NEW T, IsFiniteSet(T) PROVE SumOver(g, T) = Of(T)[T] /\ SumEq(Of(T), g, T)
  BY <1>1, SumDefinition, SumEqExists
<1>2. S = {} => SumOver(g, S) = 0 BY <1>1 DEF SumEq
<1>3. ASSUME S # {}, NEW x, x = CHOOSE y \in S : TRUE
      PROVE  SumOver(g, S) = g[x] + SumOver(g, S \ {x})
  <2>1. SumOver(g, S) = Of(S)[S] /\ SumEq(Of(S), g, S) BY <1>1
  <2>2. Of(S)[S] = g[x] + Of(S)[S \ {x}] BY <1>3, <2>1 DEF SumEq
  <2>3. IsFiniteSet(S \ {x}) BY FS_Subset
  <2>4. SumOver(g, S \ {x}) = Of(S \ {x})[S \ {x}] /\ SumEq(Of(S \ {x}), g, S \ {x})
    BY <1>1, <2>3
  <2> HIDE DEF Of
  <2>5. Of(S \ {x})[S \ {x}] = Of(S)[S \ {x}]
    BY ONLY IsFiniteSet(S), <2>1, <2>3, <2>4, SumEqUnique
  <2>6. QED BY <2>1, <2>2, <2>4, <2>5
<1>4. QED BY <1>2, <1>3

LEMMA SumEmpty == ASSUME NEW g PROVE SumOver(g, {}) = 0
BY SumEquation, FS_EmptySet

\* The order of the summands does not matter.
LEMMA SumSplits ==
  ASSUME NEW S, IsFiniteSet(S), NEW g, \A x \in S : g[x] \in Nat
  PROVE  /\ SumOver(g, S) \in Nat
         /\ \A x \in S : SumOver(g, S) = g[x] + SumOver(g, S \ {x})
<1> DEFINE G == {T \in SUBSET S : /\ SumOver(g, T) \in Nat
                                  /\ \A x \in T : SumOver(g, T) = g[x] + SumOver(g, T \ {x})}
<1>1. ASSUME NEW T \in SUBSET S, \A U \in SUBSET T : U # T => U \in G
      PROVE  T \in G
  <2>1. CASE T = {} BY <2>1, SumEmpty
  <2>2. CASE T # {}
    <3>1. IsFiniteSet(T) BY FS_Subset
    <3>2. PICK c \in T : SumOver(g, T) = g[c] + SumOver(g, T \ {c})
      BY <2>2, <3>1, SumEquation
    <3>3. T \ {c} \in G BY <1>1
    <3>4. SumOver(g, T) \in Nat BY <3>2, <3>3
    <3>5. ASSUME NEW x \in T, x # c PROVE SumOver(g, T) = g[x] + SumOver(g, T \ {x})
      <4> DEFINE U == (T \ {c}) \ {x}
      <4>1. T \ {x} \in G BY <1>1
      <4>2. SumOver(g, T \ {c}) = g[x] + SumOver(g, U) BY <3>3, <3>5
      <4>3. SumOver(g, T \ {x}) = g[c] + SumOver(g, U)
        <5>1. U = (T \ {x}) \ {c} OBVIOUS
        <5>2. c \in T \ {x} BY <3>5
        <5>3. QED BY <4>1, <5>1, <5>2
      <4>4. U \in G
        <5>1. U \in SUBSET T /\ U # T BY <3>5
        <5>2. QED BY <1>1, <5>1
      <4>5. SumOver(g, U) \in Nat BY <4>4
      <4>6. g[x] \in Nat /\ g[c] \in Nat OBVIOUS
      <4> HIDE DEF U, G
      <4>7. QED BY <3>2, <4>2, <4>3, <4>5, <4>6
    <3>6. QED BY <3>2, <3>4, <3>5
  <2>3. QED BY <2>1, <2>2
<1> HIDE DEF G
<1>2. S \in G BY ONLY <1>1, IsFiniteSet(S), SubsetInduction
<1>3. QED BY <1>2 DEF G

LEMMA SumCongruent ==
  ASSUME NEW S, IsFiniteSet(S), NEW g, NEW h, \A x \in S : g[x] = h[x]
  PROVE  SumOver(g, S) = SumOver(h, S)
<1> DEFINE G == {T \in SUBSET S : SumOver(g, T) = SumOver(h, T)}
<1>1. ASSUME NEW T \in SUBSET S, \A U \in SUBSET T : U # T => U \in G
      PROVE  T \in G
  <2>1. CASE T = {} BY <2>1, SumEmpty
  <2>2. CASE T # {}
    <3> DEFINE x == CHOOSE x \in T : TRUE
    <3>1. IsFiniteSet(T) BY FS_Subset
    <3>2. x \in T BY <2>2
    <3>3. SumOver(g, T) = g[x] + SumOver(g, T \ {x}) BY <2>2, <3>1, SumEquation
    <3>4. SumOver(h, T) = h[x] + SumOver(h, T \ {x}) BY <2>2, <3>1, SumEquation
    <3>5. T \ {x} \in G BY <1>1, <3>2
    <3> HIDE DEF x
    <3>6. QED BY <3>2, <3>3, <3>4, <3>5
  <2>3. QED BY <2>1, <2>2
<1> HIDE DEF G
<1>2. S \in G BY ONLY <1>1, IsFiniteSet(S), SubsetInduction
<1>3. QED BY <1>2 DEF G

LEMMA SumUnion ==
  ASSUME NEW A, IsFiniteSet(A), NEW B, IsFiniteSet(B), A \cap B = {},
         NEW g, \A x \in A \cup B : g[x] \in Nat
  PROVE  SumOver(g, A \cup B) = SumOver(g, A) + SumOver(g, B)
<1> DEFINE G == {T \in SUBSET A : SumOver(g, T \cup B) = SumOver(g, T) + SumOver(g, B)}
<1>0. SumOver(g, B) \in Nat BY SumSplits
<1>1. ASSUME NEW T \in SUBSET A, \A U \in SUBSET T : U # T => U \in G
      PROVE  T \in G
  <2>1. CASE T = {}
    <3>1. T \cup B = B BY <2>1
    <3>2. QED BY <1>0, <2>1, <3>1, SumEmpty
  <2>2. CASE T # {}
    <3>1. PICK x : x \in T BY <2>2
    <3>2. IsFiniteSet(T) /\ IsFiniteSet(T \ {x}) BY FS_Subset
    <3>3. SumOver(g, T) = g[x] + SumOver(g, T \ {x}) /\ SumOver(g, T \ {x}) \in Nat
      BY <3>1, <3>2, SumSplits
    <3>4. SumOver(g, T \cup B) = g[x] + SumOver(g, (T \cup B) \ {x})
      <4>1. IsFiniteSet(T \cup B) BY <3>2, FS_Union
      <4>2. QED BY <3>1, <4>1, SumSplits
    <3>5. (T \cup B) \ {x} = (T \ {x}) \cup B BY <3>1
    <3>6. T \ {x} \in G BY <1>1, <3>1
    <3>7. g[x] \in Nat BY <3>1
    <3>8. QED BY <1>0, <3>3, <3>4, <3>5, <3>6, <3>7
  <2>3. QED BY <2>1, <2>2
<1> HIDE DEF G
<1>2. A \in G BY ONLY <1>1, IsFiniteSet(A), SubsetInduction
<1>3. QED BY <1>2 DEF G

LEMMA SumConstant ==
  ASSUME NEW S, IsFiniteSet(S), NEW n \in Nat, NEW g, \A x \in S : g[x] = n
  PROVE  SumOver(g, S) = Cardinality(S) * n
<1> DEFINE G == {T \in SUBSET S : SumOver(g, T) = Cardinality(T) * n}
<1>1. ASSUME NEW T \in SUBSET S, \A U \in SUBSET T : U # T => U \in G
      PROVE  T \in G
  <2>1. CASE T = {} BY <2>1, SumEmpty, FS_EmptySet
  <2>2. CASE T # {}
    <3>1. PICK x : x \in T BY <2>2
    <3>2. IsFiniteSet(T) /\ Cardinality(T) \in Nat BY FS_Subset, FS_CardinalityType
    <3>3. Cardinality(T \ {x}) = Cardinality(T) - 1 BY <3>1, <3>2, FS_RemoveElement
    <3>4. SumOver(g, T) = n + SumOver(g, T \ {x}) BY <3>1, <3>2, SumSplits
    <3>5. T \ {x} \in G BY <1>1, <3>1
    <3>6. SumOver(g, T) = n + (Cardinality(T) - 1) * n BY <3>3, <3>4, <3>5
    <3>7. n + (Cardinality(T) - 1) * n = Cardinality(T) * n BY <3>2
    <3>8. QED BY <3>6, <3>7
  <2>3. QED BY <2>1, <2>2
<1> HIDE DEF G
<1>2. S \in G BY ONLY <1>1, IsFiniteSet(S), SubsetInduction
<1>3. QED BY <1>2 DEF G

\* A sum over pairs of which only the first half counts.
LEMMA SumFannedOut ==
  ASSUME NEW R, IsFiniteSet(R), NEW T, IsFiniteSet(T),
         NEW g, \A x \in R : g[x] \in Nat,
         NEW h, \A j \in R \X T : h[j] = g[j[1]]
  PROVE  SumOver(h, R \X T) = Cardinality(T) * SumOver(g, R)
<1> DEFINE t == Cardinality(T)
           G == {Q \in SUBSET R : SumOver(h, Q \X T) = t * SumOver(g, Q)}
<1>0. t \in Nat BY FS_CardinalityType
<1>1. ASSUME NEW Q \in SUBSET R, \A U \in SUBSET Q : U # Q => U \in G
      PROVE  Q \in G
  <2>1. CASE Q = {}
    <3>1. Q \X T = {} BY <2>1
    <3>2. QED BY <1>0, <2>1, <3>1, SumEmpty
  <2>2. CASE Q # {}
    <3>1. PICK x : x \in Q BY <2>2
    <3> DEFINE P == Q \ {x}
    <3>2. IsFiniteSet(Q) /\ IsFiniteSet(P) /\ IsFiniteSet({x}) BY FS_Subset, FS_Singleton
    <3>3. SumOver(g, Q) = g[x] + SumOver(g, P) BY <3>1, <3>2, SumSplits
    <3>4. SumOver(g, P) \in Nat BY <3>2, SumSplits
    <3>5. Q \X T = ({x} \X T) \cup (P \X T) /\ ({x} \X T) \cap (P \X T) = {} BY <3>1
    <3>6. /\ IsFiniteSet({x} \X T) /\ Cardinality({x} \X T) = t
          /\ IsFiniteSet(P \X T)
      <4>1. Cardinality({x}) = 1 BY FS_Singleton
      <4>2. /\ IsFiniteSet({x} \X T)
            /\ Cardinality({x} \X T) = Cardinality({x}) * Cardinality(T)
        BY ONLY <3>2, IsFiniteSet(T), FS_Product
      <4>3. IsFiniteSet(P \X T) BY ONLY <3>2, IsFiniteSet(T), FS_Product
      <4> HIDE DEF t
      <4>4. 1 * t = t BY <1>0
      <4>5. Cardinality({x} \X T) = 1 * t BY <4>1, <4>2 DEF t
      <4>6. QED BY <4>2, <4>3, <4>4, <4>5
    <3>7. \A j \in {x} \X T : h[j] = g[x] BY <3>1
    <3>8. \A j \in ({x} \X T) \cup (P \X T) : h[j] \in Nat BY <3>1
    <3>9. g[x] \in Nat BY <3>1
    <3>10. SumOver(h, {x} \X T) = t * g[x] BY <3>6, <3>7, <3>9, SumConstant
    <3>11. SumOver(h, Q \X T) = SumOver(h, {x} \X T) + SumOver(h, P \X T)
      BY <3>5, <3>6, <3>8, SumUnion
    <3>12. SumOver(h, P \X T) = t * SumOver(g, P) BY <1>1, <3>1
    <3> HIDE DEF t, G, P
    <3>13. t * (g[x] + SumOver(g, P)) = t * g[x] + t * SumOver(g, P) BY <1>0, <3>4, <3>9
    <3>14. SumOver(h, Q \X T) = t * SumOver(g, Q) BY <3>3, <3>10, <3>11, <3>12, <3>13
    <3>15. QED BY <3>14 DEF G
  <2>3. QED BY <2>1, <2>2
<1> HIDE DEF G
<1>2. R \in G BY ONLY <1>1, IsFiniteSet(R), SubsetInduction
<1>3. QED BY <1>2 DEF G

-----------------------------------------------------------------------------
(* The joins                                                               *)

\* The joined tags of a photo that are searched for.
JoinedTags(row, q) == Outer(row.tags, NoTag) \cap q.tags

LEMMA Joined ==
  ASSUME NEW row \in Row, NEW q \in Query
  PROVE  /\ IsFiniteSet(Raters(row)) /\ Cardinality(Raters(row)) \in Nat
         /\ IsFiniteSet(JoinedTags(row, q)) /\ Cardinality(JoinedTags(row, q)) \in Nat
         /\ \A w \in Raters(row) : row.stars[w] \in Nat
         /\ NoRater \notin Raters(row)
<1>1. Raters(row) \in SUBSET Rater BY DEF Raters
<1>2. IsFiniteSet(Raters(row)) /\ Cardinality(Raters(row)) \in Nat
  BY ONLY <1>1, SearchAssumption, FS_Subset, FS_CardinalityType
<1>3. JoinedTags(row, q) \in SUBSET (Tag \cup {NoTag}) BY DEF JoinedTags, Outer, Row
<1>4. IsFiniteSet(Tag \cup {NoTag}) BY ONLY SearchAssumption, FS_AddElement
<1>5. IsFiniteSet(JoinedTags(row, q)) /\ Cardinality(JoinedTags(row, q)) \in Nat
  BY ONLY <1>3, <1>4, FS_Subset, FS_CardinalityType
<1>6. \A w \in Raters(row) : row.stars[w] \in Nat BY SearchAssumption DEF Raters, Row
<1>7. NoRater \notin Raters(row) BY SearchAssumption DEF Raters
<1>8. QED BY <1>2, <1>5, <1>6, <1>7

LEMMA PairsExist ==
  ASSUME NEW A, NEW B
  PROVE  A \X B # {} <=> A # {} /\ B # {}
<1>1. ASSUME NEW a \in A, NEW b \in B PROVE A \X B # {}
  <2>1. <<a, b>> \in A \X B OBVIOUS
  <2>2. QED BY <2>1
<1>2. QED BY <1>1

\* A photo of the right date is found unless all its joined tags are filtered out.
LEMMA Grouped ==
  ASSUME NEW row \in Row, NEW q \in Query
  PROVE  /\ Group(row, q) # {} <=> row.created \in q.from..q.to /\ JoinedTags(row, q) # {}
         /\ {j \in Group(row, q) : j[1] # NoRater} =
              IF row.created \in q.from..q.to THEN Raters(row) \X JoinedTags(row, q) ELSE {}
<1>1. Outer(Raters(row), NoRater) # {} BY DEF Outer
<1>2. {w \in Outer(Raters(row), NoRater) : w # NoRater} = Raters(row)
  BY Joined DEF Outer
<1>3. CASE row.created \in q.from..q.to
  <2>1. Group(row, q) = Outer(Raters(row), NoRater) \X JoinedTags(row, q)
    BY <1>3 DEF Group, JoinedTags
  <2>2. Group(row, q) # {} <=> JoinedTags(row, q) # {} BY <1>1, <2>1, PairsExist
  <2>3. {j \in Group(row, q) : j[1] # NoRater} =
          {w \in Outer(Raters(row), NoRater) : w # NoRater} \X JoinedTags(row, q)
    BY <2>1
  <2>4. QED BY <1>2, <1>3, <2>2, <2>3
<1>4. CASE ~ (row.created \in q.from..q.to)
  <2>1. Group(row, q) = {} BY <1>4 DEF Group
  <2>2. QED BY <1>4, <2>1
<1>5. QED BY <1>3, <1>4

\* Without a tag to search for every photo has a joined tag; with one, only the
\* photos that have it.
LEMMA TagFilter ==
  ASSUME NEW row \in Row, NEW q \in Query
  PROVE  JoinedTags(row, q) # {} <=> q.tags = Tag \cup {NoTag} \/ q.tags \cap row.tags # {}
<1>1. row.tags \in SUBSET Tag BY DEF Row
<1>2. CASE q.tags = Tag \cup {NoTag} BY <1>1, <1>2 DEF JoinedTags, Outer
<1>3. CASE q.tags \in SUBSET Tag
  <2>1. q.tags # Tag \cup {NoTag} BY <1>3, SearchAssumption
  <2>2. QED BY <1>1, <1>3, <2>1, SearchAssumption DEF JoinedTags, Outer
<1>4. QED BY <1>2, <1>3 DEF Query

\* The stars of a photo as a function of the rater.
LEMMA PlainSum ==
  ASSUME NEW row
  PROVE  MapThenSumSet(LAMBDA w : row.stars[w], Raters(row)) = SumOver(row.stars, Raters(row))
BY DEF SumOver

\* The same as a function of a joined row.  (Zenon sees that the fold with the
\* operator and the fold with the function choose the same recursion.)
JoinedStars(row, S) == [j \in S |-> row.stars[j[1]]]

LEMMA JoinedSum ==
  ASSUME NEW row, NEW S
  PROVE  MapThenSumSet(LAMBDA j : row.stars[j[1]], S) = SumOver(JoinedStars(row, S), S)
BY Zenon DEF SumOver, MapThenSumSet, MapThenFoldSet, JoinedStars

\* Each rating of a photo is joined once for each joined tag: the sum and the
\* number of the ratings grow by the same factor.
LEMMA AverageFansOut ==
  ASSUME NEW row \in Row, NEW q \in Query, Group(row, q) # {}
  PROVE  \E sum \in Nat, num \in Nat \ {0}, times \in Nat \ {0} :
           /\ Average(row, q) = <<times * sum, num * times>>
           /\ PlainAverage(row) = <<sum, num>>
<1> DEFINE R == Raters(row)
           T == JoinedTags(row, q)
           J == R \X T
<1>1. T # {} /\ {j \in Group(row, q) : j[1] # NoRater} = J BY Grouped
<1>2. CASE R = {}
  <2>1. J = {} BY <1>2
  <2>2. Average(row, q) = <<0, 1>> BY <1>1, <2>1 DEF Average
  <2>3. PlainAverage(row) = <<0, 1>> BY <1>2 DEF PlainAverage
  <2>4. 1 * 0 = 0 /\ 1 * 1 = 1 /\ 1 \in Nat \ {0} /\ 0 \in Nat OBVIOUS
  <2>5. QED BY <2>2, <2>3, <2>4
<1>3. CASE R # {}
  <2> DEFINE sum == SumOver(row.stars, R)
             num == Cardinality(R)
             times == Cardinality(T)
             h == JoinedStars(row, J)
  <2>1. /\ IsFiniteSet(R) /\ num \in Nat /\ IsFiniteSet(T) /\ times \in Nat
        /\ \A w \in R : row.stars[w] \in Nat
    BY Joined
  <2>2. num # 0 /\ times # 0 BY <1>1, <1>3, <2>1, FS_EmptySet
  <2>3. sum \in Nat BY <2>1, SumSplits
  <2>4. J # {} BY <1>1, <1>3, PairsExist
  <2>5. Average(row, q) = <<SumOver(h, J), Cardinality(J)>>
    BY <1>1, <2>4, JoinedSum DEF Average
  <2>6. SumOver(h, J) = times * sum
    <3>1. \A j \in J : h[j] = row.stars[j[1]] BY DEF JoinedStars
    <3> HIDE DEF h, R, T
    <3>2. QED BY <2>1, <3>1, SumFannedOut
  <2>7. Cardinality(J) = num * times BY <2>1, FS_Product
  <2>8. PlainAverage(row) = <<sum, num>> BY <1>3, PlainSum DEF PlainAverage
  <2> HIDE DEF sum, num, times, h, J, R, T
  <2>9. QED BY <2>1, <2>2, <2>3, <2>5, <2>6, <2>7, <2>8
<1>4. QED BY <1>2, <1>3

LEMMA Cancels ==
  ASSUME NEW a \in Int, NEW b \in Int, NEW t \in Nat \ {0}
  PROVE  (t * a < t * b) <=> (a < b)
<1>1. ASSUME a < b PROVE t * a < t * b
  <2>1. t * b = t * a + t * (b - a) BY SMT
  <2>2. t * (b - a) > 0 BY <1>1, SMT
  <2>3. t * a \in Int /\ t * b \in Int /\ t * (b - a) \in Int OBVIOUS
  <2>4. QED BY <2>1, <2>2, <2>3
<1>2. ASSUME b < a PROVE t * b < t * a
  <2>1. t * a = t * b + t * (a - b) BY SMT
  <2>2. t * (a - b) > 0 BY <1>2, SMT
  <2>3. t * a \in Int /\ t * b \in Int /\ t * (a - b) \in Int OBVIOUS
  <2>4. QED BY <2>1, <2>2, <2>3
<1>3. t * a \in Int /\ t * b \in Int OBVIOUS
<1>4. QED BY <1>1, <1>2, <1>3

\* So the average is the same, and passes the same filter.
LEMMA AverageIsPlain ==
  ASSUME NEW row \in Row, NEW q \in Query, Group(row, q) # {}
  PROVE  /\ Equal(Average(row, q), PlainAverage(row))
         /\ Within(Average(row, q), q) <=> Within(PlainAverage(row), q)
<1>1. PICK sum \in Nat, num \in Nat \ {0}, times \in Nat \ {0} :
             /\ Average(row, q) = <<times * sum, num * times>>
             /\ PlainAverage(row) = <<sum, num>>
  BY AverageFansOut
<1>2. (times * sum) * num = sum * (num * times) BY SMT
<1>3. Equal(Average(row, q), PlainAverage(row)) BY <1>1, <1>2 DEF Equal
<1>4. q.min \in Nat /\ q.max \in Nat BY DEF Query
<1>5. ASSUME NEW n \in Nat
      PROVE  /\ Less(Average(row, q), <<n, 1>>) <=> Less(PlainAverage(row), <<n, 1>>)
             /\ Less(<<n, 1>>, Average(row, q)) <=> Less(<<n, 1>>, PlainAverage(row))
  <2>1. n * (num * times) = times * (n * num) BY SMT
  <2>2. n * num \in Int /\ sum \in Int OBVIOUS
  <2>3. (times * sum < times * (n * num)) <=> (sum < n * num) BY <2>2, Cancels
  <2>4. (times * (n * num) < times * sum) <=> (n * num < sum) BY <2>2, Cancels
  <2>5. (times * sum) * 1 = times * sum /\ sum * 1 = sum OBVIOUS
  <2>6. QED BY <1>1, <2>1, <2>3, <2>4, <2>5 DEF Less
<1>6. Within(Average(row, q), q) <=> Within(PlainAverage(row), q)
  BY <1>4, <1>5 DEF Within
<1>7. QED BY <1>3, <1>6

\* And two of them compare alike, however often each is joined.
LEMMA AveragesCompare ==
  ASSUME NEW row \in Row, NEW other \in Row, NEW q \in Query,
         Group(row, q) # {}, Group(other, q) # {}
  PROVE  Less(Average(row, q), Average(other, q))
           <=> Less(PlainAverage(row), PlainAverage(other))
<1>1. PICK a \in Nat, b \in Nat \ {0}, t \in Nat \ {0} :
             Average(row, q) = <<t * a, b * t>> /\ PlainAverage(row) = <<a, b>>
  BY AverageFansOut
<1>2. PICK c \in Nat, d \in Nat \ {0}, u \in Nat \ {0} :
             Average(other, q) = <<u * c, d * u>> /\ PlainAverage(other) = <<c, d>>
  BY AverageFansOut
<1>3. (t * a) * (d * u) = (t * u) * (a * d) BY SMT
<1>4. (u * c) * (b * t) = (t * u) * (c * b) BY SMT
<1>5. t * u \in Nat \ {0} /\ a * d \in Int /\ c * b \in Int BY SMT
<1>6. ((t * u) * (a * d) < (t * u) * (c * b)) <=> (a * d < c * b) BY <1>5, Cancels
<1>7. QED BY <1>1, <1>2, <1>3, <1>4, <1>6 DEF Less

\* The search finds a photo just when it should, and orders what it finds as it
\* should.
LEMMA SearchFinds ==
  ASSUME NEW tb \in Tables, NEW q \in Query
  PROVE  /\ Matches(tb, q) = Wanted(tb, q)
         /\ \A i \in Matches(tb, q) : Equal(Average(tb[i], q), PlainAverage(tb[i]))
         /\ \A i, j \in Matches(tb, q) : Less(Average(tb[i], q), Average(tb[j], q))
                                         <=> Less(PlainAverage(tb[i]), PlainAverage(tb[j]))
<1>1. ASSUME NEW i \in Rows(tb)
      PROVE  /\ i \in Matches(tb, q) <=> i \in Wanted(tb, q)
             /\ i \in Matches(tb, q) => Equal(Average(tb[i], q), PlainAverage(tb[i]))
  <2>1. tb[i] \in Row BY DEF Tables, Rows
  <2>2. i \in Matches(tb, q) <=> Group(tb[i], q) # {} /\ Within(Average(tb[i], q), q)
    BY DEF Matches
  <2>3. i \in Wanted(tb, q) <=> /\ q.tags = Tag \cup {NoTag} \/ q.tags \cap tb[i].tags # {}
                                /\ tb[i].created \in q.from..q.to
                                /\ Within(PlainAverage(tb[i]), q)
    BY DEF Wanted
  <2>4. Group(tb[i], q) # {} <=>
          /\ q.tags = Tag \cup {NoTag} \/ q.tags \cap tb[i].tags # {}
          /\ tb[i].created \in q.from..q.to
    BY <2>1, Grouped, TagFilter
  <2>5. QED BY <2>1, <2>2, <2>3, <2>4, AverageIsPlain
<1>2. Matches(tb, q) \subseteq Rows(tb) /\ Wanted(tb, q) \subseteq Rows(tb)
  BY DEF Matches, Wanted
<1>3. \A i \in Matches(tb, q) : tb[i] \in Row /\ Group(tb[i], q) # {}
  BY DEF Matches, Rows, Tables
<1>4. QED BY <1>1, <1>2, <1>3, AveragesCompare
=============================================================================
