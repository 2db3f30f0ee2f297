--------------------------- MODULE ListingsProofs ---------------------------
(***************************************************************************)
(* Theorems about Listings.tla for every table, query and size of a page,  *)
(* and however many rows come and go.  Those about pages use nothing of an *)
(* order but that it compares two rows by these rows, so that what Search  *)
(* says of averages and joins stays closed in them; SearchProofs opens it. *)
(***************************************************************************)
EXTENDS Listings, SearchProofs, FiniteSetTheorems, TLAPS

-----------------------------------------------------------------------------
(* Counting                                                                *)

LEMMA SubsetFinite ==
  ASSUME NEW A \in SUBSET Id
  PROVE  IsFiniteSet(A) /\ Cardinality(A) \in Nat
BY SearchAssumption, FS_Subset, FS_CardinalityType

\* A set with at most one element more.
LEMMA OneMore ==
  ASSUME NEW A \in SUBSET Id, NEW B \in SUBSET Id, \A x, y \in B \ A : x = y
  PROVE  Cardinality(B) <= Cardinality(A) + 1
<1>1. IsFiniteSet(A) /\ Cardinality(A) \in Nat BY SubsetFinite
<1>2. IsFiniteSet(B) /\ Cardinality(B) \in Nat BY SubsetFinite
<1>3. CASE B \subseteq A
  <2>1. Cardinality(B) <= Cardinality(A) BY ONLY <1>1, <1>3, FS_Subset
  <2>2. QED BY <1>1, <1>2, <2>1
<1>4. CASE ~ (B \subseteq A)
  <2>1. PICK x \in B \ A : TRUE BY <1>4
  <2>2. B \subseteq A \cup {x} BY <2>1
  <2>3. /\ IsFiniteSet(A \cup {x})
        /\ Cardinality(A \cup {x}) = IF x \in A THEN Cardinality(A) ELSE Cardinality(A) + 1
    BY ONLY <1>1, FS_AddElement
  <2>4. Cardinality(B) <= Cardinality(A \cup {x}) BY ONLY <2>2, <2>3, FS_Subset
  <2>5. QED BY ONLY <1>1, <1>2, <2>1, <2>3, <2>4
<1>5. QED BY <1>3, <1>4

\* In an enumeration, i comes after as many as its place says.
LEMMA Placed ==
  ASSUME NEW S, IsFiniteSet(S), NEW pos \in [S -> 1..Cardinality(S)],
         \A i, j \in S : i # j => pos[i] # pos[j], NEW i \in S
  PROVE  Cardinality({j \in S : pos[j] < pos[i]}) = pos[i] - 1
<1> DEFINE N == Cardinality(S)
           A == {j \in S : pos[j] < pos[i]}
           f == [j \in A |-> pos[j]]
<1>1. N \in Nat BY FS_CardinalityType
<1>2. IsFiniteSet(1..N) /\ Cardinality(1..N) = N
  <2>1. IsFiniteSet(1..N) /\ Cardinality(1..N) = IF 1 > N THEN 0 ELSE N - 1 + 1
    BY ONLY <1>1, FS_Interval
  <2>2. QED BY <1>1, <2>1
<1>3. pos \in Injection(S, 1..N) BY DEF Injection, IsInjective
<1>4. pos \in Surjection(S, 1..N) BY ONLY <1>2, <1>3, FS_Injection
<1>5. pos[i] \in 1..N OBVIOUS
<1> HIDE DEF N
<1>6. f \in [A -> 1..(pos[i] - 1)] BY <1>1, <1>5 DEF N
<1>7. \A k \in 1..(pos[i] - 1) : \E j \in A : f[j] = k
  <2>1. TAKE k \in 1..(pos[i] - 1)
  <2>2. k \in 1..N BY <1>1, <1>5
  <2>3. PICK j \in S : pos[j] = k BY <1>4, <2>2 DEF Surjection
  <2>4. QED BY <2>3, <1>5, <1>1
<1>8. f \in Bijection(A, 1..(pos[i] - 1))
  BY <1>6, <1>7 DEF Bijection, Injection, Surjection, IsInjective
<1>9. IsFiniteSet(A) BY ONLY FS_Subset, IsFiniteSet(S), A \in SUBSET S
<1>10. Cardinality(1..(pos[i] - 1)) = Cardinality(A)
  BY ONLY <1>8, <1>9, FS_Bijection DEF ExistsBijection
<1>11. Cardinality(1..(pos[i] - 1)) = pos[i] - 1
  <2>1. pos[i] - 1 \in Int /\ 1 \in Int /\ pos[i] >= 1 BY <1>1, <1>5
  <2>2. Cardinality(1..(pos[i] - 1)) = IF 1 > pos[i] - 1 THEN 0 ELSE pos[i] - 1 - 1 + 1
    BY ONLY <2>1, FS_Interval
  <2>3. QED BY <2>1, <2>2
<1>12. QED BY <1>10, <1>11

-----------------------------------------------------------------------------
(* Ranks                                                                   *)

\* The rows before i, and how many they are.
Ahead(tb, q, i) == {j \in Listed(tb, q) : Before(tb, q, j, i)}
Rank(tb, q, i) == Cardinality(Ahead(tb, q, i))

LEMMA ListedIds ==
  ASSUME NEW tb, NEW q
  PROVE  Listed(tb, q) \subseteq Rows(tb) /\ Rows(tb) \subseteq Id
BY DEF Listed, Matches, Rows

LEMMA RankType ==
  ASSUME NEW tb, NEW q, NEW i
  PROVE  /\ Ahead(tb, q, i) \subseteq Listed(tb, q) /\ Ahead(tb, q, i) \subseteq Id
         /\ Rank(tb, q, i) \in Nat
<1>1. Ahead(tb, q, i) \subseteq Listed(tb, q) /\ Ahead(tb, q, i) \subseteq Id
  BY ListedIds DEF Ahead
<1>2. QED BY <1>1, SubsetFinite DEF Rank

LEMMA RankKept ==
  ASSUME NEW tb, NEW new, NEW q, NEW i, NEW k, Ahead(tb, q, i) \subseteq Ahead(new, q, k)
  PROVE  Rank(tb, q, i) <= Rank(new, q, k)
<1>1. IsFiniteSet(Ahead(new, q, k)) BY RankType, SubsetFinite
<1>2. Cardinality(Ahead(tb, q, i)) <= Cardinality(Ahead(new, q, k))
  BY ONLY <1>1, FS_Subset, Ahead(tb, q, i) \subseteq Ahead(new, q, k)
<1>3. QED BY <1>2 DEF Rank

LEMMA RankDrops ==
  ASSUME NEW tb, NEW new, NEW q, NEW i, NEW k, NEW x,
         Ahead(tb, q, i) \ {x} \subseteq Ahead(new, q, k)
  PROVE  Rank(tb, q, i) <= Rank(new, q, k) + 1
<1>1. Ahead(new, q, k) \in SUBSET Id /\ Ahead(tb, q, i) \in SUBSET Id BY RankType
<1>2. \A y, z \in Ahead(tb, q, i) \ Ahead(new, q, k) : y = z OBVIOUS
<1>3. Cardinality(Ahead(tb, q, i)) <= Cardinality(Ahead(new, q, k)) + 1
  BY ONLY <1>1, <1>2, OneMore
<1>4. QED BY <1>3 DEF Rank

LEMMA Ordering ==
  ASSUME NEW tb, NEW q, Ordered(tb, q)
  PROVE  /\ \A i, j \in Listed(tb, q) : i # j => Before(tb, q, i, j) \/ Before(tb, q, j, i)
         /\ \A i \in Listed(tb, q) : ~ Before(tb, q, i, i)
         /\ \A i, j, k \in Listed(tb, q) :
              Before(tb, q, i, j) /\ Before(tb, q, j, k) => Before(tb, q, i, k)
BY DEF Ordered

LEMMA RankGrows ==
  ASSUME NEW tb, NEW q, Ordered(tb, q), NEW i \in Listed(tb, q), NEW j \in Listed(tb, q),
         Before(tb, q, i, j)
  PROVE  Rank(tb, q, i) < Rank(tb, q, j)
<1>1. Ahead(tb, q, i) \subseteq Ahead(tb, q, j) BY Ordering DEF Ahead
<1>2. i \in Ahead(tb, q, j) /\ i \notin Ahead(tb, q, i) BY Ordering DEF Ahead
<1>3. IsFiniteSet(Ahead(tb, q, j)) BY RankType, SubsetFinite
<1>4. /\ Cardinality(Ahead(tb, q, i)) <= Cardinality(Ahead(tb, q, j))
      /\ Cardinality(Ahead(tb, q, j)) # Cardinality(Ahead(tb, q, i))
  BY ONLY <1>1, <1>2, <1>3, FS_Subset
<1>5. QED BY <1>4, RankType DEF Rank

LEMMA RanksDiffer ==
  ASSUME NEW tb, NEW q, Ordered(tb, q), NEW i \in Listed(tb, q), NEW j \in Listed(tb, q),
         Rank(tb, q, i) = Rank(tb, q, j)
  PROVE  i = j
<1>1. Rank(tb, q, i) \in Nat /\ Rank(tb, q, j) \in Nat BY RankType
<1>2. CASE Before(tb, q, i, j)
  <2>1. Rank(tb, q, i) < Rank(tb, q, j) BY <1>2, RankGrows
  <2>2. QED BY <1>1, <2>1
<1>3. CASE Before(tb, q, j, i)
  <2>1. Rank(tb, q, j) < Rank(tb, q, i) BY <1>3, RankGrows
  <2>2. QED BY <1>1, <2>1
<1>4. QED BY <1>2, <1>3, Ordering

LEMMA RankBelow ==
  ASSUME NEW tb, NEW q, Ordered(tb, q), NEW i \in Listed(tb, q)
  PROVE  Rank(tb, q, i) < Cardinality(Listed(tb, q))
<1>1. Ahead(tb, q, i) \subseteq Listed(tb, q) /\ i \notin Ahead(tb, q, i)
  BY Ordering DEF Ahead
<1>2. IsFiniteSet(Listed(tb, q)) /\ Cardinality(Listed(tb, q)) \in Nat
  BY ListedIds, SubsetFinite
<1>3. /\ Cardinality(Ahead(tb, q, i)) <= Cardinality(Listed(tb, q))
      /\ Cardinality(Listed(tb, q)) # Cardinality(Ahead(tb, q, i))
  BY ONLY <1>1, <1>2, i \in Listed(tb, q), FS_Subset
<1>4. QED BY <1>2, <1>3, RankType DEF Rank

\* A statement puts a row where its rank says.
LEMMA PlacedByRank ==
  ASSUME NEW tb, NEW q, Ordered(tb, q), NEW pos \in Positions(tb, q),
         NEW i \in Listed(tb, q)
  PROVE  pos[i] \in Nat /\ pos[i] = Rank(tb, q, i) + 1
<1>1. PICK S : S = Listed(tb, q) OBVIOUS
<1>2. IsFiniteSet(S) /\ Cardinality(S) \in Nat BY <1>1, ListedIds, SubsetFinite
<1>3. /\ pos \in [S -> 1..Cardinality(S)]
      /\ \A j, k \in S : j # k => pos[j] # pos[k]
      /\ \A j, k \in S : Before(tb, q, j, k) => pos[j] < pos[k]
  BY <1>1 DEF Positions
<1>4. i \in S BY <1>1
<1>5. Cardinality({j \in S : pos[j] < pos[i]}) = pos[i] - 1
  BY ONLY <1>2, <1>3, <1>4, Placed
<1>6. \A j \in S : pos[j] \in Nat BY <1>2, <1>3
<1>7. ASSUME NEW j \in S, pos[j] < pos[i] PROVE Before(tb, q, j, i)
  <2>1. j # i BY <1>4, <1>6, <1>7
  <2>2. ~ Before(tb, q, i, j) BY <1>3, <1>4, <1>6, <1>7
  <2>3. QED BY <1>1, <2>1, <2>2, Ordering
<1>8. {j \in S : pos[j] < pos[i]} = Ahead(tb, q, i) BY <1>1, <1>3, <1>4, <1>7 DEF Ahead
<1>9. QED BY <1>4, <1>5, <1>6, <1>8 DEF Rank

-----------------------------------------------------------------------------
(* One row changes                                                         *)

OthersStay(old, new, i) == \A j \in Id \ {i} : new[j] = old[j]

LEMMA SymmetricStay ==
  ASSUME NEW old, NEW new, NEW i, OthersStay(old, new, i)
  PROVE  OthersStay(new, old, i)
BY DEF OthersStay

\* Whether a row is listed, and before which, is up to the two rows.
LEMMA OthersListed ==
  ASSUME NEW old, NEW new, NEW q, NEW i, OthersStay(old, new, i), NEW j \in Id \ {i}
  PROVE  j \in Listed(old, q) => j \in Listed(new, q)
<1>1. PICK row : row = old[j] /\ row = new[j] BY DEF OthersStay
<1>2. j \in Rows(old) => j \in Rows(new) BY <1>1 DEF Rows
<1>3. j \in Matches(old, q) => j \in Matches(new, q) BY <1>1, <1>2 DEF Matches
<1>4. QED BY <1>2, <1>3 DEF Listed

LEMMA OthersBefore ==
  ASSUME NEW old, NEW new, NEW q, NEW i, OthersStay(old, new, i),
         NEW j \in Id \ {i}, NEW k \in Id \ {i}, Before(old, q, j, k)
  PROVE  Before(new, q, j, k)
<1>1. PICK row, other : row = old[j] /\ row = new[j] /\ other = old[k] /\ other = new[k]
  BY DEF OthersStay
<1>2. QED BY <1>1 DEF Before, PhotoOrder, CommentOrder

\* If i does not go, the others that are listed still come before k.
LEMMA AheadKept ==
  ASSUME NEW old, NEW new, NEW q, NEW i, OthersStay(old, new, i),
         NEW k \in Listed(old, q) \cap Listed(new, q),
         Ordered(old, q), ~ Goes(old, new, q, i)
  PROVE  Ahead(old, q, k) \subseteq Ahead(new, q, k)
<1> SUFFICES ASSUME NEW j \in Ahead(old, q, k) PROVE j \in Ahead(new, q, k)
  OBVIOUS
<1>1. j \in Id /\ k \in Id /\ j \in Listed(old, q) /\ Before(old, q, j, k) /\ j # k
  BY ListedIds, Ordering DEF Ahead
<1>2. j \in Listed(new, q) BY <1>1, OthersListed DEF Goes
<1>3. CASE j = i \/ k = i
  <2>1. i \in Listed(old, q) /\ ~ Moves(old, new, q, i) BY <1>1, <1>3 DEF Goes
  <2>2. Before(new, q, j, k) BY <1>1, <1>2, <1>3, <2>1 DEF Moves
  <2>3. QED BY <1>2, <2>2 DEF Ahead
<1>4. CASE j # i /\ k # i
  <2>1. Before(new, q, j, k) BY <1>1, <1>4, OthersBefore
  <2>2. QED BY <1>2, <2>1 DEF Ahead
<1>5. QED BY <1>3, <1>4

\* Whatever i does, but for i they do.
LEMMA AheadBut ==
  ASSUME NEW old, NEW new, NEW q, NEW i, OthersStay(old, new, i), NEW k \in Id \ {i}
  PROVE  Ahead(old, q, k) \ {i} \subseteq Ahead(new, q, k)
<1> SUFFICES ASSUME NEW j \in Ahead(old, q, k) \ {i} PROVE j \in Ahead(new, q, k)
  OBVIOUS
<1>1. j \in Id /\ j \in Listed(old, q) /\ Before(old, q, j, k) BY ListedIds DEF Ahead
<1>2. j \in Listed(new, q) BY <1>1, OthersListed
<1>3. Before(new, q, j, k) BY <1>1, OthersBefore
<1>4. QED BY <1>2, <1>3 DEF Ahead

\* Steady rows that were not shown although their place was fetched, and rows
\* that were shown although their place is still to be fetched.
Owed(tb, q, steady, shown, n) == {k \in steady \ shown : Rank(tb, q, k) < n}
Again(tb, q, shown, n) == {k \in shown \cap Listed(tb, q) : ~ (Rank(tb, q, k) < n)}

LEMMA OwedType ==
  ASSUME NEW tb, NEW q, NEW steady \in SUBSET Id, NEW shown \in SUBSET Id, NEW n
  PROVE  /\ Owed(tb, q, steady, shown, n) \in SUBSET Id
         /\ IsFiniteSet(Owed(tb, q, steady, shown, n))
         /\ Cardinality(Owed(tb, q, steady, shown, n)) \in Nat
         /\ Again(tb, q, shown, n) \in SUBSET Id
         /\ IsFiniteSet(Again(tb, q, shown, n))
         /\ Cardinality(Again(tb, q, shown, n)) \in Nat
<1>1. Owed(tb, q, steady, shown, n) \in SUBSET Id BY DEF Owed
<1>2. Again(tb, q, shown, n) \in SUBSET Id BY DEF Again
<1>3. QED BY <1>1, <1>2, SubsetFinite

\* A row that goes owes one row more, at the page's border.
LEMMA OwedAfter ==
  ASSUME NEW old, NEW new, NEW q, NEW i \in Id, OthersStay(old, new, i),
         Ordered(old, q), NEW n \in Nat,
         NEW steady \in SUBSET Listed(old, q), NEW left \in SUBSET Listed(new, q),
         left = (IF Goes(old, new, q, i) THEN steady \ {i} ELSE steady),
         NEW shown \in SUBSET Id
  PROVE  Cardinality(Owed(new, q, left, shown, n)) <=
           Cardinality(Owed(old, q, steady, shown, n))
             + (IF Goes(old, new, q, i) THEN 1 ELSE 0)
<1>1. steady \in SUBSET Id /\ left \in SUBSET Id /\ left \subseteq steady
  BY ListedIds
<1>2. PICK A : A = Owed(old, q, steady, shown, n) OBVIOUS
<1>3. PICK B : B = Owed(new, q, left, shown, n) OBVIOUS
<1>4. /\ A \in SUBSET Id /\ IsFiniteSet(A) /\ Cardinality(A) \in Nat
      /\ B \in SUBSET Id /\ IsFiniteSet(B) /\ Cardinality(B) \in Nat
  BY <1>1, <1>2, <1>3, OwedType
<1>5. CASE ~ Goes(old, new, q, i)
  <2>1. ASSUME NEW k \in B PROVE k \in A
    <3>1. k \in steady \ shown /\ k \in Listed(old, q) \cap Listed(new, q)
          /\ Rank(new, q, k) < n
      BY <1>1, <1>3 DEF Owed
    <3>2. Rank(old, q, k) <= Rank(new, q, k) BY <1>5, <3>1, AheadKept, RankKept
    <3>3. Rank(old, q, k) < n BY <3>1, <3>2, RankType
    <3>4. QED BY <1>2, <3>1, <3>3 DEF Owed
  <2>2. B \subseteq A BY <2>1
  <2>3. Cardinality(B) <= Cardinality(A) BY ONLY <1>4, <2>2, FS_Subset
  <2>4. QED BY <1>2, <1>3, <1>4, <1>5, <2>3
<1>6. CASE Goes(old, new, q, i)
  <2>1. ASSUME NEW k \in B \ A PROVE k \in Listed(old, q) /\ Rank(old, q, k) = n
    <3>1. k \in steady \ shown /\ k \in Listed(old, q) /\ k \in Id \ {i}
          /\ Rank(new, q, k) < n
      BY <1>1, <1>3, <1>6 DEF Owed
    <3>2. ~ (Rank(old, q, k) < n) BY <1>2, <2>1, <3>1 DEF Owed
    <3>3. Ahead(old, q, k) \ {i} \subseteq Ahead(new, q, k) BY <3>1, AheadBut
    <3>4. Rank(old, q, k) <= Rank(new, q, k) + 1 BY <3>3, RankDrops
    <3>5. QED BY <3>1, <3>2, <3>4, RankType
  <2>2. \A x, y \in B \ A : x = y BY <2>1, RanksDiffer
  <2>3. Cardinality(B) <= Cardinality(A) + 1 BY ONLY <1>4, <2>2, OneMore
  <2>4. QED BY <1>2, <1>3, <1>6, <2>3
<1>7. QED BY <1>5, <1>6

\* A row that comes shows one row again, itself or one at the page's border.
LEMMA AgainAfter ==
  ASSUME NEW old, NEW new, NEW q, NEW i \in Id, OthersStay(old, new, i),
         Ordered(old, q), Ordered(new, q), NEW n \in Nat, NEW shown \in SUBSET Id
  PROVE  Cardinality(Again(new, q, shown, n)) <=
           Cardinality(Again(old, q, shown, n))
             + (IF Comes(old, new, q, i) THEN 1 ELSE 0)
<1>1. OthersStay(new, old, i) BY SymmetricStay
<1>2. PICK A : A = Again(old, q, shown, n) OBVIOUS
<1>3. PICK B : B = Again(new, q, shown, n) OBVIOUS
<1>4. /\ A \in SUBSET Id /\ IsFiniteSet(A) /\ Cardinality(A) \in Nat
      /\ B \in SUBSET Id /\ IsFiniteSet(B) /\ Cardinality(B) \in Nat
  BY <1>2, <1>3, OwedType
<1>5. ASSUME NEW k \in B
      PROVE  k \in shown /\ k \in Id /\ k \in Listed(new, q) /\ ~ (Rank(new, q, k) < n)
  BY <1>3 DEF Again
<1>6. CASE ~ Comes(old, new, q, i)
  <2>1. ~ Goes(new, old, q, i) BY <1>6 DEF Comes
  <2>2. ASSUME NEW k \in B PROVE k \in A
    <3>1. k \in Listed(old, q) BY <1>1, <1>5, <2>1, OthersListed DEF Goes
    <3>2. Rank(new, q, k) <= Rank(old, q, k)
      BY <1>1, <1>5, <2>1, <3>1, AheadKept, RankKept
    <3>3. ~ (Rank(old, q, k) < n) BY <1>5, <3>2, RankType
    <3>4. QED BY <1>2, <1>5, <3>1, <3>3 DEF Again
  <2>3. B \subseteq A BY <2>2
  <2>4. Cardinality(B) <= Cardinality(A) BY ONLY <1>4, <2>3, FS_Subset
  <2>5. QED BY <1>2, <1>3, <1>4, <1>6, <2>4
<1>7. CASE Comes(old, new, q, i)
  <2>1. ASSUME NEW k \in B \ A, k # i
        PROVE  Rank(new, q, k) = n /\ i \in Ahead(new, q, k)
    <3>1. k \in Id \ {i} /\ k \in Listed(old, q) BY <1>1, <1>5, <2>1, OthersListed
    <3>2. Rank(old, q, k) < n BY <1>2, <1>5, <2>1, <3>1 DEF Again
    <3>3. Ahead(new, q, k) \ {i} \subseteq Ahead(old, q, k) BY <1>1, <3>1, AheadBut
    <3>4. Rank(new, q, k) <= Rank(old, q, k) + 1 BY <3>3, RankDrops
    <3>5. ~ (Ahead(new, q, k) \subseteq Ahead(old, q, k))
      <4>1. SUFFICES ASSUME Ahead(new, q, k) \subseteq Ahead(old, q, k) PROVE FALSE
        OBVIOUS
      <4>2. Rank(new, q, k) <= Rank(old, q, k) BY <4>1, RankKept
      <4>3. QED BY <1>5, <3>2, <4>2, RankType
    <3>6. i \in Ahead(new, q, k) BY <3>3, <3>5
    <3>7. QED BY <1>5, <3>2, <3>4, <3>6, RankType
  <2>2. i \in B => ~ \E k \in B \ A : k # i
    <3>1. SUFFICES ASSUME i \in B, NEW k \in B \ A, k # i PROVE FALSE
      OBVIOUS
    <3>2. Rank(new, q, k) = n /\ i \in Ahead(new, q, k) BY <2>1, <3>1
    <3>3. Rank(new, q, i) < Rank(new, q, k) BY <1>5, <3>1, <3>2, RankGrows DEF Ahead
    <3>4. ~ (Rank(new, q, i) < n) BY <1>5, <3>1
    <3>5. QED BY <3>2, <3>3, <3>4
  <2>3. ASSUME NEW x \in B \ A, NEW y \in B \ A PROVE x = y
    <3>1. CASE x = i \/ y = i BY <2>2, <3>1
    <3>2. CASE x # i /\ y # i
      <4>1. Rank(new, q, x) = n /\ Rank(new, q, y) = n BY <2>1, <3>2
      <4>2. x \in Listed(new, q) /\ y \in Listed(new, q) BY <1>5
      <4>3. QED BY <4>1, <4>2, RanksDiffer
    <3>3. QED BY <3>1, <3>2
  <2>4. Cardinality(B) <= Cardinality(A) + 1 BY ONLY <1>4, <2>3, OneMore
  <2>5. QED BY <1>2, <1>3, <1>7, <2>4
<1>8. QED BY <1>6, <1>7

-----------------------------------------------------------------------------
(* Pages                                                                   *)

Between(pos, n, m) == {i \in DOMAIN pos : n < pos[i] /\ pos[i] <= m}

\* A page holds the rows of its ranks.
LEMMA PageByRank ==
  ASSUME NEW tb, NEW q, Ordered(tb, q), NEW pos \in Positions(tb, q),
         NEW n \in Nat, NEW m \in Nat, NEW items, items = Between(pos, n, m)
  PROVE  /\ items \in SUBSET Listed(tb, q) /\ items \in SUBSET Id
         /\ \A i \in Listed(tb, q) :
              i \in items <=> ~ (Rank(tb, q, i) < n) /\ Rank(tb, q, i) < m
<1>1. \A i \in Listed(tb, q) :
        i \in items <=> ~ (Rank(tb, q, i) < n) /\ Rank(tb, q, i) < m
  BY PlacedByRank, RankType DEF Between, Positions
<1>2. items \in SUBSET Listed(tb, q) /\ items \in SUBSET Id
  BY ListedIds DEF Between, Positions
<1>3. QED BY <1>1, <1>2

\* The next page owes nothing more.
LEMMA OwedByPage ==
  ASSUME NEW tb, NEW q, NEW n \in Nat, NEW m \in Nat,
         NEW steady \in SUBSET Listed(tb, q), NEW shown \in SUBSET Id, NEW items,
         \A i \in Listed(tb, q) :
           i \in items <=> ~ (Rank(tb, q, i) < n) /\ Rank(tb, q, i) < m
  PROVE  Cardinality(Owed(tb, q, steady, shown \cup items, m))
           <= Cardinality(Owed(tb, q, steady, shown, n))
<1>1. steady \in SUBSET Id BY ListedIds
<1>2. Owed(tb, q, steady, shown \cup items, m) \subseteq Owed(tb, q, steady, shown, n)
  BY DEF Owed
<1>3. IsFiniteSet(Owed(tb, q, steady, shown, n)) BY <1>1, OwedType
<1>4. QED BY ONLY <1>2, <1>3, FS_Subset

\* What it shows again was shown already, of the rows from its place on.
LEMMA AgainByPage ==
  ASSUME NEW tb, NEW q, NEW n \in Nat, NEW m \in Nat, n <= m,
         NEW shown \in SUBSET Id, NEW items \in SUBSET Listed(tb, q),
         \A i \in Listed(tb, q) :
           i \in items <=> ~ (Rank(tb, q, i) < n) /\ Rank(tb, q, i) < m
  PROVE  Cardinality(items \cap shown) + Cardinality(Again(tb, q, shown \cup items, m))
           = Cardinality(Again(tb, q, shown, n))
<1>1. items \in SUBSET Id BY ListedIds
<1>2. PICK A, B : A = items \cap shown /\ B = Again(tb, q, shown \cup items, m) OBVIOUS
<1>3. A \cup B = Again(tb, q, shown, n) BY <1>2, RankType DEF Again
<1>4. A \cap B = {} BY <1>2 DEF Again
<1>5. /\ IsFiniteSet(A) /\ Cardinality(A) \in Nat
      /\ IsFiniteSet(B) /\ Cardinality(B) \in Nat
  <2>1. A \in SUBSET Id BY <1>1, <1>2
  <2>2. B \in SUBSET Id BY <1>1, <1>2 DEF Again
  <2>3. QED BY <2>1, <2>2, SubsetFinite
<1>6. Cardinality(A \cup B) = Cardinality(A) + Cardinality(B) - Cardinality(A \cap B)
  BY ONLY <1>5, FS_Union
<1>7. Cardinality(A \cap B) = 0 BY <1>4, FS_EmptySet
<1>8. Cardinality(A) + Cardinality(B) = Cardinality(A \cup B) BY ONLY <1>5, <1>6, <1>7
<1>9. QED BY ONLY <1>2, <1>3, <1>8

LEMMA LastPage ==
  ASSUME NEW total \in Nat, NEW page \in Nat \ {0}, NEW per \in Nat \ {0},
         ~ (page < TotalPages(total, per))
  PROVE  total <= page * per
<1>1. CASE total = 0 BY <1>1
<1>2. CASE total # 0
  <2>1. (total + per - 1) \div per <= page BY <1>2 DEF TotalPages
  <2>2. PICK d \in Nat : d = (total + per - 1) \div per BY <1>2
  <2>3. total + per - 1 < (d + 1) * per BY <2>2
  <2>4. (d + 1) * per = d * per + per BY <2>2
  <2>5. d * per <= page * per BY <2>1, <2>2
  <2>6. total + per - 1 < d * per + per BY <2>3, <2>4
  <2>7. d * per \in Nat /\ page * per \in Nat BY <2>2
  <2>8. QED BY <2>5, <2>6, <2>7
<1>3. QED BY <1>1, <1>2

\* The two keys of the photos of a user leave nothing open.
LEMMA PhotosOrdered ==
  ASSUME NEW tb \in Tables, NEW q, q.of = "photos"
  PROVE  Ordered(tb, q)
<1>1. \A i \in Listed(tb, q) : i \in Nat /\ tb[i].created \in Nat
  BY SearchAssumption, ListedIds DEF Tables, Rows, Row
<1>2. \A i, j : Before(tb, q, i, j) <=> PhotoOrder(tb, i, j) BY DEF Before
<1>3. QED BY <1>1, <1>2 DEF Ordered, PhotoOrder, Newer

-----------------------------------------------------------------------------
(* The inductive invariant                                                 *)

\* Places of rows that were fetched so far.
Fetched(w) == IF w.pc \in {"count", "done"} THEN w.page * w.per ELSE (w.page - 1) * w.per

Sure(w) == w.query.of = "photos" \/ w.sure

WalkOK(tb, w) ==
  /\ w.steady \subseteq Listed(tb, w.query)
  /\ w.sure => Ordered(tb, w.query)
  /\ Sure(w) => /\ Cardinality(Owed(tb, w.query, w.steady, w.shown, Fetched(w))) <= w.gone
                /\ w.repeats + Cardinality(Again(tb, w.query, w.shown, Fetched(w))) <= w.come
  /\ w.pc = "done" => Cardinality(Listed(tb, w.query)) <= w.page * w.per

IInv == /\ TypeOK
        /\ IF walk.pc = "idle" THEN walk = NoWalk ELSE WalkOK(table, walk)

LEMMA NoWalkType == NoWalk \in Walk /\ NoWalk.pc = "idle" /\ NoWalk.repeats = 0
<1>1. /\ (CHOOSE q \in Queries : TRUE) \in Queries
      /\ (CHOOSE n \in PerPage : TRUE) \in PerPage
  BY ListingsAssumption
<1>2. QED BY <1>1 DEF NoWalk, Walk

LEMMA WalkType ==
  ASSUME NEW w \in Walk
  PROVE  /\ w.page \in Nat \ {0} /\ w.per \in Nat \ {0} /\ w.query \in Queries
         /\ w.shown \subseteq Id /\ w.steady \subseteq Id
         /\ w.gone \in Nat /\ w.come \in Nat /\ w.repeats \in Nat
         /\ Fetched(w) \in Nat
<1>1. /\ w.page \in Nat \ {0} /\ w.per \in PerPage /\ w.query \in Queries
      /\ w.shown \subseteq Id /\ w.steady \subseteq Id
      /\ w.gone \in Nat /\ w.come \in Nat /\ w.repeats \in Nat
  BY DEF Walk
<1>2. w.per \in Nat \ {0} BY <1>1, ListingsAssumption
<1>3. PICK page, per : page = w.page /\ per = w.per OBVIOUS
<1>4. page * per \in Nat /\ (page - 1) * per \in Nat BY <1>1, <1>2, <1>3
<1>5. QED BY <1>1, <1>2, <1>3, <1>4 DEF Fetched

-----------------------------------------------------------------------------
(* The steps of a request                                                  *)

LEMMA BeginStep ==
  ASSUME IInv, NEW q \in Queries, NEW per \in PerPage, Begin(q, per)
  PROVE  IInv'
<1>1. table' = table /\ parent' = parent BY DEF Begin
<1>2. PICK tb : tb = table OBVIOUS
<1>3. PICK v : v = walk' OBVIOUS
<1>4. v = [NoWalk EXCEPT !.pc = First(q), !.query = q, !.per = per,
                         !.steady = Listed(tb, q), !.sure = Ordered(tb, q)]
  BY <1>2, <1>3 DEF Begin
<1>5. Listed(tb, q) \subseteq Id BY ListedIds
<1>6. First(q) \in {"check", "select"} BY DEF First
<1>7. Ordered(tb, q) \in BOOLEAN BY DEF Ordered
<1>8. v \in Walk BY <1>4, <1>5, <1>6, <1>7, NoWalkType DEF Walk
<1>9. /\ v.pc \in {"check", "select"} /\ v.query = q /\ v.steady = Listed(tb, q)
      /\ v.sure = Ordered(tb, q) /\ v.shown = {} /\ v.page = 1
      /\ v.gone = 0 /\ v.come = 0 /\ v.repeats = 0
  BY <1>4, <1>6 DEF NoWalk, Walk
<1>10. Fetched(v) = 0
  <2>1. v.per \in Nat BY <1>8, WalkType
  <2>2. QED BY <1>9, <2>1 DEF Fetched
<1>11. Cardinality(Owed(tb, q, v.steady, v.shown, 0)) = 0
  <2>1. Owed(tb, q, v.steady, v.shown, 0) = {} BY RankType DEF Owed
  <2>2. QED BY <2>1, FS_EmptySet
<1>12. Cardinality(Again(tb, q, v.shown, 0)) = 0
  <2>1. Again(tb, q, v.shown, 0) = {} BY <1>9 DEF Again
  <2>2. QED BY <2>1, FS_EmptySet
<1>13. WalkOK(tb, v) BY <1>9, <1>10, <1>11, <1>12 DEF WalkOK
<1>14. QED BY <1>1, <1>2, <1>3, <1>8, <1>9, <1>13 DEF IInv, TypeOK

LEMMA StopStep ==
  ASSUME IInv, Stop, UNCHANGED <<table, parent>>
  PROVE  IInv'
BY NoWalkType DEF IInv, TypeOK, Stop

LEMMA CheckStep ==
  ASSUME IInv, Check
  PROVE  IInv'
<1>1. CASE Stop BY <1>1, StopStep DEF Check
<1>2. CASE Goto("select")
  <2>1. PICK tb, w : tb = table /\ w = walk OBVIOUS
  <2>2. PICK v : v = walk' OBVIOUS
  <2>3. w.pc = "check" /\ w \in Walk /\ WalkOK(tb, w)
    BY <2>1 DEF Check, At, IInv, TypeOK
  <2>4. v = [w EXCEPT !.pc = "select"] BY <1>2, <2>1, <2>2 DEF Goto
  <2>5. /\ v \in Walk /\ v.pc = "select" /\ v.query = w.query /\ v.per = w.per
        /\ v.page = w.page /\ v.shown = w.shown /\ v.steady = w.steady
        /\ v.gone = w.gone /\ v.come = w.come /\ v.repeats = w.repeats /\ v.sure = w.sure
    BY <2>3, <2>4 DEF Walk
  <2>6. Fetched(v) = Fetched(w) BY <2>3, <2>5 DEF Fetched
  <2>7. WalkOK(tb, v) BY <2>3, <2>5, <2>6 DEF WalkOK, Sure
  <2>8. QED BY <2>1, <2>2, <2>5, <2>7 DEF Check, IInv, TypeOK
<1>3. QED BY <1>1, <1>2 DEF Check

LEMMA SelectStep ==
  ASSUME IInv, Select
  PROVE  IInv'
<1>1. PICK tb, w : tb = table /\ w = walk OBVIOUS
<1>2. PICK v : v = walk' OBVIOUS
<1>3. w.pc = "select" /\ w \in Walk /\ WalkOK(tb, w) /\ tb \in Tables
  BY <1>1 DEF Select, At, IInv, TypeOK
<1>4. PICK q : q = w.query OBVIOUS
<1>5. PICK pos \in Positions(tb, q) :
        walk' = [w EXCEPT !.pc = "count", !.shown = @ \cup Page(pos, w.page, w.per),
                          !.repeats = @ + Cardinality(Page(pos, w.page, w.per) \cap w.shown)]
  BY <1>1, <1>4 DEF Select
<1>6. PICK items : items = Page(pos, w.page, w.per) OBVIOUS
<1>7. v = [w EXCEPT !.pc = "count", !.shown = @ \cup items,
                    !.repeats = @ + Cardinality(items \cap w.shown)]
  BY <1>2, <1>5, <1>6
<1>8. items \subseteq Id
  <2>1. DOMAIN pos = Listed(tb, q) BY DEF Positions
  <2>2. QED BY <1>6, <2>1, ListedIds DEF Page
<1>9. Cardinality(items \cap w.shown) \in Nat
  <2>1. items \cap w.shown \in SUBSET Id BY <1>8
  <2>2. QED BY <2>1, SubsetFinite
<1>10. /\ v \in Walk /\ v.pc = "count" /\ v.query = q /\ v.per = w.per /\ v.page = w.page
       /\ v.shown = w.shown \cup items /\ v.steady = w.steady
       /\ v.gone = w.gone /\ v.come = w.come /\ v.sure = w.sure
       /\ v.repeats = w.repeats + Cardinality(items \cap w.shown)
  <2>1. PICK all, n : all = w.shown \cup items
                      /\ n = w.repeats + Cardinality(items \cap w.shown)
    OBVIOUS
  <2>2. v = [w EXCEPT !.pc = "count", !.shown = all, !.repeats = n] BY <1>7, <2>1
  <2>3. all \subseteq Id /\ n \in Nat
    <3>1. w.shown \subseteq Id /\ w.repeats \in Nat BY <1>3, WalkType
    <3>2. QED BY <1>8, <1>9, <2>1, <3>1
  <2>4. /\ v \in Walk /\ v.pc = "count" /\ v.query = q /\ v.per = w.per /\ v.page = w.page
        /\ v.shown = all /\ v.steady = w.steady
        /\ v.gone = w.gone /\ v.come = w.come /\ v.sure = w.sure
        /\ v.repeats = n
    BY <1>3, <1>4, <2>2, <2>3 DEF Walk
  <2>5. QED BY <2>1, <2>4
<1>11. /\ w.page \in Nat \ {0} /\ w.per \in Nat \ {0} /\ w.query \in Queries
       /\ w.shown \subseteq Id /\ w.steady \subseteq Id
       /\ w.gone \in Nat /\ w.come \in Nat /\ w.repeats \in Nat
  BY <1>3, WalkType
<1>12. Fetched(v) = w.page * w.per /\ Fetched(w) = (w.page - 1) * w.per
  BY <1>3, <1>10 DEF Fetched
<1>13. ASSUME Sure(v)
       PROVE  /\ Cardinality(Owed(tb, q, v.steady, v.shown, Fetched(v))) <= v.gone
              /\ v.repeats + Cardinality(Again(tb, q, v.shown, Fetched(v))) <= v.come
  <2>1. Sure(w) BY <1>4, <1>10, <1>13 DEF Sure
  <2>2. Ordered(tb, q) BY <1>3, <1>4, <2>1, PhotosOrdered DEF Sure, WalkOK
  <2>3. w.steady \in SUBSET Listed(tb, q) BY <1>3, <1>4 DEF WalkOK
  <2>4. PICK n \in Nat, m \in Nat : n = Fetched(w) /\ m = Fetched(v) BY <1>3, <1>10, WalkType
  <2>5. m = n + w.per BY <1>11, <1>12, <2>4
  <2>6. items = Between(pos, n, m)
    BY <1>6, <1>11, <1>12, <2>4, <2>5 DEF Page, Offset, Between
  <2>7. /\ w.shown \in SUBSET Id /\ n <= m /\ n \in Nat /\ m \in Nat
        /\ pos \in Positions(tb, q)
    BY <1>11, <2>5
  <2>8. PICK steady, shown, all : steady = w.steady /\ shown = w.shown /\ all = shown \cup items
    OBVIOUS
  <2>9. steady \in SUBSET Listed(tb, q) /\ shown \in SUBSET Id BY <2>3, <2>7, <2>8
  <2>10. /\ items \in SUBSET Listed(tb, q) /\ items \in SUBSET Id
         /\ \A i \in Listed(tb, q) :
              i \in items <=> ~ (Rank(tb, q, i) < n) /\ Rank(tb, q, i) < m
    BY ONLY <2>2, <2>6, <2>7, PageByRank
  <2>11. Cardinality(Owed(tb, q, steady, all, m)) <= Cardinality(Owed(tb, q, steady, shown, n))
    BY ONLY <2>7, <2>8, <2>9, <2>10, OwedByPage
  <2>12. Cardinality(items \cap shown) + Cardinality(Again(tb, q, all, m))
           = Cardinality(Again(tb, q, shown, n))
    BY ONLY <2>7, <2>8, <2>9, <2>10, AgainByPage
  <2>13. /\ Cardinality(Owed(tb, q, steady, shown, n)) <= w.gone
         /\ w.repeats + Cardinality(Again(tb, q, shown, n)) <= w.come
    BY <1>3, <1>4, <2>1, <2>4, <2>8 DEF WalkOK
  <2>14. /\ Cardinality(Owed(tb, q, steady, all, m)) \in Nat
         /\ Cardinality(Owed(tb, q, steady, shown, n)) \in Nat
         /\ Cardinality(Again(tb, q, all, m)) \in Nat
    <3>1. steady \in SUBSET Id /\ all \in SUBSET Id BY <1>8, <1>11, <2>8
    <3>2. QED BY <2>9, <3>1, OwedType
  <2>15. Cardinality(Owed(tb, q, v.steady, v.shown, m)) <= v.gone
    BY <1>10, <1>11, <2>8, <2>11, <2>13, <2>14
  <2>16. v.repeats + Cardinality(Again(tb, q, v.shown, m)) <= v.come
    BY <1>9, <1>10, <1>11, <2>8, <2>12, <2>13, <2>14
  <2>17. QED BY <2>4, <2>15, <2>16
<1>14. WalkOK(tb, v) BY <1>3, <1>4, <1>10, <1>13 DEF WalkOK
<1>15. QED BY <1>1, <1>2, <1>10, <1>14 DEF Select, IInv, TypeOK

LEMMA TotalIsListed ==
  ASSUME NEW tb, NEW q
  PROVE  Total(tb, q) = Cardinality(Listed(tb, q)) /\ Total(tb, q) \in Nat
<1>1. Total(tb, q) = Cardinality(Listed(tb, q)) BY DEF Total, Listed, Counted
<1>2. Cardinality(Listed(tb, q)) \in Nat BY ListedIds, SubsetFinite
<1>3. QED BY <1>1, <1>2

LEMMA CountStep ==
  ASSUME IInv, Count
  PROVE  IInv'
<1>1. PICK tb, w : tb = table /\ w = walk OBVIOUS
<1>2. PICK v : v = walk' OBVIOUS
<1>3. PICK q : q = w.query OBVIOUS
<1>4. w.pc = "count" /\ w \in Walk /\ WalkOK(tb, w)
  BY <1>1 DEF Count, At, IInv, TypeOK
<1>5. PICK total : total = Total(tb, q) OBVIOUS
<1>6. PICK next : next = First(w.query) OBVIOUS
<1>7. next \in {"check", "select"} BY <1>6 DEF First
<1>8. /\ w.page \in Nat \ {0} /\ w.per \in Nat \ {0} BY <1>4, WalkType
<1>9. CASE w.page < TotalPages(total, w.per)
  <2>1. v = [w EXCEPT !.pc = next, !.page = @ + 1]
    BY <1>1, <1>2, <1>3, <1>5, <1>6, <1>9 DEF Count
  <2>2. w.page + 1 \in Nat \ {0} BY <1>8
  <2>3. /\ v \in Walk /\ v.pc = next /\ v.query = w.query /\ v.per = w.per
        /\ v.page = w.page + 1 /\ v.shown = w.shown /\ v.steady = w.steady
        /\ v.gone = w.gone /\ v.come = w.come /\ v.repeats = w.repeats /\ v.sure = w.sure
    BY <1>4, <1>7, <2>1, <2>2 DEF Walk
  <2>4. Fetched(v) = Fetched(w) BY <1>4, <1>7, <1>8, <2>3 DEF Fetched
  <2>5. WalkOK(tb, v) BY <1>4, <1>7, <2>3, <2>4 DEF WalkOK, Sure
  <2>6. QED BY <1>1, <1>2, <1>7, <2>3, <2>5 DEF Count, IInv, TypeOK
<1>10. CASE ~ (w.page < TotalPages(total, w.per))
  <2>1. v = [w EXCEPT !.pc = "done", !.page = @]
    BY <1>1, <1>2, <1>3, <1>5, <1>10 DEF Count
  <2>2. /\ v \in Walk /\ v.pc = "done" /\ v.query = w.query /\ v.per = w.per
        /\ v.page = w.page /\ v.shown = w.shown /\ v.steady = w.steady
        /\ v.gone = w.gone /\ v.come = w.come /\ v.repeats = w.repeats /\ v.sure = w.sure
    BY <1>4, <2>1 DEF Walk
  <2>3. Fetched(v) = Fetched(w) BY <1>4, <2>2 DEF Fetched
  <2>4. total = Cardinality(Listed(tb, q)) /\ total \in Nat BY <1>5, TotalIsListed
  <2>5. total <= w.page * w.per BY <1>8, <1>10, <2>4, LastPage
  <2>6. WalkOK(tb, v) BY <1>3, <1>4, <2>2, <2>3, <2>4, <2>5 DEF WalkOK, Sure
  <2>7. QED BY <1>1, <1>2, <2>2, <2>6 DEF Count, IInv, TypeOK
<1>11. QED BY <1>9, <1>10

-----------------------------------------------------------------------------
(* The steps of the writers                                                *)

\* Noted, of any walk and tables.
After(w, old, new, i) ==
  [w EXCEPT
     !.steady = IF Goes(old, new, w.query, i) THEN @ \ {i} ELSE @,
     !.gone = IF Goes(old, new, w.query, i) THEN @ + 1 ELSE @,
     !.come = IF Comes(old, new, w.query, i) THEN @ + 1 ELSE @,
     !.sure = @ /\ Ordered(new, w.query)]

LEMMA NotedStep ==
  ASSUME NEW old \in Tables, NEW new \in Tables, NEW i \in Id, OthersStay(old, new, i),
         NEW w \in Walk, w.pc \in {"check", "select", "count"}, WalkOK(old, w),
         NEW v, v = After(w, old, new, i)
  PROVE  v \in Walk /\ v.pc = w.pc /\ WalkOK(new, v)
<1>1. PICK q : q = w.query OBVIOUS
<1>2. PICK goes \in {0, 1} : goes = IF Goes(old, new, q, i) THEN 1 ELSE 0 OBVIOUS
<1>3. PICK comes \in {0, 1} : comes = IF Comes(old, new, q, i) THEN 1 ELSE 0 OBVIOUS
<1>4. PICK left : left = IF Goes(old, new, q, i) THEN w.steady \ {i} ELSE w.steady OBVIOUS
<1>5. PICK sure \in BOOLEAN : sure <=> w.sure /\ Ordered(new, q)
  <2>1. CASE w.sure /\ Ordered(new, q) BY <2>1
  <2>2. CASE ~ (w.sure /\ Ordered(new, q)) BY <2>2
  <2>3. QED BY <2>1, <2>2
<1>6. /\ w.gone \in Nat /\ w.come \in Nat /\ w.repeats \in Nat /\ Fetched(w) \in Nat
      /\ w.shown \in SUBSET Id /\ w.steady \in SUBSET Id /\ left \in SUBSET Id
  BY <1>4, WalkType
<1>7. /\ v \in Walk /\ v.pc = w.pc /\ v.query = q /\ v.per = w.per /\ v.page = w.page
      /\ v.shown = w.shown /\ v.repeats = w.repeats
      /\ v.steady = left /\ v.gone = w.gone + goes /\ v.come = w.come + comes
      /\ v.sure <=> w.sure /\ Ordered(new, q)
  <2>1. PICK g, c : g = w.gone + goes /\ c = w.come + comes OBVIOUS
  <2>2. PICK s : s = (w.sure /\ Ordered(new, q)) OBVIOUS
  <2>3. g \in Nat /\ c \in Nat BY <1>6, <2>1
  <2>4. g = (IF Goes(old, new, q, i) THEN w.gone + 1 ELSE w.gone)
    BY <1>2, <1>6, <2>1
  <2>5. c = (IF Comes(old, new, q, i) THEN w.come + 1 ELSE w.come)
    BY <1>3, <1>6, <2>1
  <2>6. v = [w EXCEPT
               !.steady = IF Goes(old, new, q, i) THEN w.steady \ {i} ELSE w.steady,
               !.gone = IF Goes(old, new, q, i) THEN w.gone + 1 ELSE w.gone,
               !.come = IF Comes(old, new, q, i) THEN w.come + 1 ELSE w.come,
               !.sure = w.sure /\ Ordered(new, q)]
    BY <1>1 DEF After
  <2>7. v = [w EXCEPT !.steady = left, !.gone = g, !.come = c, !.sure = s]
    BY <1>4, <2>2, <2>4, <2>5, <2>6
  <2>8. s \in BOOLEAN BY <2>2
  <2>9. s <=> w.sure /\ Ordered(new, q) BY <2>2
  <2>10. /\ v \in Walk /\ v.pc = w.pc /\ v.query = q /\ v.per = w.per /\ v.page = w.page
         /\ v.shown = w.shown /\ v.repeats = w.repeats
         /\ v.steady = left /\ v.gone = g /\ v.come = c /\ v.sure = s
    BY <1>1, <1>6, <2>3, <2>7, <2>8 DEF Walk
  <2>11. QED BY <2>1, <2>9, <2>10
<1>8. Fetched(v) = Fetched(w) BY <1>7 DEF Fetched
<1>9. left \subseteq Listed(new, q)
  <2>1. w.steady \subseteq Listed(old, q) BY <1>1 DEF WalkOK
  <2>2. ASSUME NEW k \in left PROVE k \in Listed(new, q)
    <3>1. k \in Listed(old, q) /\ k \in Id BY <1>4, <1>6, <2>1, <2>2
    <3>2. CASE k = i BY <1>4, <2>2, <3>1, <3>2 DEF Goes
    <3>3. CASE k # i BY <3>1, <3>3, OthersListed
    <3>4. QED BY <3>2, <3>3
  <2>3. QED BY <2>2
<1>10. ASSUME Sure(v)
       PROVE  /\ Cardinality(Owed(new, q, left, w.shown, Fetched(w))) <= w.gone + goes
              /\ w.repeats + Cardinality(Again(new, q, w.shown, Fetched(w))) <= w.come + comes
  <2>1. Sure(w) BY <1>1, <1>7, <1>10 DEF Sure
  <2>2. Ordered(old, q) BY <1>1, <2>1, PhotosOrdered DEF Sure, WalkOK
  <2>3. Ordered(new, q) BY <1>7, <1>10, PhotosOrdered DEF Sure
  <2>4. PICK steady \in SUBSET Id, shown \in SUBSET Id, n \in Nat :
          steady = w.steady /\ shown = w.shown /\ n = Fetched(w)
    BY <1>6
  <2>5. /\ steady \in SUBSET Listed(old, q) /\ left \in SUBSET Listed(new, q)
        /\ steady \in SUBSET Id /\ shown \in SUBSET Id /\ left \in SUBSET Id /\ n \in Nat
        /\ left = (IF Goes(old, new, q, i) THEN steady \ {i} ELSE steady)
        /\ i \in Id /\ OthersStay(old, new, i)
    BY <1>1, <1>4, <1>6, <1>9, <2>4 DEF WalkOK
  <2>6. Cardinality(Owed(new, q, left, shown, n)) <=
          Cardinality(Owed(old, q, steady, shown, n)) + (IF Goes(old, new, q, i) THEN 1 ELSE 0)
    BY ONLY <2>2, <2>5, OwedAfter
  <2>7. Cardinality(Again(new, q, shown, n)) <=
          Cardinality(Again(old, q, shown, n)) + (IF Comes(old, new, q, i) THEN 1 ELSE 0)
    BY ONLY <2>2, <2>3, <2>5, AgainAfter
  <2>8. /\ Cardinality(Owed(old, q, steady, shown, n)) <= w.gone
        /\ w.repeats + Cardinality(Again(old, q, shown, n)) <= w.come
    BY <1>1, <2>1, <2>4 DEF WalkOK
  <2>9. /\ Cardinality(Owed(old, q, steady, shown, n)) \in Nat
        /\ Cardinality(Owed(new, q, left, shown, n)) \in Nat
        /\ Cardinality(Again(old, q, shown, n)) \in Nat
        /\ Cardinality(Again(new, q, shown, n)) \in Nat
    BY <2>5, OwedType
  <2>10. Cardinality(Owed(new, q, left, shown, n)) <= w.gone + goes
    BY <1>2, <1>6, <2>6, <2>8, <2>9
  <2>11. w.repeats + Cardinality(Again(new, q, shown, n)) <= w.come + comes
    BY <1>3, <1>6, <2>7, <2>8, <2>9
  <2>12. QED BY <2>4, <2>10, <2>11
<1>11. WalkOK(new, v) BY <1>7, <1>8, <1>9, <1>10 DEF WalkOK
<1>12. QED BY <1>7, <1>11

LEMMA WriteStep ==
  ASSUME IInv, NEW i \in Id, NEW row \in Row \cup {Removed}, Write(i, row)
  PROVE  IInv'
<1>1. PICK old, new, w, v : old = table /\ new = table' /\ w = walk /\ v = walk' OBVIOUS
<1>2. old \in Tables /\ w \in Walk BY <1>1 DEF IInv, TypeOK
<1>3. new = [old EXCEPT ![i] = row] BY <1>1 DEF Write
<1>4. new \in Tables BY <1>2, <1>3 DEF Tables
<1>5. OthersStay(old, new, i) BY <1>2, <1>3 DEF Tables, OthersStay
<1>6. parent' = parent BY DEF Write
<1>7. CASE w.pc \in {"check", "select", "count"}
  <2>1. v = After(w, old, new, i)
    <3>1. v = Noted(new, i) BY <1>1, <1>3, <1>7 DEF Write, Walking
    <3>2. Noted(new, i) = After(walk, table, new, i) BY DEF Noted, After
    <3>3. QED BY <1>1, <3>1, <3>2
  <2>2. WalkOK(old, w) BY <1>1, <1>7 DEF IInv
  <2>3. v \in Walk /\ v.pc = w.pc /\ WalkOK(new, v)
    BY <1>2, <1>4, <1>5, <1>7, <2>1, <2>2, NotedStep
  <2>4. QED BY <1>1, <1>4, <1>6, <1>7, <2>3 DEF IInv, TypeOK
<1>8. CASE w.pc \notin {"check", "select", "count"}
  <2>1. w.pc = "idle" BY <1>1, <1>2, <1>8 DEF Write, At, Walk
  <2>2. v = w BY <1>1, <1>8 DEF Write, Walking
  <2>3. QED BY <1>1, <1>2, <1>4, <1>6, <2>1, <2>2 DEF IInv, TypeOK
<1>9. QED BY <1>7, <1>8

LEMMA AddStep ==
  ASSUME IInv, NEW i \in Id, Add(i)
  PROVE  IInv'
<1>1. PICK c \in Time, T \in SUBSET Tag :
        Write(i, [created |-> c, tags |-> T, stars |-> [r \in Rater |-> 0]])
  BY DEF Add
<1>2. [created |-> c, tags |-> T, stars |-> [r \in Rater |-> 0]] \in Row BY DEF Row
<1>3. QED BY <1>1, <1>2, WriteStep

LEMMA RemoveStep ==
  ASSUME IInv, NEW i \in Id, Remove(i)
  PROVE  IInv'
BY WriteStep DEF Remove

LEMMA ListedRow ==
  ASSUME IInv, NEW i \in Rows(table)
  PROVE  table[i] \in Row
BY DEF IInv, TypeOK, Tables, Rows

LEMMA RateStep ==
  ASSUME IInv, NEW i \in Id, Rate(i)
  PROVE  IInv'
<1>1. PICK r \in Rater, s \in Star \cup {0} : Write(i, [table[i] EXCEPT !.stars[r] = s])
  BY DEF Rate
<1>2. table[i] \in Row BY ListedRow DEF Rate
<1>3. [table[i] EXCEPT !.stars[r] = s] \in Row
  <2>1. PICK row, stars : row = table[i] /\ stars = [row.stars EXCEPT ![r] = s] OBVIOUS
  <2>2. row.stars \in [Rater -> Star \cup {0}] BY <1>2, <2>1 DEF Row
  <2>3. stars \in [Rater -> Star \cup {0}] BY <2>1, <2>2
  <2>4. [row EXCEPT !.stars = stars] \in Row BY <1>2, <2>1, <2>3 DEF Row
  <2>5. [row EXCEPT !.stars[r] = s] = [row EXCEPT !.stars = stars] BY <2>1
  <2>6. QED BY <2>1, <2>4, <2>5
<1>4. QED BY <1>1, <1>3, WriteStep

LEMMA RetagStep ==
  ASSUME IInv, NEW i \in Id, Retag(i)
  PROVE  IInv'
<1>1. PICK T \in SUBSET Tag : Write(i, [table[i] EXCEPT !.tags = T]) BY DEF Retag
<1>2. table[i] \in Row BY ListedRow DEF Retag
<1>3. [table[i] EXCEPT !.tags = T] \in Row BY <1>2 DEF Row
<1>4. QED BY <1>1, <1>3, WriteStep

\* The listing is empty afterwards: nothing is owed and nothing can come again.
LEMMA RemoveParentStep ==
  ASSUME IInv, RemoveParent
  PROVE  IInv'
<1>1. PICK old, new, w, v : old = table /\ new = table' /\ w = walk /\ v = walk' OBVIOUS
<1>2. old \in Tables /\ w \in Walk BY <1>1 DEF IInv, TypeOK
<1>3. new = [i \in Id |-> IF i \in Rows(old) THEN Removed ELSE old[i]]
  BY <1>1 DEF RemoveParent
<1>4. new \in Tables /\ Rows(new) = {} BY <1>2, <1>3 DEF Tables, Rows
<1>5. PICK q : q = w.query OBVIOUS
<1>6. Listed(new, q) = {} BY <1>4, ListedIds
<1>7. w.pc \in {"check", "select", "count"} /\ parent' = FALSE
  BY <1>1 DEF RemoveParent, Walking
<1>8. WalkOK(old, w) BY <1>1, <1>7 DEF IInv
<1>9. /\ w.gone \in Nat /\ w.come \in Nat /\ w.repeats \in Nat /\ Fetched(w) \in Nat
      /\ w.shown \in SUBSET Id /\ w.steady \in SUBSET Id
  BY <1>2, WalkType
<1>10. PICK g : g = w.gone + Cardinality(Rows(old)) OBVIOUS
<1>11. g \in Nat
  <2>1. Rows(old) \in SUBSET Id BY ListedIds
  <2>2. QED BY <1>9, <1>10, <2>1, SubsetFinite
<1>12. v = [w EXCEPT !.steady = {}, !.gone = g] BY <1>1, <1>10 DEF RemoveParent
<1>13. /\ v \in Walk /\ v.pc = w.pc /\ v.query = q /\ v.per = w.per /\ v.page = w.page
       /\ v.shown = w.shown /\ v.repeats = w.repeats /\ v.come = w.come
       /\ v.steady = {} /\ v.gone = g /\ v.sure = w.sure
  BY <1>2, <1>5, <1>11, <1>12 DEF Walk
<1>14. Ordered(new, q) BY <1>6 DEF Ordered
<1>15. PICK m \in Nat : m = Fetched(v) BY <1>13, WalkType
<1>16. Owed(new, q, {}, v.shown, m) = {} /\ Again(new, q, v.shown, m) = {}
  BY <1>6 DEF Owed, Again
<1>17. ASSUME Sure(v) PROVE v.repeats <= v.come
  <2>1. Sure(w) BY <1>5, <1>13, <1>17 DEF Sure
  <2>2. w.repeats + Cardinality(Again(old, q, w.shown, Fetched(w))) <= w.come
    BY <1>5, <1>8, <2>1 DEF WalkOK
  <2>3. Cardinality(Again(old, q, w.shown, Fetched(w))) \in Nat BY <1>9, OwedType
  <2>4. QED BY <1>9, <1>13, <2>2, <2>3
<1>18. Cardinality({}) = 0 BY FS_EmptySet
<1>19. v.repeats \in Nat /\ v.come \in Nat BY <1>9, <1>13
<1>20. WalkOK(new, v)
  <2>1. v.steady \subseteq Listed(new, v.query) BY <1>13
  <2>2. v.sure => Ordered(new, v.query) BY <1>13, <1>14
  <2>3. Sure(v) =>
          /\ Cardinality(Owed(new, v.query, v.steady, v.shown, Fetched(v))) <= v.gone
          /\ v.repeats + Cardinality(Again(new, v.query, v.shown, Fetched(v))) <= v.come
    BY <1>11, <1>13, <1>15, <1>16, <1>17, <1>18, <1>19
  <2>4. v.pc # "done" BY <1>7, <1>13
  <2>5. QED BY <2>1, <2>2, <2>3, <2>4 DEF WalkOK
<1>21. QED BY <1>1, <1>4, <1>7, <1>13, <1>20 DEF IInv, TypeOK

-----------------------------------------------------------------------------
(* The theorems                                                            *)

LEMMA Initially == Init => IInv
<1> SUFFICES ASSUME Init PROVE IInv OBVIOUS
<1>1. table \in Tables BY DEF Init, Tables
<1>2. parent \in BOOLEAN BY DEF Init
<1>3. walk = NoWalk /\ walk \in Walk BY NoWalkType DEF Init
<1>4. QED BY <1>1, <1>2, <1>3, NoWalkType DEF IInv, TypeOK

LEMMA Inductive == IInv /\ [Next]_vars => IInv'
<1> SUFFICES ASSUME IInv, [Next]_vars PROVE IInv' OBVIOUS
<1>1. CASE \E q \in Queries, per \in PerPage : Begin(q, per) BY <1>1, BeginStep
<1>2. CASE ListPhotos BY <1>2, CheckStep, SelectStep, CountStep DEF ListPhotos
<1>3. CASE SearchPhotos BY <1>3, SelectStep, CountStep DEF SearchPhotos
<1>4. CASE ListUsers BY <1>4, SelectStep, CountStep DEF ListUsers
<1>5. CASE ListComments BY <1>5, CheckStep, SelectStep, CountStep DEF ListComments
<1>6. CASE ListRatings BY <1>6, CheckStep, SelectStep, CountStep DEF ListRatings
<1>7. CASE Leave BY <1>7, StopStep DEF Leave
<1>8. CASE \E i \in Id : Add(i) \/ Remove(i) \/ Rate(i) \/ Retag(i)
  BY <1>8, AddStep, RemoveStep, RateStep, RetagStep
<1>9. CASE RemoveParent BY <1>9, RemoveParentStep
<1>10. CASE UNCHANGED vars BY <1>10 DEF IInv, TypeOK, vars
<1>11. QED BY <1>1, <1>2, <1>3, <1>4, <1>5, <1>6, <1>7, <1>8, <1>9, <1>10 DEF Next

LEMMA Invariance == Spec => []IInv
BY Initially, Inductive, PTL DEF Spec

\* The rows, the parent and the record of the walk stay within their types.
THEOREM TypeCorrect == Spec => []TypeOK
<1>1. IInv => TypeOK BY DEF IInv
<1>2. QED BY <1>1, Invariance, PTL

\* Every row that was there throughout is shown, but for one at most per row
\* that left or moved: offsets are counted anew in every statement.
THEOREM MissedPaid == Spec => []MissedArePaidFor
<1>1. IInv => MissedArePaidFor
  <2> SUFFICES ASSUME IInv, At("done"), Fixed
               PROVE  Cardinality(walk.steady \ walk.shown) <= walk.gone
    BY DEF MissedArePaidFor
  <2>1. PICK tb, w, q : tb = table /\ w = walk /\ q = w.query OBVIOUS
  <2>2. w.pc = "done" /\ w \in Walk /\ tb \in Tables /\ WalkOK(tb, w) /\ Sure(w)
    BY <2>1 DEF IInv, TypeOK, At, Fixed, Sure
  <2>3. Ordered(tb, q) BY <2>1, <2>2, PhotosOrdered DEF Sure, WalkOK
  <2>4. Fetched(w) = w.page * w.per BY <2>2 DEF Fetched
  <2>5. PICK n \in Nat : n = Fetched(w) BY <2>2, WalkType
  <2>6. PICK size \in Nat : size = Cardinality(Listed(tb, q)) BY ListedIds, SubsetFinite
  <2>7. size <= n BY <2>1, <2>2, <2>4, <2>5, <2>6 DEF WalkOK
  <2>8. \A i \in Listed(tb, q) : Rank(tb, q, i) < n
    <3>1. TAKE i \in Listed(tb, q)
    <3>2. Rank(tb, q, i) < size BY <2>3, <2>6, RankBelow
    <3>3. Rank(tb, q, i) \in Nat BY RankType
    <3>4. QED BY <2>7, <3>2, <3>3
  <2>9. w.steady \subseteq Listed(tb, q) BY <2>1, <2>2 DEF WalkOK
  <2>10. Owed(tb, q, w.steady, w.shown, n) = w.steady \ w.shown BY <2>8, <2>9 DEF Owed
  <2>11. QED BY <2>1, <2>2, <2>5, <2>10 DEF WalkOK
<1>2. QED BY <1>1, Invariance, PTL

\* No row is shown again, but for one at most per row that came or moved.
THEOREM RepeatsPaid == Spec => []RepeatsArePaidFor
<1>1. IInv => RepeatsArePaidFor
  <2> SUFFICES ASSUME IInv, Fixed PROVE walk.repeats <= walk.come
    BY DEF RepeatsArePaidFor
  <2>1. PICK tb, w : tb = table /\ w = walk OBVIOUS
  <2>2. w \in Walk BY <2>1 DEF IInv, TypeOK
  <2>3. w.repeats \in Nat /\ w.come \in Nat BY <2>2, WalkType
  <2>4. CASE w.pc = "idle"
    <3>1. w.repeats = 0 BY <2>1, <2>4, NoWalkType DEF IInv
    <3>2. QED BY <2>1, <2>3, <3>1
  <2>5. CASE w.pc # "idle"
    <3>1. WalkOK(tb, w) /\ Sure(w) BY <2>1, <2>5 DEF IInv, Fixed, Sure
    <3>2. PICK again : again = Cardinality(Again(tb, w.query, w.shown, Fetched(w))) OBVIOUS
    <3>3. again \in Nat
      <4>1. w.shown \in SUBSET Id /\ w.steady \in SUBSET Id BY <2>2, WalkType
      <4>2. QED BY <3>2, <4>1, OwedType
    <3>4. w.repeats + again <= w.come BY <3>1, <3>2 DEF WalkOK
    <3>5. QED BY <2>1, <2>3, <3>3, <3>4
  <2>6. QED BY <2>4, <2>5
<1>2. QED BY <1>1, Invariance, PTL

\* However the joins multiply its rows, the statement of the search finds and
\* counts the photos it should, and averages and compares the stars given.
THEOREM SearchCorrect == Spec => []SearchIsExact
<1>1. IInv => SearchIsExact
  <2> SUFFICES ASSUME IInv, NEW q \in Queries
               PROVE  /\ Matches(table, q) = Wanted(table, q)
                      /\ Counted(table, q) = Cardinality(Wanted(table, q))
                      /\ \A i \in Matches(table, q) :
                            Equal(Average(table[i], q), PlainAverage(table[i]))
                      /\ \A i, j \in Matches(table, q) :
                            Less(Average(table[i], q), Average(table[j], q))
                            <=> Less(PlainAverage(table[i]), PlainAverage(table[j]))
    BY DEF SearchIsExact
  <2>1. table \in Tables BY DEF IInv, TypeOK
  <2>2. q \in Query BY ListingsAssumption
  <2>3. QED BY <2>1, <2>2, SearchFinds DEF Counted
<1>2. QED BY <1>1, Invariance, PTL
=============================================================================
