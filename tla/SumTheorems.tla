------------------------------- MODULE SumTheorems ------------------------------
(***************************************************************************)
(* Sums over a finite set, as the folds of the community modules compute   *)
(* them: they exist, are unique, and change by what one term changes by.   *)
(* Sums of naturals are counted: the sum of f over S is the number of the  *)
(* boxes that are stacked when every x of S gets a pile of f[x].  Facts    *)
(* about all subsets of S follow from the smallest one that would refute   *)
(* them, since strict inclusion is well-founded on the finite sets.        *)
(***************************************************************************)
EXTENDS Integers, FiniteSets, FiniteSetTheorems, WellFoundedInduction, TLAPS

\* The piles of the elements of S.
Boxes(f, S) == {b \in S \X Nat : b[2] < f[b[1]]}

\* it is the fold: what to take from a set first is left to CHOOSE.
IsSum(it, f, S) ==
    it = [s \in SUBSET S |->
             IF s = {} THEN 0
             ELSE f[CHOOSE x \in s : TRUE] + it[s \ {CHOOSE x \in s : TRUE}]]

-------------------------------------------------------------------------------
\* One pile.
LEMMA PileCount ==
  ASSUME NEW x, NEW n \in Nat
  PROVE  /\ IsFiniteSet({x} \X (0..(n - 1)))
         /\ Cardinality({x} \X (0..(n - 1))) = n
<1> DEFINE I == 0..(n - 1)
           g == [i \in I |-> <<x, i>>]
<1>1. IsFiniteSet(I) /\ Cardinality(I) = n
  BY FS_Interval
<1>2. g \in Bijection(I, {x} \X I)
  BY DEF Bijection, Injection, Surjection, IsInjective
<1>3. ExistsBijection(I, {x} \X I)
  BY <1>2 DEF ExistsBijection
<1> QED
  BY <1>1, <1>3, FS_Bijection

\* One more pile.
LEMMA AddPile ==
  ASSUME NEW f, NEW S, NEW x, x \notin S, f[x] \in Nat, IsFiniteSet(Boxes(f, S))
  PROVE  /\ IsFiniteSet(Boxes(f, S \cup {x}))
         /\ Cardinality(Boxes(f, S \cup {x})) = Cardinality(Boxes(f, S)) + f[x]
<1> DEFINE A == Boxes(f, S)
           B == {x} \X (0..(f[x] - 1))
<1>1. Boxes(f, S \cup {x}) = A \cup B
  BY DEF Boxes
<1>2. A \cap B = {}
  BY DEF Boxes
<1>3. IsFiniteSet(B) /\ Cardinality(B) = f[x]
  BY PileCount
<1>4. Cardinality(A) \in Nat
  BY FS_CardinalityType
<1> HIDE DEF A, B
<1>5. Cardinality(A \cap B) = 0
  BY <1>2, FS_EmptySet
<1>6. /\ IsFiniteSet(A \cup B)
      /\ Cardinality(A \cup B) = Cardinality(A) + Cardinality(B) - Cardinality(A \cap B)
  BY <1>3, FS_Union DEF A
<1>7. Cardinality(A \cup B) = Cardinality(A) + f[x]
  BY <1>3, <1>4, <1>5, <1>6
<1> QED
  BY <1>1, <1>6, <1>7 DEF A

\* Of the subsets of a finite set for which something fails, one is minimal.
LEMMA SmallestSubset ==
  ASSUME NEW S, IsFiniteSet(S), NEW Bad, Bad \subseteq SUBSET S, Bad # {}
  PROVE  \E m \in Bad : \A s \in SUBSET m : s # m => s \notin Bad
<1>1. IsWellFoundedOn(StrictSubsetOrdering(S), SUBSET S)
  BY FS_StrictSubsetOrderingWellFounded, FS_FiniteSubsetsOfFinite
<1>2. PICK m \in Bad : \A s \in Bad : ~ (<<s, m>> \in StrictSubsetOrdering(S))
  BY <1>1, WFMin
<1>3. ASSUME NEW s \in SUBSET m, s # m, s \in Bad PROVE FALSE
  <2>1. <<s, m>> \in StrictSubsetOrdering(S)
    BY <1>3 DEF StrictSubsetOrdering
  <2> QED
    BY <1>2, <1>3, <2>1
<1> QED
  BY <1>3

\* Finitely many piles of natural numbers have finitely many boxes.
LEMMA BoxesFinite ==
  ASSUME NEW S, IsFiniteSet(S), NEW f \in [S -> Nat], NEW T \in SUBSET S
  PROVE  IsFiniteSet(Boxes(f, T)) /\ Cardinality(Boxes(f, T)) \in Nat
<1> DEFINE Bad == {s \in SUBSET S : ~ IsFiniteSet(Boxes(f, s))}
<1>1. SUFFICES ASSUME Bad # {} PROVE FALSE
  BY FS_CardinalityType
<1>2. PICK m \in Bad : \A s \in SUBSET m : s # m => s \notin Bad
  BY <1>1, SmallestSubset
<1>3. m # {}
  <2>1. Boxes(f, {}) = {}
    BY DEF Boxes
  <2> QED
    BY <2>1, FS_EmptySet
<1>4. PICK x : x \in m
  BY <1>3
<1> DEFINE r == m \ {x}
<1>5. r \in SUBSET S /\ r \notin Bad /\ x \notin r /\ r \cup {x} = m
  BY <1>2, <1>4
<1>6. IsFiniteSet(Boxes(f, r)) /\ f[x] \in Nat
  BY <1>4, <1>5
<1> HIDE DEF r
<1>7. IsFiniteSet(Boxes(f, r \cup {x}))
  BY <1>5, <1>6, AddPile
<1> QED
  BY <1>5, <1>7

\* Counting the boxes is a sum.
LEMMA CountIsSum ==
  ASSUME NEW S, IsFiniteSet(S), NEW f \in [S -> Nat]
  PROVE  IsSum([s \in SUBSET S |-> Cardinality(Boxes(f, s))], f, S)
<1> DEFINE g == [s \in SUBSET S |-> Cardinality(Boxes(f, s))]
<1>1. ASSUME NEW s \in SUBSET S
      PROVE  g[s] = IF s = {} THEN 0
                    ELSE f[CHOOSE x \in s : TRUE] + g[s \ {CHOOSE x \in s : TRUE}]
  <2>1. CASE s = {}
    <3>1. Boxes(f, s) = {}
      BY <2>1 DEF Boxes
    <3> QED
      BY <2>1, <3>1, FS_EmptySet
  <2>2. CASE s # {}
    <3> DEFINE c == CHOOSE x \in s : TRUE
               r == s \ {c}
    <3>1. c \in s
      BY <2>2
    <3> HIDE DEF c
    <3>2. /\ r \in SUBSET S /\ c \notin r /\ r \cup {c} = s
          /\ f[c] \in Nat
      BY <3>1
    <3> HIDE DEF r
    <3>3. IsFiniteSet(Boxes(f, r)) /\ Cardinality(Boxes(f, r)) \in Nat
      BY <3>2, BoxesFinite
    <3>4. Cardinality(Boxes(f, r \cup {c})) = Cardinality(Boxes(f, r)) + f[c]
      BY <3>2, <3>3, AddPile
    <3>5. g[s] = f[c] + g[r]
      BY <3>2, <3>3, <3>4
    <3> QED
      BY <2>2, <3>5 DEF c, r
  <2> QED
    BY <2>1, <2>2
<1> HIDE DEF g
<1>2. IsSum(g, f, S)
  <2>1. g = [s \in SUBSET S |-> g[s]]
    BY DEF g
  <2> QED
    BY <1>1, <2>1 DEF IsSum
<1> QED
  BY <1>2 DEF g

\* There is no other sum.
THEOREM SumIsCount ==
  ASSUME NEW S, IsFiniteSet(S), NEW f \in [S -> Nat], NEW it, IsSum(it, f, S)
  PROVE  it[S] = Cardinality(Boxes(f, S))
<1> DEFINE g   == [s \in SUBSET S |-> Cardinality(Boxes(f, s))]
           Bad == {s \in SUBSET S : it[s] # g[s]}
<1>1. IsSum(g, f, S)
  BY CountIsSum
<1>2. SUFFICES ASSUME Bad # {} PROVE FALSE
  OBVIOUS
<1> HIDE DEF g
<1>3. Bad \subseteq SUBSET S
  OBVIOUS
<1>4. \A s \in SUBSET S : s \in Bad <=> it[s] # g[s]
  OBVIOUS
<1> HIDE DEF Bad
<1>5. PICK m \in Bad : \A s \in SUBSET m : s # m => s \notin Bad
  BY <1>2, <1>3, SmallestSubset
<1>6. CASE m = {}
  <2>1. {} \in SUBSET S
    OBVIOUS
  <2>2. it[{}] = 0
    BY <2>1 DEF IsSum
  <2>3. g[{}] = 0
    BY <1>1, <2>1 DEF IsSum
  <2> QED
    BY <1>6, <1>4, <2>1, <2>2, <2>3
<1>7. CASE m # {}
  <2> DEFINE c == CHOOSE x \in m : TRUE
             r == m \ {c}
  <2>1. c \in m
    BY <1>7
  <2>2. m \in SUBSET S /\ it[m] # g[m]
    BY <1>3, <1>4
  <2>3. it[m] = f[c] + it[r]
    BY <1>7, <2>2 DEF IsSum
  <2>4. g[m] = f[c] + g[r]
    BY <1>1, <1>7, <2>2 DEF IsSum
  <2> HIDE DEF c
  <2>5. r \in SUBSET S /\ r \notin Bad
    BY <1>5, <2>1, <2>2
  <2>6. it[r] = g[r]
    BY <1>4, <2>5
  <2> QED
    BY <2>2, <2>3, <2>4, <2>6
<1> QED
  BY <1>6, <1>7

\* When one term changes, the sum changes by as much.
THEOREM OneTermChanges ==
  ASSUME NEW S, IsFiniteSet(S), NEW f \in [S -> Nat], NEW g \in [S -> Nat],
         NEW a \in S, \A x \in S : x # a => g[x] = f[x]
  PROVE  Cardinality(Boxes(g, S)) = Cardinality(Boxes(f, S)) - f[a] + g[a]
<1> DEFINE r == S \ {a}
<1>1. r \in SUBSET S /\ a \notin r /\ r \cup {a} = S
  OBVIOUS
<1>2. Boxes(g, r) = Boxes(f, r)
  BY DEF Boxes
<1> HIDE DEF r
<1>3. IsFiniteSet(Boxes(f, r)) /\ Cardinality(Boxes(f, r)) \in Nat
  BY <1>1, BoxesFinite
<1>4. Cardinality(Boxes(f, S)) = Cardinality(Boxes(f, r)) + f[a]
  <2>1. f[a] \in Nat
    OBVIOUS
  <2> QED
    BY <1>1, <1>3, <2>1, AddPile
<1>5. Cardinality(Boxes(g, S)) = Cardinality(Boxes(f, r)) + g[a]
  <2>1. g[a] \in Nat
    OBVIOUS
  <2> QED
    BY <1>1, <1>2, <1>3, <2>1, AddPile
<1>6. f[a] \in Nat /\ g[a] \in Nat
  OBVIOUS
<1> QED
  BY <1>3, <1>4, <1>5, <1>6

===============================================================================
