----------------------------- MODULE SumProofs -----------------------------
(***************************************************************************)
(* Sums over finite sets, for the proofs that balance accounts: what       *)
(* SumFunctionOnSet of the Functions module computes does not depend on    *)
(* the order its recursion chooses, so a sum changes by exactly what one   *)
(* of its terms changes by.                                                *)
(*                                                                         *)
(* The fold is a recursive function, and the library's induction theorems  *)
(* take an operator. The induction here is over sets: the finite subsets   *)
(* of a set are well founded under strict inclusion, so a set of them that *)
(* is not empty has a minimal member. The naturals are done the same way.  *)
(***************************************************************************)
EXTENDS Integers, Functions, NumberLists, FiniteSetTheorems, WellFoundedInduction, TLAPS

\* Induction over a finite set D, with the claim given as the set G of the
\* subsets it holds for: it holds for {}, and for a set when it holds for what
\* remains of the set without any one element.
LEMMA SubsetInduction ==
  ASSUME NEW D, IsFiniteSet(D), NEW G, {} \in G,
         \A T \in SUBSET D : T # {} /\ (\A x \in T : T \ {x} \in G) => T \in G
  PROVE  SUBSET D \subseteq G
<1> SUFFICES ASSUME NEW S \in SUBSET D, S \notin G PROVE FALSE
  OBVIOUS
<1> DEFINE B == {T \in SUBSET D : T \notin G}
<1>1. B # {} /\ B \subseteq FiniteSubsetsOf(D)
  BY FS_FiniteSubsetsOfFinite
<1>2. IsWellFoundedOn(StrictSubsetOrdering(D), FiniteSubsetsOf(D))
  BY FS_StrictSubsetOrderingWellFounded
<1> HIDE DEF B
<1>3. PICK T \in B : \A U \in B : <<U, T>> \notin StrictSubsetOrdering(D)
  BY <1>1, <1>2, WFMin
<1> USE DEF B
<1>4. ASSUME NEW x \in T PROVE T \ {x} \in G
  <2>1. T \ {x} \in SUBSET D /\ T \ {x} # T /\ T \ {x} \subseteq T
    BY <1>3
  <2>2. <<T \ {x}, T>> \in StrictSubsetOrdering(D)
    BY <1>3, <2>1 DEF StrictSubsetOrdering
  <2> QED BY <1>3, <2>1, <2>2
<1> QED BY <1>3, <1>4

\* A set of naturals that is not empty has a least member.
LEMMA LeastOf ==
  ASSUME NEW S, S \subseteq Nat, S # {}
  PROVE  \E n \in S : \A k \in S : n <= k
<1>1. PICK n \in S : \A k \in S : <<k, n>> \notin OpToRel(<, Nat)
  BY NatLessThanWellFounded, WFMin
<1>2. ASSUME NEW k \in S, k < n PROVE <<k, n>> \in OpToRel(<, Nat)
  BY <1>2 DEF OpToRel
<1>3. \A k \in S : k \in Nat /\ n \in Nat /\ ~(k < n)
  BY <1>1, <1>2
<1> QED BY <1>3

\* Induction over the naturals, with the claim given as the set G it holds for.
LEMMA NaturalInduction ==
  ASSUME NEW G, 0 \in G, \A n \in Nat : n \in G => n + 1 \in G
  PROVE  Nat \subseteq G
<1> SUFFICES ASSUME NEW b \in Nat, b \notin G PROVE FALSE
  OBVIOUS
<1> DEFINE B == {n \in Nat : n \notin G}
<1>1. B \subseteq Nat /\ B # {}
  OBVIOUS
<1> HIDE DEF B
<1>2. PICK n \in B : \A k \in B : n <= k
  BY <1>1, LeastOf
<1>3. n \in Nat /\ n \notin G /\ n # 0
  BY <1>2 DEF B
<1>4. n - 1 \in Nat /\ n - 1 \notin B
  BY <1>2, <1>3
<1> QED BY <1>3, <1>4 DEF B

-----------------------------------------------------------------------------
(* A table of sums *)

\* F gives every subset of D its sum, whichever element is taken first.
IsAdditive(F, f, D) ==
  /\ F \in [SUBSET D -> Int] /\ F[{}] = 0
  /\ \A T \in SUBSET D : \A x \in T : F[T] = f[x] + F[T \ {x}]

\* There is such a table for the empty set ...
LEMMA AdditiveEmpty == ASSUME NEW f PROVE \E F : IsAdditive(F, f, {})
<1>1. IsAdditive([T \in SUBSET {} |-> 0], f, {})
  BY DEF IsAdditive
<1> QED BY <1>1

\* ... and one more element extends it.
LEMMA AdditiveExtends ==
  ASSUME NEW S, NEW z \in S, NEW f \in [S -> Int], NEW F, IsAdditive(F, f, S \ {z})
  PROVE  \E G : IsAdditive(G, f, S)
<1> DEFINE G == [T \in SUBSET S |-> IF z \in T THEN f[z] + F[T \ {z}] ELSE F[T]]
<1>a. /\ F \in [SUBSET (S \ {z}) -> Int] /\ F[{}] = 0
      /\ \A T \in SUBSET (S \ {z}) : \A x \in T : F[T] = f[x] + F[T \ {x}]
      /\ \A T \in SUBSET (S \ {z}) : F[T] \in Int
      /\ \A x \in S : f[x] \in Int
  BY DEF IsAdditive
<1>b. \A T \in SUBSET S : T \ {z} \in SUBSET (S \ {z}) /\ (z \notin T => T \in SUBSET (S \ {z}))
  OBVIOUS
<1>1. G \in [SUBSET S -> Int]
  BY <1>a, <1>b
<1>2. G[{}] = 0
  BY <1>a
<1>3. ASSUME NEW T \in SUBSET S, NEW x \in T PROVE G[T] = f[x] + G[T \ {x}]
  <2>1. G[T] = IF z \in T THEN f[z] + F[T \ {z}] ELSE F[T]
    OBVIOUS
  <2>2. T \ {x} \in SUBSET S
    OBVIOUS
  <2>3. G[T \ {x}] = IF z \in T \ {x} THEN f[z] + F[(T \ {x}) \ {z}] ELSE F[T \ {x}]
    BY <2>2
  <2>4. CASE x = z
    <3>1. z \in T /\ z \notin T \ {x}
      BY <2>4
    <3> QED BY <2>1, <2>3, <2>4, <3>1
  <2>5. CASE x # z /\ z \in T
    <3>1. T \ {z} \in SUBSET (S \ {z}) /\ x \in T \ {z}
      BY <1>b, <2>5
    <3>2. F[T \ {z}] = f[x] + F[(T \ {x}) \ {z}]
      <4>1. F[T \ {z}] = f[x] + F[(T \ {z}) \ {x}]
        BY <1>a, <3>1
      <4>2. (T \ {z}) \ {x} = (T \ {x}) \ {z}
        OBVIOUS
      <4> QED BY <4>1, <4>2
    <3>4. (T \ {x}) \ {z} \in SUBSET (S \ {z})
      OBVIOUS
    <3>5. F[(T \ {x}) \ {z}] \in Int /\ f[x] \in Int /\ f[z] \in Int
      BY <1>a, <3>4
    <3>6. G[T] = f[z] + F[T \ {z}] /\ G[T \ {x}] = f[z] + F[(T \ {x}) \ {z}]
      BY <2>1, <2>3, <2>5
    <3>7. \A a, b, c \in Int : a + (b + c) = b + (a + c)
      OBVIOUS
    <3>8. f[z] + (f[x] + F[(T \ {x}) \ {z}]) = f[x] + (f[z] + F[(T \ {x}) \ {z}])
      BY <3>5, <3>7
    <3> HIDE DEF G
    <3> QED BY <3>2, <3>6, <3>8
  <2>6. CASE x # z /\ z \notin T
    <3>1. T \in SUBSET (S \ {z})
      BY <1>b, <2>6
    <3>2. F[T] = f[x] + F[T \ {x}]
      BY <1>a, <3>1
    <3> QED BY <2>1, <2>3, <2>6, <3>2
  <2> QED BY <2>4, <2>5, <2>6
<1> HIDE DEF G
<1>4. IsAdditive(G, f, S)
  BY <1>1, <1>2, <1>3 DEF IsAdditive
<1> QED BY <1>4

\* So every finite set has one.
LEMMA AdditiveExists ==
  ASSUME NEW D, IsFiniteSet(D), NEW f \in [D -> Int]
  PROVE  \E F : IsAdditive(F, f, D)
<1> DEFINE G == {T \in SUBSET D : \E F : IsAdditive(F, f, T)}
<1>1. {} \in G
  BY AdditiveEmpty
<1>2. ASSUME NEW T \in SUBSET D, T # {}, \A x \in T : T \ {x} \in G PROVE T \in G
  <2>x. PICK x \in T : TRUE
    BY <1>2
  <2>1. PICK F : IsAdditive(F, f, T \ {x})
    BY <1>2, <2>x
  <2> DEFINE h == [y \in T |-> f[y]]
  <2>2. h \in [T -> Int]
    OBVIOUS
  <2>3. IsAdditive(F, h, T \ {x})
    BY <2>1 DEF IsAdditive
  <2>4. PICK H : IsAdditive(H, h, T)
    BY <2>2, <2>3, <2>x, AdditiveExtends
  <2>5. IsAdditive(H, f, T)
    BY <2>4 DEF IsAdditive
  <2> QED BY <2>5
<1> HIDE DEF G
<1>3. SUBSET D \subseteq G
  BY <1>1, <1>2, SubsetInduction
<1> QED BY <1>3 DEF G

-----------------------------------------------------------------------------
(* SumFunctionOnSet *)

Pick1(s) == CHOOSE x \in s : TRUE

\* A table of sums obeys the recursion of the fold, and so does the function the
\* fold is defined by.
LEMMA FoldRecursion ==
  ASSUME NEW D, NEW f, NEW g,
         g = [s \in SUBSET D |-> IF s = {} THEN 0 ELSE f[Pick1(s)] + g[s \ {Pick1(s)}]]
  PROVE  \E k : /\ k = [s \in SUBSET D |->
                          IF s = {} THEN 0 ELSE f[Pick1(s)] + k[s \ {Pick1(s)}]]
                /\ SumFunctionOnSet(f, D) = k[D]
BY Zenon DEF SumFunctionOnSet, FoldFunctionOnSet, MapThenFoldSet, Pick1

\* The sum over D is the one the table gives.
LEMMA SumFromTable ==
  ASSUME NEW D, IsFiniteSet(D), NEW f, NEW F, IsAdditive(F, f, D)
  PROVE  SumFunctionOnSet(f, D) = F[D]
<1>1. \A s : s # {} => Pick1(s) \in s
  BY DEF Pick1
<1>2. F = [s \in SUBSET D |-> IF s = {} THEN 0 ELSE f[Pick1(s)] + F[s \ {Pick1(s)}]]
  BY <1>1 DEF IsAdditive
<1>3. PICK k : /\ k = [s \in SUBSET D |->
                         IF s = {} THEN 0 ELSE f[Pick1(s)] + k[s \ {Pick1(s)}]]
               /\ SumFunctionOnSet(f, D) = k[D]
  BY <1>2, FoldRecursion
<1>4. \A s \in SUBSET D : k[s] = IF s = {} THEN 0 ELSE f[Pick1(s)] + k[s \ {Pick1(s)}]
  BY <1>3
<1>5. \A s \in SUBSET D : F[s] = IF s = {} THEN 0 ELSE f[Pick1(s)] + F[s \ {Pick1(s)}]
  BY <1>2
<1> DEFINE G == {T \in SUBSET D : k[T] = F[T]}
<1>6. {} \in G
  BY <1>4, <1>5
<1>7. ASSUME NEW T \in SUBSET D, T # {}, \A x \in T : T \ {x} \in G PROVE T \in G
  <2>1. Pick1(T) \in T /\ k[T \ {Pick1(T)}] = F[T \ {Pick1(T)}]
    BY <1>1, <1>7
  <2> QED BY <1>4, <1>5, <1>7, <2>1
<1> HIDE DEF G
<1>8. D \in G
  BY <1>6, <1>7, SubsetInduction
<1> QED BY <1>3, <1>8 DEF G

\* A sum of integers is an integer, and the table of its parts is at hand.
LEMMA SumTable ==
  ASSUME NEW D, IsFiniteSet(D), NEW f, \A x \in D : f[x] \in Int
  PROVE  \E F : /\ IsAdditive(F, f, D)
               /\ \A T \in SUBSET D : SumFunctionOnSet(f, T) = F[T]
<1> DEFINE h == [x \in D |-> f[x]]
<1>1. h \in [D -> Int]
  OBVIOUS
<1>2. PICK F : IsAdditive(F, h, D)
  BY <1>1, AdditiveExists
<1>3. IsAdditive(F, f, D)
  BY <1>2 DEF IsAdditive
<1>4. ASSUME NEW T \in SUBSET D PROVE SumFunctionOnSet(f, T) = F[T]
  <2> DEFINE H == [U \in SUBSET T |-> F[U]]
  <2>1. IsFiniteSet(T)
    BY FS_Subset
  <2>2. H \in [SUBSET T -> Int] /\ H[{}] = 0
    BY <1>3 DEF IsAdditive
  <2>3. \A U \in SUBSET T : \A x \in U : H[U] = f[x] + H[U \ {x}]
    BY <1>3 DEF IsAdditive
  <2>4. IsAdditive(H, f, T)
    BY <2>2, <2>3 DEF IsAdditive
  <2>5. H[T] = F[T]
    OBVIOUS
  <2> HIDE DEF H
  <2> QED BY <2>1, <2>4, <2>5, SumFromTable
<1> QED BY <1>3, <1>4

\* The sum over no element is 0.
LEMMA SumEmpty == ASSUME NEW f PROVE SumFunctionOnSet(f, {}) = 0
<1>1. PICK F : IsAdditive(F, f, {}) /\ \A T \in SUBSET {} : SumFunctionOnSet(f, T) = F[T]
  BY SumTable, FS_EmptySet
<1> QED BY <1>1 DEF IsAdditive

\* A sum of integers is an integer.
LEMMA SumType ==
  ASSUME NEW D, IsFiniteSet(D), NEW f, \A x \in D : f[x] \in Int
  PROVE  SumFunctionOnSet(f, D) \in Int
<1>1. PICK F : IsAdditive(F, f, D) /\ \A T \in SUBSET D : SumFunctionOnSet(f, T) = F[T]
  BY SumTable
<1> QED BY <1>1 DEF IsAdditive

\* Any one term can be taken out of a sum.
LEMMA SumTakeOut ==
  ASSUME NEW D, IsFiniteSet(D), NEW f, \A x \in D : f[x] \in Int, NEW z \in D
  PROVE  SumFunctionOnSet(f, D) = f[z] + SumFunctionOnSet(f, D \ {z})
<1>1. PICK F : IsAdditive(F, f, D) /\ \A T \in SUBSET D : SumFunctionOnSet(f, T) = F[T]
  BY SumTable
<1>2. SumFunctionOnSet(f, D) = F[D] /\ SumFunctionOnSet(f, D \ {z}) = F[D \ {z}]
  BY <1>1
<1>3. F[D] = f[z] + F[D \ {z}]
  BY <1>1 DEF IsAdditive
<1> QED BY <1>2, <1>3

\* A sum depends on nothing but its terms.
LEMMA SumSame ==
  ASSUME NEW D, IsFiniteSet(D), NEW f, NEW g,
         \A x \in D : f[x] \in Int, \A x \in D : g[x] = f[x]
  PROVE  SumFunctionOnSet(g, D) = SumFunctionOnSet(f, D)
<1>1. PICK F : IsAdditive(F, f, D) /\ \A T \in SUBSET D : SumFunctionOnSet(f, T) = F[T]
  BY SumTable
<1>2. IsAdditive(F, g, D)
  BY <1>1 DEF IsAdditive
<1>3. SumFunctionOnSet(g, D) = F[D]
  BY <1>2, SumFromTable
<1> QED BY <1>1, <1>3

\* A sum changes by what one term changes by.
LEMMA SumChange ==
  ASSUME NEW D, IsFiniteSet(D), NEW f, NEW g, NEW z \in D,
         \A x \in D : f[x] \in Int, \A x \in D : g[x] \in Int,
         \A x \in D \ {z} : g[x] = f[x]
  PROVE  SumFunctionOnSet(g, D) = SumFunctionOnSet(f, D) + (g[z] - f[z])
<1>1. IsFiniteSet(D \ {z})
  BY FS_RemoveElement
<1>2. SumFunctionOnSet(g, D \ {z}) = SumFunctionOnSet(f, D \ {z})
  BY <1>1, SumSame
<1>3. SumFunctionOnSet(f, D \ {z}) \in Int
  BY <1>1, SumType
<1>4. SumFunctionOnSet(f, D) = f[z] + SumFunctionOnSet(f, D \ {z})
  BY SumTakeOut
<1>5. SumFunctionOnSet(g, D) = g[z] + SumFunctionOnSet(g, D \ {z})
  BY SumTakeOut
<1>6. f[z] \in Int /\ g[z] \in Int
  OBVIOUS
<1>7. \A a, b, c \in Int : b + c = (a + c) + (b - a)
  OBVIOUS
<1> QED BY <1>2, <1>3, <1>4, <1>5, <1>6, <1>7

\* A sum grows by the term of the element that joins.
LEMMA SumJoin ==
  ASSUME NEW D, IsFiniteSet(D), NEW f, NEW z, z \notin D,
         \A x \in D \cup {z} : f[x] \in Int
  PROVE  SumFunctionOnSet(f, D \cup {z}) = SumFunctionOnSet(f, D) + f[z]
<1>1. IsFiniteSet(D \cup {z}) /\ (D \cup {z}) \ {z} = D
  BY FS_AddElement
<1>2. SumFunctionOnSet(f, D \cup {z}) = f[z] + SumFunctionOnSet(f, (D \cup {z}) \ {z})
  BY <1>1, SumTakeOut
<1>3. SumFunctionOnSet(f, D) \in Int /\ f[z] \in Int
  BY SumType
<1>4. SumFunctionOnSet(f, D \cup {z}) = f[z] + SumFunctionOnSet(f, D)
  BY <1>1, <1>2
<1>5. \A a, b \in Int : a + b = b + a
  OBVIOUS
<1> QED BY <1>3, <1>4, <1>5

\* A sum of naturals is a natural.
LEMMA SumNat ==
  ASSUME NEW D, IsFiniteSet(D), NEW f, \A x \in D : f[x] \in Nat
  PROVE  SumFunctionOnSet(f, D) \in Nat
<1>0. \A x \in D : f[x] \in Int
  OBVIOUS
<1>1. PICK F : IsAdditive(F, f, D) /\ \A T \in SUBSET D : SumFunctionOnSet(f, T) = F[T]
  BY <1>0, SumTable
<1> DEFINE G == {T \in SUBSET D : F[T] \in Nat}
<1>2. {} \in G
  BY <1>1 DEF IsAdditive
<1>3. ASSUME NEW T \in SUBSET D, T # {}, \A x \in T : T \ {x} \in G PROVE T \in G
  <2>1. PICK x \in T : TRUE
    BY <1>3
  <2>2. F[T] = f[x] + F[T \ {x}] /\ F[T \ {x}] \in Nat /\ f[x] \in Nat
    BY <1>1, <1>3, <2>1 DEF IsAdditive
  <2> QED BY <2>2
<1> HIDE DEF G
<1>4. D \in G
  BY <1>2, <1>3, SubsetInduction
<1> QED BY <1>1, <1>4 DEF G

-----------------------------------------------------------------------------
(* Numbers in ascending order *)

\* A larger member has a larger rank, and every rank is taken.
LEMMA RankFacts ==
  ASSUME NEW S, S \subseteq Nat, IsFiniteSet(S)
  PROVE  /\ Cardinality(S) \in Nat
         /\ \A i \in S : Rank(S, i) \in 1..Cardinality(S)
         /\ \A i, j \in S : i < j => Rank(S, i) < Rank(S, j)
         /\ \A n \in 1..Cardinality(S) : \E i \in S : Rank(S, i) = n
<1>1. Cardinality(S) \in Nat
  BY FS_CardinalityType
<1>2. ASSUME NEW i \in S
      PROVE  /\ IsFiniteSet({j \in S : j <= i}) /\ Rank(S, i) \in Nat
             /\ Rank(S, i) <= Cardinality(S) /\ Rank(S, i) # 0
  <2>1. {j \in S : j <= i} \in SUBSET S /\ i \in {j \in S : j <= i}
    OBVIOUS
  <2>2. /\ IsFiniteSet({j \in S : j <= i})
        /\ Cardinality({j \in S : j <= i}) <= Cardinality(S)
    BY <2>1, FS_Subset
  <2>3. Cardinality({j \in S : j <= i}) \in Nat
    BY <2>2, FS_CardinalityType
  <2>4. Cardinality({j \in S : j <= i}) # 0
    BY <2>1, <2>2, FS_EmptySet
  <2>5. QED BY <2>2, <2>3, <2>4 DEF Rank
<1>3. ASSUME NEW i \in S PROVE Rank(S, i) \in 1..Cardinality(S)
  <2>1. Rank(S, i) \in Nat /\ Rank(S, i) <= Cardinality(S) /\ Rank(S, i) # 0
    BY <1>2
  <2>2. QED BY <1>1, <2>1
<1>4. ASSUME NEW i \in S, NEW j \in S, i < j PROVE Rank(S, i) < Rank(S, j)
  <2>0. i \in Nat /\ j \in Nat /\ \A k \in S : k \in Nat /\ (k <= i => k <= j)
    BY <1>4
  <2>1. {k \in S : k <= i} \in SUBSET {k \in S : k <= j} /\ j \in {k \in S : k <= j}
        /\ j \notin {k \in S : k <= i}
    <3>1. j <= j /\ ~(j <= i)
      BY <1>4, <2>0
    <3>2. {k \in S : k <= i} \subseteq {k \in S : k <= j}
      BY <2>0
    <3>3. QED BY <3>1, <3>2
  <2>2. /\ Cardinality({k \in S : k <= i}) <= Cardinality({k \in S : k <= j})
        /\ Cardinality({k \in S : k <= j}) # Cardinality({k \in S : k <= i})
    BY <1>2, <2>1, FS_Subset
  <2>3. QED BY <1>2, <2>2 DEF Rank
<1>5. ASSUME NEW n \in 1..Cardinality(S) PROVE \E i \in S : Rank(S, i) = n
  <2> DEFINE T == 1..Cardinality(S)
             f == [i \in S |-> Rank(S, i)]
  <2>1. f \in [S -> T]
    BY <1>3
  <2>2. \A i, j \in S : i # j => Rank(S, i) # Rank(S, j)
    <3>1. SUFFICES ASSUME NEW i \in S, NEW j \in S, i # j PROVE Rank(S, i) # Rank(S, j)
      OBVIOUS
    <3>2. i < j \/ j < i
      BY <3>1
    <3>3. Rank(S, i) \in Nat /\ Rank(S, j) \in Nat
      BY <1>2
    <3>4. QED BY <1>4, <3>2, <3>3
  <2>3. \A i, j \in S : f[i] = f[j] => i = j
    BY <2>2
  <2>4. f \in Injection(S, T)
    BY <2>1, <2>3 DEF Injection, IsInjective
  <2>5. IsFiniteSet(T) /\ Cardinality(T) = Cardinality(S)
    BY <1>1, FS_Interval
  <2>6. f \in Surjection(S, T)
    BY <2>4, <2>5, FS_Injection
  <2>7. \E i \in S : f[i] = n
    BY <2>6 DEF Surjection
  <2>8. QED BY <2>7
<1>6. QED BY <1>1, <1>3, <1>4, <1>5
=============================================================================
