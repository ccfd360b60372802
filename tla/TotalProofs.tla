---------------------------- MODULE TotalProofs ----------------------------
(***************************************************************************)
(* How sizes and sums change when one thread moves.  Nothing is assumed    *)
(* about the number of threads: the sets that are counted start out empty  *)
(* and gain one member at a time.  And Least, which takes the place of     *)
(* induction over the naturals.                                            *)
(***************************************************************************)
EXTENDS Totals, FiniteSetTheorems, WellFoundedInduction, TLAPS

\* A set of naturals that is not empty has a least element.
LEMMA Least ==
    ASSUME NEW S \in SUBSET Nat, S # {}
    PROVE  \E m \in S : \A k \in S : m <= k
<1> DEFINE F == {0 .. m : m \in S}
<1>1. F \subseteq FiniteSubsetsOf(Nat)
  <2>1. \A m \in S : IsFiniteSet(0 .. m)
    BY FS_Interval
  <2> QED  BY <2>1 DEF FiniteSubsetsOf
<1>2. F # {}
  OBVIOUS
<1>3. IsWellFoundedOn(StrictSubsetOrdering(Nat), FiniteSubsetsOf(Nat))
  BY FS_StrictSubsetOrderingWellFounded
<1> HIDE DEF F
<1>4. \E x \in F : \A y \in F : ~(<<y, x>> \in StrictSubsetOrdering(Nat))
  BY <1>1, <1>2, <1>3, WFMin
<1>5. PICK m \in S : \A y \in F : ~(<<y, 0 .. m>> \in StrictSubsetOrdering(Nat))
  BY <1>4 DEF F
<1>6. ASSUME NEW k \in S, k < m PROVE FALSE
  <2>1. 0 .. k \in F
    BY DEF F
  <2>2. 0 .. k \subseteq 0 .. m
    BY <1>6
  <2>3. 0 .. k # 0 .. m
    <3>1. m \in 0 .. m /\ m \notin 0 .. k
      BY <1>6
    <3> QED  BY <3>1
  <2>4. 0 .. k \in SUBSET Nat /\ 0 .. m \in SUBSET Nat
    OBVIOUS
  <2>5. <<0 .. k, 0 .. m>> \in StrictSubsetOrdering(Nat)
    BY <2>2, <2>3, <2>4, Zenon DEF StrictSubsetOrdering
  <2> QED  BY <1>5, <2>1, <2>5
<1> QED  BY <1>6

\* Sets that differ in x at most.
LEMMA CountOne ==
    ASSUME NEW A, NEW B, NEW x, IsFiniteSet(A), A \ {x} = B \ {x}
    PROVE  /\ IsFiniteSet(B) /\ Cardinality(A) \in Nat /\ Cardinality(B) \in Nat
           /\ Cardinality(B) = Cardinality(A) - (IF x \in A THEN 1 ELSE 0)
                                              + (IF x \in B THEN 1 ELSE 0)
<1>1. /\ IsFiniteSet(A \ {x}) /\ Cardinality(A) \in Nat
      /\ Cardinality(A \ {x}) = IF x \in A THEN Cardinality(A) - 1 ELSE Cardinality(A)
  BY FS_RemoveElement, FS_CardinalityType
<1>2. x \in B => B = (B \ {x}) \cup {x}
  OBVIOUS
<1>3. x \notin B => B = B \ {x}
  OBVIOUS
<1>4. /\ IsFiniteSet((B \ {x}) \cup {x})
      /\ Cardinality((B \ {x}) \cup {x}) = Cardinality(B \ {x}) + 1
  <2>1. x \notin B \ {x} /\ IsFiniteSet(B \ {x})
    BY <1>1
  <2> QED  BY <2>1, FS_AddElement
<1>5. IsFiniteSet(B)
  BY <1>1, <1>2, <1>3, <1>4
<1>6. Cardinality(B) \in Nat
  BY <1>5, FS_CardinalityType
<1>7. CASE x \in B
  BY <1>1, <1>2, <1>4, <1>5, <1>6, <1>7
<1>8. CASE x \notin B
  BY <1>1, <1>3, <1>5, <1>6, <1>8
<1> QED  BY <1>7, <1>8

\* x counts n times.
LEMMA UnitCount ==
    ASSUME NEW x, NEW n \in Nat
    PROVE  IsFiniteSet({x} \X (1 .. n)) /\ Cardinality({x} \X (1 .. n)) = n
<1>1. IsFiniteSet({x}) /\ Cardinality({x}) = 1
  BY FS_Singleton
<1>2. IsFiniteSet(1 .. n) /\ Cardinality(1 .. n) = n
  BY FS_Interval
<1>3. /\ IsFiniteSet({x} \X (1 .. n))
      /\ Cardinality({x} \X (1 .. n)) = Cardinality({x}) * Cardinality(1 .. n)
  BY <1>1, <1>2, FS_Product
<1> QED  BY <1>1, <1>2, <1>3

\* Functions that differ in x at most.
LEMMA TotalOne ==
    ASSUME NEW D, NEW f, NEW g, NEW x \in D,
           DOMAIN f = D, DOMAIN g = D, f[x] \in Nat, g[x] \in Nat,
           \A y \in D \ {x} : g[y] = f[y], IsFiniteSet(Units(f))
    PROVE  /\ IsFiniteSet(Units(g)) /\ Total(f) \in Nat /\ Total(g) \in Nat
           /\ Total(g) = Total(f) - f[x] + g[x]
           /\ Total(f) >= f[x]
<1> DEFINE Rest(h) == UNION {{y} \X (1 .. h[y]) : y \in D \ {x}}
           R == Rest(f)
           X(n) == {x} \X (1 .. n)
<1>1. Units(f) = R \cup X(f[x]) /\ Units(g) = R \cup X(g[x])
  <2>1. ASSUME NEW h, DOMAIN h = D PROVE Units(h) = Rest(h) \cup X(h[x])
    BY <2>1 DEF Units
  <2>2. Rest(g) = R
    <3>1. ASSUME NEW h PROVE \A u : u \in Rest(h) <=> \E y \in D \ {x} : u \in {y} \X (1 .. h[y])
      OBVIOUS
    <3>2. \A u : u \in Rest(g) <=> u \in Rest(f)
      <4> HIDE DEF Rest
      <4> QED  BY <3>1, Zenon
    <3> HIDE DEF Rest
    <3> QED  BY <3>2
  <2>3. Units(f) = Rest(f) \cup X(f[x]) /\ Units(g) = Rest(g) \cup X(g[x])
    <3> HIDE DEF Rest, X
    <3> QED  BY <2>1
  <2> HIDE DEF Rest, X
  <2> QED  BY <2>2, <2>3
<1>2. \A n \in Nat : R \cap X(n) = {}
  OBVIOUS
<1> HIDE DEF R
<1>3. IsFiniteSet(R) /\ Cardinality(R) \in Nat
  <2>1. R \in SUBSET Units(f)
    BY <1>1
  <2> QED  BY <2>1, FS_Subset, FS_CardinalityType
<1>4. ASSUME NEW n \in Nat
      PROVE  IsFiniteSet(R \cup X(n)) /\ Cardinality(R \cup X(n)) = Cardinality(R) + n
  <2>1. IsFiniteSet(X(n)) /\ Cardinality(X(n)) = n
    BY UnitCount
  <2>2. Cardinality(R \cap X(n)) = 0
    BY <1>2, FS_EmptySet
  <2> HIDE DEF X
  <2>3. /\ IsFiniteSet(R \cup X(n))
        /\ Cardinality(R \cup X(n)) = Cardinality(R) + Cardinality(X(n)) - Cardinality(R \cap X(n))
    BY <1>3, <2>1, FS_Union
  <2> QED  BY <1>3, <2>1, <2>2, <2>3
<1>5. /\ IsFiniteSet(Units(g)) /\ Total(g) = Cardinality(R) + g[x]
      /\ Total(f) = Cardinality(R) + f[x]
  BY <1>1, <1>4 DEF Total
<1> QED  BY <1>3, <1>5

\* A function whose values are all 0.
LEMMA TotalZero ==
    ASSUME NEW f, \A x \in DOMAIN f : f[x] = 0
    PROVE  Units(f) = {} /\ IsFiniteSet(Units(f)) /\ Total(f) = 0
<1>1. \A x \in DOMAIN f : {x} \X (1 .. f[x]) = {}
  OBVIOUS
<1>2. Units(f) = {}
  BY <1>1 DEF Units
<1> QED  BY <1>2, FS_EmptySet DEF Total

=============================================================================
