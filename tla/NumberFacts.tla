---------------------------- MODULE NumberFacts ----------------------------
(***************************************************************************)
(* What the other proofs need to know of numbers: a set of them has a      *)
(* least one and, up to a bound, a greatest one; induction over a set of   *)
(* numbers; sums.                                                          *)
(***************************************************************************)
EXTENDS Integers, WellFoundedInduction, FiniteSetTheorems, TLAPS

(* A set of numbers that is not empty has a least one.                     *)
LEMMA Least ==
  ASSUME NEW T \in SUBSET Nat, T # {}
  PROVE  \E x \in T : \A y \in T : x <= y
<1>1. IsWellFoundedOn(OpToRel(<, Nat), Nat)
  BY NatLessThanWellFounded
<1>2. PICK x \in T : \A y \in T : ~ (<<y, x>> \in OpToRel(<, Nat))
  BY <1>1, WFMin
<1>3. ASSUME NEW y \in T
      PROVE  x <= y
  <2>1. <<y, x>> \in Nat \X Nat /\ (y < x => <<y, x>> \in OpToRel(<, Nat))
    BY DEF OpToRel
  <2>2. ~(y < x)
    BY <1>2, <2>1
  <2>3. x \in Nat /\ y \in Nat
    OBVIOUS
  <2>4. QED
    BY <2>2, <2>3
<1>4. QED
  BY <1>3

(* A set of numbers up to n that is not empty has a greatest one.          *)
LEMMA Greatest ==
  ASSUME NEW n \in Nat, NEW T \in SUBSET (1..n), T # {}
  PROVE  \E x \in T : \A y \in T : y <= x
<1> DEFINE S == {z \in Nat : n - z \in T}
<1>1. \A x \in T : x \in Nat /\ n - x \in Nat /\ n - (n - x) = x
  OBVIOUS
<1>2. S \in SUBSET Nat /\ \A x \in T : n - x \in S
  BY <1>1
<1>3. S # {}
  BY <1>2
<1>4. PICK z \in S : \A y \in S : z <= y
  BY <1>2, <1>3, Least
<1>5. n - z \in T /\ z \in Nat /\ \A y \in T : z <= n - y
  BY <1>2, <1>4
<1> HIDE DEF S
<1>6. \A y \in T : y <= n - z
  BY <1>1, <1>5
<1>7. QED
  BY <1>5, <1>6

(* A set of numbers that has 0 and every successor of its members up to m  *)
(* has every number up to m.                                               *)
LEMMA Induction ==
  ASSUME NEW m \in Nat, NEW P, 0 \in P, \A n \in 0..m : n \in P /\ n < m => n + 1 \in P
  PROVE  0..m \subseteq P
<1> DEFINE T == {n \in 0..m : n \notin P}
<1> SUFFICES ASSUME T # {} PROVE FALSE
  OBVIOUS
<1>1. T \in SUBSET Nat
  OBVIOUS
<1>2. PICK x \in T : \A y \in T : x <= y
  BY <1>1, Least
<1>3. x \in 1..m /\ x - 1 \in 0..m /\ x - 1 \notin T
  BY <1>2
<1>4. x - 1 \in P /\ x - 1 < m
  BY <1>3
<1>5. (x - 1) + 1 = x /\ (x - 1) + 1 \in P
  BY <1>3, <1>4
<1>6. QED
  BY <1>2, <1>5
-----------------------------------------------------------------------------
(* The sum of a function into the numbers.  SumFunction is a fold, defined  *)
(* by recursion on sets; here it is shown to count a set, which is what the *)
(* other facts about sums follow from.                                      *)

Pick(T) == CHOOSE x \in T : TRUE

(* The recursion that SumFunction is defined by.                            *)
Adds(f, S, sum) ==
  sum = [T \in SUBSET S |-> IF T = {} THEN 0 ELSE f[Pick(T)] + sum[T \ {Pick(T)}]]

(* f[x] units for each x of T.                                              *)
Column(f, x) == {x} \X (1..f[x])
Units(f, T)  == {p \in T \X Nat : p[2] \in 1..f[p[1]]}

LEMMA ColumnCounts ==
  ASSUME NEW S, NEW f \in [S -> Nat], NEW x \in S
  PROVE  IsFiniteSet(Column(f, x)) /\ Cardinality(Column(f, x)) = f[x]
<1>1. f[x] \in Nat
  OBVIOUS
<1>2. IsFiniteSet(1..f[x]) /\ Cardinality(1..f[x]) = f[x]
  BY <1>1, FS_Interval
<1>3. IsFiniteSet({x}) /\ Cardinality({x}) = 1
  BY FS_Singleton
<1>4. /\ IsFiniteSet({x} \X (1..f[x]))
      /\ Cardinality({x} \X (1..f[x])) = Cardinality({x}) * Cardinality(1..f[x])
  BY <1>2, <1>3, FS_Product
<1>5. Cardinality({x}) * Cardinality(1..f[x]) = f[x]
  BY <1>1, <1>2, <1>3
<1>6. QED
  BY <1>4, <1>5 DEF Column

LEMMA UnitsFinite ==
  ASSUME NEW S, IsFiniteSet(S), NEW f \in [S -> Nat], NEW T \in SUBSET S
  PROVE  IsFiniteSet(Units(f, T)) /\ Cardinality(Units(f, T)) \in Nat
<1> DEFINE columns == {Column(f, x) : x \in S}
           column  == [x \in S |-> Column(f, x)]
<1>1. column \in Surjection(S, columns)
  BY DEF Surjection
<1>2. IsFiniteSet(columns)
  <2> HIDE DEF column, columns
  <2>1. QED
    BY <1>1, FS_Surjection
<1>3. IsFiniteSet(UNION columns)
  <2>1. \A C \in columns : IsFiniteSet(C)
    BY ColumnCounts
  <2> HIDE DEF columns
  <2>2. QED
    BY <1>2, <2>1, FS_UNION
<1>4. Units(f, T) \subseteq UNION columns
  BY DEF Units, Column
<1>5. IsFiniteSet(Units(f, T))
  <2> HIDE DEF columns
  <2>1. QED
    BY <1>3, <1>4, FS_Subset
<1>6. QED
  BY <1>5, FS_CardinalityType

LEMMA UnitsSplit ==
  ASSUME NEW S, IsFiniteSet(S), NEW f \in [S -> Nat], NEW T \in SUBSET S, NEW x \in T
  PROVE  Cardinality(Units(f, T)) = f[x] + Cardinality(Units(f, T \ {x}))
<1> DEFINE rest == Units(f, T \ {x})
<1>1. Units(f, T) = rest \cup Column(f, x) /\ rest \cap Column(f, x) = {}
  BY DEF Units, Column
<1>2. IsFiniteSet(rest) /\ Cardinality(rest) \in Nat
  BY UnitsFinite
<1>3. IsFiniteSet(Column(f, x)) /\ Cardinality(Column(f, x)) = f[x] /\ f[x] \in Nat
  BY ColumnCounts
<1>4. Cardinality(rest \cap Column(f, x)) = 0
  BY <1>1, FS_EmptySet
<1> HIDE DEF rest
<1>5. Cardinality(rest \cup Column(f, x)) = Cardinality(rest) + f[x] - 0
  BY <1>2, <1>3, <1>4, FS_Union
<1>6. QED
  BY <1>1, <1>2, <1>3, <1>5 DEF rest

LEMMA UnitsNone ==
  ASSUME NEW f
  PROVE  Cardinality(Units(f, {})) = 0
<1>1. Units(f, {}) = {}
  BY DEF Units
<1>2. QED
  BY <1>1, FS_EmptySet

LEMMA UnitsAdd ==
  ASSUME NEW S, IsFiniteSet(S), NEW f \in [S -> Nat]
  PROVE  Adds(f, S, [T \in SUBSET S |-> Cardinality(Units(f, T))])
<1> DEFINE sum == [T \in SUBSET S |-> Cardinality(Units(f, T))]
<1>1. ASSUME NEW T \in SUBSET S
      PROVE  sum[T] = IF T = {} THEN 0 ELSE f[Pick(T)] + sum[T \ {Pick(T)}]
  <2>1. CASE T = {}
    BY <2>1, UnitsNone
  <2>2. CASE T # {}
    <3>1. Pick(T) \in T /\ T \ {Pick(T)} \in SUBSET S
      BY <2>2 DEF Pick
    <3>2. Cardinality(Units(f, T)) = f[Pick(T)] + Cardinality(Units(f, T \ {Pick(T)}))
      BY <3>1, UnitsSplit
    <3>3. QED
      BY <2>2, <3>1, <3>2
  <2>3. QED
    BY <2>1, <2>2
<1>2. sum = [T \in SUBSET S |-> sum[T]]
  OBVIOUS
<1> HIDE DEF sum
<1>3. sum = [T \in SUBSET S |-> IF T = {} THEN 0 ELSE f[Pick(T)] + sum[T \ {Pick(T)}]]
  BY <1>1, <1>2
<1>4. QED
  BY <1>3 DEF Adds, sum

(* There is no other function that the recursion defines.                   *)
LEMMA AddsUnits ==
  ASSUME NEW S, IsFiniteSet(S), NEW f \in [S -> Nat], NEW sum, Adds(f, S, sum)
  PROVE  sum[S] = Cardinality(Units(f, S))
<1> DEFINE P == {n \in Nat : \A T \in SUBSET S :
                   Cardinality(T) = n => sum[T] = Cardinality(Units(f, T))}
           m == Cardinality(S)
<1>1. m \in Nat /\ \A T \in SUBSET S : IsFiniteSet(T)
  BY FS_CardinalityType, FS_Subset
<1>2. 0 \in P
  <2>1. ASSUME NEW T \in SUBSET S, Cardinality(T) = 0
        PROVE  sum[T] = Cardinality(Units(f, T))
    <3>1. T = {}
      BY <1>1, <2>1, FS_EmptySet
    <3>2. QED
      BY <3>1, UnitsNone DEF Adds
  <2>2. QED
    BY <2>1
<1>3. ASSUME NEW n \in 0..m, n \in P, n < m
      PROVE  n + 1 \in P
  <2>1. ASSUME NEW T \in SUBSET S, Cardinality(T) = n + 1
        PROVE  sum[T] = Cardinality(Units(f, T))
    <3> DEFINE x == Pick(T)
               rest == T \ {x}
    <3>1. T # {}
      BY <1>1, <2>1, FS_EmptySet
    <3>2. x \in T /\ rest \in SUBSET S
      BY <3>1 DEF Pick
    <3>3. Cardinality(rest) = n
      <4>1. Cardinality(T \ {x}) = Cardinality(T) - 1
        BY <1>1, <3>2, FS_RemoveElement
      <4>2. QED
        BY <2>1, <4>1
    <3>4. sum[rest] = Cardinality(Units(f, rest))
      BY <1>3, <3>2, <3>3
    <3>5. sum[T] = f[x] + sum[rest]
      BY <3>1 DEF Adds
    <3>6. QED
      BY <3>2, <3>4, <3>5, UnitsSplit
  <2>2. QED
    BY <1>3, <2>1
<1>4. 0..m \subseteq P
  <2> HIDE DEF P, m
  <2>1. QED
    BY <1>1, <1>2, <1>3, Induction
<1>5. QED
  BY <1>1, <1>4

(* A sum counts units.                                                      *)
LEMMA SumIs ==
  ASSUME NEW S, IsFiniteSet(S), NEW f \in [S -> Nat]
  PROVE  SumFunction(f) = Cardinality(Units(f, S))
<1> DEFINE sum == CHOOSE g : Adds(f, S, g)
<1>1. Adds(f, S, sum)
  <2>1. \E g : Adds(f, S, g)
    BY UnitsAdd
  <2>2. QED
    BY <2>1
<1>2. SumFunction(f) = SumFunctionOnSet(f, S)
  BY DEF SumFunction
<1>3. SumFunctionOnSet(f, S) = sum[S]
  BY DEF SumFunctionOnSet, FoldFunctionOnSet, MapThenFoldSet, Pick, Adds
<1> HIDE DEF sum
<1>4. QED
  BY <1>1, <1>2, <1>3, AddsUnits

LEMMA SumType ==
  ASSUME NEW S, IsFiniteSet(S), NEW f \in [S -> Nat]
  PROVE  SumFunction(f) \in Nat
  BY SumIs, UnitsFinite

LEMMA SumOfZeros ==
  ASSUME NEW S, IsFiniteSet(S), NEW f \in [S -> Nat], \A x \in S : f[x] = 0
  PROVE  SumFunction(f) = 0
<1>1. Units(f, S) = {}
  BY DEF Units
<1>2. QED
  BY <1>1, SumIs, FS_EmptySet

(* A sum grows as much as one of the numbers does.                          *)
LEMMA SumGrows ==
  ASSUME NEW S, IsFiniteSet(S), NEW f \in [S -> Nat], NEW g \in [S -> Nat], NEW x \in S,
         \A y \in S \ {x} : g[y] = f[y]
  PROVE  SumFunction(g) - SumFunction(f) = g[x] - f[x]
<1> DEFINE rest == Cardinality(Units(f, S \ {x}))
<1>1. SumFunction(f) = f[x] + rest
  BY SumIs, UnitsSplit
<1>2. Units(g, S \ {x}) = Units(f, S \ {x})
  BY DEF Units
<1>3. SumFunction(g) = g[x] + rest
  BY <1>2, SumIs, UnitsSplit
<1>4. rest \in Nat /\ f[x] \in Nat /\ g[x] \in Nat
  BY UnitsFinite
<1> HIDE DEF rest
<1>5. QED
  BY <1>1, <1>3, <1>4

LEMMA SumMonotone ==
  ASSUME NEW S, IsFiniteSet(S), NEW f \in [S -> Nat], NEW g \in [S -> Nat],
         \A x \in S : f[x] <= g[x]
  PROVE  SumFunction(f) <= SumFunction(g)
<1>1. Units(f, S) \subseteq Units(g, S)
  BY DEF Units
<1>2. IsFiniteSet(Units(g, S))
  BY UnitsFinite
<1>3. QED
  BY <1>1, <1>2, SumIs, FS_Subset

(* One element more or less.                                               *)
LEMMA OneMoves ==
  ASSUME NEW A, IsFiniteSet(A), NEW B, NEW e, B \ {e} = A \ {e}
  PROVE  /\ IsFiniteSet(B) /\ Cardinality(A) \in Nat /\ Cardinality(B) \in Nat
         /\ (e \in A <=> e \in B) => Cardinality(B) = Cardinality(A)
         /\ e \notin A /\ e \in B => Cardinality(B) = Cardinality(A) + 1
         /\ e \in A /\ e \notin B => Cardinality(B) = Cardinality(A) - 1
<1> DEFINE C == A \ {e}
<1>1. IsFiniteSet(C) /\ Cardinality(C) \in Nat
  BY FS_Subset, FS_CardinalityType
<1>2. IsFiniteSet(C \cup {e}) /\ Cardinality(C \cup {e}) = Cardinality(C) + 1
  BY <1>1, FS_AddElement
<1>3. (e \in A => A = C \cup {e}) /\ (e \notin A => A = C)
  OBVIOUS
<1>4. (e \in B => B = C \cup {e}) /\ (e \notin B => B = C)
  OBVIOUS
<1> HIDE DEF C
<1>5. ASSUME e \in A
      PROVE  Cardinality(A) = Cardinality(C) + 1
  BY <1>2, <1>3, <1>5, Zenon
<1>6. ASSUME e \notin A
      PROVE  Cardinality(A) = Cardinality(C)
  BY <1>3, <1>6, Zenon
<1>7. ASSUME e \in B
      PROVE  Cardinality(B) = Cardinality(C) + 1
  BY <1>2, <1>4, <1>7, Zenon
<1>8. ASSUME e \notin B
      PROVE  Cardinality(B) = Cardinality(C)
  BY <1>4, <1>8, Zenon
<1>9. IsFiniteSet(B)
  BY <1>1, <1>2, <1>4, Zenon
<1> DEFINE a == Cardinality(A)
           b == Cardinality(B)
           c == Cardinality(C)
           inA == e \in A
           inB == e \in B
<1>10. /\ c \in Nat /\ (inA => a = c + 1) /\ (~inA => a = c)
       /\ (inB => b = c + 1) /\ (~inB => b = c)
  BY <1>1, <1>5, <1>6, <1>7, <1>8
<1> HIDE DEF a, b, c, inA, inB
<1>11. /\ a \in Nat /\ b \in Nat /\ ((inA <=> inB) => b = a)
       /\ (~inA /\ inB => b = a + 1) /\ (inA /\ ~inB => b = a - 1)
  BY <1>10
<1>12. QED
  BY <1>9, <1>11 DEF a, b, inA, inB
=============================================================================
