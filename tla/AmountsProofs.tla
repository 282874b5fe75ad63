--------------------------- MODULE AmountsProofs ---------------------------
(***************************************************************************)
(* SumOf is a natural number, is the amount itself on a singleton, adds up *)
(* over disjoint sets, changes as one amount does and does not depend on   *)
(* names.  Sets of numbers have least and greatest members.                *)
(***************************************************************************)
EXTENDS Amounts, FiniteSetTheorems, WellFoundedInduction, TLAPS

\* The units of a finite set of amounts are finite.
LEMMA UnitsFinite ==
    ASSUME NEW S, IsFiniteSet(S), NEW amount \in [S -> Nat]
    PROVE  IsFiniteSet(UNION {Units(x, amount) : x \in S})
<1>1. \A x \in S : IsFiniteSet(Units(x, amount))
  <2>1. TAKE x \in S
  <2>2. IsFiniteSet(1..amount[x])
    BY FS_Interval
  <2>3. IsFiniteSet({x})
    BY FS_Singleton
  <2> QED
    BY <2>2, <2>3, FS_Product DEF Units
<1> DEFINE U == {Units(x, amount) : x \in S}
           f == [x \in S |-> Units(x, amount)]
<1>2. f \in Surjection(S, U)
  BY DEF Surjection
<1>3. IsFiniteSet(U)
  BY <1>2, FS_Surjection
<1>4. \A T \in U : IsFiniteSet(T)
  BY <1>1
<1> HIDE DEF U
<1>5. IsFiniteSet(UNION U)
  BY <1>3, <1>4, FS_UNION
<1> QED
  BY <1>5 DEF U

\* A sum of natural amounts is a natural number.
LEMMA SumNat ==
    ASSUME NEW S, IsFiniteSet(S), NEW amount \in [S -> Nat]
    PROVE  SumOf(S, amount) \in Nat
BY UnitsFinite, FS_CardinalityType DEF SumOf

LEMMA SumEmpty ==
    ASSUME NEW amount
    PROVE  SumOf({}, amount) = 0
<1>1. UNION {Units(x, amount) : x \in {}} = {}
  OBVIOUS
<1> QED
  BY <1>1, FS_EmptySet DEF SumOf

LEMMA SumSingleton ==
    ASSUME NEW x, NEW amount, amount[x] \in Nat
    PROVE  SumOf({x}, amount) = amount[x]
<1> DEFINE n == amount[x]
<1>1. UNION {Units(y, amount) : y \in {x}} = {x} \X (1..n)
  BY DEF Units
<1>2. n \in Nat
  OBVIOUS
<1> HIDE DEF n
<1>3. IsFiniteSet(1..n) /\ Cardinality(1..n) = n
  BY <1>2, FS_Interval
<1>4. IsFiniteSet({x}) /\ Cardinality({x}) = 1
  BY FS_Singleton
<1>5. Cardinality({x} \X (1..n)) = 1 * n
  BY <1>3, <1>4, FS_Product
<1>6. Cardinality(UNION {Units(y, amount) : y \in {x}}) = n
  <2>1. 1 * n = n
    BY <1>2
  <2> QED
    BY <1>1, <1>5, <2>1, Zenon
<1> QED
  BY <1>6, Zenon DEF SumOf, n

\* The sum of a disjoint union is the sum of the sums.
LEMMA SumDisjoint ==
    ASSUME NEW S, NEW T, IsFiniteSet(S), IsFiniteSet(T), S \cap T = {},
           NEW amount, \A x \in S \cup T : amount[x] \in Nat
    PROVE  SumOf(S \cup T, amount) = SumOf(S, amount) + SumOf(T, amount)
<1> DEFINE U(R) == UNION {Units(x, amount) : x \in R}
<1>1. IsFiniteSet(U(S)) /\ IsFiniteSet(U(T))
  <2>1. \A x \in S : Units(x, amount) = Units(x, [y \in S |-> amount[y]])
    BY DEF Units
  <2>2. \A x \in T : Units(x, amount) = Units(x, [y \in T |-> amount[y]])
    BY DEF Units
  <2>3. IsFiniteSet(UNION {Units(x, [y \in S |-> amount[y]]) : x \in S})
    BY UnitsFinite
  <2>4. IsFiniteSet(UNION {Units(x, [y \in T |-> amount[y]]) : x \in T})
    BY UnitsFinite
  <2>5. U(S) = UNION {Units(x, [y \in S |-> amount[y]]) : x \in S}
    BY <2>1
  <2>6. U(T) = UNION {Units(x, [y \in T |-> amount[y]]) : x \in T}
    BY <2>2
  <2> QED
    BY <2>3, <2>4, <2>5, <2>6
<1>2. U(S \cup T) = U(S) \cup U(T)
  OBVIOUS
<1>3. U(S) \cap U(T) = {}
  BY DEF Units
<1> HIDE DEF U
<1>4. Cardinality(U(S) \cup U(T)) = Cardinality(U(S)) + Cardinality(U(T))
  <2> DEFINE A == U(S)
             B == U(T)
  <2>1. IsFiniteSet(A) /\ IsFiniteSet(B) /\ A \cap B = {}
    BY <1>1, <1>3
  <2> HIDE DEF A, B
  <2>2. Cardinality(A \cup B)
          = Cardinality(A) + Cardinality(B) - Cardinality(A \cap B)
    BY <2>1, FS_Union, Zenon
  <2>3. Cardinality(A \cap B) = 0
    BY <2>1, FS_EmptySet, Zenon
  <2>4. Cardinality(A) \in Nat /\ Cardinality(B) \in Nat
    BY <2>1, FS_CardinalityType, Zenon
  <2>5. Cardinality(A \cup B) = Cardinality(A) + Cardinality(B)
    BY <2>2, <2>3, <2>4
  <2> QED
    BY <2>5 DEF A, B
<1> QED
  BY <1>2, <1>4, Zenon DEF SumOf, U

\* Only the amounts of the members count.
LEMMA SumCongruent ==
    ASSUME NEW S, NEW f, NEW g, \A x \in S : f[x] = g[x]
    PROVE  SumOf(S, f) = SumOf(S, g)
<1>1. \A x \in S : Units(x, f) = Units(x, g)
  BY DEF Units
<1>2. {Units(x, f) : x \in S} = {Units(x, g) : x \in S}
  BY <1>1
<1> QED
  BY <1>2 DEF SumOf

LEMMA SumZero ==
    ASSUME NEW S, NEW f, \A x \in S : f[x] = 0
    PROVE  SumOf(S, f) = 0
<1>1. \A x \in S : Units(x, f) = {}
  BY DEF Units
<1>2. UNION {Units(x, f) : x \in S} = {}
  BY <1>1
<1> QED
  BY <1>2, FS_EmptySet DEF SumOf

\* A member's amount and the sum of the rest.
LEMMA SumSplit ==
    ASSUME NEW S, IsFiniteSet(S), NEW x \in S, NEW f, \A y \in S : f[y] \in Nat
    PROVE  /\ SumOf(S, f) = SumOf(S \ {x}, f) + f[x]
           /\ SumOf(S \ {x}, f) \in Nat
<1> DEFINE T == S \ {x}
<1>1. /\ S = T \cup {x} /\ T \cap {x} = {}
      /\ IsFiniteSet(T) /\ IsFiniteSet({x})
  BY FS_Subset, FS_Singleton
<1>2. \A y \in T \cup {x} : f[y] \in Nat
  OBVIOUS
<1>3. SumOf({x}, f) = f[x]
  BY SumSingleton
<1>4. SumOf(T, f) \in Nat
  <2> DEFINE g == [y \in T |-> f[y]]
  <2>1. g \in [T -> Nat]
    OBVIOUS
  <2>2. \A y \in T : f[y] = g[y]
    OBVIOUS
  <2> HIDE DEF g, T
  <2> QED
    BY <1>1, <2>1, <2>2, SumNat, SumCongruent
<1> HIDE DEF T
<1>5. SumOf(T \cup {x}, f) = SumOf(T, f) + SumOf({x}, f)
  BY <1>1, <1>2, SumDisjoint
<1> QED
  BY <1>1, <1>3, <1>4, <1>5 DEF T

\* Changing one amount changes the sum by the same.
LEMMA SumChange ==
    ASSUME NEW S, IsFiniteSet(S), NEW x \in S, NEW f, NEW g,
           \A y \in S : f[y] \in Nat /\ g[y] \in Nat,
           \A y \in S \ {x} : f[y] = g[y]
    PROVE  /\ SumOf(S, g) + f[x] = SumOf(S, f) + g[x]
           /\ SumOf(S, f) \in Nat /\ SumOf(S, g) \in Nat
<1>1. /\ SumOf(S, f) = SumOf(S \ {x}, f) + f[x]
      /\ SumOf(S \ {x}, f) \in Nat
  BY SumSplit
<1>2. /\ SumOf(S, g) = SumOf(S \ {x}, g) + g[x]
      /\ SumOf(S \ {x}, g) \in Nat
  BY SumSplit
<1>3. SumOf(S \ {x}, f) = SumOf(S \ {x}, g)
  BY SumCongruent
<1> QED
  BY <1>1, <1>2, <1>3

\* Renaming the members leaves the sum.
LEMMA SumRenamed ==
    ASSUME NEW S, NEW T, NEW f, NEW g, NEW name \in [S -> T],
           IsFiniteSet(S), f \in [S -> Nat],
           \A x, y \in S : name[x] = name[y] => x = y,
           \A y \in T : \E x \in S : name[x] = y,
           \A x \in S : g[name[x]] = f[x]
    PROVE  SumOf(T, g) = SumOf(S, f)
<1> DEFINE U == UNION {Units(x, f) : x \in S}
           V == UNION {Units(y, g) : y \in T}
           h == [u \in U |-> <<name[u[1]], u[2]>>]
<1>1. \A u \in U : /\ u[1] \in S /\ u[2] \in 1..f[u[1]] /\ u = <<u[1], u[2]>>
                   /\ h[u] = <<name[u[1]], u[2]>>
  BY DEF Units
<1>2. \A v \in V : /\ v[1] \in T /\ v[2] \in 1..g[v[1]] /\ v = <<v[1], v[2]>>
  BY DEF Units
<1>3. \A x \in S : \A n \in 1..f[x] : <<x, n>> \in U
  BY DEF Units
<1>4. \A y \in T : \A n \in 1..g[y] : <<y, n>> \in V
  BY DEF Units
<1>5. DOMAIN h = U
  OBVIOUS
<1>6. IsFiniteSet(U)
  BY UnitsFinite
<1>7. SumOf(S, f) = Cardinality(U) /\ SumOf(T, g) = Cardinality(V)
  BY DEF SumOf
<1>8. h = [u \in U |-> h[u]]
  OBVIOUS
<1> HIDE DEF U, V, h
<1>9. \A u \in U : h[u] \in V
  <2> TAKE u \in U
  <2>1. name[u[1]] \in T /\ u[2] \in 1..g[name[u[1]]]
    BY <1>1
  <2> QED
    BY <1>1, <1>4, <2>1
<1>10. h \in [U -> V]
  BY <1>8, <1>9
<1>11. \A u, w \in U : h[u] = h[w] => u = w
  <2> SUFFICES ASSUME NEW u \in U, NEW w \in U, h[u] = h[w]
               PROVE  u = w
    OBVIOUS
  <2>1. name[u[1]] = name[w[1]] /\ u[2] = w[2]
    BY <1>1
  <2>2. u[1] = w[1]
    BY <1>1, <2>1
  <2> QED
    BY <1>1, <2>1, <2>2
<1>12. \A v \in V : \E u \in U : h[u] = v
  <2> TAKE v \in V
  <2>1. PICK x \in S : name[x] = v[1]
    BY <1>2
  <2>2. v[2] \in 1..f[x]
    BY <1>2, <2>1
  <2>3. <<x, v[2]>> \in U
    BY <1>3, <2>2
  <2>4. h[<<x, v[2]>>] = v
    BY <1>1, <1>2, <2>1, <2>3
  <2> QED
    BY <2>3, <2>4
<1>13. h \in Bijection(U, V)
  BY <1>10, <1>11, <1>12 DEF Bijection, Injection, Surjection, IsInjective
<1>14. Cardinality(V) = Cardinality(U)
  BY <1>6, <1>13, FS_Bijection DEF ExistsBijection
<1> QED
  BY <1>7, <1>14

-----------------------------------------------------------------------------
(* Least and greatest numbers.                                             *)

LEMMA NumbersWellFounded ==
    \E R : /\ IsWellFoundedOn(R, Nat)
           /\ \A x, y \in Nat : x < y => <<x, y>> \in R
<1>1. IsWellFoundedOn({p \in Nat \X Nat : p[1] < p[2]}, Nat)
  BY NatLessThanWellFounded DEF OpToRel
<1>2. \A x, y \in Nat : x < y => <<x, y>> \in {p \in Nat \X Nat : p[1] < p[2]}
  OBVIOUS
<1> QED
  BY <1>1, <1>2, Zenon

\* A set of natural numbers has a least one.
LEMMA LeastNumber ==
    ASSUME NEW S \in SUBSET Nat, S # {}
    PROVE  \E x \in S : \A y \in S : x <= y
<1>1. PICK R : /\ IsWellFoundedOn(R, Nat)
               /\ \A x, y \in Nat : x < y => <<x, y>> \in R
  BY NumbersWellFounded, Zenon
<1>2. \E x \in S : \A y \in S : ~ (<<y, x>> \in R)
  <2>1. IsWellFoundedOn(R, Nat)
    BY <1>1
  <2> QED
    BY <2>1, WFMin
<1>3. \E x \in S : \A y \in S : ~ (y < x)
  BY <1>1, <1>2, Zenon
<1> QED
  BY <1>3

\* A set of numbers that is bounded above has a greatest one.
LEMMA GreatestNumber ==
    ASSUME NEW S \in SUBSET Int, S # {}, NEW b \in Int, \A x \in S : x <= b
    PROVE  \E x \in S : \A y \in S : y <= x
<1> DEFINE T == {b - x : x \in S}
<1>1. T \in SUBSET Nat /\ T # {}
  <2>1. \A x \in S : b - x \in Nat
    OBVIOUS
  <2> QED
    BY <2>1
<1>2. PICK t \in T : \A u \in T : t <= u
  BY <1>1, LeastNumber
<1>3. PICK x \in S : t = b - x
  BY <1>2
<1>4. \A y \in S : b - x <= b - y
  BY <1>2, <1>3
<1> QED
  BY <1>4
=============================================================================
