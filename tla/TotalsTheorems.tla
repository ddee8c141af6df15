--------------------------- MODULE TotalsTheorems ---------------------------
(***************************************************************************)
(* What changing one amount does to a sum: the facts the conservation      *)
(* proofs of the revenue-distribution program rest on.                     *)
(***************************************************************************)
EXTENDS Totals, FiniteSetTheorems, WellFoundedInduction, TLAPS

\* A function that is zero everywhere has no units and sums to zero.
LEMMA TotalZero ==
  ASSUME NEW f, \A x \in DOMAIN f : f[x] = 0
  PROVE  IsFiniteSet(Units(f)) /\ Total(f) = 0
<1>1. \A x \in DOMAIN f : 1..f[x] = {}
  OBVIOUS
<1>2. Units(f) = {}
  BY <1>1 DEF Units
<1> QED
  BY <1>2, FS_EmptySet DEF Total

\* The units owned by one argument: as many as its amount.
LEMMA ColumnCardinality ==
  ASSUME NEW x, NEW n \in Nat
  PROVE  IsFiniteSet({x} \X (1..n)) /\ Cardinality({x} \X (1..n)) = n
<1> DEFINE h == [k \in 1..n |-> <<x, k>>]
<1>1. h \in Bijection(1..n, {x} \X (1..n))
  BY DEF Bijection, Injection, Surjection, IsInjective
<1>2. ExistsBijection(1..n, {x} \X (1..n))
  BY <1>1 DEF ExistsBijection
<1> QED
  BY <1>2, FS_CountingElements, FS_NatBijection

\* Changing the amount of one argument from f[x] to g[x] changes the sum by g[x] - f[x].
LEMMA TotalUpdate ==
  ASSUME NEW f, \A y \in DOMAIN f : f[y] \in Nat, IsFiniteSet(Units(f)),
         NEW x \in DOMAIN f,
         NEW g, DOMAIN g = DOMAIN f, g[x] \in Nat, \A y \in DOMAIN f \ {x} : g[y] = f[y]
  PROVE  /\ IsFiniteSet(Units(g))
         /\ Total(g) = Total(f) - f[x] + g[x]
         /\ Total(f) \in Nat
         /\ Total(f) >= f[x]
<1> DEFINE S == DOMAIN f
           Rest == UNION {{y} \X (1..f[y]) : y \in S \ {x}}
           ColF == {x} \X (1..f[x])
           ColG == {x} \X (1..g[x])
<1>1. Units(f) = Rest \cup ColF
  BY DEF Units
<1>2. Units(g) = Rest \cup ColG
  <2>1. Units(g) = UNION {{y} \X (1..g[y]) : y \in S}
    BY DEF Units
  <2>2. \A y \in S \ {x} : {y} \X (1..g[y]) = {y} \X (1..f[y])
    OBVIOUS
  <2> QED
    BY <2>1, <2>2
<1>3. Rest \cap ColF = {} /\ Rest \cap ColG = {}
  OBVIOUS
<1>4. f[x] \in Nat
  OBVIOUS
<1>5. /\ IsFiniteSet(ColF) /\ Cardinality(ColF) = f[x]
      /\ IsFiniteSet(ColG) /\ Cardinality(ColG) = g[x]
  BY <1>4, ColumnCardinality
<1>6. IsFiniteSet(Rest)
  <2>1. Rest \in SUBSET Units(f)
    BY <1>1
  <2> QED
    BY <2>1, FS_Subset
<1>7. Cardinality(Rest) \in Nat
  BY <1>6, FS_CardinalityType
<1>8. Cardinality(Units(f)) = Cardinality(Rest) + f[x]
  <2>1. Cardinality(Rest \cup ColF) = Cardinality(Rest) + Cardinality(ColF) - Cardinality({})
    <3> HIDE DEF Rest, ColF, ColG
    <3> QED
      BY <1>3, <1>5, <1>6, FS_Union
  <2> QED
    BY <2>1, <1>1, <1>4, <1>5, <1>7, FS_EmptySet
<1>9. IsFiniteSet(Units(g)) /\ Cardinality(Units(g)) = Cardinality(Rest) + g[x]
  <2>1. /\ IsFiniteSet(Rest \cup ColG)
        /\ Cardinality(Rest \cup ColG) = Cardinality(Rest) + Cardinality(ColG) - Cardinality({})
    <3> HIDE DEF Rest, ColF, ColG
    <3> QED
      BY <1>3, <1>5, <1>6, FS_Union
  <2> QED
    BY <2>1, <1>2, <1>5, <1>7, FS_EmptySet
<1> QED
  BY <1>4, <1>7, <1>8, <1>9 DEF Total

\* Adding to one amount adds as much to the sum.
LEMMA TotalIncrease ==
  ASSUME NEW f, \A y \in DOMAIN f : f[y] \in Nat, IsFiniteSet(Units(f)),
         NEW x \in DOMAIN f, NEW a \in Nat,
         NEW g, g = [f EXCEPT ![x] = f[x] + a]
  PROVE  /\ IsFiniteSet(Units(g))
         /\ Total(f) \in Nat
         /\ Total(g) = Total(f) + a
<1>1. f[x] \in Nat /\ g[x] = f[x] + a /\ g[x] \in Nat
  OBVIOUS
<1>2. DOMAIN g = DOMAIN f /\ \A y \in DOMAIN f \ {x} : g[y] = f[y]
  OBVIOUS
<1>3. IsFiniteSet(Units(g)) /\ Total(g) = Total(f) - f[x] + g[x] /\ Total(f) \in Nat
  BY <1>1, <1>2, TotalUpdate
<1> QED
  BY <1>1, <1>3

(***************************************************************************)
(* Sums over sequences, by induction on the length.                        *)
(***************************************************************************)

\* A set of naturals that is not empty has a least element.
LEMMA LeastNatural ==
  ASSUME NEW T \in SUBSET Nat, T # {}
  PROVE  \E n \in T : \A m \in T : n <= m
<1> DEFINE R == OpToRel(<, Nat)
<1>1. IsWellFoundedOn(R, Nat)
  BY NatLessThanWellFounded
<1>2. PICK n \in T : \A m \in T : ~(<<m, n>> \in R)
  BY <1>1, WFMin
<1>3. \A m \in T : m < n => <<m, n>> \in R
  BY DEF OpToRel
<1>4. \A m \in T : ~(m < n)
  BY <1>2, <1>3, Zenon
<1> HIDE DEF R
<1>5. n \in Nat /\ T \subseteq Nat
  BY <1>2
<1> QED
  BY <1>4, <1>5

\* Induction: a set that has 0 and the successor of each of its members has every natural.
LEMMA InductiveSet ==
  ASSUME NEW S \in SUBSET Nat, 0 \in S, \A n \in S : n + 1 \in S
  PROVE  S = Nat
<1> SUFFICES ASSUME Nat \ S # {} PROVE FALSE
  OBVIOUS
<1>1. PICK n \in Nat \ S : \A m \in Nat \ S : n <= m
  BY LeastNatural
<1>2. n # 0 /\ n - 1 \in Nat
  BY <1>1
<1>3. n - 1 \in S
  BY <1>1, <1>2
<1> QED
  BY <1>1, <1>2, <1>3

\* The last amount adds its units to those of the ones before.
LEMMA TotalLast ==
  ASSUME NEW k \in Nat, NEW f \in [1..(k + 1) -> Nat],
         NEW g \in [1..k -> Nat], \A r \in 1..k : g[r] = f[r],
         IsFiniteSet(Units(g))
  PROVE  /\ IsFiniteSet(Units(f))
         /\ Total(g) \in Nat
         /\ Total(f) = Total(g) + f[k + 1]
<1> DEFINE Col == {k + 1} \X (1..f[k + 1])
<1>1. Units(f) = Units(g) \cup Col
  <2>1. 1..(k + 1) = (1..k) \cup {k + 1}
    OBVIOUS
  <2>2. Units(f) = UNION {{r} \X (1..f[r]) : r \in (1..k) \cup {k + 1}}
    BY <2>1 DEF Units
  <2>3. Units(g) = UNION {{r} \X (1..f[r]) : r \in 1..k}
    <3>1. \A r \in 1..k : {r} \X (1..g[r]) = {r} \X (1..f[r])
      OBVIOUS
    <3>2. Units(g) = UNION {{r} \X (1..g[r]) : r \in 1..k}
      BY DEF Units
    <3> QED
      BY <3>1, <3>2
  <2> QED
    BY <2>2, <2>3
<1>2. Units(g) \cap Col = {}
  BY DEF Units
<1>3. f[k + 1] \in Nat
  OBVIOUS
<1>4. IsFiniteSet(Col) /\ Cardinality(Col) = f[k + 1]
  BY <1>3, ColumnCardinality
<1>5. Cardinality(Units(g)) \in Nat
  BY FS_CardinalityType
<1>6. /\ IsFiniteSet(Units(g) \cup Col)
      /\ Cardinality(Units(g) \cup Col)
           = Cardinality(Units(g)) + Cardinality(Col) - Cardinality({})
  BY <1>2, <1>4, FS_Union
<1> QED
  BY <1>1, <1>3, <1>4, <1>5, <1>6, FS_EmptySet DEF Total

\* The amounts of a sequence have finitely many units.
LEMMA TotalFinite ==
  ASSUME NEW n \in Nat, NEW f \in [1..n -> Nat]
  PROVE  IsFiniteSet(Units(f)) /\ Total(f) \in Nat
<1> DEFINE S == {k \in Nat : \A g \in [1..k -> Nat] : IsFiniteSet(Units(g))}
<1>1. 0 \in S
  <2>1. \A g \in [1..0 -> Nat] : \A r \in DOMAIN g : g[r] = 0
    OBVIOUS
  <2> QED
    BY <2>1, TotalZero
<1>2. ASSUME NEW k \in S PROVE k + 1 \in S
  <2> SUFFICES ASSUME NEW g \in [1..(k + 1) -> Nat] PROVE IsFiniteSet(Units(g))
    OBVIOUS
  <2> DEFINE h == [r \in 1..k |-> g[r]]
  <2>1. h \in [1..k -> Nat] /\ \A r \in 1..k : h[r] = g[r]
    OBVIOUS
  <2>2. IsFiniteSet(Units(h))
    BY <2>1
  <2> HIDE DEF h
  <2> QED
    BY <2>1, <2>2, TotalLast
<1>3. S = Nat
  <2> HIDE DEF S
  <2>1. S \in SUBSET Nat
    BY DEF S
  <2> QED
    BY <1>1, <1>2, <2>1, InductiveSet
<1>4. IsFiniteSet(Units(f))
  BY <1>3
<1> QED
  BY <1>4, FS_CardinalityType DEF Total

\* What division leaves: the quotient is a natural number and times the divisor at most
\* the dividend.
LEMMA Quotient ==
  ASSUME NEW a \in Nat, NEW M \in Nat \ {0}
  PROVE  a \div M \in Nat /\ M * (a \div M) <= a
OBVIOUS

\* A quotient is at least every number whose multiple the dividend reaches.
LEMMA QuotientBound ==
  ASSUME NEW a \in Nat, NEW M \in Nat \ {0}, NEW q \in Nat, q * M <= a
  PROVE  q <= a \div M
OBVIOUS

\* Rounding every part of x down never makes the parts exceed x together: with the parts
\* f[r] of a whole M, the sum of the quotients f[r] * x \div M times M is at most x times
\* the sum of the parts.
LEMMA TotalOfQuotients ==
  ASSUME NEW n \in Nat, NEW f \in [1..n -> Nat], NEW x \in Nat, NEW M \in Nat \ {0}
  PROVE  M * Total([r \in 1..n |-> (f[r] * x) \div M]) <= Total(f) * x
<1> DEFINE Quotients(k, g) == [r \in 1..k |-> (g[r] * x) \div M]
           S == {k \in Nat : \A g \in [1..k -> Nat] :
                    M * Total(Quotients(k, g)) <= Total(g) * x}
<1>1. ASSUME NEW k \in Nat, NEW g \in [1..k -> Nat]
      PROVE  Quotients(k, g) \in [1..k -> Nat]
  <2>1. ASSUME NEW r \in 1..k PROVE (g[r] * x) \div M \in Nat
    <3>1. g[r] * x \in Nat
      OBVIOUS
    <3> QED
      BY <3>1, Quotient
  <2> QED
    BY <2>1
<1>2. ASSUME NEW g \in [1..0 -> Nat] PROVE M * Total(Quotients(0, g)) <= Total(g) * x
  <2>1. Total(g) = 0
    BY TotalZero
  <2>2. Total(Quotients(0, g)) = 0
    BY TotalZero
  <2> QED
    BY <2>1, <2>2
<1>3. ASSUME NEW k \in Nat, NEW g \in [1..(k + 1) -> Nat],
             \A h \in [1..k -> Nat] : M * Total(Quotients(k, h)) <= Total(h) * x
      PROVE  M * Total(Quotients(k + 1, g)) <= Total(g) * x
  <2> DEFINE h == [r \in 1..k |-> g[r]]
             q == (g[k + 1] * x) \div M
             Qk == Quotients(k, h)
             Qn == Quotients(k + 1, g)
  <2>1. h \in [1..k -> Nat] /\ \A r \in 1..k : h[r] = g[r]
    OBVIOUS
  <2>2. M * Total(Qk) <= Total(h) * x
    BY <1>3, <2>1
  <2>3. Total(h) \in Nat /\ Total(g) = Total(h) + g[k + 1]
    <3> HIDE DEF h
    <3> QED
      BY <2>1, TotalFinite, TotalLast
  <2>4. Qk \in [1..k -> Nat] /\ Qn \in [1..(k + 1) -> Nat]
    <3>1. k + 1 \in Nat
      OBVIOUS
    <3> HIDE DEF Quotients, h
    <3> QED
      BY <1>1, <2>1, <3>1
  <2>5. Qn[k + 1] = q
    OBVIOUS
  <2>6. \A r \in 1..k : Qk[r] = Qn[r]
    OBVIOUS
  <2>7. Total(Qk) \in Nat /\ Total(Qn) = Total(Qk) + q
    <3> HIDE DEF Qk, Qn, q, h
    <3> QED
      BY <2>4, <2>5, <2>6, TotalFinite, TotalLast
  <2>8. q \in Nat /\ M * q <= g[k + 1] * x
    <3>1. g[k + 1] * x \in Nat
      OBVIOUS
    <3> QED
      BY <3>1, Quotient
  <2> HIDE DEF Qk, Qn, h, q
  <2>9. g[k + 1] \in Nat
    OBVIOUS
  <2>10. M * (Total(Qk) + q) = M * Total(Qk) + M * q
    BY <2>7, <2>8
  <2>11. (Total(h) + g[k + 1]) * x = Total(h) * x + g[k + 1] * x
    BY <2>3, <2>9
  <2>12. /\ M * Total(Qk) \in Int /\ M * q \in Int
         /\ Total(h) * x \in Int /\ g[k + 1] * x \in Int
    BY <2>3, <2>7, <2>8, <2>9
  <2>13. M * Total(Qn) <= Total(g) * x
    <3>1. M * Total(Qn) = M * Total(Qk) + M * q
      BY <2>7, <2>10, Zenon
    <3>2. Total(g) * x = Total(h) * x + g[k + 1] * x
      BY <2>3, <2>11, Zenon
    <3> DEFINE a == M * Total(Qk)
               b == M * q
               c == Total(h) * x
               d == g[k + 1] * x
    <3>3. /\ a <= c /\ b <= d
          /\ a \in Int /\ b \in Int /\ c \in Int /\ d \in Int
      BY <2>2, <2>8, <2>12
    <3>4. M * Total(Qn) = a + b /\ Total(g) * x = c + d
      BY <3>1, <3>2
    <3> HIDE DEF a, b, c, d
    <3>5. a + b <= c + d
      BY <3>3
    <3> QED
      BY <3>4, <3>5, Zenon
  <2> QED
    BY <2>13 DEF Qn
<1> HIDE DEF Quotients
<1>4. 0 \in S
  BY <1>2
<1>5. ASSUME NEW k \in S PROVE k + 1 \in S
  <2>1. k + 1 \in Nat
    OBVIOUS
  <2> QED
    BY <1>3, <2>1
<1>6. S = Nat
  <2> HIDE DEF S
  <2>1. S \in SUBSET Nat
    BY DEF S
  <2> QED
    BY <1>4, <1>5, <2>1, InductiveSet
<1>7. M * Total(Quotients(n, f)) <= Total(f) * x
  BY <1>6
<1> QED
  BY <1>7 DEF Quotients

(***************************************************************************)
(* Sums over other arguments: one more, a part of them, renamed, and the   *)
(* sum of two functions.                                                   *)
(***************************************************************************)

\* A unit is an argument with a number up to the argument's amount.
LEMMA UnitsMember ==
  ASSUME NEW f, NEW u
  PROVE  u \in Units(f) <=> \E x \in DOMAIN f : \E k \in 1..f[x] : u = <<x, k>>
  BY DEF Units

\* A function on fewer arguments has fewer units.
LEMMA UnitsOfPart ==
  ASSUME NEW f, NEW g, DOMAIN g \subseteq DOMAIN f, \A x \in DOMAIN g : g[x] = f[x]
  PROVE  Units(g) \in SUBSET Units(f)
  BY UnitsMember

\* Two disjoint finite sets.
LEMMA DisjointUnion ==
  ASSUME NEW S, NEW T, IsFiniteSet(S), IsFiniteSet(T), S \cap T = {}
  PROVE  /\ IsFiniteSet(S \cup T)
         /\ Cardinality(S) \in Nat /\ Cardinality(T) \in Nat
         /\ Cardinality(S \cup T) = Cardinality(S) + Cardinality(T)
<1>1. /\ IsFiniteSet(S \cup T)
      /\ Cardinality(S \cup T) = Cardinality(S) + Cardinality(T) - Cardinality(S \cap T)
  BY FS_Union
<1>2. Cardinality(S \cap T) = 0
  BY FS_EmptySet
<1>3. Cardinality(S) \in Nat /\ Cardinality(T) \in Nat
  BY FS_CardinalityType
<1> QED
  BY <1>1, <1>2, <1>3

\* One more argument adds its amount to the sum.
LEMMA TotalExtend ==
  ASSUME NEW f, IsFiniteSet(Units(f)), NEW x, x \notin DOMAIN f,
         NEW g, DOMAIN g = DOMAIN f \cup {x}, g[x] \in Nat, \A y \in DOMAIN f : g[y] = f[y]
  PROVE  /\ IsFiniteSet(Units(g))
         /\ Total(f) \in Nat
         /\ Total(g) = Total(f) + g[x]
<1> DEFINE Column == {x} \X (1..g[x])
<1>1. Units(g) = Units(f) \cup Column
  <2>1. Units(g) = UNION {{y} \X (1..g[y]) : y \in DOMAIN f \cup {x}}
    BY DEF Units
  <2>2. \A y \in DOMAIN f : {y} \X (1..g[y]) = {y} \X (1..f[y])
    OBVIOUS
  <2> QED
    BY <2>1, <2>2 DEF Units
<1>2. Units(f) \cap Column = {}
  BY DEF Units
<1>3. IsFiniteSet(Column) /\ Cardinality(Column) = g[x]
  BY ColumnCardinality
<1> HIDE DEF Column
<1>4. /\ IsFiniteSet(Units(f) \cup Column)
      /\ Cardinality(Units(f)) \in Nat
      /\ Cardinality(Units(f) \cup Column) = Cardinality(Units(f)) + Cardinality(Column)
  BY <1>2, <1>3, DisjointUnion
<1> QED
  BY <1>1, <1>3, <1>4 DEF Total

\* The amounts of some of the arguments of f.
Part(f, A) == [x \in A |-> f[x]]

\* The sums over two disjoint parts of the arguments are together at most the sum, and
\* exactly the sum when the parts are all the arguments.
LEMMA TotalParts ==
  ASSUME NEW f, IsFiniteSet(Units(f)),
         NEW A \in SUBSET DOMAIN f, NEW B \in SUBSET DOMAIN f, A \cap B = {}
  PROVE  /\ IsFiniteSet(Units(Part(f, A))) /\ Total(Part(f, A)) \in Nat
         /\ IsFiniteSet(Units(Part(f, B))) /\ Total(Part(f, B)) \in Nat
         /\ Total(f) \in Nat
         /\ Total(Part(f, A)) + Total(Part(f, B)) <= Total(f)
         /\ A \cup B = DOMAIN f => Total(Part(f, A)) + Total(Part(f, B)) = Total(f)
<1>1. PICK g, h : g = Part(f, A) /\ h = Part(f, B)
  OBVIOUS
<1>2. /\ DOMAIN g = A /\ \A x \in A : g[x] = f[x]
      /\ DOMAIN h = B /\ \A x \in B : h[x] = f[x]
  BY <1>1 DEF Part
<1>3. Units(g) \in SUBSET Units(f) /\ Units(h) \in SUBSET Units(f)
  BY <1>2, UnitsOfPart
<1>4. Units(g) \cap Units(h) = {}
  BY <1>2, UnitsMember
<1>5. A \cup B = DOMAIN f => Units(g) \cup Units(h) = Units(f)
  <2> SUFFICES ASSUME A \cup B = DOMAIN f PROVE Units(f) \subseteq Units(g) \cup Units(h)
    BY <1>3
  <2> QED
    BY <1>2, UnitsMember
<1>6. IsFiniteSet(Units(g)) /\ IsFiniteSet(Units(h))
  BY <1>3, FS_Subset
<1>7. /\ Total(g) \in Nat /\ Total(h) \in Nat
      /\ Cardinality(Units(g) \cup Units(h)) = Total(g) + Total(h)
  BY <1>4, <1>6, DisjointUnion DEF Total
<1>8. Total(f) \in Nat
  BY FS_CardinalityType DEF Total
<1>9. Units(g) \cup Units(h) \in SUBSET Units(f)
  BY <1>3
<1>10. Cardinality(Units(g) \cup Units(h)) <= Total(f)
  BY <1>9, FS_Subset DEF Total
<1>11. A \cup B = DOMAIN f => Total(g) + Total(h) = Total(f)
  BY <1>5, <1>7 DEF Total
<1> QED
  BY <1>1, <1>6, <1>7, <1>8, <1>10, <1>11

\* Renaming the arguments one to one does not change the sum.
LEMMA TotalRenamed ==
  ASSUME NEW f, NEW g, IsFiniteSet(Units(f)), NEW h,
         h \in Bijection(DOMAIN f, DOMAIN g), \A x \in DOMAIN f : f[x] = g[h[x]]
  PROVE  IsFiniteSet(Units(g)) /\ Total(g) = Total(f)
<1> DEFINE H == [u \in Units(f) |-> <<h[u[1]], u[2]>>]
<1>1. /\ \A x \in DOMAIN f : h[x] \in DOMAIN g
      /\ \A x, y \in DOMAIN f : h[x] = h[y] => x = y
      /\ \A y \in DOMAIN g : \E x \in DOMAIN f : h[x] = y
  BY DEF Bijection, Injection, Surjection, IsInjective
<1>2. \A u \in Units(f) : u[1] \in DOMAIN f /\ u[2] \in 1..f[u[1]] /\ u = <<u[1], u[2]>>
  BY UnitsMember
<1>3. H \in [Units(f) -> Units(g)]
  <2>1. ASSUME NEW u \in Units(f) PROVE <<h[u[1]], u[2]>> \in Units(g)
    BY <1>1, <1>2, UnitsMember
  <2> QED
    BY <2>1
<1>4. \A u, v \in Units(f) : H[u] = H[v] => u = v
  <2>1. ASSUME NEW u \in Units(f), NEW v \in Units(f), H[u] = H[v] PROVE u = v
    <3>1. h[u[1]] = h[v[1]] /\ u[2] = v[2]
      BY <2>1
    <3> QED
      BY <1>1, <1>2, <3>1
  <2> QED
    BY <2>1
<1>5. \A w \in Units(g) : \E u \in Units(f) : H[u] = w
  <2>1. ASSUME NEW w \in Units(g) PROVE \E u \in Units(f) : H[u] = w
    <3>1. PICK y \in DOMAIN g : \E k \in 1..g[y] : w = <<y, k>>
      BY UnitsMember
    <3>2. PICK k \in 1..g[y] : w = <<y, k>>
      BY <3>1
    <3>3. PICK x \in DOMAIN f : h[x] = y
      BY <1>1
    <3>4. <<x, k>> \in Units(f)
      BY <3>2, <3>3, UnitsMember
    <3>5. H[<<x, k>>] = w
      BY <3>2, <3>3, <3>4
    <3> QED
      BY <3>4, <3>5
  <2> QED
    BY <2>1
<1>6. H \in Bijection(Units(f), Units(g))
  BY <1>3, <1>4, <1>5 DEF Bijection, Injection, Surjection, IsInjective
<1>7. ExistsBijection(Units(f), Units(g))
  BY <1>6 DEF ExistsBijection
<1> QED
  BY <1>7, FS_Bijection DEF Total

\* The sum of two functions sums to the sum of their sums.
LEMMA TotalSum ==
  ASSUME NEW S, NEW f \in [S -> Nat], NEW g \in [S -> Nat],
         IsFiniteSet(Units(f)), IsFiniteSet(Units(g)),
         NEW h, h = [x \in S |-> f[x] + g[x]]
  PROVE  /\ IsFiniteSet(Units(h))
         /\ Total(f) \in Nat /\ Total(g) \in Nat
         /\ Total(h) = Total(f) + Total(g)
<1> DEFINE H == [u \in Units(g) |-> <<u[1], f[u[1]] + u[2]>>]
           Upper == {H[u] : u \in Units(g)}
<1>1. \A u \in Units(g) : u[1] \in S /\ u[2] \in 1..g[u[1]] /\ u = <<u[1], u[2]>>
  BY UnitsMember
<1>2. \A u, v \in Units(g) : H[u] = H[v] => u = v
  <2>1. ASSUME NEW u \in Units(g), NEW v \in Units(g), H[u] = H[v] PROVE u = v
    <3>1. u[1] = v[1] /\ f[u[1]] + u[2] = f[v[1]] + v[2]
      BY <2>1
    <3>2. u[2] \in Nat /\ v[2] \in Nat /\ f[u[1]] \in Nat
      BY <1>1
    <3>3. PICK a \in Nat, b \in Nat, c \in Nat : a = f[u[1]] /\ b = u[2] /\ c = v[2]
      BY <3>2
    <3>4. a + b = a + c
      BY <3>1, <3>3
    <3>5. u[2] = v[2]
      BY <3>3, <3>4
    <3> QED
      BY <1>1, <3>1, <3>5
  <2> QED
    BY <2>1
<1>3. H \in Bijection(Units(g), Upper)
  BY <1>2 DEF Bijection, Injection, Surjection, IsInjective
<1>4. ExistsBijection(Units(g), Upper)
  BY <1>3 DEF ExistsBijection
<1>5. IsFiniteSet(Upper) /\ Cardinality(Upper) = Cardinality(Units(g))
  <2> HIDE DEF Upper
  <2> QED
    BY <1>4, FS_Bijection
<1>6. Units(f) \cap Upper = {}
  <2>1. ASSUME NEW u \in Units(g) PROVE H[u] \notin Units(f)
    <3>1. f[u[1]] \in Nat /\ u[2] \in Nat \ {0}
      BY <1>1
    <3>2. ~(f[u[1]] + u[2] \in 1..f[u[1]])
      BY <3>1
    <3> QED
      BY <3>2, UnitsMember
  <2> QED
    BY <2>1
<1>7. Units(h) = Units(f) \cup Upper
  <2>1. ASSUME NEW x \in S, NEW k \in 1..h[x] PROVE <<x, k>> \in Units(f) \cup Upper
    <3>1. f[x] \in Nat /\ g[x] \in Nat /\ h[x] = f[x] + g[x] /\ k \in Nat
      OBVIOUS
    <3>2. CASE k <= f[x]
      BY <3>1, <3>2, UnitsMember
    <3>3. CASE k > f[x]
      <4>1. k - f[x] \in 1..g[x]
        BY <3>1, <3>3
      <4>2. <<x, k - f[x]>> \in Units(g)
        BY <4>1, UnitsMember
      <4>3. H[<<x, k - f[x]>>] = <<x, k>>
        BY <3>1, <4>2
      <4> QED
        BY <4>2, <4>3
    <3> QED
      BY <3>1, <3>2, <3>3
  <2>2. Units(h) \subseteq Units(f) \cup Upper
    BY <2>1, UnitsMember
  <2>3. Units(f) \subseteq Units(h)
    <3>1. \A x \in S : 1..f[x] \subseteq 1..h[x]
      OBVIOUS
    <3> QED
      BY <3>1, UnitsMember
  <2>4. ASSUME NEW u \in Units(g) PROVE H[u] \in Units(h)
    <3>1. u[1] \in S /\ f[u[1]] + u[2] \in 1..h[u[1]]
      BY <1>1
    <3> QED
      BY <3>1, UnitsMember
  <2> QED
    BY <2>2, <2>3, <2>4
<1> HIDE DEF Upper
<1> QED
  BY <1>5, <1>6, <1>7, DisjointUnion DEF Total

\* The amounts of the leaves with the indices S, which start at 0, and their positions in
\* the sequence.
Indexed(f, S) == [i \in S |-> f[i + 1]]
Positions(S) == {i + 1 : i \in S}

\* A sum over leaf indices is a sum over the positions of the leaves.
LEMMA IndexedTotal ==
  ASSUME NEW n \in Nat, NEW f \in [1..n -> Nat], NEW S \in SUBSET (0..(n - 1))
  PROVE  /\ Positions(S) \in SUBSET (1..n)
         /\ IsFiniteSet(Units(Indexed(f, S))) /\ Total(Indexed(f, S)) \in Nat
         /\ Total(Indexed(f, S)) = Total(Part(f, Positions(S)))
<1>1. PICK A, g, h : A = Positions(S) /\ g = Indexed(f, S) /\ h = Part(f, A)
  OBVIOUS
<1>2. A \in SUBSET (1..n) /\ \A x \in 1..n : x \in A <=> x - 1 \in S
  BY <1>1 DEF Positions
<1>3. /\ DOMAIN g = S /\ \A i \in S : g[i] = f[i + 1]
      /\ DOMAIN h = A /\ \A x \in A : h[x] = f[x]
  BY <1>1 DEF Indexed, Part
<1>4. IsFiniteSet(Units(f)) /\ DOMAIN f = 1..n
  BY TotalFinite
<1>5. IsFiniteSet(Units(h))
  <2>1. DOMAIN h \subseteq DOMAIN f /\ \A x \in DOMAIN h : h[x] = f[x]
    BY <1>2, <1>3, <1>4
  <2>2. Units(h) \in SUBSET Units(f)
    BY <2>1, UnitsOfPart
  <2> QED
    BY <1>4, <2>2, FS_Subset
<1>6. PICK r : r = [x \in A |-> x - 1]
  OBVIOUS
<1>7. r \in Bijection(DOMAIN h, DOMAIN g)
  <2>1. \A x \in A : x - 1 \in S /\ x \in Int /\ r[x] = x - 1
    BY <1>2, <1>6
  <2>2. \A i \in S : i + 1 \in A /\ (i + 1) - 1 = i
    BY <1>2
  <2>3. r \in [A -> S]
    BY <1>6, <2>1
  <2>4. \A x, y \in A : r[x] = r[y] => x = y
    BY <2>1
  <2>5. \A i \in S : \E x \in A : r[x] = i
    BY <2>1, <2>2
  <2> QED
    BY <1>3, <2>3, <2>4, <2>5 DEF Bijection, Injection, Surjection, IsInjective
<1>8. \A x \in DOMAIN h : h[x] = g[r[x]]
  <2>1. \A x \in A : x - 1 \in S /\ (x - 1) + 1 = x /\ r[x] = x - 1
    BY <1>2, <1>6
  <2>2. ASSUME NEW x \in A PROVE g[r[x]] = f[x]
    <3>1. PICK i \in S : i = r[x] /\ i + 1 = x
      BY <2>1
    <3> QED
      BY <1>3, <3>1
  <2>3. DOMAIN h = A /\ \A x \in A : h[x] = f[x]
    BY <1>3
  <2> QED
    BY <2>2, <2>3
<1>9. IsFiniteSet(Units(g)) /\ Total(g) = Total(h)
  BY <1>5, <1>7, <1>8, TotalRenamed
<1>10. Total(g) \in Nat
  BY <1>9, FS_CardinalityType DEF Total
<1> QED
  BY <1>1, <1>2, <1>9, <1>10

\* Disjoint sets of leaf indices have at most the sum of all leaves together, and all of it
\* when every leaf is in one of them.
LEMMA IndexedParts ==
  ASSUME NEW n \in Nat, NEW f \in [1..n -> Nat],
         NEW S \in SUBSET (0..(n - 1)), NEW T \in SUBSET (0..(n - 1)), S \cap T = {}
  PROVE  /\ Total(Indexed(f, S)) \in Nat /\ Total(Indexed(f, T)) \in Nat /\ Total(f) \in Nat
         /\ Total(Indexed(f, S)) + Total(Indexed(f, T)) <= Total(f)
         /\ S \cup T = 0..(n - 1) => Total(Indexed(f, S)) + Total(Indexed(f, T)) = Total(f)
<1>1. PICK A \in SUBSET (1..n), B \in SUBSET (1..n) : A = Positions(S) /\ B = Positions(T)
  BY IndexedTotal
<1>2. /\ Total(Indexed(f, S)) = Total(Part(f, A)) /\ Total(Indexed(f, T)) = Total(Part(f, B))
  BY <1>1, IndexedTotal
<1>3. A \cap B = {}
  BY <1>1 DEF Positions
<1>4. S \cup T = 0..(n - 1) => A \cup B = 1..n
  <2> SUFFICES ASSUME S \cup T = 0..(n - 1), NEW x \in 1..n PROVE x \in A \cup B
    OBVIOUS
  <2>1. x - 1 \in S \cup T /\ (x - 1) + 1 = x
    OBVIOUS
  <2> QED
    BY <1>1, <2>1 DEF Positions
<1>5. IsFiniteSet(Units(f)) /\ DOMAIN f = 1..n
  BY TotalFinite
<1>6. /\ Total(Part(f, A)) \in Nat /\ Total(Part(f, B)) \in Nat /\ Total(f) \in Nat
      /\ Total(Part(f, A)) + Total(Part(f, B)) <= Total(f)
      /\ A \cup B = 1..n => Total(Part(f, A)) + Total(Part(f, B)) = Total(f)
  BY <1>3, <1>5, TotalParts
<1> QED
  BY <1>2, <1>4, <1>6

\* One more leaf adds its amount.
LEMMA IndexedExtend ==
  ASSUME NEW n \in Nat, NEW f \in [1..n -> Nat], NEW S \in SUBSET (0..(n - 1)),
         NEW i \in 0..(n - 1), i \notin S
  PROVE  /\ Total(Indexed(f, S \cup {i})) = Total(Indexed(f, S)) + f[i + 1]
         /\ f[i + 1] \in Nat
<1>1. PICK g, h : g = Indexed(f, S) /\ h = Indexed(f, S \cup {i})
  OBVIOUS
<1>2. /\ DOMAIN g = S /\ DOMAIN h = S \cup {i} /\ h[i] = f[i + 1]
      /\ \A y \in S : h[y] = g[y]
  BY <1>1 DEF Indexed
<1>3. f[i + 1] \in Nat
  <2>1. i + 1 \in 1..n
    OBVIOUS
  <2> QED
    BY <2>1
<1>4. IsFiniteSet(Units(g))
  BY <1>1, IndexedTotal
<1>5. Total(h) = Total(g) + h[i]
  BY <1>2, <1>3, <1>4, TotalExtend
<1> QED
  BY <1>1, <1>2, <1>3, <1>5

\* No leaves add up to nothing.
LEMMA IndexedNone ==
  ASSUME NEW f
  PROVE  Total(Indexed(f, {})) = 0
  BY TotalZero DEF Indexed
==============================================================================
