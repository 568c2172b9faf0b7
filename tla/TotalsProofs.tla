---------------------------- MODULE TotalsProofs ----------------------------
(***************************************************************************)
(* How a sum changes with one of its summands.  Total counts units, so     *)
(* that the facts about cardinalities apply and no induction is needed.    *)
(***************************************************************************)
EXTENDS Totals, Integers, FiniteSetTheorems, TLAPS

\* A unit of f belongs to a member of the domain and has a number.
LEMMA UnitOf ==
    ASSUME NEW f, NEW u
    PROVE  u \in units(f) <=> \E x \in DOMAIN f : \E n \in 1..f[x] : u = <<x, n>>
BY DEF units

\* What one member owns.
LEMMA Column ==
    ASSUME NEW x, NEW n \in Nat
    PROVE  IsFiniteSet({x} \X (1..n)) /\ Cardinality({x} \X (1..n)) = n
<1>1. IsFiniteSet({x}) /\ Cardinality({x}) = 1
  BY FS_Singleton
<1>2. IsFiniteSet(1..n) /\ Cardinality(1..n) = n
  BY FS_Interval
<1>3. /\ IsFiniteSet({x} \X (1..n))
      /\ Cardinality({x} \X (1..n)) = Cardinality({x}) * Cardinality(1..n)
  BY <1>1, <1>2, FS_Product
<1> QED BY <1>1, <1>2, <1>3

\* A function on a finite set has finitely many units.
LEMMA UnitsFinite ==
    ASSUME NEW D, IsFiniteSet(D), NEW f \in [D -> Nat]
    PROVE  IsFiniteSet(units(f)) /\ Total(f) \in Nat
<1>1. \A x \in D : IsFiniteSet({x} \X (1..f[x]))
  BY Column
<1> DEFINE g == [x \in D |-> {x} \X (1..f[x])]
           C == {g[x] : x \in D}
<1>2. IsFiniteSet(C)
  <2>1. g \in Surjection(D, C)
    BY DEF Surjection
  <2> QED BY <2>1, FS_Surjection
<1>3. \A c \in C : IsFiniteSet(c)
  BY <1>1
<1>4. units(f) = UNION C
  BY DEF units
<1>5. IsFiniteSet(units(f))
  BY <1>2, <1>3, <1>4, FS_UNION
<1> QED BY <1>5, FS_CardinalityType DEF Total

\* A sum is one summand and the sum of the others.
LEMMA TotalSplit ==
    ASSUME NEW D, IsFiniteSet(D), NEW f \in [D -> Nat], NEW x \in D
    PROVE  Total(f) = f[x] + Total([y \in D \ {x} |-> f[y]])
<1> DEFINE g == [y \in D \ {x} |-> f[y]]
           own == {x} \X (1..f[x])
<1>1. IsFiniteSet(D \ {x}) /\ g \in [D \ {x} -> Nat]
  BY FS_RemoveElement
<1>2. IsFiniteSet(units(g)) /\ Total(g) \in Nat
  BY <1>1, UnitsFinite
<1>3. IsFiniteSet(own) /\ Cardinality(own) = f[x]
  BY Column
<1>4. units(f) = units(g) \cup own
  <2>1. \A u : u \in units(f) <=> u \in units(g) \/ u \in own
    BY UnitOf
  <2> QED BY <2>1
<1>5. units(g) \cap own = {}
  <2>1. \A u \in units(g) : u \notin own
    BY UnitOf
  <2> QED BY <2>1
<1> HIDE DEF g, own
<1>6. Cardinality(units(f)) = Cardinality(units(g)) + Cardinality(own) - Cardinality({})
  <2>1. Cardinality(units(g) \cup own) =
          Cardinality(units(g)) + Cardinality(own) - Cardinality(units(g) \cap own)
    BY <1>2, <1>3, FS_Union
  <2> QED BY <2>1, <1>4, <1>5
<1>7. Cardinality({}) = 0 /\ Cardinality(units(g)) \in Nat /\ f[x] \in Nat
  BY <1>2, FS_EmptySet DEF Total
<1>8. Total(f) = f[x] + Total(g)
  BY <1>3, <1>6, <1>7 DEF Total
<1> QED BY <1>8 DEF g

\* From f to g the sum changes by as much as the summand at x.
Shifted(f, g, x) == Total(f) \in Nat /\ Total(g) \in Nat /\ Total(g) + f[x] = Total(f) + g[x]

\* When one summand changes the sum changes by as much.
LEMMA OneChanges ==
    ASSUME NEW D, IsFiniteSet(D), NEW f \in [D -> Nat], NEW g \in [D -> Nat], NEW x \in D,
           \A y \in D \ {x} : g[y] = f[y]
    PROVE  Shifted(f, g, x)
<1> DEFINE rest == [y \in D \ {x} |-> f[y]]
<1>1. rest = [y \in D \ {x} |-> g[y]]
  OBVIOUS
<1>2. IsFiniteSet(D \ {x}) /\ rest \in [D \ {x} -> Nat]
  BY FS_RemoveElement
<1>3. Total(rest) \in Nat
  BY <1>2, UnitsFinite
<1>4. Total(f) = f[x] + Total(rest)
  BY TotalSplit
<1>5. Total(g) = g[x] + Total(rest)
  BY <1>1, TotalSplit
<1>6. f[x] \in Nat /\ g[x] \in Nat
  OBVIOUS
<1> HIDE DEF rest
<1> QED BY <1>3, <1>4, <1>5, <1>6 DEF Shifted

\* A new summand adds itself.
LEMMA OneJoins ==
    ASSUME NEW D, IsFiniteSet(D), NEW x, x \notin D, NEW f \in [D -> Nat],
           NEW g \in [D \cup {x} -> Nat], \A y \in D : g[y] = f[y]
    PROVE  Total(f) \in Nat /\ Total(g) = Total(f) + g[x]
<1>1. IsFiniteSet(D \cup {x}) /\ (D \cup {x}) \ {x} = D
  BY FS_AddElement
<1>2. Total(g) = g[x] + Total([y \in (D \cup {x}) \ {x} |-> g[y]])
  BY <1>1, TotalSplit
<1>3. [y \in (D \cup {x}) \ {x} |-> g[y]] = f
  BY <1>1
<1>4. Total(f) \in Nat /\ g[x] \in Nat
  BY UnitsFinite
<1> QED BY <1>2, <1>3, <1>4

\* Nothing sums to nothing.
LEMMA NoneTotal ==
    ASSUME NEW f, \A x \in DOMAIN f : f[x] = 0
    PROVE  Total(f) = 0
<1>1. units(f) = {}
  <2>1. \A u : u \notin units(f)
    BY UnitOf
  <2> QED BY <2>1
<1> QED BY <1>1, FS_EmptySet DEF Total

\* A summand does not exceed the sum.
LEMMA SummandBound ==
    ASSUME NEW D, IsFiniteSet(D), NEW f \in [D -> Nat], NEW x \in D
    PROVE  f[x] <= Total(f)
<1>1. IsFiniteSet(D \ {x}) /\ [y \in D \ {x} |-> f[y]] \in [D \ {x} -> Nat]
  BY FS_RemoveElement
<1>2. Total([y \in D \ {x} |-> f[y]]) \in Nat /\ f[x] \in Nat
  BY <1>1, UnitsFinite
<1> QED BY <1>2, TotalSplit
=============================================================================
