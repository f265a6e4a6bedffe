---------------------------- MODULE TotalsProofs ----------------------------
(***************************************************************************)
(* What the proofs about balances need to know of Total: it is a natural   *)
(* number, zero exactly for the all-zero family, at least each of its      *)
(* terms, and changes by the difference when one term changes.             *)
(***************************************************************************)
EXTENDS BondParties, Integers, FiniteSetTheorems, TLAPS

\* The units of one amount: as many as the amount.
LEMMA UnitsOfOne ==
  ASSUME NEW x, NEW n \in Nat
  PROVE  /\ IsFiniteSet({x} \X (1..n))
         /\ Cardinality({x} \X (1..n)) = n
<1>1. IsFiniteSet(1..n) /\ Cardinality(1..n) = n
  BY FS_Interval
<1>2. IsFiniteSet({x}) /\ Cardinality({x}) = 1
  BY FS_Singleton
<1>3. /\ IsFiniteSet({x} \X (1..n))
      /\ Cardinality({x} \X (1..n)) = Cardinality({x}) * Cardinality(1..n)
  BY <1>1, <1>2, FS_Product, Zenon
<1>4. 1 * n = n
  OBVIOUS
<1>. QED  BY <1>1, <1>2, <1>3, <1>4, Zenon

\* A finite family of amounts has finitely many units.
LEMMA UnitsFinite ==
  ASSUME NEW S, IsFiniteSet(S), NEW f \in [S -> Nat]
  PROVE  IsFiniteSet(Units(f))
<1> DEFINE Part == {{x} \X (1..f[x]) : x \in S}
           g == [x \in S |-> {x} \X (1..f[x])]
<1>1. g \in Surjection(S, Part)
  BY Zenon DEF Surjection
<1>2. IsFiniteSet(Part)
  BY <1>1, FS_Surjection
<1>3. ASSUME NEW T \in Part
      PROVE  IsFiniteSet(T)
  <2>1. PICK x \in S : T = {x} \X (1..f[x])
    OBVIOUS
  <2>2. f[x] \in Nat
    OBVIOUS
  <2>. QED  BY <2>1, <2>2, UnitsOfOne, Zenon
<1>4. IsFiniteSet(UNION Part)
  BY <1>2, <1>3, FS_UNION, Zenon
<1>. QED  BY <1>4 DEF Units

\* A sum of natural numbers is a natural number.
LEMMA TotalType ==
  ASSUME NEW S, IsFiniteSet(S), NEW f \in [S -> Nat]
  PROVE  Total(f) \in Nat
BY UnitsFinite, FS_CardinalityType DEF Total

\* Changing one term changes the sum by the difference.
LEMMA TotalUpdate ==
  ASSUME NEW S, IsFiniteSet(S), NEW f \in [S -> Nat], NEW t \in S, NEW v \in Nat
  PROVE  Total([f EXCEPT ![t] = v]) = Total(f) - f[t] + v
<1> DEFINE g == [f EXCEPT ![t] = v]
           Rest == UNION {{x} \X (1..f[x]) : x \in S \ {t}}
<1>1. /\ Units(f) = Rest \cup ({t} \X (1..f[t]))
      /\ Rest \cap ({t} \X (1..f[t])) = {}
  BY DEF Units
<1>2. \A x \in S \ {t} : g[x] = f[x]
  OBVIOUS
<1>3. g[t] = v /\ g \in [S -> Nat]
  OBVIOUS
<1>4. /\ Units(g) = Rest \cup ({t} \X (1..v))
      /\ Rest \cap ({t} \X (1..v)) = {}
  BY <1>2, <1>3 DEF Units
<1> HIDE DEF g, Rest
<1>5. IsFiniteSet(Rest)
  BY <1>1, UnitsFinite, FS_Subset
<1>6. Cardinality(Units(f)) = Cardinality(Rest) + f[t]
  <2>1. Cardinality(Rest \cup ({t} \X (1..f[t]))) =
          Cardinality(Rest) + Cardinality({t} \X (1..f[t]))
            - Cardinality(Rest \cap ({t} \X (1..f[t])))
    BY <1>5, UnitsOfOne, FS_Union, Zenon
  <2>2. Cardinality({t} \X (1..f[t])) = f[t]
    BY UnitsOfOne, Zenon
  <2>3. Cardinality(Rest \cap ({t} \X (1..f[t]))) = 0
    BY <1>1, FS_EmptySet
  <2>4. Cardinality(Rest) \in Nat
    BY <1>5, FS_CardinalityType
  <2>. QED  BY <2>1, <2>2, <2>3, <2>4, <1>1
<1>7. Cardinality(Units(g)) = Cardinality(Rest) + v
  <2>1. Cardinality(Rest \cup ({t} \X (1..v))) =
          Cardinality(Rest) + Cardinality({t} \X (1..v))
            - Cardinality(Rest \cap ({t} \X (1..v)))
    BY <1>5, UnitsOfOne, FS_Union, Zenon
  <2>2. Cardinality({t} \X (1..v)) = v
    BY UnitsOfOne, Zenon
  <2>3. Cardinality(Rest \cap ({t} \X (1..v))) = 0
    BY <1>4, FS_EmptySet
  <2>4. Cardinality(Rest) \in Nat
    BY <1>5, FS_CardinalityType
  <2>. QED  BY <2>1, <2>2, <2>3, <2>4, <1>4
<1>8. Cardinality(Rest) \in Nat
  BY <1>5, FS_CardinalityType
<1>. QED  BY <1>6, <1>7, <1>8 DEF Total, g

\* Two families that differ in one term only: their sums differ as the terms do.
LEMMA TotalChange ==
  ASSUME NEW S, IsFiniteSet(S), NEW f \in [S -> Nat], NEW g \in [S -> Nat], NEW t \in S,
         \A u \in S \ {t} : g[u] = f[u]
  PROVE  Total(g) = Total(f) - f[t] + g[t]
<1>1. g = [f EXCEPT ![t] = g[t]]
  OBVIOUS
<1>2. g[t] \in Nat
  OBVIOUS
<1>3. Total([f EXCEPT ![t] = g[t]]) = Total(f) - f[t] + g[t]
  BY <1>2, TotalUpdate, Zenon
<1>. QED  BY <1>1, <1>3, Zenon

\* Nothing owed sums to nothing.
LEMMA TotalZero ==
  ASSUME NEW S, NEW f \in [S -> Nat], \A x \in S : f[x] = 0
  PROVE  Total(f) = 0
<1>1. Units(f) = {}
  BY DEF Units
<1>. QED  BY <1>1, FS_EmptySet DEF Total

\* A sum is at least each of its terms.
LEMMA TotalAtLeast ==
  ASSUME NEW S, IsFiniteSet(S), NEW f \in [S -> Nat], NEW t \in S
  PROVE  f[t] <= Total(f)
<1>1. {t} \X (1..f[t]) \in SUBSET Units(f)
  BY DEF Units
<1>2. Cardinality({t} \X (1..f[t])) <= Cardinality(Units(f))
  BY <1>1, UnitsFinite, FS_Subset
<1>. QED  BY <1>2, UnitsOfOne, Zenon DEF Total

=============================================================================
