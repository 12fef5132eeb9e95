----------------------------- MODULE SumTheorems -----------------------------
(***************************************************************************)
(* What a sum over a finite set of natural numbers is made of.             *)
(***************************************************************************)
EXTENDS Sums, Integers, FiniteSetTheorems, TLAPS

\* A sum of natural numbers over a finite set is one.
LEMMA TotalNat ==
    ASSUME NEW S, IsFiniteSet(S), NEW f, \A x \in S : f[x] \in Nat
    PROVE  IsFiniteSet(Units(f, S)) /\ Total(f, S) \in Nat
<1> DEFINE all == {{x} \X (1 .. f[x]) : x \in S}
           row == [x \in S |-> {x} \X (1 .. f[x])]
<1>1. IsFiniteSet(all)
  <2>1. row \in Surjection(S, all)
    BY DEF Surjection
  <2>2. QED BY <2>1, FS_Surjection
<1>2. \A T \in all : IsFiniteSet(T)
  <2>1. ASSUME NEW x \in S PROVE IsFiniteSet({x} \X (1 .. f[x]))
    <3>1. IsFiniteSet({x}) /\ IsFiniteSet(1 .. f[x])
      <4>1. f[x] \in Int /\ 1 \in Int
        OBVIOUS
      <4>2. QED BY <4>1, FS_Singleton, FS_Interval
    <3>2. QED BY <3>1, FS_Product
  <2>2. QED BY <2>1
<1>3. IsFiniteSet(UNION all)
  BY <1>1, <1>2, FS_UNION
<1>4. QED BY <1>3, FS_CardinalityType DEF Units, Total

\* One more summand.
LEMMA TotalAdd ==
    ASSUME NEW S, IsFiniteSet(S), NEW f, NEW y, y \notin S, \A x \in S \union {y} : f[x] \in Nat
    PROVE  Total(f, S \union {y}) = Total(f, S) + f[y]
<1> DEFINE one == {y} \X (1 .. f[y])
<1>1. f[y] \in Nat
  OBVIOUS
<1>2. IsFiniteSet(one) /\ Cardinality(one) = f[y]
  <2>1. f[y] \in Int /\ 1 \in Int
    BY <1>1
  <2>2. IsFiniteSet(1 .. f[y]) /\ Cardinality(1 .. f[y]) = IF 1 > f[y] THEN 0 ELSE f[y] - 1 + 1
    BY <2>1, FS_Interval
  <2>3. Cardinality(1 .. f[y]) = f[y]
    BY <1>1, <2>2
  <2>4. IsFiniteSet({y}) /\ Cardinality({y}) = 1
    BY FS_Singleton
  <2>5. IsFiniteSet(one) /\ Cardinality(one) = Cardinality({y}) * Cardinality(1 .. f[y])
    BY <2>2, <2>4, FS_Product
  <2>6. 1 * f[y] = f[y]
    BY <1>1
  <2>7. Cardinality(one) = 1 * f[y]
    BY <2>3, <2>4, <2>5
  <2>8. QED BY <2>5, <2>6, <2>7
<1>3. Units(f, S \union {y}) = Units(f, S) \union one
  BY DEF Units
<1>4. Units(f, S) \intersect one = {}
  BY DEF Units
<1>5. IsFiniteSet(Units(f, S)) /\ Total(f, S) \in Nat
  BY TotalNat
<1>6. Cardinality(Units(f, S) \union one) = Cardinality(Units(f, S)) + Cardinality(one) - Cardinality({})
  BY <1>2, <1>4, <1>5, FS_Union
<1>7. Cardinality({}) = 0
  BY FS_EmptySet
<1> HIDE DEF one
<1>8. Cardinality(Units(f, S)) \in Nat /\ Cardinality(one) \in Nat
  BY <1>1, <1>2, <1>5 DEF Total
<1>9. Cardinality(Units(f, S) \union one) = Cardinality(Units(f, S)) + Cardinality(one)
  BY <1>6, <1>7, <1>8
<1>10. QED BY <1>2, <1>3, <1>9 DEF Total

\* No summands.
LEMMA TotalNone == ASSUME NEW f PROVE Total(f, {}) = 0
<1>1. Units(f, {}) = {}
  BY DEF Units
<1>2. QED BY <1>1, FS_EmptySet DEF Total

\* Equal summands.
LEMMA TotalSame ==
    ASSUME NEW S, NEW f, NEW g, \A x \in S : f[x] = g[x]
    PROVE  Total(f, S) = Total(g, S)
<1>1. Units(f, S) = Units(g, S)
  BY DEF Units
<1>2. QED BY <1>1 DEF Total

\* Fewer summands.
LEMMA TotalPart ==
    ASSUME NEW S, IsFiniteSet(S), NEW f, \A x \in S : f[x] \in Nat, NEW T \in SUBSET S
    PROVE  Total(f, T) <= Total(f, S)
<1>1. Units(f, T) \subseteq Units(f, S)
  BY DEF Units
<1>2. IsFiniteSet(Units(f, S))
  BY TotalNat
<1>3. QED BY <1>1, <1>2, FS_Subset DEF Total

\* Summands under other names.
LEMMA TotalImage ==
    ASSUME NEW S, IsFiniteSet(S), NEW T, NEW h \in Bijection(S, T),
           NEW f, NEW g, \A x \in S : f[x] \in Nat /\ g[h[x]] = f[x]
    PROVE  Total(g, T) = Total(f, S)
<1>0. /\ \A x \in S : h[x] \in T
      /\ \A y \in T : \E x \in S : y = h[x]
      /\ \A x, y \in S : h[x] = h[y] => x = y
  BY DEF Bijection, Injection, Surjection, IsInjective
<1> DEFINE name == [u \in Units(f, S) |-> <<h[u[1]], u[2]>>]
<1>1. \A u \in Units(f, S) : u[1] \in S /\ u[2] \in 1 .. f[u[1]] /\ u = <<u[1], u[2]>>
  BY DEF Units
<1>2. name \in [Units(f, S) -> Units(g, T)]
  <2>1. ASSUME NEW u \in Units(f, S) PROVE <<h[u[1]], u[2]>> \in Units(g, T)
    <3>1. h[u[1]] \in T /\ u[2] \in 1 .. g[h[u[1]]]
      BY <1>0, <1>1
    <3>2. QED BY <3>1 DEF Units
  <2>2. QED BY <2>1
<1>3. \A u, v \in Units(f, S) : name[u] = name[v] => u = v
  <2>1. ASSUME NEW u \in Units(f, S), NEW v \in Units(f, S), name[u] = name[v] PROVE u = v
    <3>1. h[u[1]] = h[v[1]] /\ u[2] = v[2]
      BY <2>1
    <3>2. u[1] = v[1]
      BY <1>0, <1>1, <3>1
    <3>3. QED BY <1>1, <3>1, <3>2
  <2>2. QED BY <2>1
<1>4. \A v \in Units(g, T) : \E u \in Units(f, S) : name[u] = v
  <2>1. ASSUME NEW v \in Units(g, T) PROVE \E u \in Units(f, S) : name[u] = v
    <3>1. PICK y \in T : v \in {y} \X (1 .. g[y])
      BY DEF Units
    <3>2. PICK x \in S : y = h[x]
      BY <1>0
    <3>3. v = <<h[x], v[2]>> /\ v[2] \in 1 .. f[x]
      BY <3>1, <3>2
    <3>4. <<x, v[2]>> \in Units(f, S)
      BY <3>3 DEF Units
    <3>5. name[<<x, v[2]>>] = v
      BY <3>3, <3>4
    <3>6. QED BY <3>4, <3>5
  <2>2. QED BY <2>1
<1>5. name \in Bijection(Units(f, S), Units(g, T))
  <2>0. DOMAIN name = Units(f, S)
    OBVIOUS
  <2> HIDE DEF name
  <2>1. name \in Injection(Units(f, S), Units(g, T))
    BY <1>2, <1>3, <2>0 DEF Injection, IsInjective
  <2>2. name \in Surjection(Units(f, S), Units(g, T))
    BY <1>2, <1>4 DEF Surjection
  <2>3. QED BY <2>1, <2>2 DEF Bijection
<1>6. ExistsBijection(Units(f, S), Units(g, T))
  BY <1>5 DEF ExistsBijection
<1>7. IsFiniteSet(Units(f, S))
  BY TotalNat
<1>8. QED BY <1>6, <1>7, FS_Bijection DEF Total

\* Summands counted from the next index on.
LEMMA TotalShift ==
    ASSUME NEW S, S \subseteq Int, IsFiniteSet(S), NEW f, NEW g, \A x \in S : f[x] \in Nat /\ g[x + 1] = f[x]
    PROVE  Total(g, {x + 1 : x \in S}) = Total(f, S)
<1> DEFINE h == [x \in S |-> x + 1]
           T == {x + 1 : x \in S}
<1>1. \A x \in S : h[x] = x + 1
  OBVIOUS
<1>2. \A x, y \in S : h[x] = h[y] => x = y
  <2>1. ASSUME NEW x \in S, NEW y \in S, x + 1 = y + 1 PROVE x = y
    <3>1. x \in Int /\ y \in Int
      OBVIOUS
    <3>2. QED BY <2>1, <3>1
  <2>2. QED BY <1>1, <2>1
<1>3. h \in [S -> T] /\ \A y \in T : \E x \in S : y = h[x]
  BY <1>1
<1>4. \A x \in S : f[x] \in Nat /\ g[h[x]] = f[x]
  BY <1>1
<1> HIDE DEF h, T
<1>5. h \in Bijection(S, T)
  BY <1>2, <1>3 DEF Bijection, Injection, Surjection, IsInjective
<1>6. Total(g, T) = Total(f, S)
  BY ONLY IsFiniteSet(S), <1>4, <1>5, TotalImage
<1>7. QED BY <1>6 DEF T
\* A sum of sums: parts of a whole that have nothing in common.
LEMMA TotalOfParts ==
    ASSUME NEW S, IsFiniteSet(S), NEW T, IsFiniteSet(T), NEW g, \A y \in T : g[y] \in Nat,
           NEW part, \A x \in S : part[x] \in SUBSET T,
           \A x, y \in S : part[x] \cap part[y] # {} => x = y,
           NEW f, \A x \in S : f[x] = Total(g, part[x])
    PROVE  Total(f, S) <= Total(g, T)
<1> DEFINE slots(x) == Units(g, part[x])
           at == [x \in S |-> CHOOSE b : b \in Bijection(1 .. f[x], slots(x))]
           name == [u \in Units(f, S) |-> at[u[1]][u[2]]]
<1>1. \A x \in S : IsFiniteSet(part[x]) /\ \A y \in part[x] : g[y] \in Nat
  BY FS_Subset
<1>2. \A x \in S : IsFiniteSet(slots(x)) /\ f[x] \in Nat /\ f[x] = Cardinality(slots(x))
  BY <1>1, TotalNat DEF Total
<1>3. \A x \in S : at[x] \in Bijection(1 .. f[x], slots(x))
  <2> SUFFICES ASSUME NEW x \in S PROVE \E b : b \in Bijection(1 .. f[x], slots(x))
    OBVIOUS
  <2>1. ExistsBijection(1 .. Cardinality(slots(x)), slots(x))
    BY <1>2, FS_CardinalityType
  <2>2. QED BY <1>2, <2>1 DEF ExistsBijection
<1>4. \A x \in S : /\ \A i \in 1 .. f[x] : at[x][i] \in slots(x)
                   /\ \A i, j \in 1 .. f[x] : at[x][i] = at[x][j] => i = j
  <2> SUFFICES ASSUME NEW x \in S
               PROVE  /\ \A i \in 1 .. f[x] : at[x][i] \in slots(x)
                      /\ \A i, j \in 1 .. f[x] : at[x][i] = at[x][j] => i = j
    OBVIOUS
  <2>1. PICK b \in Bijection(1 .. f[x], slots(x)) : b = at[x]
    BY <1>3
  <2>2. b \in [1 .. f[x] -> slots(x)] /\ \A i, j \in 1 .. f[x] : b[i] = b[j] => i = j
    <3> HIDE DEF slots, at
    <3>1. QED BY DEF Bijection, Injection, IsInjective
  <2>3. QED BY <2>1, <2>2
<1>5. \A u \in Units(f, S) : u[1] \in S /\ u[2] \in 1 .. f[u[1]] /\ u = <<u[1], u[2]>>
  BY DEF Units
<1>6. \A x \in S : \A u \in slots(x) : u[1] \in part[x] /\ u \in Units(g, T)
  BY DEF Units
<1> HIDE DEF slots, at
<1>7. \A u \in Units(f, S) : name[u] \in slots(u[1]) /\ name[u] \in Units(g, T)
  BY <1>4, <1>5, <1>6
<1>8. ASSUME NEW u \in Units(f, S), NEW v \in Units(f, S), name[u] = name[v] PROVE u = v
  <2>1. name[u][1] \in part[u[1]] \cap part[v[1]]
    BY <1>5, <1>6, <1>7, <1>8
  <2>2. u[1] = v[1]
    BY <1>5, <2>1
  <2>3. u[2] = v[2]
    BY <1>4, <1>5, <1>8, <2>2
  <2>4. QED BY <1>5, <2>2, <2>3
<1>9. name \in Injection(Units(f, S), Units(g, T))
  <2>1. name \in [Units(f, S) -> Units(g, T)]
    BY <1>7
  <2>2. QED BY <1>8, <2>1 DEF Injection, IsInjective
<1>10. IsFiniteSet(Units(g, T))
  BY TotalNat
<1>11. QED BY <1>9, <1>10, FS_Injection DEF Total

\* Summands that are at least one and at most k.
LEMMA TotalBetween ==
    ASSUME NEW S, IsFiniteSet(S), NEW k \in Nat, NEW f, \A x \in S : f[x] \in 1 .. k
    PROVE  Cardinality(S) <= Total(f, S) /\ Total(f, S) <= Cardinality(S) * k
<1> DEFINE one == [x \in S |-> <<x, 1>>]
<1>1. IsFiniteSet(Units(f, S))
  BY TotalNat
<1>2. one \in Injection(S, Units(f, S))
  <2>1. \A x \in S : <<x, 1>> \in {x} \X (1 .. f[x])
    OBVIOUS
  <2>2. one \in [S -> Units(f, S)]
    BY <2>1 DEF Units
  <2>3. \A x, y \in S : one[x] = one[y] => x = y
    OBVIOUS
  <2>4. QED BY <2>2, <2>3 DEF Injection, IsInjective
<1>3. Cardinality(S) <= Total(f, S)
  BY <1>1, <1>2, FS_Injection DEF Total
<1>4. IsFiniteSet(1 .. k) /\ Cardinality(1 .. k) = k
  <2>1. k \in Int /\ 1 \in Int
    OBVIOUS
  <2>2. IsFiniteSet(1 .. k) /\ Cardinality(1 .. k) = IF 1 > k THEN 0 ELSE k - 1 + 1
    BY <2>1, FS_Interval
  <2>3. QED BY <2>2
<1>5. IsFiniteSet(S \X (1 .. k)) /\ Cardinality(S \X (1 .. k)) = Cardinality(S) * k
  BY <1>4, FS_Product
<1>6. Units(f, S) \subseteq S \X (1 .. k)
  BY DEF Units
<1>7. Total(f, S) <= Cardinality(S) * k
  BY <1>5, <1>6, FS_Subset DEF Total
<1>8. QED BY <1>3, <1>7
=============================================================================
