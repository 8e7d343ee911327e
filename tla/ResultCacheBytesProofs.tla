---------------------- MODULE ResultCacheBytesProofs ------------------------
(***************************************************************************)
(* The bytes of the result cache, for every number of streams, keys,       *)
(* batches and entries, and every limit.                                   *)
(*                                                                         *)
(* ResidentExact and ResidentBytesAdmitted are about sums: the counter of  *)
(* the map against the sizes of its entries, the charges of admission      *)
(* against the sizes of everything still owned.  BInv says that what is    *)
(* charged is what is stored (Keeping, Priced), that the charge is within  *)
(* the admission limit and that the counter is exact (Exact).  It rests on *)
(* the invariant of ResultCacheProofs: a stream that publishes has not     *)
(* ended its scan, so nobody owns the entry that its publication writes.   *)
(***************************************************************************)
EXTENDS ResultCacheProofs, FiniteSetTheorems

-----------------------------------------------------------------------------

(***************************************************************************)
(* Sums over finite sets.  SumFunctionOnSet takes the elements of its set  *)
(* in an order of its own; that the order does not matter is shown by      *)
(* taking a smallest set for which it would.                               *)
(***************************************************************************)

\* A set of naturals has a least element.
LEMMA LeastNumber ==
    ASSUME NEW T, T \subseteq Nat, T # {}
    PROVE  \E n \in T : \A m \in T : n <= m
<1>1. IsWellFoundedOn(OpToRel(<, Nat), Nat)
  BY NatLessThanWellFounded, Zenon
<1>2. PICK n \in T : \A m \in T : ~(<<m, n>> \in OpToRel(<, Nat))
  BY <1>1, WFMin, Zenon
<1>3. ASSUME NEW m \in T
      PROVE  n <= m
  <2>1. m \in Nat /\ n \in Nat
    OBVIOUS
  <2>2. CASE m < n
    <3>1. <<m, n>> \in Nat \X Nat /\ <<m, n>>[1] = m /\ <<m, n>>[2] = n
      BY <2>1
    <3>2. <<m, n>> \in OpToRel(<, Nat)
      BY <2>2, <3>1, Zenon DEF OpToRel
    <3>. QED BY <1>2, <3>2, Zenon
  <2>3. CASE ~(m < n)
    BY <2>1, <2>3
  <2>. QED BY <2>2, <2>3, Zenon
<1>. QED
  BY <1>3, Zenon

\* A non-empty set of subsets of a finite set has a minimal one.
LEMMA MinimalSubset ==
    ASSUME NEW S, IsFiniteSet(S), NEW T, T \subseteq SUBSET S, T # {}
    PROVE  \E m \in T : \A u \in T : u \subseteq m => u = m
<1>1. IsWellFoundedOn(StrictSubsetOrdering(S), SUBSET S)
  BY FS_StrictSubsetOrderingWellFounded, FS_FiniteSubsetsOfFinite, Zenon
<1>2. PICK m \in T : \A u \in T : ~(<<u, m>> \in StrictSubsetOrdering(S))
  BY <1>1, WFMin, Zenon
<1>3. ASSUME NEW u \in T, u \subseteq m
      PROVE  u = m
  BY <1>2, <1>3, Zenon DEF StrictSubsetOrdering
<1>. QED
  BY <1>3

\* The element the community module's fold takes next.
One(s) == CHOOSE x \in s : TRUE

\* g gives the sum of f over each of the sets in D.
Sums(f, D, g) == g = [s \in D |-> IF s = {} THEN 0 ELSE f[One(s)] + g[s \ {One(s)}]]

\* The element One names is one of the set.
LEMMA OneIn ==
    ASSUME NEW s, s # {}
    PROVE  One(s) \in s
BY DEF One

\* SumFunctionOnSet is what such a function gives for the whole set.
LEMMA SumUnfolds ==
    ASSUME NEW f, NEW S
    PROVE  SumFunctionOnSet(f, S) = (CHOOSE g : Sums(f, SUBSET S, g))[S]
BY DEF SumFunctionOnSet, FoldFunctionOnSet, MapThenFoldSet, Sums, One

\* The subsets of S with at most n elements.
UpTo(S, n) == {s \in SUBSET S : Cardinality(s) <= n}

\* Over the subsets of a finite set there is such a function.
LEMMA SumsExist ==
    ASSUME NEW f, NEW S, IsFiniteSet(S)
    PROVE  \E g : Sums(f, SUBSET S, g)
<1> DEFINE T == {n \in Nat : ~\E g : Sums(f, UpTo(S, n), g)}
<1>1. ASSUME NEW s \in SUBSET S
      PROVE  IsFiniteSet(s) /\ Cardinality(s) \in Nat /\ Cardinality(s) <= Cardinality(S)
             /\ (Cardinality(s) = 0 <=> s = {})
             /\ (s # {} => Cardinality(s \ {One(s)}) = Cardinality(s) - 1)
  BY FS_Subset, FS_CardinalityType, FS_EmptySet, FS_RemoveElement, OneIn, Zenon, SMTT(30)
<1>2. T = {}
  <2>1. SUFFICES ASSUME T # {} PROVE FALSE
    OBVIOUS
  <2>2. PICK n \in T : \A m \in T : n <= m
    BY <2>1, LeastNumber, Zenon
  <2>3. CASE n = 0
    <3>1. Sums(f, UpTo(S, 0), [s \in UpTo(S, 0) |-> 0])
      <4>1. ASSUME NEW s \in UpTo(S, 0)
            PROVE  s = {}
        <5>1. s \in SUBSET S /\ Cardinality(s) <= 0
          BY DEF UpTo
        <5>2. Cardinality(s) \in Nat /\ (Cardinality(s) = 0 <=> s = {})
          BY <1>1, <5>1, Zenon
        <5>. QED BY <5>1, <5>2
      <4>. QED BY <4>1 DEF Sums
    <3>. QED BY <2>2, <2>3, <3>1
  <2>4. CASE n # 0
    <3>1. n - 1 \in Nat /\ n - 1 \notin T
      BY <2>2, <2>4
    <3>2. PICK g : Sums(f, UpTo(S, n - 1), g)
      BY <3>1
    <3> DEFINE h == [s \in UpTo(S, n) |-> IF s = {} THEN 0 ELSE f[One(s)] + g[s \ {One(s)}]]
    <3>3. ASSUME NEW s \in UpTo(S, n), s # {}
          PROVE  h[s \ {One(s)}] = g[s \ {One(s)}]
      <4> DEFINE r == s \ {One(s)}
      <4>1. r \in UpTo(S, n - 1) /\ r \in UpTo(S, n)
        BY <1>1, <2>2, <3>3 DEF UpTo
      <4>2. h[r] = IF r = {} THEN 0 ELSE f[One(r)] + g[r \ {One(r)}]
        BY <4>1
      <4>3. g[r] = IF r = {} THEN 0 ELSE f[One(r)] + g[r \ {One(r)}]
        BY <3>2, <4>1, Zenon DEF Sums
      <4>. QED BY <4>2, <4>3
    <3>4. Sums(f, UpTo(S, n), h)
      <4>1. ASSUME NEW s \in UpTo(S, n)
            PROVE  h[s] = IF s = {} THEN 0 ELSE f[One(s)] + h[s \ {One(s)}]
        BY <3>3, <4>1, Zenon
      <4>. QED BY <4>1, Zenon DEF Sums
    <3>. QED BY <2>2, <3>4
  <2>. QED BY <2>3, <2>4, Zenon
<1>3. UpTo(S, Cardinality(S)) = SUBSET S
  BY <1>1, Zenon DEF UpTo
<1>4. Cardinality(S) \in Nat
  BY FS_CardinalityType
<1>5. Cardinality(S) \notin T
  BY <1>2
<1>6. \E g : Sums(f, UpTo(S, Cardinality(S)), g)
  BY <1>4, <1>5
<1>. QED
  BY <1>3, <1>6

\* f has a natural number for each element of S.
Counts(f, S) == \A x \in S : f[x] \in Nat

\* f and h have the same value for each element of S.
Agree(f, h, S) == \A x \in S : f[x] = h[x]

\* Two such functions agree wherever the functions they sum agree.
LEMMA SumsAgree ==
    ASSUME NEW f, NEW h, NEW S, IsFiniteSet(S), NEW R, R \subseteq S,
           Agree(f, h, R),
           NEW F, Sums(f, SUBSET S, F), NEW H, Sums(h, SUBSET R, H)
    PROVE  Agree(F, H, SUBSET R)
<1> USE DEF Agree
<1> DEFINE T == {s \in SUBSET R : F[s] # H[s]}
<1>1. SUFFICES ASSUME T # {} PROVE FALSE
  BY Zenon
<1>2. IsFiniteSet(R)
  BY FS_Subset
<1>3. T \subseteq SUBSET R
  OBVIOUS
<1> HIDE DEF T
<1>4. PICK m \in T : \A u \in T : u \subseteq m => u = m
  BY <1>1, <1>2, <1>3, MinimalSubset
<1> USE DEF T
<1>5. m \in SUBSET R /\ m \in SUBSET S /\ F[m] # H[m]
  BY <1>4, Zenon
<1>6. F[m] = IF m = {} THEN 0 ELSE f[One(m)] + F[m \ {One(m)}]
  BY <1>5, Zenon DEF Sums
<1>7. H[m] = IF m = {} THEN 0 ELSE h[One(m)] + H[m \ {One(m)}]
  BY <1>5, Zenon DEF Sums
<1>8. m # {}
  BY <1>5, <1>6, <1>7
<1>9. One(m) \in m
  BY <1>8, OneIn, Zenon
<1>10. m \ {One(m)} \notin T
  BY <1>4, <1>9
<1>11. F[m \ {One(m)}] = H[m \ {One(m)}]
  BY <1>5, <1>10
<1>12. f[One(m)] = h[One(m)]
  BY <1>5, <1>9
<1>. QED
  BY <1>5, <1>6, <1>7, <1>8, <1>11, <1>12, Zenon

\* SumFunctionOnSet is the value of any such function, for every subset.
LEMMA SumIs ==
    ASSUME NEW f, NEW S, IsFiniteSet(S)
    PROVE  \E g : Sums(f, SUBSET S, g) /\ \A R \in SUBSET S : SumFunctionOnSet(f, R) = g[R]
<1>1. PICK g : Sums(f, SUBSET S, g)
  BY SumsExist, Zenon
<1>2. ASSUME NEW R \in SUBSET S
      PROVE  SumFunctionOnSet(f, R) = g[R]
  <2> DEFINE h == CHOOSE h : Sums(f, SUBSET R, h)
  <2>1. IsFiniteSet(R)
    BY FS_Subset
  <2>2. Sums(f, SUBSET R, h)
    BY <2>1, SumsExist, Zenon
  <2>3. SumFunctionOnSet(f, R) = h[R]
    BY SumUnfolds, Zenon
  <2> HIDE DEF h
  <2>4. R \subseteq S /\ Agree(f, f, R)
    BY DEF Agree
  <2>5. Agree(g, h, SUBSET R)
    BY <1>1, <2>2, <2>4, SumsAgree, Zenon
  <2>. QED BY <2>3, <2>5 DEF Agree
<1>. QED
  BY <1>1, <1>2

\* The empty sum.
LEMMA SumEmpty ==
    ASSUME NEW f
    PROVE  SumFunctionOnSet(f, {}) = 0
<1>1. IsFiniteSet({})
  BY FS_EmptySet, Zenon
<1>2. PICK g : Sums(f, SUBSET {}, g) /\ \A R \in SUBSET {} : SumFunctionOnSet(f, R) = g[R]
  BY <1>1, SumIs, Zenon
<1>3. g[{}] = 0
  BY <1>2 DEF Sums
<1>. QED
  BY <1>2, <1>3, Zenon

\* A sum, one element at a time.
LEMMA SumStep ==
    ASSUME NEW f, NEW S, IsFiniteSet(S), S # {}
    PROVE  SumFunctionOnSet(f, S) = f[One(S)] + SumFunctionOnSet(f, S \ {One(S)})
<1>1. PICK g : Sums(f, SUBSET S, g) /\ \A R \in SUBSET S : SumFunctionOnSet(f, R) = g[R]
  BY SumIs, Zenon
<1>2. g[S] = f[One(S)] + g[S \ {One(S)}]
  BY <1>1, Zenon DEF Sums
<1>3. SumFunctionOnSet(f, S) = g[S]
      /\ SumFunctionOnSet(f, S \ {One(S)}) = g[S \ {One(S)}]
  BY <1>1
<1>. QED
  BY <1>2, <1>3

\* A sum depends on the values over its set only.
LEMMA SumAgree ==
    ASSUME NEW f, NEW h, NEW S, IsFiniteSet(S), Agree(f, h, S)
    PROVE  SumFunctionOnSet(f, S) = SumFunctionOnSet(h, S)
<1>1. PICK F : Sums(f, SUBSET S, F) /\ \A R \in SUBSET S : SumFunctionOnSet(f, R) = F[R]
  BY SumIs, Zenon
<1>2. PICK H : Sums(h, SUBSET S, H) /\ \A R \in SUBSET S : SumFunctionOnSet(h, R) = H[R]
  BY SumIs, Zenon
<1>3. S \subseteq S /\ Sums(f, SUBSET S, F) /\ Sums(h, SUBSET S, H)
  BY <1>1, <1>2
<1>4. Agree(F, H, SUBSET S)
  BY <1>3, SumsAgree, Zenon
<1>. QED
  BY <1>1, <1>2, <1>4 DEF Agree

\* A sum of naturals is one.
LEMMA SumNat ==
    ASSUME NEW f, NEW S, IsFiniteSet(S), Counts(f, S)
    PROVE  SumFunctionOnSet(f, S) \in Nat
<1> DEFINE T == {s \in SUBSET S : SumFunctionOnSet(f, s) \notin Nat}
<1>1. SUFFICES ASSUME T # {} PROVE FALSE
  BY Zenon
<1>2. T \subseteq SUBSET S
  OBVIOUS
<1> HIDE DEF T
<1>3. PICK m \in T : \A u \in T : u \subseteq m => u = m
  BY <1>1, <1>2, MinimalSubset
<1> USE DEF T
<1>4. m \in SUBSET S /\ SumFunctionOnSet(f, m) \notin Nat /\ IsFiniteSet(m)
  BY <1>3, FS_Subset, Zenon
<1>5. m # {}
  BY <1>4, SumEmpty
<1>6. One(m) \in m
  BY <1>5, OneIn
<1>7. SumFunctionOnSet(f, m) = f[One(m)] + SumFunctionOnSet(f, m \ {One(m)})
  BY <1>4, <1>5, SumStep
<1>8. m \ {One(m)} \notin T
  BY <1>3, <1>6, Zenon
<1>9. SumFunctionOnSet(f, m \ {One(m)}) \in Nat
  BY <1>4, <1>8
<1>10. f[One(m)] \in Nat
  BY <1>4, <1>6 DEF Counts
<1>. QED
  BY <1>4, <1>7, <1>9, <1>10

\* Taking out any element takes its value out of the sum.
LEMMA SumRemove ==
    ASSUME NEW f, NEW S, IsFiniteSet(S), Counts(f, S), NEW y \in S
    PROVE  SumFunctionOnSet(f, S) = f[y] + SumFunctionOnSet(f, S \ {y})
<1> DEFINE Bad(s) == \E x \in s : SumFunctionOnSet(f, s) # f[x] + SumFunctionOnSet(f, s \ {x})
           T == {s \in SUBSET S : Bad(s)}
<1>1. SUFFICES ASSUME T # {} PROVE FALSE
  BY Zenon
<1>2. T \subseteq SUBSET S
  OBVIOUS
<1> HIDE DEF T
<1>3. PICK m \in T : \A u \in T : u \subseteq m => u = m
  BY <1>1, <1>2, MinimalSubset
<1> USE DEF T
<1>4. m \in SUBSET S /\ IsFiniteSet(m)
  BY <1>3, FS_Subset, Zenon
<1>5. PICK x \in m : SumFunctionOnSet(f, m) # f[x] + SumFunctionOnSet(f, m \ {x})
  BY <1>3
<1> DEFINE z == One(m)
<1>6. z \in m /\ SumFunctionOnSet(f, m) = f[z] + SumFunctionOnSet(f, m \ {z})
  BY <1>4, <1>5, SumStep, OneIn
<1> HIDE DEF z
<1>7. x # z
  BY <1>5, <1>6, Zenon
<1>8. m \ {z} \notin T /\ m \ {x} \notin T
  BY <1>3, <1>5, <1>6, Zenon
<1>9. m \ {z} \in SUBSET S /\ m \ {x} \in SUBSET S /\ x \in m \ {z} /\ z \in m \ {x}
  BY <1>4, <1>5, <1>6, <1>7, Zenon
<1>10. SumFunctionOnSet(f, m \ {z}) = f[x] + SumFunctionOnSet(f, (m \ {z}) \ {x})
  BY <1>8, <1>9, Zenon
<1>11. SumFunctionOnSet(f, m \ {x}) = f[z] + SumFunctionOnSet(f, (m \ {x}) \ {z})
  BY <1>8, <1>9, Zenon
<1>12. (m \ {z}) \ {x} = (m \ {x}) \ {z}
  BY Zenon
<1>13. IsFiniteSet((m \ {z}) \ {x}) /\ Counts(f, (m \ {z}) \ {x})
  BY <1>4, FS_Subset DEF Counts
<1>14. SumFunctionOnSet(f, (m \ {z}) \ {x}) \in Nat /\ f[x] \in Nat /\ f[z] \in Nat
  BY <1>4, <1>5, <1>6, <1>13, SumNat, Zenon DEF Counts
<1> DEFINE rest == SumFunctionOnSet(f, (m \ {z}) \ {x})
<1>15. SumFunctionOnSet(f, m) = f[z] + (f[x] + rest)
  BY <1>6, <1>10, Zenon
<1>16. SumFunctionOnSet(f, m) # f[x] + (f[z] + rest)
  BY <1>5, <1>11, <1>12, Zenon
<1>17. rest \in Nat /\ f[x] \in Nat /\ f[z] \in Nat
  BY <1>14, Zenon
<1> HIDE DEF rest, T
<1>18. f[z] + (f[x] + rest) = f[x] + (f[z] + rest)
  BY <1>17
<1>. QED
  BY <1>15, <1>16, <1>18, Zenon

\* The sum over S is that over R and that over the rest.
Splits(f, S, R) ==
    /\ SumFunctionOnSet(f, S) = SumFunctionOnSet(f, R) + SumFunctionOnSet(f, S \ R)
    /\ SumFunctionOnSet(f, R) \in Nat /\ SumFunctionOnSet(f, S \ R) \in Nat

\* The sum over a set is the sum over a part of it and the sum over the rest.
LEMMA SumSplit ==
    ASSUME NEW f, NEW S, IsFiniteSet(S), Counts(f, S), NEW R \in SUBSET S
    PROVE  Splits(f, S, R)
<1> DEFINE Sum(s) == SumFunctionOnSet(f, s)
           T == {s \in SUBSET S : Sum(S) # Sum(s) + Sum(S \ s)}
<1>1. ASSUME NEW s \in SUBSET S
      PROVE  IsFiniteSet(s) /\ Sum(s) \in Nat
  BY FS_Subset, SumNat DEF Counts
<1>2. T = {}
  <2>1. SUFFICES ASSUME T # {} PROVE FALSE
    BY Zenon
  <2>2. T \subseteq SUBSET S
    OBVIOUS
  <2> HIDE DEF T
  <2>3. PICK m \in T : \A u \in T : u \subseteq m => u = m
    BY <2>1, <2>2, MinimalSubset
  <2> USE DEF T
  <2>4. m \in SUBSET S /\ Sum(S) # Sum(m) + Sum(S \ m)
    BY <2>3, Zenon
  <2>5. m # {}
    <3>1. S \ {} = S /\ Sum({}) = 0 /\ Sum(S) \in Nat
      BY <1>1, SumEmpty, Zenon
    <3>. QED BY <2>4, <3>1
  <2>6. PICK x : x \in m
    BY <2>5
  <2> DEFINE r == m \ {x}
  <2>7. r \in SUBSET S /\ r \notin T
    BY <2>3, <2>4, <2>6
  <2>8. Sum(S) = Sum(r) + Sum(S \ r)
    BY <2>7, Zenon
  <2>9. Sum(m) = f[x] + Sum(r)
    <3>1. IsFiniteSet(m) /\ Counts(f, m)
      BY <1>1, <2>4, Zenon DEF Counts
    <3>. QED BY <2>6, <3>1, SumRemove
  <2>10. Sum(S \ r) = f[x] + Sum(S \ m)
    <3>1. S \ r \in SUBSET S /\ x \in S \ r /\ (S \ r) \ {x} = S \ m
      BY <2>4, <2>6
    <3>2. IsFiniteSet(S \ r) /\ Counts(f, S \ r)
      BY <1>1, Zenon DEF Counts
    <3>3. Sum(S \ r) = f[x] + Sum((S \ r) \ {x})
      BY <3>1, <3>2, SumRemove
    <3>. QED BY <3>1, <3>3, Zenon
  <2>11. Sum(r) \in Nat /\ Sum(S \ m) \in Nat /\ f[x] \in Nat
    BY <1>1, <2>4, <2>6, <2>7, Zenon DEF Counts
  <2> HIDE DEF Sum
  <2>. QED BY <2>4, <2>8, <2>9, <2>10, <2>11
<1>3. R \notin T /\ S \ R \in SUBSET S
  BY <1>2, Zenon
<1>. QED
  BY <1>1, <1>3 DEF Splits

\* A sum of naturals is no less over a larger set.
LEMMA SumGrows ==
    ASSUME NEW f, NEW S, IsFiniteSet(S), Counts(f, S), NEW R \in SUBSET S
    PROVE  SumFunctionOnSet(f, R) <= SumFunctionOnSet(f, S)
<1>1. Splits(f, S, R)
  BY SumSplit
<1>. QED
  BY <1>1 DEF Splits

\* Changing the value at one element changes the sum by the difference.
LEMMA SumUpdate ==
    ASSUME NEW f, NEW h, NEW S, IsFiniteSet(S), Counts(f, S), Counts(h, S),
           NEW y \in S, Agree(f, h, S \ {y})
    PROVE  SumFunctionOnSet(h, S) = SumFunctionOnSet(f, S) - f[y] + h[y]
<1>1. SumFunctionOnSet(f, S) = f[y] + SumFunctionOnSet(f, S \ {y})
  BY SumRemove
<1>2. SumFunctionOnSet(h, S) = h[y] + SumFunctionOnSet(h, S \ {y})
  BY SumRemove
<1>3. IsFiniteSet(S \ {y}) /\ Counts(f, S \ {y})
  BY FS_Subset DEF Counts
<1>4. SumFunctionOnSet(f, S \ {y}) = SumFunctionOnSet(h, S \ {y})
  BY <1>3, SumAgree
<1>5. SumFunctionOnSet(f, S \ {y}) \in Nat
  BY <1>3, SumNat
<1>6. f[y] \in Nat /\ h[y] \in Nat
  BY DEF Counts
<1>. QED
  BY <1>1, <1>2, <1>4, <1>5, <1>6, SMTT(30), SMTT(30)


\* Nothing but zeros adds up to zero.
LEMMA SumZero ==
    ASSUME NEW f, NEW S, IsFiniteSet(S), \A x \in S : f[x] = 0
    PROVE  SumFunctionOnSet(f, S) = 0
<1> DEFINE T == {s \in SUBSET S : SumFunctionOnSet(f, s) # 0}
<1>1. SUFFICES ASSUME T # {} PROVE FALSE
  BY Zenon
<1>2. T \subseteq SUBSET S
  OBVIOUS
<1> HIDE DEF T
<1>3. PICK m \in T : \A u \in T : u \subseteq m => u = m
  BY <1>1, <1>2, MinimalSubset
<1> USE DEF T
<1>4. m \in SUBSET S /\ SumFunctionOnSet(f, m) # 0 /\ IsFiniteSet(m)
  BY <1>3, FS_Subset, Zenon
<1>5. m # {}
  BY <1>4, SumEmpty
<1>6. One(m) \in m
  BY <1>5, OneIn
<1>7. SumFunctionOnSet(f, m) = f[One(m)] + SumFunctionOnSet(f, m \ {One(m)})
  BY <1>4, <1>5, SumStep
<1>8. m \ {One(m)} \notin T
  BY <1>3, <1>6, Zenon
<1>9. SumFunctionOnSet(f, m \ {One(m)}) = 0 /\ f[One(m)] = 0
  BY <1>4, <1>6, <1>8, Zenon
<1>. QED
  BY <1>4, <1>7, <1>9

-----------------------------------------------------------------------------

\* A stream that keeps nothing of what the cache stores.
Released(st) ==
    /\ st.batches = <<>> /\ st.size = 0 /\ st.permit = 0
    /\ st.replay = Nobody /\ st.stale = Nobody

\* The charge of a stream is the size of its candidate, and a stream that has
\* ended, or passes an uncacheable scan on, keeps nothing.
Keeping(st) ==
    /\ st.size \in Nat /\ st.permit = st.size /\ st.replay \in Owners /\ st.stale \in Owners
    /\ st.mode # "UNOPENED" => st.key \in Keys
    /\ st.outcome # "OPEN" => Released(st)
    /\ st.mode \in {"ACCUMULATING_MISS", "BARRIER_DRAIN_EMIT"} => st.replay = Nobody /\ st.stale = Nobody
    /\ st.mode = "ACCUMULATING_MISS" /\ ~st.cacheable => Released(st)
    /\ st.mode = "BARRIER_DRAINED_UNCACHED" => Released(st)

\* The charge of an entry is its size.
Priced(e) == e.size \in Nat /\ e.permit = e.size /\ e.order \in Nat

\* The keys under which map c has an entry.
In(c) == {k \in Keys : c.map[k] # Nobody}

\* The byte counter of map c, over entries e that are all older than the next.
Exact(c, e) ==
    /\ c.order \in Nat /\ c.bytes = BytesIn(c, e, In(c))
    /\ \A k \in In(c) : c.map[k] \in Streams /\ e[c.map[k]].order < c.order

\* Map c is within its limits.
Bounded(c) == c.bytes <= MaxBytes /\ Cardinality(In(c)) <= MaxEntries

\* The inductive invariant of the bytes.
BInv ==
    /\ \A s \in Streams : Keeping(streams[s]) /\ Priced(entry[s])
    /\ Exact(cache, entry) /\ Bounded(cache)
    /\ Charged <= ResidentLimit

-----------------------------------------------------------------------------

\* Every entry of map c has a size.
Sized(c, e, keys) == IsFiniteSet(keys) /\ \A k \in keys : e[c.map[k]].size \in Nat

\* The bytes under keys are those under gone and those under the rest.
Parts(c, e, keys, gone) ==
    /\ BytesIn(c, e, keys) = BytesIn(c, e, gone) + BytesIn(c, e, keys \ gone)
    /\ BytesIn(c, e, gone) \in Nat /\ BytesIn(c, e, keys \ gone) \in Nat

\* The bytes under some keys are those under a part of them and under the rest.
LEMMA BytesSplit ==
    ASSUME NEW c, NEW e, NEW keys, Sized(c, e, keys), NEW gone \in SUBSET keys
    PROVE  Parts(c, e, keys, gone)
<1> DEFINE f == [k \in keys |-> e[c.map[k]].size]
<1>1. IsFiniteSet(keys) /\ Counts(f, keys)
  BY Zenon DEF Sized, Counts
<1>2. Splits(f, keys, gone)
  <2> HIDE DEF f
  <2> QED  BY <1>1, SumSplit
<1>3. ASSUME NEW part \in SUBSET keys
      PROVE  SumFunctionOnSet(f, part) = BytesIn(c, e, part)
  <2> DEFINE h == [k \in part |-> e[c.map[k]].size]
  <2>1. Agree(f, h, part)
    BY Zenon DEF Agree
  <2>2. IsFiniteSet(part)
    BY <1>1, FS_Subset
  <2>3. SumFunctionOnSet(f, part) = SumFunctionOnSet(h, part)
    <3> HIDE DEF f, h
    <3> QED  BY <2>1, <2>2, SumAgree, Zenon
  <2> QED  BY <2>3, Zenon DEF BytesIn
<1> HIDE DEF f
<1>4. /\ SumFunctionOnSet(f, keys) = BytesIn(c, e, keys)
      /\ SumFunctionOnSet(f, gone) = BytesIn(c, e, gone)
      /\ SumFunctionOnSet(f, keys \ gone) = BytesIn(c, e, keys \ gone)
  <2>1. keys \in SUBSET keys /\ keys \ gone \in SUBSET keys
    OBVIOUS
  <2> QED  BY <1>3, <2>1, Zenon
<1> QED  BY <1>2, <1>4, Zenon DEF Splits, Parts

\* The bytes under one key and under the others.
LEMMA BytesOne ==
    ASSUME NEW c, NEW e, NEW keys, Sized(c, e, keys), NEW k \in keys
    PROVE  /\ BytesIn(c, e, keys) = e[c.map[k]].size + BytesIn(c, e, keys \ {k})
           /\ BytesIn(c, e, keys \ {k}) \in Nat
<1>1. {k} \in SUBSET keys
  OBVIOUS
<1>2. Parts(c, e, keys, {k})
  BY <1>1, BytesSplit, Zenon
<1> DEFINE f == [j \in {k} |-> e[c.map[j]].size]
<1>3. IsFiniteSet({k}) /\ Counts(f, {k}) /\ k \in {k} /\ {k} \ {k} = {} /\ f[k] = e[c.map[k]].size
      /\ f[k] \in Nat
  BY FS_Singleton, Zenon DEF Sized, Counts
<1>4. BytesIn(c, e, {k}) = SumFunctionOnSet(f, {k})
  BY Zenon DEF BytesIn
<1> HIDE DEF f
<1>5. SumFunctionOnSet(f, {k}) = f[k] + SumFunctionOnSet(f, {k} \ {k})
  BY <1>3, SumRemove, Zenon
<1>6. SumFunctionOnSet(f, {}) = 0
  BY SumEmpty, Zenon
<1>7. BytesIn(c, e, {k}) = e[c.map[k]].size
  BY <1>3, <1>4, <1>5, <1>6
<1> QED  BY <1>2, <1>7 DEF Parts

\* The same bytes, in another map or other entries.
LEMMA BytesSame ==
    ASSUME NEW c, NEW e, NEW d, NEW g, NEW keys,
           \A k \in keys : e[c.map[k]].size = g[d.map[k]].size
    PROVE  BytesIn(c, e, keys) = BytesIn(d, g, keys)
<1>1. [k \in keys |-> e[c.map[k]].size] = [k \in keys |-> g[d.map[k]].size]
  BY Zenon
<1> QED  BY <1>1, Zenon DEF BytesIn

\* Nothing has no bytes.
LEMMA BytesNone ==
    ASSUME NEW c, NEW e
    PROVE  BytesIn(c, e, {}) = 0
BY SumEmpty, Zenon DEF BytesIn

\* A map as the cache has it.
IsCache(c) == DOMAIN c = {"map", "order", "bytes", "closed"} /\ DOMAIN c.map = Keys

\* Map d has the entries of map c that are not under the keys gone.
Without(c, d, gone) ==
    /\ IsCache(d) /\ d.order = c.order /\ d.closed = c.closed
    /\ \A k \in Keys : d.map[k] = IF k \in gone THEN Nobody ELSE c.map[k]

\* Eviction takes the oldest entries out until both limits hold, and counts
\* exactly the entries that stay.
LEMMA EvictExact ==
    ASSUME NEW c, NEW e, IsCache(c), Exact(c, e), \A s \in Streams : Priced(e[s]),
           NEW d, d = EvictIfNeeded(c, e)
    PROVE  /\ \E gone \in SUBSET In(c) : Without(c, d, gone)
           /\ Exact(d, e) /\ Bounded(d)
<1> DEFINE in == In(c)
           Older(n) == {k \in in : e[c.map[k]].order < n}
           Enough(n) == \/ Older(n) = in
                        \/ /\ Cardinality(in \ Older(n)) <= MaxEntries
                           /\ c.bytes - BytesIn(c, e, Older(n)) <= MaxBytes
           M == {m \in 0..c.order : Enough(m)}
<1>1. /\ c.order \in Nat /\ c.bytes = BytesIn(c, e, in)
      /\ \A k \in in : c.map[k] \in Streams /\ e[c.map[k]].order < c.order /\ e[c.map[k]].size \in Nat
  BY Zenon DEF Exact, Priced
<1>2. PICK n \in M : Evicted(c, e) = Older(n)
  <2>1. c.order \in M
    <3>1. Older(c.order) = in
      BY <1>1, Zenon
    <3> QED  BY <1>1, <3>1, SMTT(30)
  <2>2. M \subseteq Nat
    BY <1>1
  <2>3. Evicted(c, e) = Older(Min(M))
    BY Zenon DEF Evicted, In
  <2> HIDE DEF M
  <2>4. \E m \in M : \A j \in M : m <= j
    BY <2>1, <2>2, LeastNumber, Zenon
  <2>5. Min(M) \in M
    BY <2>4, Zenon DEF Min
  <2> QED  BY <2>3, <2>5, Zenon, SMTT(30)
<1>3. PICK gone : gone = Older(n)
  BY ZenonT(40), ZenonT(40)
<1>4. /\ gone \in SUBSET in /\ Evicted(c, e) = gone
      /\ \/ gone = in
         \/ Cardinality(in \ gone) <= MaxEntries /\ c.bytes - BytesIn(c, e, gone) <= MaxBytes
  BY <1>2, <1>3, Zenon
<1> HIDE DEF M, Enough, Older
<1>5. Sized(c, e, in)
  <2>1. in \subseteq Keys
    BY Zenon DEF In
  <2> QED  BY <1>1, <2>1, FiniteAssumption, FS_Subset, Zenon DEF Sized
<1>6. Parts(c, e, in, gone)
  BY <1>4, <1>5, BytesSplit, Zenon
<1>7. d = [c EXCEPT !.map = [k \in Keys |-> IF k \in gone THEN Nobody ELSE c.map[k]],
                    !.bytes = c.bytes - BytesIn(c, e, gone)]
  BY <1>4, Zenon DEF EvictIfNeeded
<1>8. Without(c, d, gone) /\ d.bytes = c.bytes - BytesIn(c, e, gone)
  BY <1>7 DEF IsCache, Without
<1>9. In(d) = in \ gone
  BY <1>4, <1>8, Zenon DEF In, Without
<1>10. d.bytes = BytesIn(c, e, in \ gone)
  BY <1>1, <1>6, <1>8 DEF Parts
<1>11. \A k \in in \ gone : d.map[k] = c.map[k]
  BY <1>8, Zenon DEF Without, In
<1>12. BytesIn(c, e, in \ gone) = BytesIn(d, e, in \ gone)
  BY <1>11, BytesSame
<1>13. Exact(d, e)
  <2>1. d.order \in Nat /\ d.bytes = BytesIn(d, e, In(d)) /\ d.order = c.order
    BY <1>1, <1>8, <1>9, <1>10, <1>12, ZenonT(40), ZenonT(40) DEF Without
  <2>2. \A k \in In(d) : d.map[k] \in Streams /\ e[d.map[k]].order < d.order
    BY <1>1, <1>9, <1>11, <2>1, Zenon, SMTT(30)
  <2> QED  BY <2>1, <2>2, Zenon DEF Exact
<1>14. Bounded(d)
  <2>1. CASE gone = in
    <3>1. In(d) = {}
      BY <1>9, <2>1, Zenon
    <3>2. d.bytes = 0
      BY <1>9, <1>10, <3>1, BytesNone, Zenon
    <3>3. Cardinality(In(d)) = 0
      BY <3>1, FS_EmptySet, Zenon
    <3> QED  BY <3>2, <3>3, LimitsAssumption DEF Bounded
  <2>2. CASE Cardinality(in \ gone) <= MaxEntries /\ c.bytes - BytesIn(c, e, gone) <= MaxBytes
    BY <1>8, <1>9, <2>2, Zenon DEF Bounded
  <2> QED  BY <1>4, <2>1, <2>2, Zenon
<1> QED  BY <1>4, <1>8, <1>13, <1>14, Zenon, SMTT(30)

\* No stream that is still scanning owns an entry.
LEMMA ScanningOwnsNothing ==
    ASSUME IInv, NEW s \in Streams, ~streams[s].ended
    PROVE  /\ \A k \in Keys : cache.map[k] # s
           /\ \A r \in Streams : streams[r].replay # s /\ streams[r].stale # s
           /\ s \notin Live
<1>1. \A k \in Keys : cache.map[k] # s
  BY NamesAssumption, Zenon DEF IInv, MapWhole, Whole
<1>2. \A r \in Streams : streams[r].replay # s /\ streams[r].stale # s
  BY NamesAssumption, Zenon DEF IInv, RefersWhole, Refers, Whole
<1> QED  BY <1>1, <1>2, Zenon DEF Live

\* What a publication by s makes of the map and the entries.
PublishedOK(s, c, e) ==
    /\ IsCache(c) /\ Exact(c, e) /\ Bounded(c)
    /\ \A k \in Keys : c.map[k] \in {cache.map[k], s, Nobody}
    /\ DOMAIN e = Streams /\ \A r \in Streams : Priced(e[r]) /\ (r # s => e[r] = entry[r])
    /\ e[s].permit = streams[s].permit

\* A publication replaces the entry under its key, counts the new one in the
\* place of the old, and evicts what exceeds the limits.
LEMMA PublishExact ==
    ASSUME IInv, BInv, NEW s \in Streams, ~streams[s].ended, streams[s].key \in Keys
    PROVE  PublishedOK(s, Published(s).cache, Published(s).entry)
<1>1. PICK k \in Keys : k = streams[s].key
  BY Zenon
<1>2. PICK st : st = streams[s]
  BY Zenon
<1>3. st.size \in Nat /\ st.permit = st.size
  BY <1>2, Zenon DEF BInv, Keeping
<1>4. PICK e : e = [entry EXCEPT ![s] =
                      [batches |-> st.batches, stored |-> now, size |-> st.size,
                       permit |-> st.permit, order |-> cache.order]]
  BY Zenon
<1>5. PICK c : c = [cache EXCEPT !.map[k] = s, !.order = @ + 1,
                                 !.bytes = @ - Replaced(cache, k, entry) + st.size]
  BY Zenon
<1>6. Published(s).entry = e /\ Published(s).cache = EvictIfNeeded(c, e)
  BY <1>1, <1>2, <1>4, <1>5, SMTT(30), SMTT(30) DEF Published
<1>7. IsCache(cache) /\ DOMAIN entry = Streams
  BY Zenon DEF IInv, StateOK, IsCache
<1>8. /\ cache.order \in Nat /\ cache.bytes = BytesIn(cache, entry, In(cache))
      /\ \A j \in In(cache) : cache.map[j] \in Streams /\ entry[cache.map[j]].order < cache.order
      /\ \A r \in Streams : Priced(entry[r])
  BY Zenon DEF BInv, Exact
<1>9. /\ DOMAIN e = Streams /\ \A r \in Streams : r # s => e[r] = entry[r]
      /\ e[s].size = st.size /\ e[s].permit = st.permit /\ e[s].order = cache.order
  BY <1>4, <1>7, Zenon, SMTT(30)
<1>10. \A r \in Streams : Priced(e[r])
  BY <1>3, <1>8, <1>9, Zenon DEF Priced
<1>11. /\ IsCache(c) /\ c.map[k] = s /\ \A j \in Keys : j # k => c.map[j] = cache.map[j]
       /\ c.order = cache.order + 1 /\ c.bytes = cache.bytes - Replaced(cache, k, entry) + st.size
  BY <1>5, <1>7, Zenon DEF IsCache
<1>12. In(c) = In(cache) \cup {k} /\ s # Nobody
  BY <1>11, NamesAssumption, Zenon DEF In
<1> DEFINE others == In(cache) \ {k}
<1>13. /\ k \in In(c) /\ In(c) \ {k} = others /\ In(c) \subseteq Keys /\ In(cache) \subseteq Keys
  BY <1>12, Zenon, SMTT(30) DEF In
<1>14. \A j \in others : c.map[j] = cache.map[j] /\ cache.map[j] # s /\ e[c.map[j]] = entry[cache.map[j]]
  BY <1>8, <1>9, <1>11, <1>13, ScanningOwnsNothing, SMTT(30), SMTT(30)
<1>15. IsFiniteSet(In(c)) /\ IsFiniteSet(In(cache))
  BY <1>13, FiniteAssumption, FS_Subset, Zenon, SMTT(30)
<1>16. \A j \in In(c) : c.map[j] \in Streams /\ e[c.map[j]].order < c.order
  <2>1. ASSUME NEW j \in others PROVE c.map[j] \in Streams /\ e[c.map[j]].order < c.order
    <3>1. c.map[j] \in Streams /\ entry[cache.map[j]].order < cache.order /\ entry[cache.map[j]].order \in Nat
      BY <1>8, <1>14, Zenon, SMTT(30) DEF Priced
    <3> QED  BY <1>8, <1>11, <1>14, <3>1, SMTT(30), SMTT(30)
  <2> QED  BY <1>8, <1>9, <1>11, <1>13, <2>1, SMTT(30), SMTT(30)
<1>17. Sized(c, e, In(c)) /\ Sized(cache, entry, In(cache))
  BY <1>8, <1>10, <1>15, <1>16, Zenon, SMTT(30) DEF Sized, Priced
<1>18. /\ BytesIn(c, e, In(c)) = st.size + BytesIn(c, e, others) /\ BytesIn(c, e, others) \in Nat
  BY <1>9, <1>11, <1>13, <1>17, BytesOne, SMTT(30), SMTT(30)
<1>19. BytesIn(c, e, others) = BytesIn(cache, entry, others)
  BY <1>14, BytesSame
<1>20. cache.bytes = Replaced(cache, k, entry) + BytesIn(cache, entry, others)
       /\ Replaced(cache, k, entry) \in Nat
  <2>1. CASE cache.map[k] = Nobody
    <3>1. Replaced(cache, k, entry) = 0 /\ others = In(cache)
      BY <2>1, Zenon DEF Replaced, In
    <3> QED  BY <1>8, <1>18, <1>19, <3>1, SMTT(30)
  <2>2. CASE cache.map[k] # Nobody
    <3>1. Replaced(cache, k, entry) = entry[cache.map[k]].size /\ k \in In(cache)
      BY <2>2, Zenon DEF Replaced, In
    <3>2. cache.bytes = entry[cache.map[k]].size + BytesIn(cache, entry, others)
      BY <1>8, <1>17, <3>1, BytesOne, SMTT(30), SMTT(30)
    <3>3. entry[cache.map[k]].size \in Nat
      BY <1>8, <3>1, Zenon DEF Priced
    <3> QED  BY <3>1, <3>2, <3>3, Zenon
  <2> QED  BY <2>1, <2>2, Zenon, SMTT(30)
<1>21. c.bytes = BytesIn(c, e, In(c))
  BY <1>3, <1>11, <1>18, <1>19, <1>20, SMTT(30), SMTT(30)
<1>22. Exact(c, e)
  BY <1>8, <1>11, <1>16, <1>21, SMTT(30) DEF Exact
<1>23. PICK d : d = EvictIfNeeded(c, e)
  BY Zenon
<1>24. (\E gone \in SUBSET In(c) : Without(c, d, gone)) /\ Exact(d, e) /\ Bounded(d)
  BY <1>10, <1>11, <1>22, <1>23, EvictExact, ZenonT(40), ZenonT(40)
<1>25. IsCache(d) /\ \A j \in Keys : d.map[j] \in {cache.map[j], s, Nobody}
  <2>1. PICK gone \in SUBSET In(c) : Without(c, d, gone)
    BY <1>24, Zenon, SMTT(30)
  <2> QED  BY <1>11, <2>1, Zenon DEF Without
<1>26. PublishedOK(s, d, e)
  BY <1>2, <1>9, <1>10, <1>24, <1>25, Zenon, SMTT(30) DEF PublishedOK
<1> QED  BY <1>6, <1>23, <1>26, ZenonT(40), ZenonT(40)


-----------------------------------------------------------------------------

\* The two parts of the charge.
StreamCharge == SumFunctionOnSet([s \in Streams |-> streams[s].permit], Streams)

EntryCharge == SumFunctionOnSet([s \in Streams |-> entry[s].permit], Live)

\* The parts of the charge are numbers.
LEMMA ChargeNat ==
    ASSUME BInv
    PROVE  StreamCharge \in Nat /\ EntryCharge \in Nat /\ Charged = StreamCharge + EntryCharge
<1>1. Counts([s \in Streams |-> streams[s].permit], Streams)
  BY Zenon DEF BInv, Keeping, Counts
<1>2. Counts([s \in Streams |-> entry[s].permit], Live) /\ IsFiniteSet(Live)
  BY FiniteAssumption, FS_Subset, Zenon DEF BInv, Priced, Counts, Live
<1>3. StreamCharge \in Nat
  BY <1>1, FiniteAssumption, SumNat, Zenon DEF StreamCharge
<1>4. EntryCharge \in Nat
  BY <1>2, SumNat, Zenon DEF EntryCharge
<1> QED  BY <1>3, <1>4, ZenonT(40), ZenonT(40) DEF Charged, StreamCharge, EntryCharge

\* A step of stream s changes the charge of the streams by its own.
LEMMA StreamChargeStep ==
    ASSUME IInv, BInv, NEW s \in Streams, NEW t, t.permit \in Nat,
           streams' = [streams EXCEPT ![s] = t]
    PROVE  StreamCharge' = StreamCharge - streams[s].permit + t.permit
<1> DEFINE f == [r \in Streams |-> streams[r].permit]
           h == [r \in Streams |-> streams'[r].permit]
<1>1. streams'[s] = t /\ \A r \in Streams : r # s => streams'[r] = streams[r]
  BY Zenon DEF IInv, StateOK
<1>2. Counts(f, Streams)
  BY Zenon DEF BInv, Keeping, Counts
<1>3. Counts(h, Streams)
  BY <1>1, <1>2, Zenon DEF Counts
<1>4. Agree(f, h, Streams \ {s}) /\ f[s] = streams[s].permit /\ h[s] = t.permit
  BY <1>1, Zenon DEF Agree
<1>5. StreamCharge = SumFunctionOnSet(f, Streams) /\ StreamCharge' = SumFunctionOnSet(h, Streams)
  BY Zenon DEF StreamCharge
<1> HIDE DEF f, h
<1>6. IsFiniteSet(Streams) /\ Agree(f, h, Streams \ {s})
  BY <1>4, FiniteAssumption, Zenon
<1>7. SumFunctionOnSet(h, Streams) = SumFunctionOnSet(f, Streams) - f[s] + h[s]
  BY <1>2, <1>3, <1>6, SumUpdate, ZenonT(40), ZenonT(40)
<1> QED  BY <1>4, <1>5, <1>7, ZenonT(40), ZenonT(40)

\* The charge of the entries does not grow when nothing comes alive.
LEMMA EntryChargeKept ==
    ASSUME BInv, entry' = entry, Live' \subseteq Live
    PROVE  EntryCharge' <= EntryCharge
<1> DEFINE f == [r \in Streams |-> entry[r].permit]
<1>1. Counts(f, Live) /\ IsFiniteSet(Live) /\ Live' \in SUBSET Live
  BY FiniteAssumption, FS_Subset, Zenon DEF BInv, Priced, Counts, Live
<1>2. EntryCharge = SumFunctionOnSet(f, Live) /\ EntryCharge' = SumFunctionOnSet(f, Live')
  BY Zenon DEF EntryCharge
<1> HIDE DEF f
<1>3. SumFunctionOnSet(f, Live') <= SumFunctionOnSet(f, Live)
  BY <1>1, SumGrows, ZenonT(40)
<1> QED  BY <1>2, <1>3, Zenon, SMTT(30)

\* A publication by s adds the charge of the entry of s, and nothing else.
LEMMA EntryChargeMoved ==
    ASSUME BInv, NEW s \in Streams, s \notin Live, Live' \subseteq Live \cup {s},
           \A r \in Streams : Priced(entry'[r]) /\ (r # s => entry'[r] = entry[r])
    PROVE  EntryCharge' <= EntryCharge + entry'[s].permit
<1> DEFINE f == [r \in Streams |-> entry[r].permit]
           h == [r \in Streams |-> entry'[r].permit]
           all == Live \cup {s}
<1>1. Live \subseteq Streams /\ all \subseteq Streams
  BY Zenon DEF Live
<1>2. IsFiniteSet(all) /\ IsFiniteSet(Live)
  BY <1>1, FiniteAssumption, FS_Subset, Zenon, SMTT(30)
<1>3. Counts(h, all) /\ Counts(f, Live) /\ h[s] = entry'[s].permit /\ h[s] \in Nat
  BY <1>1, Zenon DEF BInv, Priced, Counts
<1>4. Agree(f, h, Live) /\ all \ {s} = Live /\ s \in all /\ Live' \in SUBSET all
  BY <1>1, Zenon DEF Agree
<1>5. EntryCharge = SumFunctionOnSet(f, Live) /\ EntryCharge' = SumFunctionOnSet(h, Live')
  BY Zenon DEF EntryCharge
<1> HIDE DEF f, h, all
<1>6. SumFunctionOnSet(h, Live') <= SumFunctionOnSet(h, all)
  BY <1>2, <1>3, <1>4, SumGrows, ZenonT(40), ZenonT(40)
<1>7. SumFunctionOnSet(h, all) = h[s] + SumFunctionOnSet(h, all \ {s})
  <2>1. IsFiniteSet(all) /\ Counts(h, all) /\ s \in all
    BY <1>2, <1>3, <1>4, ZenonT(40)
  <2> QED  BY <2>1, SumRemove
<1>8. SumFunctionOnSet(h, Live) = SumFunctionOnSet(f, Live)
  BY <1>2, <1>4, SumAgree, ZenonT(40), ZenonT(40)
<1>9. SumFunctionOnSet(f, Live) \in Nat
  BY <1>2, <1>3, SumNat, Zenon
<1>10. SumFunctionOnSet(h, all) = h[s] + EntryCharge
  BY <1>4, <1>5, <1>7, <1>8, Zenon
<1>11. EntryCharge' <= h[s] + EntryCharge /\ EntryCharge \in Nat
  BY <1>5, <1>6, <1>9, <1>10, ZenonT(40), ZenonT(40)
<1> QED  BY <1>3, <1>11, SMTT(30), SMTT(30)

\* What a step makes of stream s: it lets go of what it held, or takes an entry
\* of the map, and is charged no more than it was and was granted.
Turn(s, t, grant) ==
    /\ Keeping(t) /\ t.permit <= streams[s].permit + grant
    /\ \A o \in {t.replay, t.stale} :
         \/ o \in {streams[s].replay, streams[s].stale, Nobody}
         \/ \E k \in Keys : cache.map[k] = o

\* A step of one stream within what admission grants it, which leaves the
\* cache and the entries alone.
LEMMA TurnKeepsInv ==
    ASSUME IInv, BInv, NEW s \in Streams, NEW t, NEW grant \in Nat, Charged + grant <= ResidentLimit,
           Turn(s, t, grant), streams' = [streams EXCEPT ![s] = t], entry' = entry, cache' = cache
    PROVE  BInv'
<1>1. streams'[s] = t /\ \A r \in Streams : r # s => streams'[r] = streams[r]
  BY Zenon, SMTT(30) DEF IInv, StateOK
<1>2. t.permit \in Nat /\ streams[s].permit \in Nat /\ t.permit <= streams[s].permit + grant /\ Keeping(t)
  BY Zenon DEF Turn, Keeping, BInv
<1>3. Live' \subseteq Live
  <2>1. ASSUME NEW o \in Live' PROVE o \in Live
    <3>1. o \in Streams /\ o # Nobody
      BY NamesAssumption, Zenon DEF Live
    <3>2. CASE \E k \in Keys : cache'.map[k] = o
      BY <3>1, <3>2, Zenon DEF Live
    <3>3. CASE \E r \in Streams : o \in {streams'[r].replay, streams'[r].stale}
      <4>1. PICK r \in Streams : o \in {streams'[r].replay, streams'[r].stale}
        BY <3>3, Zenon
      <4>2. CASE r = s
        <5>1. \/ o \in {streams[s].replay, streams[s].stale}
              \/ \E k \in Keys : cache.map[k] = o
          BY <1>1, <3>1, <4>1, <4>2, Zenon DEF Turn
        <5> QED  BY <3>1, <5>1, ZenonT(40) DEF Live
      <4>3. CASE r # s
        BY <1>1, <3>1, <4>1, <4>3, ZenonT(40), ZenonT(40) DEF Live
      <4> QED  BY <4>2, <4>3, Zenon
    <3> QED  BY <3>2, <3>3, ZenonT(40), ZenonT(40) DEF Live
  <2> QED  BY <2>1, Zenon
<1>4. Charged' <= ResidentLimit
  <2>1. EntryCharge' <= EntryCharge
    BY <1>3, EntryChargeKept, Zenon
  <2>2. StreamCharge' = StreamCharge - streams[s].permit + t.permit
    BY <1>2, StreamChargeStep, Zenon
  <2>3. StreamCharge \in Nat /\ EntryCharge \in Nat /\ Charged = StreamCharge + EntryCharge
    BY ChargeNat, Zenon
  <2>4. EntryCharge' \in Int
    <3>1. Counts([r \in Streams |-> entry[r].permit], Live') /\ IsFiniteSet(Live')
      BY FiniteAssumption, FS_Subset, Zenon, SMTT(30) DEF BInv, Priced, Counts, Live
    <3> QED  BY <3>1, SumNat, SMTT(30), SMTT(30) DEF EntryCharge
  <2>5. Charged' = StreamCharge' + EntryCharge'
    BY Zenon DEF Charged, StreamCharge, EntryCharge
  <2> QED  BY <1>2, <2>1, <2>2, <2>3, <2>4, <2>5, LimitsAssumption, SMTT(30), SMTT(30)
<1>5. \A r \in Streams : Keeping(streams'[r])
  BY <1>1, <1>2, ZenonT(40), ZenonT(40) DEF BInv
<1> QED  BY <1>4, <1>5, ZenonT(40) DEF BInv


-----------------------------------------------------------------------------

\* Stream st has become t, which keeps no more.
Lighter(st, t) ==
    /\ DOMAIN t = Fields /\ Keeping(t) /\ t.permit <= st.permit
    /\ t.replay \in {st.replay, Nobody} /\ t.stale \in {st.stale, Nobody}

\* What keeping is about, in st as in t.
SameKept(st, t) ==
    /\ t.batches = st.batches /\ t.size = st.size /\ t.permit = st.permit
    /\ t.replay = st.replay /\ t.stale = st.stale /\ t.key = st.key
    /\ t.mode = st.mode /\ t.outcome = st.outcome /\ t.cacheable = st.cacheable

\* A stream that keeps the same is as light.
LEMMA SameLighter ==
    ASSUME NEW st, Keeping(st), NEW t, DOMAIN t = Fields, SameKept(st, t)
    PROVE  Lighter(st, t)
BY DEF Lighter, Keeping, SameKept, Released

\* A stream that keeps nothing is light.
LEMMA ReleasedLighter ==
    ASSUME NEW st, Keeping(st), NEW t, DOMAIN t = Fields, Released(t), t.mode # "UNOPENED" => t.key \in Keys
    PROVE  Lighter(st, t)
BY DEF Lighter, Keeping, Released, Owners

\* Passing a batch on keeps what there is.
LEMMA DeliverLighter ==
    ASSUME NEW st, DOMAIN st = Fields, Keeping(st), NEW b, NEW t, t = Deliver(st, b)
    PROVE  Lighter(st, t)
<1>1. PICK d : d = Append(st.delivered, b)
  BY Zenon
<1>2. t = [st EXCEPT !.delivered = d, !.pulling = FALSE]
  BY <1>1, Zenon DEF Deliver, Fields
<1>3. DOMAIN t = Fields /\ SameKept(st, t)
  BY <1>2 DEF SameKept, Fields
<1> QED  BY <1>3, SameLighter, Zenon

\* Serving a batch keeps what there is; the end lets everything go.
LEMMA ReplayedLighter ==
    ASSUME NEW st, DOMAIN st = Fields, Keeping(st), st.outcome = "OPEN", st.mode # "UNOPENED",
           NEW q, NEW t, t = Replayed(st, q)
    PROVE  Lighter(st, t)
<1>1. CASE st.index < Len(q)
  <2>1. PICK d : d = Append(st.delivered, q[st.index + 1])
    BY Zenon
  <2>2. PICK n : n = st.index + 1
    BY Zenon
  <2>3. t = [st EXCEPT !.index = n, !.delivered = d, !.pulling = FALSE]
    BY <1>1, <2>1, <2>2, Zenon DEF Replayed, Deliver, Fields
  <2>4. DOMAIN t = Fields /\ SameKept(st, t)
    BY <2>3, Zenon DEF SameKept, Fields
  <2> QED  BY <2>4, SameLighter, Zenon
<1>2. CASE ~(st.index < Len(q))
  <2>1. t = [st EXCEPT !.replay = Nobody, !.stale = Nobody, !.batches = <<>>, !.size = 0, !.permit = 0,
                       !.outcome = "SUCCEEDED", !.pulling = FALSE, !.mode = "DRAINED"]
    BY <1>2, Zenon DEF Replayed, Drained, Finish, ClearCandidate, ClearReplayEntries, Fields
  <2>2. DOMAIN t = Fields /\ Released(t) /\ t.key = st.key
    BY <2>1 DEF Fields, Released
  <2> QED  BY <2>2, ReleasedLighter, Zenon DEF Keeping
<1> QED  BY <1>1, <1>2

\* A candidate that did not fit is emitted and then let go.
LEMMA EmitLighter ==
    ASSUME NEW st, DOMAIN st = Fields, Keeping(st), st.outcome = "OPEN", st.mode = "BARRIER_DRAIN_EMIT",
           NEW t, t = ServeBarrierDrainEmit(st)
    PROVE  Lighter(st, t)
<1>1. st.replay = Nobody /\ st.stale = Nobody /\ st.key \in Keys
  BY Zenon DEF Keeping
<1>2. CASE st.index < Len(st.batches)
  <2>1. PICK d : d = Append(st.delivered, st.batches[st.index + 1])
    BY Zenon
  <2>2. PICK n : n = st.index + 1
    BY Zenon
  <2>3. t = [st EXCEPT !.index = n, !.delivered = d, !.pulling = FALSE]
    BY <1>2, <2>1, <2>2 DEF ServeBarrierDrainEmit, Deliver, Fields
  <2>4. DOMAIN t = Fields /\ SameKept(st, t)
    BY <2>3, Zenon DEF SameKept, Fields
  <2> QED  BY <2>4, SameLighter, Zenon
<1>3. CASE ~(st.index < Len(st.batches)) /\ st.pending # NoBatch
  <2>1. PICK d : d = Append(st.delivered, st.pending)
    BY Zenon
  <2>2. t = [st EXCEPT !.batches = <<>>, !.size = 0, !.permit = 0, !.index = 0, !.pending = NoBatch,
                       !.delivered = d, !.pulling = FALSE]
    BY <1>3, <2>1 DEF ServeBarrierDrainEmit, Deliver, ClearCandidate, Fields
  <2>3. DOMAIN t = Fields /\ Released(t) /\ t.key = st.key
    BY <1>1, <2>2, Zenon, SMTT(30) DEF Fields, Released
  <2> QED  BY <1>1, <2>3, ReleasedLighter, Zenon
<1>4. CASE ~(st.index < Len(st.batches)) /\ st.pending = NoBatch
  <2>1. t = [st EXCEPT !.batches = <<>>, !.size = 0, !.permit = 0, !.index = 0,
                       !.mode = "BARRIER_DRAINED_UNCACHED", !.pulling = TRUE]
    BY <1>4, Zenon DEF ServeBarrierDrainEmit, ClearCandidate, Fields
  <2>2. DOMAIN t = Fields /\ Released(t) /\ t.key = st.key
    BY <1>1, <2>1, Zenon DEF Fields, Released
  <2> QED  BY <1>1, <2>2, ReleasedLighter, Zenon
<1> QED  BY <1>2, <1>3, <1>4, Zenon, SMTT(30)

\* A step that makes a stream lighter keeps the invariant.
LEMMA LighterKeepsInv ==
    ASSUME IInv, BInv, NEW s \in Streams, NEW t, Lighter(streams[s], t),
           streams' = [streams EXCEPT ![s] = t], entry' = entry, cache' = cache
    PROVE  BInv'
<1>1. Turn(s, t, 0)
  <2>1. t.permit \in Nat /\ streams[s].permit \in Nat
    BY Zenon DEF BInv, Keeping, Lighter
  <2> QED  BY <2>1, SMTT(30), SMTT(30) DEF Turn, Lighter
<1>2. 0 \in Nat /\ Charged + 0 <= ResidentLimit
  BY ChargeNat DEF BInv
<1> QED  BY <1>1, <1>2, TurnKeepsInv, ZenonT(40), ZenonT(40)

\* Cancel and Close let everything go.
LEMMA StopKeepsInv ==
    ASSUME IInv, BInv, NEW s \in Streams, Cancel(s) \/ Close(s)
    PROVE  BInv'
<1>1. PICK st : st = streams[s]
  BY Zenon
<1>2. PICK u : u = Stopped(st, IF Cancel(s) THEN "CANCELLED" ELSE "CLOSED")
  BY Zenon
<1>3. PICK t : t = IF Cancel(s) THEN u ELSE [u EXCEPT !.mode = "DRAINED", !.cacheable = FALSE]
  BY Zenon
<1>4. DOMAIN st = Fields /\ Keeping(st) /\ st.mode # "UNOPENED" /\ st.outcome = "OPEN"
  BY <1>1, OneStream, Zenon DEF Cancel, Close, Ready, IsStream, BInv
<1>5. PICK outcome \in {"CANCELLED", "CLOSED"} :
          u = [st EXCEPT !.outcome = outcome, !.pulling = FALSE, !.replay = Nobody, !.stale = Nobody,
                         !.batches = <<>>, !.size = 0, !.permit = 0, !.pending = NoBatch]
  BY <1>2, <1>4, Zenon DEF Stopped, Finish, ClearCandidate, ClearReplayEntries, Fields
<1>6. DOMAIN u = Fields /\ Released(u) /\ u.key = st.key
  BY <1>4, <1>5, Zenon DEF Released, Fields
<1>7. DOMAIN t = Fields /\ Released(t) /\ t.key = st.key
  BY <1>3, <1>6, Zenon, SMTT(30) DEF Released, Fields
<1>8. Lighter(st, t)
  BY <1>4, <1>7, ReleasedLighter, Zenon DEF Keeping
<1>9. streams' = [streams EXCEPT ![s] = t] /\ entry' = entry /\ cache' = cache
  BY <1>1, <1>2, <1>3, ZenonT(40), ZenonT(40) DEF Cancel, Close, Put
<1> QED  BY <1>1, <1>8, <1>9, LighterKeepsInv, ZenonT(40), ZenonT(40)

\* Next of a stream that serves what it has, or turns to the wrapped stream.
LEMMA PullKeepsInv ==
    ASSUME IInv, BInv, NEW s \in Streams, Pull(s)
    PROVE  BInv'
<1>1. PICK st : st = streams[s]
  BY Zenon
<1>2. DOMAIN st = Fields /\ Keeping(st) /\ st.mode # "UNOPENED" /\ st.outcome = "OPEN"
        /\ entry' = entry /\ cache' = cache
  BY <1>1, OneStream, Zenon DEF Pull, Ready, IsStream, BInv
<1>3. CASE st.mode \in {"FRESH_HIT_REPLAY", "BARRIER_FRESH_SERVE", "STALE_SERVE"}
  <2>1. PICK q : streams' = [streams EXCEPT ![s] = Replayed(st, q)]
    BY <1>1, <1>3, Zenon DEF Pull, Put, ServeBarrierFresh, ServeStale
  <2>2. Lighter(st, Replayed(st, q))
    BY <1>2, ReplayedLighter, Zenon
  <2> QED  BY <1>1, <1>2, <2>1, <2>2, LighterKeepsInv, ZenonT(40), ZenonT(40)
<1>4. CASE st.mode = "BARRIER_DRAIN_EMIT"
  <2>1. streams' = [streams EXCEPT ![s] = ServeBarrierDrainEmit(st)]
    BY <1>1, <1>4, Zenon DEF Pull, Put
  <2>2. Lighter(st, ServeBarrierDrainEmit(st))
    BY <1>2, <1>4, EmitLighter, ZenonT(40)
  <2> QED  BY <1>1, <1>2, <2>1, <2>2, LighterKeepsInv, ZenonT(40), ZenonT(40)
<1>5. CASE st.mode \notin {"FRESH_HIT_REPLAY", "BARRIER_FRESH_SERVE", "STALE_SERVE", "BARRIER_DRAIN_EMIT"}
  <2>1. PICK t : t = [st EXCEPT !.pulling = TRUE]
    BY Zenon
  <2>2. streams' = [streams EXCEPT ![s] = t]
    BY <1>1, <1>5, <2>1, ZenonT(40), ZenonT(40) DEF Pull, Put
  <2>3. DOMAIN t = Fields /\ SameKept(st, t)
    BY <1>2, <2>1, Zenon DEF SameKept, Fields
  <2>4. Lighter(st, t)
    BY <1>2, <2>3, SameLighter, ZenonT(40), ZenonT(40)
  <2> QED  BY <1>1, <1>2, <2>2, <2>4, LighterKeepsInv, ZenonT(40), ZenonT(40)
<1> QED  BY <1>3, <1>4, <1>5, Zenon


\* Keeping no more, twice.
LEMMA LighterTwice ==
    ASSUME NEW r, NEW st, NEW t, Keeping(r), Lighter(r, st), Lighter(st, t)
    PROVE  Lighter(r, t)
BY DEF Lighter, Keeping

\* Stream st has become t, whose candidate has grown by a batch.
Grown(st, t, size) ==
    /\ DOMAIN t = Fields /\ t.size = st.size + size /\ t.permit = st.size + size
    /\ t.replay = st.replay /\ t.stale = st.stale /\ t.key = st.key
    /\ t.mode = st.mode /\ t.outcome = st.outcome /\ t.cacheable = st.cacheable

\* Retaining a batch takes what admission granted for it.
LEMMA GrownKeepsInv ==
    ASSUME IInv, BInv, NEW s \in Streams, NEW size \in BatchSizes, Reservable(s, size), NEW t,
           Grown(streams[s], t, size), streams[s].outcome = "OPEN",
           streams[s].mode = "BARRIER_BUFFERING" \/ (streams[s].mode = "ACCUMULATING_MISS" /\ streams[s].cacheable),
           streams' = [streams EXCEPT ![s] = t], entry' = entry, cache' = cache
    PROVE  BInv'
<1>1. size \in Nat /\ Charged + size <= ResidentLimit
  BY LimitsAssumption, Zenon DEF Reservable
<1>2. Keeping(streams[s])
  BY Zenon, SMTT(30) DEF BInv
<1>3. Keeping(t)
  BY <1>1, <1>2, SMTT(30), SMTT(30) DEF Keeping, Grown
<1>4. Turn(s, t, size)
  BY <1>1, <1>2, <1>3 DEF Turn, Grown, Keeping
<1> QED  BY <1>1, <1>4, TurnKeepsInv, ZenonT(40), ZenonT(40)

\* The wrapped stream yields a batch, which is retained within what admission
\* grants, or passed on without being retained.
LEMMA BatchKeepsInv ==
    ASSUME IInv, BInv, NEW s \in Streams, NEW size \in BatchSizes, NEW retained \in BOOLEAN,
           BatchArrives(s, size, retained)
    PROVE  BInv'
<1>1. PICK st : st = streams[s]
  BY Zenon
<1>2. PICK v : v = [st EXCEPT !.produced = st.produced + 1]
  BY Zenon
<1>3. PICK b : b = <<s, v.produced>>
  BY Zenon
<1>4. /\ DOMAIN st = Fields /\ Keeping(st) /\ st.outcome = "OPEN" /\ ModeOK(s, st, entry)
      /\ st.mode \in {"ACCUMULATING_MISS", "BARRIER_BUFFERING", "BARRIER_DRAINED_UNCACHED"}
  <2>1. st.pulling
    BY <1>1, Zenon DEF BatchArrives
  <2>2. IsStream(st) /\ st.outcome = "OPEN" /\ ModeOK(s, st, entry)
        /\ st.mode \in {"ACCUMULATING_MISS", "BARRIER_BUFFERING", "BARRIER_DRAINED_UNCACHED"}
    BY <1>1, <2>1, PullingFacts, ZenonT(40), ZenonT(40)
  <2> QED  BY <1>1, <2>2, Zenon DEF BInv, IsStream
<1>5. DOMAIN v = Fields /\ SameKept(st, v)
  BY <1>2, <1>4, Zenon, SMTT(30) DEF SameKept, Fields
<1>6. Lighter(st, v) /\ Keeping(v)
  BY <1>4, <1>5, SameLighter, Zenon DEF Lighter
<1>7. v = [streams[s] EXCEPT !.produced = @ + 1]
  BY <1>1, <1>2, Zenon
<1>8. /\ entry' = entry /\ cache' = cache
      /\ streams' = [streams EXCEPT ![s] = Arrived(v, b, size, retained)]
      /\ retained => Reservable(s, size) /\ v.cacheable /\ v.mode # "BARRIER_DRAINED_UNCACHED"
  BY <1>3, <1>7, ZenonT(40), ZenonT(40) DEF BatchArrives, Put
<1>9. v.mode = st.mode /\ v.outcome = "OPEN" /\ v.cacheable = st.cacheable
  BY <1>4, <1>5, Zenon DEF SameKept
<1>10. ASSUME NEW t, t = Arrived(v, b, size, retained), Lighter(v, t)
       PROVE  BInv'
  <2>1. Lighter(st, t)
    BY <1>4, <1>6, <1>10, LighterTwice, ZenonT(40), ZenonT(40)
  <2> QED  BY <1>1, <1>8, <1>10, <2>1, LighterKeepsInv, ZenonT(40), ZenonT(40)
<1>11. CASE retained
  <2>1. PICK u : u = Retained(v, b, size)
    BY Zenon
  <2>2. PICK q : q = Append(v.batches, b)
    BY Zenon
  <2>3. u = [v EXCEPT !.batches = q, !.size = v.size + size, !.permit = v.size + size]
    BY <1>5, <2>1, <2>2, Zenon, SMTT(30) DEF Retained, Fields
  <2>4. Grown(st, u, size)
    BY <1>5, <2>3, Zenon DEF Grown, SameKept, Fields
  <2>5. PICK t : t = Arrived(v, b, size, retained)
    BY ZenonT(40), ZenonT(40)
  <2>6. Grown(st, t, size)
    <3>1. CASE st.mode = "ACCUMULATING_MISS"
      <4>1. PICK d : d = Append(u.delivered, b)
        BY Zenon
      <4>2. t = Deliver(u, b)
        BY <1>9, <1>11, <2>1, <2>5, <3>1, ZenonT(40), ZenonT(40) DEF Arrived
      <4>3. t = [u EXCEPT !.delivered = d, !.pulling = FALSE]
        BY <2>4, <4>1, <4>2, Zenon, SMTT(30) DEF Deliver, Grown, Fields
      <4> QED  BY <2>4, <4>3, Zenon DEF Grown, Fields
    <3>2. CASE st.mode = "BARRIER_BUFFERING"
      <4>1. t = u
        BY <1>9, <1>11, <2>1, <2>5, <3>2, ZenonT(40), ZenonT(40) DEF Arrived
      <4> QED  BY <2>4, <4>1, Zenon
    <3> QED  BY <1>4, <1>8, <1>9, <1>11, <3>1, <3>2, Zenon, SMTT(30)
  <2>7. st.mode = "BARRIER_BUFFERING" \/ (st.mode = "ACCUMULATING_MISS" /\ st.cacheable)
    BY <1>4, <1>8, <1>9, <1>11, Zenon, SMTT(30)
  <2> QED  BY <1>1, <1>4, <1>8, <1>11, <2>5, <2>6, <2>7, GrownKeepsInv, ZenonT(40), ZenonT(40)
<1>12. CASE ~retained /\ st.mode = "ACCUMULATING_MISS"
  <2>1. PICK u : u = IF ~v.cacheable THEN v
                     ELSE [ClearCandidate(v) EXCEPT !.cacheable = FALSE, !.status = "STORE_BYPASSED_CAPACITY"]
    BY Zenon
  <2>2. PICK t : t = Deliver(u, b)
    BY Zenon
  <2>3. t = Arrived(v, b, size, retained)
    BY <1>9, <1>12, <2>1, <2>2, ZenonT(40), ZenonT(40) DEF Arrived
  <2>4. DOMAIN u = Fields /\ Lighter(v, u)
    <3>1. CASE ~v.cacheable
      BY <1>5, <1>6, <2>1, <3>1, SameLighter, Zenon, SMTT(30) DEF SameKept
    <3>2. CASE v.cacheable
      <4>1. u = [v EXCEPT !.batches = <<>>, !.size = 0, !.permit = 0, !.cacheable = FALSE,
                          !.status = "STORE_BYPASSED_CAPACITY"]
        BY <1>5, <2>1, <3>2, Zenon, SMTT(30) DEF ClearCandidate, Fields
      <4>2. v.replay = Nobody /\ v.stale = Nobody /\ v.key \in Keys
        BY <1>6, <1>9, <1>12, Zenon DEF Keeping
      <4>3. DOMAIN u = Fields /\ Released(u) /\ u.key = v.key
        BY <1>5, <4>1, <4>2, Zenon, SMTT(30) DEF Released, Fields
      <4> QED  BY <1>6, <4>2, <4>3, ReleasedLighter, Zenon, SMTT(30)
    <3> QED  BY <3>1, <3>2, Zenon
  <2>5. Keeping(u)
    BY <2>4, Zenon DEF Lighter
  <2>6. Lighter(u, t)
    BY <2>2, <2>4, <2>5, DeliverLighter, ZenonT(40), ZenonT(40)
  <2>7. Lighter(v, t)
    BY <1>6, <2>4, <2>6, LighterTwice, ZenonT(40), ZenonT(40)
  <2> QED  BY <1>10, <2>3, <2>7, Zenon, SMTT(30)
<1>13. CASE ~retained /\ st.mode = "BARRIER_BUFFERING"
  <2>1. PICK u : u = [v EXCEPT !.pending = b, !.index = 0, !.stale = Nobody, !.mode = "BARRIER_DRAIN_EMIT",
                              !.status = "REFRESH_STREAMED_CAPACITY"]
    BY Zenon
  <2>2. PICK t : t = ServeBarrierDrainEmit(u)
    BY Zenon
  <2>3. t = Arrived(v, b, size, retained)
    BY <1>9, <1>13, <2>1, <2>2, ZenonT(40), ZenonT(40) DEF Arrived
  <2>4. /\ DOMAIN u = Fields /\ u.size = v.size /\ u.permit = v.permit /\ u.stale = Nobody /\ u.replay = v.replay
        /\ u.mode = "BARRIER_DRAIN_EMIT" /\ u.outcome = "OPEN" /\ u.key = v.key
    BY <1>5, <1>9, <2>1, Zenon, SMTT(30) DEF Fields
  <2>5. v.replay = Nobody
    BY <1>4, <1>5, <1>13, Zenon, SMTT(30) DEF ModeOK, SameKept
  <2>6. Keeping(u) /\ Lighter(v, u)
    BY <1>6, <1>9, <1>13, <2>4, <2>5, SMTT(30), SMTT(30) DEF Keeping, Lighter
  <2>7. Lighter(u, t)
    BY <2>2, <2>4, <2>6, EmitLighter, ZenonT(40), ZenonT(40)
  <2>8. Lighter(v, t)
    BY <1>6, <2>6, <2>7, LighterTwice, ZenonT(40), ZenonT(40)
  <2> QED  BY <1>10, <2>3, <2>8, Zenon
<1>14. CASE ~retained /\ st.mode = "BARRIER_DRAINED_UNCACHED"
  <2>1. PICK t : t = Deliver(v, b)
    BY Zenon
  <2>2. t = Arrived(v, b, size, retained)
    BY <1>9, <1>14, <2>1, ZenonT(40), ZenonT(40) DEF Arrived
  <2>3. Lighter(v, t)
    BY <1>5, <1>6, <2>1, DeliverLighter, ZenonT(40), ZenonT(40)
  <2> QED  BY <1>10, <2>2, <2>3, Zenon
<1> QED  BY <1>4, <1>11, <1>12, <1>13, <1>14, Zenon, SMTT(30)

\* The wrapped stream fails: the stale entry is served, or everything let go.
LEMMA FailKeepsInv ==
    ASSUME IInv, BInv, NEW s \in Streams, NEW f, ScanFails(s, f)
    PROVE  BInv'
<1>1. PICK st : st = streams[s]
  BY ZenonT(40), ZenonT(40)
<1>2. /\ DOMAIN st = Fields /\ Keeping(st) /\ st.outcome = "OPEN" /\ ModeOK(s, st, entry)
      /\ st.mode \in {"ACCUMULATING_MISS", "BARRIER_BUFFERING", "BARRIER_DRAINED_UNCACHED"}
  <2>1. st.pulling
    BY <1>1, Zenon DEF ScanFails
  <2>2. IsStream(st) /\ st.outcome = "OPEN" /\ ModeOK(s, st, entry)
        /\ st.mode \in {"ACCUMULATING_MISS", "BARRIER_BUFFERING", "BARRIER_DRAINED_UNCACHED"}
    BY <1>1, <2>1, PullingFacts, ZenonT(40)
  <2> QED  BY <1>1, <2>2, Zenon DEF BInv, IsStream
<1>3. entry' = entry /\ cache' = cache
  BY Zenon DEF ScanFails
<1>4. CASE MayLatch(st, f)
  <2>1. PICK age : age = Age(entry[st.stale].stored)
    BY Zenon
  <2>2. PICK u : u = [ClearCandidate(st) EXCEPT !.mode = "STALE_SERVE", !.index = 0, !.status = "STALE_SERVED",
                        !.cause = f, !.age = age]
    BY Zenon
  <2>3. PICK q : q = entry[u.stale].batches
    BY Zenon
  <2>4. streams' = [streams EXCEPT ![s] = Replayed(u, q)]
    BY <1>1, <1>4, <2>1, <2>2, <2>3, ZenonT(40), ZenonT(40) DEF ScanFails, Put, ServeStale
  <2>5. u = [st EXCEPT !.batches = <<>>, !.size = 0, !.permit = 0, !.mode = "STALE_SERVE", !.index = 0,
                       !.status = "STALE_SERVED", !.cause = f, !.age = age]
    BY <1>2, <2>2, Zenon DEF ClearCandidate, Fields
  <2>6. /\ DOMAIN u = Fields /\ u.size = 0 /\ u.permit = 0 /\ u.mode = "STALE_SERVE" /\ u.outcome = "OPEN"
        /\ u.replay = st.replay /\ u.stale = st.stale /\ u.key = st.key
    BY <1>2, <2>5, Zenon, SMTT(30) DEF Fields
  <2>7. Keeping(u) /\ Lighter(st, u)
    BY <1>2, <2>6 DEF Keeping, Lighter
  <2>8. Lighter(u, Replayed(u, q))
    BY <2>6, <2>7, ReplayedLighter, ZenonT(40), ZenonT(40)
  <2>9. Lighter(st, Replayed(u, q))
    BY <1>2, <2>7, <2>8, LighterTwice, ZenonT(40), ZenonT(40)
  <2> QED  BY <1>1, <1>3, <2>4, <2>9, LighterKeepsInv, ZenonT(40), ZenonT(40)
<1>5. CASE ~MayLatch(st, f)
  <2>1. PICK u : u = IF st.mode = "BARRIER_BUFFERING" /\ IsEligibleStaleFailure(f)
                     THEN [st EXCEPT !.status = "EXPIRED_DURING_REFRESH"] ELSE st
    BY Zenon
  <2>2. PICK t : t = Failed(u)
    BY Zenon
  <2>3. streams' = [streams EXCEPT ![s] = t]
    BY <1>1, <1>5, <2>1, <2>2, ZenonT(40), ZenonT(40) DEF ScanFails, Put
  <2>4. DOMAIN u = Fields /\ u.outcome = "OPEN" /\ u.key = st.key
    BY <1>2, <2>1, Zenon DEF Fields
  <2>5. t = [u EXCEPT !.replay = Nobody, !.stale = Nobody, !.batches = <<>>, !.size = 0, !.permit = 0,
                      !.outcome = "FAILED", !.pulling = FALSE, !.mode = "FAILED"]
    BY <2>2, <2>4, Zenon DEF Failed, Finish, ClearCandidate, ClearReplayEntries, Fields
  <2>6. DOMAIN t = Fields /\ Released(t) /\ t.key = st.key
    BY <2>4, <2>5, Zenon, SMTT(30) DEF Released, Fields
  <2>7. Lighter(st, t)
    BY <1>2, <2>6, ReleasedLighter, Zenon DEF Keeping
  <2> QED  BY <1>1, <1>3, <2>3, <2>7, LighterKeepsInv, ZenonT(40), ZenonT(40)
<1> QED  BY <1>4, <1>5, Zenon


\* A stream looks its key up, and shares the entry it finds with the map.
LEMMA OpenKeepsInv ==
    ASSUME IInv, BInv, NEW s \in Streams, NEW k \in Keys, NEW policy, Open(s, k, policy)
    PROVE  BInv'
<1>1. PICK st : st = [NewStream EXCEPT !.key = k]
  BY Zenon
<1>2. PICK hit : hit = cache.map[k]
  BY Zenon
<1>3. PICK age : age = Age(entry[hit].stored)
  BY Zenon
<1>4. PICK t : t = CASE Lookup(k, policy) = "FRESH_HIT" ->
                          [st EXCEPT !.mode = "FRESH_HIT_REPLAY", !.replay = hit, !.status = "FRESH_HIT", !.age = age]
                     [] Lookup(k, policy) = "STALE_CANDIDATE" ->
                          [st EXCEPT !.mode = "BARRIER_BUFFERING", !.stale = hit]
                     [] OTHER -> [st EXCEPT !.mode = "ACCUMULATING_MISS"]
  BY Zenon
<1>5. streams' = [streams EXCEPT ![s] = t] /\ entry' = entry /\ cache' = cache
  BY <1>1, <1>2, <1>3, <1>4, ZenonT(40), ZenonT(40) DEF Open, Put
<1>6. hit \in Owners
  BY <1>2, Zenon DEF BInv, Exact, In, Owners
<1>7. /\ st.size = 0 /\ st.permit = 0 /\ st.replay = Nobody /\ st.stale = Nobody /\ st.batches = <<>>
      /\ st.key = k /\ st.cacheable = TRUE /\ st.outcome = "OPEN" /\ DOMAIN st = Fields
  BY <1>1, Zenon DEF NewStream, Fields
<1>8. /\ t.size = 0 /\ t.permit = 0 /\ t.key = k /\ t.cacheable = TRUE /\ t.outcome = "OPEN"
      /\ \/ t.mode = "FRESH_HIT_REPLAY" /\ t.replay = hit /\ t.stale = Nobody
         \/ t.mode = "BARRIER_BUFFERING" /\ t.replay = Nobody /\ t.stale = hit
         \/ t.mode = "ACCUMULATING_MISS" /\ t.replay = Nobody /\ t.stale = Nobody
  BY <1>4, <1>7, Zenon, SMTT(30) DEF Fields
<1>9. Keeping(t)
  BY <1>6, <1>8, SMTT(30), SMTT(30) DEF Keeping, Owners
<1>10. Turn(s, t, 0)
  <2>1. streams[s].permit \in Nat
    BY Zenon DEF BInv, Keeping
  <2>2. \A o \in {t.replay, t.stale} : o = Nobody \/ o = cache.map[k]
    BY <1>2, <1>8, Zenon
  <2> QED  BY <1>8, <1>9, <2>1, <2>2, SMTT(30), SMTT(30) DEF Turn
<1>11. 0 \in Nat /\ Charged + 0 <= ResidentLimit
  BY ChargeNat DEF BInv
<1> QED  BY <1>5, <1>10, <1>11, TurnKeepsInv, ZenonT(40), ZenonT(40)

\* A stream that has published its candidate keeps its entry or nothing: the
\* charge has moved with the batches.
LEMMA PublishKeepsInv ==
    ASSUME IInv, BInv, NEW s \in Streams, ~streams[s].ended, streams[s].key \in Keys, NEW t,
           Keeping(t), t.permit = 0, {t.replay, t.stale} \subseteq {s, streams[s].replay, streams[s].stale, Nobody},
           streams' = [streams EXCEPT ![s] = t],
           entry' = Published(s).entry, cache' = Published(s).cache
    PROVE  BInv'
<1>1. PublishedOK(s, cache', entry')
  BY PublishExact, Zenon
<1>2. streams'[s] = t /\ \A r \in Streams : r # s => streams'[r] = streams[r]
  BY Zenon DEF IInv, StateOK
<1>3. /\ Exact(cache', entry') /\ Bounded(cache')
      /\ \A k \in Keys : cache'.map[k] \in {cache.map[k], s, Nobody}
      /\ \A r \in Streams : Priced(entry'[r]) /\ (r # s => entry'[r] = entry[r])
      /\ entry'[s].permit = streams[s].permit
  BY <1>1, ZenonT(40) DEF PublishedOK
<1>4. Live' \subseteq Live \cup {s}
  <2>1. ASSUME NEW o \in Live', o # s PROVE o \in Live
    <3>1. o \in Streams /\ o # Nobody
      BY NamesAssumption, Zenon DEF Live
    <3>2. CASE \E k \in Keys : cache'.map[k] = o
      <4>1. \E k \in Keys : cache.map[k] = o
        BY <1>3, <2>1, <3>1, <3>2, Zenon, SMTT(30)
      <4> QED  BY <3>1, <4>1, ZenonT(40), ZenonT(40) DEF Live
    <3>3. CASE \E r \in Streams : o \in {streams'[r].replay, streams'[r].stale}
      <4>1. PICK r \in Streams : o \in {streams'[r].replay, streams'[r].stale}
        BY <3>3, Zenon
      <4>2. o \in {streams[r].replay, streams[r].stale}
        BY <1>2, <2>1, <3>1, <4>1, Zenon, SMTT(30)
      <4> QED  BY <3>1, <4>2, ZenonT(40), ZenonT(40) DEF Live
    <3> QED  BY <3>2, <3>3, ZenonT(40), ZenonT(40) DEF Live
  <2> QED  BY <2>1, Zenon
<1>5. s \notin Live
  BY ScanningOwnsNothing, ZenonT(40), ZenonT(40)
<1>6. EntryCharge' <= EntryCharge + streams[s].permit
  <2>1. EntryCharge' <= EntryCharge + entry'[s].permit
    BY <1>3, <1>4, <1>5, EntryChargeMoved, Zenon, SMTT(30)
  <2> QED  BY <1>3, <2>1, Zenon, SMTT(30)
<1>7. StreamCharge' = StreamCharge - streams[s].permit
  <2>1. StreamCharge' = StreamCharge - streams[s].permit + t.permit
    <3>1. t.permit \in Nat
      BY SMTT(30), SMTT(30)
    <3> QED  BY <3>1, StreamChargeStep, ZenonT(40), ZenonT(40)
  <2>2. StreamCharge \in Nat /\ streams[s].permit \in Nat
    BY ChargeNat, Zenon, SMTT(30) DEF BInv, Keeping
  <2> QED  BY <2>1, <2>2
<1>8. Charged' <= ResidentLimit
  <2>1. StreamCharge \in Nat /\ EntryCharge \in Nat /\ Charged = StreamCharge + EntryCharge /\ Charged <= ResidentLimit
    BY ChargeNat, Zenon, SMTT(30) DEF BInv
  <2>2. EntryCharge' \in Int
    <3>1. Counts([r \in Streams |-> entry'[r].permit], Live') /\ IsFiniteSet(Live')
      BY <1>3, FiniteAssumption, FS_Subset, Zenon, SMTT(30) DEF Priced, Counts, Live
    <3> QED  BY <3>1, SumNat, SMTT(30), SMTT(30) DEF EntryCharge
  <2>3. Charged' = StreamCharge' + EntryCharge'
    BY Zenon, SMTT(30) DEF Charged, StreamCharge, EntryCharge
  <2>4. streams[s].permit \in Nat
    BY Zenon DEF BInv, Keeping
  <2> QED  BY <1>6, <1>7, <2>1, <2>2, <2>3, <2>4, LimitsAssumption, SMTT(30), SMTT(30)
<1>9. \A r \in Streams : Keeping(streams'[r])
  BY <1>2, Zenon DEF BInv
<1> QED  BY <1>3, <1>8, <1>9, ZenonT(40), ZenonT(40) DEF BInv

\* The wrapped stream ends: its candidate is published, served or let go.
LEMMA EndKeepsInv ==
    ASSUME IInv, BInv, NEW s \in Streams, NEW stored \in BOOLEAN, ScanEnds(s, stored)
    PROVE  BInv'
<1>1. PICK st : st = streams[s]
  BY ZenonT(40), ZenonT(40)
<1>2. /\ DOMAIN st = Fields /\ Keeping(st) /\ st.outcome = "OPEN" /\ ModeOK(s, st, entry) /\ ~st.ended
      /\ st.mode \in {"ACCUMULATING_MISS", "BARRIER_BUFFERING", "BARRIER_DRAINED_UNCACHED"}
  <2>1. st.pulling
    BY <1>1 DEF ScanEnds
  <2>2. IsStream(st) /\ st.outcome = "OPEN" /\ ModeOK(s, st, entry) /\ ~st.ended
        /\ st.mode \in {"ACCUMULATING_MISS", "BARRIER_BUFFERING", "BARRIER_DRAINED_UNCACHED"}
    BY <1>1, <2>1, PullingFacts, ZenonT(40), ZenonT(40)
  <2> QED  BY <1>1, <2>2, Zenon DEF BInv, IsStream
<1>3. PICK v : v = [st EXCEPT !.ended = TRUE]
  BY Zenon
<1>4. PICK status : status = IF stored THEN "REFRESHED" ELSE "STORE_BYPASSED_CAPACITY"
  BY Zenon
<1>5. DOMAIN v = Fields /\ SameKept(st, v)
  BY <1>2, <1>3, Zenon, SMTT(30) DEF SameKept, Fields
<1>6. Lighter(st, v) /\ Keeping(v) /\ v.mode = st.mode /\ v.outcome = "OPEN" /\ v.cacheable = st.cacheable
      /\ st.key \in Keys /\ v.key = st.key
  BY <1>2, <1>5, SameLighter, Zenon, SMTT(30) DEF Lighter, SameKept, Keeping
<1>7. ASSUME NEW t, PublishReserved(s, stored), streams' = [streams EXCEPT ![s] = t],
             ~stored => Lighter(st, t),
             stored => /\ Keeping(t) /\ t.permit = 0
                       /\ {t.replay, t.stale} \subseteq {s, streams[s].replay, streams[s].stale, Nobody}
      PROVE  BInv'
  <2>1. CASE ~stored
    <3>1. entry' = entry /\ cache' = cache
      BY <1>7, <2>1, ZenonT(40) DEF PublishReserved
    <3> QED  BY <1>1, <1>7, <2>1, <3>1, LighterKeepsInv, ZenonT(40), ZenonT(40)
  <2>2. CASE stored
    <3>1. entry' = Published(s).entry /\ cache' = Published(s).cache
      BY <1>7, <2>2, ZenonT(40), ZenonT(40) DEF PublishReserved
    <3>2. ~streams[s].ended /\ streams[s].key \in Keys
      BY <1>1, <1>2, <1>6, Zenon
    <3> QED  BY <1>7, <2>2, <3>1, <3>2, PublishKeepsInv, ZenonT(40), ZenonT(40)
  <2> QED  BY <2>1, <2>2, Zenon
<1>8. CASE st.mode = "ACCUMULATING_MISS" /\ st.cacheable
  <2>1. PICK t : t = Drained([ClearCandidate(v) EXCEPT !.status = status, !.cacheable = FALSE])
    BY Zenon
  <2>2. PublishReserved(s, stored) /\ streams' = [streams EXCEPT ![s] = t]
    BY <1>1, <1>3, <1>4, <1>6, <1>8, <2>1, ZenonT(40), ZenonT(40) DEF ScanEnds, Put
  <2>3. t = [v EXCEPT !.batches = <<>>, !.size = 0, !.permit = 0, !.status = status, !.cacheable = FALSE,
                      !.outcome = "SUCCEEDED", !.pulling = FALSE, !.mode = "DRAINED"]
    BY <1>5, <1>6, <2>1, Zenon, SMTT(30) DEF Drained, Finish, ClearCandidate, Fields
  <2>4. v.replay = Nobody /\ v.stale = Nobody
    BY <1>6, <1>8, Zenon DEF Keeping
  <2>5. DOMAIN t = Fields /\ Released(t) /\ t.key = st.key
    BY <1>5, <1>6, <2>3, <2>4, Zenon, SMTT(30) DEF Released, Fields
  <2>6. Lighter(st, t)
    BY <1>2, <1>6, <2>5, ReleasedLighter, Zenon, SMTT(30)
  <2>7. Keeping(t) /\ t.permit = 0 /\ t.replay = Nobody /\ t.stale = Nobody
    BY <2>5, <2>6, Zenon DEF Lighter, Released
  <2> QED  BY <1>7, <2>2, <2>6, <2>7, ZenonT(40), ZenonT(40)
<1>9. CASE st.mode = "BARRIER_BUFFERING"
  <2>1. PICK e : e = IF stored THEN Published(s).entry ELSE entry
    BY Zenon
  <2>2. PICK kept : kept = IF stored THEN [ClearCandidate(v) EXCEPT !.replay = s] ELSE v
    BY Zenon
  <2>3. PICK u : u = [kept EXCEPT !.stale = Nobody, !.index = 0, !.status = status, !.mode = "BARRIER_FRESH_SERVE"]
    BY Zenon
  <2>4. PICK q : q = IF u.replay # Nobody THEN e[u.replay].batches ELSE u.batches
    BY Zenon
  <2>5. PICK t : t = Replayed(u, q)
    BY Zenon
  <2>6. PublishReserved(s, stored) /\ streams' = [streams EXCEPT ![s] = t]
    <3>1. t = ServeBarrierFresh(u, e)
      BY <2>4, <2>5, Zenon DEF ServeBarrierFresh
    <3> QED  BY <1>1, <1>3, <1>4, <1>6, <1>9, <2>1, <2>2, <2>3, <3>1, ZenonT(40),
                ZenonT(40) DEF ScanEnds, Put
  <2>7. /\ DOMAIN u = Fields /\ u.stale = Nobody /\ u.mode = "BARRIER_FRESH_SERVE" /\ u.outcome = "OPEN"
        /\ u.key = v.key
        /\ stored => u.size = 0 /\ u.permit = 0 /\ u.replay = s
        /\ ~stored => u.size = v.size /\ u.permit = v.permit /\ u.replay = v.replay
    <3>1. CASE stored
      <4>1. u = [v EXCEPT !.batches = <<>>, !.size = 0, !.permit = 0, !.replay = s, !.stale = Nobody, !.index = 0,
                          !.status = status, !.mode = "BARRIER_FRESH_SERVE"]
        BY <1>5, <2>2, <2>3, <3>1, Zenon, SMTT(30) DEF ClearCandidate, Fields
      <4> QED  BY <1>5, <1>6, <3>1, <4>1, Zenon, SMTT(30) DEF Fields
    <3>2. CASE ~stored
      BY <1>5, <1>6, <2>2, <2>3, <3>2, Zenon, SMTT(30) DEF Fields
    <3> QED  BY <3>1, <3>2, ZenonT(40), ZenonT(40)
  <2>8. Keeping(u)
    BY <1>6, <1>9, <2>7, SMTT(30), SMTT(30) DEF Keeping, Owners
  <2>9. Lighter(u, t)
    BY <2>5, <2>7, <2>8, ReplayedLighter, Zenon, SMTT(30)
  <2>10. ~stored => Lighter(st, t)
    <3>1. ASSUME ~stored PROVE Lighter(v, u)
      BY <1>6, <2>7, <2>8, <3>1, SMTT(30), SMTT(30) DEF Lighter, Keeping
    <3> QED  BY <1>2, <1>6, <2>9, <3>1, LighterTwice, Zenon, SMTT(30)
  <2>11. stored => /\ Keeping(t) /\ t.permit = 0
                   /\ {t.replay, t.stale} \subseteq {s, streams[s].replay, streams[s].stale, Nobody}
    BY <2>7, <2>9 DEF Lighter, Keeping
  <2> QED  BY <1>7, <2>6, <2>10, <2>11, ZenonT(40), ZenonT(40)
<1>10. CASE ~(st.mode = "ACCUMULATING_MISS" /\ st.cacheable) /\ st.mode # "BARRIER_BUFFERING"
  <2>1. PICK t : t = Drained(v)
    BY Zenon
  <2>2. streams' = [streams EXCEPT ![s] = t] /\ entry' = entry /\ cache' = cache
    BY <1>1, <1>3, <1>6, <1>10, <2>1, ZenonT(40), ZenonT(40) DEF ScanEnds, Put
  <2>3. t = [v EXCEPT !.outcome = "SUCCEEDED", !.pulling = FALSE, !.mode = "DRAINED"]
    BY <1>5, <1>6, <2>1, Zenon, SMTT(30) DEF Drained, Finish, Fields
  <2>4. Released(v)
    BY <1>2, <1>6, <1>10, Zenon, SMTT(30) DEF Keeping
  <2>5. DOMAIN t = Fields /\ Released(t) /\ t.key = st.key
    BY <1>5, <1>6, <2>3, <2>4, Zenon, SMTT(30) DEF Released, Fields
  <2>6. Lighter(st, t)
    BY <1>2, <1>6, <2>5, ReleasedLighter, Zenon
  <2> QED  BY <1>1, <2>2, <2>6, LighterKeepsInv, ZenonT(40), ZenonT(40)
<1> QED  BY <1>8, <1>9, <1>10, Zenon

-----------------------------------------------------------------------------

\* At first nothing is stored and nothing charged.
LEMMA InitBytes == Init => BInv
<1> SUFFICES ASSUME Init PROVE BInv
  BY Zenon
<1>1. \A s \in Streams : streams[s] = NewStream /\ entry[s] = NoEntry
  BY Zenon, SMTT(30) DEF Init
<1>2. Keeping(NewStream) /\ NewStream.permit = 0
  BY Zenon DEF Keeping, NewStream, Owners
<1>3. Priced(NoEntry) /\ NoEntry.permit = 0
  BY Zenon DEF Priced, NoEntry
<1>4. \A s \in Streams : Keeping(streams[s]) /\ Priced(entry[s])
  BY <1>1, <1>2, <1>3, Zenon, SMTT(30)
<1>5. cache.order = 0 /\ cache.bytes = 0 /\ In(cache) = {}
  BY Zenon DEF Init, In
<1>6. Exact(cache, entry)
  BY <1>5, BytesNone, SMTT(30), SMTT(30) DEF Exact
<1>7. Bounded(cache)
  BY <1>5, FS_EmptySet, LimitsAssumption, SMTT(30), SMTT(30) DEF Bounded
<1>8. Live = {}
  BY <1>1, NamesAssumption, Zenon DEF Live, Init, NewStream
<1>9. SumFunctionOnSet([s \in Streams |-> entry[s].permit], Live) = 0
  BY <1>8, SumEmpty, Zenon
<1>10. SumFunctionOnSet([s \in Streams |-> streams[s].permit], Streams) = 0
  <2> DEFINE f == [s \in Streams |-> streams[s].permit]
  <2>1. \A s \in Streams : f[s] = 0
    BY <1>1, <1>2, Zenon
  <2>2. IsFiniteSet(Streams)
    BY FiniteAssumption, Zenon
  <2>3. SumFunctionOnSet(f, Streams) = 0
    <3> HIDE DEF f
    <3> QED  BY <2>1, <2>2, SumZero, ZenonT(40), ZenonT(40)
  <2> QED  BY <2>3, Zenon
<1>11. Charged <= ResidentLimit
  BY <1>9, <1>10, LimitsAssumption, SMTT(30) DEF Charged
<1> QED  BY <1>4, <1>6, <1>7, <1>11, Zenon, SMTT(30) DEF BInv

\* The charge stays within the limit when nothing comes alive.
LEMMA ChargeKept ==
    ASSUME BInv, streams' = streams, entry' = entry, Live' \subseteq Live
    PROVE  Charged' <= ResidentLimit
<1>1. EntryCharge' <= EntryCharge
  BY EntryChargeKept, Zenon
<1>2. StreamCharge' = StreamCharge
  BY ZenonT(40) DEF StreamCharge
<1>3. StreamCharge \in Nat /\ EntryCharge \in Nat /\ Charged = StreamCharge + EntryCharge /\ Charged <= ResidentLimit
  BY ChargeNat, Zenon DEF BInv
<1>4. EntryCharge' \in Int
  <2>1. Counts([r \in Streams |-> entry[r].permit], Live') /\ IsFiniteSet(Live')
    BY FiniteAssumption, FS_Subset, ZenonT(40), ZenonT(40) DEF BInv, Priced, Counts, Live
  <2> QED  BY <2>1, SumNat, SMTT(30), SMTT(30) DEF EntryCharge
<1>5. Charged' = StreamCharge' + EntryCharge'
  BY Zenon DEF Charged, StreamCharge, EntryCharge
<1>6. \A a, b \in Nat, c, r \in Int : a + b <= r /\ c <= b => a + c <= r
  OBVIOUS
<1>7. ResidentLimit \in Int /\ StreamCharge + EntryCharge <= ResidentLimit
  BY <1>3, LimitsAssumption
<1>8. StreamCharge + EntryCharge' <= ResidentLimit
  BY <1>1, <1>3, <1>4, <1>6, <1>7, ZenonT(40), ZenonT(40)
<1> QED  BY <1>2, <1>5, <1>8, ZenonT(40), ZenonT(40)

\* Every step keeps the bytes exact and within what admission has granted.
LEMMA StepKeepsBytes == IInv /\ BInv /\ [Next]_vars => BInv'
<1> SUFFICES ASSUME IInv, BInv, [Next]_vars PROVE BInv'
  BY Zenon
<1>1. DOMAIN cache = {"map", "order", "bytes", "closed"} /\ DOMAIN cache.map = Keys
  BY Zenon DEF IInv, StateOK
<1>2. CASE \E s \in Streams, k \in Keys, policy \in Policies : Open(s, k, policy)
  BY <1>2, OpenKeepsInv, ZenonT(40)
<1>3. CASE \E s \in Streams : Pull(s)
  BY <1>3, PullKeepsInv, ZenonT(40)
<1>4. CASE \E s \in Streams, size \in BatchSizes, retained \in BOOLEAN : BatchArrives(s, size, retained)
  BY <1>4, BatchKeepsInv, Zenon
<1>5. CASE \E s \in Streams, stored \in BOOLEAN : ScanEnds(s, stored)
  BY <1>5, EndKeepsInv, ZenonT(40)
<1>6. CASE \E s \in Streams, f \in Failures : ScanFails(s, f)
  BY <1>6, FailKeepsInv, Zenon
<1>7. CASE \E s \in Streams : Cancel(s) \/ Close(s)
  BY <1>7, StopKeepsInv, ZenonT(40)
<1>8. CASE CloseCache
  <2>1. cache' = [cache EXCEPT !.closed = TRUE, !.map = [k \in Keys |-> Nobody], !.bytes = 0]
          /\ streams' = streams /\ entry' = entry
    BY <1>8, Zenon DEF CloseCache
  <2>2. cache'.map = [k \in Keys |-> Nobody] /\ cache'.bytes = 0 /\ cache'.order = cache.order
    BY <1>1, <2>1
  <2>3. In(cache') = {}
    BY <2>2, Zenon, SMTT(30) DEF In
  <2>4. Exact(cache', entry')
    BY <2>2, <2>3, BytesNone, Zenon, SMTT(30) DEF Exact, BInv
  <2>5. Bounded(cache')
    <3>1. Cardinality(In(cache')) = 0
      BY <2>3, FS_EmptySet, ZenonT(40)
    <3> QED  BY <2>2, <3>1, LimitsAssumption, SMTT(30), SMTT(30) DEF Bounded
  <2>6. Live' \subseteq Live
    BY <2>1, <2>2, NamesAssumption, Zenon DEF Live
  <2>7. Charged' <= ResidentLimit
    BY <2>1, <2>6, ChargeKept, ZenonT(40)
  <2> QED  BY <2>1, <2>4, <2>5, <2>7, ZenonT(40), ZenonT(40) DEF BInv
<1>9. CASE Tick \/ UNCHANGED vars
  <2>1. cache' = cache /\ entry' = entry /\ streams' = streams
    BY <1>9, Zenon DEF Tick, vars
  <2>2. Charged' = Charged
    BY <2>1, Zenon DEF Charged, Live
  <2> QED  BY <2>1, <2>2, Zenon DEF BInv
<1> QED  BY <1>2, <1>3, <1>4, <1>5, <1>6, <1>7, <1>8, <1>9, ZenonT(40), ZenonT(40) DEF Next

\* What is charged is what is stored, and it stays within what admission allows,
\* while the byte counter of the map is exact, however lookups, publications,
\* replacements, evictions and the ends of any number of streams interleave.
THEOREM BytesInvariant == Spec => []BInv
BY InitBytes, StepKeepsBytes, CacheInvariant, PTL DEF Spec

\* The byte counter of CompleteScanResultCache is the size of what the map holds,
\* and the map is within both its limits after every publication.
THEOREM ResidentExactHolds == Spec => []ResidentExact
<1>1. BInv => ResidentExact
  BY Zenon DEF BInv, Exact, Bounded, In, Resident, ResidentExact
<1> QED  BY <1>1, BytesInvariant, PTL

\* The bytes of every candidate and of every entry that the map or a stream still
\* owns are within the admission limit, and a stream that has ended owns none.
THEOREM ResidentBytesAdmittedHolds == Spec => []ResidentBytesAdmitted
<1>1. ASSUME BInv PROVE ResidentBytesAdmitted
  <2>1. [s \in Streams |-> streams[s].size] = [s \in Streams |-> streams[s].permit]
    BY <1>1, Zenon, SMTT(30) DEF BInv, Keeping
  <2>2. [s \in Streams |-> entry[s].size] = [s \in Streams |-> entry[s].permit]
    BY <1>1, Zenon DEF BInv, Priced
  <2>3. StoredBytes = Charged
    BY <2>1, <2>2, ZenonT(40), ZenonT(40) DEF StoredBytes, Charged
  <2>4. StoredBytes <= ResidentLimit
    BY <1>1, <2>3, Zenon, SMTT(30) DEF BInv
  <2>5. \A s \in Streams : streams[s].outcome # "OPEN" => Released(streams[s])
    BY <1>1, Zenon DEF BInv, Keeping
  <2> QED  BY <2>4, <2>5, ZenonT(40), ZenonT(40) DEF ResidentBytesAdmitted, Released
<1> QED  BY <1>1, BytesInvariant, PTL
=============================================================================
