--------------------------- MODULE ArithmeticLaws ---------------------------
(* The laws of powers, sums over sets, minima and maxima that the proofs about *)
(* the engines use.  Induction is over sets: a set of numbers or of subsets    *)
(* that holds the first one and with each one the next holds them all.         *)
EXTENDS Arithmetic, FiniteSetTheorems, WellFoundedInduction, TLAPS

-----------------------------------------------------------------------------
(* Induction and extrema.                                                  *)

LEMMA LeastNatural ==
  ASSUME NEW S \in SUBSET Nat, S # {}
  PROVE  \E m \in S : \A k \in S : m <= k
<1> DEFINE Less == OpToRel(<, Nat)
<1>1. \E m \in S : \A k \in S : ~(<<k, m>> \in Less)
  BY WFMin, NatLessThanWellFounded
<1>2. ASSUME NEW m \in S, NEW k \in S, ~(<<k, m>> \in Less) PROVE m <= k
  BY <1>2 DEF OpToRel
<1>3. QED BY <1>1, <1>2

\* A set with 0 and with the successor of each of its numbers has every number.
LEMMA Successors ==
  ASSUME NEW G, 0 \in G, \A n \in Nat : n \in G => n + 1 \in G
  PROVE  \A n \in Nat : n \in G
<1>1. SUFFICES ASSUME NEW n \in Nat, n \notin G PROVE FALSE
  OBVIOUS
<1>2. PICK m \in Nat \ G : \A k \in Nat \ G : m <= k
  BY <1>1, LeastNatural
<1>3. m # 0
  OBVIOUS
<1>4. m - 1 \in Nat /\ m - 1 \in G
  BY <1>2, <1>3
<1>5. QED BY <1>2, <1>4

LEMMA OneLess ==
  ASSUME NEW S, IsFiniteSet(S), NEW x \in S
  PROVE  /\ IsFiniteSet(S \ {x}) /\ Cardinality(S) \in Nat
         /\ Cardinality(S \ {x}) = Cardinality(S) - 1 /\ Cardinality(S) > 0
<1>1. IsFiniteSet(S \ {x}) /\ Cardinality(S \ {x}) = Cardinality(S) - 1
  BY FS_RemoveElement
<1>2. Cardinality(S) \in Nat /\ Cardinality(S \ {x}) \in Nat
  BY <1>1, FS_CardinalityType
<1>3. QED BY <1>1, <1>2

\* A collection with the empty set and with each set that one more element makes has the whole.
LEMMA Insertions ==
  ASSUME NEW S, IsFiniteSet(S), NEW G, {} \in G,
         \A T \in SUBSET S : \A x \in S \ T : T \in G => T \cup {x} \in G
  PROVE  S \in G
<1> DEFINE N == {n \in Nat : \A T \in SUBSET S : Cardinality(T) = n => T \in G}
<1>1. ASSUME NEW T \in SUBSET S PROVE IsFiniteSet(T) /\ Cardinality(T) \in Nat
  BY FS_Subset, FS_CardinalityType
<1>2. 0 \in N
  BY <1>1, FS_EmptySet
<1>3. ASSUME NEW n \in Nat, n \in N PROVE n + 1 \in N
  <2>1. SUFFICES ASSUME NEW T \in SUBSET S, Cardinality(T) = n + 1 PROVE T \in G
    OBVIOUS
  <2>2. PICK x \in T : TRUE
    <3>1. Cardinality({}) = 0 /\ n + 1 # 0
      BY FS_EmptySet
    <3>2. T # {}
      BY ONLY <2>1, <3>1
    <3>3. QED BY ONLY <3>2
  <2>3. T \ {x} \in SUBSET S /\ x \in S \ (T \ {x}) /\ T = (T \ {x}) \cup {x}
    OBVIOUS
  <2>4. Cardinality(T \ {x}) = n
    <3>1. Cardinality(T \ {x}) = Cardinality(T) - 1
      BY <1>1, OneLess
    <3>2. QED BY ONLY <2>1, <3>1, n \in Nat
  <2>5. T \ {x} \in G
    BY <1>3, <2>3, <2>4
  <2>6. QED BY <2>3, <2>5
<1>4. \A n \in Nat : n \in N
  <2> HIDE DEF N
  <2>1. QED BY <1>2, <1>3, Successors
<1>5. QED BY <1>1, <1>4

-----------------------------------------------------------------------------
(* Sums.  A sum is taken by a function on the subsets of its set, which    *)
(* exists when the set is finite.                                          *)

\* The element a sum takes next.
Picked(s) == CHOOSE x \in s : TRUE

Adds(g, w, D) == g = [s \in D |-> IF s = {} THEN 0 ELSE w[Picked(s)] + g[s \ {Picked(s)}]]

LEMMA SumIs == ASSUME NEW w, NEW S PROVE SumFunctionOnSet(w, S) = (CHOOSE g : Adds(g, w, SUBSET S))[S]
BY Zenon DEF SumFunctionOnSet, FoldFunctionOnSet, MapThenFoldSet, Adds, Picked

LEMMA PickedIn == ASSUME NEW s, s # {} PROVE Picked(s) \in s
BY DEF Picked

LEMMA SumExists ==
  ASSUME NEW w, NEW S, IsFiniteSet(S)
  PROVE  \E g : Adds(g, w, SUBSET S)
<1> DEFINE Small(n) == {s \in SUBSET S : Cardinality(s) <= n}
           G == {n \in Nat : \E g : Adds(g, w, Small(n))}
<1>1. ASSUME NEW s \in SUBSET S PROVE IsFiniteSet(s) /\ Cardinality(s) \in Nat
  BY FS_Subset, FS_CardinalityType
<1>2. 0 \in G
  <2>1. PICK g : g = [s \in Small(0) |-> 0]
    OBVIOUS
  <2>2. \A s \in Small(0) : s = {}
    BY <1>1, FS_EmptySet
  <2>3. Adds(g, w, Small(0))
    BY <2>1, <2>2 DEF Adds
  <2>4. QED BY <2>3
<1>3. ASSUME NEW n \in Nat, n \in G PROVE n + 1 \in G
  <2>1. PICK g : Adds(g, w, Small(n))
    BY <1>3
  <2>2. PICK h : h = [s \in Small(n + 1) |-> IF s = {} THEN 0 ELSE w[Picked(s)] + g[s \ {Picked(s)}]]
    OBVIOUS
  <2>3. ASSUME NEW s \in Small(n) PROVE s \in Small(n + 1) /\ g[s] = h[s]
    <3>1. s \in Small(n + 1)
      BY <1>1
    <3>2. g[s] = IF s = {} THEN 0 ELSE w[Picked(s)] + g[s \ {Picked(s)}]
      BY <2>1 DEF Adds
    <3>3. QED BY <2>2, <3>1, <3>2
  <2>4. ASSUME NEW s \in Small(n + 1), s # {} PROVE s \ {Picked(s)} \in Small(n)
    BY <1>1, <2>4, PickedIn, OneLess
  <2>5. Adds(h, w, Small(n + 1))
    <3> HIDE DEF Small
    <3>1. \A s \in Small(n + 1) : s # {} => g[s \ {Picked(s)}] = h[s \ {Picked(s)}]
      BY <2>3, <2>4
    <3>2. h = [s \in Small(n + 1) |-> IF s = {} THEN 0 ELSE w[Picked(s)] + h[s \ {Picked(s)}]]
      BY <2>2, <3>1, Zenon
    <3>3. QED BY <3>2 DEF Adds
  <2>6. n + 1 \in Nat
    OBVIOUS
  <2>7. QED BY ONLY <2>5, <2>6, Zenon
<1>4. \A n \in Nat : n \in G
  <2> HIDE DEF G
  <2>1. QED BY <1>2, <1>3, Successors
<1>5. Cardinality(S) \in G
  BY <1>1, <1>4
<1>6. Small(Cardinality(S)) = SUBSET S
  BY FS_Subset, FS_CardinalityType
<1>7. QED BY <1>5, <1>6

\* Two of these functions agree on a set whose elements they weigh alike.
LEMMA SumsAgree ==
  ASSUME NEW w, NEW v, NEW S, NEW T, NEW g, NEW h, Adds(g, w, SUBSET S), Adds(h, v, SUBSET T),
         NEW U, IsFiniteSet(U), U \subseteq S, U \subseteq T, \A x \in U : w[x] = v[x]
  PROVE  g[U] = h[U]
<1> DEFINE G == {n \in Nat : \A s \in SUBSET U : Cardinality(s) = n => g[s] = h[s]}
<1>1. ASSUME NEW s \in SUBSET U PROVE IsFiniteSet(s) /\ Cardinality(s) \in Nat
  BY FS_Subset, FS_CardinalityType
<1>2. ASSUME NEW s \in SUBSET U
      PROVE  /\ g[s] = IF s = {} THEN 0 ELSE w[Picked(s)] + g[s \ {Picked(s)}]
             /\ h[s] = IF s = {} THEN 0 ELSE v[Picked(s)] + h[s \ {Picked(s)}]
  BY DEF Adds
<1>3. 0 \in G
  BY <1>1, <1>2, FS_EmptySet
<1>4. ASSUME NEW n \in Nat, n \in G PROVE n + 1 \in G
  <2>1. SUFFICES ASSUME NEW s \in SUBSET U, Cardinality(s) = n + 1 PROVE g[s] = h[s]
    OBVIOUS
  <2>2. s # {}
    BY <2>1, FS_EmptySet
  <2>3. s \ {Picked(s)} \in SUBSET U /\ Cardinality(s \ {Picked(s)}) = n /\ Picked(s) \in U
    BY <1>1, <2>1, <2>2, PickedIn, OneLess
  <2>4. g[s \ {Picked(s)}] = h[s \ {Picked(s)}]
    BY <1>4, <2>3
  <2>5. w[Picked(s)] = v[Picked(s)]
    BY <2>3
  <2>6. QED BY <1>2, <2>2, <2>4, <2>5
<1>5. \A n \in Nat : n \in G
  <2> HIDE DEF G
  <2>1. QED BY <1>3, <1>4, Successors
<1>6. QED BY <1>1, <1>5

LEMMA SumAdds ==
  ASSUME NEW w, NEW S, IsFiniteSet(S)
  PROVE  \E g : Adds(g, w, SUBSET S) /\ SumFunctionOnSet(w, S) = g[S]
<1>1. PICK g : g = CHOOSE h : Adds(h, w, SUBSET S)
  OBVIOUS
<1>2. Adds(g, w, SUBSET S)
  BY <1>1, SumExists
<1>3. QED BY <1>1, <1>2, SumIs

\* Sums over one set of weights that agree on it.
LEMMA SameSum ==
  ASSUME NEW w, NEW v, NEW S, IsFiniteSet(S), \A x \in S : w[x] = v[x]
  PROVE  SumFunctionOnSet(w, S) = SumFunctionOnSet(v, S)
<1>1. PICK g : Adds(g, w, SUBSET S) /\ SumFunctionOnSet(w, S) = g[S]
  BY SumAdds
<1>2. PICK h : Adds(h, v, SUBSET S) /\ SumFunctionOnSet(v, S) = h[S]
  BY SumAdds
<1>3. QED BY <1>1, <1>2, SumsAgree

LEMMA SumEmpty == ASSUME NEW w PROVE SumFunctionOnSet(w, {}) = 0
<1>1. PICK g : Adds(g, w, SUBSET {}) /\ SumFunctionOnSet(w, {}) = g[{}]
  BY SumAdds, FS_EmptySet
<1>2. QED BY <1>1 DEF Adds

LEMMA SumPicked ==
  ASSUME NEW w, NEW S, IsFiniteSet(S), S # {}
  PROVE  SumFunctionOnSet(w, S) = w[Picked(S)] + SumFunctionOnSet(w, S \ {Picked(S)})
<1>1. PICK T : T = S \ {Picked(S)}
  OBVIOUS
<1>2. IsFiniteSet(T) /\ T \subseteq S
  BY <1>1, FS_Subset
<1>3. PICK g : Adds(g, w, SUBSET S) /\ SumFunctionOnSet(w, S) = g[S]
  BY SumAdds
<1>4. PICK h : Adds(h, w, SUBSET T) /\ SumFunctionOnSet(w, T) = h[T]
  BY <1>2, SumAdds
<1>5. g[T] = h[T]
  BY <1>2, <1>3, <1>4, SumsAgree
<1>6. g[S] = w[Picked(S)] + g[T]
  BY <1>1, <1>3 DEF Adds
<1>7. QED BY <1>1, <1>3, <1>4, <1>5, <1>6

LEMMA SumInt ==
  ASSUME NEW w, NEW S, IsFiniteSet(S), \A x \in S : w[x] \in Int
  PROVE  SumFunctionOnSet(w, S) \in Int
<1> DEFINE G == {n \in Nat : \A T \in SUBSET S : Cardinality(T) = n => SumFunctionOnSet(w, T) \in Int}
<1>1. ASSUME NEW T \in SUBSET S PROVE IsFiniteSet(T) /\ Cardinality(T) \in Nat
  BY FS_Subset, FS_CardinalityType
<1>2. 0 \in G
  BY <1>1, FS_EmptySet, SumEmpty
<1>3. ASSUME NEW n \in Nat, n \in G PROVE n + 1 \in G
  <2>1. SUFFICES ASSUME NEW T \in SUBSET S, Cardinality(T) = n + 1 PROVE SumFunctionOnSet(w, T) \in Int
    OBVIOUS
  <2>2. T # {}
    BY <2>1, FS_EmptySet
  <2>3. PICK c \in T : c = Picked(T)
    BY <2>2, PickedIn
  <2>4. T \ {c} \in SUBSET S /\ Cardinality(T \ {c}) = n
    BY <1>1, <2>1, OneLess
  <2>5. w[c] \in Int /\ SumFunctionOnSet(w, T \ {c}) \in Int
    BY <1>3, <2>4
  <2>6. QED BY <1>1, <2>2, <2>3, <2>5, SumPicked
<1>4. \A n \in Nat : n \in G
  <2> HIDE DEF G
  <2>1. QED BY <1>2, <1>3, Successors
<1>5. QED BY <1>1, <1>4

\* A sum may take any element next.
LEMMA SumTakes ==
  ASSUME NEW w, NEW S, IsFiniteSet(S), \A x \in S : w[x] \in Int, NEW x \in S
  PROVE  SumFunctionOnSet(w, S) = w[x] + SumFunctionOnSet(w, S \ {x})
<1> DEFINE Good(T) == \A y \in T : SumFunctionOnSet(w, T) = w[y] + SumFunctionOnSet(w, T \ {y})
           G == {n \in Nat : \A T \in SUBSET S : Cardinality(T) = n => Good(T)}
<1>1. ASSUME NEW T \in SUBSET S
      PROVE  IsFiniteSet(T) /\ Cardinality(T) \in Nat /\ SumFunctionOnSet(w, T) \in Int
  BY FS_Subset, FS_CardinalityType, SumInt
<1>2. 0 \in G
  BY <1>1, FS_EmptySet
<1>3. ASSUME NEW n \in Nat, n \in G PROVE n + 1 \in G
  <2>1. SUFFICES ASSUME NEW T \in SUBSET S, Cardinality(T) = n + 1, NEW y \in T
                 PROVE  SumFunctionOnSet(w, T) = w[y] + SumFunctionOnSet(w, T \ {y})
    OBVIOUS
  <2>2. PICK c \in T : c = Picked(T)
    BY PickedIn
  <2>3. ASSUME NEW z \in T PROVE T \ {z} \in SUBSET S /\ Good(T \ {z})
    <3>1. T \ {z} \in SUBSET S /\ Cardinality(T \ {z}) = n
      BY <1>1, <2>1, OneLess
    <3>2. QED BY <1>3, <3>1
  <2>4. SumFunctionOnSet(w, T) = w[c] + SumFunctionOnSet(w, T \ {c})
    BY <1>1, <2>2, SumPicked
  <2>5. CASE y = c
    BY <2>4, <2>5
  <2>6. CASE y # c
    <3>1. PICK R \in SUBSET S : R = T \ {y, c}
      OBVIOUS
    <3>2. R = (T \ {y}) \ {c} /\ R = (T \ {c}) \ {y} /\ c \in T \ {y} /\ y \in T \ {c}
      BY <2>6, <3>1
    <3>3. SumFunctionOnSet(w, T \ {c}) = w[y] + SumFunctionOnSet(w, R)
      BY <2>3, <3>2
    <3>4. SumFunctionOnSet(w, T \ {y}) = w[c] + SumFunctionOnSet(w, R)
      BY <2>3, <3>2
    <3>5. w[y] \in Int /\ w[c] \in Int /\ SumFunctionOnSet(w, R) \in Int
      BY <1>1
    <3>6. QED BY ONLY <2>4, <3>3, <3>4, <3>5
  <2>7. QED BY <2>5, <2>6
<1>4. \A n \in Nat : n \in G
  <2> HIDE DEF G
  <2>1. QED BY <1>2, <1>3, Successors
<1>5. QED BY <1>1, <1>4

LEMMA SumInserts ==
  ASSUME NEW w, NEW T, IsFiniteSet(T), NEW x, x \notin T, \A y \in T \cup {x} : w[y] \in Int
  PROVE  /\ SumFunctionOnSet(w, T \cup {x}) = w[x] + SumFunctionOnSet(w, T)
         /\ SumFunctionOnSet(w, T) \in Int /\ w[x] \in Int
<1>1. IsFiniteSet(T \cup {x}) /\ (T \cup {x}) \ {x} = T /\ x \in T \cup {x}
  BY FS_AddElement
<1>2. QED BY <1>1, SumTakes, SumInt

\* A bound on every weight is one on the sum.
LEMMA SumBounded ==
  ASSUME NEW u, NEW v, NEW S, IsFiniteSet(S), NEW a \in Int, NEW b \in Int,
         \A x \in S : u[x] \in Int /\ v[x] \in Int /\ a * u[x] <= b * v[x]
  PROVE  a * SumFunctionOnSet(u, S) <= b * SumFunctionOnSet(v, S)
<1> DEFINE G == {T \in SUBSET S : a * SumFunctionOnSet(u, T) <= b * SumFunctionOnSet(v, T)}
<1>1. {} \in G
  BY SumEmpty
<1>2. ASSUME NEW T \in SUBSET S, NEW x \in S \ T, T \in G PROVE T \cup {x} \in G
  <2>1. IsFiniteSet(T)
    BY FS_Subset
  <2>2. PICK p, q, r, s : /\ p = u[x] /\ q = v[x] /\ r = SumFunctionOnSet(u, T) /\ s = SumFunctionOnSet(v, T)
    OBVIOUS
  <2>3. /\ SumFunctionOnSet(u, T \cup {x}) = p + r /\ r \in Int /\ p \in Int
        /\ SumFunctionOnSet(v, T \cup {x}) = q + s /\ s \in Int /\ q \in Int
    BY <2>1, <2>2, SumInserts
  <2>4. a * p <= b * q /\ a * r <= b * s
    BY <1>2, <2>2
  <2>5. a * (p + r) = a * p + a * r /\ b * (q + s) = b * q + b * s
    BY ONLY <2>3, a \in Int, b \in Int
  <2>6. a * p \in Int /\ a * r \in Int /\ b * q \in Int /\ b * s \in Int
    BY ONLY <2>3, a \in Int, b \in Int
  <2>7. a * (p + r) <= b * (q + s)
    BY ONLY <2>4, <2>5, <2>6
  <2>8. QED BY <2>3, <2>7
<1>3. S \in G
  <2> HIDE DEF G
  <2>1. QED BY <1>1, <1>2, Insertions
<1>4. QED BY <1>3

LEMMA SumNat ==
  ASSUME NEW w, NEW S, IsFiniteSet(S), \A x \in S : w[x] \in Nat
  PROVE  SumFunctionOnSet(w, S) \in Nat
<1> DEFINE G == {T \in SUBSET S : SumFunctionOnSet(w, T) \in Nat}
<1>1. {} \in G
  BY SumEmpty
<1>2. ASSUME NEW T \in SUBSET S, NEW x \in S \ T, T \in G PROVE T \cup {x} \in G
  <2>1. IsFiniteSet(T)
    BY FS_Subset
  <2>2. QED BY <1>2, <2>1, SumInserts
<1>3. S \in G
  <2> HIDE DEF G
  <2>1. QED BY <1>1, <1>2, Insertions
<1>4. QED BY <1>3

\* What weighs nothing may be left out.
LEMMA SumOfRest ==
  ASSUME NEW w, NEW S, IsFiniteSet(S), \A x \in S : w[x] \in Int, NEW R \in SUBSET S,
         \A x \in S \ R : w[x] = 0
  PROVE  SumFunctionOnSet(w, S) = SumFunctionOnSet(w, R)
<1> DEFINE G == {T \in SUBSET S : SumFunctionOnSet(w, T) = SumFunctionOnSet(w, T \cap R)}
<1>1. {} \in G
  BY Zenon
<1>2. ASSUME NEW T \in SUBSET S, NEW x \in S \ T, T \in G PROVE T \cup {x} \in G
  <2>1. IsFiniteSet(T) /\ IsFiniteSet(T \cap R)
    BY FS_Subset
  <2>2. SumFunctionOnSet(w, T \cup {x}) = w[x] + SumFunctionOnSet(w, T) /\ SumFunctionOnSet(w, T) \in Int
    BY <2>1, SumInserts
  <2>3. CASE x \in R
    <3>1. (T \cup {x}) \cap R = (T \cap R) \cup {x} /\ x \notin T \cap R
      BY <2>3
    <3>2. SumFunctionOnSet(w, (T \cap R) \cup {x}) = w[x] + SumFunctionOnSet(w, T \cap R)
      BY <2>1, <3>1, SumInserts
    <3>3. QED BY <1>2, <2>2, <3>1, <3>2
  <2>4. CASE x \notin R
    <3>1. (T \cup {x}) \cap R = T \cap R /\ w[x] = 0
      BY <2>4
    <3>2. SumFunctionOnSet(w, T \cup {x}) = SumFunctionOnSet(w, T)
      BY ONLY <2>2, <3>1
    <3>3. QED BY <1>2, <3>1, <3>2, Zenon
  <2>5. QED BY <2>3, <2>4
<1>3. S \in G
  <2> HIDE DEF G
  <2>1. QED BY <1>1, <1>2, Insertions
<1>4. S \cap R = R
  OBVIOUS
<1>5. QED BY <1>3, <1>4

\* A sum over the images of a set, none of which meet.
LEMMA SumMoves ==
  ASSUME NEW S, IsFiniteSet(S), NEW f, NEW u, NEW v,
         \A x, y \in S : f[x] = f[y] => x = y,
         \A x \in S : u[x] \in Int /\ u[x] = v[f[x]]
  PROVE  SumFunctionOnSet(u, S) = SumFunctionOnSet(v, {f[x] : x \in S})
<1> DEFINE Images(T) == {f[x] : x \in T}
           G == {T \in SUBSET S : IsFiniteSet(Images(T)) /\ SumFunctionOnSet(u, T) = SumFunctionOnSet(v, Images(T))}
<1>1. {} \in G
  <2>1. Images({}) = {}
    OBVIOUS
  <2>2. QED BY <2>1, FS_EmptySet, SumEmpty
<1>2. ASSUME NEW T \in SUBSET S, NEW x \in S \ T, T \in G PROVE T \cup {x} \in G
  <2>1. IsFiniteSet(T) /\ IsFiniteSet(Images(T))
    BY <1>2, FS_Subset
  <2>2. Images(T \cup {x}) = Images(T) \cup {f[x]} /\ f[x] \notin Images(T)
    OBVIOUS
  <2>3. \A y \in Images(T) \cup {f[x]} : v[y] \in Int
    OBVIOUS
  <2>4. SumFunctionOnSet(u, T \cup {x}) = u[x] + SumFunctionOnSet(u, T)
    BY <2>1, SumInserts
  <2>5. SumFunctionOnSet(v, Images(T) \cup {f[x]}) = v[f[x]] + SumFunctionOnSet(v, Images(T))
    <3> HIDE DEF Images
    <3>1. QED BY <2>1, <2>2, <2>3, SumInserts
  <2>6. IsFiniteSet(Images(T) \cup {f[x]})
    BY <2>1, FS_AddElement
  <2>7. QED BY <1>2, <2>2, <2>4, <2>5, <2>6
<1>3. S \in G
  <2> HIDE DEF G
  <2>1. QED BY <1>1, <1>2, Insertions
<1>4. QED BY <1>3

\* A sum may be taken group by group.
LEMMA SumGrouped ==
  ASSUME NEW S, IsFiniteSet(S), NEW w, \A x \in S : w[x] \in Int,
         NEW R, IsFiniteSet(R), NEW f, \A x \in S : f[x] \in R
  PROVE  SumFunctionOnSet(w, S) = SumFunctionOnSet([r \in R |-> SumFunctionOnSet(w, {x \in S : f[x] = r})], R)
<1> DEFINE Group(T, r) == {x \in T : f[x] = r}
           Groups(T) == [r \in R |-> SumFunctionOnSet(w, Group(T, r))]
           G == {T \in SUBSET S : SumFunctionOnSet(w, T) = SumFunctionOnSet(Groups(T), R)}
<1>1. ASSUME NEW T \in SUBSET S, NEW r \in R
      PROVE  IsFiniteSet(Group(T, r)) /\ Groups(T)[r] = SumFunctionOnSet(w, Group(T, r)) /\ Groups(T)[r] \in Int
  <2>1. IsFiniteSet(Group(T, r)) /\ \A x \in Group(T, r) : w[x] \in Int
    BY FS_Subset
  <2>2. QED BY <2>1, SumInt
<1>2. {} \in G
  <2>1. \A r \in R : Groups({})[r] = 0
    <3>1. \A r \in R : Group({}, r) = {}
      OBVIOUS
    <3>2. QED BY <3>1, SumEmpty
  <2>2. SumFunctionOnSet(Groups({}), R) = SumFunctionOnSet(Groups({}), {})
    <3> HIDE DEF Groups
    <3>1. QED BY <2>1, SumOfRest
  <2>3. SumFunctionOnSet(Groups({}), {}) = 0 /\ SumFunctionOnSet(w, {}) = 0
    BY SumEmpty
  <2>4. QED BY <2>2, <2>3
<1>3. ASSUME NEW T \in SUBSET S, NEW y \in S \ T, T \in G PROVE T \cup {y} \in G
  <2>1. PICK U \in SUBSET S : U = T \cup {y}
    OBVIOUS
  <2>2. PICK q \in R : q = f[y]
    OBVIOUS
  <2>3. IsFiniteSet(T) /\ IsFiniteSet(R \ {q})
    BY FS_Subset
  <2>4. SumFunctionOnSet(w, U) = w[y] + SumFunctionOnSet(w, T)
    BY <2>1, <2>3, SumInserts
  <2>5. ASSUME NEW r \in R \ {q} PROVE Groups(U)[r] = Groups(T)[r]
    <3>1. Group(U, r) = Group(T, r)
      BY <2>1, <2>2
    <3>2. QED BY <3>1
  <2>6. Groups(U)[q] = w[y] + Groups(T)[q]
    <3>1. Group(U, q) = Group(T, q) \cup {y} /\ y \notin Group(T, q)
      BY <2>1, <2>2
    <3>2. \A x \in Group(T, q) \cup {y} : w[x] \in Int
      OBVIOUS
    <3>3. SumFunctionOnSet(w, Group(T, q) \cup {y}) = w[y] + SumFunctionOnSet(w, Group(T, q))
      <4>1. IsFiniteSet(Group(T, q))
        BY <1>1
      <4> HIDE DEF Group
      <4>2. QED BY <3>1, <3>2, <4>1, SumInserts
    <3>4. QED BY <3>1, <3>3
  <2> HIDE DEF Groups
  <2>7. /\ SumFunctionOnSet(Groups(U), R) = Groups(U)[q] + SumFunctionOnSet(Groups(U), R \ {q})
        /\ SumFunctionOnSet(Groups(T), R) = Groups(T)[q] + SumFunctionOnSet(Groups(T), R \ {q})
    <3>1. (\A r \in R : Groups(U)[r] \in Int) /\ (\A r \in R : Groups(T)[r] \in Int)
      BY <1>1
    <3>2. QED BY <3>1, SumTakes
  <2>8. SumFunctionOnSet(Groups(U), R \ {q}) = SumFunctionOnSet(Groups(T), R \ {q})
    BY <2>3, <2>5, SameSum
  <2>9. /\ w[y] \in Int /\ Groups(T)[q] \in Int /\ SumFunctionOnSet(Groups(T), R \ {q}) \in Int
    <3>1. \A r \in R \ {q} : Groups(T)[r] \in Int
      BY <1>1
    <3>2. QED BY <1>1, <2>3, <3>1, SumInt
  <2>10. SumFunctionOnSet(w, T) = SumFunctionOnSet(Groups(T), R)
    BY <1>3
  <2>11. SumFunctionOnSet(w, U) = SumFunctionOnSet(Groups(U), R)
    BY ONLY <2>4, <2>6, <2>7, <2>8, <2>9, <2>10
  <2>12. QED BY <2>1, <2>11
<1>4. S \in G
  <2> HIDE DEF G
  <2>1. QED BY <1>2, <1>3, Insertions
<1>5. QED BY <1>4

\* Counting is adding ones.
LEMMA SumCounts ==
  ASSUME NEW S, IsFiniteSet(S), NEW w, \A x \in S : w[x] = 1
  PROVE  SumFunctionOnSet(w, S) = Cardinality(S)
<1> DEFINE G == {T \in SUBSET S : SumFunctionOnSet(w, T) = Cardinality(T)}
<1>1. {} \in G
  BY SumEmpty, FS_EmptySet
<1>2. ASSUME NEW T \in SUBSET S, NEW x \in S \ T, T \in G PROVE T \cup {x} \in G
  <2>1. IsFiniteSet(T) /\ Cardinality(T) \in Nat
    BY FS_Subset, FS_CardinalityType
  <2>2. Cardinality(T \cup {x}) = Cardinality(T) + 1
    BY <2>1, FS_AddElement
  <2>3. QED BY <1>2, <2>1, <2>2, SumInserts
<1>3. S \in G
  <2> HIDE DEF G
  <2>1. QED BY <1>1, <1>2, Insertions
<1>4. QED BY <1>3

-----------------------------------------------------------------------------
(* Powers.                                                                 *)

Multiplies(p, b, D) == p = [k \in D |-> IF k = 0 THEN 1 ELSE b * p[k - 1]]

LEMMA PowerIs == ASSUME NEW b, NEW n PROVE Power(b, n) = (CHOOSE p : Multiplies(p, b, 0..n))[n]
BY Zenon DEF Power, Multiplies

LEMMA PowerMultiplies ==
  ASSUME NEW b, NEW n \in Nat
  PROVE  \E p : Multiplies(p, b, 0..n) /\ Power(b, n) = p[n]
<1> DEFINE G == {k \in Nat : \E p : Multiplies(p, b, 0..k)}
<1>1. 0 \in G
  <2>1. PICK p : p = [k \in 0..0 |-> 1]
    OBVIOUS
  <2>2. Multiplies(p, b, 0..0)
    BY <2>1 DEF Multiplies
  <2>3. QED BY <2>2
<1>2. ASSUME NEW k \in Nat, k \in G PROVE k + 1 \in G
  <2>1. PICK p : Multiplies(p, b, 0..k)
    BY <1>2
  <2>2. PICK q : q = [i \in 0..(k + 1) |-> IF i = 0 THEN 1 ELSE b * p[i - 1]]
    OBVIOUS
  <2>3. \A i \in 0..k : i \in 0..(k + 1) /\ p[i] = q[i]
    BY <2>1, <2>2 DEF Multiplies
  <2>4. \A i \in 0..(k + 1) : i # 0 => i - 1 \in 0..k
    OBVIOUS
  <2>5. \A i \in 0..(k + 1) : i # 0 => p[i - 1] = q[i - 1]
    BY <2>3, <2>4
  <2>6. q = [i \in 0..(k + 1) |-> IF i = 0 THEN 1 ELSE b * q[i - 1]]
    BY <2>2, <2>5, Zenon
  <2>7. Multiplies(q, b, 0..(k + 1)) /\ k + 1 \in Nat
    BY <2>6 DEF Multiplies
  <2>8. QED BY ONLY <2>7, Zenon
<1>3. \A k \in Nat : k \in G
  <2> HIDE DEF G
  <2>1. QED BY <1>1, <1>2, Successors
<1>4. PICK p : p = CHOOSE q : Multiplies(q, b, 0..n)
  OBVIOUS
<1>5. Multiplies(p, b, 0..n)
  BY <1>3, <1>4, Zenon
<1>6. QED BY <1>4, <1>5, PowerIs

LEMMA PowersAgree ==
  ASSUME NEW b, NEW n \in Nat, NEW m \in Nat, n <= m, NEW p, NEW q,
         Multiplies(p, b, 0..n), Multiplies(q, b, 0..m)
  PROVE  p[n] = q[n]
<1> DEFINE G == {k \in Nat : k <= n => p[k] = q[k]}
<1>1. 0 \in G
  BY DEF Multiplies
<1>2. ASSUME NEW k \in Nat, k \in G PROVE k + 1 \in G
  <2>1. SUFFICES ASSUME k + 1 <= n PROVE p[k + 1] = q[k + 1]
    OBVIOUS
  <2>2. k + 1 \in 0..n /\ k + 1 \in 0..m /\ k + 1 # 0 /\ (k + 1) - 1 = k
    BY <2>1
  <2>3. p[k + 1] = b * p[k] /\ q[k + 1] = b * q[k]
    BY <2>2 DEF Multiplies
  <2>4. p[k] = q[k]
    BY <1>2, <2>1
  <2>5. QED BY <2>3, <2>4
<1>3. \A k \in Nat : k \in G
  <2> HIDE DEF G
  <2>1. QED BY <1>1, <1>2, Successors
<1>4. QED BY <1>3

LEMMA PowerZero == ASSUME NEW b PROVE Power(b, 0) = 1
<1>1. PICK p : Multiplies(p, b, 0..0) /\ Power(b, 0) = p[0]
  BY PowerMultiplies
<1>2. QED BY <1>1 DEF Multiplies

LEMMA PowerNext == ASSUME NEW b, NEW n \in Nat PROVE Power(b, n + 1) = b * Power(b, n)
<1>1. PICK p : Multiplies(p, b, 0..n) /\ Power(b, n) = p[n]
  BY PowerMultiplies
<1>2. PICK q : Multiplies(q, b, 0..(n + 1)) /\ Power(b, n + 1) = q[n + 1]
  BY PowerMultiplies
<1>3. p[n] = q[n]
  BY <1>1, <1>2, PowersAgree
<1>4. n + 1 \in 0..(n + 1) /\ n + 1 # 0 /\ (n + 1) - 1 = n
  OBVIOUS
<1>5. q[n + 1] = b * q[n]
  BY <1>2, <1>4 DEF Multiplies
<1>6. QED BY <1>1, <1>2, <1>3, <1>5

LEMMA PowerPositive ==
  ASSUME NEW b \in Nat \ {0}, NEW n \in Nat
  PROVE  Power(b, n) \in Nat \ {0}
<1> DEFINE G == {k \in Nat : Power(b, k) \in Nat \ {0}}
<1>1. 0 \in G
  BY PowerZero
<1>2. ASSUME NEW k \in Nat, k \in G PROVE k + 1 \in G
  <2>1. PICK q \in Nat \ {0} : q = Power(b, k)
    BY <1>2
  <2>2. b * q \in Nat \ {0}
    OBVIOUS
  <2>3. Power(b, k + 1) = b * q /\ k + 1 \in Nat
    BY <2>1, PowerNext
  <2>4. QED BY ONLY <2>2, <2>3, Zenon
<1>3. \A k \in Nat : k \in G
  <2> HIDE DEF G
  <2>1. QED BY <1>1, <1>2, Successors
<1>4. QED BY <1>3

\* A larger base has larger powers.
LEMMA PowerGrows ==
  ASSUME NEW b \in Nat \ {0}, NEW c \in Nat \ {0}, b < c, NEW n \in Nat \ {0}
  PROVE  Power(c, n) > Power(b, n)
<1> DEFINE G == {k \in Nat : Power(c, k + 1) > Power(b, k + 1)}
<1>1. ASSUME NEW a \in Nat \ {0}, NEW k \in Nat
      PROVE  Power(a, k + 1) = a * Power(a, k) /\ Power(a, k) \in Nat \ {0} /\ Power(a, 0) = 1
  BY PowerNext, PowerPositive, PowerZero
<1>2. 0 \in G
  <2>1. Power(c, 0 + 1) = c * 1 /\ Power(b, 0 + 1) = b * 1
    <3>1. 0 \in Nat
      OBVIOUS
    <3>2. QED BY <1>1, <3>1
  <2>2. QED BY <2>1
<1>3. ASSUME NEW k \in Nat, k \in G PROVE k + 1 \in G
  <2>1. PICK j \in Nat : j = k + 1
    OBVIOUS
  <2>2. PICK p, q \in Nat \ {0} : p = Power(b, j) /\ q = Power(c, j)
    BY <1>1
  <2>3. q > p
    BY <1>3, <2>1, <2>2
  <2>4. Power(b, j + 1) = b * p /\ Power(c, j + 1) = c * q
    BY <1>1, <2>2
  <2>5. c * q > b * p
    <3>1. b * q >= b * p
      BY <2>3
    <3>2. PICK d \in Nat \ {0} : c = b + d
      <4>1. c - b \in Nat \ {0} /\ c = b + (c - b)
        OBVIOUS
      <4>2. QED BY <4>1
    <3>3. c * q = b * q + d * q /\ d * q > 0
      BY <3>2
    <3>4. b * q \in Int /\ b * p \in Int /\ d * q \in Int
      OBVIOUS
    <3>5. QED BY ONLY <3>1, <3>3, <3>4
  <2>6. QED BY <2>1, <2>4, <2>5
<1>4. \A k \in Nat : k \in G
  <2> HIDE DEF G
  <2>1. QED BY <1>2, <1>3, Successors
<1>5. PICK k \in Nat : n = k + 1
  <2>1. n - 1 \in Nat /\ n = (n - 1) + 1
    OBVIOUS
  <2>2. QED BY <2>1
<1>6. QED BY <1>4, <1>5

LEMMA PowerAtMost ==
  ASSUME NEW b \in Nat \ {0}, NEW c \in Nat \ {0}, b <= c, NEW n \in Nat
  PROVE  Power(b, n) <= Power(c, n)
<1>1. PICK p, q \in Nat \ {0} : p = Power(b, n) /\ q = Power(c, n)
  BY PowerPositive
<1>2. b = c \/ n = 0 => p = q
  BY <1>1, PowerZero
<1>3. b < c /\ n # 0 => q > p
  BY <1>1, PowerGrows
<1>4. QED BY <1>1, <1>2, <1>3

-----------------------------------------------------------------------------
(* Minima and maxima.                                                      *)

LEMMA MinInSet ==
  ASSUME NEW S \in SUBSET Nat, S # {}
  PROVE  Min(S) \in S
BY LeastNatural DEF Min

LEMMA MinOfTwo ==
  ASSUME NEW a \in Int, NEW b \in Int
  PROVE  Min({a, b}) = IF a <= b THEN a ELSE b
<1>1. CASE a <= b
  <2>1. \A z \in {a, b} : (\A y \in {a, b} : z <= y) <=> z = a
    BY <1>1
  <2>2. QED BY <1>1, <2>1 DEF Min
<1>2. CASE ~(a <= b)
  <2>1. \A z \in {a, b} : (\A y \in {a, b} : z <= y) <=> z = b
    BY <1>2
  <2>2. QED BY <1>2, <2>1 DEF Min
<1>3. QED BY <1>1, <1>2

LEMMA MaxOfTwo ==
  ASSUME NEW a \in Int, NEW b \in Int
  PROVE  Max({a, b}) = IF a >= b THEN a ELSE b
<1>1. CASE a >= b
  <2>1. \A z \in {a, b} : (\A y \in {a, b} : z >= y) <=> z = a
    BY <1>1
  <2>2. QED BY <1>1, <2>1 DEF Max
<1>2. CASE ~(a >= b)
  <2>1. \A z \in {a, b} : (\A y \in {a, b} : z >= y) <=> z = b
    BY <1>2
  <2>2. QED BY <1>2, <2>1 DEF Max
<1>3. QED BY <1>1, <1>2

LEMMA MaxInSet ==
  ASSUME NEW S \in SUBSET Int, IsFiniteSet(S), S # {}
  PROVE  Max(S) \in S /\ \A y \in S : y <= Max(S)
<1> DEFINE G == {T \in SUBSET S : T = {} \/ \E m \in T : \A y \in T : m >= y}
<1>1. {} \in G
  OBVIOUS
<1>2. ASSUME NEW T \in SUBSET S, NEW x \in S \ T, T \in G PROVE T \cup {x} \in G
  <2>1. CASE T = {}
    BY <2>1
  <2>2. CASE T # {}
    <3>1. PICK m \in T : \A y \in T : m >= y
      BY <1>2, <2>2
    <3>2. CASE m >= x
      BY <3>1, <3>2
    <3>3. CASE x >= m
      BY <3>1, <3>3
    <3>4. QED BY <3>2, <3>3
  <2>3. QED BY <2>1, <2>2
<1>3. S \in G
  <2> HIDE DEF G
  <2>1. QED BY <1>1, <1>2, Insertions
<1>4. \E m \in S : \A y \in S : m >= y
  BY <1>3
<1>5. QED BY <1>4 DEF Max
=============================================================================
