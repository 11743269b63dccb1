------------------------------- MODULE SetFacts -------------------------------
(***************************************************************************)
(* Facts about naturals, finite sets and sums that the proofs share.       *)
(* Induction enters through the least element of a set of naturals.        *)
(***************************************************************************)
EXTENDS Integers, FiniteSets, FiniteSetTheorems, WellFoundedInduction, FiniteSetsExt, TLAPS

\* A non-empty set of naturals has a least element.
LEMMA LeastOf ==
  ASSUME NEW T, T \subseteq Nat, T # {}
  PROVE  \E m \in T : \A k \in T : m <= k
<1>1. \E x \in T : \A y \in T : <<y, x>> \notin OpToRel(<, Nat)
  BY NatLessThanWellFounded, WFMin, Zenon
<1>2. PICK m \in T : \A y \in T : <<y, m>> \notin OpToRel(<, Nat)
  BY <1>1
<1>3. \A k \in T : ~(k < m)
  BY <1>2 DEF OpToRel
<1> QED BY <1>3

\* A non-empty bounded set of naturals has a greatest element.
LEMMA BoundedHasTop ==
  ASSUME NEW T, T \subseteq Nat, T # {}, NEW n \in Nat, \A h \in T : h <= n
  PROVE  \E h \in T : \A k \in T : k <= h
<1> DEFINE D == {d \in Nat : \E h \in T : d = n - h}
<1>1. \A h \in T : n - h \in D
  OBVIOUS
<1>2. D \subseteq Nat /\ D # {}
  BY <1>1
<1>3. \E x \in D : \A y \in D : x <= y
  <2> HIDE DEF D
  <2> QED BY <1>2, LeastOf
<1>4. PICK x \in D : \A y \in D : x <= y
  BY <1>3
<1>5. PICK h \in T : x = n - h
  OBVIOUS
<1>6. ASSUME NEW k \in T PROVE k <= h
  <2>1. n - h <= n - k
    BY <1>1, <1>4, <1>5
  <2> QED BY <2>1
<1> QED BY <1>6

\* A set of consecutive heights that holds, with each height, every height
\* down to a is the interval of its own size that starts at a.
LEMMA PrefixIsInterval ==
  ASSUME NEW a \in Nat, NEW n \in Nat, NEW W, W \subseteq a .. a + n - 1,
         \A h \in W : \A g \in a .. h : g \in W
  PROVE  /\ IsFiniteSet(W) /\ Cardinality(W) \in 0 .. n
         /\ W = a .. a + Cardinality(W) - 1
<1> DEFINE T == (a .. a + n) \ W
<1>1. T \subseteq Nat /\ T # {}
  <2>1. a + n \in T
    OBVIOUS
  <2> QED BY <2>1
<1>2. \E m \in T : \A k \in T : m <= k
  <2> HIDE DEF T
  <2> QED BY <1>1, LeastOf
<1>3. PICK m \in T : \A k \in T : m <= k
  BY <1>2
<1>4. W = a .. m - 1
  <2>1. ASSUME NEW g \in a .. m - 1 PROVE g \in W
    BY <1>3
  <2>2. ASSUME NEW h \in W PROVE h \in a .. m - 1
    <3>1. ~(m <= h)
      BY <1>3
    <3> QED BY <3>1
  <2> QED BY <2>1, <2>2
<1>5. IsFiniteSet(a .. m - 1) /\ Cardinality(a .. m - 1) = IF a > m - 1 THEN 0 ELSE m - 1 - a + 1
  BY FS_Interval
<1> QED BY <1>3, <1>4, <1>5

\* A set of naturals that holds 0 and the successors of its elements is Nat.
LEMMA AllNaturals ==
  ASSUME NEW G, G \subseteq Nat, 0 \in G, \A n \in G : n + 1 \in G
  PROVE  G = Nat
<1> SUFFICES ASSUME Nat \ G # {} PROVE FALSE
  OBVIOUS
<1>1. PICK m \in Nat \ G : \A k \in Nat \ G : m <= k
  BY LeastOf
<1>2. m # 0
  OBVIOUS
<1>3. m - 1 \in Nat /\ m - 1 \notin Nat \ G
  BY <1>1, <1>2
<1>4. (m - 1) + 1 \in G
  BY <1>3
<1> QED BY <1>4

\* A finite non-empty set of naturals has a greatest element.
LEMMA FiniteHasTop ==
  ASSUME NEW T, T \subseteq Nat, T # {}, IsFiniteSet(T)
  PROVE  \E h \in T : \A k \in T : k <= h
<1> DEFINE Tops == {n \in Nat : \A U \in SUBSET T :
                      Cardinality(U) = n + 1 => \E h \in U : \A k \in U : k <= h}
<1>1. \A U \in SUBSET T : IsFiniteSet(U) /\ Cardinality(U) \in Nat
  BY FS_Subset, FS_CardinalityType
<1>2. 0 \in Tops
  <2>1. ASSUME NEW U \in SUBSET T, Cardinality(U) = 0 + 1
        PROVE  \E h \in U : \A k \in U : k <= h
    <3>1. IsFiniteSet(U) /\ Cardinality(U) = 1
      BY <1>1, <2>1
    <3>2. PICK h : U = {h}
      BY <3>1, FS_Singleton
    <3> QED BY <3>2
  <2> QED BY <2>1
<1>3. ASSUME NEW n \in Tops PROVE n + 1 \in Tops
  <2>1. n \in Nat /\ \A U \in SUBSET T :
          Cardinality(U) = n + 1 => \E h \in U : \A k \in U : k <= h
    OBVIOUS
  <2>2. ASSUME NEW U \in SUBSET T, Cardinality(U) = n + 1 + 1
        PROVE  \E h \in U : \A k \in U : k <= h
    <3>1. IsFiniteSet(U) /\ U # {}
      BY <1>1, <2>1, <2>2, FS_EmptySet
    <3>2. PICK x : x \in U
      BY <3>1
    <3>3. Cardinality(U \ {x}) = Cardinality(U) - 1
      BY <3>1, <3>2, FS_RemoveElement
    <3>4. Cardinality(U \ {x}) = n + 1
      BY <2>1, <2>2, <3>3
    <3>5. PICK h \in U \ {x} : \A k \in U \ {x} : k <= h
      <4>1. U \ {x} \in SUBSET T
        OBVIOUS
      <4> QED BY <2>1, <3>4, <4>1
    <3>6. h \in Nat /\ x \in Nat /\ h \in U
      BY <3>2
    <3>7. CASE x <= h
      BY <3>5, <3>6, <3>7
    <3>8. CASE h <= x
      <4>1. \A k \in U : k <= x
        BY <3>5, <3>6, <3>8
      <4> QED BY <3>2, <4>1
    <3> QED BY <3>6, <3>7, <3>8
  <2>3. n + 1 \in Nat
    BY <2>1
  <2> QED BY <2>2, <2>3
<1>4. Tops = Nat
  <2>1. Tops \subseteq Nat
    OBVIOUS
  <2> HIDE DEF Tops
  <2> QED BY <1>2, <1>3, <2>1, AllNaturals
<1>5. Cardinality(T) \in Nat /\ Cardinality(T) # 0
  BY FS_CardinalityType, FS_EmptySet
<1>6. Cardinality(T) - 1 \in Tops /\ Cardinality(T) = (Cardinality(T) - 1) + 1
  BY <1>4, <1>5
<1> QED BY <1>6

-----------------------------------------------------------------------------
(* The sum of a function over a finite set.  MapThenSumSet is a recursive  *)
(* function on the subsets of its argument; here it is shown to exist, to  *)
(* be unique, and to obey the laws of a sum.                               *)

Chosen(s) == CHOOSE x \in s : TRUE

\* g is the recursive function that MapThenSumSet builds for f on S.
Sums(g, f, S) ==
  g = [s \in SUBSET S |-> IF s = {} THEN 0 ELSE f[Chosen(s)] + g[s \ {Chosen(s)}]]

Sum(f, S) == MapThenSumSet(LAMBDA x : f[x], S)

\* The recursion has a solution.
LEMMA SumsExist ==
  ASSUME NEW S, IsFiniteSet(S), NEW f, \A x \in S : f[x] \in Int
  PROVE  \E g \in [SUBSET S -> Int] : Sums(g, f, S)
<1> DEFINE D(n) == {s \in SUBSET S : Cardinality(s) <= n}
           Body(g, s) == IF s = {} THEN 0 ELSE f[Chosen(s)] + g[s \ {Chosen(s)}]
           G == {n \in Nat : \E g \in [D(n) -> Int] : \A s \in D(n) : g[s] = Body(g, s)}
<1>1. \A s \in SUBSET S : IsFiniteSet(s) /\ Cardinality(s) \in Nat
  BY FS_Subset, FS_CardinalityType
<1>2. \A s \in SUBSET S : s # {} => Chosen(s) \in s
  BY DEF Chosen
<1>3. 0 \in G
  <2>1. \A s \in D(0) : s = {}
    BY <1>1, FS_EmptySet
  <2> DEFINE g == [s \in D(0) |-> 0]
  <2>2. g \in [D(0) -> Int] /\ \A s \in D(0) : g[s] = Body(g, s)
    BY <2>1
  <2> HIDE DEF g, D, Body
  <2> QED BY <2>2
<1>4. ASSUME NEW n \in G PROVE n + 1 \in G
  <2>1. n \in Nat /\ n + 1 \in Nat
    OBVIOUS
  <2>2. PICK g \in [D(n) -> Int] : \A s \in D(n) : g[s] = Body(g, s)
    BY <1>4
  <2> DEFINE h == [s \in D(n + 1) |-> Body(g, s)]
  <2>3. \A s \in D(n + 1) : s # {} => s \ {Chosen(s)} \in D(n)
    <3> SUFFICES ASSUME NEW s \in D(n + 1), s # {} PROVE s \ {Chosen(s)} \in D(n)
      OBVIOUS
    <3>1. s \in SUBSET S /\ IsFiniteSet(s) /\ Cardinality(s) \in Nat /\ Cardinality(s) <= n + 1
      BY <1>1
    <3>2. Chosen(s) \in s
      BY <1>2, <3>1
    <3>3. Cardinality(s \ {Chosen(s)}) = Cardinality(s) - 1
      BY <3>1, <3>2, FS_RemoveElement
    <3> QED BY <2>1, <3>1, <3>3
  <2>4. \A s \in D(n + 1) : Body(g, s) \in Int
    <3> SUFFICES ASSUME NEW s \in D(n + 1), s # {} PROVE f[Chosen(s)] + g[s \ {Chosen(s)}] \in Int
      OBVIOUS
    <3>1. Chosen(s) \in S
      BY <1>2
    <3>2. g[s \ {Chosen(s)}] \in Int
      <4> HIDE DEF D
      <4> QED BY <2>3
    <3> QED BY <3>1, <3>2
  <2>5. \A s \in D(n) : s \in D(n + 1)
    BY <1>1, <2>1
  <2> HIDE DEF D
  <2>6. h \in [D(n + 1) -> Int]
    <3> HIDE DEF Body
    <3> QED BY <2>4
  <2>7. \A s \in D(n + 1) : h[s] = Body(g, s)
    <3> HIDE DEF Body
    <3> QED OBVIOUS
  <2>8. \A s \in D(n) : h[s] = g[s]
    <3> HIDE DEF h, Body
    <3> QED BY <2>2, <2>5, <2>7
  <2>9. \A s \in D(n + 1) : Body(g, s) = Body(h, s)
    <3> HIDE DEF h
    <3> QED BY <2>3, <2>8
  <2>10. \A s \in D(n + 1) : h[s] = Body(h, s)
    <3> HIDE DEF h, Body
    <3> QED BY <2>7, <2>9
  <2> HIDE DEF h, Body
  <2> QED BY <2>1, <2>6, <2>10
<1>5. G = Nat
  <2>1. G \subseteq Nat
    OBVIOUS
  <2> HIDE DEF G
  <2> QED BY <1>3, <1>4, <2>1, AllNaturals
<1>6. Cardinality(S) \in Nat /\ D(Cardinality(S)) = SUBSET S
  BY <1>1, FS_Subset, FS_CardinalityType
<1>7. PICK g \in [SUBSET S -> Int] : \A s \in SUBSET S : g[s] = Body(g, s)
  <2>1. Cardinality(S) \in G
    BY <1>5, <1>6
  <2> HIDE DEF D, Body
  <2> QED BY <1>6, <2>1
<1>8. g = [s \in SUBSET S |-> Body(g, s)]
  <2> HIDE DEF Body
  <2> QED BY <1>7
<1> QED BY <1>8 DEF Sums

\* A solution on a set and one on a part of it agree on the part.
LEMMA SumsAgree ==
  ASSUME NEW S, IsFiniteSet(S), NEW T, T \subseteq S, NEW f,
         NEW g, Sums(g, f, S), NEW h, Sums(h, f, T)
  PROVE  \A u \in SUBSET T : g[u] = h[u]
<1> DEFINE G == {n \in Nat : \A u \in SUBSET T : Cardinality(u) <= n => g[u] = h[u]}
<1>1. \A u \in SUBSET T : /\ IsFiniteSet(u) /\ Cardinality(u) \in Nat
                          /\ u # {} => Chosen(u) \in u /\ Cardinality(u \ {Chosen(u)}) = Cardinality(u) - 1
  <2> TAKE u \in SUBSET T
  <2>1. IsFiniteSet(u) /\ Cardinality(u) \in Nat
    BY FS_Subset, FS_CardinalityType
  <2>2. u # {} => Chosen(u) \in u
    BY DEF Chosen
  <2> QED BY <2>1, <2>2, FS_RemoveElement
<1>2. \A u \in SUBSET T : /\ g[u] = IF u = {} THEN 0 ELSE f[Chosen(u)] + g[u \ {Chosen(u)}]
                          /\ h[u] = IF u = {} THEN 0 ELSE f[Chosen(u)] + h[u \ {Chosen(u)}]
  <2> TAKE u \in SUBSET T
  <2>1. u \in SUBSET S
    OBVIOUS
  <2>2. g[u] = IF u = {} THEN 0 ELSE f[Chosen(u)] + g[u \ {Chosen(u)}]
    BY <2>1, Zenon DEF Sums
  <2>3. h[u] = IF u = {} THEN 0 ELSE f[Chosen(u)] + h[u \ {Chosen(u)}]
    BY Zenon DEF Sums
  <2> QED BY <2>2, <2>3
<1>3. 0 \in G
  <2>1. ASSUME NEW u \in SUBSET T, Cardinality(u) <= 0 PROVE u = {}
    <3>1. IsFiniteSet(u) /\ Cardinality(u) \in Nat
      BY FS_Subset, FS_CardinalityType
    <3>2. Cardinality(u) = 0
      BY <2>1, <3>1
    <3> QED BY <3>1, <3>2, FS_EmptySet
  <2> QED BY <1>2, <2>1
<1>4. ASSUME NEW n \in G PROVE n + 1 \in G
  <2>1. n \in Nat /\ \A u \in SUBSET T : Cardinality(u) <= n => g[u] = h[u]
    OBVIOUS
  <2>2. ASSUME NEW u \in SUBSET T, Cardinality(u) <= n + 1, u # {} PROVE g[u] = h[u]
    <3>1. u \ {Chosen(u)} \in SUBSET T /\ Cardinality(u \ {Chosen(u)}) <= n
      BY <1>1, <2>1, <2>2
    <3>2. g[u \ {Chosen(u)}] = h[u \ {Chosen(u)}]
      BY <2>1, <3>1
    <3> QED BY <1>2, <2>2, <3>2
  <2>3. g[{}] = h[{}]
    BY <1>2
  <2>4. \A u \in SUBSET T : Cardinality(u) <= n + 1 => g[u] = h[u]
    BY <2>2, <2>3
  <2>5. n + 1 \in Nat
    BY <2>1
  <2> QED BY <2>4, <2>5
<1>5. G = Nat
  <2>1. G \subseteq Nat
    OBVIOUS
  <2> HIDE DEF G
  <2> QED BY <1>3, <1>4, <2>1, AllNaturals
<1> SUFFICES ASSUME NEW u \in SUBSET T PROVE g[u] = h[u]
  OBVIOUS
<1>6. Cardinality(u) \in G
  BY <1>1, <1>5
<1> QED BY <1>1, <1>6

\* Sum is the value of every solution on a set that holds S.
LEMMA SumDef ==
  ASSUME NEW U, IsFiniteSet(U), NEW S, S \subseteq U, NEW f, \A x \in U : f[x] \in Int,
         NEW g, Sums(g, f, U)
  PROVE  Sum(f, S) = g[S]
<1> DEFINE I == CHOOSE h : Sums(h, f, S)
<1>1. IsFiniteSet(S) /\ \A x \in S : f[x] \in Int
  BY FS_Subset
<1>2. \E h : Sums(h, f, S)
  BY <1>1, SumsExist
<1>3. Sums(I, f, S)
  BY <1>2, Zenon
<1>4. Sum(f, S) = I[S]
  BY DEF Sum, MapThenSumSet, MapThenFoldSet, Sums, Chosen
<1> HIDE DEF I
<1> QED BY <1>3, <1>4, SumsAgree

\* The sum over nothing is 0.
LEMMA SumEmpty ==
  ASSUME NEW f
  PROVE  Sum(f, {}) = 0
<1>1. IsFiniteSet({}) /\ \A x \in {} : f[x] \in Int
  BY FS_EmptySet
<1>2. PICK g \in [SUBSET {} -> Int] : Sums(g, f, {})
  BY <1>1, SumsExist
<1>3. Sum(f, {}) = g[{}]
  BY <1>1, <1>2, SumDef
<1>4. g[{}] = 0
  BY <1>2, Zenon DEF Sums
<1> QED BY <1>3, <1>4

\* A new element adds its own value, whatever the order of the recursion.
LEMMA SumAdd ==
  ASSUME NEW S, IsFiniteSet(S), NEW x, x \notin S, NEW f, \A y \in S \cup {x} : f[y] \in Int
  PROVE  Sum(f, S \cup {x}) = Sum(f, S) + f[x] /\ Sum(f, S) \in Int
<1> DEFINE U == S \cup {x}
<1>1. IsFiniteSet(U)
  BY FS_AddElement
<1>2. PICK g \in [SUBSET U -> Int] : Sums(g, f, U)
  <2> HIDE DEF U
  <2> QED BY <1>1, SumsExist DEF U
<1> DEFINE G == {n \in Nat : \A T \in SUBSET U : \A z \in U \ T :
                               Cardinality(T) <= n => g[T \cup {z}] = g[T] + f[z]}
<1>3. \A u \in SUBSET U : /\ g[u] \in Int
                          /\ u # {} => Chosen(u) \in u /\ g[u] = f[Chosen(u)] + g[u \ {Chosen(u)}]
  <2> TAKE u \in SUBSET U
  <2>1. g[u] = IF u = {} THEN 0 ELSE f[Chosen(u)] + g[u \ {Chosen(u)}]
    BY <1>2, Zenon DEF Sums
  <2>2. u # {} => Chosen(u) \in u
    BY DEF Chosen
  <2> QED BY <1>2, <2>1, <2>2
<1>4. \A u \in SUBSET U : IsFiniteSet(u) /\ Cardinality(u) \in Nat
  <2> HIDE DEF U
  <2> QED BY <1>1, FS_Subset, FS_CardinalityType
<1>5. \A y \in U : f[y] \in Int
  OBVIOUS
<1>6. g[{}] = 0
  BY <1>2, Zenon DEF Sums
<1> HIDE DEF U
<1>7. 0 \in G
  <2>1. ASSUME NEW T \in SUBSET U, NEW z \in U \ T, Cardinality(T) <= 0
        PROVE  g[T \cup {z}] = g[T] + f[z]
    <3>1. T = {}
      BY <1>4, <2>1, FS_EmptySet
    <3>2. {z} \in SUBSET U /\ Chosen({z}) = z /\ {z} \ {z} = {}
      BY DEF Chosen
    <3>3. g[{z}] = f[z] + g[{}]
      BY <1>3, <3>2
    <3>4. T \cup {z} = {z}
      BY <3>1
    <3> QED BY <1>5, <1>6, <3>1, <3>3, <3>4
  <2> QED BY <2>1
<1>8. ASSUME NEW n \in G PROVE n + 1 \in G
  <2>1. n \in Nat /\ n + 1 \in Nat /\ \A T \in SUBSET U : \A z \in U \ T :
                               Cardinality(T) <= n => g[T \cup {z}] = g[T] + f[z]
    OBVIOUS
  <2>2. ASSUME NEW T \in SUBSET U, NEW z \in U \ T, Cardinality(T) <= n + 1
        PROVE  g[T \cup {z}] = g[T] + f[z]
    <3> DEFINE V == T \cup {z}
               c == Chosen(V)
               R == T \ {c}
    <3>1. V \in SUBSET U /\ V # {} /\ c \in V
      BY <1>3
    <3>2. g[V] = f[c] + g[V \ {c}]
      BY <1>3, <3>1
    <3>3. CASE c = z
      <4>1. V \ {c} = T
        BY <3>3
      <4> QED BY <1>3, <1>5, <3>2, <3>3, <4>1
    <3>4. CASE c # z
      <4>0. c \in V /\ c # z
        BY <3>1, <3>4
      <4>1. c \in T /\ V \ {c} = R \cup {z} /\ T = R \cup {c} /\ R \in SUBSET U
            /\ z \in U \ R /\ c \in U \ R
        <5> HIDE DEF c
        <5> QED BY <4>0
      <4>2. Cardinality(R) <= n
        <5>1. Cardinality(R) = Cardinality(T) - 1
          <6>1. IsFiniteSet(T) /\ c \in T
            BY <1>4, <4>1
          <6> HIDE DEF c
          <6> QED BY <6>1, FS_RemoveElement
        <5>2. Cardinality(T) \in Nat
          BY <1>4
        <5> QED BY <2>1, <2>2, <5>1, <5>2
      <4> HIDE DEF V, R, c
      <4>3. g[R \cup {z}] = g[R] + f[z] /\ g[R \cup {c}] = g[R] + f[c]
        BY <2>1, <4>1, <4>2
      <4>4. g[R] \in Int /\ f[c] \in Int /\ f[z] \in Int
        BY <1>3, <1>5, <4>1
      <4>5. g[V] = f[c] + (g[R] + f[z]) /\ g[T] = g[R] + f[c]
        BY <3>2, <4>1, <4>3
      <4>6. g[V] = g[T] + f[z]
        BY <4>4, <4>5
      <4> QED BY <4>6 DEF V
    <3> QED BY <3>3, <3>4
  <2> QED BY <2>1, <2>2
<1>9. G = Nat
  <2>1. G \subseteq Nat
    OBVIOUS
  <2> HIDE DEF G
  <2> QED BY <1>7, <1>8, <2>1, AllNaturals
<1>10. S \in SUBSET U /\ x \in U \ S /\ Cardinality(S) \in G
  BY <1>4, <1>9 DEF U
<1>11. g[S \cup {x}] = g[S] + f[x]
  BY <1>4, <1>10
<1>12. Sum(f, S) = g[S] /\ Sum(f, U) = g[U]
  BY <1>1, <1>2, <1>5, <1>10, SumDef
<1> QED BY <1>3, <1>10, <1>11, <1>12 DEF U

\* The sum over two disjoint sets is the sum of their sums.
LEMMA SumUnion ==
  ASSUME NEW A, IsFiniteSet(A), NEW B, IsFiniteSet(B), A \cap B = {},
         NEW f, \A y \in A \cup B : f[y] \in Int
  PROVE  Sum(f, A \cup B) = Sum(f, A) + Sum(f, B) /\ Sum(f, A) \in Int /\ Sum(f, B) \in Int
<1> DEFINE Law(T) == /\ Sum(f, A \cup T) = Sum(f, A) + Sum(f, T)
                     /\ Sum(f, A) \in Int /\ Sum(f, T) \in Int
           G == {n \in Nat : \A T \in SUBSET B : Cardinality(T) = n => Law(T)}
<1>1. \A T \in SUBSET B : IsFiniteSet(T) /\ Cardinality(T) \in Nat
  BY FS_Subset, FS_CardinalityType
<1>2. Sum(f, A) \in Int
  <2>1. PICK g \in [SUBSET A -> Int] : Sums(g, f, A)
    BY SumsExist
  <2>2. Sum(f, A) = g[A]
    BY <2>1, SumDef
  <2> QED BY <2>1, <2>2
<1>3. 0 \in G
  <2>1. ASSUME NEW T \in SUBSET B, Cardinality(T) = 0 PROVE Law(T)
    <3>1. T = {} /\ A \cup T = A
      BY <1>1, <2>1, FS_EmptySet
    <3>2. Sum(f, T) = 0
      BY <3>1, SumEmpty
    <3> QED BY <1>2, <3>1, <3>2
  <2> HIDE DEF Law
  <2> QED BY <2>1
<1>4. ASSUME NEW n \in G PROVE n + 1 \in G
  <2>1. n \in Nat /\ \A T \in SUBSET B : Cardinality(T) = n => Law(T)
    <3> HIDE DEF Law
    <3> QED OBVIOUS
  <2>2. ASSUME NEW T \in SUBSET B, Cardinality(T) = n + 1 PROVE Law(T)
    <3>1. T # {} /\ IsFiniteSet(T)
      BY <1>1, <2>1, <2>2, FS_EmptySet
    <3>2. PICK x : x \in T
      BY <3>1
    <3> DEFINE R == T \ {x}
    <3>3. R \in SUBSET B /\ x \notin R /\ T = R \cup {x} /\ x \notin A \cup R /\ x \in B
      BY <3>2
    <3>4. Cardinality(R) = n /\ IsFiniteSet(R)
      <4>1. IsFiniteSet(R) /\ Cardinality(R) = Cardinality(T) - 1
        BY <3>1, <3>2, FS_RemoveElement
      <4> HIDE DEF R
      <4> QED BY <2>1, <2>2, <4>1
    <3> HIDE DEF R
    <3>5. Law(R)
      <4> HIDE DEF Law
      <4> QED BY <2>1, <3>3, <3>4
    <3>6. Sum(f, T) = Sum(f, R) + f[x]
      BY <3>3, <3>4, SumAdd
    <3>7. A \cup T = (A \cup R) \cup {x}
      BY <3>3
    <3>8. IsFiniteSet(A \cup R)
      BY <3>4, FS_Union
    <3>9. Sum(f, (A \cup R) \cup {x}) = Sum(f, A \cup R) + f[x]
      <4>1. \A y \in (A \cup R) \cup {x} : f[y] \in Int
        BY <3>3
      <4> QED BY <3>3, <3>8, <4>1, SumAdd
    <3>10. f[x] \in Int
      BY <3>3
    <3> QED BY <3>5, <3>6, <3>7, <3>9, <3>10
  <2> HIDE DEF Law
  <2>3. n + 1 \in Nat
    BY <2>1
  <2> QED BY <2>2, <2>3
<1>5. G = Nat
  <2>1. G \subseteq Nat
    OBVIOUS
  <2> HIDE DEF G
  <2> QED BY <1>3, <1>4, <2>1, AllNaturals
<1>6. Cardinality(B) \in G
  BY <1>1, <1>5
<1>7. Law(B)
  <2> HIDE DEF Law
  <2> QED BY <1>6
<1> QED BY <1>7

\* Functions that agree on a set have the same sum over it.
LEMMA SumSame ==
  ASSUME NEW S, IsFiniteSet(S), NEW f, NEW h, \A x \in S : f[x] \in Int /\ h[x] = f[x]
  PROVE  Sum(h, S) = Sum(f, S)
<1>1. PICK g \in [SUBSET S -> Int] : Sums(g, f, S)
  BY SumsExist
<1>2. \A s \in SUBSET S : s # {} => f[Chosen(s)] = h[Chosen(s)]
  BY DEF Chosen
<1>3. Sums(g, h, S)
  BY <1>1, <1>2 DEF Sums
<1>4. Sum(f, S) = g[S]
  BY <1>1, SumDef
<1>5. Sum(h, S) = g[S]
  BY <1>3, SumDef
<1> QED BY <1>4, <1>5

\* A sum of naturals is a natural.
LEMMA SumNat ==
  ASSUME NEW S, IsFiniteSet(S), NEW f, \A x \in S : f[x] \in Nat
  PROVE  Sum(f, S) \in Nat
<1> DEFINE G == {n \in Nat : \A T \in SUBSET S : Cardinality(T) = n => Sum(f, T) \in Nat}
<1>1. \A T \in SUBSET S : IsFiniteSet(T) /\ Cardinality(T) \in Nat
  BY FS_Subset, FS_CardinalityType
<1>2. 0 \in G
  <2>1. ASSUME NEW T \in SUBSET S, Cardinality(T) = 0 PROVE Sum(f, T) \in Nat
    <3>1. T = {}
      BY <1>1, <2>1, FS_EmptySet
    <3> QED BY <3>1, SumEmpty
  <2> QED BY <2>1
<1>3. ASSUME NEW n \in G PROVE n + 1 \in G
  <2>1. ASSUME NEW T \in SUBSET S, Cardinality(T) = n + 1 PROVE Sum(f, T) \in Nat
    <3>1. T # {} /\ IsFiniteSet(T)
      BY <1>1, <2>1, FS_EmptySet
    <3>2. PICK x : x \in T
      BY <3>1
    <3> DEFINE R == T \ {x}
    <3>3. R \in SUBSET S /\ x \notin R /\ T = R \cup {x} /\ x \in S
      BY <3>2
    <3>4. Cardinality(R) = n /\ IsFiniteSet(R)
      <4>1. IsFiniteSet(R) /\ Cardinality(R) = Cardinality(T) - 1
        BY <3>1, <3>2, FS_RemoveElement
      <4>2. n \in Nat
        OBVIOUS
      <4> HIDE DEF R
      <4> QED BY <2>1, <4>1, <4>2
    <3> HIDE DEF R
    <3>5. Sum(f, R) \in Nat
      BY <1>3, <3>3, <3>4
    <3>6. Sum(f, T) = Sum(f, R) + f[x]
      <4>1. \A y \in R \cup {x} : f[y] \in Int
        BY <3>3
      <4> QED BY <3>3, <3>4, <4>1, SumAdd
    <3> QED BY <3>3, <3>5, <3>6
  <2> QED BY <2>1
<1>4. G = Nat
  <2>1. G \subseteq Nat
    OBVIOUS
  <2> HIDE DEF G
  <2> QED BY <1>2, <1>3, <2>1, AllNaturals
<1>5. Cardinality(S) \in G
  BY <1>1, <1>4
<1> QED BY <1>5
=============================================================================
