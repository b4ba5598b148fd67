---------------------------- MODULE SetInduction ----------------------------
(***************************************************************************)
(* Induction and recursion over the natural numbers and over the subsets   *)
(* of a finite set, stated for sets and functions, so that no theorem      *)
(* takes an operator: a property is the set of what has it, a recursive    *)
(* definition the function its steps apply.  Then what the recursion       *)
(* behind SumFunctionOnSet comes to: the laws of finite sums, and the      *)
(* extremes of a finite set.                                               *)
(***************************************************************************)
EXTENDS Integers, FiniteSets, FiniteSetsExt, Functions, FiniteSetTheorems, TLAPS

\* A set of natural numbers has a least one.
LEMMA LeastNumber ==
  ASSUME NEW T \in SUBSET Nat, T # {}
  PROVE  \E x \in T : \A y \in T : x <= y
<1> DEFINE R == {ss \in Nat \X Nat : ss[1] < ss[2]}
<1>1. IsWellFoundedOn(R, Nat)
  BY NatLessThanWellFounded DEF OpToRel
<1>2. PICK x \in T : \A y \in T : ~ (<<y, x>> \in R)
  <2> HIDE DEF R
  <2> QED BY <1>1, WFMin
<1>3. \A y \in T : y < x => <<y, x>> \in R
  OBVIOUS
<1> HIDE DEF R
<1>4. \A y \in T : ~ (y < x)
  BY <1>2, <1>3
<1> QED BY <1>4

\* A set of natural numbers up to b has a greatest one.
LEMMA GreatestNumber ==
  ASSUME NEW b \in Nat, NEW T \in SUBSET (0..b), T # {}
  PROVE  \E x \in T : \A y \in T : y <= x
<1> DEFINE D == {b - x : x \in T}
<1>1. D \in SUBSET Nat /\ D # {}
  <2>1. \A x \in T : b - x \in Nat
    OBVIOUS
  <2>2. \A x \in T : b - x \in D
    OBVIOUS
  <2> QED BY <2>1, <2>2
<1>2. PICK z \in D : \A y \in D : z <= y
  <2> HIDE DEF D
  <2> QED BY <1>1, LeastNumber
<1>3. PICK x \in T : z = b - x
  OBVIOUS
<1>4. ASSUME NEW y \in T PROVE y <= x
  <2>1. b - y \in D
    OBVIOUS
  <2>2. b - x <= b - y
    BY <1>2, <1>3, <2>1
  <2> QED BY <2>2
<1> QED BY <1>4

\* A set of natural numbers with 0, and with n + 1 if it has n, has them all.
LEMMA NatSetInduction ==
  ASSUME NEW T \in SUBSET Nat, 0 \in T, \A n \in T : n + 1 \in T
  PROVE  T = Nat
<1> SUFFICES ASSUME Nat \ T # {} PROVE FALSE
    OBVIOUS
<1>1. PICK m \in Nat \ T : \A y \in Nat \ T : m <= y
  <2>1. Nat \ T \in SUBSET Nat
    OBVIOUS
  <2> QED BY <2>1, LeastNumber
<1>2. m # 0 /\ m - 1 \in Nat
  OBVIOUS
<1>3. m - 1 \in T
  BY <1>1, <1>2
<1>4. (m - 1) + 1 \in T
  BY <1>3
<1> QED BY <1>4

\* f starts at s and takes n steps of F.
Iterates(f, s, F, n, S) ==
  f \in [0..n -> S] /\ f[0] = s /\ \A k \in 1..n : f[k] = F[<<f[k - 1], k>>]

\* Steps of F can be taken from s, any number of them.
LEMMA NatRecursion ==
  ASSUME NEW S, NEW s \in S, NEW F \in [S \X Nat -> S], NEW n \in Nat
  PROVE  \E f : Iterates(f, s, F, n, S)
<1> DEFINE Sol(m, f) == f[0] = s /\ \A k \in 1..m : f[k] = F[<<f[k - 1], k>>]
           T == {m \in Nat : \E f \in [0..m -> S] : Sol(m, f)}
<1>1. 0 \in T
  <2> DEFINE f == [k \in 0..0 |-> s]
  <2>1. f \in [0..0 -> S]
    OBVIOUS
  <2>2. Sol(0, f)
    OBVIOUS
  <2> QED BY <2>1, <2>2
<1>2. ASSUME NEW m \in T PROVE m + 1 \in T
  <2>1. PICK f \in [0..m -> S] : Sol(m, f)
    OBVIOUS
  <2> DEFINE g ==
    [k \in 0..(m + 1) |-> IF k = m + 1 THEN F[<<f[m], m + 1>>] ELSE f[k]]
  <2>2. g \in [0..(m + 1) -> S]
    OBVIOUS
  <2>3. Sol(m + 1, g)
    <3>1. g[0] = s
      BY <2>1
    <3>2. ASSUME NEW k \in 1..(m + 1) PROVE g[k] = F[<<g[k - 1], k>>]
      <4>1. CASE k = m + 1
        BY <4>1
      <4>2. CASE k # m + 1
        <5>1. k \in 1..m /\ g[k] = f[k] /\ g[k - 1] = f[k - 1]
          BY <4>2
        <5> QED BY <2>1, <5>1
      <4> QED BY <4>1, <4>2
    <3> HIDE DEF g
    <3> QED BY <3>1, <3>2
  <2> HIDE DEF g
  <2>4. \E h \in [0..(m + 1) -> S] : Sol(m + 1, h)
    BY <2>2, <2>3
  <2>5. m + 1 \in Nat
    OBVIOUS
  <2> QED BY <2>4, <2>5
<1>3. T = Nat
  <2>1. T \in SUBSET Nat
    OBVIOUS
  <2> HIDE DEF T
  <2> QED BY <1>1, <1>2, <2>1, NatSetInduction
<1> QED BY <1>3 DEF Iterates

\* f takes steps of F from s, without end.
Orbit(f, s, F, S) ==
  f \in [Nat -> S] /\ f[0] = s /\ \A n \in Nat : f[n + 1] = F[f[n]]

\* Steps of F can be taken from s without end.
LEMMA NatIteration ==
  ASSUME NEW S, NEW s \in S, NEW F \in [S -> S]
  PROVE  \E f : Orbit(f, s, F, S)
<1> DEFINE G == [p \in S \X Nat |-> F[p[1]]]
           upTo(n) == CHOOSE g : Iterates(g, s, G, n, S)
           f == [n \in Nat |-> upTo(n)[n]]
<1>1. G \in [S \X Nat -> S] /\ \A x \in S, k \in Nat : G[<<x, k>>] = F[x]
  OBVIOUS
<1> HIDE DEF G
<1>2. ASSUME NEW n \in Nat PROVE Iterates(upTo(n), s, G, n, S)
  BY <1>1, NatRecursion
<1> HIDE DEF upTo
<1>3. ASSUME NEW n \in Nat
      PROVE  /\ upTo(n) \in [0..n -> S] /\ upTo(n)[0] = s
             /\ \A k \in 1..n : upTo(n)[k] = F[upTo(n)[k - 1]]
  <2>1. upTo(n) \in [0..n -> S] /\ upTo(n)[0] = s
    BY <1>2 DEF Iterates
  <2>2. ASSUME NEW k \in 1..n PROVE upTo(n)[k] = F[upTo(n)[k - 1]]
    <3>1. upTo(n)[k] = G[<<upTo(n)[k - 1], k>>]
      BY <1>2 DEF Iterates
    <3>2. k - 1 \in 0..n /\ k \in Nat
      OBVIOUS
    <3>3. upTo(n)[k - 1] \in S
      BY <2>1, <3>2
    <3> QED BY <1>1, <3>1, <3>2, <3>3
  <2> QED BY <2>1, <2>2
<1>4. ASSUME NEW n \in Nat, NEW m \in Nat, n <= m
      PROVE  upTo(n)[n] = upTo(m)[n]
  <2> DEFINE T == {k \in Nat : k <= n => upTo(n)[k] = upTo(m)[k]}
  <2>1. 0 \in T
    BY <1>3
  <2>2. ASSUME NEW k \in T PROVE k + 1 \in T
    <3>1. CASE k + 1 <= n
      <4>1. k + 1 \in 1..n /\ k + 1 \in 1..m /\ (k + 1) - 1 = k /\ k <= n
        BY <1>4, <3>1
      <4>2. upTo(n)[k] = upTo(m)[k]
        BY <4>1
      <4>3. upTo(n)[k + 1] = F[upTo(n)[k]] /\ upTo(m)[k + 1] = F[upTo(m)[k]]
        BY <1>3, <4>1
      <4> QED BY <4>2, <4>3
    <3>2. CASE ~ (k + 1 <= n)
      BY <3>2
    <3> QED BY <3>1, <3>2
  <2>3. T \in SUBSET Nat
    OBVIOUS
  <2>4. T = Nat
    <3> HIDE DEF T
    <3> QED BY <2>1, <2>2, <2>3, NatSetInduction
  <2> QED BY <2>4
<1>5. f \in [Nat -> S]
  <2>1. ASSUME NEW n \in Nat PROVE upTo(n)[n] \in S
    <3>1. n \in 0..n
      OBVIOUS
    <3> QED BY <1>3, <3>1
  <2> QED BY <2>1
<1>6. f[0] = s
  BY <1>3
<1>7. ASSUME NEW n \in Nat PROVE f[n + 1] = F[f[n]]
  <2>1. n + 1 \in Nat /\ n + 1 \in 1..(n + 1) /\ (n + 1) - 1 = n /\ n <= n + 1
    OBVIOUS
  <2>2. upTo(n + 1)[n + 1] = F[upTo(n + 1)[n]]
    BY <1>3, <2>1
  <2>3. upTo(n)[n] = upTo(n + 1)[n]
    BY <1>4, <2>1
  <2> QED BY <2>1, <2>2, <2>3
<1> HIDE DEF f
<1> QED BY <1>5, <1>6, <1>7 DEF Orbit

\* A growing chain of subsets of a finite set that stays where it stops once has
\* stopped after as many steps as the set has members.
LEMMA ChainSettles ==
  ASSUME NEW V, IsFiniteSet(V), NEW f \in [Nat -> SUBSET V],
         \A n \in Nat : f[n] \subseteq f[n + 1],
         \A n \in Nat : f[n + 1] = f[n] => f[(n + 1) + 1] = f[n + 1]
  PROVE  f[Cardinality(V) + 1] = f[Cardinality(V)]
<1> DEFINE T == {n \in Nat : f[n + 1] = f[n] \/ Cardinality(f[n]) >= n}
           N == Cardinality(V)
<1>1. N \in Nat
  BY FS_CardinalityType
<1>2. ASSUME NEW n \in Nat
      PROVE  /\ f[n] \in SUBSET V /\ IsFiniteSet(f[n]) /\ Cardinality(f[n]) \in Nat
             /\ Cardinality(f[n]) <= N
             /\ Cardinality(f[n]) = N => f[n] = V
  <2>1. f[n] \in SUBSET V
    OBVIOUS
  <2>2. IsFiniteSet(f[n]) /\ Cardinality(f[n]) <= N /\ (Cardinality(f[n]) = N => f[n] = V)
    BY <2>1, FS_Subset
  <2> QED BY <2>1, <2>2, FS_CardinalityType
<1>3. 0 \in T
  BY <1>2
<1>4. ASSUME NEW n \in T PROVE n + 1 \in T
  <2>1. n + 1 \in Nat
    OBVIOUS
  <2>2. CASE f[n + 1] = f[n]
    BY <2>1, <2>2
  <2>3. CASE f[n + 1] # f[n]
    <3>1. Cardinality(f[n]) >= n
      BY <2>3
    <3>2. f[n] \in SUBSET f[n + 1]
      OBVIOUS
    <3>3. Cardinality(f[n]) <= Cardinality(f[n + 1]) /\ Cardinality(f[n]) # Cardinality(f[n + 1])
      BY <1>2, <2>1, <2>3, <3>2, FS_Subset
    <3>4. Cardinality(f[n]) \in Nat /\ Cardinality(f[n + 1]) \in Nat
      BY <1>2, <2>1
    <3>5. Cardinality(f[n + 1]) >= n + 1
      BY <3>1, <3>3, <3>4
    <3> QED BY <2>1, <3>5
  <2> QED BY <2>2, <2>3
<1>5. T = Nat
  <2>1. T \in SUBSET Nat
    OBVIOUS
  <2> HIDE DEF T
  <2> QED BY <1>3, <1>4, <2>1, NatSetInduction
<1>6. f[N + 1] = f[N] \/ Cardinality(f[N]) >= N
  BY <1>1, <1>5
<1>7. CASE Cardinality(f[N]) >= N
  <2>1. f[N] = V
    BY <1>1, <1>2, <1>7
  <2>2. f[N + 1] \in SUBSET V /\ f[N] \subseteq f[N + 1]
    BY <1>1
  <2> QED BY <2>1, <2>2
<1> QED BY <1>6, <1>7

\* A larger subset of a finite set has more members.
LEMMA SupersetsGrow ==
  ASSUME NEW V, IsFiniteSet(V)
  PROVE  /\ \A p \in SUBSET V :
              /\ Cardinality(p) \in Nat /\ Cardinality(V) \in Nat
              /\ Cardinality(p) <= Cardinality(V)
         /\ \A p, q \in SUBSET V : p \subseteq q /\ p # q => Cardinality(p) < Cardinality(q)
<1>1. \A p \in SUBSET V :
        /\ Cardinality(p) \in Nat /\ Cardinality(V) \in Nat
        /\ Cardinality(p) <= Cardinality(V)
  BY FS_CardinalityType, FS_Subset
<1>2. ASSUME NEW p \in SUBSET V, NEW q \in SUBSET V, p \subseteq q, p # q
      PROVE  Cardinality(p) < Cardinality(q)
  <2>1. IsFiniteSet(q)
    BY FS_Subset
  <2>2. Cardinality(p) <= Cardinality(q) /\ Cardinality(p) # Cardinality(q)
    BY <1>2, <2>1, FS_Subset
  <2> QED BY <1>1, <2>2
<1> QED BY <1>1, <1>2

\* What a subset of a finite set has if all larger ones do, they all have.
LEMMA SupersetInduction ==
  ASSUME NEW V, IsFiniteSet(V), NEW T \in SUBSET (SUBSET V),
         \A p \in SUBSET V :
           (\A q \in SUBSET V : p \subseteq q /\ p # q => q \in T) => p \in T
  PROVE  T = SUBSET V
<1> DEFINE N == Cardinality(V)
           D == {n \in Nat : \A p \in SUBSET V : N - Cardinality(p) < n => p \in T}
<1>1. \A p \in SUBSET V :
        Cardinality(p) \in Nat /\ N \in Nat /\ Cardinality(p) <= N
  BY SupersetsGrow
<1>2. \A p, q \in SUBSET V : p \subseteq q /\ p # q => Cardinality(p) < Cardinality(q)
  BY SupersetsGrow
<1>3. 0 \in D
  BY <1>1
<1>4. ASSUME NEW n \in D PROVE n + 1 \in D
  <2>1. ASSUME NEW p \in SUBSET V, N - Cardinality(p) < n + 1 PROVE p \in T
    <3>1. ASSUME NEW q \in SUBSET V, p \subseteq q, p # q PROVE q \in T
      <4>1. Cardinality(p) < Cardinality(q)
        BY <1>2, <3>1
      <4>2. N - Cardinality(q) < n
        BY <1>1, <2>1, <4>1
      <4> QED BY <4>2
    <3> QED BY <3>1
  <2> QED BY <2>1
<1>5. D = Nat
  <2>1. D \in SUBSET Nat
    OBVIOUS
  <2> HIDE DEF D
  <2> QED BY <1>3, <1>4, <2>1, NatSetInduction
<1>6. ASSUME NEW p \in SUBSET V PROVE p \in T
  <2>1. N - Cardinality(p) < N + 1 /\ N + 1 \in D
    BY <1>1, <1>5
  <2> QED BY <2>1
<1> QED BY <1>6

\* What F makes of a function at a set depends only on its values at larger sets.
FromSupersets(F, V, R) ==
  /\ F \in [[SUBSET V -> R] -> [SUBSET V -> R]]
  /\ \A f, g \in [SUBSET V -> R], p \in SUBSET V :
       (\A q \in SUBSET V : p \subseteq q /\ p # q => f[q] = g[q]) => F[f][p] = F[g][p]

\* A function that F leaves as it is: what a recursive definition defines.
HasFixpoint(F, V, R) == \E f \in [SUBSET V -> R] : F[f] = f

\* A recursive definition on the larger subsets of a finite set defines a function.
LEMMA SupersetRecursion ==
  ASSUME NEW V, IsFiniteSet(V), NEW R, R # {}, NEW F, FromSupersets(F, V, R)
  PROVE  HasFixpoint(F, V, R)
<1>0. PICK r : r \in R
  OBVIOUS
<1> DEFINE S == [SUBSET V -> R]
           s == [p \in SUBSET V |-> r]
<1>1. s \in S /\ F \in [S -> S]
  BY <1>0 DEF FromSupersets
<1>2. PICK h : Orbit(h, s, F, S)
  <2> HIDE DEF S, s
  <2> QED BY <1>1, NatIteration
<1>3. h \in [Nat -> S] /\ \A n \in Nat : h[n + 1] = F[h[n]]
  BY <1>2 DEF Orbit
<1> HIDE DEF s
<1>4. ASSUME NEW n \in Nat
      PROVE  h[n] \in [SUBSET V -> R] /\ h[n + 1] \in [SUBSET V -> R]
  <2>1. n + 1 \in Nat
    OBVIOUS
  <2>2. \A m \in Nat : h[m] \in S
    <3> HIDE DEF S
    <3> QED BY <1>3
  <2> QED BY <2>1, <2>2
<1> DEFINE D == {n \in Nat : \A p \in SUBSET V :
                               Cardinality(V) - Cardinality(p) < n => h[n + 1][p] = h[n][p]}
<1>5. \A p \in SUBSET V :
        Cardinality(p) \in Nat /\ Cardinality(V) \in Nat /\ Cardinality(p) <= Cardinality(V)
  BY SupersetsGrow
<1>6. \A p, q \in SUBSET V : p \subseteq q /\ p # q => Cardinality(p) < Cardinality(q)
  BY SupersetsGrow
<1>7. 0 \in D
  BY <1>5
<1>8. ASSUME NEW n \in D PROVE n + 1 \in D
  <2>1. n \in Nat /\ n + 1 \in Nat
    OBVIOUS
  <2>2. ASSUME NEW p \in SUBSET V, Cardinality(V) - Cardinality(p) < n + 1
        PROVE  h[(n + 1) + 1][p] = h[n + 1][p]
    <3>1. ASSUME NEW q \in SUBSET V, p \subseteq q, p # q PROVE h[n + 1][q] = h[n][q]
      <4>1. Cardinality(p) < Cardinality(q)
        BY <1>6, <3>1
      <4>2. Cardinality(V) - Cardinality(q) < n
        BY <1>5, <2>2, <4>1
      <4> QED BY <4>2
    <3>2. F[h[n + 1]][p] = F[h[n]][p]
      BY <1>4, <2>1, <3>1 DEF FromSupersets
    <3>3. h[n + 1] = F[h[n]] /\ h[(n + 1) + 1] = F[h[n + 1]]
      BY <1>3, <2>1
    <3> QED BY <3>2, <3>3
  <2> QED BY <2>1, <2>2
<1>9. D = Nat
  <2>1. D \in SUBSET Nat
    OBVIOUS
  <2> HIDE DEF D
  <2> QED BY <1>7, <1>8, <2>1, NatSetInduction
<1> DEFINE K == Cardinality(V) + 1
<1>10. K \in Nat
  BY <1>5
<1>11. ASSUME NEW p \in SUBSET V PROVE h[K + 1][p] = h[K][p]
  <2>1. Cardinality(V) - Cardinality(p) < K /\ K \in D
    BY <1>5, <1>9, <1>10
  <2> QED BY <2>1
<1> HIDE DEF K
<1>12. h[K + 1] = h[K]
  BY <1>4, <1>10, <1>11
<1>13. F[h[K]] = h[K]
  BY <1>3, <1>10, <1>12
<1> QED BY <1>4, <1>10, <1>13 DEF HasFixpoint

-----------------------------------------------------------------------------
\* What a set has if all its proper subsets do, every subset of a finite set has.
LEMMA SubsetInduction ==
  ASSUME NEW V, IsFiniteSet(V), NEW T \in SUBSET (SUBSET V),
         \A p \in SUBSET V :
           (\A q \in SUBSET V : q \subseteq p /\ q # p => q \in T) => p \in T
  PROVE  T = SUBSET V
<1> DEFINE U == {p \in SUBSET V : V \ p \in T}
<1>1. ASSUME NEW p \in SUBSET V, \A q \in SUBSET V : p \subseteq q /\ p # q => q \in U
      PROVE  p \in U
  <2>1. ASSUME NEW q \in SUBSET V, q \subseteq V \ p, q # V \ p PROVE q \in T
    <3>1. V \ q \in SUBSET V /\ p \subseteq V \ q /\ p # V \ q /\ V \ (V \ q) = q
      BY <2>1
    <3>2. V \ q \in U
      BY <1>1, <3>1
    <3>3. V \ (V \ q) \in T
      BY <3>2
    <3> HIDE DEF U
    <3> QED BY <3>1, <3>3
  <2>2. V \ p \in SUBSET V
    OBVIOUS
  <2> QED BY <2>1, <2>2
<1>2. U = SUBSET V
  <2>1. U \in SUBSET (SUBSET V)
    OBVIOUS
  <2> HIDE DEF U
  <2> QED BY <1>1, <2>1, SupersetInduction
<1>3. ASSUME NEW p \in SUBSET V PROVE p \in T
  <2>1. V \ p \in U /\ V \ (V \ p) = p
    BY <1>2
  <2>2. V \ (V \ p) \in T
    BY <2>1
  <2> HIDE DEF U
  <2> QED BY <2>1, <2>2
<1> QED BY <1>3

-----------------------------------------------------------------------------
\* The member a sum takes first.
Picked(a) == CHOOSE x \in a : TRUE

\* g has the sums of f over the subsets of S.
Summing(g, f, S) ==
  /\ g \in [SUBSET S -> Int]
  /\ g[{}] = 0
  /\ \A a \in SUBSET S : a # {} => g[a] = f[Picked(a)] + g[a \ {Picked(a)}]

\* Whatever member is taken first, the sum is the same.
LEMMA SummingAny ==
  ASSUME NEW S, IsFiniteSet(S), NEW f, \A x \in S : f[x] \in Int, NEW g, Summing(g, f, S),
         NEW b \in SUBSET S, NEW y \in b
  PROVE  g[b] = f[y] + g[b \ {y}]
<1> DEFINE T == {a \in SUBSET S : \A x \in a : g[a] = f[x] + g[a \ {x}]}
<1>1. ASSUME NEW a \in SUBSET S, \A q \in SUBSET S : q \subseteq a /\ q # a => q \in T
      PROVE  a \in T
  <2>1. ASSUME NEW x \in a PROVE g[a] = f[x] + g[a \ {x}]
    <3> DEFINE c == Picked(a)
    <3>1. c \in a
      BY <2>1 DEF Picked
    <3>2. g[a] = f[c] + g[a \ {c}]
      BY <2>1 DEF Summing
    <3> HIDE DEF c
    <3>3. CASE x = c
      BY <3>2, <3>3
    <3>4. CASE x # c
      <4>1. a \ {c} \in T /\ a \ {x} \in T
        BY <1>1, <2>1, <3>1
      <4>2. g[a \ {c}] = f[x] + g[(a \ {c}) \ {x}]
        BY <2>1, <3>4, <4>1
      <4>3. g[a \ {x}] = f[c] + g[(a \ {x}) \ {c}]
        BY <3>1, <3>4, <4>1
      <4>4. (a \ {c}) \ {x} = (a \ {x}) \ {c} /\ (a \ {x}) \ {c} \in SUBSET S
        OBVIOUS
      <4> DEFINE rest == g[(a \ {x}) \ {c}]
      <4>5. f[c] \in Int /\ f[x] \in Int /\ rest \in Int
        BY <2>1, <3>1, <4>4 DEF Summing
      <4>6. g[a \ {c}] = f[x] + rest /\ g[a \ {x}] = f[c] + rest
        BY <4>2, <4>3, <4>4
      <4> HIDE DEF rest
      <4> QED BY <3>2, <4>5, <4>6
    <3> QED BY <3>3, <3>4
  <2> QED BY <2>1
<1>2. T = SUBSET S
  <2>1. T \in SUBSET (SUBSET S)
    OBVIOUS
  <2> HIDE DEF T
  <2> QED BY <1>1, <2>1, SubsetInduction
<1> QED BY <1>2

\* Sums of functions that agree agree.
LEMMA SummingUnique ==
  ASSUME NEW S, NEW R, NEW V, IsFiniteSet(V), V \subseteq S, V \subseteq R,
         NEW f, NEW e, \A x \in V : f[x] = e[x],
         NEW g, Summing(g, f, S), NEW h, Summing(h, e, R)
  PROVE  g[V] = h[V]
<1> DEFINE T == {a \in SUBSET V : g[a] = h[a]}
<1>1. ASSUME NEW a \in SUBSET V, \A q \in SUBSET V : q \subseteq a /\ q # a => q \in T
      PROVE  a \in T
  <2>1. CASE a = {}
    BY <2>1 DEF Summing
  <2>2. CASE a # {}
    <3> DEFINE c == Picked(a)
    <3>1. c \in a
      BY <2>2 DEF Picked
    <3>2. a \in SUBSET S /\ a \in SUBSET R
      OBVIOUS
    <3>3. g[a] = f[c] + g[a \ {c}] /\ h[a] = e[c] + h[a \ {c}]
      BY <2>2, <3>2 DEF Summing
    <3> HIDE DEF c
    <3>4. a \ {c} \in T
      BY <1>1, <3>1
    <3> QED BY <3>1, <3>3, <3>4
  <2> QED BY <2>1, <2>2
<1>2. T = SUBSET V
  <2>1. T \in SUBSET (SUBSET V)
    OBVIOUS
  <2> HIDE DEF T
  <2> QED BY <1>1, <2>1, SubsetInduction
<1> QED BY <1>2

\* g folds O over the subsets of S, from e on.
Folding(g, O, e, S, C) ==
  /\ g \in [SUBSET S -> C]
  /\ g[{}] = e
  /\ \A a \in SUBSET S : a # {} => g[a] = O[<<Picked(a), g[a \ {Picked(a)}]>>]

HasFolding(O, e, S, C) == \E g : Folding(g, O, e, S, C)

\* Whatever is folded over a finite set, there is a function that has it.
LEMMA FoldingExists ==
  ASSUME NEW S, IsFiniteSet(S), NEW C, NEW e \in C, NEW O \in [S \X C -> C]
  PROVE  HasFolding(O, e, S, C)
<1> DEFINE R == [SUBSET S -> C]
           next(p) == Picked(S \ p)
           step(h) == [p \in SUBSET S |-> IF p = S THEN e
                                          ELSE O[<<next(p), h[p \cup {next(p)}]>>]]
           F == [h \in R |-> step(h)]
<1>1. ASSUME NEW p \in SUBSET S, p # S
      PROVE  next(p) \in S \ p /\ p \cup {next(p)} \in SUBSET S /\ p \cup {next(p)} # p
  <2>1. Picked(S \ p) \in S \ p
    BY <1>1 DEF Picked
  <2> QED BY <2>1
<1> HIDE DEF next
<1>2. ASSUME NEW h \in R PROVE step(h) \in R
  <2>1. ASSUME NEW p \in SUBSET S, p # S PROVE O[<<next(p), h[p \cup {next(p)}]>>] \in C
    <3>1. <<next(p), h[p \cup {next(p)}]>> \in S \X C
      BY <1>1, <2>1
    <3> QED BY <3>1
  <2> QED BY <2>1
<1>3. FromSupersets(F, S, C)
  <2>1. F \in [R -> R]
    <3> HIDE DEF step, R
    <3> QED BY <1>2
  <2>2. ASSUME NEW g \in R, NEW h \in R, NEW p \in SUBSET S,
               \A q \in SUBSET S : p \subseteq q /\ p # q => g[q] = h[q]
        PROVE  F[g][p] = F[h][p]
    <3>1. F[g][p] = step(g)[p] /\ F[h][p] = step(h)[p]
      OBVIOUS
    <3>2. CASE p = S
      BY <3>1, <3>2
    <3>3. CASE p # S
      <4>1. g[p \cup {next(p)}] = h[p \cup {next(p)}]
        BY <1>1, <2>2, <3>3
      <4> QED BY <3>1, <3>3, <4>1
    <3> QED BY <3>2, <3>3
  <2> HIDE DEF F
  <2> QED BY <2>1, <2>2 DEF FromSupersets
<1>4. HasFixpoint(F, S, C)
  <2>1. C # {}
    OBVIOUS
  <2> HIDE DEF F
  <2> QED BY <1>3, <2>1, SupersetRecursion
<1>5. PICK h \in R : F[h] = h
  BY <1>4 DEF HasFixpoint
<1>6. \A p \in SUBSET S : h[p] = IF p = S THEN e ELSE O[<<next(p), h[p \cup {next(p)}]>>]
  <2>1. h = step(h)
    BY <1>5
  <2> QED BY <2>1
<1> HIDE DEF F, step
<1> DEFINE g == [a \in SUBSET S |-> h[S \ a]]
<1>7. g \in [SUBSET S -> C] /\ g[{}] = e
  <2>1. \A a \in SUBSET S : S \ a \in SUBSET S
    OBVIOUS
  <2>2. h[S \ {}] = e
    <3>1. S \ {} = S /\ S \in SUBSET S
      OBVIOUS
    <3> QED BY <1>6, <3>1
  <2>3. g[{}] = h[S \ {}]
    OBVIOUS
  <2> QED BY <1>5, <2>1, <2>2, <2>3
<1>8. ASSUME NEW a \in SUBSET S, a # {}
      PROVE  g[a] = O[<<Picked(a), g[a \ {Picked(a)}]>>]
  <2>1. S \ a \in SUBSET S /\ S \ a # S /\ S \ (S \ a) = a
    BY <1>8
  <2>2. next(S \ a) = Picked(a) /\ Picked(a) \in a
    BY <1>8, <2>1 DEF next, Picked
  <2>3. h[S \ a] = O[<<Picked(a), h[(S \ a) \cup {Picked(a)}]>>]
    BY <1>6, <2>1, <2>2
  <2>4. (S \ a) \cup {Picked(a)} = S \ (a \ {Picked(a)})
    BY <2>2
  <2>5. a \ {Picked(a)} \in SUBSET S
    OBVIOUS
  <2> QED BY <2>3, <2>4, <2>5
<1> HIDE DEF g
<1> QED BY <1>7, <1>8 DEF Folding, HasFolding

HasSumming(f, S) == \E g : Summing(g, f, S)

\* A function with integer values has sums over a finite set.
LEMMA SummingExists ==
  ASSUME NEW S, IsFiniteSet(S), NEW f, \A x \in S : f[x] \in Int
  PROVE  HasSumming(f, S)
<1> DEFINE O == [p \in S \X Int |-> f[p[1]] + p[2]]
<1>1. O \in [S \X Int -> Int]
  OBVIOUS
<1>2. \A x \in S, n \in Int : O[<<x, n>>] = f[x] + n
  OBVIOUS
<1> HIDE DEF O
<1>3. HasFolding(O, 0, S, Int)
  BY <1>1, FoldingExists
<1>4. PICK g : Folding(g, O, 0, S, Int)
  BY <1>3 DEF HasFolding
<1>5. ASSUME NEW a \in SUBSET S, a # {}
      PROVE  g[a] = f[Picked(a)] + g[a \ {Picked(a)}]
  <2>1. Picked(a) \in S /\ g[a \ {Picked(a)}] \in Int
    BY <1>4, <1>5 DEF Folding, Picked
  <2> QED BY <1>2, <1>4, <1>5, <2>1 DEF Folding
<1>6. Summing(g, f, S)
  BY <1>4, <1>5 DEF Summing, Folding
<1> QED BY <1>6 DEF HasSumming

\* A sum is what its definition says, over every subset of what it is over.
LEMMA SumIsSumming ==
  ASSUME NEW S, IsFiniteSet(S), NEW f, \A x \in S : f[x] \in Int
  PROVE  \E g : Summing(g, f, S) /\ SumFunctionOnSet(f, S) = g[S]
<1> DEFINE step(h) == [s \in SUBSET S |->
                         IF s = {} THEN 0
                         ELSE f[CHOOSE x \in s : TRUE] + h[s \ {CHOOSE x \in s : TRUE}]]
           iter == CHOOSE h : h = step(h)
<1>1. SumFunctionOnSet(f, S) = iter[S]
  BY Zenon DEF SumFunctionOnSet, FoldFunctionOnSet, MapThenFoldSet
<1>2. PICK g : Summing(g, f, S)
  BY SummingExists DEF HasSumming
<1>3. g = step(g)
  <2>1. ASSUME NEW a \in SUBSET S
        PROVE  g[a] = IF a = {} THEN 0
                      ELSE f[CHOOSE x \in a : TRUE] + g[a \ {CHOOSE x \in a : TRUE}]
    BY <1>2 DEF Summing, Picked
  <2> QED BY <1>2, <2>1 DEF Summing
<1>4. iter = step(iter)
  <2> HIDE DEF step
  <2> QED BY <1>3
<1> HIDE DEF iter
<1>5. \A a \in SUBSET S : iter[a] = IF a = {} THEN 0 ELSE f[Picked(a)] + iter[a \ {Picked(a)}]
  BY <1>4 DEF Picked
<1> DEFINE T == {a \in SUBSET S : g[a] = iter[a]}
<1> HIDE DEF step
<1>6. ASSUME NEW a \in SUBSET S, \A q \in SUBSET S : q \subseteq a /\ q # a => q \in T
      PROVE  a \in T
  <2>1. CASE a = {}
    BY <1>2, <1>5, <2>1 DEF Summing
  <2>2. CASE a # {}
    <3>1. Picked(a) \in a
      BY <2>2 DEF Picked
    <3>2. a \ {Picked(a)} \in T
      BY <1>6, <3>1
    <3> QED BY <1>2, <1>5, <2>2, <3>2 DEF Summing
  <2> QED BY <2>1, <2>2
<1>7. T = SUBSET S
  <2>1. T \in SUBSET (SUBSET S)
    OBVIOUS
  <2> HIDE DEF T
  <2> QED BY <1>6, <2>1, SubsetInduction
<1>8. iter[S] = g[S]
  BY <1>7
<1> QED BY <1>1, <1>2, <1>8
-----------------------------------------------------------------------------
\* f has integer values on the finite set A.
Summable(f, A) == IsFiniteSet(A) /\ \A x \in A : f[x] \in Int

\* A subset of what can be summed can be summed.
LEMMA SummableSubset ==
  ASSUME NEW A, NEW f, Summable(f, A), NEW B \in SUBSET A
  PROVE  Summable(f, B)
BY FS_Subset DEF Summable

\* What the empty set has, and a set has if it has it without one of its
\* members, every subset of a finite set has.
LEMMA FiniteInduction ==
  ASSUME NEW V, IsFiniteSet(V), NEW T \in SUBSET (SUBSET V), {} \in T,
         \A p \in SUBSET V : \A x \in p : p \ {x} \in T => p \in T
  PROVE  T = SUBSET V
<1>1. ASSUME NEW p \in SUBSET V, \A q \in SUBSET V : q \subseteq p /\ q # p => q \in T
      PROVE  p \in T
  <2>1. CASE p = {}
    BY <2>1
  <2>2. CASE p # {}
    <3>1. PICK x \in p : TRUE
      BY <2>2
    <3>2. p \ {x} \in T
      BY <1>1, <3>1
    <3> QED BY <3>1, <3>2
  <2> QED BY <2>1, <2>2
<1> QED BY <1>1, SubsetInduction

\* A sum of integers is one; the sum of nothing is zero.
LEMMA SumType ==
  ASSUME NEW A, NEW f, Summable(f, A)
  PROVE  SumFunctionOnSet(f, A) \in Int
<1>1. PICK g : Summing(g, f, A) /\ SumFunctionOnSet(f, A) = g[A]
  BY SumIsSumming DEF Summable
<1> QED BY <1>1 DEF Summing

\* The sum over nothing is zero.
LEMMA SumEmpty ==
  ASSUME NEW f
  PROVE  SumFunctionOnSet(f, {}) = 0
<1>1. IsFiniteSet({})
  BY FS_EmptySet
<1>2. PICK g : Summing(g, f, {}) /\ SumFunctionOnSet(f, {}) = g[{}]
  BY <1>1, SumIsSumming
<1> QED BY <1>2 DEF Summing

\* A sum depends on the values summed only.
LEMMA SumSame ==
  ASSUME NEW A, NEW f, Summable(f, A), NEW e, \A x \in A : f[x] = e[x]
  PROVE  SumFunctionOnSet(f, A) = SumFunctionOnSet(e, A)
<1>1. Summable(e, A)
  BY DEF Summable
<1>2. PICK g : Summing(g, f, A) /\ SumFunctionOnSet(f, A) = g[A]
  BY SumIsSumming DEF Summable
<1>3. PICK h : Summing(h, e, A) /\ SumFunctionOnSet(e, A) = h[A]
  BY <1>1, SumIsSumming DEF Summable
<1>4. g[A] = h[A]
  BY <1>2, <1>3, SummingUnique DEF Summable
<1> QED BY <1>2, <1>3, <1>4

\* Any member can be taken out of a sum.
LEMMA SumMember ==
  ASSUME NEW A, NEW f, Summable(f, A), NEW x \in A
  PROVE  SumFunctionOnSet(f, A) = f[x] + SumFunctionOnSet(f, A \ {x})
<1>1. PICK g : Summing(g, f, A) /\ SumFunctionOnSet(f, A) = g[A]
  BY SumIsSumming DEF Summable
<1>2. A \ {x} \in SUBSET A /\ A \in SUBSET A
  OBVIOUS
<1>3. Summable(f, A \ {x})
  BY <1>2, SummableSubset
<1>4. PICK h : Summing(h, f, A \ {x}) /\ SumFunctionOnSet(f, A \ {x}) = h[A \ {x}]
  BY <1>3, SumIsSumming DEF Summable
<1>5. g[A \ {x}] = h[A \ {x}]
  <2>1. A \ {x} \subseteq A /\ A \ {x} \subseteq A \ {x} /\ IsFiniteSet(A \ {x})
    BY <1>3 DEF Summable
  <2> DEFINE B == A \ {x}
  <2>2. Summing(h, f, B) /\ B \subseteq A /\ B \subseteq B /\ IsFiniteSet(B)
        /\ (\A y \in B : f[y] = f[y])
    BY <1>4, <2>1
  <2> HIDE DEF B
  <2>3. g[B] = h[B]
    BY <1>1, <2>2, SummingUnique
  <2> QED BY <2>3 DEF B
<1>6. g[A] = f[x] + g[A \ {x}]
  <2>1. IsFiniteSet(A) /\ (\A y \in A : f[y] \in Int) /\ Summing(g, f, A)
    BY <1>1 DEF Summable
  <2> QED BY <1>2, <2>1, SummingAny
<1> QED BY <1>1, <1>4, <1>5, <1>6

\* A sum over two sets without a common member is the two sums.
LEMMA SumUnion ==
  ASSUME NEW A, NEW B, NEW f, Summable(f, A), Summable(f, B), A \cap B = {}
  PROVE  /\ Summable(f, A \cup B)
         /\ SumFunctionOnSet(f, A \cup B) = SumFunctionOnSet(f, A) + SumFunctionOnSet(f, B)
<1> DEFINE T == {a \in SUBSET A : SumFunctionOnSet(f, a \cup B) =
                                    SumFunctionOnSet(f, a) + SumFunctionOnSet(f, B)}
<1>1. Summable(f, A \cup B)
  BY FS_Union DEF Summable
<1>2. SumFunctionOnSet(f, B) \in Int
  BY SumType
<1>3. {} \in T
  <2>1. {} \cup B = B
    OBVIOUS
  <2>2. SumFunctionOnSet(f, {} \cup B) = SumFunctionOnSet(f, B)
    BY <2>1
  <2> QED BY <1>2, <2>2, SumEmpty
<1>4. ASSUME NEW p \in SUBSET A, NEW x \in p, p \ {x} \in T PROVE p \in T
  <2>1. p \in SUBSET A /\ p \cup B \in SUBSET (A \cup B) /\ p \ {x} \in SUBSET A
        /\ x \in p \cup B
    OBVIOUS
  <2>2. Summable(f, p) /\ Summable(f, p \cup B) /\ Summable(f, p \ {x})
    BY <1>1, <2>1, SummableSubset
  <2>3. SumFunctionOnSet(f, p) = f[x] + SumFunctionOnSet(f, p \ {x})
    BY <2>2, SumMember
  <2>4. SumFunctionOnSet(f, p \cup B) = f[x] + SumFunctionOnSet(f, (p \cup B) \ {x})
    BY <2>1, <2>2, SumMember
  <2>5. (p \cup B) \ {x} = (p \ {x}) \cup B
    <3>1. x \notin B
      BY <2>1
    <3> QED BY <3>1
  <2>6. SumFunctionOnSet(f, (p \cup B) \ {x}) =
          SumFunctionOnSet(f, p \ {x}) + SumFunctionOnSet(f, B)
    BY <1>4, <2>5
  <2>7. f[x] \in Int /\ SumFunctionOnSet(f, p \ {x}) \in Int
    BY <2>2, SumType DEF Summable
  <2> DEFINE s == SumFunctionOnSet(f, p \ {x})
             b == SumFunctionOnSet(f, B)
             v == f[x]
  <2>8. SumFunctionOnSet(f, p) = v + s
    BY <2>3
  <2>9. SumFunctionOnSet(f, p \cup B) = v + (s + b)
    BY <2>4, <2>6
  <2>10. v \in Int /\ s \in Int /\ b \in Int
    BY <1>2, <2>7
  <2> HIDE DEF v, s, b
  <2>11. SumFunctionOnSet(f, p \cup B) = SumFunctionOnSet(f, p) + b
    BY <2>8, <2>9, <2>10
  <2> QED BY <2>11 DEF b
<1>5. T = SUBSET A
  <2>1. T \in SUBSET (SUBSET A) /\ IsFiniteSet(A)
    BY DEF Summable
  <2> HIDE DEF T
  <2> QED BY <1>3, <1>4, <2>1, FiniteInduction
<1>6. A \in T
  BY <1>5
<1> QED BY <1>1, <1>6

\* The sum of sums.
LEMMA SumPlus ==
  ASSUME NEW A, NEW f, NEW e, NEW h, Summable(f, A), Summable(e, A),
         \A x \in A : h[x] = f[x] + e[x]
  PROVE  /\ Summable(h, A)
         /\ SumFunctionOnSet(h, A) = SumFunctionOnSet(f, A) + SumFunctionOnSet(e, A)
<1> DEFINE T == {a \in SUBSET A : SumFunctionOnSet(h, a) =
                                    SumFunctionOnSet(f, a) + SumFunctionOnSet(e, a)}
<1>1. Summable(h, A)
  BY DEF Summable
<1>2. {} \in T
  BY SumEmpty
<1>3. ASSUME NEW p \in SUBSET A, NEW x \in p, p \ {x} \in T PROVE p \in T
  <2>1. p \in SUBSET A /\ p \ {x} \in SUBSET A
    OBVIOUS
  <2>2. /\ Summable(f, p) /\ Summable(f, p \ {x}) /\ Summable(e, p) /\ Summable(e, p \ {x})
        /\ Summable(h, p)
    BY <1>1, <2>1, SummableSubset
  <2> DEFINE sf == SumFunctionOnSet(f, p \ {x})
             se == SumFunctionOnSet(e, p \ {x})
  <2>3. /\ SumFunctionOnSet(f, p) = f[x] + sf
        /\ SumFunctionOnSet(e, p) = e[x] + se
        /\ SumFunctionOnSet(h, p) = h[x] + SumFunctionOnSet(h, p \ {x})
    BY <2>2, SumMember
  <2>4. SumFunctionOnSet(h, p \ {x}) = sf + se /\ h[x] = f[x] + e[x]
    BY <1>3
  <2>5. sf \in Int /\ se \in Int /\ f[x] \in Int /\ e[x] \in Int
    BY <2>2, SumType DEF Summable
  <2> HIDE DEF sf, se
  <2>6. SumFunctionOnSet(h, p) = SumFunctionOnSet(f, p) + SumFunctionOnSet(e, p)
    BY <2>3, <2>4, <2>5
  <2> QED BY <2>6
<1>4. T = SUBSET A
  <2>1. T \in SUBSET (SUBSET A) /\ IsFiniteSet(A)
    BY DEF Summable
  <2> HIDE DEF T
  <2> QED BY <1>2, <1>3, <2>1, FiniteInduction
<1>5. A \in T
  BY <1>4
<1> QED BY <1>1, <1>5

\* Larger summands, a larger sum.
LEMMA SumMonotone ==
  ASSUME NEW A, NEW f, NEW e, Summable(f, A), Summable(e, A), \A x \in A : f[x] <= e[x]
  PROVE  SumFunctionOnSet(f, A) <= SumFunctionOnSet(e, A)
<1> DEFINE T == {a \in SUBSET A : SumFunctionOnSet(f, a) <= SumFunctionOnSet(e, a)}
<1>1. {} \in T
  BY SumEmpty
<1>2. ASSUME NEW p \in SUBSET A, NEW x \in p, p \ {x} \in T PROVE p \in T
  <2>1. p \in SUBSET A /\ p \ {x} \in SUBSET A
    OBVIOUS
  <2>2. /\ Summable(f, p) /\ Summable(f, p \ {x}) /\ Summable(e, p) /\ Summable(e, p \ {x})
    BY <2>1, SummableSubset
  <2> DEFINE sf == SumFunctionOnSet(f, p \ {x})
             se == SumFunctionOnSet(e, p \ {x})
  <2>3. /\ SumFunctionOnSet(f, p) = f[x] + sf
        /\ SumFunctionOnSet(e, p) = e[x] + se
    BY <2>2, SumMember
  <2>4. sf <= se /\ f[x] <= e[x]
    BY <1>2
  <2>5. sf \in Int /\ se \in Int /\ f[x] \in Int /\ e[x] \in Int
    BY <2>2, SumType DEF Summable
  <2> HIDE DEF sf, se
  <2>6. SumFunctionOnSet(f, p) <= SumFunctionOnSet(e, p)
    BY <2>3, <2>4, <2>5
  <2> QED BY <2>6
<1>3. T = SUBSET A
  <2>1. T \in SUBSET (SUBSET A) /\ IsFiniteSet(A)
    BY DEF Summable
  <2> HIDE DEF T
  <2> QED BY <1>1, <1>2, <2>1, FiniteInduction
<1>4. A \in T
  BY <1>3
<1> QED BY <1>4

\* The sum of nothing but zeros.
LEMMA SumZero ==
  ASSUME NEW A, NEW f, IsFiniteSet(A), \A x \in A : f[x] = 0
  PROVE  SumFunctionOnSet(f, A) = 0
<1> DEFINE T == {a \in SUBSET A : SumFunctionOnSet(f, a) = 0}
<1>1. {} \in T
  BY SumEmpty
<1>2. ASSUME NEW p \in SUBSET A, NEW x \in p, p \ {x} \in T PROVE p \in T
  <2>1. Summable(f, A) /\ p \in SUBSET A
    BY DEF Summable
  <2>2. Summable(f, p)
    BY <2>1, SummableSubset
  <2>3. SumFunctionOnSet(f, p) = f[x] + SumFunctionOnSet(f, p \ {x})
    BY <2>2, SumMember
  <2>4. f[x] = 0 /\ SumFunctionOnSet(f, p \ {x}) = 0
    BY <1>2
  <2> QED BY <2>3, <2>4
<1>3. T = SUBSET A
  <2>1. T \in SUBSET (SUBSET A)
    OBVIOUS
  <2> HIDE DEF T
  <2> QED BY <1>1, <1>2, <2>1, FiniteInduction
<1>4. A \in T
  BY <1>3
<1> QED BY <1>4

\* The members of A of each kind b, by their kind t.
Fibre(A, t, b) == {x \in A : t[x] = b}

\* A sum is the sum over the kinds of the sums of each kind.
LEMMA SumFibres ==
  ASSUME NEW A, NEW B, NEW f, NEW t, NEW e, Summable(f, A), IsFiniteSet(B),
         \A x \in A : t[x] \in B,
         \A b \in B : e[b] = SumFunctionOnSet(f, Fibre(A, t, b))
  PROVE  /\ Summable(e, B)
         /\ SumFunctionOnSet(e, B) = SumFunctionOnSet(f, A)
<1> DEFINE Of(C) == {x \in A : t[x] \in C}
           T == {C \in SUBSET B : SumFunctionOnSet(e, C) = SumFunctionOnSet(f, Of(C))}
<1>1. \A C : Of(C) \in SUBSET A /\ Summable(f, Of(C))
  BY SummableSubset
<1>2. \A b : Fibre(A, t, b) = Of({b})
  BY DEF Fibre
<1>3. Summable(e, B)
  <2>1. ASSUME NEW b \in B PROVE e[b] \in Int
    <3>1. e[b] = SumFunctionOnSet(f, Of({b}))
      BY <1>2
    <3>2. SumFunctionOnSet(f, Of({b})) \in Int
      BY <1>1, SumType
    <3> QED BY <3>1, <3>2
  <2> QED BY <2>1 DEF Summable
<1>4. {} \in T
  <2>1. Of({}) = {}
    OBVIOUS
  <2>2. SumFunctionOnSet(f, Of({})) = 0
    BY <2>1, SumEmpty
  <2> QED BY <2>2, SumEmpty
<1>5. ASSUME NEW C \in SUBSET B, NEW b \in C, C \ {b} \in T PROVE C \in T
  <2>1. Summable(e, C)
    BY <1>3, SummableSubset
  <2>2. SumFunctionOnSet(e, C) = e[b] + SumFunctionOnSet(e, C \ {b})
    BY <2>1, SumMember
  <2>3. Of({b}) \cup Of(C \ {b}) = Of(C) /\ Of({b}) \cap Of(C \ {b}) = {}
    OBVIOUS
  <2>4. SumFunctionOnSet(f, Of({b}) \cup Of(C \ {b})) =
          SumFunctionOnSet(f, Of({b})) + SumFunctionOnSet(f, Of(C \ {b}))
    <3>1. Summable(f, Of({b})) /\ Summable(f, Of(C \ {b}))
      BY <1>1
    <3> HIDE DEF Of
    <3> QED BY <2>3, <3>1, SumUnion
  <2>5. e[b] = SumFunctionOnSet(f, Of({b}))
    BY <1>2
  <2>6. SumFunctionOnSet(e, C \ {b}) = SumFunctionOnSet(f, Of(C \ {b}))
    BY <1>5
  <2>7. SumFunctionOnSet(f, Of(C)) = SumFunctionOnSet(f, Of({b}) \cup Of(C \ {b}))
    BY <2>3
  <2> HIDE DEF Of
  <2>8. SumFunctionOnSet(e, C) = SumFunctionOnSet(f, Of(C))
    BY <2>2, <2>4, <2>5, <2>6, <2>7
  <2> QED BY <2>8
<1>6. T = SUBSET B
  <2>1. T \in SUBSET (SUBSET B)
    OBVIOUS
  <2> HIDE DEF T
  <2> QED BY <1>4, <1>5, <2>1, FiniteInduction
<1>7. B \in T /\ Of(B) = A
  BY <1>6
<1>8. SumFunctionOnSet(f, Of(B)) = SumFunctionOnSet(f, A)
  BY <1>7
<1> HIDE DEF Of
<1> QED BY <1>3, <1>7, <1>8
-----------------------------------------------------------------------------
\* The product of natural numbers is one.
LEMMA ProductType ==
  ASSUME NEW S \in SUBSET Nat, IsFiniteSet(S)
  PROVE  ProductSet(S) \in Nat
<1> DEFINE O == [p \in S \X Nat |-> p[1] * p[2]]
           step(h) == [s \in SUBSET S |->
                         IF s = {} THEN 1
                         ELSE (CHOOSE x \in s : TRUE) * h[s \ {CHOOSE x \in s : TRUE}]]
           iter == CHOOSE h : h = step(h)
<1>1. ProductSet(S) = iter[S]
  BY Zenon DEF ProductSet, FoldSet, MapThenFoldSet
<1>2. O \in [S \X Nat -> Nat]
  <2>1. \A x \in S, n \in Nat : x * n \in Nat
    OBVIOUS
  <2> QED BY <2>1
<1>3. \A x \in S, n \in Nat : O[<<x, n>>] = x * n
  OBVIOUS
<1> HIDE DEF O
<1>4. HasFolding(O, 1, S, Nat)
  BY <1>2, FoldingExists
<1>5. PICK g : Folding(g, O, 1, S, Nat)
  BY <1>4 DEF HasFolding
<1>6. g = step(g)
  <2>1. ASSUME NEW a \in SUBSET S
        PROVE  g[a] = IF a = {} THEN 1
                      ELSE (CHOOSE x \in a : TRUE) * g[a \ {CHOOSE x \in a : TRUE}]
    <3>1. CASE a # {}
      <4>1. Picked(a) \in S /\ g[a \ {Picked(a)}] \in Nat
        BY <1>5, <3>1 DEF Folding, Picked
      <4>2. g[a] = Picked(a) * g[a \ {Picked(a)}]
        BY <1>3, <1>5, <3>1, <4>1 DEF Folding
      <4> QED BY <3>1, <4>2 DEF Picked
    <3>2. CASE a = {}
      BY <1>5, <3>2 DEF Folding
    <3> QED BY <3>1, <3>2
  <2> QED BY <1>5, <2>1 DEF Folding
<1>7. iter = step(iter)
  <2> HIDE DEF step
  <2> QED BY <1>6
<1> HIDE DEF iter
<1>8. \A a \in SUBSET S : iter[a] = IF a = {} THEN 1 ELSE Picked(a) * iter[a \ {Picked(a)}]
  BY <1>7 DEF Picked
<1> HIDE DEF step
<1> DEFINE T == {a \in SUBSET S : iter[a] \in Nat}
<1>9. ASSUME NEW a \in SUBSET S, \A q \in SUBSET S : q \subseteq a /\ q # a => q \in T
      PROVE  a \in T
  <2>1. CASE a = {}
    BY <1>8, <2>1
  <2>2. CASE a # {}
    <3>1. Picked(a) \in a
      BY <2>2 DEF Picked
    <3>2. iter[a \ {Picked(a)}] \in Nat
      BY <1>9, <3>1
    <3>3. \A m, n \in Nat : m * n \in Nat
      OBVIOUS
    <3>4. Picked(a) * iter[a \ {Picked(a)}] \in Nat
      BY <3>1, <3>2, <3>3
    <3> QED BY <1>8, <2>2, <3>4
  <2> QED BY <2>1, <2>2
<1>10. T = SUBSET S
  <2>1. T \in SUBSET (SUBSET S)
    OBVIOUS
  <2> HIDE DEF T
  <2> QED BY <1>9, <2>1, SubsetInduction
<1> QED BY <1>1, <1>10
-----------------------------------------------------------------------------
\* A finite set has a subset of every size up to its own.
LEMMA SubsetOfSize ==
  ASSUME NEW S, IsFiniteSet(S), NEW k \in Nat, k <= Cardinality(S)
  PROVE  \E p \in SUBSET S : Cardinality(p) = k
<1> DEFINE T == {p \in SUBSET S : k <= Cardinality(p) => \E q \in SUBSET p : Cardinality(q) = k}
<1>1. {} \in T
  <2>1. Cardinality({}) = 0
    BY FS_EmptySet
  <2> QED BY <2>1
<1>2. ASSUME NEW p \in SUBSET S, NEW x \in p, p \ {x} \in T PROVE p \in T
  <2>1. IsFiniteSet(p) /\ Cardinality(p) \in Nat /\ Cardinality(p \ {x}) = Cardinality(p) - 1
    BY FS_Subset, FS_RemoveElement, FS_CardinalityType
  <2>2. CASE k <= Cardinality(p) /\ Cardinality(p) # k
    BY <1>2, <2>1, <2>2
  <2> QED BY <2>2
<1>3. T = SUBSET S
  <2>1. T \in SUBSET (SUBSET S)
    OBVIOUS
  <2> HIDE DEF T
  <2> QED BY <1>1, <1>2, <2>1, FiniteInduction
<1> QED BY <1>3

\* The ends of a set of numbers up to n.
LEMMA MinMax ==
  ASSUME NEW n \in Nat, NEW S \in SUBSET (0..n), S # {}
  PROVE  /\ Min(S) \in S /\ \A x \in S : Min(S) <= x
         /\ Max(S) \in S /\ \A x \in S : x <= Max(S)
<1>1. \E x \in S : \A y \in S : x <= y
  BY LeastNumber
<1>2. \E x \in S : \A y \in S : x >= y
  <2>1. PICK x \in S : \A y \in S : y <= x
    BY GreatestNumber
  <2> QED BY <2>1
<1> QED BY <1>1, <1>2 DEF Min, Max
\* What a function has on a finite set are finitely many values.
LEMMA ImageFinite ==
  ASSUME NEW S, IsFiniteSet(S), NEW f
  PROVE  IsFiniteSet({f[x] : x \in S})
<1> DEFINE T == {p \in SUBSET S : IsFiniteSet({f[x] : x \in p})}
<1>1. {} \in T
  <2>1. {f[x] : x \in {}} = {}
    OBVIOUS
  <2> QED BY <2>1, FS_EmptySet
<1>2. ASSUME NEW p \in SUBSET S, NEW y \in p, p \ {y} \in T PROVE p \in T
  <2> DEFINE I == {f[x] : x \in p \ {y}}
  <2>1. {f[x] : x \in p} = I \cup {f[y]}
    OBVIOUS
  <2>2. IsFiniteSet(I)
    BY <1>2
  <2>3. IsFiniteSet(I \cup {f[y]})
    <3> HIDE DEF I
    <3> QED BY <2>2, FS_AddElement
  <2> QED BY <2>1, <2>3
<1>3. T = SUBSET S
  <2>1. T \in SUBSET (SUBSET S)
    OBVIOUS
  <2> HIDE DEF T
  <2> QED BY <1>1, <1>2, <2>1, FiniteInduction
<1> QED BY <1>3

\* A member of a finite set that a function is greatest at, and one it is least at.
LEMMA Extremes ==
  ASSUME NEW S, IsFiniteSet(S), S # {}, NEW f, \A x \in S : f[x] \in Int
  PROVE  /\ \E x \in S : \A y \in S : f[y] <= f[x]
         /\ \E x \in S : \A y \in S : f[x] <= f[y]
<1> DEFINE Both(p) == /\ \E x \in p : \A y \in p : f[y] <= f[x]
                      /\ \E x \in p : \A y \in p : f[x] <= f[y]
           T == {p \in SUBSET S : p # {} => Both(p)}
<1>1. {} \in T
  OBVIOUS
<1>2. ASSUME NEW p \in SUBSET S, NEW x \in p, p \ {x} \in T PROVE p \in T
  <2>1. CASE p \ {x} = {}
    <3>1. \A y \in p : y = x /\ f[y] \in Int
      BY <2>1
    <3> QED BY <3>1
  <2>2. CASE p \ {x} # {}
    <3>1. f[x] \in Int /\ \A y \in p : y = x \/ y \in p \ {x}
      OBVIOUS
    <3>2. \E z \in p : \A y \in p : f[y] <= f[z]
      <4>1. PICK g \in p \ {x} : \A y \in p \ {x} : f[y] <= f[g]
        BY <1>2, <2>2
      <4>2. f[g] \in Int /\ \A y \in p : f[y] \in Int
        OBVIOUS
      <4>3. CASE f[g] <= f[x]
        BY <3>1, <4>1, <4>2, <4>3
      <4>4. CASE ~(f[g] <= f[x])
        BY <3>1, <4>1, <4>2, <4>4
      <4> QED BY <4>3, <4>4
    <3>3. \E z \in p : \A y \in p : f[z] <= f[y]
      <4>1. PICK l \in p \ {x} : \A y \in p \ {x} : f[l] <= f[y]
        BY <1>2, <2>2
      <4>2. f[l] \in Int /\ \A y \in p : f[y] \in Int
        OBVIOUS
      <4>3. CASE f[x] <= f[l]
        BY <3>1, <4>1, <4>2, <4>3
      <4>4. CASE ~(f[x] <= f[l])
        BY <3>1, <4>1, <4>2, <4>4
      <4> QED BY <4>3, <4>4
    <3> QED BY <3>2, <3>3
  <2> QED BY <2>1, <2>2
<1>3. T = SUBSET S
  <2>1. T \in SUBSET (SUBSET S)
    OBVIOUS
  <2> HIDE DEF T
  <2> QED BY <1>1, <1>2, <2>1, FiniteInduction
<1>4. S \in T
  BY <1>3
<1> QED BY <1>4

\* The ends of the values a function has on a finite set are values it has.
LEMMA MinMaxImage ==
  ASSUME NEW S, IsFiniteSet(S), S # {}, NEW f, \A x \in S : f[x] \in Int
  PROVE  /\ \E x \in S : Min({f[z] : z \in S}) = f[x]
         /\ \A y \in S : Min({f[z] : z \in S}) <= f[y]
         /\ \E x \in S : Max({f[z] : z \in S}) = f[x]
         /\ \A y \in S : f[y] <= Max({f[z] : z \in S})
<1> DEFINE I == {f[z] : z \in S}
<1>1. \E v \in I : \A w \in I : v <= w
  <2>1. PICK x \in S : \A y \in S : f[x] <= f[y]
    BY Extremes
  <2> QED BY <2>1
<1>2. \E v \in I : \A w \in I : v >= w
  <2>1. PICK x \in S : \A y \in S : f[y] <= f[x]
    BY Extremes
  <2>2. f[x] \in I /\ \A w \in I : f[x] >= w
    BY <2>1
  <2> QED BY <2>2
<1>3. Min(I) \in I /\ \A w \in I : Min(I) <= w
  BY <1>1 DEF Min
<1>4. Max(I) \in I /\ \A w \in I : Max(I) >= w
  BY <1>2 DEF Max
<1> HIDE DEF I
<1>5. \A w : w \in I <=> \E x \in S : w = f[x]
  BY DEF I
<1>6. /\ \E x \in S : Min(I) = f[x]
      /\ \A y \in S : Min(I) <= f[y]
  BY <1>3, <1>5
<1>7. \E x \in S : Max(I) = f[x]
  BY <1>4, <1>5
<1>8. ASSUME NEW y \in S PROVE f[y] <= Max(I)
  <2>1. Max(I) >= f[y] /\ Max(I) \in Int /\ f[y] \in Int
    BY <1>4, <1>5, <1>7
  <2> QED BY <2>1
<1> QED BY <1>6, <1>7, <1>8 DEF I

-----------------------------------------------------------------------------
\* Where P is no more than n/d of A in every part of A, it is no more of A.
LEMMA ShareOfParts ==
  ASSUME NEW A, IsFiniteSet(A), NEW P \in SUBSET A, NEW B, IsFiniteSet(B), NEW t,
         \A x \in A : t[x] \in B, NEW n \in Nat, NEW d \in Nat,
         \A b \in B : Cardinality(Fibre(P, t, b)) * d <= n * Cardinality(Fibre(A, t, b))
  PROVE  Cardinality(P) * d <= n * Cardinality(A)
<1> DEFINE Of(Q, C) == {x \in Q : t[x] \in C}
           T == {C \in SUBSET B : Cardinality(Of(P, C)) * d <= n * Cardinality(Of(A, C))}
<1>1. \A Q \in SUBSET A : \A C : IsFiniteSet(Of(Q, C)) /\ Cardinality(Of(Q, C)) \in Nat
  BY FS_Subset, FS_CardinalityType
<1>2. {} \in T
  <2>1. Of(P, {}) = {} /\ Of(A, {}) = {}
    OBVIOUS
  <2>2. Cardinality({}) * d <= n * Cardinality({})
    BY FS_EmptySet
  <2> QED BY <2>1, <2>2
<1>3. ASSUME NEW C \in SUBSET B, NEW b \in C, C \ {b} \in T PROVE C \in T
  <2>1. ASSUME NEW Q \in SUBSET A
        PROVE  Cardinality(Of(Q, C)) = Cardinality(Of(Q, C \ {b})) + Cardinality(Fibre(Q, t, b))
    <3> DEFINE X == Of(Q, C \ {b})
               Y == Of(Q, {b})
    <3>1. Fibre(Q, t, b) = Y /\ Of(Q, C) = X \cup Y /\ X \cap Y = {}
      BY DEF Fibre
    <3>2. IsFiniteSet(X) /\ IsFiniteSet(Y) /\ Cardinality(X) \in Nat /\ Cardinality(Y) \in Nat
      BY <1>1
    <3> HIDE DEF X, Y
    <3>3. Cardinality(X \cup Y) = Cardinality(X) + Cardinality(Y) - Cardinality({})
      BY <3>1, <3>2, FS_Union
    <3>4. Cardinality(X \cup Y) = Cardinality(X) + Cardinality(Y)
      BY <3>2, <3>3, FS_EmptySet
    <3>5. Cardinality(Of(Q, C)) = Cardinality(X) + Cardinality(Y)
      BY <3>1, <3>4
    <3> QED BY <3>1, <3>5 DEF X
  <2> DEFINE p1 == Cardinality(Of(P, C \ {b}))
             p2 == Cardinality(Fibre(P, t, b))
             a1 == Cardinality(Of(A, C \ {b}))
             a2 == Cardinality(Fibre(A, t, b))
  <2>2. p1 \in Nat /\ p2 \in Nat /\ a1 \in Nat /\ a2 \in Nat
    BY <1>1, FS_Subset, FS_CardinalityType DEF Fibre
  <2>3. p1 * d <= n * a1 /\ p2 * d <= n * a2
    BY <1>3
  <2>4. Cardinality(Of(P, C)) = p1 + p2 /\ Cardinality(Of(A, C)) = a1 + a2
    BY <2>1
  <2> HIDE DEF p1, p2, a1, a2
  <2>5. (p1 + p2) * d <= n * (a1 + a2)
    <3>1. (p1 + p2) * d = p1 * d + p2 * d /\ n * (a1 + a2) = n * a1 + n * a2
      BY <2>2
    <3>2. p1 * d \in Int /\ p2 * d \in Int /\ n * a1 \in Int /\ n * a2 \in Int
      BY <2>2
    <3> QED BY <2>3, <3>1, <3>2
  <2> QED BY <2>4, <2>5
<1>4. T = SUBSET B
  <2>1. T \in SUBSET (SUBSET B)
    OBVIOUS
  <2> HIDE DEF T
  <2> QED BY <1>2, <1>3, <2>1, FiniteInduction
<1>5. Of(P, B) = P /\ Of(A, B) = A /\ B \in T
  BY <1>4
<1> QED BY <1>5

\* A finite set of numbers has its greatest member.
LEMMA MaxFinite ==
  ASSUME NEW S \in SUBSET Int, IsFiniteSet(S), S # {}
  PROVE  Max(S) \in S /\ \A x \in S : x <= Max(S)
<1> DEFINE f == [x \in S |-> x]
<1>1. \A x \in S : f[x] = x /\ f[x] \in Int
  OBVIOUS
<1> HIDE DEF f
<1>2. \E x \in S : \A y \in S : f[y] <= f[x]
  BY <1>1, Extremes
<1>3. \E x \in S : \A y \in S : x >= y
  BY <1>1, <1>2
<1>4. Max(S) \in S /\ \A y \in S : Max(S) >= y
  BY <1>3 DEF Max
<1> QED BY <1>4

\* And its least.
LEMMA MinFinite ==
  ASSUME NEW S \in SUBSET Int, IsFiniteSet(S), S # {}
  PROVE  Min(S) \in S /\ \A x \in S : Min(S) <= x
<1> DEFINE f == [x \in S |-> x]
<1>1. \A x \in S : f[x] = x /\ f[x] \in Int
  OBVIOUS
<1> HIDE DEF f
<1>2. \E x \in S : \A y \in S : f[x] <= f[y]
  BY <1>1, Extremes
<1>3. \E x \in S : \A y \in S : x <= y
  BY <1>1, <1>2
<1>4. Min(S) \in S /\ \A y \in S : Min(S) <= y
  BY <1>3 DEF Min
<1> QED BY <1>4
\* The sum over one member.
LEMMA SumSingle ==
  ASSUME NEW x, NEW f, f[x] \in Int
  PROVE  SumFunctionOnSet(f, {x}) = f[x]
<1>1. Summable(f, {x}) /\ x \in {x} /\ {x} \ {x} = {}
  BY FS_Singleton DEF Summable
<1>2. SumFunctionOnSet(f, {x}) = f[x] + SumFunctionOnSet(f, {x} \ {x})
  BY <1>1, SumMember
<1>3. SumFunctionOnSet(f, {x} \ {x}) = 0
  BY <1>1, SumEmpty
<1> QED BY <1>2, <1>3
=============================================================================
