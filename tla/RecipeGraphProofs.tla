------------------------- MODULE RecipeGraphProofs -------------------------
(***************************************************************************)
(* Proofs about RecipeGraph, for any SKUs, seed, forms and bounds.         *)
(*                                                                         *)
(* The first four parts are about the walks over the graph of recipes, in  *)
(* whatever graph: the cycle check against reachability, the cost resolver *)
(* against what can be costed from the leaves up, and the list of unpriced *)
(* leaves against both.  A walk that carries the SKUs it has seen recurs   *)
(* on larger and larger sets of them, so what it computes is defined and   *)
(* proved by induction on the supersets of that set.                       *)
(*                                                                         *)
(* The rest is the invariant.  While requests come one at a time (routine) *)
(* the graph has no cycle, every recipe has its SKU, and the decision in   *)
(* flight, the only one, still finds what it decided on (StillHolds).      *)
(***************************************************************************)
EXTENDS RecipeGraph, FiniteSetTheorems, SetInduction, TLAPS

\* What each SKU is made of.
Graph == [Sku -> SUBSET Sku]

-----------------------------------------------------------------------------
(***************************************************************************)
(* Reached is the least closed superset.                                   *)
(***************************************************************************)

\* X has the ingredients of its SKUs.
Closed(edges, X) == \A s \in X : edges[s] \subseteq X

\* The recursive definition inside Reached.
IsReach(edges, ingredients, f) ==
  f = [n \in Nat |-> IF n = 0 THEN ingredients
                     ELSE f[n - 1] \cup UNION {edges[s] : s \in f[n - 1]}]

\* The rounds of that iteration, and that Reached is the last of them.
ReachRun(edges, ingredients, f) ==
  /\ f \in [Nat -> SUBSET Sku]
  /\ f[0] = ingredients
  /\ \A n \in Nat : f[n + 1] = f[n] \cup UNION {edges[s] : s \in f[n]}
  /\ Reached(edges, ingredients) = f[Cardinality(Sku)]

\* The iteration inside Reached is defined.
LEMMA ReachRuns ==
  ASSUME NEW edges \in Graph, NEW ingredients \in SUBSET Sku
  PROVE  \E f : ReachRun(edges, ingredients, f)
<1> DEFINE S == SUBSET Sku
           F == [X \in S |-> X \cup UNION {edges[s] : s \in X}]
<1>1. F \in [S -> S]
  <2>1. ASSUME NEW X \in S PROVE X \cup UNION {edges[s] : s \in X} \in S
    <3>1. \A s \in X : edges[s] \subseteq Sku
      BY DEF Graph
    <3> QED BY <3>1
  <2> QED BY <2>1
<1>2. ingredients \in S
  OBVIOUS
<1>3. PICK f : Orbit(f, ingredients, F, S)
  <2> HIDE DEF S, F
  <2> QED BY <1>1, <1>2, NatIteration
<1>4. f \in [Nat -> S] /\ f[0] = ingredients /\ \A n \in Nat : f[n + 1] = F[f[n]]
  BY <1>3 DEF Orbit
<1>5. \A n \in Nat : f[n + 1] = f[n] \cup UNION {edges[s] : s \in f[n]}
  BY <1>4
<1> HIDE DEF F, S
<1>6. IsReach(edges, ingredients, f)
  <2>1. ASSUME NEW n \in Nat
        PROVE  f[n] = IF n = 0 THEN ingredients
                      ELSE f[n - 1] \cup UNION {edges[s] : s \in f[n - 1]}
    <3>1. CASE n = 0
      BY <1>4, <3>1
    <3>2. CASE n # 0
      <4>1. n - 1 \in Nat /\ (n - 1) + 1 = n
        BY <3>2
      <4> QED BY <1>5, <3>2, <4>1
    <3> QED BY <3>1, <3>2
  <2> QED BY <1>4, <2>1 DEF IsReach
<1> DEFINE u == CHOOSE g : IsReach(edges, ingredients, g)
<1>7. IsReach(edges, ingredients, u)
  BY <1>6
<1>8. Reached(edges, ingredients) = u[Cardinality(Sku)]
  BY DEF Reached, IsReach
<1> HIDE DEF u
<1> DEFINE T == {n \in Nat : u[n] = f[n]}
<1>9. 0 \in T
  BY <1>4, <1>7 DEF IsReach
<1>10. ASSUME NEW n \in T PROVE n + 1 \in T
  <2>1. n + 1 \in Nat /\ n + 1 # 0 /\ (n + 1) - 1 = n
    OBVIOUS
  <2>2. u[n + 1] = u[n] \cup UNION {edges[s] : s \in u[n]}
    BY <1>7, <2>1 DEF IsReach
  <2> QED BY <1>5, <2>1, <2>2
<1>11. T = Nat
  <2>1. T \in SUBSET Nat
    OBVIOUS
  <2> HIDE DEF T
  <2> QED BY <1>9, <1>10, <2>1, NatSetInduction
<1>12. u[Cardinality(Sku)] = f[Cardinality(Sku)]
  <2>1. Cardinality(Sku) \in Nat
    BY FS_CardinalityType, RecipeGraphAssumption
  <2> QED BY <1>11, <2>1
<1> QED BY <1>4, <1>5, <1>8, <1>12 DEF S, ReachRun

\* What is reached from some ingredients over any edges is the least set that has
\* them and is closed: as many rounds as there are SKUs are enough.
LEMMA ReachedIsLeast ==
  ASSUME NEW edges \in Graph, NEW ingredients \in SUBSET Sku
  PROVE  LET R == Reached(edges, ingredients)
         IN /\ R \in SUBSET Sku /\ ingredients \subseteq R /\ Closed(edges, R)
            /\ \A X \in SUBSET Sku :
                 ingredients \subseteq X /\ Closed(edges, X) => R \subseteq X
<1> DEFINE N == Cardinality(Sku)
<1>1. N \in Nat /\ IsFiniteSet(Sku)
  BY FS_CardinalityType, RecipeGraphAssumption
<1>a. PICK f : ReachRun(edges, ingredients, f)
  BY ReachRuns
<1>2. /\ f \in [Nat -> SUBSET Sku]
      /\ f[0] = ingredients
      /\ \A n \in Nat : f[n + 1] = f[n] \cup UNION {edges[s] : s \in f[n]}
      /\ Reached(edges, ingredients) = f[Cardinality(Sku)]
  BY <1>a DEF ReachRun
<1>3. \A n \in Nat : f[n] \subseteq f[n + 1]
  BY <1>2
<1>4. ASSUME NEW n \in Nat, f[n + 1] = f[n] PROVE f[(n + 1) + 1] = f[n + 1]
  <2>1. f[n + 1] = f[n] \cup UNION {edges[s] : s \in f[n]}
    BY <1>2
  <2>2. f[(n + 1) + 1] = f[n + 1] \cup UNION {edges[s] : s \in f[n + 1]}
    BY <1>2
  <2> QED BY <1>4, <2>1, <2>2
<1>5. f[N + 1] = f[N]
  BY <1>1, <1>2, <1>3, <1>4, ChainSettles
<1>6. Closed(edges, f[N])
  BY <1>1, <1>2, <1>5 DEF Closed
<1>7. \A n \in Nat : ingredients \subseteq f[n]
  <2> DEFINE T == {n \in Nat : ingredients \subseteq f[n]}
  <2>1. 0 \in T
    BY <1>2
  <2>2. \A n \in T : n + 1 \in T
    BY <1>3
  <2>3. T \in SUBSET Nat
    OBVIOUS
  <2>4. T = Nat
    <3> HIDE DEF T
    <3> QED BY <2>1, <2>2, <2>3, NatSetInduction
  <2> QED BY <2>4
<1>8. ASSUME NEW X \in SUBSET Sku, ingredients \subseteq X, Closed(edges, X)
      PROVE  f[N] \subseteq X
  <2> DEFINE T == {n \in Nat : f[n] \subseteq X}
  <2>1. 0 \in T
    BY <1>2, <1>8
  <2>2. ASSUME NEW n \in T PROVE n + 1 \in T
    <3>1. n + 1 \in Nat /\ f[n + 1] = f[n] \cup UNION {edges[s] : s \in f[n]}
      BY <1>2
    <3>2. \A s \in f[n] : edges[s] \subseteq X
      BY <1>8 DEF Closed
    <3> QED BY <3>1, <3>2
  <2>3. T \in SUBSET Nat
    OBVIOUS
  <2>4. T = Nat
    <3> HIDE DEF T
    <3> QED BY <2>1, <2>2, <2>3, NatSetInduction
  <2> QED BY <1>1, <2>4
<1>9. f[N] \in SUBSET Sku /\ ingredients \subseteq f[N]
  BY <1>1, <1>2, <1>7
<1> QED BY <1>2, <1>6, <1>8, <1>9

-----------------------------------------------------------------------------
(***************************************************************************)
(* The cycle check is exact.                                               *)
(***************************************************************************)

\* The recursive definition inside FindsCycle.
IsWalk(edges, s, w) ==
  w = [path \in SUBSET Sku |-> [node \in Sku |->
        \E next \in edges[node] :
          next = s \/ (next \notin path /\ w[path \cup {node}][next])]]

\* Whether the walk finds s at a node off its path, given what it finds on longer
\* paths (G).
Off(edges, s, G, path, node) ==
  \E next \in edges[node] : next = s \/ (next \notin path /\ next \in G[path \cup {node}])

\* The same of a node that is on the path, where the walk never arrives.
On(edges, s, G, path, node) ==
  \E next \in edges[node] : next = s \/ (next \notin path /\ Off(edges, s, G, path, next))

\* The walk of the cycle check is defined over any edges.
LEMMA WalkExists ==
  ASSUME NEW edges \in Graph, NEW s \in Sku
  PROVE  \E w : IsWalk(edges, s, w)
<1> DEFINE S == [SUBSET Sku -> SUBSET Sku]
           F == [G \in S |-> [path \in SUBSET Sku |->
                  {node \in Sku : IF node \in path THEN On(edges, s, G, path, node)
                                  ELSE Off(edges, s, G, path, node)}]]
<1>1. F \in [S -> S]
  OBVIOUS
<1>2. FromSupersets(F, Sku, SUBSET Sku)
  <2>1. ASSUME NEW f \in S, NEW g \in S, NEW p \in SUBSET Sku,
               \A q \in SUBSET Sku : p \subseteq q /\ p # q => f[q] = g[q]
        PROVE  F[f][p] = F[g][p]
    <3>1. ASSUME NEW node \in Sku, node \notin p
          PROVE  Off(edges, s, f, p, node) <=> Off(edges, s, g, p, node)
      <4>1. p \cup {node} \in SUBSET Sku /\ p \subseteq p \cup {node} /\ p # p \cup {node}
        BY <3>1
      <4>2. f[p \cup {node}] = g[p \cup {node}]
        BY <2>1, <4>1
      <4> QED BY <4>2 DEF Off
    <3>2. ASSUME NEW node \in Sku
          PROVE  On(edges, s, f, p, node) <=> On(edges, s, g, p, node)
      <4>1. edges[node] \subseteq Sku
        BY DEF Graph
      <4> QED BY <3>1, <4>1 DEF On
    <3> QED BY <3>1, <3>2
  <2> HIDE DEF F
  <2> QED BY <1>1, <2>1 DEF FromSupersets
<1>3. PICK G \in S : F[G] = G
  <2>1. IsFiniteSet(Sku) /\ SUBSET Sku # {}
    BY RecipeGraphAssumption
  <2> HIDE DEF F
  <2>2. HasFixpoint(F, Sku, SUBSET Sku)
    BY <1>2, <2>1, SupersetRecursion
  <2> QED BY <2>2 DEF HasFixpoint
<1>4. ASSUME NEW path \in SUBSET Sku, NEW node \in Sku
      PROVE  node \in G[path] <=> Off(edges, s, G, path, node)
  <2>1. G[path] = {n \in Sku : IF n \in path THEN On(edges, s, G, path, n)
                               ELSE Off(edges, s, G, path, n)}
    BY <1>3
  <2>2. CASE node \notin path
    BY <2>1, <2>2
  <2>3. CASE node \in path
    <3>1. path \cup {node} = path
      BY <2>3
    <3>2. node \in G[path] <=> On(edges, s, G, path, node)
      BY <2>1, <2>3
    <3>3. \A next \in edges[node] : next \notin path =>
            (next \in G[path] <=> Off(edges, s, G, path, next))
      <4>1. edges[node] \subseteq Sku
        BY DEF Graph
      <4> QED BY <2>1, <4>1
    <3> QED BY <3>1, <3>2, <3>3 DEF On, Off
  <2> QED BY <2>2, <2>3
<1> DEFINE w == [path \in SUBSET Sku |-> [node \in Sku |-> node \in G[path]]]
<1>5. ASSUME NEW path \in SUBSET Sku, NEW node \in Sku
      PROVE  node \in G[path] <=>
               \E next \in edges[node] :
                 next = s \/ (next \notin path /\ w[path \cup {node}][next])
  <2>1. edges[node] \subseteq Sku /\ path \cup {node} \in SUBSET Sku
    BY DEF Graph
  <2>2. \A next \in edges[node] : w[path \cup {node}][next] <=> next \in G[path \cup {node}]
    BY <2>1
  <2> HIDE DEF w
  <2> QED BY <1>4, <2>2 DEF Off
<1>6. /\ w \in [SUBSET Sku -> [Sku -> BOOLEAN]]
      /\ \A path \in SUBSET Sku, node \in Sku : w[path][node] <=> node \in G[path]
  <2>1. ASSUME NEW path \in SUBSET Sku
        PROVE  /\ w[path] = [node \in Sku |-> node \in G[path]]
               /\ w[path] \in [Sku -> BOOLEAN]
    OBVIOUS
  <2>2. w = [path \in SUBSET Sku |-> w[path]]
    OBVIOUS
  <2> HIDE DEF w
  <2>3. w \in [SUBSET Sku -> [Sku -> BOOLEAN]]
    BY <2>1, <2>2
  <2>4. ASSUME NEW path \in SUBSET Sku, NEW node \in Sku
        PROVE  w[path][node] <=> node \in G[path]
    BY <2>1
  <2> QED BY <2>3, <2>4
<1> HIDE DEF w
<1>7. ASSUME NEW path \in SUBSET Sku
      PROVE  w[path] =
             [node \in Sku |->
               \E next \in edges[node] :
                 next = s \/ (next \notin path /\ w[path \cup {node}][next])]
  <2> DEFINE v == w[path]
  <2>1. v \in [Sku -> BOOLEAN]
    BY <1>6
  <2>2. \A node \in Sku :
          v[node] <=>
            \E next \in edges[node] :
              next = s \/ (next \notin path /\ w[path \cup {node}][next])
    BY <1>5, <1>6
  <2> HIDE DEF v
  <2>3. v = [node \in Sku |->
               \E next \in edges[node] :
                 next = s \/ (next \notin path /\ w[path \cup {node}][next])]
    BY <2>1, <2>2
  <2> QED BY <2>3 DEF v
<1>8. IsWalk(edges, s, w)
  BY <1>6, <1>7 DEF IsWalk
<1> QED BY <1>8

\* The sets of SKUs nothing leads out of except onto the path, and none to s.
Dead(edges, s, path) ==
  {Y \in SUBSET Sku : \A x \in Y : s \notin edges[x] /\ edges[x] \subseteq path \cup Y}

\* One step of the walk.
LEMMA WalkStep ==
  ASSUME NEW edges, NEW s, NEW w, IsWalk(edges, s, w),
         NEW path \in SUBSET Sku, NEW node \in Sku
  PROVE  w[path][node] <=>
           \E next \in edges[node] :
             next = s \/ (next \notin path /\ w[path \cup {node}][next])
<1>1. w[path] = [n \in Sku |->
        \E next \in edges[n] :
          next = s \/ (next \notin path /\ w[path \cup {n}][next])]
  BY DEF IsWalk
<1> QED BY <1>1

\* From a dead set the walk finds nothing.
LEMMA DeadEnds ==
  ASSUME NEW edges \in Graph, NEW s \in Sku, NEW w, IsWalk(edges, s, w)
  PROVE  \A path \in SUBSET Sku : \A Y \in Dead(edges, s, path) : \A node \in Y :
           node \notin path => ~w[path][node]
<1> DEFINE T == {path \in SUBSET Sku :
                   \A Y \in Dead(edges, s, path) : \A node \in Y :
                     node \notin path => ~w[path][node]}
           Steps(path, node) ==
             w[path][node] <=>
               \E next \in edges[node] :
                 next = s \/ (next \notin path /\ w[path \cup {node}][next])
<1>0. \A path \in SUBSET Sku, node \in Sku : Steps(path, node)
  BY WalkStep
<1> HIDE DEF Steps
<1>1. ASSUME NEW path \in SUBSET Sku,
             \A q \in SUBSET Sku : path \subseteq q /\ path # q => q \in T
      PROVE  path \in T
  <2>1. ASSUME NEW Y \in Dead(edges, s, path), NEW node \in Y, node \notin path
        PROVE  ~w[path][node]
    <3> DEFINE q == path \cup {node}
    <3>1. /\ Y \in SUBSET Sku /\ node \in Sku
          /\ \A x \in Y : s \notin edges[x] /\ edges[x] \subseteq path \cup Y
      BY DEF Dead
    <3>2. q \in SUBSET Sku /\ path \subseteq q /\ path # q
      BY <2>1, <3>1
    <3>3. q \in T
      BY <1>1, <3>2
    <3>4. Y \in Dead(edges, s, q)
      BY <3>1 DEF Dead
    <3>5. \A n \in Y : n \notin q => ~w[q][n]
      BY <3>3, <3>4
    <3> HIDE DEF q
    <3>6. ASSUME NEW next \in edges[node],
                 next = s \/ (next \notin path /\ w[q][next])
          PROVE  FALSE
      <4>1. next # s /\ next \in path \cup Y
        BY <3>1
      <4>2. next \in Y /\ next \notin path /\ w[q][next] /\ next \in Sku
        BY <3>1, <3>6, <4>1
      <4>3. next \in q
        BY <3>5, <4>2
      <4>4. next = node
        BY <4>2, <4>3 DEF q
      <4>a. w[q][node] <=>
              \E far \in edges[node] : far = s \/ (far \notin q /\ w[q \cup {node}][far])
        <5>1. Steps(q, node)
          BY <1>0, <3>1, <3>2
        <5> QED BY <5>1 DEF Steps
      <4>5. PICK far \in edges[node] :
              far = s \/ (far \notin q /\ w[q \cup {node}][far])
        BY <4>2, <4>4, <4>a
      <4>6. q \cup {node} = q
        BY DEF q
      <4>7. far # s /\ far \in path \cup Y
        BY <3>1
      <4>8. far \notin q /\ w[q][far]
        BY <4>5, <4>6, <4>7
      <4>9. far \in Y
        BY <4>7, <4>8 DEF q
      <4> QED BY <3>5, <4>8, <4>9
    <3> QED BY <3>1, <3>6, WalkStep DEF q
  <2> QED BY <2>1
<1>2. T = SUBSET Sku
  <2>1. T \in SUBSET (SUBSET Sku) /\ IsFiniteSet(Sku)
    BY RecipeGraphAssumption
  <2> HIDE DEF T
  <2> QED BY <1>1, <2>1, SupersetInduction
<1> QED BY <1>2

\* Where the walk finds nothing is in a dead set.
LEMMA LiveEnds ==
  ASSUME NEW edges \in Graph, NEW s \in Sku, NEW w, IsWalk(edges, s, w)
  PROVE  \A path \in SUBSET Sku : \A node \in Sku :
           node \notin path /\ ~w[path][node] => \E Y \in Dead(edges, s, path) : node \in Y
<1> DEFINE T == {path \in SUBSET Sku : \A node \in Sku :
                   node \notin path /\ ~w[path][node] =>
                     \E Y \in Dead(edges, s, path) : node \in Y}
<1>1. ASSUME NEW path \in SUBSET Sku,
             \A q \in SUBSET Sku : path \subseteq q /\ path # q => q \in T
      PROVE  path \in T
  <2>1. ASSUME NEW node \in Sku, node \notin path, ~w[path][node]
        PROVE  \E Y \in Dead(edges, s, path) : node \in Y
    <3> DEFINE q == path \cup {node}
               Z == UNION Dead(edges, s, q)
               X == Z \cup {node}
    <3>1. q \in SUBSET Sku /\ path \subseteq q /\ path # q
      BY <2>1
    <3>2. q \in T
      BY <1>1, <3>1
    <3>3. \A next \in edges[node] : next # s /\ (next \in path \/ ~w[q][next])
      BY <2>1, WalkStep
    <3>4. edges[node] \subseteq Sku
      BY DEF Graph
    <3>5. \A next \in edges[node] : next \in q \cup Z
      BY <3>2, <3>3, <3>4
    <3>6. Z \in SUBSET Sku /\ \A x \in Z : s \notin edges[x] /\ edges[x] \subseteq q \cup Z
      BY DEF Dead
    <3>7. s \notin edges[node] /\ edges[node] \subseteq path \cup X
      BY <3>3, <3>5
    <3>8. \A x \in Z : s \notin edges[x] /\ edges[x] \subseteq path \cup X
      BY <3>6
    <3>9. X \in SUBSET Sku
      BY <3>6
    <3> HIDE DEF Z
    <3>10. X \in Dead(edges, s, path)
      BY <3>7, <3>8, <3>9 DEF Dead
    <3> QED BY <3>10
  <2> QED BY <2>1
<1>2. T = SUBSET Sku
  <2>1. T \in SUBSET (SUBSET Sku) /\ IsFiniteSet(Sku)
    BY RecipeGraphAssumption
  <2> HIDE DEF T
  <2> QED BY <1>1, <2>1, SupersetInduction
<1> QED BY <1>2

\* The walk of the cycle check finds s if and only if s is reached from itself.
LEMMA WalkFinds ==
  ASSUME NEW edges \in Graph, NEW s \in Sku, NEW w, IsWalk(edges, s, w)
  PROVE  w[{}][s] <=> s \in Reached(edges, edges[s])
<1> DEFINE R == Reached(edges, edges[s])
<1>1. edges[s] \in SUBSET Sku
  BY DEF Graph
<1>2. /\ R \in SUBSET Sku /\ edges[s] \subseteq R /\ Closed(edges, R)
      /\ \A X \in SUBSET Sku : edges[s] \subseteq X /\ Closed(edges, X) => R \subseteq X
  BY <1>1, ReachedIsLeast
<1> HIDE DEF R
<1>3. ASSUME s \notin R PROVE ~w[{}][s]
  <2> DEFINE X == R \cup {s}
  <2>1. X \in SUBSET Sku /\ \A x \in X : edges[x] \subseteq R
    BY <1>2 DEF Closed
  <2>2. X \in Dead(edges, s, {})
    BY <1>3, <2>1 DEF Dead
  <2> HIDE DEF X
  <2>3. s \in X
    BY DEF X
  <2> QED BY <2>2, <2>3, DeadEnds
<1>4. ASSUME ~w[{}][s] PROVE s \notin R
  <2>1. PICK Y \in Dead(edges, s, {}) : s \in Y
    BY <1>4, LiveEnds
  <2>2. Y \in SUBSET Sku /\ \A x \in Y : s \notin edges[x] /\ edges[x] \subseteq Y
    BY DEF Dead
  <2>3. Y \ {s} \in SUBSET Sku /\ edges[s] \subseteq Y \ {s} /\ Closed(edges, Y \ {s})
    BY <2>1, <2>2 DEF Closed
  <2>4. R \subseteq Y \ {s}
    BY <1>2, <2>3
  <2> QED BY <2>4
<1> QED BY <1>3, <1>4 DEF R

\* The recipe rows there are: none is empty.
FullRow == {r \in RecipeRow : r.ingredients # {}}

\* The type of the recipes.
RecipesTyped == recipes \in [Sku -> FullRow \cup {None}]

\* The recipes are a graph.
LEMMA EdgesTyped == ASSUME RecipesTyped PROVE Edges \in Graph
<1>1. ASSUME NEW s \in Sku
      PROVE  (IF recipes[s] = None THEN {} ELSE recipes[s].ingredients) \in SUBSET Sku
  <2>1. recipes[s] \in RecipeRow \cup {None}
    BY DEF RecipesTyped, FullRow
  <2> QED BY <2>1 DEF RecipeRow
<1> QED BY <1>1 DEF Edges, Graph

\* find_recipe_cycle refuses what would close a cycle and nothing else, in every
\* graph: a walk that turns away only from its own path misses no cycle.
LEMMA CycleCheckIsExact == ASSUME RecipesTyped PROVE CycleCheckExact
<1> SUFFICES ASSUME NEW s \in Sku, NEW ingredients \in SUBSET Sku
             PROVE  FindsCycle(s, ingredients) <=>
                      s \in Reached([Edges EXCEPT ![s] = ingredients], ingredients)
  BY DEF CycleCheckExact
<1> DEFINE edges == [Edges EXCEPT ![s] = ingredients]
           w == CHOOSE g : IsWalk(edges, s, g)
<1>1. edges \in Graph /\ edges[s] = ingredients
  BY EdgesTyped DEF Graph
<1>2. FindsCycle(s, ingredients) = w[{}][s]
  BY DEF FindsCycle, IsWalk
<1> HIDE DEF edges
<1>3. IsWalk(edges, s, w)
  BY <1>1, WalkExists
<1> HIDE DEF w
<1>4. w[{}][s] <=> s \in Reached(edges, edges[s])
  BY <1>1, <1>3, WalkFinds
<1> QED BY <1>1, <1>2, <1>4 DEF edges

-----------------------------------------------------------------------------
(***************************************************************************)
(* The resolver prices what can be costed.                                 *)
(***************************************************************************)

\* The priced purchasables.
Leaf == {s \in Sku : recipes[s] = None /\ costs[s]}

\* The recipes with a yield made of X.
Made(X) == {s \in Sku : /\ recipes[s] # None /\ recipes[s].yield > 0
                        /\ recipes[s].ingredients \subseteq X}

\* The recursive definition inside Costable.
IsRise(f) == f = [n \in Nat |-> IF n = 0 THEN Leaf ELSE f[n - 1] \cup Made(f[n - 1])]

\* The rounds of that iteration, and that Costable is the last of them.
Rise(f) ==
  /\ f \in [Nat -> SUBSET Sku]
  /\ f[0] = Leaf
  /\ \A n \in Nat : f[n + 1] = f[n] \cup Made(f[n])
  /\ Costable = f[Cardinality(Sku)]

\* The iteration inside Costable is defined.
LEMMA RiseExists == \E f : Rise(f)
<1> DEFINE S == SUBSET Sku
           F == [X \in S |-> X \cup Made(X)]
<1>1. F \in [S -> S] /\ Leaf \in S
  BY DEF Made, Leaf
<1>2. PICK f : Orbit(f, Leaf, F, S)
  <2> HIDE DEF S, F
  <2> QED BY <1>1, NatIteration
<1>3. f \in [Nat -> S] /\ f[0] = Leaf /\ \A n \in Nat : f[n + 1] = F[f[n]]
  BY <1>2 DEF Orbit
<1>4. \A n \in Nat : f[n + 1] = f[n] \cup Made(f[n])
  BY <1>3
<1> HIDE DEF F, S
<1>5. IsRise(f)
  <2>1. ASSUME NEW n \in Nat
        PROVE  f[n] = IF n = 0 THEN Leaf ELSE f[n - 1] \cup Made(f[n - 1])
    <3>1. CASE n = 0
      BY <1>3, <3>1
    <3>2. CASE n # 0
      <4>1. n - 1 \in Nat /\ (n - 1) + 1 = n
        BY <3>2
      <4> QED BY <1>4, <3>2, <4>1
    <3> QED BY <3>1, <3>2
  <2> QED BY <1>3, <2>1 DEF IsRise
<1> DEFINE u == CHOOSE g : IsRise(g)
<1>6. IsRise(u)
  BY <1>5
<1>7. Costable = u[Cardinality(Sku)]
  BY DEF Costable, IsRise, Leaf, Made
<1> HIDE DEF u
<1> DEFINE T == {n \in Nat : u[n] = f[n]}
<1>8. 0 \in T
  BY <1>3, <1>6 DEF IsRise
<1>9. ASSUME NEW n \in T PROVE n + 1 \in T
  <2>1. n + 1 \in Nat /\ n + 1 # 0 /\ (n + 1) - 1 = n
    OBVIOUS
  <2>2. u[n + 1] = u[n] \cup Made(u[n])
    BY <1>6, <2>1 DEF IsRise
  <2> QED BY <1>4, <2>1, <2>2
<1>10. T = Nat
  <2>1. T \in SUBSET Nat
    OBVIOUS
  <2> HIDE DEF T
  <2> QED BY <1>8, <1>9, <2>1, NatSetInduction
<1>11. u[Cardinality(Sku)] = f[Cardinality(Sku)]
  <2>1. Cardinality(Sku) \in Nat
    BY FS_CardinalityType, RecipeGraphAssumption
  <2> QED BY <1>10, <2>1
<1> QED BY <1>3, <1>4, <1>7, <1>11 DEF S, Rise

\* X has the priced purchasables and what can be made of X.
CostClosed(X) == Leaf \subseteq X /\ Made(X) \subseteq X

\* What can be costed is the least set that has the priced purchasables and what
\* is made of it.
LEMMA CostableIsLeast ==
  /\ Costable \in SUBSET Sku /\ CostClosed(Costable)
  /\ \A X \in SUBSET Sku : CostClosed(X) => Costable \subseteq X
<1> DEFINE N == Cardinality(Sku)
<1>1. N \in Nat /\ IsFiniteSet(Sku)
  BY FS_CardinalityType, RecipeGraphAssumption
<1>2. PICK f : Rise(f)
  BY RiseExists
<1>3. /\ f \in [Nat -> SUBSET Sku]
      /\ f[0] = Leaf
      /\ \A n \in Nat : f[n + 1] = f[n] \cup Made(f[n])
      /\ Costable = f[Cardinality(Sku)]
  BY <1>2 DEF Rise
<1>4. \A n \in Nat : f[n] \subseteq f[n + 1]
  BY <1>3
<1>5. ASSUME NEW n \in Nat, f[n + 1] = f[n] PROVE f[(n + 1) + 1] = f[n + 1]
  <2>1. f[n + 1] = f[n] \cup Made(f[n])
    BY <1>3
  <2>2. f[(n + 1) + 1] = f[n + 1] \cup Made(f[n + 1])
    BY <1>3
  <2> QED BY <1>5, <2>1, <2>2
<1>6. f[N + 1] = f[N]
  BY <1>1, <1>3, <1>4, <1>5, ChainSettles
<1>7. Made(f[N]) \subseteq f[N]
  BY <1>1, <1>3, <1>6
<1>8. \A n \in Nat : Leaf \subseteq f[n]
  <2> DEFINE T == {n \in Nat : Leaf \subseteq f[n]}
  <2>1. 0 \in T
    BY <1>3
  <2>2. \A n \in T : n + 1 \in T
    BY <1>4
  <2>3. T \in SUBSET Nat
    OBVIOUS
  <2>4. T = Nat
    <3> HIDE DEF T
    <3> QED BY <2>1, <2>2, <2>3, NatSetInduction
  <2> QED BY <2>4
<1>9. ASSUME NEW X \in SUBSET Sku, CostClosed(X) PROVE f[N] \subseteq X
  <2> DEFINE T == {n \in Nat : f[n] \subseteq X}
  <2>1. 0 \in T
    BY <1>3, <1>9 DEF CostClosed
  <2>2. ASSUME NEW n \in T PROVE n + 1 \in T
    <3>1. n + 1 \in Nat /\ f[n + 1] = f[n] \cup Made(f[n])
      BY <1>3
    <3>2. Made(f[n]) \subseteq Made(X)
      BY DEF Made
    <3> QED BY <1>9, <3>1, <3>2 DEF CostClosed
  <2>3. T \in SUBSET Nat
    OBVIOUS
  <2>4. T = Nat
    <3> HIDE DEF T
    <3> QED BY <2>1, <2>2, <2>3, NatSetInduction
  <2> QED BY <1>1, <2>4
<1>10. f[N] \in SUBSET Sku /\ Leaf \subseteq f[N]
  BY <1>1, <1>3, <1>8
<1> QED BY <1>3, <1>7, <1>9, <1>10 DEF CostClosed

\* The type of the prices.
CostsTyped == costs \in [Sku -> BOOLEAN]

\* The recursive definition inside Priceable.
IsResolved(v) ==
  v = [seen \in SUBSET Sku |-> [t \in Sku |->
        IF recipes[t] = None THEN costs[t]
        ELSE /\ t \notin seen
             /\ recipes[t].yield > 0
             /\ \A i \in recipes[t].ingredients : v[seen \cup {t}][i]]]

\* Whether the resolver has a cost for t, given what it has on longer paths (G).
Resolves(G, seen, t) ==
  IF recipes[t] = None THEN costs[t]
  ELSE /\ t \notin seen
       /\ recipes[t].yield > 0
       /\ \A i \in recipes[t].ingredients : i \in G[seen \cup {t}]

\* A recipe is a row with ingredients, which are its edges.
LEMMA IngredientsTyped ==
  ASSUME RecipesTyped, NEW t \in Sku, recipes[t] # None
  PROVE  /\ recipes[t] \in RecipeRow
         /\ recipes[t].ingredients \in SUBSET Sku /\ recipes[t].ingredients # {}
         /\ recipes[t].yield \in Nat
         /\ Edges[t] = recipes[t].ingredients
<1>1. recipes[t] \in RecipeRow /\ recipes[t].ingredients # {}
  BY DEF RecipesTyped, FullRow
<1>2. 0..2 * Cardinality(Sku) \subseteq Nat /\ Typed \subseteq Nat
  <2>1. Cardinality(Sku) \in Nat
    BY FS_CardinalityType, RecipeGraphAssumption
  <2> QED BY <2>1, RecipeGraphAssumption
<1> QED BY <1>1, <1>2 DEF RecipeRow, Edges

\* The cost resolver is defined in every graph.
LEMMA ResolvedExists ==
  ASSUME RecipesTyped, CostsTyped
  PROVE  \E v : IsResolved(v)
<1> DEFINE S == [SUBSET Sku -> SUBSET Sku]
           F == [G \in S |-> [seen \in SUBSET Sku |-> {t \in Sku : Resolves(G, seen, t)}]]
<1>1. F \in [S -> S]
  OBVIOUS
<1>2. FromSupersets(F, Sku, SUBSET Sku)
  <2>1. ASSUME NEW f \in S, NEW g \in S, NEW p \in SUBSET Sku,
               \A q \in SUBSET Sku : p \subseteq q /\ p # q => f[q] = g[q]
        PROVE  F[f][p] = F[g][p]
    <3>1. ASSUME NEW t \in Sku PROVE Resolves(f, p, t) <=> Resolves(g, p, t)
      <4>1. CASE recipes[t] = None \/ t \in p
        BY <4>1 DEF Resolves
      <4>2. CASE recipes[t] # None /\ t \notin p
        <5>1. p \cup {t} \in SUBSET Sku /\ p \subseteq p \cup {t} /\ p # p \cup {t}
          BY <4>2
        <5>2. f[p \cup {t}] = g[p \cup {t}]
          BY <2>1, <5>1
        <5> QED BY <5>2 DEF Resolves
      <4> QED BY <4>1, <4>2
    <3> QED BY <3>1
  <2> HIDE DEF F
  <2> QED BY <1>1, <2>1 DEF FromSupersets
<1>3. PICK G \in S : F[G] = G
  <2>1. IsFiniteSet(Sku) /\ SUBSET Sku # {}
    BY RecipeGraphAssumption
  <2> HIDE DEF F
  <2>2. HasFixpoint(F, Sku, SUBSET Sku)
    BY <1>2, <2>1, SupersetRecursion
  <2> QED BY <2>2 DEF HasFixpoint
<1>4. ASSUME NEW seen \in SUBSET Sku, NEW t \in Sku
      PROVE  t \in G[seen] <=> Resolves(G, seen, t)
  BY <1>3
<1> DEFINE v == [seen \in SUBSET Sku |-> [t \in Sku |-> t \in G[seen]]]
<1>5. /\ v \in [SUBSET Sku -> [Sku -> BOOLEAN]]
      /\ \A seen \in SUBSET Sku, t \in Sku : v[seen][t] <=> t \in G[seen]
  <2>1. ASSUME NEW seen \in SUBSET Sku
        PROVE  /\ v[seen] = [t \in Sku |-> t \in G[seen]]
               /\ v[seen] \in [Sku -> BOOLEAN]
    OBVIOUS
  <2>2. v = [seen \in SUBSET Sku |-> v[seen]]
    OBVIOUS
  <2> HIDE DEF v
  <2>3. v \in [SUBSET Sku -> [Sku -> BOOLEAN]]
    BY <2>1, <2>2
  <2>4. ASSUME NEW seen \in SUBSET Sku, NEW t \in Sku
        PROVE  v[seen][t] <=> t \in G[seen]
    BY <2>1
  <2> QED BY <2>3, <2>4
<1> HIDE DEF v
<1>6. ASSUME NEW seen \in SUBSET Sku
      PROVE  v[seen] = [t \in Sku |->
               IF recipes[t] = None THEN costs[t]
               ELSE /\ t \notin seen
                    /\ recipes[t].yield > 0
                    /\ \A i \in recipes[t].ingredients : v[seen \cup {t}][i]]
  <2> DEFINE row == v[seen]
  <2>1. row \in [Sku -> BOOLEAN]
    BY <1>5
  <2>2. ASSUME NEW t \in Sku
        PROVE  /\ recipes[t] = None => row[t] = costs[t]
               /\ recipes[t] # None =>
                    (row[t] <=> /\ t \notin seen
                                /\ recipes[t].yield > 0
                                /\ \A i \in recipes[t].ingredients : v[seen \cup {t}][i])
    <3>1. row[t] <=> Resolves(G, seen, t)
      BY <1>4, <1>5
    <3>2. CASE recipes[t] = None
      <4>1. row[t] \in BOOLEAN /\ costs[t] \in BOOLEAN
        BY <2>1 DEF CostsTyped
      <4> HIDE DEF row
      <4> QED BY <3>1, <3>2, <4>1 DEF Resolves
    <3>3. CASE recipes[t] # None
      <4>1. recipes[t].ingredients \in SUBSET Sku /\ seen \cup {t} \in SUBSET Sku
        BY <3>3, IngredientsTyped
      <4>2. \A i \in recipes[t].ingredients :
              v[seen \cup {t}][i] <=> i \in G[seen \cup {t}]
        BY <1>5, <4>1
      <4> HIDE DEF row
      <4> QED BY <3>1, <3>3, <4>2 DEF Resolves
    <3> QED BY <3>2, <3>3
  <2> HIDE DEF row
  <2>3. row = [t \in Sku |->
               IF recipes[t] = None THEN costs[t]
               ELSE /\ t \notin seen
                    /\ recipes[t].yield > 0
                    /\ \A i \in recipes[t].ingredients : v[seen \cup {t}][i]]
    BY <2>1, <2>2
  <2> QED BY <2>3 DEF row
<1>7. IsResolved(v)
  BY <1>5, <1>6 DEF IsResolved
<1> QED BY <1>7

\* One step of the resolver.
LEMMA ResolvedStep ==
  ASSUME NEW v, IsResolved(v), NEW seen \in SUBSET Sku, NEW t \in Sku
  PROVE  /\ recipes[t] = None => v[seen][t] = costs[t]
         /\ recipes[t] # None =>
              (v[seen][t] <=> /\ t \notin seen
                              /\ recipes[t].yield > 0
                              /\ \A i \in recipes[t].ingredients : v[seen \cup {t}][i])
<1>1. v[seen] = [u \in Sku |->
        IF recipes[u] = None THEN costs[u]
        ELSE /\ u \notin seen
             /\ recipes[u].yield > 0
             /\ \A i \in recipes[u].ingredients : v[seen \cup {u}][i]]
  BY DEF IsResolved
<1> QED BY <1>1

\* What the resolver costs can be costed, whatever it has seen.
LEMMA ResolvedIsCostable ==
  ASSUME RecipesTyped, CostsTyped, NEW v, IsResolved(v)
  PROVE  \A seen \in SUBSET Sku : \A t \in Sku : v[seen][t] => t \in Costable
<1> DEFINE T == {seen \in SUBSET Sku : \A t \in Sku : v[seen][t] => t \in Costable}
<1>1. ASSUME NEW seen \in SUBSET Sku,
             \A q \in SUBSET Sku : seen \subseteq q /\ seen # q => q \in T
      PROVE  seen \in T
  <2>1. ASSUME NEW t \in Sku, v[seen][t] PROVE t \in Costable
    <3>1. CASE recipes[t] = None
      <4>1. costs[t]
        BY <2>1, <3>1, ResolvedStep
      <4> QED BY <3>1, <4>1, CostableIsLeast DEF CostClosed, Leaf
    <3>2. CASE recipes[t] # None
      <4> DEFINE q == seen \cup {t}
      <4>1. /\ t \notin seen /\ recipes[t].yield > 0
            /\ \A i \in recipes[t].ingredients : v[q][i]
        BY <2>1, <3>2, ResolvedStep
      <4>2. q \in T
        BY <1>1, <4>1
      <4>3. recipes[t].ingredients \in SUBSET Sku
        BY <3>2, IngredientsTyped
      <4>4. recipes[t].ingredients \subseteq Costable
        BY <4>1, <4>2, <4>3
      <4> QED BY <3>2, <4>1, <4>4, CostableIsLeast DEF CostClosed, Made
    <3> QED BY <3>1, <3>2
  <2> QED BY <2>1
<1>2. T = SUBSET Sku
  <2>1. T \in SUBSET (SUBSET Sku) /\ IsFiniteSet(Sku)
    BY RecipeGraphAssumption
  <2> HIDE DEF T
  <2> QED BY <1>1, <2>1, SupersetInduction
<1> QED BY <1>2

\* t has no price, or a yield of nothing, or an ingredient that is seen or in Y.
StuckAt(seen, Y, t) ==
  \/ recipes[t] = None /\ ~costs[t]
  \/ recipes[t] # None /\ ~(recipes[t].yield > 0)
  \/ recipes[t] # None /\ \E i \in recipes[t].ingredients : i \in Y \cup seen

\* The sets of SKUs none of which gets a cost from outside.
Stuck(seen) == {Y \in SUBSET Sku : \A t \in Y : StuckAt(seen, Y, t)}

\* What the resolver does not cost is in a stuck set.
LEMMA UnresolvedIsStuck ==
  ASSUME RecipesTyped, CostsTyped, NEW v, IsResolved(v)
  PROVE  \A seen \in SUBSET Sku : \A t \in Sku :
           t \notin seen /\ ~v[seen][t] => \E Y \in Stuck(seen) : t \in Y
<1> DEFINE T == {seen \in SUBSET Sku : \A t \in Sku :
                   t \notin seen /\ ~v[seen][t] => \E Y \in Stuck(seen) : t \in Y}
<1>1. ASSUME NEW seen \in SUBSET Sku,
             \A q \in SUBSET Sku : seen \subseteq q /\ seen # q => q \in T
      PROVE  seen \in T
  <2>1. ASSUME NEW t \in Sku, t \notin seen, ~v[seen][t]
        PROVE  \E Y \in Stuck(seen) : t \in Y
    <3> DEFINE q == seen \cup {t}
               Z == UNION Stuck(q)
               X == Z \cup {t}
    <3>1. q \in SUBSET Sku /\ seen \subseteq q /\ seen # q
      BY <2>1
    <3>2. q \in T
      BY <1>1, <3>1
    <3>3. Z \in SUBSET Sku /\ \A u \in Z : StuckAt(q, Z, u)
      BY DEF Stuck, StuckAt
    <3>4. \A u \in Z : StuckAt(seen, X, u)
      BY <3>3 DEF StuckAt
    <3>5. StuckAt(seen, X, t)
      <4>1. CASE recipes[t] = None
        <5>1. ~costs[t]
          BY <2>1, <4>1, ResolvedStep
        <5> QED BY <4>1, <5>1 DEF StuckAt
      <4>2. CASE recipes[t] # None /\ ~(recipes[t].yield > 0)
        BY <4>2 DEF StuckAt
      <4>3. CASE recipes[t] # None /\ recipes[t].yield > 0
        <5>1. PICK i \in recipes[t].ingredients : ~v[q][i]
          BY <2>1, <4>3, ResolvedStep
        <5>2. i \in Sku
          BY <4>3, IngredientsTyped
        <5>3. i \in q \cup Z
          BY <3>2, <5>1, <5>2
        <5> QED BY <4>3, <5>3 DEF StuckAt
      <4> QED BY <4>1, <4>2, <4>3
    <3>6. X \in SUBSET Sku
      BY <3>3
    <3> HIDE DEF Z
    <3>7. X \in Stuck(seen)
      BY <3>4, <3>5, <3>6 DEF Stuck
    <3> QED BY <3>7
  <2> QED BY <2>1
<1>2. T = SUBSET Sku
  <2>1. T \in SUBSET (SUBSET Sku) /\ IsFiniteSet(Sku)
    BY RecipeGraphAssumption
  <2> HIDE DEF T
  <2> QED BY <1>1, <2>1, SupersetInduction
<1> QED BY <1>2

\* CostResolver.unit_cost prices exactly what can be costed from the leaves up, in
\* every graph: turning away from a loop loses nothing else.
LEMMA CostingIsExact == ASSUME RecipesTyped, CostsTyped PROVE CostingAgrees
<1> DEFINE v == CHOOSE g : IsResolved(g)
<1>1. IsResolved(v)
  BY ResolvedExists
<1>2. \A s \in Sku : Priceable(s) = v[{}][s]
  BY DEF Priceable, IsResolved
<1> HIDE DEF v
<1>3. \A s \in Sku : v[{}][s] => s \in Costable
  BY <1>1, ResolvedIsCostable
<1>4. ASSUME NEW s \in Sku, ~v[{}][s] PROVE s \notin Costable
  <2>1. PICK Y \in Stuck({}) : s \in Y
    BY <1>1, <1>4, UnresolvedIsStuck
  <2>2. Y \in SUBSET Sku /\ \A t \in Y : StuckAt({}, Y, t)
    BY DEF Stuck
  <2>3. CostClosed(Sku \ Y)
    BY <2>2 DEF CostClosed, Leaf, Made, StuckAt
  <2>4. Costable \subseteq Sku \ Y
    BY <2>3, CostableIsLeast
  <2> QED BY <2>1, <2>4
<1>5. Costable \subseteq Sku
  BY CostableIsLeast
<1>6. \A s \in Sku : Priceable(s) <=> s \in Costable
  BY <1>2, <1>3, <1>4
<1> QED BY <1>5, <1>6 DEF CostingAgrees

-----------------------------------------------------------------------------
(***************************************************************************)
(* A SKU without a cost is explained.                                      *)
(***************************************************************************)

\* The recursive definition inside UnpricedLeaves.
IsLeaves(v) ==
  v = [seen \in SUBSET Sku |-> [t \in Sku |->
        IF recipes[t] = None THEN {u \in {t} : ~costs[u]}
        ELSE IF t \in seen THEN {}
        ELSE UNION {v[seen \cup {t}][i] : i \in recipes[t].ingredients}]]

\* The list of unpriced leaves is defined in every graph.
LEMMA LeavesExist == ASSUME RecipesTyped PROVE \E v : IsLeaves(v)
<1> DEFINE R == [Sku -> SUBSET Sku]
           S == [SUBSET Sku -> R]
           Row(g, seen) == [t \in Sku |->
             IF recipes[t] = None THEN {u \in {t} : ~costs[u]}
             ELSE IF t \in seen THEN {}
             ELSE UNION {g[seen \cup {t}][i] : i \in recipes[t].ingredients}]
           F == [g \in S |-> [seen \in SUBSET Sku |-> Row(g, seen)]]
<1>1. ASSUME NEW g \in S, NEW seen \in SUBSET Sku PROVE Row(g, seen) \in R
  <2>1. ASSUME NEW t \in Sku
        PROVE  (IF recipes[t] = None THEN {u \in {t} : ~costs[u]}
                ELSE IF t \in seen THEN {}
                ELSE UNION {g[seen \cup {t}][i] : i \in recipes[t].ingredients})
                  \in SUBSET Sku
    <3>1. CASE recipes[t] = None \/ t \in seen
      BY <3>1
    <3>2. CASE recipes[t] # None /\ t \notin seen
      <4>1. recipes[t].ingredients \in SUBSET Sku /\ seen \cup {t} \in SUBSET Sku
        BY <3>2, IngredientsTyped
      <4>2. g[seen \cup {t}] \in R
        BY <4>1
      <4>3. \A i \in recipes[t].ingredients : g[seen \cup {t}][i] \in SUBSET Sku
        BY <4>1, <4>2
      <4> DEFINE below == UNION {g[seen \cup {t}][i] : i \in recipes[t].ingredients}
      <4>4. below \in SUBSET Sku
        <5>1. ASSUME NEW x \in below PROVE x \in Sku
          <6>1. PICK i \in recipes[t].ingredients : x \in g[seen \cup {t}][i]
            OBVIOUS
          <6> QED BY <4>3, <6>1
        <5> QED BY <5>1
      <4> HIDE DEF below
      <4> QED BY <3>2, <4>4 DEF below
    <3> QED BY <3>1, <3>2
  <2> QED BY <2>1
<1>2. F \in [S -> S]
  <2> HIDE DEF R, Row
  <2> QED BY <1>1
<1>3. FromSupersets(F, Sku, R)
  <2>1. ASSUME NEW f \in S, NEW g \in S, NEW p \in SUBSET Sku,
               \A q \in SUBSET Sku : p \subseteq q /\ p # q => f[q] = g[q]
        PROVE  F[f][p] = F[g][p]
    <3>1. ASSUME NEW t \in Sku, t \notin p PROVE f[p \cup {t}] = g[p \cup {t}]
      <4>1. p \cup {t} \in SUBSET Sku /\ p \subseteq p \cup {t} /\ p # p \cup {t}
        BY <3>1
      <4> HIDE DEF S
      <4> QED BY <2>1, <4>1
    <3>2. Row(f, p) = Row(g, p)
      BY <3>1
    <3> HIDE DEF Row, R
    <3> QED BY <3>2
  <2> HIDE DEF F, R
  <2> QED BY <1>2, <2>1 DEF FromSupersets
<1>4. PICK g \in S : F[g] = g
  <2>1. IsFiniteSet(Sku) /\ [t \in Sku |-> {}] \in R
    BY RecipeGraphAssumption
  <2> HIDE DEF F, R
  <2>2. HasFixpoint(F, Sku, R)
    BY <1>3, <2>1, SupersetRecursion
  <2> QED BY <2>2 DEF HasFixpoint
<1>5. IsLeaves(g)
  <2>1. g = [seen \in SUBSET Sku |-> Row(g, seen)]
    <3> HIDE DEF Row, R
    <3> QED BY <1>4
  <2> QED BY <2>1 DEF IsLeaves
<1> QED BY <1>5

\* One step of that list: a leaf without a price is in it, and so is what is
\* listed for an ingredient.
LEMMA LeavesStep ==
  ASSUME NEW v, IsLeaves(v), NEW seen \in SUBSET Sku, NEW t \in Sku
  PROVE  /\ recipes[t] = None /\ ~costs[t] => t \in v[seen][t]
         /\ recipes[t] # None /\ t \notin seen =>
              \A i \in recipes[t].ingredients : v[seen \cup {t}][i] \subseteq v[seen][t]
<1>1. v[seen] = [u \in Sku |->
        IF recipes[u] = None THEN {x \in {u} : ~costs[x]}
        ELSE IF u \in seen THEN {}
        ELSE UNION {v[seen \cup {u}][i] : i \in recipes[u].ingredients}]
  BY DEF IsLeaves
<1> QED BY <1>1

\* What a recipe reaches is closed.
LEMMA ReachedFrom ==
  ASSUME RecipesTyped, NEW s \in Sku
  PROVE  /\ Edges[s] \in SUBSET Sku
         /\ Reached(Edges, Edges[s]) \in SUBSET Sku
         /\ Edges[s] \subseteq Reached(Edges, Edges[s])
         /\ \A t \in Reached(Edges, Edges[s]) : Edges[t] \subseteq Reached(Edges, Edges[s])
<1>1. Edges \in Graph /\ Edges[s] \in SUBSET Sku
  BY EdgesTyped DEF Graph
<1> QED BY <1>1, ReachedIsLeast DEF Closed

\* No cycle and no yield of nothing at or below s.
Sound(s) ==
  \A t \in {s} \cup Reached(Edges, Edges[s]) :
    ~OnCycle(t) /\ (recipes[t] # None => recipes[t].yield # 0)

\* Where nothing below is wrong, what the resolver does not cost has an unpriced
\* leaf, whatever both have seen on the way.
LEMMA UnresolvedHasLeaf ==
  ASSUME RecipesTyped, CostsTyped, NEW v, IsResolved(v), NEW l, IsLeaves(l),
         NEW s \in Sku, Sound(s)
  PROVE  \A seen \in SUBSET Sku : \A t \in {s} \cup Reached(Edges, Edges[s]) :
           /\ \A u \in seen : t \in Reached(Edges, Edges[u])
           /\ ~v[seen][t]
           => l[seen][t] # {}
<1> DEFINE Below == {s} \cup Reached(Edges, Edges[s])
           T == {seen \in SUBSET Sku : \A t \in Below :
                   /\ \A u \in seen : t \in Reached(Edges, Edges[u])
                   /\ ~v[seen][t]
                   => l[seen][t] # {}}
<1>1. /\ Below \in SUBSET Sku
      /\ \A t \in Below : Edges[t] \subseteq Below
      /\ \A t \in Below : ~OnCycle(t) /\ (recipes[t] # None => recipes[t].yield # 0)
  BY ReachedFrom DEF Sound
<1> HIDE DEF Below
<1>2. ASSUME NEW seen \in SUBSET Sku,
             \A q \in SUBSET Sku : seen \subseteq q /\ seen # q => q \in T
      PROVE  seen \in T
  <2>1. ASSUME NEW t \in Below, \A u \in seen : t \in Reached(Edges, Edges[u]),
               ~v[seen][t]
        PROVE  l[seen][t] # {}
    <3>1. t \in Sku
      BY <1>1
    <3>2. CASE recipes[t] = None
      <4>1. ~costs[t]
        BY <2>1, <3>1, <3>2, ResolvedStep
      <4>2. t \in l[seen][t]
        BY <3>1, <3>2, <4>1, LeavesStep
      <4> QED BY <4>2
    <3>3. CASE recipes[t] # None
      <4> DEFINE q == seen \cup {t}
      <4>1. t \notin seen
        BY <1>1, <2>1 DEF OnCycle
      <4>2. /\ recipes[t].ingredients \in SUBSET Sku /\ recipes[t].yield > 0
            /\ Edges[t] = recipes[t].ingredients
        BY <1>1, <3>1, <3>3, IngredientsTyped
      <4>r. v[seen][t] <=> /\ t \notin seen
                           /\ recipes[t].yield > 0
                           /\ \A i \in recipes[t].ingredients : v[q][i]
        BY <3>1, <3>3, ResolvedStep
      <4>3. PICK i \in recipes[t].ingredients : ~v[q][i]
        BY <2>1, <4>1, <4>2, <4>r
      <4>4. i \in Below
        BY <1>1, <4>2
      <4>5. ASSUME NEW u \in q PROVE i \in Reached(Edges, Edges[u])
        <5>1. CASE u = t
          BY <3>1, <4>2, <5>1, ReachedFrom
        <5>2. CASE u # t
          <6>1. u \in Sku /\ t \in Reached(Edges, Edges[u])
            BY <2>1, <5>2
          <6>2. Edges[t] \subseteq Reached(Edges, Edges[u])
            BY <6>1, ReachedFrom
          <6> QED BY <4>2, <6>2
        <5> QED BY <5>1, <5>2
      <4>6. q \in T
        BY <1>2, <3>1, <4>1
      <4> HIDE DEF q
      <4>7. l[q][i] # {}
        BY <4>3, <4>4, <4>5, <4>6
      <4>8. l[q][i] \subseteq l[seen][t]
        BY <3>1, <3>3, <4>1, LeavesStep DEF q
      <4> QED BY <4>7, <4>8
    <3> QED BY <3>2, <3>3
  <2> QED BY <2>1
<1>3. T = SUBSET Sku
  <2>1. T \in SUBSET (SUBSET Sku) /\ IsFiniteSet(Sku)
    BY RecipeGraphAssumption
  <2> HIDE DEF T
  <2> QED BY <1>2, <2>1, SupersetInduction
<1> QED BY <1>3 DEF Below

\* A SKU without a cost has an unpriced leaf to show, or a cycle or a yield of
\* nothing below it, in every graph.
LEMMA UnpricedIsExplained == ASSUME RecipesTyped, CostsTyped PROVE UnpricedExplained
<1> DEFINE v == CHOOSE g : IsResolved(g)
           l == CHOOSE g : IsLeaves(g)
<1>1. IsResolved(v) /\ IsLeaves(l)
  BY ResolvedExists, LeavesExist
<1>2. ASSUME NEW s \in Sku PROVE Priceable(s) = v[{}][s]
  BY DEF Priceable, IsResolved
<1>3. ASSUME NEW s \in Sku PROVE UnpricedLeaves(s) = l[{}][s]
  BY DEF UnpricedLeaves, IsLeaves
<1> HIDE DEF v, l
<1>4. ASSUME NEW s \in Sku, ~Priceable(s), Sound(s) PROVE UnpricedLeaves(s) # {}
  <2>1. ~v[{}][s]
    BY <1>2, <1>4
  <2>2. l[{}][s] # {}
    BY <1>1, <1>4, <2>1, UnresolvedHasLeaf
  <2> QED BY <1>3, <2>2
<1> QED BY <1>4 DEF UnpricedExplained, Sound

-----------------------------------------------------------------------------
(***************************************************************************)
(* The inductive invariant.                                                *)
(***************************************************************************)

\* An audit entry of a table with keys Pk and rows V.
Change(Pk, V) == [pk : Pk, old : V, new : V]

\* The type of the audit trail: no transaction in it is empty.
LogTyped ==
  \A t \in log :
    /\ t \in [skus : SUBSET Change(Sku, BOOLEAN),
              recipes : SUBSET Change(Sku, FullRow \cup {None}),
              costs : SUBSET Change(Sku, BOOLEAN),
              mapping : SUBSET Change(Item, Sku \cup {None})]
    /\ \E table \in DOMAIN t : t[table] # {}

\* What each kind of decision carries.
Decided(w) ==
  /\ w.op = "save recipe" => w.sku \in Sku /\ w.recipe \in FullRow
  /\ w.op = "save cost" => w.sku \in Sku
  /\ w.op = "upload" =>
       w \in [op : {"upload"}, file : File, remaps : BOOLEAN, prices : BOOLEAN]
  /\ w.op = "create sku" => w.form \in NewSku
  /\ w.op = "sold as is" => w.sku \in DOMAIN Served /\ w.item \in Item
  /\ w.op = "add servings" =>
       DOMAIN w.plan \subseteq Item /\ w.plan \in [DOMAIN w.plan -> DOMAIN Served]
  /\ w.op = "import" =>
       /\ w.priced \subseteq Sku /\ w.bare \subseteq Sku
       /\ DOMAIN w.rows \subseteq Sku /\ w.rows \in [DOMAIN w.rows -> FullRow]

\* The type of the books.
BooksTyped ==
  /\ skus \in [Sku -> BOOLEAN]
  /\ RecipesTyped
  /\ CostsTyped
  /\ mapping \in [Item -> Sku \cup {None}]

\* The type of the decisions in flight, and the bound on them.
PendingTyped ==
  /\ \A w \in pending : Decided(w)
  /\ IsFiniteSet(pending) /\ Cardinality(pending) <= MaxPending

\* The type of the state.
Typing == BooksTyped /\ LogTyped /\ PendingTyped /\ routine \in BOOLEAN

\* No SKU is reached from itself.
Acyclic(edges) == \A s \in Sku : s \notin Reached(edges, edges[s])

\* What a decision alone in flight still finds as it was when it was taken.
StillHolds(w) ==
  /\ w.op = "save recipe" =>
       /\ skus[w.sku]
       /\ w.sku \notin Reached([Edges EXCEPT ![w.sku] = w.recipe.ingredients],
                              w.recipe.ingredients)
  /\ w.op = "save cost" => recipes[w.sku] = None
  /\ w.op = "upload" => recipes[w.file.priced] = None
  /\ w.op = "sold as is" => ~skus[w.sku] /\ ~skus[Served[w.sku]]
  /\ w.op = "add servings" =>
       \A i \in DOMAIN w.plan : skus[w.plan[i]] /\ recipes[w.plan[i]] = None

\* Every recipe has its SKU.
RowsRoutine == \A s \in Sku : recipes[s] # None => skus[s]

\* What holds while requests come one at a time.
Routine ==
  routine =>
    /\ RowsRoutine
    /\ Acyclic(Edges)
    /\ \A w, x \in pending : w = x
    /\ \A w \in pending : StillHolds(w)

\* The inductive invariant.
IInv == Typing /\ Routine

-----------------------------------------------------------------------------
(***************************************************************************)
(* What keeps a graph without cycles so.                                   *)
(***************************************************************************)

\* A recipe that passed the cycle check closes no cycle.
LEMMA UpdateKeepsAcyclic ==
  ASSUME NEW edges \in Graph, NEW s \in Sku, NEW I \in SUBSET Sku,
         Acyclic(edges),
         s \notin Reached([edges EXCEPT ![s] = I], I)
  PROVE  Acyclic([edges EXCEPT ![s] = I])
<1> DEFINE new == [edges EXCEPT ![s] = I]
           R == [u \in Sku |-> Reached(edges, edges[u])]
           Q == [u \in Sku |-> Reached(new, new[u])]
<1>1. new \in Graph /\ new[s] = I /\ \A u \in Sku : u # s => new[u] = edges[u]
  BY DEF Graph
<1> HIDE DEF new
<1>2. ASSUME NEW u \in Sku
      PROVE  /\ R[u] \in SUBSET Sku /\ edges[u] \subseteq R[u] /\ Closed(edges, R[u])
             /\ \A X \in SUBSET Sku :
                  edges[u] \subseteq X /\ Closed(edges, X) => R[u] \subseteq X
  <2>1. edges[u] \in SUBSET Sku
    BY DEF Graph
  <2> QED BY <2>1, ReachedIsLeast
<1>3. ASSUME NEW u \in Sku
      PROVE  /\ Q[u] \in SUBSET Sku /\ new[u] \subseteq Q[u] /\ Closed(new, Q[u])
             /\ \A X \in SUBSET Sku : new[u] \subseteq X /\ Closed(new, X) => Q[u] \subseteq X
  <2>1. new[u] \in SUBSET Sku
    BY <1>1 DEF Graph
  <2> QED BY <1>1, <2>1, ReachedIsLeast
<1>4. s \notin Q[s]
  BY <1>1 DEF new
<1>5. \A u \in Sku : u \notin R[u]
  BY DEF Acyclic
<1> HIDE DEF R, Q
<1>6. ASSUME NEW t \in Sku PROVE t \notin Q[t]
  <2>1. CASE t = s
    BY <1>4, <2>1
  <2>2. CASE t # s /\ s \notin R[t]
    <3>1. Closed(new, R[t]) /\ new[t] \subseteq R[t]
      BY <1>1, <1>2, <2>2 DEF Closed
    <3>2. Q[t] \subseteq R[t]
      BY <1>2, <1>3, <3>1
    <3> QED BY <1>5, <3>2
  <2>3. CASE t # s /\ s \in R[t]
    <3>1. s \in Q[t]
      <4>1. SUFFICES ASSUME s \notin Q[t] PROVE FALSE
        OBVIOUS
      <4>2. Closed(edges, Q[t]) /\ edges[t] \subseteq Q[t]
        BY <1>1, <1>3, <2>3, <4>1 DEF Closed
      <4>3. R[t] \subseteq Q[t]
        BY <1>2, <1>3, <4>2
      <4> QED BY <2>3, <4>1, <4>3
    <3>2. Closed(new, R[t] \cup Q[s]) /\ new[t] \subseteq R[t] \cup Q[s]
      <4>1. \A x \in R[t] : x # s => new[x] \subseteq R[t]
        BY <1>1, <1>2 DEF Closed
      <4>2. \A x \in Q[s] \cup {s} : new[x] \subseteq Q[s]
        BY <1>3 DEF Closed
      <4>3. new[t] \subseteq R[t]
        BY <1>1, <1>2, <2>3
      <4> QED BY <4>1, <4>2, <4>3 DEF Closed
    <3>3. Q[t] \subseteq R[t] \cup Q[s]
      BY <1>2, <1>3, <3>2
    <3>4. SUFFICES ASSUME t \in Q[t] PROVE FALSE
      OBVIOUS
    <3>5. t \in Q[s]
      BY <1>5, <3>3, <3>4
    <3>6. new[t] \subseteq Q[s] /\ Closed(new, Q[s])
      BY <1>3, <3>5 DEF Closed
    <3>7. Q[t] \subseteq Q[s]
      BY <1>3, <3>6
    <3> QED BY <1>4, <3>1, <3>7
  <2> QED BY <2>1, <2>2, <2>3
<1> QED BY <1>6 DEF Acyclic, Q, new

\* Nor do recipes made only of SKUs without a recipe.
LEMMA LeafEdgesKeepAcyclic ==
  ASSUME NEW edges \in Graph, Acyclic(edges), NEW new \in Graph,
         NEW L \in SUBSET Sku,
         \A x \in L : new[x] = {},
         \A x \in Sku : new[x] = edges[x] \/ new[x] \subseteq L
  PROVE  Acyclic(new)
<1> DEFINE R == [u \in Sku |-> Reached(edges, edges[u])]
           Q == [u \in Sku |-> Reached(new, new[u])]
<1>1. ASSUME NEW u \in Sku
      PROVE  R[u] \in SUBSET Sku /\ edges[u] \subseteq R[u] /\ Closed(edges, R[u])
  <2>1. edges[u] \in SUBSET Sku
    BY DEF Graph
  <2> QED BY <2>1, ReachedIsLeast
<1>2. ASSUME NEW u \in Sku
      PROVE  \A X \in SUBSET Sku : new[u] \subseteq X /\ Closed(new, X) => Q[u] \subseteq X
  <2>1. new[u] \in SUBSET Sku
    BY DEF Graph
  <2> QED BY <2>1, ReachedIsLeast
<1>3. \A u \in Sku : u \notin R[u]
  BY DEF Acyclic
<1> HIDE DEF R, Q
<1>4. Closed(new, L) /\ Closed(new, {})
  BY DEF Closed
<1>5. ASSUME NEW t \in Sku, t \in Q[t] PROVE FALSE
  <2>1. t \notin L
    <3>1. SUFFICES ASSUME t \in L PROVE FALSE
      OBVIOUS
    <3>2. Q[t] \subseteq {}
      BY <1>2, <1>4, <3>1
    <3> QED BY <1>5, <3>2
  <2>2. CASE new[t] \subseteq L
    BY <1>2, <1>4, <1>5, <2>1, <2>2
  <2>3. CASE new[t] = edges[t]
    <3>1. Closed(new, R[t] \cup L) /\ new[t] \subseteq R[t] \cup L
      BY <1>1, <2>3 DEF Closed
    <3>2. Q[t] \subseteq R[t] \cup L
      BY <1>1, <1>2, <3>1
    <3> QED BY <1>3, <1>5, <2>1, <3>2
  <2> QED BY <2>2, <2>3
<1> QED BY <1>5 DEF Acyclic, Q

\* A graph each set of which has a member made of nothing in the set has no cycle.
LEMMA WellFoundedIsAcyclic ==
  ASSUME NEW edges \in Graph,
         \A X \in SUBSET Sku : X # {} => \E s \in X : edges[s] \cap X = {}
  PROVE  Acyclic(edges)
<1> DEFINE R == [u \in Sku |-> Reached(edges, edges[u])]
           X == {t \in Sku : t \in R[t]}
<1>1. ASSUME NEW u \in Sku
      PROVE  /\ R[u] \in SUBSET Sku /\ edges[u] \subseteq R[u] /\ Closed(edges, R[u])
             /\ \A Y \in SUBSET Sku :
                  edges[u] \subseteq Y /\ Closed(edges, Y) => R[u] \subseteq Y
  <2>1. edges[u] \in SUBSET Sku
    BY DEF Graph
  <2> QED BY <2>1, ReachedIsLeast
<1>2. \A t \in X : t \in Sku /\ t \in R[t]
  OBVIOUS
<1>3. \A t \in Sku : t \in R[t] => t \in X
  OBVIOUS
<1> HIDE DEF R
<1>4. ASSUME X # {} PROVE FALSE
  <2>1. PICK t \in X : edges[t] \cap X = {}
    <3>1. X \in SUBSET Sku
      OBVIOUS
    <3> HIDE DEF X
    <3> QED BY <1>4, <3>1
  <2> HIDE DEF X
  <2> DEFINE Y == edges[t] \cup UNION {R[u] : u \in edges[t]}
  <2>2. t \in Sku /\ edges[t] \subseteq Sku /\ t \in R[t]
    BY <1>2 DEF Graph
  <2>3. Y \in SUBSET Sku /\ edges[t] \subseteq Y
    BY <1>1, <2>2
  <2>4. ASSUME NEW x \in Y PROVE edges[x] \subseteq Y
    <3>1. CASE x \in edges[t]
      BY <1>1, <2>2, <3>1
    <3>2. CASE x \notin edges[t]
      <4>1. PICK u \in edges[t] : x \in R[u]
        BY <3>2
      <4>2. edges[x] \subseteq R[u]
        BY <1>1, <2>2, <4>1 DEF Closed
      <4> QED BY <4>2
    <3> QED BY <3>1, <3>2
  <2>5. t \in Y
    <3>1. Closed(edges, Y)
      BY <2>4 DEF Closed
    <3> HIDE DEF Y
    <3> QED BY <1>1, <2>2, <2>3, <3>1
  <2>6. PICK u \in edges[t] : t = u \/ t \in R[u]
    BY <2>5
  <2>7. u \in R[u]
    BY <1>1, <2>2, <2>6 DEF Closed
  <2> QED BY <1>3, <2>1, <2>2, <2>7
<1>5. \A t \in Sku : t \notin R[t]
  BY <1>3, <1>4
<1> QED BY <1>5 DEF Acyclic, R

\* An estimated yield is at most that of all SKUs.
LEMMA EstimateTyped ==
  ASSUME NEW I \in SUBSET Sku
  PROVE  EstimatedYield(I) \in 0..2 * Cardinality(Sku)
<1>1. I \ Countable \in SUBSET Sku /\ IsFiniteSet(Sku)
  BY RecipeGraphAssumption
<1>2. /\ IsFiniteSet(I \ Countable) /\ Cardinality(I \ Countable) <= Cardinality(Sku)
  BY <1>1, FS_Subset
<1>3. Cardinality(I \ Countable) \in Nat /\ Cardinality(Sku) \in Nat
  BY <1>1, <1>2, FS_CardinalityType
<1>4. 2 * Cardinality(I \ Countable) \in 0..2 * Cardinality(Sku)
  BY <1>2, <1>3
<1> QED BY <1>4 DEF EstimatedYield

\* The row of a seeded recipe.
LEMMA SeededRowTyped ==
  ASSUME NEW s \in DOMAIN SeedRecipe
  PROVE  /\ SeededRow(s) \in FullRow
         /\ SeededRow(s).ingredients = SeedRecipe[s]
<1>1. SeedRecipe[s] \in SUBSET Sku /\ SeedRecipe[s] # {}
  <2>1. SeedRecipe[s] \in (SUBSET Seeded) \ {{}} /\ Seeded \subseteq Sku
    BY RecipeGraphAssumption DEF Range
  <2> QED BY <2>1
<1> DEFINE used == \E t \in DOMAIN SeedRecipe : s \in SeedRecipe[t]
           yield == IF used THEN EstimatedYield(SeedRecipe[s]) ELSE 1
<1>2. yield \in 0..2 * Cardinality(Sku)
  <2>1. EstimatedYield(SeedRecipe[s]) \in 0..2 * Cardinality(Sku)
    BY <1>1, EstimateTyped
  <2>2. 1 \in 0..2 * Cardinality(Sku)
    <3>1. Sku # {} /\ IsFiniteSet(Sku)
      BY <1>1, RecipeGraphAssumption
    <3>2. Cardinality(Sku) \in Nat /\ Cardinality(Sku) # 0
      BY <3>1, FS_CardinalityType, FS_EmptySet
    <3> QED BY <3>2
  <2> HIDE DEF used
  <2> QED BY <2>1, <2>2
<1>3. SeededRow(s) = [ingredients |-> SeedRecipe[s], prep |-> used, estimated |-> used,
                      yield |-> yield]
  BY DEF SeededRow
<1>4. used \in BOOLEAN
  OBVIOUS
<1> HIDE DEF used, yield
<1> QED BY <1>1, <1>2, <1>3, <1>4 DEF FullRow, RecipeRow

\* The invariant holds of the seed, whose recipes have no cycle.
LEMMA InitEstablishes == Init => IInv
<1> SUFFICES ASSUME Init PROVE IInv
  OBVIOUS
<1>1. recipes = [s \in Sku |-> IF s \in DOMAIN SeedRecipe THEN SeededRow(s) ELSE None]
  BY DEF Init
<1>2. RecipesTyped
  BY <1>1, SeededRowTyped DEF RecipesTyped
<1>3. skus \in [Sku -> BOOLEAN] /\ mapping \in [Item -> Sku \cup {None}]
  BY DEF Init
<1>4. CostsTyped
  BY DEF Init, CostsTyped
<1>5. LogTyped /\ PendingTyped
  <2>1. IsFiniteSet({}) /\ Cardinality({}) = 0
    BY FS_EmptySet
  <2> QED BY <2>1, RecipeGraphAssumption DEF Init, LogTyped, PendingTyped
<1>6. Typing
  BY <1>2, <1>3, <1>4, <1>5 DEF Init, Typing, BooksTyped
<1>7. \A s \in Sku : recipes[s] # None => s \in DOMAIN SeedRecipe
  BY <1>1
<1>8. \A s \in Sku : recipes[s] # None => skus[s]
  <2>1. DOMAIN SeedRecipe \subseteq Seeded
    BY RecipeGraphAssumption
  <2>2. ASSUME NEW s \in Sku, recipes[s] # None
        PROVE  skus[s]
    <3>1. s \in DOMAIN SeedRecipe /\ recipes[s] = SeededRow(s)
      BY <1>1, <2>2
    <3> QED BY <2>1, <3>1, SeededRowTyped DEF Init
  <2> QED BY <2>2
<1>9. Acyclic(Edges)
  <2>1. ASSUME NEW X \in SUBSET Sku, X # {}
        PROVE  \E s \in X : Edges[s] \cap X = {}
    <3>1. CASE X \subseteq DOMAIN SeedRecipe
      <4>1. PICK s \in X : SeedRecipe[s] \cap X = {}
        BY <2>1, <3>1, RecipeGraphAssumption
      <4>2. Edges[s] \subseteq SeedRecipe[s]
        BY <1>1, <3>1, SeededRowTyped DEF Edges
      <4> QED BY <4>1, <4>2
    <3>2. CASE \E s \in X : s \notin DOMAIN SeedRecipe
      <4>1. PICK s \in X : s \notin DOMAIN SeedRecipe
        BY <3>2
      <4>2. Edges[s] = {}
        BY <1>1, <4>1 DEF Edges
      <4> QED BY <4>2
    <3> QED BY <3>1, <3>2
  <2>2. Edges \in Graph
    BY <1>2, EdgesTyped
  <2> DEFINE edges == Edges
  <2>3. edges \in Graph /\ \A X \in SUBSET Sku : X # {} => \E s \in X : edges[s] \cap X = {}
    BY <2>1, <2>2
  <2> HIDE DEF edges
  <2>4. Acyclic(edges)
    BY <2>3, WellFoundedIsAcyclic
  <2> QED BY <2>4 DEF edges
<1>10. Routine
  BY <1>8, <1>9 DEF Routine, RowsRoutine, Init
<1> QED BY <1>6, <1>10 DEF IInv

-----------------------------------------------------------------------------
(***************************************************************************)
(* Every step preserves the invariant.                                     *)
(***************************************************************************)

\* The changes of a table are entries of it.
LEMMA ChangesTyped ==
  ASSUME NEW Pk, NEW V, NEW old \in [Pk -> V], NEW new \in [Pk -> V]
  PROVE  Changes(old, new) \in SUBSET Change(Pk, V)
  BY DEF Changes, Change

\* A transaction leaves the audit trail typed.
LEMMA Audits ==
  ASSUME BooksTyped, BooksTyped', LogTyped, Audited
  PROVE  LogTyped'
<1> DEFINE t == Transaction
           logs == [skus : SUBSET Change(Sku, BOOLEAN),
                    recipes : SUBSET Change(Sku, FullRow \cup {None}),
                    costs : SUBSET Change(Sku, BOOLEAN),
                    mapping : SUBSET Change(Item, Sku \cup {None})]
<1>1. t \in logs
  <2>1. Changes(skus, skus') \in SUBSET Change(Sku, BOOLEAN)
    BY ChangesTyped DEF BooksTyped
  <2>2. Changes(recipes, recipes') \in SUBSET Change(Sku, FullRow \cup {None})
    BY ChangesTyped DEF BooksTyped, RecipesTyped
  <2>3. Changes(costs, costs') \in SUBSET Change(Sku, BOOLEAN)
    BY ChangesTyped DEF BooksTyped, CostsTyped
  <2>4. Changes(mapping, mapping') \in SUBSET Change(Item, Sku \cup {None})
    BY ChangesTyped DEF BooksTyped
  <2> QED BY <2>1, <2>2, <2>3, <2>4 DEF Transaction
<1>2. log' = log \cup {u \in {t} : \E table \in DOMAIN u : u[table] # {}}
  BY DEF Audited
<1> HIDE DEF t
<1>3. ASSUME NEW u \in log'
      PROVE  u \in logs /\ \E table \in DOMAIN u : u[table] # {}
  <2>1. CASE u \in log
    BY <2>1 DEF LogTyped
  <2>2. CASE u \notin log
    <3>1. u = t /\ \E table \in DOMAIN u : u[table] # {}
      BY <1>2, <2>2
    <3> HIDE DEF logs
    <3> QED BY <1>1, <3>1
  <2> QED BY <2>1, <2>2
<1> QED BY <1>3 DEF LogTyped

\* Decisions may be dropped.
LEMMA Drops ==
  ASSUME PendingTyped, pending' \subseteq pending
  PROVE  PendingTyped'
<1>1. IsFiniteSet(pending') /\ Cardinality(pending') <= Cardinality(pending)
  BY FS_Subset DEF PendingTyped
<1>2. Cardinality(pending') \in Nat /\ Cardinality(pending) \in Nat /\ MaxPending \in Nat
  BY <1>1, FS_CardinalityType, RecipeGraphAssumption DEF PendingTyped
<1> QED BY <1>1, <1>2 DEF PendingTyped

\* A decision leaves the state typed.
LEMMA DecidesTyped ==
  ASSUME Typing, NEW d, Decide(d), Decided(d)
  PROVE  Typing'
<1>1. /\ d \notin pending /\ Cardinality(pending) < MaxPending
      /\ pending' = pending \cup {d} /\ routine' = (routine /\ pending = {})
      /\ skus' = skus /\ recipes' = recipes /\ costs' = costs /\ mapping' = mapping
      /\ log' = log
  BY DEF Decide, books
<1>2. PendingTyped'
  <2>1. IsFiniteSet(pending') /\ Cardinality(pending') = Cardinality(pending) + 1
    BY <1>1, FS_AddElement DEF Typing, PendingTyped
  <2>2. Cardinality(pending) \in Nat /\ MaxPending \in Nat
    BY FS_CardinalityType, RecipeGraphAssumption DEF Typing, PendingTyped
  <2> QED BY <1>1, <2>1, <2>2 DEF Typing, PendingTyped
<1>3. BooksTyped'
  BY <1>1 DEF Typing, BooksTyped, RecipesTyped, CostsTyped
<1>4. LogTyped'
  BY <1>1 DEF Typing, LogTyped
<1>5. routine' \in BOOLEAN
  BY <1>1
<1> QED BY <1>2, <1>3, <1>4, <1>5 DEF Typing

\* The graph is the same while the recipes are.
LEMMA EdgesFollow ==
  ASSUME recipes' = recipes
  PROVE  Edges' = Edges
  BY DEF Edges

\* A decision holds while the SKUs and the recipes are the same.
LEMMA StillHoldsWhileSame ==
  ASSUME NEW w, skus' = skus, recipes' = recipes, StillHolds(w)
  PROVE  StillHolds(w)'
<1>1. Edges' = Edges
  BY EdgesFollow
<1> QED BY <1>1 DEF StillHolds

\* A decision that holds when taken leaves a routine state routine.
LEMMA DecidesRoutine ==
  ASSUME IInv, NEW d, Decide(d), routine => StillHolds(d)
  PROVE  Routine'
<1>1. /\ pending' = pending \cup {d} /\ routine' = (routine /\ pending = {})
      /\ skus' = skus /\ recipes' = recipes
  BY DEF Decide, books
<1> SUFFICES ASSUME routine'
             PROVE  /\ RowsRoutine' /\ Acyclic(Edges')
                    /\ \A w, x \in pending' : w = x
                    /\ \A w \in pending' : StillHolds(w)'
  BY DEF Routine, RowsRoutine
<1>2. routine /\ pending' = {d}
  BY <1>1
<1>3. StillHolds(d)'
  BY <1>1, <1>2, StillHoldsWhileSame
<1>4. Edges' = Edges
  BY <1>1, EdgesFollow
<1> QED BY <1>1, <1>2, <1>3, <1>4 DEF IInv, Routine, RowsRoutine

\* The row a form submits.
LEMMA SubmittedTyped ==
  ASSUME BooksTyped, NEW form \in Form, form.ingredients # {}
  PROVE  /\ SubmittedRecipe(form) \in FullRow
         /\ SubmittedRecipe(form).ingredients = form.ingredients
<1>1. /\ form.sku \in Sku /\ form.ingredients \in SUBSET Sku
      /\ form.posted \in Typed \cup {None} /\ form.prep \in BOOLEAN
  <2>1. form \in [sku : Sku, ingredients : SUBSET Sku,
                  posted : Typed \cup {None}, prep : BOOLEAN]
    BY RecipeGraphAssumption
  <2> QED BY <2>1
<1> DEFINE stored == recipes[form.sku]
           touched == form.posted # None /\ (stored # None => stored.yield # form.posted)
           kept == stored # None /\ ~stored.estimated
           estimate == EstimatedYield(form.ingredients)
           yields == 0..2 * Cardinality(Sku) \cup Typed
           yield == IF touched THEN form.posted ELSE IF kept THEN stored.yield ELSE estimate
           estimated == ~touched /\ ~kept
<1>2. stored # None => stored.yield \in yields /\ stored.estimated \in BOOLEAN
  BY <1>1 DEF BooksTyped, RecipesTyped, FullRow, RecipeRow
<1>3. estimate \in yields
  BY <1>1, EstimateTyped
<1>4. SubmittedRecipe(form) = [ingredients |-> form.ingredients, prep |-> form.prep,
                               estimated |-> estimated, yield |-> yield]
  BY DEF SubmittedRecipe
<1>5. touched => form.posted \in Typed
  BY <1>1, RecipeGraphAssumption
<1>6. touched \in BOOLEAN /\ kept \in BOOLEAN
  OBVIOUS
<1>7. kept => stored # None /\ stored.estimated = FALSE
  BY <1>2
<1> HIDE DEF touched, kept, estimate, stored
<1>8. yield \in yields /\ estimated \in BOOLEAN
  BY <1>2, <1>3, <1>5, <1>6, <1>7
<1> HIDE DEF yield, estimated
<1>9. [ingredients |-> form.ingredients, prep |-> form.prep,
       estimated |-> estimated, yield |-> yield] \in FullRow
  BY <1>1, <1>8 DEF FullRow, RecipeRow
<1> QED BY <1>4, <1>9

\* Every check of a request preserves the invariant.
LEMMA LookPreserves == ASSUME IInv, Look PROVE IInv'
<1>1. Typing /\ BooksTyped
  BY DEF IInv, Typing
<1>2. ASSUME NEW form \in Form, CheckSaveRecipe(form) PROVE IInv'
  <2> PICK row : row = SubmittedRecipe(form)
    OBVIOUS
  <2> DEFINE d == [op |-> "save recipe", sku |-> form.sku, recipe |-> row]
  <2>1. Acceptable(form) /\ Decide(d)
    BY <1>2 DEF CheckSaveRecipe
  <2>2. row \in FullRow /\ row.ingredients = form.ingredients
    BY <1>1, <2>1, SubmittedTyped DEF Acceptable
  <2>3. form.sku \in Sku /\ form.ingredients \in SUBSET Sku
    BY RecipeGraphAssumption
  <2>4. Decided(d)
    BY <2>2, <2>3 DEF Decided
  <2>5. form.sku \notin Reached([Edges EXCEPT ![form.sku] = form.ingredients], form.ingredients)
    BY <1>1, <2>1, <2>3, CycleCheckIsExact
    DEF BooksTyped, Acceptable, CycleCheckExact
  <2>6. ASSUME routine PROVE StillHolds(d)
    <3>1. skus[form.sku]
      BY <2>1 DEF Acceptable
    <3> QED BY <2>2, <2>5, <3>1 DEF StillHolds
  <2> HIDE DEF d
  <2> QED BY <1>1, <2>1, <2>4, <2>6, DecidesTyped, DecidesRoutine DEF IInv
<1>3. ASSUME NEW s \in Sku, CheckSaveCost(s) PROVE IInv'
  <2> DEFINE d == [op |-> "save cost", sku |-> s]
  <2>1. PriceDirectly(s) /\ Decide(d)
    BY <1>3 DEF CheckSaveCost
  <2>2. Decided(d)
    BY DEF Decided
  <2>3. StillHolds(d)
    BY <2>1 DEF StillHolds, PriceDirectly
  <2> HIDE DEF d
  <2> QED BY <1>1, <2>1, <2>2, <2>3, DecidesTyped, DecidesRoutine DEF IInv
<1>4. ASSUME NEW file \in File, ParseUpload(file) PROVE IInv'
  <2> DEFINE remaps == mapping[file.item] # file.target
             prices == ~costs[file.priced]
             e == [op |-> "upload", file |-> file, remaps |-> remaps, prices |-> prices]
  <2> PICK d : d = e
    OBVIOUS
  <2>1. PriceDirectly(file.priced) /\ Decide(e)
    BY <1>4 DEF ParseUpload
  <2>2. Decide(d)
    BY <2>1
  <2>3. d = [op |-> "upload", file |-> file, remaps |-> remaps, prices |-> prices]
        /\ remaps \in BOOLEAN /\ prices \in BOOLEAN
    OBVIOUS
  <2> HIDE DEF remaps, prices
  <2>4. Decided(d)
    BY <2>3 DEF Decided
  <2>5. StillHolds(d)
    BY <2>1, <2>3 DEF StillHolds, PriceDirectly
  <2> QED BY <1>1, <2>2, <2>4, <2>5, DecidesTyped, DecidesRoutine DEF IInv
<1>5. ASSUME NEW form \in NewSku, CheckCreateSku(form) PROVE IInv'
  <2> DEFINE d == [op |-> "create sku", form |-> form]
  <2>1. Decide(d)
    BY <1>5 DEF CheckCreateSku
  <2>2. Decided(d) /\ StillHolds(d)
    BY DEF Decided, StillHolds
  <2> HIDE DEF d
  <2> QED BY <1>1, <2>1, <2>2, DecidesTyped, DecidesRoutine DEF IInv
<1>6. ASSUME NEW s \in DOMAIN Served, NEW item \in Item, CheckSoldAsIs(s, item)
      PROVE  IInv'
  <2> DEFINE d == [op |-> "sold as is", sku |-> s, item |-> item]
  <2>1. ~skus[s] /\ ~skus[Served[s]] /\ Decide(d)
    BY <1>6 DEF CheckSoldAsIs
  <2>2. Decided(d) /\ StillHolds(d)
    BY <2>1 DEF Decided, StillHolds
  <2> HIDE DEF d
  <2> QED BY <1>1, <2>1, <2>2, DecidesTyped, DecidesRoutine DEF IInv
<1>7. ASSUME PlanServings PROVE IInv'
  <2> PICK plan : plan = Restrict(mapping, ServingPlan)
    OBVIOUS
  <2> DEFINE d == [op |-> "add servings", plan |-> plan]
  <2>1. /\ \A i \in ServingPlan : skus[mapping[i]] /\ ~skus[Served[mapping[i]]]
        /\ Decide(d)
    BY <1>7 DEF PlanServings
  <2>2. plan = [i \in ServingPlan |-> mapping[i]]
    BY DEF Restrict
  <2>3. /\ ServingPlan \subseteq Item
        /\ \A i \in ServingPlan : mapping[i] \in DOMAIN Served /\ recipes[mapping[i]] = None
    BY DEF ServingPlan
  <2>4. Decided(d)
    BY <2>2, <2>3 DEF Decided
  <2>5. StillHolds(d)
    BY <2>1, <2>2, <2>3 DEF StillHolds
  <2> HIDE DEF d
  <2> QED BY <1>1, <2>1, <2>4, <2>5, DecidesTyped, DecidesRoutine DEF IInv
<1>8. ASSUME NEW book \in Workbook, ValidateWorkbook(book) PROVE IInv'
  <2> DEFINE row(s) == book.recipes[s]
             prep(s) == row(s).prep \/ s \in Consumed(book)
             bare == {s \in book.bare : ~skus[s]}
             rows == [s \in DOMAIN book.recipes |->
               [ingredients |-> row(s).ingredients, yield |-> row(s).yield, prep |-> prep(s),
                estimated |-> prep(s) /\ row(s).yield # 1]]
             e == [op |-> "import", priced |-> book.priced, bare |-> bare, rows |-> rows]
  <2> PICK d : d = e
    OBVIOUS
  <2>1. Decide(e)
    BY <1>8 DEF ValidateWorkbook
  <2>2. Decide(d)
    BY <2>1
  <2>3. /\ book.priced \subseteq Sku /\ book.bare \subseteq Sku
        /\ DOMAIN book.recipes \subseteq Sku
        /\ Range(book.recipes) \subseteq
             [ingredients : (SUBSET Sku) \ {{}}, yield : Typed, prep : BOOLEAN]
    BY RecipeGraphAssumption DEF Brought
  <2>4. ASSUME NEW s \in DOMAIN book.recipes PROVE rows[s] \in FullRow
    <3>1. row(s) \in [ingredients : (SUBSET Sku) \ {{}}, yield : Typed, prep : BOOLEAN]
      BY <2>3 DEF Range
    <3>2. prep(s) \in BOOLEAN /\ (prep(s) /\ row(s).yield # 1) \in BOOLEAN
      OBVIOUS
    <3>3. rows[s] = [ingredients |-> row(s).ingredients, yield |-> row(s).yield, prep |-> prep(s),
                     estimated |-> prep(s) /\ row(s).yield # 1]
      OBVIOUS
    <3> HIDE DEF prep, row, rows
    <3> QED BY <3>1, <3>2, <3>3 DEF FullRow, RecipeRow
  <2>5. DOMAIN rows = DOMAIN book.recipes /\ rows = [s \in DOMAIN book.recipes |-> rows[s]]
    OBVIOUS
  <2>6. bare \subseteq Sku
    BY <2>3
  <2> HIDE DEF rows, bare
  <2>7. rows \in [DOMAIN rows -> FullRow]
    BY <2>4, <2>5
  <2>8. Decided(d)
    BY <2>3, <2>5, <2>6, <2>7 DEF Decided
  <2>9. StillHolds(d)
    BY DEF StillHolds
  <2> QED BY <1>1, <2>2, <2>8, <2>9, DecidesTyped, DecidesRoutine DEF IInv
<1> QED BY <1>2, <1>3, <1>4, <1>5, <1>6, <1>7, <1>8 DEF Look

\* A write of typed books leaves the state typed.
LEMMA LandsTyped ==
  ASSUME Typing, BooksTyped', Audited \/ log' = log, pending' \subseteq pending,
         routine' \in BOOLEAN
  PROVE  Typing'
<1>1. LogTyped'
  BY Audits DEF Typing, LogTyped
<1>2. PendingTyped'
  BY Drops DEF Typing
<1> QED BY <1>1, <1>2 DEF Typing

\* The write of the only request leaves none in flight.
LEMMA LandsRoutine ==
  ASSUME Routine, NEW w \in pending, pending' = pending \ {w},
         routine' = routine,
         routine => RowsRoutine' /\ Acyclic(Edges)'
  PROVE  Routine'
<1>1. ASSUME routine PROVE pending' = {}
  BY <1>1 DEF Routine, RowsRoutine
<1> QED BY <1>1 DEF Routine, RowsRoutine

\* The graph after one recipe changed.
LEMMA EdgesUpdate ==
  ASSUME RecipesTyped, NEW s \in Sku, NEW row \in FullRow \cup {None},
         recipes' = [recipes EXCEPT ![s] = row]
  PROVE  Edges' = [Edges EXCEPT ![s] = IF row = None THEN {} ELSE row.ingredients]
<1>1. \A t \in Sku : recipes'[t] = IF t = s THEN row ELSE recipes[t]
  BY DEF RecipesTyped
<1>2. Edges' = [t \in Sku |-> IF recipes'[t] = None THEN {} ELSE recipes'[t].ingredients]
  BY DEF Edges
<1>3. DOMAIN Edges = Sku /\ \A t \in Sku :
        Edges[t] = IF recipes[t] = None THEN {} ELSE recipes[t].ingredients
  BY DEF Edges
<1> DEFINE new == IF row = None THEN {} ELSE row.ingredients
<1>4. ASSUME NEW t \in Sku
      PROVE  (IF recipes'[t] = None THEN {} ELSE recipes'[t].ingredients) =
             (IF t = s THEN new ELSE Edges[t])
  BY <1>1, <1>3
<1> HIDE DEF new
<1>5. Edges' = [t \in Sku |-> IF t = s THEN new ELSE Edges[t]]
  BY <1>2, <1>4
<1>6. [Edges EXCEPT ![s] = new] = [t \in Sku |-> IF t = s THEN new ELSE Edges[t]]
  <2>1. Edges = [t \in Sku |-> IF recipes[t] = None THEN {} ELSE recipes[t].ingredients]
    BY DEF Edges
  <2> QED BY <2>1
<1> QED BY <1>5, <1>6 DEF new

\* No row is None.
LEMMA NotARow == \A row \in FullRow : row # None
  BY RecipeGraphAssumption DEF FullRow

\* The save of a recipe preserves the invariant: what passed the check alone is
\* still no cycle when it lands.
LEMMA SaveRecipePreserves ==
  ASSUME IInv, NEW w \in pending, SaveRecipe(w)
  PROVE  IInv'
<1>1. Typing /\ BooksTyped /\ RecipesTyped /\ Routine /\ Decided(w)
  BY DEF IInv, Typing, BooksTyped, PendingTyped
<1>2. /\ w.op = "save recipe"
      /\ recipes' = [recipes EXCEPT ![w.sku] = w.recipe]
      /\ skus' = skus /\ costs' = costs /\ mapping' = mapping
      /\ Audited /\ pending' = pending \ {w} /\ routine' = routine
  BY DEF SaveRecipe, Finish
<1>3. w.sku \in Sku /\ w.recipe \in FullRow
  BY <1>1, <1>2 DEF Decided
<1>4. \A t \in Sku : recipes'[t] = IF t = w.sku THEN w.recipe ELSE recipes[t]
  BY <1>1, <1>2 DEF RecipesTyped
<1>5. BooksTyped'
  <2>1. recipes' \in [Sku -> FullRow \cup {None}]
    BY <1>1, <1>2, <1>3 DEF RecipesTyped
  <2> QED BY <1>1, <1>2, <2>1 DEF BooksTyped, RecipesTyped, CostsTyped
<1>6. Typing'
  <2>1. pending' \subseteq pending /\ routine' \in BOOLEAN
    BY <1>1, <1>2 DEF Typing
  <2> QED BY <1>1, <1>2, <1>5, <2>1, LandsTyped
<1>7. ASSUME routine PROVE RowsRoutine' /\ Acyclic(Edges)'
  <2>1. StillHolds(w) /\ RowsRoutine /\ Acyclic(Edges)
    BY <1>1, <1>7 DEF Routine, RowsRoutine
  <2>2. /\ skus[w.sku]
        /\ w.sku \notin Reached([Edges EXCEPT ![w.sku] = w.recipe.ingredients],
                               w.recipe.ingredients)
    BY <1>2, <2>1 DEF StillHolds
  <2>3. RowsRoutine'
    BY <1>2, <1>4, <2>1, <2>2 DEF RowsRoutine
  <2>4. Edges' = [Edges EXCEPT ![w.sku] = w.recipe.ingredients]
    BY <1>1, <1>2, <1>3, NotARow, EdgesUpdate
  <2>5. w.recipe.ingredients \in SUBSET Sku
    BY <1>3 DEF FullRow, RecipeRow
  <2>6. Acyclic([Edges EXCEPT ![w.sku] = w.recipe.ingredients])
    BY <1>1, <1>3, <2>1, <2>2, <2>5, EdgesTyped, UpdateKeepsAcyclic
  <2> QED BY <2>3, <2>4, <2>6
<1>8. Routine'
  BY <1>1, <1>2, <1>7, LandsRoutine
<1> QED BY <1>6, <1>8 DEF IInv

\* The deletion of a recipe preserves the invariant.
LEMMA DeleteRecipePreserves ==
  ASSUME IInv, NEW s \in Sku, DeleteRecipe(s)
  PROVE  IInv'
<1>1. Typing /\ BooksTyped /\ RecipesTyped /\ Routine
  BY DEF IInv, Typing, BooksTyped
<1>2. /\ recipes' = [recipes EXCEPT ![s] = None]
      /\ skus' = skus /\ costs' = costs /\ mapping' = mapping
      /\ Audited /\ pending' = pending /\ routine' = (routine /\ pending = {})
  BY DEF DeleteRecipe
<1>3. \A t \in Sku : recipes'[t] = IF t = s THEN None ELSE recipes[t]
  BY <1>1, <1>2 DEF RecipesTyped
<1>4. BooksTyped'
  <2>1. recipes' \in [Sku -> FullRow \cup {None}]
    BY <1>1, <1>2 DEF RecipesTyped
  <2> QED BY <1>1, <1>2, <2>1 DEF BooksTyped, RecipesTyped, CostsTyped
<1>5. Typing'
  <2>1. pending' \subseteq pending /\ routine' \in BOOLEAN
    BY <1>2
  <2> QED BY <1>1, <1>2, <1>4, <2>1, LandsTyped
<1>6. ASSUME routine' PROVE RowsRoutine' /\ Acyclic(Edges)' /\ pending' = {}
  <2>1. pending' = {} /\ RowsRoutine /\ Acyclic(Edges)
    BY <1>1, <1>2, <1>6 DEF Routine, RowsRoutine
  <2>2. RowsRoutine'
    BY <1>2, <1>3, <2>1 DEF RowsRoutine
  <2>3. Edges \in Graph /\ Edges' \in Graph
    <3>1. Edges' = [t \in Sku |-> IF recipes'[t] = None THEN {} ELSE recipes'[t].ingredients]
      BY DEF Edges
    <3>2. Edges \in Graph
      BY <1>1, EdgesTyped
    <3>3. RecipesTyped'
      BY <1>4 DEF BooksTyped
    <3>4. \A t \in Sku : Edges'[t] \in SUBSET Sku
      BY <3>3 DEF Edges, RecipesTyped, FullRow, RecipeRow
    <3> QED BY <3>1, <3>2, <3>4 DEF Graph
  <2>4. \A t \in Sku : Edges'[t] = Edges[t] \/ Edges'[t] \subseteq {}
    BY <1>3 DEF Edges
  <2>5. Acyclic(Edges')
    BY <2>1, <2>3, <2>4, LeafEdgesKeepAcyclic
  <2> QED BY <2>1, <2>2, <2>5
<1>7. Routine'
  BY <1>6 DEF Routine, RowsRoutine
<1> QED BY <1>5, <1>7 DEF IInv

\* Where the recipes are the same, no cycle has closed.
LEMMA SameRecipes ==
  ASSUME Routine, routine, recipes' = recipes,
         \A s \in Sku : skus[s] => skus'[s]
  PROVE  RowsRoutine' /\ Acyclic(Edges)'
<1>1. Edges' = Edges
  BY EdgesFollow
<1>2. RowsRoutine /\ Acyclic(Edges)
  BY DEF Routine, RowsRoutine
<1> QED BY <1>1, <1>2 DEF RowsRoutine

\* The save of a price preserves the invariant.
LEMMA PricesPreserve ==
  ASSUME IInv, NEW w \in pending, SaveCost(w) \/ UploadCost(w)
  PROVE  IInv'
<1>1. Typing /\ BooksTyped /\ Routine /\ routine \in BOOLEAN
  BY DEF IInv, Typing
<1>2. /\ \E s \in Sku : costs' = [costs EXCEPT ![s] = TRUE]
      /\ skus' = skus /\ recipes' = recipes /\ mapping' = mapping
      /\ Audited /\ pending' = pending \ {w} /\ routine' = routine
  <2>1. CASE SaveCost(w)
    <3>1. w.sku \in Sku
      BY <1>1, <2>1 DEF Typing, PendingTyped, Decided, SaveCost
    <3> QED BY <2>1, <3>1 DEF SaveCost, Finish
  <2>2. CASE UploadCost(w)
    <3>1. w.file \in File
      BY <1>1, <2>2 DEF Typing, PendingTyped, Decided, UploadCost
    <3>2. w.file.priced \in Sku
      BY <3>1, RecipeGraphAssumption
    <3> QED BY <2>2, <3>2 DEF UploadCost, Finish
  <2> QED BY <2>1, <2>2
<1>3. BooksTyped'
  <2>1. costs' \in [Sku -> BOOLEAN]
    BY <1>1, <1>2 DEF BooksTyped, CostsTyped
  <2> QED BY <1>1, <1>2, <2>1 DEF BooksTyped, RecipesTyped, CostsTyped
<1>4. Typing'
  BY <1>1, <1>2, <1>3, LandsTyped
<1>5. Routine'
  BY <1>1, <1>2, SameRecipes, LandsRoutine
<1> QED BY <1>4, <1>5 DEF IInv

\* The first half of an upload preserves the invariant: the second is then the
\* only request in flight.
LEMMA UploadMappingPreserves ==
  ASSUME IInv, NEW w \in pending, UploadMapping(w)
  PROVE  IInv'
<1>1. Typing /\ BooksTyped /\ Routine /\ routine \in BOOLEAN /\ PendingTyped /\ LogTyped
  BY DEF IInv, Typing
<1> PICK x : x = [w EXCEPT !.remaps = FALSE]
  OBVIOUS
<1>2. /\ w.op = "upload"
      /\ mapping' = [mapping EXCEPT ![w.file.item] = w.file.target]
      /\ skus' = skus /\ recipes' = recipes /\ costs' = costs /\ routine' = routine
      /\ Audited
      /\ pending' = (pending \ {w}) \cup (IF w.prices THEN {x} ELSE {})
  BY DEF UploadMapping
<1>3. w \in [op : {"upload"}, file : File, remaps : BOOLEAN, prices : BOOLEAN]
  BY <1>1, <1>2 DEF PendingTyped, Decided
<1>4. /\ x \in [op : {"upload"}, file : File, remaps : BOOLEAN, prices : BOOLEAN]
      /\ x.op = "upload" /\ x.file = w.file
  BY <1>3
<1>5. w.file.target \in Sku
  BY <1>3, RecipeGraphAssumption
<1>6. BooksTyped'
  <2>1. mapping' \in [Item -> Sku \cup {None}]
    BY <1>1, <1>2, <1>5 DEF BooksTyped
  <2> QED BY <1>1, <1>2, <2>1 DEF BooksTyped, RecipesTyped, CostsTyped
<1>7. LogTyped'
  BY <1>1, <1>2, <1>6, Audits
<1>8. PendingTyped'
  <2>1. Decided(x)
    BY <1>4 DEF Decided
  <2>2. /\ IsFiniteSet(pending \ {w}) /\ Cardinality(pending \ {w}) = Cardinality(pending) - 1
    BY <1>1, FS_RemoveElement DEF PendingTyped
  <2>3. /\ IsFiniteSet(pending') /\ Cardinality(pending') <= Cardinality(pending)
        /\ Cardinality(pending') \in Nat
    <3>1. Cardinality(pending) \in Nat /\ Cardinality(pending \ {w}) \in Nat
      BY <1>1, <2>2, FS_CardinalityType DEF PendingTyped
    <3>2. CASE ~w.prices
      <4>1. pending' = pending \ {w}
        BY <1>2, <3>2
      <4> QED BY <2>2, <3>1, <4>1
    <3>3. CASE w.prices
      <4>1. pending' = (pending \ {w}) \cup {x}
        BY <1>2, <3>3
      <4>2. /\ IsFiniteSet(pending')
            /\ Cardinality(pending') = Cardinality(pending \ {w})
               \/ Cardinality(pending') = Cardinality(pending \ {w}) + 1
        BY <2>2, <4>1, FS_AddElement
      <4> QED BY <2>2, <3>1, <4>2
    <3> QED BY <3>2, <3>3
  <2>4. Cardinality(pending) \in Nat /\ MaxPending \in Nat
    BY <1>1, FS_CardinalityType, RecipeGraphAssumption DEF PendingTyped
  <2>5. \A y \in pending' : Decided(y)
    <3>1. \A y \in pending' : y \in pending \/ y = x
      BY <1>2
    <3> QED BY <1>1, <2>1, <3>1 DEF PendingTyped
  <2>6. Cardinality(pending') <= MaxPending
    BY <1>1, <2>3, <2>4 DEF PendingTyped
  <2> QED BY <2>3, <2>5, <2>6 DEF PendingTyped
<1>9. Typing'
  BY <1>1, <1>2, <1>6, <1>7, <1>8 DEF Typing
<1>10. ASSUME routine
       PROVE  /\ RowsRoutine' /\ Acyclic(Edges)'
              /\ \A y, z \in pending' : y = z
              /\ \A y \in pending' : StillHolds(y)'
  <2>1. RowsRoutine' /\ Acyclic(Edges)'
    BY <1>1, <1>2, <1>10, SameRecipes
  <2>2. pending' \subseteq {x} /\ StillHolds(w)
    BY <1>1, <1>2, <1>10 DEF Routine, RowsRoutine
  <2>3. StillHolds(x)'
    BY <1>2, <1>4, <2>2 DEF StillHolds
  <2> QED BY <2>1, <2>2, <2>3
<1>11. Routine'
  BY <1>2, <1>10 DEF Routine, RowsRoutine
<1> QED BY <1>9, <1>11 DEF IInv

\* The creation of a SKU preserves the invariant.
LEMMA CreateSkuPreserves ==
  ASSUME IInv, NEW w \in pending, CreateSku(w)
  PROVE  IInv'
<1>1. Typing /\ BooksTyped /\ Routine /\ routine \in BOOLEAN /\ PendingTyped
  BY DEF IInv, Typing
<1> DEFINE s == w.form.sku
           ok == ~skus[s]
<1>2. /\ w.op = "create sku"
      /\ skus' = [skus EXCEPT ![s] = TRUE]
      /\ costs' = [costs EXCEPT ![s] = @ \/ (ok /\ w.form.priced)]
      /\ mapping' = [i \in Item |-> IF ok /\ i = w.form.item THEN s ELSE mapping[i]]
      /\ recipes' = recipes /\ Finish(w, ok)
  BY DEF CreateSku
<1>3. s \in Sku /\ w.form.priced \in BOOLEAN
  <2>1. w.form \in NewSku
    BY <1>1, <1>2 DEF PendingTyped, Decided
  <2> QED BY <2>1, RecipeGraphAssumption
<1> HIDE DEF s
<1>4. BooksTyped'
  <2>1. skus' \in [Sku -> BOOLEAN]
    BY <1>1, <1>2 DEF BooksTyped
  <2>2. costs' \in [Sku -> BOOLEAN]
    BY <1>1, <1>2, <1>3 DEF BooksTyped, CostsTyped
  <2>3. mapping' \in [Item -> Sku \cup {None}]
    <3> HIDE DEF ok
    <3> QED BY <1>1, <1>2, <1>3 DEF BooksTyped
  <2> QED BY <1>1, <1>2, <2>1, <2>2, <2>3 DEF BooksTyped, RecipesTyped, CostsTyped
<1> HIDE DEF ok
<1>5. (Audited \/ log' = log) /\ pending' = pending \ {w} /\ routine' = routine
  BY <1>2 DEF Finish
<1>6. Typing'
  BY <1>1, <1>4, <1>5, LandsTyped
<1>7. \A t \in Sku : skus[t] => skus'[t]
  BY <1>1, <1>2 DEF BooksTyped
<1>8. Routine'
  BY <1>1, <1>2, <1>5, <1>7, SameRecipes, LandsRoutine
<1> QED BY <1>6, <1>8 DEF IInv

\* What is served is another SKU.
LEMMA ServedTyped ==
  ASSUME NEW s \in DOMAIN Served
  PROVE  s \in Sku /\ Served[s] \in Sku /\ Served[s] # s
  BY RecipeGraphAssumption DEF Range

\* The row of a serving.
LEMMA ServingTyped ==
  ASSUME NEW s \in Sku
  PROVE  Serving(s) \in FullRow /\ Serving(s).ingredients = {s}
<1>1. 1 \in 0..2 * Cardinality(Sku)
  <2>1. Cardinality(Sku) \in Nat /\ Cardinality(Sku) # 0
    BY FS_CardinalityType, FS_EmptySet, RecipeGraphAssumption
  <2> QED BY <2>1
<1>2. Serving(s) = [ingredients |-> {s}, yield |-> 1, estimated |-> FALSE, prep |-> FALSE]
  BY DEF Serving
<1> QED BY <1>1, <1>2 DEF FullRow, RecipeRow

\* The graph after the recipes changed.
LEMMA GraphFollows ==
  ASSUME RecipesTyped'
  PROVE  /\ Edges' \in Graph
         /\ \A t \in Sku :
              Edges'[t] = IF recipes'[t] = None THEN {} ELSE recipes'[t].ingredients
<1>1. Edges' = [t \in Sku |-> IF recipes'[t] = None THEN {} ELSE recipes'[t].ingredients]
  BY DEF Edges
<1>2. ASSUME NEW t \in Sku
      PROVE  (IF recipes'[t] = None THEN {} ELSE recipes'[t].ingredients) \in SUBSET Sku
  BY DEF RecipesTyped, FullRow, RecipeRow
<1> QED BY <1>1, <1>2 DEF Graph

\* New recipes made only of SKUs without a recipe close no cycle.
LEMMA LeafRecipesKeepAcyclic ==
  ASSUME RecipesTyped, RecipesTyped', Acyclic(Edges), NEW L \in SUBSET Sku,
         \A t \in L : recipes'[t] = None,
         \A t \in Sku : \/ recipes'[t] = recipes[t]
                        \/ recipes'[t] # None /\ recipes'[t].ingredients \subseteq L
  PROVE  Acyclic(Edges)'
<1>1. Edges \in Graph /\ Edges' \in Graph
  BY EdgesTyped, GraphFollows
<1>2. \A t \in L : Edges'[t] = {}
  BY GraphFollows
<1>3. ASSUME NEW t \in Sku PROVE Edges'[t] = Edges[t] \/ Edges'[t] \subseteq L
  <2>1. Edges'[t] = IF recipes'[t] = None THEN {} ELSE recipes'[t].ingredients
    BY GraphFollows
  <2>2. Edges[t] = IF recipes[t] = None THEN {} ELSE recipes[t].ingredients
    BY DEF Edges
  <2> QED BY <2>1, <2>2
<1> QED BY <1>1, <1>2, <1>3, LeafEdgesKeepAcyclic

\* A transaction that rolls back preserves the invariant.
LEMMA NothingLands ==
  ASSUME IInv, NEW w \in pending, UNCHANGED <<books, log>>,
         pending' = pending \ {w},
         routine' = routine
  PROVE  IInv'
<1>1. Typing /\ BooksTyped /\ Routine /\ routine \in BOOLEAN
  BY DEF IInv, Typing
<1>2. BooksTyped'
  BY <1>1 DEF BooksTyped, RecipesTyped, CostsTyped, books
<1>3. Typing'
  BY <1>1, <1>2, LandsTyped
<1>4. recipes' = recipes /\ skus' = skus
  BY DEF books
<1>5. Routine'
  BY <1>1, <1>4, SameRecipes, LandsRoutine
<1> QED BY <1>3, <1>5 DEF IInv

\* A sold-as-is stroke preserves the invariant.
LEMMA SoldAsIsPreserves ==
  ASSUME IInv, NEW w \in pending, SoldAsIs(w)
  PROVE  IInv'
<1>1. Typing /\ BooksTyped /\ Routine /\ routine \in BOOLEAN /\ PendingTyped /\ RecipesTyped
  BY DEF IInv, Typing, BooksTyped
<1> DEFINE s == w.sku
           served == Served[s]
           ok == ~skus[s] /\ ~skus[served]
<1>2. /\ w.op = "sold as is"
      /\ ok => /\ skus' = [skus EXCEPT ![s] = TRUE, ![served] = TRUE]
               /\ costs' = [costs EXCEPT ![s] = TRUE]
               /\ recipes' = [recipes EXCEPT ![served] = Serving(s)]
               /\ mapping' = [mapping EXCEPT ![w.item] = served]
      /\ ~ok => UNCHANGED <<books, log>>
      /\ ok => Audited
      /\ pending' = pending \ {w} /\ routine' = routine
  BY DEF SoldAsIs, Finish
<1>3. s \in Sku /\ served \in Sku /\ served # s
  BY <1>1, <1>2, ServedTyped DEF PendingTyped, Decided
<1>4. CASE ~ok
  BY <1>2, <1>4, NothingLands
<1>5. CASE ok
  <2> HIDE DEF s, served
  <2>1. BooksTyped'
    <3>1. recipes' \in [Sku -> FullRow \cup {None}]
      BY <1>1, <1>2, <1>3, <1>5, ServingTyped DEF RecipesTyped
    <3>2. skus' \in [Sku -> BOOLEAN] /\ mapping' \in [Item -> Sku \cup {None}]
      BY <1>1, <1>2, <1>3, <1>5 DEF BooksTyped
    <3>3. costs' \in [Sku -> BOOLEAN]
      BY <1>1, <1>2, <1>5 DEF BooksTyped, CostsTyped
    <3> QED BY <3>1, <3>2, <3>3 DEF BooksTyped, RecipesTyped, CostsTyped
  <2>2. Typing'
    BY <1>1, <1>2, <1>5, <2>1, LandsTyped
  <2>3. \A t \in Sku : /\ recipes'[t] = IF t = served THEN Serving(s) ELSE recipes[t]
                       /\ skus'[t] <=> t = s \/ t = served \/ skus[t]
    BY <1>1, <1>2, <1>3, <1>5 DEF BooksTyped, RecipesTyped
  <2>4. ASSUME routine PROVE RowsRoutine' /\ Acyclic(Edges)'
    <3>1. RowsRoutine /\ Acyclic(Edges)
      BY <1>1, <2>4 DEF Routine, RowsRoutine
    <3>2. recipes[s] = None
      BY <1>3, <1>5, <3>1 DEF RowsRoutine
    <3>3. RowsRoutine'
      BY <1>3, <2>3, <3>1, ServingTyped DEF RowsRoutine
    <3>4. \A t \in {s} : recipes'[t] = None
      BY <1>3, <2>3, <3>2
    <3>5. \A t \in Sku : \/ recipes'[t] = recipes[t]
                         \/ recipes'[t] # None /\ recipes'[t].ingredients \subseteq {s}
      BY <1>3, <2>3, ServingTyped, NotARow
    <3>6. {s} \in SUBSET Sku
      BY <1>3
    <3>7. Acyclic(Edges)'
      BY <1>1, <2>1, <3>1, <3>4, <3>5, <3>6, LeafRecipesKeepAcyclic
      DEF BooksTyped
    <3> QED BY <3>3, <3>7
  <2>5. Routine'
    BY <1>1, <1>2, <2>4, LandsRoutine
  <2> QED BY <2>2, <2>5 DEF IInv
<1> QED BY <1>4, <1>5

\* The servings script preserves the invariant.
LEMMA AddServingsPreserves ==
  ASSUME IInv, NEW w \in pending, AddServings(w)
  PROVE  IInv'
<1>1. Typing /\ BooksTyped /\ Routine /\ routine \in BOOLEAN /\ PendingTyped /\ RecipesTyped
  BY DEF IInv, Typing, BooksTyped
<1> DEFINE sold == Range(w.plan)
           ok == IsInjective(w.plan) /\ \A s \in sold : ~skus[Served[s]]
           poured(s) == CHOOSE t \in sold : s = Served[t]
<1>2. /\ w.op = "add servings"
      /\ ok =>
           /\ skus' = [s \in Sku |-> skus[s] \/ \E t \in sold : s = Served[t]]
           /\ recipes' = [s \in Sku |-> IF \E t \in sold : s = Served[t]
                                       THEN Serving(poured(s)) ELSE recipes[s]]
           /\ mapping' = [i \in Item |->
                IF i \in DOMAIN w.plan THEN Served[w.plan[i]] ELSE mapping[i]]
           /\ costs' = costs
      /\ ~ok => UNCHANGED <<books, log>>
      /\ ok => Audited
      /\ pending' = pending \ {w} /\ routine' = routine
  BY DEF AddServings, Finish
<1>3. DOMAIN w.plan \subseteq Item /\ w.plan \in [DOMAIN w.plan -> DOMAIN Served]
  BY <1>1, <1>2 DEF PendingTyped, Decided
<1>4. sold \subseteq DOMAIN Served /\ sold \subseteq Sku
  BY <1>3, ServedTyped DEF Range
<1>5. CASE ~ok
  <2> HIDE DEF ok
  <2> QED BY <1>2, <1>5, NothingLands
<1>6. CASE ok
  <2>a. \A s \in sold : ~skus[Served[s]]
    BY <1>6
  <2>b. /\ skus' = [s \in Sku |-> skus[s] \/ \E t \in sold : s = Served[t]]
        /\ recipes' = [s \in Sku |-> IF \E t \in sold : s = Served[t]
                                    THEN Serving(poured(s)) ELSE recipes[s]]
        /\ mapping' = [i \in Item |->
             IF i \in DOMAIN w.plan THEN Served[w.plan[i]] ELSE mapping[i]]
        /\ costs' = costs
    BY <1>2, <1>6
  <2>c. \A t \in sold : \E i \in DOMAIN w.plan : t = w.plan[i]
    BY DEF Range
  <2> HIDE DEF ok, sold
  <2>1. \A s \in Sku : (\E t \in sold : s = Served[t]) => poured(s) \in sold
    OBVIOUS
  <2> HIDE DEF poured
  <2>2. \A s \in Sku :
          /\ skus'[s] <=> skus[s] \/ \E t \in sold : s = Served[t]
          /\ (\E t \in sold : s = Served[t]) => recipes'[s] = Serving(poured(s))
          /\ ~(\E t \in sold : s = Served[t]) => recipes'[s] = recipes[s]
    BY <2>b
  <2>3. BooksTyped'
    <3>1. recipes' \in [Sku -> FullRow \cup {None}]
      <4>1. \A s \in Sku : (\E t \in sold : s = Served[t]) => Serving(poured(s)) \in FullRow
        BY <1>4, <2>1, ServingTyped
      <4> QED BY <1>1, <2>b, <4>1 DEF RecipesTyped
    <3>2. skus' \in [Sku -> BOOLEAN]
      BY <1>1, <2>b DEF BooksTyped
    <3>3. mapping' \in [Item -> Sku \cup {None}]
      <4>1. \A i \in DOMAIN w.plan : Served[w.plan[i]] \in Sku
        BY <1>3, ServedTyped
      <4> QED BY <1>1, <2>b, <4>1 DEF BooksTyped
    <3> QED BY <1>1, <2>b, <3>1, <3>2, <3>3 DEF BooksTyped, RecipesTyped, CostsTyped
  <2>4. Typing'
    BY <1>1, <1>2, <1>6, <2>3, LandsTyped
  <2>5. ASSUME routine PROVE RowsRoutine' /\ Acyclic(Edges)'
    <3>1. RowsRoutine /\ Acyclic(Edges) /\ StillHolds(w)
      BY <1>1, <2>5 DEF Routine, RowsRoutine
    <3>2. \A t \in sold : skus[t] /\ recipes[t] = None
      <4>1. w.op = "add servings" =>
              \A i \in DOMAIN w.plan : skus[w.plan[i]] /\ recipes[w.plan[i]] = None
        BY <3>1 DEF StillHolds
      <4>2. \A i \in DOMAIN w.plan : skus[w.plan[i]] /\ recipes[w.plan[i]] = None
        BY <1>2, <4>1
      <4>3. ASSUME NEW t \in sold PROVE skus[t] /\ recipes[t] = None
        <5>1. PICK i \in DOMAIN w.plan : t = w.plan[i]
          BY <2>c
        <5> QED BY <4>2, <5>1
      <4> QED BY <4>3
    <3>3. RowsRoutine'
      <4>1. ASSUME NEW s \in Sku, recipes'[s] # None
            PROVE  skus'[s]
        <5>1. CASE \E t \in sold : s = Served[t]
          BY <1>4, <2>1, <2>2, <5>1, ServingTyped
        <5>2. CASE ~ \E t \in sold : s = Served[t]
          BY <2>2, <3>1, <4>1, <5>2 DEF RowsRoutine
        <5> QED BY <5>1, <5>2
      <4> QED BY <4>1 DEF RowsRoutine
    <3>4. \A t \in sold : recipes'[t] = None
      <4>1. \A t, u \in sold : t # Served[u]
        BY <2>a, <3>2
      <4> QED BY <1>4, <2>2, <3>2, <4>1
    <3>5. ASSUME NEW s \in Sku
          PROVE  \/ recipes'[s] = recipes[s]
                 \/ recipes'[s] # None /\ recipes'[s].ingredients \subseteq sold
      <4>1. CASE \E t \in sold : s = Served[t]
        <5>1. poured(s) \in sold /\ poured(s) \in Sku /\ recipes'[s] = Serving(poured(s))
          BY <1>4, <2>1, <2>2, <4>1
        <5> QED BY <5>1, ServingTyped, NotARow
      <4>2. CASE ~ \E t \in sold : s = Served[t]
        BY <2>2, <4>2
      <4> QED BY <4>1, <4>2
    <3>6. RecipesTyped'
      BY <2>3 DEF BooksTyped
    <3>7. Acyclic(Edges)'
      BY <1>1, <1>4, <3>1, <3>4, <3>5, <3>6, LeafRecipesKeepAcyclic
    <3> QED BY <3>3, <3>7
  <2>6. Routine'
    BY <1>1, <1>2, <2>5, LandsRoutine
  <2> QED BY <2>4, <2>6 DEF IInv
<1> QED BY <1>5, <1>6

\* An imported workbook preserves the invariant: nothing is routine after it.
LEMMA ApplyWorkbookPreserves ==
  ASSUME IInv, NEW w \in pending, ApplyWorkbook(w)
  PROVE  IInv'
<1>1. Typing /\ BooksTyped /\ RecipesTyped /\ CostsTyped /\ Decided(w)
  BY DEF IInv, Typing, BooksTyped, PendingTyped
<1> DEFINE new == w.priced \cup w.bare \cup DOMAIN w.rows
           ok == \A s \in new : ~skus[s]
<1>2. /\ w.op = "import"
      /\ ok => /\ skus' = [s \in Sku |-> skus[s] \/ s \in new]
               /\ costs' = [s \in Sku |-> costs[s] \/ s \in w.priced]
               /\ recipes' = [s \in Sku |->
                    IF s \in DOMAIN w.rows THEN w.rows[s] ELSE recipes[s]]
               /\ mapping' = mapping
               /\ Audited
      /\ ~ok => UNCHANGED books /\ log' = log
      /\ pending' = pending \ {w} /\ ~routine'  /\ routine' \in BOOLEAN
  BY DEF ApplyWorkbook
<1> HIDE DEF ok, new
<1>3. BooksTyped'
  <2>1. CASE ok
    <3>1. skus' \in [Sku -> BOOLEAN]
      BY <1>1, <1>2, <2>1 DEF BooksTyped
    <3>2. CostsTyped'
      BY <1>1, <1>2, <2>1 DEF CostsTyped
    <3>3. DOMAIN w.rows \subseteq Sku /\ w.rows \in [DOMAIN w.rows -> FullRow]
      BY <1>1, <1>2 DEF Decided
    <3>4. RecipesTyped'
      BY <1>1, <1>2, <2>1, <3>3 DEF RecipesTyped
    <3> QED BY <1>1, <1>2, <2>1, <3>1, <3>2, <3>4 DEF BooksTyped
  <2>2. CASE ~ok
    BY <1>1, <1>2, <2>2 DEF BooksTyped, RecipesTyped, CostsTyped, books
  <2> QED BY <2>1, <2>2
<1>4. Typing'
  BY <1>1, <1>2, <1>3, LandsTyped
<1>5. Routine'
  BY <1>2 DEF Routine, RowsRoutine
<1> QED BY <1>4, <1>5 DEF IInv

\* An undone recipe is a row or none.
LEMMA RevertedTyped ==
  ASSUME NEW old \in FullRow \cup {None}, NEW new \in FullRow \cup {None},
         NEW current \in FullRow \cup {None}
  PROVE  RevertedRecipe(old, new, current) \in FullRow \cup {None}
<1>1. CASE old = None \/ new = None \/ current = None
  BY <1>1 DEF RevertedRecipe
<1>2. CASE old # None /\ new # None /\ current # None
  <2> DEFINE row == [c \in DOMAIN current |-> IF old[c] # new[c] THEN old[c] ELSE current[c]]
  <2>1. RevertedRecipe(old, new, current) = row
    BY <1>2 DEF RevertedRecipe
  <2>2. old \in FullRow /\ current \in FullRow /\ old \in RecipeRow /\ current \in RecipeRow
    BY <1>2 DEF FullRow
  <2>3. DOMAIN current = {"ingredients", "yield", "estimated", "prep"}
    BY <2>2 DEF RecipeRow
  <2>4. row = [ingredients |-> row.ingredients, yield |-> row.yield,
               estimated |-> row.estimated, prep |-> row.prep]
    BY <2>3
  <2>5. \A c \in {"ingredients", "yield", "estimated", "prep"} : row[c] \in {old[c], current[c]}
    BY <2>3
  <2>6. /\ row.ingredients \in {old.ingredients, current.ingredients}
        /\ row.yield \in {old.yield, current.yield}
        /\ row.estimated \in {old.estimated, current.estimated}
        /\ row.prep \in {old.prep, current.prep}
    BY <2>5
  <2> HIDE DEF row
  <2>7. row \in FullRow
    BY <2>2, <2>4, <2>6 DEF FullRow, RecipeRow
  <2> QED BY <2>1, <2>7
<1> QED BY <1>1, <1>2

\* An undo preserves the invariant.
LEMMA RevertEntryPreserves ==
  ASSUME IInv, RevertEntry
  PROVE  IInv'
<1>1. Typing /\ BooksTyped /\ RecipesTyped /\ CostsTyped /\ LogTyped
  BY DEF IInv, Typing, BooksTyped
<1>2. Audited /\ pending' = pending /\ ~routine' /\ routine' \in BOOLEAN
  BY DEF RevertEntry
<1>3. ASSUME NEW t \in log
      PROVE  /\ \A e \in t.skus : e.pk \in Sku /\ e.old \in BOOLEAN
             /\ \A e \in t.recipes :
                  /\ e.pk \in Sku
                  /\ e.old \in FullRow \cup {None} /\ e.new \in FullRow \cup {None}
             /\ \A e \in t.costs : e.pk \in Sku /\ e.old \in BOOLEAN
             /\ \A e \in t.mapping : e.pk \in Item /\ e.old \in Sku \cup {None}
  <2>1. t \in [skus : SUBSET Change(Sku, BOOLEAN),
               recipes : SUBSET Change(Sku, FullRow \cup {None}),
               costs : SUBSET Change(Sku, BOOLEAN),
               mapping : SUBSET Change(Item, Sku \cup {None})]
    BY <1>1 DEF LogTyped
  <2>2. /\ t.skus \subseteq Change(Sku, BOOLEAN) /\ t.costs \subseteq Change(Sku, BOOLEAN)
        /\ t.recipes \subseteq Change(Sku, FullRow \cup {None})
        /\ t.mapping \subseteq Change(Item, Sku \cup {None})
    BY <2>1
  <2> QED BY <2>2 DEF Change
<1>4. BooksTyped'
  <2>1. CASE \E t \in log : \E e \in t.skus :
               /\ skus' = [skus EXCEPT ![e.pk] = e.old]
               /\ UNCHANGED <<recipes, costs, mapping>>
    BY <1>1, <1>3, <2>1 DEF BooksTyped, RecipesTyped, CostsTyped
  <2>2. CASE \E t \in log : \E e \in t.recipes :
               /\ recipes' = [recipes EXCEPT ![e.pk] = RevertedRecipe(e.old, e.new, @)]
               /\ UNCHANGED <<skus, costs, mapping>>
    <3>a. PICK t \in log : \E e \in t.recipes :
               /\ recipes' = [recipes EXCEPT ![e.pk] = RevertedRecipe(e.old, e.new, @)]
               /\ UNCHANGED <<skus, costs, mapping>>
      BY <2>2
    <3>1. PICK e \in t.recipes :
               /\ recipes' =
                    [recipes EXCEPT ![e.pk] = RevertedRecipe(e.old, e.new, recipes[e.pk])]
               /\ UNCHANGED <<skus, costs, mapping>>
      BY <3>a
    <3>2. /\ e.pk \in Sku /\ e.old \in FullRow \cup {None} /\ e.new \in FullRow \cup {None}
          /\ recipes[e.pk] \in FullRow \cup {None}
      BY <1>1, <1>3 DEF RecipesTyped
    <3>3. RevertedRecipe(e.old, e.new, recipes[e.pk]) \in FullRow \cup {None}
      BY <3>2, RevertedTyped
    <3>4. RecipesTyped'
      BY <1>1, <3>1, <3>2, <3>3 DEF RecipesTyped
    <3> QED BY <1>1, <3>1, <3>4 DEF BooksTyped, CostsTyped
  <2>3. CASE \E t \in log : \E e \in t.costs :
               /\ costs' = [costs EXCEPT ![e.pk] = e.old]
               /\ UNCHANGED <<skus, recipes, mapping>>
    BY <1>1, <1>3, <2>3 DEF BooksTyped, RecipesTyped, CostsTyped
  <2>4. CASE \E t \in log : \E e \in t.mapping :
               /\ mapping' = [mapping EXCEPT ![e.pk] = e.old]
               /\ UNCHANGED <<skus, recipes, costs>>
    BY <1>1, <1>3, <2>4 DEF BooksTyped, RecipesTyped, CostsTyped
  <2> QED BY <2>1, <2>2, <2>3, <2>4 DEF RevertEntry
<1>5. Typing'
  BY <1>1, <1>2, <1>4, LandsTyped
<1>6. Routine'
  BY <1>2 DEF Routine, RowsRoutine
<1> QED BY <1>5, <1>6 DEF IInv

\* The row of a recipe whose yield is backfilled.
LEMMA FilledRow ==
  ASSUME NEW row \in RecipeRow, NEW y
  PROVE  [row EXCEPT !.yield = y, !.estimated = TRUE] =
           [ingredients |-> row.ingredients, yield |-> y, estimated |-> TRUE, prep |-> row.prep]
<1> DEFINE filled == [row EXCEPT !.yield = y, !.estimated = TRUE]
           fields == {"ingredients", "yield", "estimated", "prep"}
<1>1. DOMAIN row = fields
  BY DEF RecipeRow
<1>2. DOMAIN filled = fields
  BY <1>1
<1>3. /\ filled.ingredients = row.ingredients /\ filled.prep = row.prep
      /\ filled.yield = y /\ filled.estimated = TRUE
  BY <1>1
<1>4. filled = [c \in fields |-> filled[c]]
  BY <1>2
<1> HIDE DEF filled
<1>5. filled = [ingredients |-> row.ingredients, yield |-> y,
                estimated |-> TRUE, prep |-> row.prep]
  BY <1>3, <1>4
<1> QED BY <1>5 DEF filled

\* A start preserves the invariant: the backfill changes no edge, and its yields
\* are more than nothing.
LEMMA StartPreserves ==
  ASSUME IInv, Start
  PROVE  IInv'
<1>1. /\ Typing /\ BooksTyped /\ RecipesTyped /\ CostsTyped /\ LogTyped /\ PendingTyped
      /\ Routine /\ routine \in BOOLEAN
  BY DEF IInv, Typing, BooksTyped
<1> DEFINE estimate(s) == EstimatedYield(recipes[s].ingredients)
           filled(s) == [recipes[s] EXCEPT !.yield = estimate(s), !.estimated = TRUE]
<1>2. /\ \A s \in Sku : recipes'[s] = IF BackfilledYield(s) THEN filled(s) ELSE recipes[s]
      /\ recipes' = [s \in Sku |-> recipes'[s]]
      /\ pending' \subseteq pending
      /\ UNCHANGED <<skus, costs, mapping, log, routine>>
  <2>1. recipes' = [s \in Sku |-> IF BackfilledYield(s) THEN filled(s) ELSE recipes[s]]
    <3> HIDE DEF BackfilledYield, EstimatedYield
    <3> QED BY DEF Start, filled, estimate
  <2>2. /\ pending' \subseteq pending
        /\ UNCHANGED <<skus, costs, mapping, log, routine>>
    BY DEF Start
  <2> HIDE DEF filled
  <2> QED BY <2>1, <2>2
<1>3. ASSUME NEW s \in Sku, BackfilledYield(s)
      PROVE  /\ recipes[s] # None /\ filled(s) \in FullRow
             /\ filled(s).ingredients = recipes[s].ingredients
  <2>1. recipes[s] # None /\ estimate(s) > 0
    BY <1>3 DEF BackfilledYield
  <2>2. /\ recipes[s] \in RecipeRow
        /\ recipes[s].ingredients \in SUBSET Sku /\ recipes[s].ingredients # {}
    BY <1>1, <2>1, IngredientsTyped
  <2>3. estimate(s) \in 0..2 * Cardinality(Sku)
    BY <2>2, EstimateTyped
  <2> HIDE DEF estimate
  <2>4. filled(s) = [ingredients |-> recipes[s].ingredients, yield |-> estimate(s),
                     estimated |-> TRUE, prep |-> recipes[s].prep]
    BY <2>2, FilledRow
  <2>5. recipes[s].prep \in BOOLEAN
    BY <2>2 DEF RecipeRow
  <2> HIDE DEF filled
  <2>6. filled(s).ingredients = recipes[s].ingredients /\ filled(s).yield = estimate(s)
    BY <2>4
  <2>7. filled(s) \in FullRow
    BY <2>2, <2>3, <2>4, <2>5 DEF FullRow, RecipeRow
  <2> QED BY <2>1, <2>6, <2>7
<1> HIDE DEF filled, estimate
<1>4. \A s \in Sku :
        /\ recipes'[s] = None <=> recipes[s] = None
        /\ recipes[s] # None => recipes'[s].ingredients = recipes[s].ingredients
  BY <1>2, <1>3, NotARow
<1>5. Edges' = Edges
  BY <1>4 DEF Edges
<1>6. BooksTyped'
  <2>1. RecipesTyped'
    BY <1>1, <1>2, <1>3 DEF RecipesTyped
  <2> QED BY <1>1, <1>2, <2>1 DEF BooksTyped, CostsTyped
<1>7. Typing'
  BY <1>1, <1>2, <1>6, LandsTyped
<1>8. ASSUME routine
      PROVE  RowsRoutine' /\ Acyclic(Edges)' /\ \A w \in pending' : StillHolds(w)'
  <2>1. /\ RowsRoutine /\ Acyclic(Edges) /\ \A w \in pending : StillHolds(w)
    BY <1>1, <1>8 DEF Routine, RowsRoutine
  <2>2. RowsRoutine'
    <3>1. ASSUME NEW s \in Sku, recipes'[s] # None
          PROVE  skus'[s]
      BY <1>2, <1>3, <1>4, <2>1, <3>1 DEF RowsRoutine
    <3> QED BY <3>1 DEF RowsRoutine
  <2>3. Acyclic(Edges)'
    BY <1>5, <2>1 DEF Acyclic
  <2>4. ASSUME NEW w \in pending' PROVE StillHolds(w)'
    <3>1. w \in pending /\ StillHolds(w) /\ Decided(w)
      BY <1>1, <1>2, <2>1 DEF PendingTyped
    <3>2. /\ w.op = "save cost" => w.sku \in Sku
          /\ w.op = "upload" => w.file.priced \in Sku
          /\ w.op = "add servings" => \A i \in DOMAIN w.plan : w.plan[i] \in Sku
      <4>1. /\ w.op = "save cost" => w.sku \in Sku
            /\ w.op = "upload" => w.file \in File
            /\ w.op = "add servings" => w.plan \in [DOMAIN w.plan -> DOMAIN Served]
        BY <3>1 DEF Decided
      <4>2. DOMAIN Served \subseteq Sku /\ \A file \in File : file.priced \in Sku
        BY RecipeGraphAssumption
      <4> QED BY <4>1, <4>2
    <3> QED BY <1>2, <1>4, <1>5, <3>1, <3>2 DEF StillHolds
  <2> QED BY <2>2, <2>3, <2>4
<1>9. Routine'
  BY <1>1, <1>2, <1>8 DEF Routine, RowsRoutine
<1> QED BY <1>7, <1>9 DEF IInv

\* A step that changes nothing preserves the invariant.
LEMMA StutterPreserves ==
  ASSUME IInv, UNCHANGED vars
  PROVE  IInv'
<1>1. /\ UNCHANGED <<skus, recipes, costs, mapping, log, pending, routine>>
      /\ Typing /\ BooksTyped /\ Routine /\ routine \in BOOLEAN
  BY DEF vars, IInv, Typing
<1>2. BooksTyped'
  BY <1>1 DEF BooksTyped, RecipesTyped, CostsTyped
<1>3. Typing'
  BY <1>1, <1>2, LandsTyped
<1>4. ASSUME NEW w \in pending', StillHolds(w) PROVE StillHolds(w)'
  BY <1>1, <1>4, StillHoldsWhileSame
<1>5. Edges' = Edges
  BY <1>1, EdgesFollow
<1>6. Routine'
  BY <1>1, <1>4, <1>5 DEF Routine, RowsRoutine, Acyclic
<1> QED BY <1>3, <1>6 DEF IInv

\* Every step preserves the invariant.
LEMMA NextPreserves == IInv /\ [Next]_vars => IInv'
<1> SUFFICES ASSUME IInv, [Next]_vars PROVE IInv'
  OBVIOUS
<1>1. CASE Look
  BY <1>1, LookPreserves
<1>2. ASSUME NEW w \in pending, Write(w) PROVE IInv'
  <2>1. CASE SaveRecipe(w)
    BY <2>1, SaveRecipePreserves
  <2>2. CASE SaveCost(w) \/ UploadCost(w)
    BY <2>2, PricesPreserve
  <2>3. CASE UploadMapping(w)
    BY <2>3, UploadMappingPreserves
  <2>4. CASE CreateSku(w)
    BY <2>4, CreateSkuPreserves
  <2>5. CASE SoldAsIs(w)
    BY <2>5, SoldAsIsPreserves
  <2>6. CASE AddServings(w)
    BY <2>6, AddServingsPreserves
  <2>7. CASE ApplyWorkbook(w)
    BY <2>7, ApplyWorkbookPreserves
  <2> QED BY <1>2, <2>1, <2>2, <2>3, <2>4, <2>5, <2>6, <2>7 DEF Write
<1>3. ASSUME NEW s \in Sku, DeleteRecipe(s) PROVE IInv'
  BY <1>3, DeleteRecipePreserves
<1>4. CASE RevertEntry
  BY <1>4, RevertEntryPreserves
<1>5. CASE Start
  BY <1>5, StartPreserves
<1>6. CASE UNCHANGED vars
  BY <1>6, StutterPreserves
<1> QED BY <1>1, <1>2, <1>3, <1>4, <1>5, <1>6 DEF Next

\* The invariant holds in every reachable state.
LEMMA Invariance == Spec => []IInv
BY InitEstablishes, NextPreserves, PTL DEF Spec

\* The books, the audit trail and the requests in flight are of their types: no
\* transaction without a change is in the trail, no recipe is empty.
THEOREM TypeCorrect == Spec => []TypeOK
<1>1. IInv => TypeOK
  <2> SUFFICES ASSUME IInv PROVE TypeOK
    OBVIOUS
  <2>1. Typing /\ BooksTyped /\ RecipesTyped
    BY DEF IInv, Typing, BooksTyped
  <2>2. /\ recipes \in [Sku -> RecipeRow \cup {None}]
        /\ \A s \in Sku : recipes[s] # None => recipes[s].ingredients # {}
    BY <2>1 DEF RecipesTyped, FullRow
  <2> QED BY <2>1, <2>2 DEF TypeOK, Typing, BooksTyped, CostsTyped, LogTyped, PendingTyped
<1> QED BY <1>1, Invariance, PTL

\* In every reachable state, whatever undos, races and imports have made of the
\* graph, the cycle check of a save is exact.
THEOREM CycleChecksAreExact == Spec => []CycleCheckExact
<1>1. IInv => CycleCheckExact
  BY CycleCheckIsExact DEF IInv, Typing, BooksTyped
<1> QED BY <1>1, Invariance, PTL

\* In every reachable state the resolver prices exactly what can be costed from
\* the leaves up.
THEOREM CostsAgree == Spec => []CostingAgrees
<1>1. IInv => CostingAgrees
  BY CostingIsExact DEF IInv, Typing, BooksTyped
<1> QED BY <1>1, Invariance, PTL

\* In every reachable state a SKU without a cost has an unpriced leaf to show, or
\* a cycle or a yield of nothing below it.
THEOREM GapsAreExplained == Spec => []UnpricedExplained
<1>1. IInv => UnpricedExplained
  BY UnpricedIsExplained DEF IInv, Typing, BooksTyped
<1> QED BY <1>1, Invariance, PTL

\* No series of requests, one at a time, closes a cycle of recipes.
THEOREM RoutineClosesNoCycle == Spec => []RoutineRecipesAcyclic
<1>1. IInv => RoutineRecipesAcyclic
  BY DEF IInv, Routine, RowsRoutine, Acyclic, RoutineRecipesAcyclic, OnCycle
<1> QED BY <1>1, Invariance, PTL

\* A price lands by one of four writes, on a SKU that has no recipe.
LEMMA PricesLand ==
  IInv /\ [Next]_vars =>
    [routine' => \A s \in Sku : ~costs[s] /\ costs'[s] => recipes[s] = None]_vars
<1> SUFFICES ASSUME IInv, Next, routine', NEW s \in Sku, ~costs[s], costs'[s]
             PROVE  recipes[s] = None
  BY DEF vars
<1>1. /\ BooksTyped /\ Routine /\ PendingTyped /\ \A w \in pending : Decided(w)
  BY DEF IInv, Typing, PendingTyped
<1>2. costs' # costs
  OBVIOUS
<1>3. PICK w \in pending : SaveCost(w) \/ UploadCost(w) \/ CreateSku(w) \/ SoldAsIs(w)
  <2>1. ~Look
    BY <1>2
    DEF Look, CheckSaveRecipe, CheckSaveCost, ParseUpload, CheckCreateSku,
                CheckSoldAsIs, PlanServings, ValidateWorkbook, Decide, books
  <2>2. \A w \in pending :
          ~SaveRecipe(w) /\ ~UploadMapping(w) /\ ~AddServings(w) /\ ~ApplyWorkbook(w)
    BY <1>2 DEF SaveRecipe, UploadMapping, AddServings, ApplyWorkbook, books
  <2>3. ~(\E t \in Sku : DeleteRecipe(t)) /\ ~RevertEntry /\ ~Start
    BY <1>2 DEF DeleteRecipe, RevertEntry, Start
  <2> QED BY <2>1, <2>2, <2>3 DEF Next, Write
<1>4. routine
  BY <1>3 DEF SaveCost, UploadCost, CreateSku, SoldAsIs, Finish
<1>5. RowsRoutine /\ StillHolds(w)
  BY <1>1, <1>4 DEF Routine, RowsRoutine
<1>6. CASE SaveCost(w)
  BY <1>5, <1>6, <1>1 DEF SaveCost, StillHolds, BooksTyped, CostsTyped
<1>7. CASE UploadCost(w)
  BY <1>5, <1>7, <1>1 DEF UploadCost, StillHolds, BooksTyped, CostsTyped
<1>8. CASE CreateSku(w)
  BY <1>5, <1>8, <1>1 DEF CreateSku, RowsRoutine, BooksTyped, CostsTyped
<1>9. CASE SoldAsIs(w)
  BY <1>5, <1>9, <1>1 DEF SoldAsIs, RowsRoutine, BooksTyped, CostsTyped, books
<1> QED BY <1>3, <1>6, <1>7, <1>8, <1>9

\* No request on its own gives a price to a SKU that has a recipe.
THEOREM PricesMissRecipes == Spec => PricesLandOnPurchasables
<1>1. IInv /\ [Next]_vars =>
        [routine' => \A s \in Sku : ~costs[s] /\ costs'[s] => recipes[s] = None]_vars
  BY PricesLand
<1> QED BY <1>1, Invariance, PTL DEF Spec, PricesLandOnPurchasables

\* What is made of one priced purchasable is costed.
PouredIsCostable ==
  \A s, t \in Sku :
    /\ recipes[t] # None /\ recipes[t].yield > 0 /\ recipes[t].ingredients = {s}
    /\ recipes[s] = None /\ costs[s]
    => Priceable(t)

\* The resolver costs it.
LEMMA Poured == IInv => PouredIsCostable
<1> SUFFICES ASSUME IInv, NEW s \in Sku, NEW t \in Sku,
                    recipes[t] # None, recipes[t].yield > 0, recipes[t].ingredients = {s},
                    recipes[s] = None, costs[s]
             PROVE  Priceable(t)
  BY DEF PouredIsCostable
<1>1. {u \in Sku : Priceable(u)} = Costable
  BY CostingIsExact DEF IInv, Typing, BooksTyped, CostingAgrees
<1>2. s \in Leaf
  BY DEF Leaf
<1>3. t \in Made(Costable)
  BY <1>2, CostableIsLeast DEF CostClosed, Made
<1>4. t \in Costable
  BY <1>3, CostableIsLeast DEF CostClosed
<1> QED BY <1>1, <1>4

\* A sold-as-is stroke leaves its item mapped to such a serving.
LEMMA Serves ==
  IInv /\ PouredIsCostable' /\ [Next]_vars =>
    [routine' => \A w \in pending : SoldAsIs(w) => Priceable(mapping[w.item])']_vars
<1> SUFFICES ASSUME IInv, PouredIsCostable', Next, routine', NEW w \in pending,
                    SoldAsIs(w)
             PROVE  Priceable(mapping[w.item])'
  OBVIOUS
<1>1. /\ BooksTyped /\ RecipesTyped /\ Routine /\ Decided(w)
  BY DEF IInv, Typing, PendingTyped, BooksTyped
<1> DEFINE s == w.sku
           served == Served[s]
<1>2. routine /\ w.op = "sold as is"
  BY DEF SoldAsIs, Finish
<1>3. RowsRoutine /\ ~skus[s] /\ ~skus[served]
  BY <1>1, <1>2 DEF Routine, RowsRoutine, StillHolds
<1>4. /\ costs' = [costs EXCEPT ![s] = TRUE]
      /\ recipes' = [recipes EXCEPT ![served] = Serving(s)]
      /\ mapping' = [mapping EXCEPT ![w.item] = served]
  BY <1>3 DEF SoldAsIs
<1>5. s \in Sku /\ served \in Sku /\ served # s /\ w.item \in Item
  BY <1>1, <1>2, ServedTyped DEF Decided
<1> HIDE DEF s, served
<1>6. recipes[s] = None
  BY <1>3, <1>5 DEF RowsRoutine
<1>7. mapping'[w.item] = served /\ costs'[s]
  BY <1>1, <1>4, <1>5 DEF BooksTyped, CostsTyped
<1>8. recipes'[served] = Serving(s) /\ recipes'[s] = None
  BY <1>1, <1>4, <1>5, <1>6 DEF RecipesTyped
<1>9. Serving(s) # None /\ Serving(s).ingredients = {s} /\ Serving(s).yield > 0
  BY <1>5, ServingTyped, NotARow DEF Serving
<1>10. Priceable(served)'
  BY <1>5, <1>7, <1>8, <1>9 DEF PouredIsCostable
<1> QED BY <1>7, <1>10

\* A sold-as-is stroke leaves an item that can be costed at once.
THEOREM ServingsCost == Spec => ServingsAreCostable
<1>1. IInv /\ PouredIsCostable' /\ [Next]_vars =>
        [routine' => \A w \in pending : SoldAsIs(w) => Priceable(mapping[w.item])']_vars
  BY Serves
<1> QED BY <1>1, Poured, Invariance, PTL DEF Spec, ServingsAreCostable

\* A measured yield above 1 survives every start.
THEOREM WeighedYieldsStay == Spec => WeighedYieldsSurviveStart
<1>1. [Next]_vars =>
        [Start => \A s \in Sku :
           recipes[s] # None /\ ~recipes[s].estimated /\ recipes[s].yield > 1 =>
             recipes'[s] = recipes[s]]_vars
  <2> SUFFICES ASSUME Start, NEW s \in Sku, recipes[s].yield > 1
               PROVE  recipes'[s] = recipes[s]
    OBVIOUS
  <2>1. recipes[s].yield # 1
    OBVIOUS
  <2>2. ~BackfilledYield(s)
    BY <2>1 DEF BackfilledYield
  <2> HIDE DEF BackfilledYield, EstimatedYield
  <2> QED BY <2>2 DEF Start
<1> QED BY <1>1, PTL DEF Spec, WeighedYieldsSurviveStart
=============================================================================
