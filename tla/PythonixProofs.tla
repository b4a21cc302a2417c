----------------------------- MODULE PythonixProofs -----------------------------
(***************************************************************************)
(* What holds of the interpreter for all names and hashes, all widths of   *)
(* integers and every memory that is large enough: the map of names is a   *)
(* search tree, names and reference counts agree, the collector frees      *)
(* exactly what no name leads to, and lines change variables the way PyEnv *)
(* says.                                                                   *)
(***************************************************************************)
EXTENDS Pythonix, NatRecursion, FiniteSetTheorems, TLAPS

\* Children come after their parents.
Children(N, L, R) ==
  /\ L \in [1 .. N -> 0 .. N] /\ R \in [1 .. N -> 0 .. N]
  /\ \A i \in 1 .. N : (L[i] = 0 \/ L[i] > i) /\ (R[i] = 0 \/ R[i] > i)

\* Induction from the leaves of a tree upwards.
LEMMA TreeInduction ==
  ASSUME NEW N \in Nat, NEW L, NEW R, Children(N, L, R), NEW S, 0 \in S,
         \A i \in 1 .. N : L[i] \in S /\ R[i] \in S => i \in S
  PROVE  0 .. N \subseteq S
<1> DEFINE T == {n \in 0 .. N : \A i \in 1 .. N : i > N - n => i \in S}
<1>1. 0 \in T
  OBVIOUS
<1>2. ASSUME NEW n \in 0 .. N - 1, n \in T PROVE n + 1 \in T
  <2>1. n + 1 \in 0 .. N /\ N - n \in 1 .. N
    OBVIOUS
  <2>2. ASSUME NEW i \in 1 .. N, i > N - (n + 1) PROVE i \in S
    <3>1. CASE i > N - n
      BY <1>2, <3>1
    <3>2. CASE i = N - n
      <4>1. \A c \in 0 .. N : c = 0 \/ c > i => c \in S
        BY <1>2, <3>2
      <4>2. L[i] \in S /\ R[i] \in S
        BY <4>1 DEF Children
      <4> QED
        BY <4>2
    <3> QED
      BY <2>2, <3>1, <3>2
  <2> QED
    BY <2>1, <2>2
<1> HIDE DEF T
<1>3. 0 .. N \subseteq T
  BY <1>1, <1>2, BoundedInduction
<1>4. \A i \in 1 .. N : i \in S
  <2>1. N \in T
    BY <1>3
  <2>2. \A i \in 1 .. N : i > N - N
    OBVIOUS
  <2> QED
    BY <2>1, <2>2 DEF T
<1> QED
  BY <1>4

\* f[i] is found from what was found for the children of i.
FoundUpwards(f, N, L, R, S, base, step) ==
  /\ f \in [0 .. N -> S] /\ f[0] = base
  /\ \A i \in 1 .. N : f[i] = step[i][f[L[i]]][f[R[i]]]

\* A function that is found upwards exists.
LEMMA TreeRecursion ==
  ASSUME NEW N \in Nat, NEW L, NEW R, Children(N, L, R), NEW S, NEW base \in S,
         NEW step \in [1 .. N -> [S -> [S -> S]]]
  PROVE  \E f : FoundUpwards(f, N, L, R, S, base, step)
<1> DEFINE F == [0 .. N -> S]
           At(g, j) == step[j][g[L[j]]][g[R[j]]]
           next == [n \in 0 .. N - 1 |-> [g \in F |-> [g EXCEPT ![N - n] = At(g, N - n)]]]
           none == [i \in 0 .. N |-> base]
<1>1. \A n \in 0 .. N - 1 : N - n \in 1 .. N /\ n + 1 \in 0 .. N /\ n \in 0 .. N
  OBVIOUS
<1>2. \A g \in F, j \in 1 .. N : At(g, j) \in S
  BY DEF Children
<1>3. next \in [0 .. N - 1 -> [F -> F]] /\ none \in F
  <2>1. \A n \in 0 .. N - 1, g \in F : [g EXCEPT ![N - n] = At(g, N - n)] \in F
    <3> SUFFICES ASSUME NEW n \in 0 .. N - 1, NEW g \in F
                 PROVE  [g EXCEPT ![N - n] = At(g, N - n)] \in F
      OBVIOUS
    <3>1. At(g, N - n) \in S
      BY <1>1, <1>2
    <3> HIDE DEF At
    <3> QED
      BY <3>1
  <2> HIDE DEF F, At
  <2>2. next \in [0 .. N - 1 -> [F -> F]]
    BY <2>1
  <2> QED
    BY <2>2 DEF F
<1>4. PICK h : Unrolls(h, N, F, none, next)
  <2> HIDE DEF next, none, F
  <2> QED
    BY <1>3, UnrollingExists
<1>5. \A n \in 0 .. N - 1 :
        /\ h[n] \in F /\ h[n + 1] \in F
        /\ h[n + 1] = [h[n] EXCEPT ![N - n] = At(h[n], N - n)]
  <2> SUFFICES ASSUME NEW n \in 0 .. N - 1
               PROVE  /\ h[n] \in F /\ h[n + 1] \in F
                      /\ h[n + 1] = [h[n] EXCEPT ![N - n] = At(h[n], N - n)]
    OBVIOUS
  <2> HIDE DEF F, At
  <2>1. h[n] \in F /\ h[n + 1] \in F /\ h[n + 1] = next[n][h[n]]
    BY <1>1, <1>4 DEF Unrolls
  <2>2. next[n] = [g \in F |-> [g EXCEPT ![N - n] = At(g, N - n)]]
    OBVIOUS
  <2> QED
    BY <2>1, <2>2
<1> DEFINE J == {n \in 0 .. N : /\ h[n][0] = base
                               /\ \A i \in 1 .. N : i > N - n => h[n][i] = At(h[n], i)}
<1>6. 0 \in J
  <2>1. h[0] = none
    BY <1>4 DEF Unrolls
  <2> QED
    BY <2>1
<1>7. ASSUME NEW n \in 0 .. N - 1, n \in J PROVE n + 1 \in J
  <2> DEFINE j == N - n
             g == h[n]
             g1 == h[n + 1]
  <2>1. /\ j \in 1 .. N /\ n + 1 \in 0 .. N /\ g \in F
        /\ g1 = [g EXCEPT ![j] = At(g, j)]
        /\ g[0] = base /\ \A i \in 1 .. N : i > j => g[i] = At(g, i)
    BY <1>1, <1>5, <1>7
  <2>2. \A i \in 1 .. N : i > N - (n + 1) => i = j \/ i > j
    OBVIOUS
  <2> HIDE DEF g, g1, j
  <2>3. \A i \in 0 .. N : i # j => g1[i] = g[i]
    BY <2>1
  <2>4. g1[j] = At(g, j)
    <3> HIDE DEF At
    <3> QED
      BY <2>1
  <2>5. ASSUME NEW i \in 1 .. N, i = j \/ i > j PROVE At(g1, i) = At(g, i)
    <3>1. \A c \in 0 .. N : c = 0 \/ c > i => c # j
      BY <2>1, <2>5
    <3>2. L[i] \in 0 .. N /\ L[i] # j /\ R[i] \in 0 .. N /\ R[i] # j
      BY <3>1 DEF Children
    <3> QED
      BY <2>3, <3>2
  <2>6. ASSUME NEW i \in 1 .. N, i = j \/ i > j PROVE g1[i] = At(g1, i)
    <3>1. CASE i = j
      <4> HIDE DEF At
      <4> QED
        BY <2>4, <2>5, <3>1
    <3>2. CASE i > j
      <4>1. i # j /\ i \in 0 .. N
        BY <2>1, <3>2
      <4> HIDE DEF At
      <4> QED
        BY <2>1, <2>3, <2>5, <3>2, <4>1
    <3> QED
      BY <2>6, <3>1, <3>2
  <2>7. g1[0] = base
    BY <2>1, <2>3
  <2> HIDE DEF At
  <2> QED
    BY <2>1, <2>2, <2>6, <2>7 DEF g1
<1>8. N \in J
  <2> HIDE DEF J
  <2>1. 0 .. N \subseteq J
    BY <1>6, <1>7, BoundedInduction
  <2> QED
    BY <2>1
<1>9. h[N] \in F
  BY <1>4 DEF Unrolls
<1>10. \A i \in 1 .. N : i > N - N
  OBVIOUS
<1>11. FoundUpwards(h[N], N, L, R, S, base, step)
  BY <1>8, <1>9, <1>10 DEF FoundUpwards
<1> QED
  BY <1>11

-----------------------------------------------------------------------------
(***************************************************************************)
(* The trees of KHashMap.  ktree_search, the descent of ktree_add, InOrder *)
(* and ktree_min_key are functions that follow the links; in a ranked      *)
(* tree, where the child of a node has a greater number, each exists and   *)
(* is the only one of its kind.                                            *)
(***************************************************************************)

\* Trees: the children of a node have greater numbers.
Node == [key : Nat, value : Nat, left : Nat, right : Nat]
Tree == [root : Nat, nodes : Seq(Node)]
Lefts(t) == [i \in 1 .. Len(t.nodes) |-> t.nodes[i].left]
Rights(t) == [i \in 1 .. Len(t.nodes) |-> t.nodes[i].right]

Ranked(t) ==
  /\ t \in Tree /\ t.root \in 0 .. Len(t.nodes)
  /\ Children(Len(t.nodes), Lefts(t), Rights(t))

\* The child of node i where a key k belongs.
Toward(t, i, k) == IF k > t.nodes[i].key THEN t.nodes[i].right ELSE t.nodes[i].left

\* Side names the field of that child.
LEMMA TowardIsSide ==
  ASSUME NEW t, Ranked(t), NEW i \in 1 .. Len(t.nodes), NEW k \in Nat
  PROVE  t.nodes[i][Side(t.nodes[i], k)] = Toward(t, i, k)
<1>1. CASE k > t.nodes[i].key
  BY <1>1 DEF Toward, Side
<1>2. CASE ~(k > t.nodes[i].key)
  BY <1>2 DEF Toward, Side
<1> QED
  BY <1>1, <1>2

\* The numbers of a ranked tree.
LEMMA NodeTypes ==
  ASSUME NEW t, Ranked(t)
  PROVE  /\ Len(t.nodes) \in Nat /\ t.nodes \in Seq(Node) /\ t.root \in 0 .. Len(t.nodes)
         /\ \A i \in 1 .. Len(t.nodes) :
              /\ t.nodes[i] \in Node
              /\ t.nodes[i].key \in Nat /\ t.nodes[i].value \in Nat
              /\ t.nodes[i].left \in 0 .. Len(t.nodes)
              /\ t.nodes[i].right \in 0 .. Len(t.nodes)
              /\ t.nodes[i].left = 0 \/ t.nodes[i].left > i
              /\ t.nodes[i].right = 0 \/ t.nodes[i].right > i
<1>1. t.nodes \in Seq(Node) /\ Len(t.nodes) \in Nat
  BY DEF Ranked, Tree
<1>2. ASSUME NEW i \in 1 .. Len(t.nodes)
      PROVE  /\ t.nodes[i] \in Node
             /\ Lefts(t)[i] = t.nodes[i].left /\ Rights(t)[i] = t.nodes[i].right
  BY <1>1 DEF Lefts, Rights
<1> QED
  BY <1>1, <1>2 DEF Ranked, Children, Node

\* Induction over a tree.
LEMMA NodeInduction ==
  ASSUME NEW t, Ranked(t), NEW S, 0 \in S,
         \A i \in 1 .. Len(t.nodes) :
           t.nodes[i].left \in S /\ t.nodes[i].right \in S => i \in S
  PROVE  0 .. Len(t.nodes) \subseteq S
<1>1. Len(t.nodes) \in Nat
  BY NodeTypes
<1>2. Children(Len(t.nodes), Lefts(t), Rights(t))
  BY DEF Ranked
<1>3. \A i \in 1 .. Len(t.nodes) : Lefts(t)[i] \in S /\ Rights(t)[i] \in S => i \in S
  BY DEF Lefts, Rights
<1> QED
  BY <1>1, <1>2, <1>3, TreeInduction

\* Recursion over a tree.
LEMMA NodeRecursion ==
  ASSUME NEW t, Ranked(t), NEW S, NEW base \in S,
         NEW step \in [1 .. Len(t.nodes) -> [S -> [S -> S]]]
  PROVE  \E f \in [0 .. Len(t.nodes) -> S] :
           /\ f[0] = base
           /\ \A i \in 1 .. Len(t.nodes) :
                f[i] = step[i][f[t.nodes[i].left]][f[t.nodes[i].right]]
<1>1. Len(t.nodes) \in Nat
  BY NodeTypes
<1>2. Children(Len(t.nodes), Lefts(t), Rights(t))
  BY DEF Ranked
<1>3. PICK f : FoundUpwards(f, Len(t.nodes), Lefts(t), Rights(t), S, base, step)
  BY <1>1, <1>2, TreeRecursion
<1>4. \A i \in 1 .. Len(t.nodes) :
        Lefts(t)[i] = t.nodes[i].left /\ Rights(t)[i] = t.nodes[i].right
  BY DEF Lefts, Rights
<1>5. /\ f \in [0 .. Len(t.nodes) -> S] /\ f[0] = base
      /\ \A i \in 1 .. Len(t.nodes) :
           f[i] = step[i][f[t.nodes[i].left]][f[t.nodes[i].right]]
  BY <1>3, <1>4 DEF FoundUpwards
<1> QED
  BY <1>5

-----------------------------------------------------------------------------
\* f is the function that ktree_search computes.
Searches(f, t, k) ==
  /\ f \in [0 .. Len(t.nodes) -> 0 .. Len(t.nodes)] /\ f[0] = 0
  /\ \A i \in 1 .. Len(t.nodes) :
       f[i] = IF t.nodes[i].key = k THEN i ELSE f[Toward(t, i, k)]

\* ktree_search computes such a function.
LEMMA SearchExists ==
  ASSUME NEW t, Ranked(t), NEW k \in Nat
  PROVE  \E f : Searches(f, t, k) /\ ktree_search(t, k) = f[t.root]
<1> DEFINE N == Len(t.nodes)
           S == 0 .. N
           step == [i \in 1 .. N |-> [a \in S |-> [b \in S |->
                     IF t.nodes[i].key = k THEN i
                     ELSE IF k > t.nodes[i].key THEN b ELSE a]]]
           Once(g) == [i \in 0 .. N |->
                         IF i = NULL \/ t.nodes[i].key = k THEN i
                         ELSE g[t.nodes[i][Side(t.nodes[i], k)]]]
           at[i \in 0 .. N] ==
             IF i = NULL \/ t.nodes[i].key = k THEN i
             ELSE at[t.nodes[i][Side(t.nodes[i], k)]]
<1>0. N \in Nat
  BY NodeTypes
<1>1. PICK f \in [0 .. N -> S] :
        /\ f[0] = 0
        /\ \A i \in 1 .. N : f[i] = step[i][f[t.nodes[i].left]][f[t.nodes[i].right]]
  <2>1. step \in [1 .. N -> [S -> [S -> S]]] /\ 0 \in S
    BY <1>0
  <2> HIDE DEF step, S
  <2> QED
    BY <2>1, NodeRecursion
<1>2. Searches(f, t, k)
  <2>1. ASSUME NEW i \in 1 .. N
        PROVE  f[i] = IF t.nodes[i].key = k THEN i ELSE f[Toward(t, i, k)]
    <3>1. t.nodes[i].left \in S /\ t.nodes[i].right \in S
      BY NodeTypes
    <3>2. f[t.nodes[i].left] \in S /\ f[t.nodes[i].right] \in S
      BY <3>1
    <3> QED
      BY <1>1, <3>1, <3>2 DEF Toward
  <2> QED
    BY <1>1, <2>1 DEF Searches
<1>3. f = Once(f)
  <2>1. ASSUME NEW i \in 0 .. N PROVE f[i] = Once(f)[i]
    <3>1. CASE i = 0
      BY <1>1, <3>1 DEF NULL
    <3>2. CASE i # 0
      <4>1. i \in 1 .. N
        BY <1>0, <3>2
      <4> QED
        BY <1>2, <4>1, <3>2, TowardIsSide DEF NULL, Searches
    <3> QED
      BY <3>1, <3>2
  <2> QED
    BY <2>1
<1>4. at = CHOOSE g : g = Once(g)
  BY DEF at
<1>5. at = Once(at)
  <2> HIDE DEF Once
  <2> QED
    BY <1>3, <1>4
<1>6. ktree_search(t, k) = at[t.root]
  BY DEF ktree_search, at
<1> HIDE DEF at
<1>7. Searches(at, t, k)
  <2>1. at[0] = 0
    <3>1. at[0] = Once(at)[0]
      <4> HIDE DEF Once
      <4> QED
        BY <1>5
    <3>2. Once(at)[0] = 0
      BY <1>0 DEF NULL
    <3> HIDE DEF Once
    <3> QED
      BY <3>1, <3>2
  <2>2. ASSUME NEW i \in 1 .. N
        PROVE  at[i] = IF t.nodes[i].key = k THEN i ELSE at[Toward(t, i, k)]
    <3>1. i \in 0 .. N /\ i # 0
      BY <1>0
    <3>2. at[i] = Once(at)[i]
      <4> HIDE DEF Once
      <4> QED
        BY <1>5
    <3>3. Once(at)[i] = IF i = NULL \/ t.nodes[i].key = k THEN i
                        ELSE at[t.nodes[i][Side(t.nodes[i], k)]]
      BY <3>1
    <3>4. t.nodes[i][Side(t.nodes[i], k)] = Toward(t, i, k)
      BY TowardIsSide
    <3> HIDE DEF Once
    <3> QED
      BY <3>1, <3>2, <3>3, <3>4 DEF NULL
  <2> DEFINE I == {i \in 0 .. N : at[i] \in 0 .. N}
  <2>3. 0 \in I
    BY <1>0, <2>1
  <2>4. ASSUME NEW i \in 1 .. N, t.nodes[i].left \in I, t.nodes[i].right \in I
        PROVE  i \in I
    BY <2>2, <2>4 DEF Toward
  <2>5. 0 .. N \subseteq I
    <3> HIDE DEF I
    <3> QED
      BY <2>3, <2>4, NodeInduction
  <2>6. at = [i \in 0 .. N |-> at[i]]
    <3>1. Once(at) = [i \in 0 .. N |-> Once(at)[i]]
      OBVIOUS
    <3> HIDE DEF Once
    <3> QED
      BY <1>5, <3>1
  <2>7. at \in [0 .. N -> 0 .. N]
    BY <2>5, <2>6
  <2> QED
    BY <2>1, <2>2, <2>7 DEF Searches
<1> QED
  BY <1>6, <1>7

\* What a search finds has the key.
LEMMA SearchFinds ==
  ASSUME NEW t, Ranked(t), NEW k \in Nat, NEW f, Searches(f, t, k), NEW i \in 0 .. Len(t.nodes)
  PROVE  f[i] # 0 => f[i] \in 1 .. Len(t.nodes) /\ t.nodes[f[i]].key = k
<1> DEFINE N == Len(t.nodes)
           I == {j \in 0 .. N : f[j] # 0 => f[j] \in 1 .. N /\ t.nodes[f[j]].key = k}
<1>1. 0 \in I
  BY NodeTypes DEF Searches
<1>2. ASSUME NEW j \in 1 .. N, t.nodes[j].left \in I, t.nodes[j].right \in I
      PROVE  j \in I
  <2>1. Toward(t, j, k) \in I
    BY <1>2 DEF Toward
  <2>2. j \in 0 .. Len(t.nodes)
    BY NodeTypes
  <2> QED
    BY <2>1, <2>2 DEF Searches
<1>3. 0 .. N \subseteq I
  <2> HIDE DEF I
  <2> QED
    BY <1>1, <1>2, NodeInduction
<1> QED
  BY <1>3

\* What ktree_search returns.
LEMMA SearchResult ==
  ASSUME NEW t, Ranked(t), NEW k \in Nat
  PROVE  /\ ktree_search(t, k) \in 0 .. Len(t.nodes)
         /\ ktree_search(t, k) # 0 => t.nodes[ktree_search(t, k)].key = k
<1>1. PICK f : Searches(f, t, k) /\ ktree_search(t, k) = f[t.root]
  BY SearchExists
<1>2. t.root \in 0 .. Len(t.nodes)
  BY NodeTypes
<1>3. f[t.root] # 0 => t.nodes[f[t.root]].key = k
  BY <1>1, <1>2, SearchFinds
<1> QED
  BY <1>1, <1>2, <1>3 DEF Searches

\* The same keys and links.
SameShape(t, u) ==
  /\ u.root = t.root /\ Len(u.nodes) = Len(t.nodes)
  /\ \A i \in 1 .. Len(t.nodes) :
       /\ u.nodes[i].key = t.nodes[i].key
       /\ u.nodes[i].left = t.nodes[i].left /\ u.nodes[i].right = t.nodes[i].right

\* Two searches of a tree find the same.
LEMMA SearchIsOne ==
  ASSUME NEW t, Ranked(t), NEW k \in Nat, NEW f, Searches(f, t, k), NEW g, Searches(g, t, k),
         NEW i \in 0 .. Len(t.nodes)
  PROVE  f[i] = g[i]
<1> DEFINE I == {j \in 0 .. Len(t.nodes) : f[j] = g[j]}
<1>1. 0 \in I
  BY NodeTypes DEF Searches
<1>2. ASSUME NEW j \in 1 .. Len(t.nodes), t.nodes[j].left \in I, t.nodes[j].right \in I
      PROVE  j \in I
  <2>1. Toward(t, j, k) \in I
    BY <1>2 DEF Toward
  <2>2. j \in 0 .. Len(t.nodes)
    BY NodeTypes
  <2> QED
    BY <2>1, <2>2 DEF Searches
<1>3. 0 .. Len(t.nodes) \subseteq I
  <2> HIDE DEF I
  <2> QED
    BY <1>1, <1>2, NodeInduction
<1> QED
  BY <1>3

\* Values do not matter to a search.
LEMMA SearchSame ==
  ASSUME NEW t, Ranked(t), NEW u, Ranked(u), SameShape(t, u), NEW k \in Nat
  PROVE  ktree_search(u, k) = ktree_search(t, k)
<1>1. PICK f : Searches(f, t, k) /\ ktree_search(t, k) = f[t.root]
  BY SearchExists
<1>2. PICK g : Searches(g, u, k) /\ ktree_search(u, k) = g[u.root]
  BY SearchExists
<1>3. Searches(g, t, k)
  <2>1. ASSUME NEW i \in 1 .. Len(t.nodes) PROVE Toward(u, i, k) = Toward(t, i, k)
    BY DEF SameShape, Toward
  <2> QED
    BY <1>2, <2>1 DEF Searches, SameShape
<1>4. t.root \in 0 .. Len(t.nodes)
  BY NodeTypes
<1> QED
  BY <1>1, <1>2, <1>3, <1>4, SearchIsOne DEF SameShape

-----------------------------------------------------------------------------
\* f is the function with which ktree_add finds the parent of a new node.
Descends(f, t, k) ==
  /\ f \in [0 .. Len(t.nodes) -> 0 .. Len(t.nodes)]
  /\ \A i \in 1 .. Len(t.nodes) :
       f[i] = IF Toward(t, i, k) = 0 THEN i ELSE f[Toward(t, i, k)]

\* t with a node for k below node p.
WithChild(t, p, k, v) ==
  [t EXCEPT !.nodes = Append([@ EXCEPT ![p][Side(t.nodes[p], k)] = Len(t.nodes) + 1],
                             ktree_new(k, v))]

\* ktree_add puts the node below the end of such a descent.
LEMMA AddDescends ==
  ASSUME NEW t, Ranked(t), t.root # 0, NEW k \in Nat, NEW v \in Nat
  PROVE  \E f : Descends(f, t, k) /\ ktree_add(t, k, v) = WithChild(t, f[t.root], k, v)
<1> DEFINE N == Len(t.nodes)
           S == 0 .. N
           step == [i \in 1 .. N |-> [a \in S |-> [b \in S |->
                     IF Toward(t, i, k) = 0 THEN i
                     ELSE IF k > t.nodes[i].key THEN b ELSE a]]]
           Once(g) == [i \in 1 .. N |->
                         LET next == t.nodes[i][Side(t.nodes[i], k)]
                         IN  IF next = NULL THEN i ELSE g[next]]
           above[i \in 1 .. N] ==
             LET next == t.nodes[i][Side(t.nodes[i], k)]
             IN  IF next = NULL THEN i ELSE above[next]
<1>0. N \in Nat
  BY NodeTypes
<1>1. PICK f \in [0 .. N -> S] :
        /\ f[0] = 0
        /\ \A i \in 1 .. N : f[i] = step[i][f[t.nodes[i].left]][f[t.nodes[i].right]]
  <2>1. step \in [1 .. N -> [S -> [S -> S]]] /\ 0 \in S
    BY <1>0
  <2> HIDE DEF step, S
  <2> QED
    BY <2>1, NodeRecursion
<1>2. \A i \in 1 .. N : f[i] = IF Toward(t, i, k) = 0 THEN i ELSE f[Toward(t, i, k)]
  <2>1. ASSUME NEW i \in 1 .. N
        PROVE  f[i] = IF Toward(t, i, k) = 0 THEN i ELSE f[Toward(t, i, k)]
    <3>1. t.nodes[i].left \in S /\ t.nodes[i].right \in S
      BY NodeTypes
    <3>2. f[t.nodes[i].left] \in S /\ f[t.nodes[i].right] \in S
      BY <3>1
    <3> QED
      BY <1>1, <3>1, <3>2 DEF Toward
  <2> QED
    BY <2>1
<1>3. \E g : g = Once(g)
  <2> DEFINE g == [i \in 1 .. N |-> f[i]]
  <2>1. ASSUME NEW i \in 1 .. N PROVE g[i] = Once(g)[i]
    <3>1. Toward(t, i, k) \in 0 .. N
      BY NodeTypes DEF Toward
    <3>2. Toward(t, i, k) # 0 => g[Toward(t, i, k)] = f[Toward(t, i, k)]
      BY <1>0, <3>1
    <3> QED
      BY <1>2, <3>2, TowardIsSide DEF NULL
  <2>2. g = Once(g)
    BY <2>1
  <2> QED
    BY <2>2
<1>4. above = CHOOSE g : g = Once(g)
  BY DEF above
<1>5. above = Once(above)
  <2> HIDE DEF Once
  <2> QED
    BY <1>3, <1>4
<1>6. ktree_add(t, k, v) = WithChild(t, above[t.root], k, v)
  BY DEF ktree_add, above, WithChild
<1> HIDE DEF above
<1> DEFINE h == [i \in 0 .. N |-> IF i = 0 THEN 0 ELSE above[i]]
<1>7. \A i \in 1 .. N : h[i] = IF Toward(t, i, k) = 0 THEN i ELSE h[Toward(t, i, k)]
  <2> SUFFICES ASSUME NEW i \in 1 .. N
               PROVE  h[i] = IF Toward(t, i, k) = 0 THEN i ELSE h[Toward(t, i, k)]
    OBVIOUS
  <2>1. Toward(t, i, k) \in 0 .. N
    BY NodeTypes DEF Toward
  <2>2. above[i] = IF Toward(t, i, k) = 0 THEN i ELSE above[Toward(t, i, k)]
    <3>1. above[i] = Once(above)[i]
      <4> HIDE DEF Once
      <4> QED
        BY <1>5
    <3>2. Once(above)[i] = IF t.nodes[i][Side(t.nodes[i], k)] = NULL THEN i
                           ELSE above[t.nodes[i][Side(t.nodes[i], k)]]
      OBVIOUS
    <3>3. t.nodes[i][Side(t.nodes[i], k)] = Toward(t, i, k)
      BY TowardIsSide
    <3> HIDE DEF Once
    <3> QED
      BY <3>1, <3>2, <3>3 DEF NULL
  <2> QED
    BY <1>0, <2>1, <2>2
<1>8. Descends(h, t, k)
  <2> DEFINE I == {i \in 0 .. N : h[i] \in 0 .. N}
  <2>1. 0 \in I
    BY <1>0
  <2>2. h \in [0 .. N -> {h[i] : i \in 0 .. N}]
    OBVIOUS
  <2> HIDE DEF h
  <2>3. ASSUME NEW i \in 1 .. N, t.nodes[i].left \in I, t.nodes[i].right \in I
        PROVE  i \in I
    BY <1>7, <2>3 DEF Toward
  <2>4. 0 .. N \subseteq I
    <3> HIDE DEF I
    <3> QED
      BY <2>1, <2>3, NodeInduction
  <2> QED
    BY <1>7, <2>2, <2>4 DEF Descends
<1>9. h[t.root] = above[t.root]
  BY NodeTypes
<1> HIDE DEF h
<1>10. ktree_add(t, k, v) = WithChild(t, h[t.root], k, v)
  BY <1>6, <1>9
<1> QED
  BY <1>8, <1>10

-----------------------------------------------------------------------------
(***************************************************************************)
(* The keys that may be below a node: its span.  Each insertion goes where *)
(* its key is in the span, so every search finds what was set.             *)
(***************************************************************************)

\* The keys that may be below each node: all below the root, and those less and
\* greater than its own below the children of a node.
Placed(t, span) ==
  /\ span \in [1 .. Len(t.nodes) -> SUBSET Nat] /\ span[t.root] = Nat
  /\ \A i \in 1 .. Len(t.nodes) :
       LET n == t.nodes[i] IN
       /\ n.key \in span[i]
       /\ n.left # 0 => span[n.left] = {x \in span[i] : x < n.key}
       /\ n.right # 0 => span[n.right] = {x \in span[i] : x > n.key}

\* The trees that hash maps are.
SearchTree(t) == Ranked(t) /\ t.root # 0 /\ \E span : Placed(t, span)

\* u is t with a node for k below node p.
Grafted(u, t, p, k, v) ==
  LET new == Len(t.nodes) + 1 IN
  /\ u.root = t.root /\ Len(u.nodes) = new /\ u.nodes[new] = ktree_new(k, v)
  /\ \A i \in 1 .. Len(t.nodes) :
       /\ u.nodes[i].key = t.nodes[i].key /\ u.nodes[i].value = t.nodes[i].value
       /\ u.nodes[i].left = IF i = p /\ ~(k > t.nodes[i].key) THEN new ELSE t.nodes[i].left
       /\ u.nodes[i].right = IF i = p /\ k > t.nodes[i].key THEN new ELSE t.nodes[i].right

\* One field of a node changes.
LEMMA NodeSet ==
  ASSUME NEW n \in Node, NEW c \in Nat
  PROVE  /\ LET m == [n EXCEPT !.left = c] IN
              m \in Node /\ m.key = n.key /\ m.value = n.value /\ m.left = c /\ m.right = n.right
         /\ LET m == [n EXCEPT !.right = c] IN
              m \in Node /\ m.key = n.key /\ m.value = n.value /\ m.left = n.left /\ m.right = c
         /\ LET m == [n EXCEPT !.key = c] IN
              m \in Node /\ m.key = c /\ m.value = n.value /\ m.left = n.left /\ m.right = n.right
         /\ LET m == [n EXCEPT !.value = c] IN
              m \in Node /\ m.key = n.key /\ m.value = c /\ m.left = n.left /\ m.right = n.right
  BY DEF Node

\* ktree_add leaves a ranked tree.
LEMMA GraftIsRanked ==
  ASSUME NEW t, Ranked(t), NEW k \in Nat, NEW v \in Nat, NEW p \in 1 .. Len(t.nodes), NEW u,
         u = WithChild(t, p, k, v)
  PROVE  Ranked(u) /\ Grafted(u, t, p, k, v)
<1> DEFINE N == Len(t.nodes)
           side == Side(t.nodes[p], k)
           node == [t.nodes[p] EXCEPT ![side] = N + 1]
           s == [t.nodes EXCEPT ![p] = node]
           u0 == [t EXCEPT !.nodes = Append(s, ktree_new(k, v))]
<1>0. /\ N \in Nat /\ t.nodes \in Seq(Node) /\ t.nodes[p] \in Node
      /\ side = IF k > t.nodes[p].key THEN "right" ELSE "left"
      /\ t \in Tree
  BY NodeTypes DEF Side, Ranked
<1>1. u = u0
  BY DEF WithChild
<1>2. /\ node \in Node
      /\ node.key = t.nodes[p].key /\ node.value = t.nodes[p].value
      /\ node.left = IF ~(k > t.nodes[p].key) THEN N + 1 ELSE t.nodes[p].left
      /\ node.right = IF k > t.nodes[p].key THEN N + 1 ELSE t.nodes[p].right
  <2>1. CASE k > t.nodes[p].key
    <3>1. node = [t.nodes[p] EXCEPT !.right = N + 1]
      BY <1>0, <2>1
    <3> HIDE DEF node
    <3>2. /\ node \in Node /\ node.key = t.nodes[p].key /\ node.value = t.nodes[p].value
          /\ node.right = N + 1 /\ node.left = t.nodes[p].left
      <4>1. N + 1 \in Nat
        BY <1>0
      <4> HIDE DEF N
      <4> QED
        BY <1>0, <3>1, <4>1, NodeSet
    <3> QED
      BY <2>1, <3>2
  <2>2. CASE ~(k > t.nodes[p].key)
    <3>1. node = [t.nodes[p] EXCEPT !.left = N + 1]
      BY <1>0, <2>2
    <3> HIDE DEF node
    <3>2. /\ node \in Node /\ node.key = t.nodes[p].key /\ node.value = t.nodes[p].value
          /\ node.left = N + 1 /\ node.right = t.nodes[p].right
      <4>1. N + 1 \in Nat
        BY <1>0
      <4> HIDE DEF N
      <4> QED
        BY <1>0, <3>1, <4>1, NodeSet
    <3> QED
      BY <2>2, <3>2
  <2> QED
    BY <2>1, <2>2
<1>3. ktree_new(k, v) \in Node
  BY DEF ktree_new, Node, NULL
<1> HIDE DEF node, side
<1>4. /\ s \in Seq(Node) /\ Len(s) = N
      /\ \A i \in 1 .. N : s[i] = IF i = p THEN node ELSE t.nodes[i]
  BY <1>0, <1>2
<1> HIDE DEF s
<1> DEFINE q == Append(s, ktree_new(k, v))
<1>5. /\ q \in Seq(Node) /\ Len(q) = N + 1 /\ q[N + 1] = ktree_new(k, v)
      /\ \A i \in 1 .. N : q[i] = s[i]
  <2> HIDE DEF N
  <2> QED
    BY <1>0, <1>3, <1>4
<1> HIDE DEF q
<1>6. u.nodes = q /\ u.root = t.root /\ u \in Tree
  BY <1>0, <1>1, <1>5 DEF Tree, q
<1>7. Grafted(u, t, p, k, v)
  <2>1. ASSUME NEW i \in 1 .. N
        PROVE  /\ u.nodes[i].key = t.nodes[i].key /\ u.nodes[i].value = t.nodes[i].value
               /\ u.nodes[i].left = IF i = p /\ ~(k > t.nodes[i].key) THEN N + 1 ELSE t.nodes[i].left
               /\ u.nodes[i].right = IF i = p /\ k > t.nodes[i].key THEN N + 1 ELSE t.nodes[i].right
    <3>1. u.nodes[i] = IF i = p THEN node ELSE t.nodes[i]
      BY <1>4, <1>5, <1>6
    <3>2. CASE i = p
      BY <1>2, <3>1, <3>2
    <3>3. CASE i # p
      BY <3>1, <3>3
    <3> QED
      BY <3>2, <3>3
  <2> QED
    BY <1>5, <1>6, <2>1 DEF Grafted
<1>8. Ranked(u)
  <2>1. u.root \in 0 .. Len(u.nodes)
    BY <1>0, <1>5, <1>6, NodeTypes
  <2>2. ASSUME NEW i \in 1 .. N + 1
        PROVE  /\ u.nodes[i].left \in 0 .. N + 1 /\ (u.nodes[i].left = 0 \/ u.nodes[i].left > i)
               /\ u.nodes[i].right \in 0 .. N + 1 /\ (u.nodes[i].right = 0 \/ u.nodes[i].right > i)
    <3>1. CASE i = N + 1
      BY <1>0, <1>5, <1>6, <3>1 DEF ktree_new, NULL
    <3>2. CASE i \in 1 .. N
      <4>1. /\ t.nodes[i].left \in 0 .. N /\ (t.nodes[i].left = 0 \/ t.nodes[i].left > i)
            /\ t.nodes[i].right \in 0 .. N /\ (t.nodes[i].right = 0 \/ t.nodes[i].right > i)
        BY <3>2, NodeTypes
      <4>2. /\ u.nodes[i].left \in {N + 1, t.nodes[i].left}
            /\ u.nodes[i].right \in {N + 1, t.nodes[i].right}
        BY <1>7, <3>2 DEF Grafted
      <4>3. \A c \in 0 .. N : c \in 0 .. N + 1
        BY <1>0
      <4>4. N + 1 \in 0 .. N + 1 /\ N + 1 > i
        BY <1>0, <3>2
      <4> QED
        BY <4>1, <4>2, <4>3, <4>4
    <3> QED
      BY <1>0, <3>1, <3>2
  <2>3. Children(Len(u.nodes), Lefts(u), Rights(u))
    BY <1>5, <1>6, <2>2 DEF Children, Lefts, Rights
  <2> QED
    BY <1>6, <2>1, <2>3 DEF Ranked
<1> QED
  BY <1>7, <1>8

\* What the descent comes to, from a node below which k belongs and is not found.
LEMMA DescentIsPlaced ==
  ASSUME NEW t, Ranked(t), NEW span, Placed(t, span), NEW k \in Nat,
         NEW f, Descends(f, t, k), NEW g, Searches(g, t, k), NEW i \in 1 .. Len(t.nodes),
         k \in span[i], g[i] = 0
  PROVE  LET p == f[i] IN
         /\ p \in 1 .. Len(t.nodes) /\ k \in span[p] /\ t.nodes[p].key # k
         /\ Toward(t, p, k) = 0
<1> DEFINE N == Len(t.nodes)
           Fine(p) == /\ p \in 1 .. N /\ k \in span[p] /\ t.nodes[p].key # k
                      /\ Toward(t, p, k) = 0
           I == {j \in 0 .. N : j # 0 /\ k \in span[j] /\ g[j] = 0 => Fine(f[j])}
<1>1. 0 \in I
  BY NodeTypes
<1>2. ASSUME NEW j \in 1 .. N, t.nodes[j].left \in I, t.nodes[j].right \in I
      PROVE  j \in I
  <2>0. j \in 0 .. N /\ t.nodes[j].key \in Nat
    BY NodeTypes
  <2> SUFFICES ASSUME k \in span[j], g[j] = 0 PROVE Fine(f[j])
    BY <2>0
  <2> DEFINE c == Toward(t, j, k)
  <2>1. t.nodes[j].key # k /\ g[c] = 0
    BY <2>0 DEF Searches
  <2>2. c \in I
    BY <1>2 DEF Toward
  <2>3. CASE c = 0
    <3>1. f[j] = j
      BY <2>3 DEF Descends
    <3> QED
      BY <2>1, <2>3, <3>1
  <2>4. CASE c # 0
    <3>1. k \in span[c]
      BY <2>0, <2>1, <2>4 DEF Placed, Toward
    <3>2. f[j] = f[c]
      BY <2>4 DEF Descends
    <3> HIDE DEF Fine, c
    <3> QED
      BY <2>1, <2>2, <2>4, <3>1, <3>2
  <2> QED
    BY <2>3, <2>4
<1>3. 0 .. N \subseteq I
  <2> HIDE DEF I
  <2> QED
    BY <1>1, <1>2, NodeInduction
<1>4. i \in I /\ i # 0
  <2>1. i \in 0 .. N /\ i # 0
    BY NodeTypes
  <2> HIDE DEF I
  <2> QED
    BY <1>3, <2>1
<1> QED
  BY <1>4

\* ktree_add leaves every key in its span.
LEMMA GraftIsPlaced ==
  ASSUME NEW t, Ranked(t), t.root # 0, NEW span, Placed(t, span), NEW k \in Nat, NEW v \in Nat,
         NEW p \in 1 .. Len(t.nodes), k \in span[p], t.nodes[p].key # k, Toward(t, p, k) = 0,
         NEW u, Grafted(u, t, p, k, v)
  PROVE  \E wider : Placed(u, wider)
<1> DEFINE N == Len(t.nodes)
           key == t.nodes[p].key
           below == {x \in span[p] : IF k > key THEN x > key ELSE x < key}
           wider == [i \in 1 .. N + 1 |-> IF i = N + 1 THEN below ELSE span[i]]
<1>0. N \in Nat /\ key \in Nat /\ t.root \in 1 .. N
  BY NodeTypes
<1>1. below \subseteq Nat /\ k \in below
  BY <1>0 DEF Placed
<1> HIDE DEF below
<1>2. /\ wider \in [1 .. N + 1 -> SUBSET Nat] /\ wider[N + 1] = below
      /\ \A i \in 1 .. N : wider[i] = span[i]
  BY <1>0, <1>1 DEF Placed
<1> HIDE DEF wider
<1>3. wider[u.root] = Nat
  BY <1>0, <1>2 DEF Grafted, Placed
<1>4. ASSUME NEW i \in 1 .. N + 1
      PROVE  LET n == u.nodes[i] IN
             /\ n.key \in wider[i]
             /\ n.left # 0 => wider[n.left] = {x \in wider[i] : x < n.key}
             /\ n.right # 0 => wider[n.right] = {x \in wider[i] : x > n.key}
  <2>1. CASE i = N + 1
    BY <1>1, <1>2, <2>1 DEF Grafted, ktree_new, NULL
  <2>2. CASE i \in 1 .. N
    <3>1. /\ t.nodes[i].left \in 0 .. N /\ t.nodes[i].right \in 0 .. N
          /\ t.nodes[i].key \in span[i]
          /\ t.nodes[i].left # 0 => span[t.nodes[i].left] = {x \in span[i] : x < t.nodes[i].key}
          /\ t.nodes[i].right # 0 => span[t.nodes[i].right] = {x \in span[i] : x > t.nodes[i].key}
      BY <2>2, NodeTypes DEF Placed
    <3>2. /\ u.nodes[i].key = t.nodes[i].key /\ wider[i] = span[i]
          /\ u.nodes[i].left = IF i = p /\ ~(k > t.nodes[i].key) THEN N + 1 ELSE t.nodes[i].left
          /\ u.nodes[i].right = IF i = p /\ k > t.nodes[i].key THEN N + 1 ELSE t.nodes[i].right
      BY <1>2, <2>2 DEF Grafted
    <3>3. u.nodes[i].left # 0 => wider[u.nodes[i].left] = {x \in span[i] : x < t.nodes[i].key}
      <4>1. CASE i = p /\ ~(k > t.nodes[i].key)
        BY <1>2, <3>2, <4>1 DEF below
      <4>2. CASE ~(i = p /\ ~(k > t.nodes[i].key))
        <5>1. u.nodes[i].left = t.nodes[i].left
          BY <3>2, <4>2
        <5>2. t.nodes[i].left # 0 => wider[t.nodes[i].left] = span[t.nodes[i].left]
          BY <1>0, <1>2, <3>1
        <5> QED
          BY <3>1, <5>1, <5>2
      <4> QED
        BY <4>1, <4>2
    <3>4. u.nodes[i].right # 0 => wider[u.nodes[i].right] = {x \in span[i] : x > t.nodes[i].key}
      <4>1. CASE i = p /\ k > t.nodes[i].key
        BY <1>2, <3>2, <4>1 DEF below
      <4>2. CASE ~(i = p /\ k > t.nodes[i].key)
        <5>1. u.nodes[i].right = t.nodes[i].right
          BY <3>2, <4>2
        <5>2. t.nodes[i].right # 0 => wider[t.nodes[i].right] = span[t.nodes[i].right]
          BY <1>0, <1>2, <3>1
        <5> QED
          BY <3>1, <5>1, <5>2
      <4> QED
        BY <4>1, <4>2
    <3> QED
      BY <3>1, <3>2, <3>3, <3>4
  <2> QED
    BY <1>0, <2>1, <2>2
<1>5. Placed(u, wider)
  BY <1>2, <1>3, <1>4 DEF Placed, Grafted
<1> QED
  BY <1>5

\* The new node is found, and every other search finds what it found before.
LEMMA GraftSearch ==
  ASSUME NEW t, Ranked(t), t.root # 0, NEW h \in Nat, NEW v \in Nat,
         NEW d, Descends(d, t, h), NEW s, Searches(s, t, h), s[t.root] = 0,
         d[t.root] \in 1 .. Len(t.nodes), Toward(t, d[t.root], h) = 0,
         NEW u, Ranked(u), Grafted(u, t, d[t.root], h, v), NEW k \in Nat,
         NEW f, Searches(f, t, k), NEW g, Searches(g, u, k)
  PROVE  g[u.root] = IF k = h THEN Len(t.nodes) + 1 ELSE f[t.root]
<1> DEFINE N == Len(t.nodes)
           p == d[t.root]
<1>0. N \in Nat /\ p \in 1 .. N /\ t.root \in 0 .. N /\ t.root \in 1 .. N
  BY NodeTypes
<1>1. /\ u.root = t.root /\ Len(u.nodes) = N + 1 /\ u.nodes[N + 1] = ktree_new(h, v)
      /\ \A i \in 1 .. N : u.nodes[i].key = t.nodes[i].key
  BY DEF Grafted
<1>2. ASSUME NEW i \in 1 .. N
      PROVE  \/ Toward(u, i, k) = Toward(t, i, k)
             \/ i = p /\ Toward(u, i, k) = N + 1 /\ Toward(t, i, k) = 0
  <2>1. /\ u.nodes[i].key = t.nodes[i].key
        /\ u.nodes[i].left = IF i = p /\ ~(h > t.nodes[i].key) THEN N + 1 ELSE t.nodes[i].left
        /\ u.nodes[i].right = IF i = p /\ h > t.nodes[i].key THEN N + 1 ELSE t.nodes[i].right
    BY DEF Grafted
  <2>2. CASE i # p
    BY <2>1, <2>2 DEF Toward
  <2>3. CASE i = p
    <3>1. CASE h > t.nodes[i].key
      BY <2>1, <2>3, <3>1 DEF Toward
    <3>2. CASE ~(h > t.nodes[i].key)
      BY <2>1, <2>3, <3>2 DEF Toward
    <3> QED
      BY <3>1, <3>2
  <2> QED
    BY <2>2, <2>3
<1>3. k = h => Toward(u, p, k) = N + 1
  <2>1. /\ u.nodes[p].key = t.nodes[p].key
        /\ u.nodes[p].left = IF ~(h > t.nodes[p].key) THEN N + 1 ELSE t.nodes[p].left
        /\ u.nodes[p].right = IF h > t.nodes[p].key THEN N + 1 ELSE t.nodes[p].right
    BY <1>0 DEF Grafted
  <2>2. CASE h > t.nodes[p].key
    BY <2>1, <2>2 DEF Toward
  <2>3. CASE ~(h > t.nodes[p].key)
    BY <2>1, <2>3 DEF Toward
  <2> QED
    BY <2>2, <2>3
<1> HIDE DEF p
<1>4. g[N + 1] = IF k = h THEN N + 1 ELSE 0
  <2>1. N + 1 \in 1 .. Len(u.nodes) /\ Toward(u, N + 1, k) = 0 /\ u.nodes[N + 1].key = h
    BY <1>0, <1>1 DEF Toward, ktree_new, NULL
  <2> QED
    BY <2>1 DEF Searches
<1>5. ASSUME NEW i \in 1 .. N
      PROVE  /\ f[i] = IF t.nodes[i].key = k THEN i ELSE f[Toward(t, i, k)]
             /\ g[i] = IF t.nodes[i].key = k THEN i ELSE g[Toward(u, i, k)]
  <2>1. i \in 1 .. Len(u.nodes)
    BY <1>0, <1>1
  <2> QED
    BY <1>1, <2>1 DEF Searches
<1>6. f[0] = 0 /\ g[0] = 0
  BY DEF Searches
<1>7. CASE k # h
  <2> DEFINE I == {i \in 0 .. N : g[i] = f[i]}
  <2>1. 0 \in I
    BY <1>0, <1>6
  <2>2. ASSUME NEW i \in 1 .. N, t.nodes[i].left \in I, t.nodes[i].right \in I
        PROVE  i \in I
    <3>1. Toward(t, i, k) \in I /\ i \in 0 .. N
      BY <1>0, <2>2 DEF Toward
    <3>2. CASE Toward(u, i, k) = Toward(t, i, k)
      BY <1>5, <3>1, <3>2
    <3>3. CASE Toward(u, i, k) = N + 1 /\ Toward(t, i, k) = 0
      BY <1>4, <1>5, <1>6, <1>7, <3>1, <3>3
    <3> QED
      BY <1>2, <3>2, <3>3
  <2>3. 0 .. N \subseteq I
    <3> HIDE DEF I
    <3> QED
      BY <2>1, <2>2, NodeInduction
  <2> QED
    BY <1>0, <1>1, <1>7, <2>3
<1>8. CASE k = h
  <2> DEFINE I == {i \in 0 .. N : i # 0 /\ f[i] = 0 /\ d[i] = p => g[i] = N + 1}
  <2>1. 0 \in I
    BY <1>0
  <2>2. ASSUME NEW i \in 1 .. N, t.nodes[i].left \in I, t.nodes[i].right \in I
        PROVE  i \in I
    <3>1. Toward(t, i, k) \in I /\ i \in 0 .. N
      BY <1>0, <2>2 DEF Toward
    <3> SUFFICES ASSUME f[i] = 0, d[i] = p PROVE g[i] = N + 1
      BY <3>1
    <3>2. t.nodes[i].key # k /\ f[Toward(t, i, k)] = 0 /\ g[i] = g[Toward(u, i, k)]
      BY <1>0, <1>5
    <3>3. d[i] = IF Toward(t, i, k) = 0 THEN i ELSE d[Toward(t, i, k)]
      BY <1>8 DEF Descends
    <3>4. CASE Toward(t, i, k) = 0
      <4>1. i = p
        BY <3>3, <3>4
      <4> QED
        BY <1>3, <1>4, <1>8, <3>2, <4>1
    <3>5. CASE Toward(t, i, k) # 0
      <4>1. Toward(u, i, k) = Toward(t, i, k) /\ d[Toward(t, i, k)] = p
        BY <1>2, <3>3, <3>5
      <4> QED
        BY <3>1, <3>2, <3>5, <4>1
    <3> QED
      BY <3>4, <3>5
  <2>3. 0 .. N \subseteq I
    <3> HIDE DEF I
    <3> QED
      BY <2>1, <2>2, NodeInduction
  <2>4. f[t.root] = 0
    BY <1>0, <1>8, SearchIsOne
  <2>5. d[t.root] = p
    BY DEF p
  <2>6. t.root \in I
    <3> HIDE DEF I
    <3> QED
      BY <1>0, <2>3
  <2> QED
    BY <1>0, <1>1, <1>8, <2>4, <2>5, <2>6
<1> QED
  BY <1>7, <1>8

-----------------------------------------------------------------------------
\* The map is a function from hashes to values that khashmap_set changes at
\* one hash; what was never set is 0.
THEOREM GetAfterSet ==
  ASSUME NEW t, SearchTree(t), NEW h \in Nat, NEW v \in Nat
  PROVE  /\ SearchTree(khashmap_set(t, h, v))
         /\ \A k \in Nat : khashmap_get(khashmap_set(t, h, v), k) =
                             IF k = h THEN v ELSE khashmap_get(t, k)
<1> DEFINE N == Len(t.nodes)
           u == khashmap_set(t, h, v)
           j == ktree_search(t, h)
<1>0. /\ Ranked(t) /\ t.root # 0 /\ N \in Nat /\ t.root \in 0 .. N /\ t.root \in 1 .. N
      /\ t.nodes \in Seq(Node) /\ t \in Tree
  BY NodeTypes DEF SearchTree, Ranked
<1>1. PICK span : Placed(t, span)
  BY DEF SearchTree
<1>2. j \in 0 .. N /\ (j # 0 => t.nodes[j].key = h)
  BY <1>0, SearchResult
<1>3. CASE j # 0
  <2> DEFINE node == [t.nodes[j] EXCEPT !.value = v]
  <2>1. j \in 1 .. N /\ t.nodes[j] \in Node
    BY <1>0, <1>2, <1>3, NodeTypes
  <2>2. /\ node \in Node /\ node.key = t.nodes[j].key /\ node.value = v
        /\ node.left = t.nodes[j].left /\ node.right = t.nodes[j].right
    BY <2>1, NodeSet
  <2>3. u = [t EXCEPT !.nodes = [@ EXCEPT ![j] = node]]
    <3>1. u = [t EXCEPT !.nodes[j].value = v]
      BY <1>3 DEF khashmap_set, NULL
    <3> QED
      BY <3>1
  <2> HIDE DEF node, u, j
  <2>4. /\ u \in Tree /\ u.root = t.root /\ Len(u.nodes) = N
        /\ \A i \in 1 .. N : u.nodes[i] = IF i = j THEN node ELSE t.nodes[i]
    <3> DEFINE s == [t.nodes EXCEPT ![j] = node]
    <3>1. /\ s \in Seq(Node) /\ Len(s) = N
          /\ \A i \in 1 .. N : s[i] = IF i = j THEN node ELSE t.nodes[i]
      BY <1>0, <2>1, <2>2
    <3> HIDE DEF s
    <3>2. u = [t EXCEPT !.nodes = s]
      BY <2>3 DEF s
    <3> QED
      BY <1>0, <3>1, <3>2 DEF Tree
  <2>5. SameShape(t, u)
    <3>1. \A i \in 1 .. N : /\ u.nodes[i].key = t.nodes[i].key
                            /\ u.nodes[i].left = t.nodes[i].left
                            /\ u.nodes[i].right = t.nodes[i].right
      BY <2>2, <2>4
    <3> QED
      BY <2>4, <3>1 DEF SameShape
  <2>6. Ranked(u)
    <3>1. Lefts(u) = Lefts(t) /\ Rights(u) = Rights(t)
      BY <2>4, <2>5 DEF Lefts, Rights, SameShape
    <3> QED
      BY <1>0, <2>4, <3>1 DEF Ranked
  <2>7. Placed(u, span)
    BY <1>1, <2>4, <2>5 DEF Placed, SameShape
  <2>8. ASSUME NEW k \in Nat
        PROVE  khashmap_get(u, k) = IF k = h THEN v ELSE khashmap_get(t, k)
    <3>1. ktree_search(u, k) = ktree_search(t, k)
      BY <1>0, <2>5, <2>6, SearchSame
    <3>2. /\ ktree_search(t, k) \in 0 .. N
          /\ ktree_search(t, k) # 0 => t.nodes[ktree_search(t, k)].key = k
      BY <1>0, SearchResult
    <3>3. CASE k = h
      <4>1. ktree_search(t, k) = j
        BY <3>3 DEF j
      <4> QED
        BY <1>3, <2>1, <2>2, <2>4, <3>1, <3>3, <4>1 DEF khashmap_get, NULL
    <3>4. CASE k # h
      <4>1. ktree_search(t, k) # j
        BY <1>2, <1>3, <3>2, <3>4
      <4>2. CASE ktree_search(t, k) = 0
        BY <3>1, <3>4, <4>2 DEF khashmap_get, NULL
      <4>3. CASE ktree_search(t, k) # 0
        <5>1. ktree_search(t, k) \in 1 .. N
          BY <1>0, <3>2, <4>3
        <5> QED
          BY <2>4, <3>1, <3>4, <4>1, <4>3, <5>1 DEF khashmap_get, NULL
      <4> QED
        BY <4>2, <4>3
    <3> QED
      BY <3>3, <3>4
  <2>9. SearchTree(u)
    BY <1>0, <2>4, <2>6, <2>7 DEF SearchTree
  <2> QED
    BY <2>8, <2>9 DEF u
<1>4. CASE j = 0
  <2>1. PICK s : Searches(s, t, h) /\ j = s[t.root]
    BY <1>0, SearchExists
  <2>2. PICK d : Descends(d, t, h) /\ ktree_add(t, h, v) = WithChild(t, d[t.root], h, v)
    BY <1>0, AddDescends
  <2> DEFINE p == d[t.root]
  <2>3. u = ktree_add(t, h, v)
    BY <1>4 DEF khashmap_set, NULL
  <2>4. u = WithChild(t, p, h, v)
    BY <2>2, <2>3
  <2>5. p \in 1 .. N /\ h \in span[p] /\ t.nodes[p].key # h /\ Toward(t, p, h) = 0
    <3>1. h \in span[t.root]
      BY <1>1 DEF Placed
    <3> QED
      BY <1>0, <1>1, <1>4, <2>1, <2>2, <3>1, DescentIsPlaced
  <2> HIDE DEF p, u, j
  <2>6. Ranked(u) /\ Grafted(u, t, p, h, v)
    BY <1>0, <2>4, <2>5, GraftIsRanked
  <2>7. \E wider : Placed(u, wider)
    BY <1>0, <1>1, <2>5, <2>6, GraftIsPlaced
  <2>8. ASSUME NEW k \in Nat
        PROVE  khashmap_get(u, k) = IF k = h THEN v ELSE khashmap_get(t, k)
    <3>1. PICK f : Searches(f, t, k) /\ ktree_search(t, k) = f[t.root]
      BY <1>0, SearchExists
    <3>2. PICK g : Searches(g, u, k) /\ ktree_search(u, k) = g[u.root]
      BY <2>6, SearchExists
    <3>3. g[u.root] = IF k = h THEN N + 1 ELSE f[t.root]
      BY <1>0, <1>4, <2>1, <2>2, <2>5, <2>6, <3>1, <3>2, GraftSearch DEF p
    <3>4. ktree_search(u, k) = IF k = h THEN N + 1 ELSE ktree_search(t, k)
      BY <3>1, <3>2, <3>3
    <3>5. ktree_search(t, k) \in 0 .. N
      BY <1>0, SearchResult
    <3>6. /\ u.nodes[N + 1].value = v
          /\ \A i \in 1 .. N : u.nodes[i].value = t.nodes[i].value
      BY <2>6 DEF Grafted, ktree_new
    <3>7. CASE k = h
      BY <1>0, <3>4, <3>6, <3>7 DEF khashmap_get, NULL
    <3>8. CASE k # h
      BY <1>0, <3>4, <3>5, <3>6, <3>8 DEF khashmap_get, NULL
    <3> QED
      BY <3>7, <3>8
  <2>9. SearchTree(u)
    BY <1>0, <2>6, <2>7 DEF SearchTree, Grafted
  <2> QED
    BY <2>8, <2>9 DEF u
<1> QED
  BY <1>3, <1>4

\* A new map is a search tree that holds nothing.
LEMMA NewMap ==
  SearchTree(khashmap_new) /\ \A k \in Nat : khashmap_get(khashmap_new, k) = 0
<1> DEFINE t == khashmap_new
<1>1. /\ t.root = 1 /\ Len(t.nodes) = 1
      /\ t.nodes[1] = [key |-> Sentinel, value |-> 0, left |-> 0, right |-> 0]
      /\ t \in Tree
  <2>1. ktree_new(Sentinel, 0) \in Node
    BY SentinelAssumption DEF ktree_new, Node, NULL
  <2> QED
    BY <2>1 DEF khashmap_new, Tree, ktree_new, NULL
<1> HIDE DEF t
<1>2. \A i \in 1 .. 1 : i = 1
  OBVIOUS
<1>3. Ranked(t)
  BY <1>1, <1>2 DEF Ranked, Children, Lefts, Rights
<1>4. \E span : Placed(t, span)
  <2> DEFINE span == [i \in 1 .. 1 |-> Nat]
  <2>1. Placed(t, span)
    BY <1>1, <1>2, SentinelAssumption DEF Placed
  <2> QED
    BY <2>1
<1>5. ASSUME NEW k \in Nat PROVE khashmap_get(t, k) = 0
  <2>1. ktree_search(t, k) \in 0 .. 1
    BY <1>1, <1>3, SearchResult
  <2> QED
    BY <1>1, <2>1 DEF khashmap_get, NULL
<1>6. SearchTree(t)
  BY <1>1, <1>3, <1>4 DEF SearchTree
<1> QED
  BY <1>5, <1>6 DEF t

\* khashmap_get returns a number.
LEMMA GetIsNat ==
  ASSUME NEW t, SearchTree(t), NEW k \in Nat
  PROVE  khashmap_get(t, k) \in Nat
<1>1. Ranked(t)
  BY DEF SearchTree
<1>2. ktree_search(t, k) \in 0 .. Len(t.nodes)
  BY <1>1, SearchResult
<1> QED
  BY <1>1, <1>2, NodeTypes DEF khashmap_get, NULL

-----------------------------------------------------------------------------
(***************************************************************************)
(* The walk of the tree in order, and what is below a node.                *)
(***************************************************************************)

\* The members of a sequence.
In(s) == {s[a] : a \in 1 .. Len(s)}

\* The members of a sequence made of three parts.
LEMMA ThreeParts ==
  ASSUME NEW S, NEW s \in Seq(S), NEW x \in S, NEW q \in Seq(S)
  PROVE  LET c == s \o <<x>> \o q IN
         /\ c \in Seq(S) /\ Len(c) = Len(s) + 1 + Len(q)
         /\ \A a \in 1 .. Len(s) : c[a] = s[a]
         /\ c[Len(s) + 1] = x
         /\ \A a \in 1 .. Len(q) : c[Len(s) + 1 + a] = q[a]
         /\ \A a \in 1 .. Len(c) :
              a \in 1 .. Len(s) \/ a = Len(s) + 1 \/ a - Len(s) - 1 \in 1 .. Len(q)
         /\ In(c) = In(s) \cup {x} \cup In(q)
<1> DEFINE b == s \o <<x>>
           c == b \o q
<1>1. /\ b \in Seq(S) /\ Len(b) = Len(s) + 1 /\ b[Len(s) + 1] = x
      /\ \A a \in 1 .. Len(s) : b[a] = s[a]
  OBVIOUS
<1> HIDE DEF b
<1>2. /\ c \in Seq(S) /\ Len(c) = Len(s) + 1 + Len(q)
      /\ \A a \in 1 .. Len(s) + 1 : c[a] = b[a]
      /\ \A a \in 1 .. Len(q) : c[Len(s) + 1 + a] = q[a]
  BY <1>1
<1> HIDE DEF c
<1>3. Len(s) \in Nat /\ Len(q) \in Nat
  OBVIOUS
<1>4. /\ \A a \in 1 .. Len(s) : c[a] = s[a]
      /\ c[Len(s) + 1] = x
  BY <1>1, <1>2, <1>3
<1>5. \A a \in 1 .. Len(c) :
        a \in 1 .. Len(s) \/ a = Len(s) + 1 \/ a - Len(s) - 1 \in 1 .. Len(q)
  BY <1>2, <1>3
<1>6. In(c) = In(s) \cup {x} \cup In(q)
  <2>1. ASSUME NEW y \in In(c) PROVE y \in In(s) \cup {x} \cup In(q)
    <3>1. PICK a \in 1 .. Len(c) : y = c[a]
      BY DEF In
    <3>2. CASE a \in 1 .. Len(s) \/ a = Len(s) + 1
      BY <1>4, <3>1, <3>2 DEF In
    <3>3. CASE a - Len(s) - 1 \in 1 .. Len(q)
      <4> DEFINE d == a - Len(s) - 1
      <4>1. d \in 1 .. Len(q) /\ a = Len(s) + 1 + d
        BY <1>3, <3>3
      <4> HIDE DEF d
      <4>2. c[a] = q[d]
        BY <1>2, <4>1
      <4> QED
        BY <3>1, <4>1, <4>2 DEF In
    <3> QED
      BY <1>5, <3>2, <3>3
  <2>2. ASSUME NEW y \in In(s) PROVE y \in In(c)
    <3>1. PICK a \in 1 .. Len(s) : y = s[a]
      BY DEF In
    <3>2. a \in 1 .. Len(c)
      BY <1>2, <1>3
    <3> QED
      BY <1>4, <3>1, <3>2 DEF In
  <2>3. x \in In(c)
    <3>1. Len(s) + 1 \in 1 .. Len(c)
      BY <1>2, <1>3
    <3> QED
      BY <1>4, <3>1 DEF In
  <2>4. ASSUME NEW y \in In(q) PROVE y \in In(c)
    <3>1. PICK a \in 1 .. Len(q) : y = q[a]
      BY DEF In
    <3>2. Len(s) + 1 + a \in 1 .. Len(c)
      BY <1>2, <1>3
    <3> QED
      BY <1>2, <3>1, <3>2 DEF In
  <2> QED
    BY <2>1, <2>2, <2>3, <2>4
<1> QED
  BY <1>2, <1>4, <1>5, <1>6 DEF c, b

\* f is the function with which InOrder walks a tree.
Walks(f, t) ==
  /\ f \in [0 .. Len(t.nodes) -> Seq(1 .. Len(t.nodes))] /\ f[0] = <<>>
  /\ \A i \in 1 .. Len(t.nodes) :
       f[i] = f[t.nodes[i].left] \o <<i>> \o f[t.nodes[i].right]

\* InOrder is the result of such a walk.
LEMMA WalkExists ==
  ASSUME NEW t, Ranked(t)
  PROVE  \E f : Walks(f, t) /\ InOrder(t) = f[t.root]
<1> DEFINE N == Len(t.nodes)
           S == Seq(1 .. N)
           step == [i \in 1 .. N |-> [a \in S |-> [b \in S |-> a \o <<i>> \o b]]]
           Once(g) == [i \in 0 .. N |->
                         IF i = NULL THEN <<>>
                         ELSE g[t.nodes[i].left] \o <<i>> \o g[t.nodes[i].right]]
           walk[i \in 0 .. N] ==
             IF i = NULL THEN <<>>
             ELSE walk[t.nodes[i].left] \o <<i>> \o walk[t.nodes[i].right]
<1>0. N \in Nat /\ <<>> \in S
  BY NodeTypes
<1>1. \A i \in 1 .. N, a \in S, b \in S : a \o <<i>> \o b \in S
  BY ThreeParts
<1>2. PICK f \in [0 .. N -> S] :
        /\ f[0] = <<>>
        /\ \A i \in 1 .. N : f[i] = step[i][f[t.nodes[i].left]][f[t.nodes[i].right]]
  <2>1. step \in [1 .. N -> [S -> [S -> S]]]
    <3> HIDE DEF S, N
    <3> QED
      BY <1>1
  <2> HIDE DEF step, S
  <2> QED
    BY <1>0, <2>1, NodeRecursion
<1>3. \A i \in 1 .. N :
        /\ t.nodes[i].left \in 0 .. N /\ t.nodes[i].right \in 0 .. N
        /\ f[i] = f[t.nodes[i].left] \o <<i>> \o f[t.nodes[i].right]
  <2>1. ASSUME NEW i \in 1 .. N
        PROVE  /\ t.nodes[i].left \in 0 .. N /\ t.nodes[i].right \in 0 .. N
               /\ f[i] = f[t.nodes[i].left] \o <<i>> \o f[t.nodes[i].right]
    <3>1. t.nodes[i].left \in 0 .. N /\ t.nodes[i].right \in 0 .. N
      BY NodeTypes
    <3> HIDE DEF S, N
    <3>2. f[t.nodes[i].left] \in S /\ f[t.nodes[i].right] \in S
      BY <3>1
    <3> QED
      BY <1>2, <3>1, <3>2
  <2> QED
    BY <2>1
<1> HIDE DEF S
<1>4. f = Once(f)
  <2>1. ASSUME NEW i \in 0 .. N PROVE f[i] = Once(f)[i]
    <3>1. CASE i = 0
      BY <1>2, <3>1 DEF NULL
    <3>2. CASE i # 0
      <4>1. i \in 1 .. N
        BY <1>0, <3>2
      <4> QED
        BY <1>3, <4>1, <3>2 DEF NULL
    <3> QED
      BY <3>1, <3>2
  <2> QED
    BY <2>1
<1>5. walk = CHOOSE g : g = Once(g)
  BY DEF walk
<1>6. walk = Once(walk)
  <2> HIDE DEF Once
  <2> QED
    BY <1>4, <1>5
<1>7. InOrder(t) = walk[t.root]
  BY DEF InOrder, walk
<1> HIDE DEF walk
<1>8. Walks(walk, t)
  <2>1. walk[0] = <<>>
    <3>1. walk[0] = Once(walk)[0]
      <4> HIDE DEF Once
      <4> QED
        BY <1>6
    <3>2. Once(walk)[0] = <<>>
      BY <1>0 DEF NULL
    <3> HIDE DEF Once
    <3> QED
      BY <3>1, <3>2
  <2>2. \A i \in 1 .. N : walk[i] = walk[t.nodes[i].left] \o <<i>> \o walk[t.nodes[i].right]
    <3> SUFFICES ASSUME NEW i \in 1 .. N
                 PROVE  walk[i] = walk[t.nodes[i].left] \o <<i>> \o walk[t.nodes[i].right]
      OBVIOUS
    <3>1. i \in 0 .. N /\ i # NULL
      BY <1>0 DEF NULL
    <3>2. Once(walk)[i] = walk[t.nodes[i].left] \o <<i>> \o walk[t.nodes[i].right]
      BY <3>1
    <3> HIDE DEF Once
    <3> QED
      BY <1>6, <3>2
  <2> DEFINE I == {i \in 0 .. N : walk[i] \in S}
  <2>3. 0 \in I
    BY <1>0, <2>1
  <2>4. ASSUME NEW i \in 1 .. N, t.nodes[i].left \in I, t.nodes[i].right \in I
        PROVE  i \in I
    <3>1. i \in 0 .. N
      BY <1>0
    <3> QED
      BY <1>1, <2>2, <2>4, <3>1
  <2>5. 0 .. N \subseteq I
    <3> HIDE DEF I
    <3> QED
      BY <2>3, <2>4, NodeInduction
  <2>6. walk = [i \in 0 .. N |-> walk[i]]
    <3>1. Once(walk) = [i \in 0 .. N |-> Once(walk)[i]]
      OBVIOUS
    <3> HIDE DEF Once
    <3> QED
      BY <1>6, <3>1
  <2>7. walk \in [0 .. N -> S]
    BY <2>5, <2>6
  <2> QED
    BY <2>1, <2>2, <2>7 DEF Walks, S
<1> QED
  BY <1>7, <1>8

\* Two walks of a tree are the same.
LEMMA WalkIsOne ==
  ASSUME NEW t, Ranked(t), NEW f, Walks(f, t), NEW g, Walks(g, t), NEW i \in 0 .. Len(t.nodes)
  PROVE  f[i] = g[i]
<1> DEFINE I == {j \in 0 .. Len(t.nodes) : f[j] = g[j]}
<1>0. Len(t.nodes) \in Nat
  BY NodeTypes
<1>1. 0 \in I
  <2>1. f[0] = g[0]
    BY DEF Walks
  <2> QED
    BY <1>0, <2>1
<1>2. ASSUME NEW j \in 1 .. Len(t.nodes), t.nodes[j].left \in I, t.nodes[j].right \in I
      PROVE  j \in I
  <2>1. j \in 0 .. Len(t.nodes)
    BY NodeTypes
  <2> QED
    BY <1>2, <2>1 DEF Walks
<1>3. 0 .. Len(t.nodes) \subseteq I
  <2> HIDE DEF I
  <2> QED
    BY <1>1, <1>2, NodeInduction
<1> QED
  BY <1>3

\* What is below a node.
LEMMA WalkMeets ==
  ASSUME NEW t, Ranked(t), NEW f, Walks(f, t)
  PROVE  /\ In(f[0]) = {}
         /\ \A i \in 1 .. Len(t.nodes) :
              /\ In(f[i]) = In(f[t.nodes[i].left]) \cup {i} \cup In(f[t.nodes[i].right])
              /\ In(f[i]) \subseteq 1 .. Len(t.nodes)
<1>1. In(f[0]) = {}
  BY DEF Walks, In
<1>2. ASSUME NEW i \in 1 .. Len(t.nodes)
      PROVE  /\ In(f[i]) = In(f[t.nodes[i].left]) \cup {i} \cup In(f[t.nodes[i].right])
             /\ In(f[i]) \subseteq 1 .. Len(t.nodes)
  <2>1. t.nodes[i].left \in 0 .. Len(t.nodes) /\ t.nodes[i].right \in 0 .. Len(t.nodes)
    BY NodeTypes
  <2> DEFINE S == 1 .. Len(t.nodes)
             s == f[t.nodes[i].left]
             q == f[t.nodes[i].right]
  <2>2. /\ s \in Seq(S) /\ q \in Seq(S) /\ f[i] = s \o <<i>> \o q /\ i \in S
        /\ f[i] \in Seq(S)
    <3>1. i \in 0 .. Len(t.nodes)
      BY NodeTypes
    <3> QED
      BY <2>1, <3>1 DEF Walks
  <2> HIDE DEF S, s, q
  <2>3. In(f[i]) = In(s) \cup {i} \cup In(q)
    BY <2>2, ThreeParts
  <2>4. In(f[i]) \subseteq S
    BY <2>2 DEF In
  <2> QED
    BY <2>3, <2>4 DEF S, s, q
<1> QED
  BY <1>1, <1>2

\* The same as one fact about each node.
Meets(f, t, i) ==
  In(f[i]) = In(f[t.nodes[i].left]) \cup {i} \cup In(f[t.nodes[i].right])

\* What a walk meets from a node, by its children.
LEMMA EachMeets ==
  ASSUME NEW t, Ranked(t), NEW f, Walks(f, t)
  PROVE  \A i \in 1 .. Len(t.nodes) : Meets(f, t, i)
<1> SUFFICES ASSUME NEW i \in 1 .. Len(t.nodes) PROVE Meets(f, t, i)
  OBVIOUS
<1> QED
  BY WalkMeets DEF Meets

\* Among the nodes D, which hold the root and the children of each, the keys
\* below a node are in its span.
Ordered(t, D, span) ==
  /\ D \subseteq 1 .. Len(t.nodes) /\ t.root \in D \cup {0}
  /\ span \in [1 .. Len(t.nodes) -> SUBSET Nat]
  /\ \A i \in D :
       LET n == t.nodes[i] IN
       /\ n.key \in span[i] /\ n.left \in D \cup {0} /\ n.right \in D \cup {0}
       /\ n.left # 0 => span[n.left] \subseteq {x \in span[i] : x < n.key}
       /\ n.right # 0 => span[n.right] \subseteq {x \in span[i] : x > n.key}

\* A search tree is ordered.
LEMMA PlacedIsOrdered ==
  ASSUME NEW t, Ranked(t), t.root # 0, NEW span, Placed(t, span)
  PROVE  Ordered(t, 1 .. Len(t.nodes), span)
<1> DEFINE N == Len(t.nodes)
<1>1. N \in Nat /\ t.root \in 1 .. N
  BY NodeTypes
<1>2. \A i \in 1 .. N : t.nodes[i].left \in 1 .. N \cup {0} /\ t.nodes[i].right \in 1 .. N \cup {0}
  BY <1>1, NodeTypes
<1> QED
  BY <1>1, <1>2 DEF Placed, Ordered

\* The keys of the nodes of s go up.
Increasing(t, s) ==
  \A a, b \in 1 .. Len(s) : a < b => t.nodes[s[a]].key < t.nodes[s[b]].key

\* A walk of an ordered tree goes up, and stays in the span.
LEMMA WalkGoesUp ==
  ASSUME NEW t, Ranked(t), NEW D, NEW span, Ordered(t, D, span), NEW f, Walks(f, t),
         NEW i \in D \cup {0}
  PROVE  /\ In(f[i]) \subseteq D /\ Increasing(t, f[i])
         /\ i # 0 => \A x \in In(f[i]) : t.nodes[x].key \in span[i]
<1> DEFINE N == Len(t.nodes)
           Fine(j) == /\ In(f[j]) \subseteq D /\ Increasing(t, f[j])
                      /\ j # 0 => \A x \in In(f[j]) : t.nodes[x].key \in span[j]
           I == {j \in 0 .. N : j \in D \cup {0} => Fine(j)}
<1>0. N \in Nat
  BY NodeTypes
<1>1. 0 \in I
  <2>1. In(f[0]) = {}
    BY WalkMeets
  <2>2. Len(f[0]) = 0
    BY DEF Walks
  <2>3. Increasing(t, f[0])
    BY <2>2 DEF Increasing
  <2> QED
    BY <1>0, <2>1, <2>3
<1>2. ASSUME NEW j \in 1 .. N, t.nodes[j].left \in I, t.nodes[j].right \in I
      PROVE  j \in I
  <2>0. j \in 0 .. N
    BY <1>0
  <2> SUFFICES ASSUME j \in D PROVE Fine(j)
    BY <1>0, <2>0
  <2> DEFINE S == 1 .. N
             l == t.nodes[j].left
             r == t.nodes[j].right
             key == t.nodes[j].key
             s == f[l]
             q == f[r]
             c == f[j]
  <2>1. /\ key \in span[j] /\ l \in D \cup {0} /\ r \in D \cup {0}
        /\ l # 0 => span[l] \subseteq {x \in span[j] : x < key}
        /\ r # 0 => span[r] \subseteq {x \in span[j] : x > key}
    BY DEF Ordered
  <2>2. Fine(l) /\ Fine(r)
    BY <1>2, <2>1
  <2>3. In(f[0]) = {} /\ In(c) = In(s) \cup {j} \cup In(q)
    BY WalkMeets
  <2>4. l \in 0 .. N /\ r \in 0 .. N /\ key \in Nat /\ D \subseteq S
    BY NodeTypes DEF Ordered
  <2> HIDE DEF l, r, key
  <2>5. /\ \A x \in In(s) : t.nodes[x].key \in span[j] /\ t.nodes[x].key < key
        /\ \A x \in In(q) : t.nodes[x].key \in span[j] /\ t.nodes[x].key > key
    <3>1. CASE l = 0
      <4>1. In(s) = {}
        BY <2>3, <3>1
      <4>2. CASE r = 0
        BY <2>3, <4>1, <4>2
      <4>3. CASE r # 0
        BY <2>1, <2>2, <4>1, <4>3
      <4> QED
        BY <4>2, <4>3
    <3>2. CASE l # 0
      <4>1. CASE r = 0
        BY <2>1, <2>2, <2>3, <3>2, <4>1
      <4>2. CASE r # 0
        BY <2>1, <2>2, <3>2, <4>2
      <4> QED
        BY <4>1, <4>2
    <3> QED
      BY <3>1, <3>2
  <2>6. s \in Seq(S) /\ q \in Seq(S) /\ j \in S /\ c = s \o <<j>> \o q
    BY <1>0, <2>4 DEF Walks, l, r
  <2> HIDE DEF S, s, q, c
  <2>7. /\ Len(c) = Len(s) + 1 + Len(q) /\ c[Len(s) + 1] = j
        /\ \A a \in 1 .. Len(s) : c[a] = s[a]
        /\ \A a \in 1 .. Len(q) : c[Len(s) + 1 + a] = q[a]
        /\ \A a \in 1 .. Len(c) :
             a \in 1 .. Len(s) \/ a = Len(s) + 1 \/ a - Len(s) - 1 \in 1 .. Len(q)
    BY <2>6, ThreeParts
  <2>8. Len(s) \in Nat /\ Len(q) \in Nat
    BY <2>6
  <2>9. /\ \A a \in 1 .. Len(s) : s[a] \in In(s)
        /\ \A a \in 1 .. Len(q) : q[a] \in In(q)
    BY DEF In
  <2>10. In(c) \subseteq D
    BY <2>2, <2>3 DEF s, q
  <2>11. \A x \in In(c) : t.nodes[x].key \in span[j]
    BY <2>1, <2>3, <2>5 DEF key
  <2>12. \A x \in D : t.nodes[x].key \in Nat
    BY <2>4, NodeTypes DEF S
  <2>13. Increasing(t, c)
    <3> SUFFICES ASSUME NEW a \in 1 .. Len(c), NEW b \in 1 .. Len(c), a < b
                 PROVE  t.nodes[c[a]].key < t.nodes[c[b]].key
      BY DEF Increasing
    <3>0. key = t.nodes[j].key
      BY DEF key
    <3>1. CASE a \in 1 .. Len(s)
      <4>1. c[a] = s[a] /\ t.nodes[c[a]].key < key /\ s[a] \in D
        BY <2>2, <2>5, <2>7, <2>9, <3>1 DEF s
      <4>2. CASE b \in 1 .. Len(s)
        <5>1. c[b] = s[b] /\ Increasing(t, s)
          BY <2>2, <2>7, <4>2 DEF s
        <5> QED
          BY <3>1, <4>1, <4>2, <5>1 DEF Increasing
      <4>3. CASE b = Len(s) + 1
        BY <2>7, <3>0, <4>1, <4>3
      <4>4. CASE b - Len(s) - 1 \in 1 .. Len(q)
        <5> DEFINE e == b - Len(s) - 1
        <5>1. e \in 1 .. Len(q) /\ b = Len(s) + 1 + e
          BY <2>7, <2>8, <4>4
        <5> HIDE DEF e
        <5>2. c[b] = q[e] /\ t.nodes[c[b]].key > key /\ q[e] \in D
          BY <2>2, <2>5, <2>7, <2>9, <5>1 DEF q
        <5>3. t.nodes[c[a]].key \in Nat /\ t.nodes[c[b]].key \in Nat
          BY <2>12, <4>1, <5>2
        <5> DEFINE x == t.nodes[c[a]].key
                   y == t.nodes[c[b]].key
        <5>4. x \in Nat /\ y \in Nat /\ key \in Nat /\ x < key /\ y > key
          BY <2>4, <4>1, <5>2, <5>3
        <5>5. x < y
          <6> HIDE DEF x, y
          <6> QED
            BY <5>4
        <5> QED
          BY <5>5
      <4> QED
        BY <2>7, <4>2, <4>3, <4>4
    <3>2. CASE ~(a \in 1 .. Len(s))
      <4>1. b - Len(s) - 1 \in 1 .. Len(q)
        BY <2>7, <2>8, <3>2
      <4> DEFINE e == b - Len(s) - 1
      <4>2. e \in 1 .. Len(q) /\ b = Len(s) + 1 + e
        BY <2>7, <2>8, <4>1
      <4>3. c[b] = q[e] /\ t.nodes[c[b]].key > key
        <5> HIDE DEF e
        <5> QED
          BY <2>5, <2>7, <2>9, <4>2
      <4>4. CASE a = Len(s) + 1
        <5>1. c[b] \in D /\ c[a] = j
          <6> HIDE DEF e
          <6> QED
            BY <2>2, <2>7, <2>9, <4>2, <4>3, <4>4 DEF q
        <5> HIDE DEF e
        <5> QED
          BY <2>4, <2>12, <3>0, <4>3, <5>1
      <4>5. CASE a - Len(s) - 1 \in 1 .. Len(q)
        <5> DEFINE d == a - Len(s) - 1
        <5>1. d \in 1 .. Len(q) /\ a = Len(s) + 1 + d /\ d < e
          BY <2>7, <2>8, <4>5
        <5>2. c[a] = q[d] /\ Increasing(t, q)
          <6> HIDE DEF d, e
          <6> QED
            BY <2>2, <2>7, <5>1 DEF q
        <5> HIDE DEF d, e
        <5> QED
          BY <4>2, <4>3, <5>1, <5>2 DEF Increasing
      <4> QED
        BY <2>7, <3>2, <4>4, <4>5
    <3> QED
      BY <3>1, <3>2
  <2> QED
    BY <2>10, <2>11, <2>13 DEF c
<1>3. 0 .. N \subseteq I
  <2> HIDE DEF I
  <2> QED
    BY <1>1, <1>2, NodeInduction
<1>4. i \in I
  <2>1. i \in 0 .. N
    BY <1>0 DEF Ordered
  <2> HIDE DEF I
  <2> QED
    BY <1>3, <2>1
<1> HIDE DEF Fine
<1>5. Fine(i)
  BY <1>4
<1> QED
  BY <1>5 DEF Fine

\* The nodes that InOrder finds.
Reached(t) == In(InOrder(t))

\* An ordered tree is sorted, and has each key once.
LEMMA OrderedIsSorted ==
  ASSUME NEW t, Ranked(t), NEW D, NEW span, Ordered(t, D, span)
  PROVE  /\ Sorted(t) /\ KeysOf(t) = {t.nodes[i].key : i \in Reached(t)}
         /\ Reached(t) \subseteq 1 .. Len(t.nodes)
         /\ \A i, j \in Reached(t) : t.nodes[i].key = t.nodes[j].key => i = j
<1>1. PICK f : Walks(f, t) /\ InOrder(t) = f[t.root]
  BY WalkExists
<1>2. Increasing(t, InOrder(t)) /\ Reached(t) \subseteq 1 .. Len(t.nodes)
  <2>1. t.root \in D \cup {0} /\ D \subseteq 1 .. Len(t.nodes)
    BY DEF Ordered
  <2>2. In(f[t.root]) \subseteq D /\ Increasing(t, f[t.root])
    BY <1>1, <2>1, WalkGoesUp
  <2> QED
    BY <1>1, <2>1, <2>2 DEF Reached
<1>3. InOrder(t) \in Seq(1 .. Len(t.nodes))
  BY <1>1, NodeTypes DEF Walks
<1> DEFINE s == InOrder(t)
<1>4. DOMAIN s = 1 .. Len(s) /\ Len(s) \in Nat
  BY <1>3
<1> HIDE DEF s
<1>5. Sorted(t)
  BY <1>2, <1>4 DEF Sorted, Increasing, s
<1>6. KeysOf(t) = {t.nodes[i].key : i \in Reached(t)}
  BY <1>4 DEF KeysOf, Reached, In, s
<1>7. ASSUME NEW i \in Reached(t), NEW j \in Reached(t), t.nodes[i].key = t.nodes[j].key
      PROVE  i = j
  <2>1. PICK a \in 1 .. Len(s) : i = s[a]
    BY DEF Reached, In, s
  <2>2. PICK b \in 1 .. Len(s) : j = s[b]
    BY DEF Reached, In, s
  <2>3. t.nodes[i].key \in Nat
    BY <1>2, NodeTypes
  <2>4. ~(a < b) /\ ~(b < a)
    BY <1>2, <1>7, <2>1, <2>2, <2>3 DEF Increasing, s
  <2>5. a = b
    BY <1>4, <2>4
  <2> QED
    BY <2>1, <2>2, <2>5
<1> QED
  BY <1>2, <1>5, <1>6, <1>7

-----------------------------------------------------------------------------
(***************************************************************************)
(* The successor of a node, and a pointer turned from one node to another: *)
(* how ktree_del takes a node out.                                         *)
(***************************************************************************)

\* f is the function that ktree_min_key computes.
Leftmost(f, t) ==
  /\ f \in [0 .. Len(t.nodes) -> 0 .. Len(t.nodes)]
  /\ \A i \in 1 .. Len(t.nodes) :
       f[i] = IF t.nodes[i].left = 0 THEN i ELSE f[t.nodes[i].left]

\* ktree_min_key computes such a function.
LEMMA LeftmostExists ==
  ASSUME NEW t, Ranked(t), NEW from \in 1 .. Len(t.nodes)
  PROVE  \E f : Leftmost(f, t) /\ ktree_min_key(t, from) = f[from]
<1> DEFINE N == Len(t.nodes)
           S == 0 .. N
           step == [i \in 1 .. N |-> [a \in S |-> [b \in S |->
                     IF t.nodes[i].left = 0 THEN i ELSE a]]]
           Once(g) == [i \in 1 .. N |->
                         IF t.nodes[i].left = NULL THEN i ELSE g[t.nodes[i].left]]
           least[i \in 1 .. N] ==
             IF t.nodes[i].left = NULL THEN i ELSE least[t.nodes[i].left]
<1>0. N \in Nat
  BY NodeTypes
<1>1. PICK f \in [0 .. N -> S] :
        /\ f[0] = 0
        /\ \A i \in 1 .. N : f[i] = step[i][f[t.nodes[i].left]][f[t.nodes[i].right]]
  <2>1. step \in [1 .. N -> [S -> [S -> S]]] /\ 0 \in S
    BY <1>0
  <2> HIDE DEF step, S
  <2> QED
    BY <2>1, NodeRecursion
<1>2. ASSUME NEW i \in 1 .. N
      PROVE  f[i] = IF t.nodes[i].left = 0 THEN i ELSE f[t.nodes[i].left]
  <2>1. t.nodes[i].left \in S /\ t.nodes[i].right \in S
    BY NodeTypes
  <2>2. f[t.nodes[i].left] \in S /\ f[t.nodes[i].right] \in S
    BY <2>1
  <2> QED
    BY <1>1, <2>1, <2>2
<1>3. \E g : g = Once(g)
  <2> DEFINE g == [i \in 1 .. N |-> f[i]]
  <2>1. ASSUME NEW i \in 1 .. N PROVE g[i] = Once(g)[i]
    <3>1. t.nodes[i].left \in 0 .. N
      BY NodeTypes
    <3>2. t.nodes[i].left # 0 => g[t.nodes[i].left] = f[t.nodes[i].left]
      BY <1>0, <3>1
    <3> QED
      BY <1>2, <3>2 DEF NULL
  <2>2. g = Once(g)
    BY <2>1
  <2> QED
    BY <2>2
<1>4. least = CHOOSE g : g = Once(g)
  BY DEF least
<1>5. least = Once(least)
  <2> HIDE DEF Once
  <2> QED
    BY <1>3, <1>4
<1>6. ktree_min_key(t, from) = least[from]
  BY DEF ktree_min_key, least
<1> HIDE DEF least
<1> DEFINE h == [i \in 0 .. N |-> IF i = 0 THEN 0 ELSE least[i]]
<1>7. \A i \in 1 .. N : h[i] = IF t.nodes[i].left = 0 THEN i ELSE h[t.nodes[i].left]
  <2> SUFFICES ASSUME NEW i \in 1 .. N
               PROVE  h[i] = IF t.nodes[i].left = 0 THEN i ELSE h[t.nodes[i].left]
    OBVIOUS
  <2>1. t.nodes[i].left \in 0 .. N
    BY NodeTypes
  <2>2. least[i] = IF t.nodes[i].left = 0 THEN i ELSE least[t.nodes[i].left]
    <3>1. least[i] = Once(least)[i]
      <4> HIDE DEF Once
      <4> QED
        BY <1>5
    <3>2. Once(least)[i] = IF t.nodes[i].left = 0 THEN i ELSE least[t.nodes[i].left]
      BY DEF NULL
    <3> HIDE DEF Once
    <3> QED
      BY <3>1, <3>2
  <2> QED
    BY <1>0, <2>1, <2>2
<1>8. Leftmost(h, t)
  <2> DEFINE I == {i \in 0 .. N : h[i] \in 0 .. N}
  <2>1. 0 \in I
    BY <1>0
  <2>2. h \in [0 .. N -> {h[i] : i \in 0 .. N}]
    OBVIOUS
  <2> HIDE DEF h
  <2>3. ASSUME NEW i \in 1 .. N, t.nodes[i].left \in I, t.nodes[i].right \in I
        PROVE  i \in I
    BY <1>7, <2>3
  <2>4. 0 .. N \subseteq I
    <3> HIDE DEF I
    <3> QED
      BY <2>1, <2>3, NodeInduction
  <2> QED
    BY <1>7, <2>2, <2>4 DEF Leftmost
<1>9. h[from] = least[from]
  BY <1>0
<1> HIDE DEF h
<1> QED
  BY <1>6, <1>8, <1>9

\* The successor has no left child, and its key is the least below the node.
LEMMA LeastKey ==
  ASSUME NEW t, Ranked(t), NEW span, Ordered(t, 1 .. Len(t.nodes), span), NEW f, Walks(f, t),
         NEW i \in 1 .. Len(t.nodes)
  PROVE  LET s == ktree_min_key(t, i) IN
         /\ s \in In(f[i]) /\ t.nodes[s].left = 0
         /\ \A x \in In(f[i]) : x # s => t.nodes[s].key < t.nodes[x].key
<1> DEFINE N == Len(t.nodes)
<1>0. N \in Nat
  BY NodeTypes
<1>1. PICK g : Leftmost(g, t) /\ ktree_min_key(t, i) = g[i]
  BY LeftmostExists
<1> DEFINE Fine(j) == /\ g[j] \in In(f[j]) /\ t.nodes[g[j]].left = 0
                      /\ \A x \in In(f[j]) : x # g[j] => t.nodes[g[j]].key < t.nodes[x].key
           I == {j \in 0 .. N : j # 0 => Fine(j)}
<1>2. 0 \in I
  BY <1>0
<1>3. ASSUME NEW j \in 1 .. N, t.nodes[j].left \in I, t.nodes[j].right \in I
      PROVE  j \in I
  <2> DEFINE l == t.nodes[j].left
             r == t.nodes[j].right
             key == t.nodes[j].key
  <2>0. j \in 0 .. N /\ l \in 0 .. N /\ r \in 0 .. N /\ key \in Nat
    BY <1>0, NodeTypes
  <2>1. In(f[0]) = {} /\ In(f[j]) = In(f[l]) \cup {j} \cup In(f[r])
    BY WalkMeets
  <2>2. In(f[j]) \subseteq 1 .. N
    BY WalkMeets
  <2>3. \A x \in 1 .. N : t.nodes[x].key \in Nat
    BY NodeTypes
  <2>4. /\ l # 0 => span[l] \subseteq {x \in span[j] : x < key}
        /\ r # 0 => span[r] \subseteq {x \in span[j] : x > key}
        /\ l \in 1 .. N \cup {0} /\ r \in 1 .. N \cup {0}
    BY DEF Ordered
  <2>5. /\ l # 0 => \A x \in In(f[l]) : t.nodes[x].key \in span[l]
        /\ r # 0 => \A x \in In(f[r]) : t.nodes[x].key \in span[r]
    BY <2>4, WalkGoesUp
  <2>6. \A x \in In(f[l]) : t.nodes[x].key < key
    BY <2>1, <2>4, <2>5
  <2>7. \A x \in In(f[r]) : t.nodes[x].key > key
    BY <2>1, <2>4, <2>5
  <2>8. key = t.nodes[j].key /\ l \in I
    BY <1>3
  <2>9. g[j] = IF l = 0 THEN j ELSE g[l]
    BY <1>1 DEF Leftmost
  <2>10. t.nodes[j].left = l
    OBVIOUS
  <2> HIDE DEF l, r, key
  <2>11. CASE l = 0
    <3>1. g[j] = j /\ In(f[l]) = {} /\ t.nodes[j].left = 0
      BY <2>1, <2>9, <2>10, <2>11
    <3>2. \A x \in In(f[j]) : x # j => key < t.nodes[x].key
      <4> SUFFICES ASSUME NEW x \in In(f[j]), x # j PROVE key < t.nodes[x].key
        OBVIOUS
      <4>1. x \in In(f[r]) /\ t.nodes[x].key \in Nat
        BY <2>1, <2>2, <2>3, <3>1
      <4> QED
        BY <2>0, <2>7, <4>1
    <3> QED
      BY <2>0, <2>1, <2>8, <3>1, <3>2
  <2>12. CASE l # 0
    <3>1. g[j] = g[l] /\ Fine(l)
      BY <2>8, <2>9, <2>12
    <3>2. g[l] \in In(f[j]) /\ t.nodes[g[l]].key < key /\ t.nodes[g[l]].key \in Nat
      BY <2>1, <2>2, <2>3, <2>6, <3>1
    <3>3. ASSUME NEW x \in In(f[j]), x # g[l] PROVE t.nodes[g[l]].key < t.nodes[x].key
      <4>1. CASE x \in In(f[l])
        BY <3>1, <3>3, <4>1
      <4>2. CASE x = j
        BY <2>8, <3>2, <4>2
      <4>3. CASE x \in In(f[r])
        <5> DEFINE a == t.nodes[g[l]].key
                   b == t.nodes[x].key
        <5>1. a \in Nat /\ b \in Nat /\ key \in Nat /\ a < key /\ b > key
          BY <2>0, <2>2, <2>3, <2>7, <3>2, <4>3
        <5>2. a < b
          <6> HIDE DEF a, b
          <6> QED
            BY <5>1
        <5> QED
          BY <5>2
      <4> QED
        BY <2>1, <4>1, <4>2, <4>3
    <3> QED
      BY <2>0, <3>1, <3>2, <3>3
  <2> QED
    BY <2>11, <2>12
<1>4. 0 .. N \subseteq I
  <2> HIDE DEF I
  <2> QED
    BY <1>2, <1>3, NodeInduction
<1>5. i \in I /\ i # 0
  <2>1. i \in 0 .. N /\ i # 0
    BY <1>0
  <2> HIDE DEF I
  <2> QED
    BY <1>4, <2>1
<1> HIDE DEF Fine
<1>6. Fine(i)
  BY <1>5
<1> QED
  BY <1>1, <1>6 DEF Fine

\* What is below a node comes after it, and the children of what is below a
\* node are below it too.
LEMMA Below ==
  ASSUME NEW t, Ranked(t), NEW f, Walks(f, t), NEW i \in 1 .. Len(t.nodes)
  PROVE  \A x \in In(f[i]) :
           /\ x >= i
           /\ t.nodes[x].left # 0 => t.nodes[x].left \in In(f[i])
           /\ t.nodes[x].right # 0 => t.nodes[x].right \in In(f[i])
<1> DEFINE N == Len(t.nodes)
           Fine(j) == \A x \in In(f[j]) :
                        /\ x >= j
                        /\ t.nodes[x].left # 0 => t.nodes[x].left \in In(f[j])
                        /\ t.nodes[x].right # 0 => t.nodes[x].right \in In(f[j])
           I == {j \in 0 .. N : Fine(j)}
<1>0. N \in Nat
  BY NodeTypes
<1>1. 0 \in I
  BY <1>0, WalkMeets
<1>2. ASSUME NEW j \in 1 .. N, t.nodes[j].left \in I, t.nodes[j].right \in I
      PROVE  j \in I
  <2> DEFINE l == t.nodes[j].left
             r == t.nodes[j].right
  <2>0. /\ j \in 0 .. N /\ l \in 0 .. N /\ r \in 0 .. N
        /\ l = 0 \/ l > j
        /\ r = 0 \/ r > j
    BY <1>0, NodeTypes
  <2>1. In(f[0]) = {} /\ In(f[j]) = In(f[l]) \cup {j} \cup In(f[r]) /\ In(f[j]) \subseteq 1 .. N
    BY WalkMeets
  <2>2. (l # 0 => l \in In(f[l])) /\ (r # 0 => r \in In(f[r]))
    <3>1. \A c \in 1 .. N : c \in In(f[c])
      BY WalkMeets
    <3>2. \A c \in 0 .. N : c # 0 => c \in 1 .. N
      BY <1>0
    <3> QED
      BY <2>0, <3>1, <3>2
  <2>3. Fine(l) /\ Fine(r)
    BY <1>2
  <2>4. Fine(j)
    <3> SUFFICES ASSUME NEW x \in In(f[j])
                 PROVE  /\ x >= j
                        /\ t.nodes[x].left # 0 => t.nodes[x].left \in In(f[j])
                        /\ t.nodes[x].right # 0 => t.nodes[x].right \in In(f[j])
      OBVIOUS
    <3>1. CASE x = j
      BY <2>1, <2>2, <3>1
    <3>2. CASE x \in In(f[l])
      <4>1. x >= l /\ l > j /\ x \in 1 .. N
        BY <2>0, <2>1, <2>3, <3>2
      <4>2. x >= j
        <5> HIDE DEF l
        <5> QED
          BY <2>0, <4>1
      <4> QED
        BY <2>1, <2>3, <3>2, <4>2
    <3>3. CASE x \in In(f[r])
      <4>1. x >= r /\ r > j /\ x \in 1 .. N
        BY <2>0, <2>1, <2>3, <3>3
      <4>2. x >= j
        <5> HIDE DEF r
        <5> QED
          BY <2>0, <4>1
      <4> QED
        BY <2>1, <2>3, <3>3, <4>2
    <3> QED
      BY <2>1, <3>1, <3>2, <3>3
  <2> QED
    BY <2>0, <2>4
<1>3. 0 .. N \subseteq I
  <2> HIDE DEF I
  <2> QED
    BY <1>1, <1>2, NodeInduction
<1>4. i \in I
  <2>1. i \in 0 .. N
    BY <1>0
  <2> HIDE DEF I
  <2> QED
    BY <1>3, <2>1
<1> QED
  BY <1>4

\* Where a pointer goes when i is replaced by j.
To(i, j, p) == IF p = i THEN j ELSE p

\* u is t with every pointer to node i turned to node j.
Redirected(u, t, i, j) ==
  /\ Ranked(u) /\ Len(u.nodes) = Len(t.nodes) /\ u.root = To(i, j, t.root)
  /\ \A m \in 1 .. Len(t.nodes) :
       /\ u.nodes[m].key = t.nodes[m].key
       /\ u.nodes[m].left = To(i, j, t.nodes[m].left)
       /\ u.nodes[m].right = To(i, j, t.nodes[m].right)

\* Redirect turns every pointer.
LEMMA RedirectShape ==
  ASSUME NEW t, Ranked(t), NEW i \in 1 .. Len(t.nodes), NEW j \in 0 .. Len(t.nodes),
         j = 0 \/ j > i, NEW u, u = Redirect(t, i, j)
  PROVE  Redirected(u, t, i, j)
<1> DEFINE N == Len(t.nodes)
           q == [m \in DOMAIN t.nodes |->
                   [t.nodes[m] EXCEPT !.left = To(i, j, @), !.right = To(i, j, @)]]
<1>0. N \in Nat /\ t.root \in 0 .. N /\ DOMAIN t.nodes = 1 .. N
  BY NodeTypes
<1>1. u = [root |-> To(i, j, t.root), nodes |-> q]
  BY DEF Redirect, To
<1>2. ASSUME NEW m \in 1 .. N
      PROVE  /\ q[m] \in Node /\ q[m].key = t.nodes[m].key
             /\ q[m].left = To(i, j, t.nodes[m].left)
             /\ q[m].right = To(i, j, t.nodes[m].right)
             /\ q[m].left \in 0 .. N /\ q[m].right \in 0 .. N
             /\ q[m].left = 0 \/ q[m].left > m
             /\ q[m].right = 0 \/ q[m].right > m
  <2> DEFINE l == t.nodes[m].left
             r == t.nodes[m].right
             n == t.nodes[m]
  <2>1. /\ n \in Node /\ l \in 0 .. N /\ r \in 0 .. N
        /\ l = 0 \/ l > m
        /\ r = 0 \/ r > m
    BY NodeTypes
  <2>2. q[m] = [n EXCEPT !.left = To(i, j, @), !.right = To(i, j, @)]
    BY <1>0
  <2>3. n.left = l /\ n.right = r
    OBVIOUS
  <2>4. \A c \in 0 .. N : c = 0 \/ c > m => To(i, j, c) \in 0 .. N /\ (To(i, j, c) = 0 \/ To(i, j, c) > m)
    BY <1>0 DEF To
  <2>5. To(i, j, l) \in Nat /\ To(i, j, r) \in Nat
    BY <1>0, <2>1, <2>4
  <2> HIDE DEF n, q, l, r
  <2>6. /\ q[m] \in Node /\ q[m].key = n.key
        /\ q[m].left = To(i, j, l) /\ q[m].right = To(i, j, r)
    BY <2>1, <2>2, <2>3, <2>5 DEF Node
  <2> QED
    BY <2>1, <2>4, <2>6 DEF n, l, r
<1>3. q \in Seq(Node) /\ Len(q) = N
  <2>1. q = [m \in 1 .. N |-> q[m]]
    BY <1>0
  <2> HIDE DEF q
  <2>2. q \in [1 .. N -> Node]
    BY <1>2, <2>1
  <2> HIDE DEF N
  <2> QED
    BY <1>0, <2>2
<1> HIDE DEF q
<1>4. To(i, j, t.root) \in 0 .. N
  BY <1>0 DEF To
<1>5. u.nodes = q /\ u.root = To(i, j, t.root) /\ u \in Tree
  BY <1>0, <1>1, <1>3, <1>4 DEF Tree
<1>6. Children(Len(u.nodes), Lefts(u), Rights(u))
  BY <1>2, <1>3, <1>5 DEF Children, Lefts, Rights
<1> QED
  BY <1>2, <1>3, <1>4, <1>5, <1>6 DEF Ranked, Redirected

\* A pointer to a node with one child becomes one to the child: what is below
\* every other pointer loses the node only.
LEMMA RedirectReach ==
  ASSUME NEW t, Ranked(t), NEW i \in 1 .. Len(t.nodes),
         t.nodes[i].left = 0 \/ t.nodes[i].right = 0,
         NEW u, Redirected(u, t, i, OnlyChild(t.nodes[i]))
  PROVE  Reached(u) = Reached(t) \ {i}
<1> DEFINE N == Len(t.nodes)
           j == OnlyChild(t.nodes[i])
<1>0. N \in Nat /\ t.root \in 0 .. N
  BY NodeTypes
<1>1. j \in 0 .. N /\ (j = 0 \/ j > i)
  BY NodeTypes DEF OnlyChild, NULL
<1>2. /\ Ranked(u) /\ Len(u.nodes) = N /\ u.root = To(i, j, t.root)
      /\ \A m \in 1 .. N : /\ u.nodes[m].left = To(i, j, t.nodes[m].left)
                           /\ u.nodes[m].right = To(i, j, t.nodes[m].right)
  BY DEF Redirected
<1>3. PICK f : Walks(f, t) /\ InOrder(t) = f[t.root]
  BY WalkExists
<1>4. PICK g : Walks(g, u) /\ InOrder(u) = g[u.root]
  BY <1>2, WalkExists
<1> DEFINE I == {m \in 0 .. N : In(g[To(i, j, m)]) = In(f[m]) \ {i}}
<1>5. In(f[0]) = {} /\ In(g[0]) = {}
  BY <1>2, <1>3, <1>4, WalkMeets
<1>6. 0 \in I
  BY <1>0, <1>5 DEF To
<1>7. ASSUME NEW m \in 1 .. N, t.nodes[m].left \in I, t.nodes[m].right \in I
      PROVE  m \in I
  <2> DEFINE l == t.nodes[m].left
             r == t.nodes[m].right
  <2>1. In(f[m]) = In(f[l]) \cup {m} \cup In(f[r])
    <3>1. Meets(f, t, m)
      BY <1>3, EachMeets
    <3> QED
      BY <3>1 DEF Meets
  <2>2. In(g[m]) = In(g[To(i, j, l)]) \cup {m} \cup In(g[To(i, j, r)])
    <3>1. In(g[m]) = In(g[u.nodes[m].left]) \cup {m} \cup In(g[u.nodes[m].right])
      <4>1. Ranked(u) /\ Walks(g, u) /\ m \in 1 .. Len(u.nodes)
        BY <1>2, <1>4
      <4>2. Meets(g, u, m)
        BY <4>1, EachMeets
      <4> QED
        BY <4>2 DEF Meets
    <3> QED
      BY <1>2, <3>1
  <2>3. In(g[To(i, j, l)]) = In(f[l]) \ {i} /\ In(g[To(i, j, r)]) = In(f[r]) \ {i}
    BY <1>7
  <2>4. m \in 0 .. N
    BY <1>0
  <2>5. CASE m # i
    BY <2>1, <2>2, <2>3, <2>4, <2>5 DEF To
  <2>6. CASE m = i
    <3>1. To(i, j, m) = j
      BY <2>6 DEF To
    <3>2. i \notin In(f[l]) /\ i \notin In(f[r])
      <4>1. ASSUME NEW c \in 0 .. N, c = 0 \/ c > i PROVE i \notin In(f[c])
        <5>1. CASE c = 0
          BY <1>5, <5>1
        <5>2. CASE c # 0
          <6>1. c \in 1 .. N /\ c > i
            BY <1>0, <4>1, <5>2
          <6>2. ~(i >= c)
            BY <1>0, <6>1
          <6> QED
            BY <1>3, <6>1, <6>2, Below
        <5> QED
          BY <5>1, <5>2
      <4>2. l \in 0 .. N /\ r \in 0 .. N /\ (l = 0 \/ l > i) /\ (r = 0 \/ r > i)
        BY <2>6, NodeTypes
      <4> QED
        BY <4>1, <4>2
    <3>3. (j = l /\ r = 0) \/ (j = r /\ l = 0)
      BY <2>6 DEF OnlyChild, NULL
    <3>4. j # i
      BY <1>0, <1>1
    <3>5. To(i, j, j) = j
      BY DEF To
    <3> HIDE DEF j
    <3>6. In(g[j]) = In(f[j]) \ {i}
      BY <2>3, <3>3, <3>5
    <3>7. In(f[m]) \ {i} = In(f[j])
      BY <1>5, <2>1, <2>6, <3>2, <3>3
    <3>8. In(g[j]) = In(f[m]) \ {i}
      BY <3>2, <3>3, <3>6, <3>7
    <3> QED
      BY <2>4, <3>1, <3>8
  <2> QED
    BY <2>5, <2>6
<1>8. 0 .. N \subseteq I
  <2> HIDE DEF I
  <2> QED
    BY <1>6, <1>7, NodeInduction
<1>9. In(g[To(i, j, t.root)]) = In(f[t.root]) \ {i}
  BY <1>0, <1>8
<1> QED
  BY <1>2, <1>3, <1>4, <1>9 DEF Reached

\* The links alone say what a walk meets.
LEMMA ReachSame ==
  ASSUME NEW t, Ranked(t), NEW u, Ranked(u), u.root = t.root, Len(u.nodes) = Len(t.nodes),
         \A i \in 1 .. Len(t.nodes) : /\ u.nodes[i].left = t.nodes[i].left
                                      /\ u.nodes[i].right = t.nodes[i].right
  PROVE  Reached(u) = Reached(t)
<1>1. PICK f : Walks(f, t) /\ InOrder(t) = f[t.root]
  BY WalkExists
<1>2. PICK g : Walks(g, u) /\ InOrder(u) = g[u.root]
  BY WalkExists
<1>3. Walks(g, t)
  BY <1>2 DEF Walks
<1>4. t.root \in 0 .. Len(t.nodes)
  BY NodeTypes
<1> QED
  BY <1>1, <1>2, <1>3, <1>4, WalkIsOne DEF Reached

\* A search finds what is below the node where it starts.
LEMMA FindsWhatIsBelow ==
  ASSUME NEW t, Ranked(t), NEW span, Ordered(t, 1 .. Len(t.nodes), span), NEW f, Walks(f, t),
         NEW k \in Nat, NEW g, Searches(g, t, k), NEW i \in 0 .. Len(t.nodes),
         NEW x \in In(f[i]), t.nodes[x].key = k
  PROVE  g[i] \in In(f[i])
<1> DEFINE N == Len(t.nodes)
           Fine(j) == \A y \in In(f[j]) : t.nodes[y].key = k => g[j] \in In(f[j])
           I == {j \in 0 .. N : Fine(j)}
<1>0. N \in Nat /\ In(f[0]) = {} /\ \A j \in 1 .. N : Meets(f, t, j)
  BY NodeTypes, WalkMeets, EachMeets
<1>1. 0 \in I
  BY <1>0
<1>2. ASSUME NEW j \in 1 .. N, t.nodes[j].left \in I, t.nodes[j].right \in I
      PROVE  j \in I
  <2> DEFINE l == t.nodes[j].left
             r == t.nodes[j].right
             key == t.nodes[j].key
  <2>0. j \in 0 .. N /\ key \in Nat
    BY <1>0, NodeTypes
  <2> SUFFICES ASSUME NEW y \in In(f[j]), t.nodes[y].key = k PROVE g[j] \in In(f[j])
    BY <2>0
  <2>1. In(f[0]) = {} /\ In(f[j]) = In(f[l]) \cup {j} \cup In(f[r])
    <3>1. Meets(f, t, j)
      BY <1>0
    <3> QED
      BY <1>0, <3>1 DEF Meets
  <2>2. /\ l \in 1 .. N \cup {0} /\ r \in 1 .. N \cup {0}
        /\ l # 0 => span[l] \subseteq {z \in span[j] : z < key}
        /\ r # 0 => span[r] \subseteq {z \in span[j] : z > key}
    BY DEF Ordered
  <2>3. /\ l # 0 => \A z \in In(f[l]) : t.nodes[z].key \in span[l]
        /\ r # 0 => \A z \in In(f[r]) : t.nodes[z].key \in span[r]
    BY <2>2, WalkGoesUp
  <2>4. g[j] = IF key = k THEN j ELSE IF k > key THEN g[r] ELSE g[l]
    BY DEF Searches, Toward
  <2>5. Fine(l) /\ Fine(r)
    BY <1>2
  <2>6. y = j => key = k
    OBVIOUS
  <2> HIDE DEF l, r, key
  <2>7. CASE key = k
    BY <2>1, <2>4, <2>7
  <2>8. CASE y \in In(f[l])
    <3>1. l # 0
      BY <2>1, <2>8
    <3>2. k < key
      BY <2>2, <2>3, <2>8, <3>1
    <3>3. g[j] = g[l]
      BY <2>0, <2>4, <3>2
    <3>4. g[l] \in In(f[l])
      BY <2>5, <2>8
    <3> QED
      BY <2>1, <3>3, <3>4
  <2>9. CASE y \in In(f[r])
    <3>1. r # 0
      BY <2>1, <2>9
    <3>2. k > key
      BY <2>2, <2>3, <2>9, <3>1
    <3>3. g[j] = g[r]
      BY <2>0, <2>4, <3>2
    <3>4. g[r] \in In(f[r])
      BY <2>5, <2>9
    <3> QED
      BY <2>1, <3>3, <3>4
  <2> QED
    BY <2>1, <2>6, <2>7, <2>8, <2>9
<1>3. 0 .. N \subseteq I
  <2> HIDE DEF I
  <2> QED
    BY <1>1, <1>2, NodeInduction
<1> QED
  BY <1>3

\* A tree that lost node i as ktree_del takes a node with one child out.
LEMMA RedirectSorted ==
  ASSUME NEW t, Ranked(t), NEW i \in 1 .. Len(t.nodes),
         t.nodes[i].left = 0 \/ t.nodes[i].right = 0,
         NEW u, Redirected(u, t, i, OnlyChild(t.nodes[i])),
         NEW D, NEW span, Ordered(u, D, span)
  PROVE  Sorted(u) /\ KeysOf(u) = {t.nodes[m].key : m \in Reached(t) \ {i}}
<1>1. /\ Ranked(u) /\ Len(u.nodes) = Len(t.nodes)
      /\ \A m \in 1 .. Len(t.nodes) : u.nodes[m].key = t.nodes[m].key
  BY DEF Redirected
<1>2. Reached(u) = Reached(t) \ {i}
  BY RedirectReach
<1>3. /\ Sorted(u) /\ KeysOf(u) = {u.nodes[m].key : m \in Reached(u)}
      /\ Reached(u) \subseteq 1 .. Len(u.nodes)
  BY <1>1, OrderedIsSorted
<1>4. \A m \in Reached(u) : u.nodes[m].key = t.nodes[m].key
  BY <1>1, <1>3
<1>5. KeysOf(u) = {t.nodes[m].key : m \in Reached(u)}
  BY <1>3, <1>4
<1> QED
  BY <1>2, <1>3, <1>5

\* A node with at most one child goes.
LEMMA OneChildGoes ==
  ASSUME NEW t, Ranked(t), NEW span, Ordered(t, 1 .. Len(t.nodes), span),
         NEW i \in 1 .. Len(t.nodes), t.nodes[i].left = 0 \/ t.nodes[i].right = 0,
         NEW u, u = Redirect(t, i, OnlyChild(t.nodes[i]))
  PROVE  Sorted(u) /\ KeysOf(u) = {t.nodes[m].key : m \in Reached(t) \ {i}}
<1> DEFINE N == Len(t.nodes)
           j == OnlyChild(t.nodes[i])
           D == 1 .. N \ {i}
<1>0. N \in Nat /\ t.root \in 0 .. N
  BY NodeTypes
<1>1. /\ j \in 0 .. N /\ (j = 0 \/ j > i) /\ j # i
      /\ j = t.nodes[i].left \/ j = t.nodes[i].right
  BY NodeTypes DEF OnlyChild, NULL
<1>2. Redirected(u, t, i, j)
  BY <1>1, RedirectShape
<1> HIDE DEF j
<1>3. \A p \in 0 .. N : To(i, j, p) \in D \cup {0}
  BY <1>0, <1>1 DEF To
<1>4. span \in [1 .. N -> SUBSET Nat] /\ t.root \in 0 .. N
  BY <1>0 DEF Ordered
<1>5. j # 0 => span[j] \subseteq span[i]
  BY <1>1 DEF Ordered
<1>6. ASSUME NEW m \in D
      PROVE  LET n == u.nodes[m] IN
             /\ n.key \in span[m] /\ n.left \in D \cup {0} /\ n.right \in D \cup {0}
             /\ n.left # 0 => span[n.left] \subseteq {x \in span[m] : x < n.key}
             /\ n.right # 0 => span[n.right] \subseteq {x \in span[m] : x > n.key}
  <2> DEFINE l == t.nodes[m].left
             r == t.nodes[m].right
             key == t.nodes[m].key
  <2>1. /\ key \in span[m] /\ l \in 0 .. N /\ r \in 0 .. N
        /\ l # 0 => span[l] \subseteq {x \in span[m] : x < key}
        /\ r # 0 => span[r] \subseteq {x \in span[m] : x > key}
    BY NodeTypes DEF Ordered
  <2>2. u.nodes[m].key = key /\ u.nodes[m].left = To(i, j, l) /\ u.nodes[m].right = To(i, j, r)
    BY <1>2 DEF Redirected
  <2>3. ASSUME NEW p \in 0 .. N, To(i, j, p) # 0
        PROVE  p # 0 /\ span[To(i, j, p)] \subseteq span[p]
    BY <1>0, <1>5, <2>3 DEF To
  <2> HIDE DEF l, r, key, D
  <2> QED
    BY <1>3, <2>1, <2>2, <2>3
<1>7. Ordered(u, D, span)
  <2>1. Len(u.nodes) = N /\ u.root \in D \cup {0}
    BY <1>2, <1>3, <1>4 DEF Redirected
  <2> QED
    BY <1>4, <1>6, <2>1 DEF Ordered
<1> QED
  BY <1>2, <1>7, RedirectSorted DEF j

\* u is t with another key in node i.
Rekeyed(u, t, i, k) ==
  /\ Ranked(u) /\ u.root = t.root /\ Len(u.nodes) = Len(t.nodes)
  /\ \A m \in 1 .. Len(t.nodes) :
       /\ u.nodes[m].key = IF m = i THEN k ELSE t.nodes[m].key
       /\ u.nodes[m].left = t.nodes[m].left /\ u.nodes[m].right = t.nodes[m].right

\* A node gets another key.
LEMMA KeyChanged ==
  ASSUME NEW t, Ranked(t), NEW i \in 1 .. Len(t.nodes), NEW k \in Nat,
         NEW u, u = [t EXCEPT !.nodes[i].key = k]
  PROVE  Rekeyed(u, t, i, k)
<1> DEFINE N == Len(t.nodes)
           node == [t.nodes[i] EXCEPT !.key = k]
           s == [t.nodes EXCEPT ![i] = node]
<1>0. N \in Nat /\ t.nodes \in Seq(Node) /\ t.nodes[i] \in Node /\ t \in Tree /\ t.root \in 0 .. N
  BY NodeTypes DEF Ranked
<1>1. /\ node \in Node /\ node.key = k
      /\ node.left = t.nodes[i].left /\ node.right = t.nodes[i].right
  BY <1>0, NodeSet
<1>2. u = [t EXCEPT !.nodes = s]
  OBVIOUS
<1> HIDE DEF node
<1>3. /\ s \in Seq(Node) /\ Len(s) = N
      /\ \A m \in 1 .. N : s[m] = IF m = i THEN node ELSE t.nodes[m]
  BY <1>0, <1>1
<1> HIDE DEF s
<1>4. u \in Tree /\ u.root = t.root /\ u.nodes = s
  BY <1>0, <1>2, <1>3 DEF Tree
<1>5. \A m \in 1 .. N :
        /\ u.nodes[m].key = IF m = i THEN k ELSE t.nodes[m].key
        /\ u.nodes[m].left = t.nodes[m].left /\ u.nodes[m].right = t.nodes[m].right
  BY <1>1, <1>3, <1>4
<1>6. Lefts(u) = Lefts(t) /\ Rights(u) = Rights(t)
  BY <1>3, <1>4, <1>5 DEF Lefts, Rights
<1> QED
  BY <1>0, <1>3, <1>4, <1>5, <1>6 DEF Ranked, Rekeyed

\* A node with two children gets the key of its successor, which goes.
LEMMA SuccessorGoes ==
  ASSUME NEW t, Ranked(t), NEW span, Ordered(t, 1 .. Len(t.nodes), span),
         NEW i \in Reached(t), t.nodes[i].left # 0, t.nodes[i].right # 0,
         NEW f, Walks(f, t), InOrder(t) = f[t.root],
         NEW s \in In(f[t.nodes[i].right]), t.nodes[s].left = 0,
         \A x \in In(f[t.nodes[i].right]) : x # s => t.nodes[s].key < t.nodes[x].key,
         NEW c, Rekeyed(c, t, i, t.nodes[s].key),
         NEW u, Redirected(u, c, s, t.nodes[s].right)
  PROVE  Sorted(u) /\ KeysOf(u) = {t.nodes[m].key : m \in Reached(t) \ {i}}
<1> DEFINE N == Len(t.nodes)
           r == t.nodes[i].right
           k == t.nodes[s].key
           j == t.nodes[s].right
           D == 1 .. N \ {s}
<1>0. N \in Nat /\ t.root \in 0 .. N /\ i \in 1 .. N /\ r \in 1 .. N /\ r > i
  <2>1. i \in 1 .. N
    BY OrderedIsSorted
  <2> QED
    BY <2>1, NodeTypes
<1>1. /\ Walks(f, t) /\ InOrder(t) = f[t.root] /\ In(f[0]) = {}
      /\ \A m \in 1 .. N : Meets(f, t, m)
  BY WalkMeets, EachMeets
<1> DEFINE B == In(f[r])
<1>2. /\ s \in B /\ t.nodes[s].left = 0
      /\ \A x \in B : x # s => k < t.nodes[x].key
  OBVIOUS
<1>3. /\ B \subseteq 1 .. N
      /\ \A x \in B : /\ x >= r
                      /\ t.nodes[x].left # 0 => t.nodes[x].left \in B
                      /\ t.nodes[x].right # 0 => t.nodes[x].right \in B
  BY <1>0, <1>1, Below, WalkMeets
<1>4. /\ s \in 1 .. N /\ s # i /\ i \notin B /\ k \in Nat /\ j \in 0 .. N /\ (j = 0 \/ j > s)
      /\ j # s /\ r \in B
  <2>1. s \in 1 .. N /\ s >= r /\ ~(i >= r)
    BY <1>0, <1>2, <1>3
  <2>2. i \notin B /\ s # i
    BY <1>3, <2>1
  <2>3. k \in Nat /\ j \in 0 .. N /\ (j = 0 \/ j > s)
    BY <2>1, NodeTypes
  <2>4. r \in B
    <3>1. Meets(f, t, r)
      BY <1>0, <1>1
    <3> HIDE DEF r
    <3> QED
      BY <3>1 DEF Meets
  <2> QED
    BY <2>1, <2>2, <2>3, <2>4
<1>5. /\ Ranked(c) /\ c.root = t.root /\ Len(c.nodes) = N
      /\ \A m \in 1 .. N :
           /\ c.nodes[m].key = IF m = i THEN k ELSE t.nodes[m].key
           /\ c.nodes[m].left = t.nodes[m].left /\ c.nodes[m].right = t.nodes[m].right
  BY DEF Rekeyed
<1>6. Redirected(u, c, s, j) /\ OnlyChild(c.nodes[s]) = j
  <2>1. Redirected(u, c, s, j)
    OBVIOUS
  <2>2. OnlyChild(c.nodes[s]) = j
    BY <1>2, <1>4, <1>5 DEF OnlyChild, NULL
  <2> QED
    BY <2>1, <2>2
<1> HIDE DEF j, k, r
<1>7. /\ Len(u.nodes) = N /\ u.root = To(s, j, t.root)
      /\ \A m \in 1 .. N :
           /\ u.nodes[m].key = IF m = i THEN k ELSE t.nodes[m].key
           /\ u.nodes[m].left = To(s, j, t.nodes[m].left)
           /\ u.nodes[m].right = To(s, j, t.nodes[m].right)
  BY <1>5, <1>6 DEF Redirected
<1>8. ASSUME NEW m \in 1 .. N
      PROVE  /\ t.nodes[m].key \in span[m] /\ span[m] \subseteq Nat
             /\ t.nodes[m].left \in 0 .. N /\ t.nodes[m].right \in 0 .. N
             /\ t.nodes[m].left # 0 =>
                  span[t.nodes[m].left] \subseteq {x \in span[m] : x < t.nodes[m].key}
             /\ t.nodes[m].right # 0 =>
                  span[t.nodes[m].right] \subseteq {x \in span[m] : x > t.nodes[m].key}
  BY NodeTypes DEF Ordered
<1>9. k \in span[r] /\ k > t.nodes[i].key /\ k \in span[i]
  <2>1. k \in span[r]
    <3>1. r # 0 /\ r \in 1 .. N \cup {0}
      BY <1>0
    <3>2. \A x \in In(f[r]) : t.nodes[x].key \in span[r]
      BY <1>1, <3>1, WalkGoesUp
    <3> QED
      BY <1>2, <3>2 DEF k
  <2>2. r # 0 /\ span[r] \subseteq {x \in span[i] : x > t.nodes[i].key}
    BY <1>0, <1>8 DEF r
  <2> QED
    BY <2>1, <2>2
<1> DEFINE narrow == [m \in 1 .. N |-> IF m \in B THEN {x \in span[m] : x > k} ELSE span[m]]
<1>10. \A p \in 0 .. N : To(s, j, p) \in D \cup {0}
  BY <1>0, <1>4 DEF To
<1>11. \A p \in 0 .. N : To(s, j, p) # 0 =>
         /\ p # 0 /\ To(s, j, p) \in 1 .. N /\ span[To(s, j, p)] \subseteq span[p]
         /\ p \in B => To(s, j, p) \in B
  <2> SUFFICES ASSUME NEW p \in 0 .. N, To(s, j, p) # 0
               PROVE  /\ p # 0 /\ To(s, j, p) \in 1 .. N /\ span[To(s, j, p)] \subseteq span[p]
                      /\ p \in B => To(s, j, p) \in B
    OBVIOUS
  <2>1. CASE p = s
    <3>1. To(s, j, p) = j /\ j # 0 /\ j \in 1 .. N
      BY <1>4, <2>1 DEF To
    <3>2. s # 0 /\ j \in B
      BY <1>2, <1>3, <1>4, <3>1 DEF j
    <3>3. span[j] \subseteq span[s]
      BY <1>4, <1>8, <3>1 DEF j
    <3> QED
      BY <2>1, <3>1, <3>2, <3>3
  <2>2. CASE p # s
    BY <1>0, <2>2 DEF To
  <2> QED
    BY <2>1, <2>2
<1>12. \A m \in 1 .. N : narrow[m] \subseteq span[m] /\ (m \in B => narrow[m] = {x \in span[m] : x > k})
                         /\ (m \notin B => narrow[m] = span[m])
  OBVIOUS
<1>13. ASSUME NEW m \in D
       PROVE  LET n == u.nodes[m] IN
              /\ n.key \in narrow[m] /\ n.left \in D \cup {0} /\ n.right \in D \cup {0}
              /\ n.left # 0 => narrow[n.left] \subseteq {x \in narrow[m] : x < n.key}
              /\ n.right # 0 => narrow[n.right] \subseteq {x \in narrow[m] : x > n.key}
  <2> DEFINE l == t.nodes[m].left
             rr == t.nodes[m].right
             key == t.nodes[m].key
             newKey == u.nodes[m].key
             l1 == u.nodes[m].left
             r1 == u.nodes[m].right
  <2>0. m \in 1 .. N /\ m # s
    OBVIOUS
  <2>1. /\ key \in span[m] /\ l \in 0 .. N /\ rr \in 0 .. N /\ span[m] \subseteq Nat
        /\ l # 0 => span[l] \subseteq {x \in span[m] : x < key}
        /\ rr # 0 => span[rr] \subseteq {x \in span[m] : x > key}
    BY <1>8
  <2>2. /\ newKey = IF m = i THEN k ELSE key
        /\ l1 = To(s, j, l) /\ r1 = To(s, j, rr)
    BY <1>7
  <2>3. l1 \in D \cup {0} /\ r1 \in D \cup {0}
    BY <1>10, <2>1, <2>2
  <2>4. l1 # 0 => /\ l1 \in 1 .. N /\ span[l1] \subseteq {x \in span[m] : x < key}
                  /\ m \in B => l1 \in B
    BY <1>3, <1>11, <2>1, <2>2
  <2>5. r1 # 0 => /\ r1 \in 1 .. N /\ span[r1] \subseteq {x \in span[m] : x > key}
                  /\ m \in B \cup {i} => r1 \in B
    <3>1. m = i => rr \in B
      BY <1>4 DEF r
    <3>2. m \in B /\ rr # 0 => rr \in B
      BY <1>3
    <3> HIDE DEF l, rr, key, newKey, l1, r1, D, B, narrow
    <3> QED
      BY <1>11, <2>1, <2>2, <3>1, <3>2
  <2>6. m \in B => key > k /\ key \in Nat
    BY <1>2, <1>4, <2>0, <2>1
  <2>7. m = i => key < k /\ k \in span[m] /\ key \in Nat /\ m \notin B
    BY <1>0, <1>4, <1>9, <2>1
  <2> HIDE DEF l, rr, key, newKey, l1, r1, D, B, narrow
  <2>8. newKey \in narrow[m]
    BY <1>12, <2>0, <2>1, <2>2, <2>6, <2>7
  <2>9. ASSUME l1 # 0, NEW x \in narrow[l1] PROVE x \in narrow[m] /\ x < newKey
    <3>1. x \in span[l1] /\ x \in span[m] /\ x < key /\ x \in Nat
      BY <1>12, <2>1, <2>4, <2>9
    <3>2. x \in narrow[m]
      <4>1. m \in B => x > k
        BY <1>12, <2>4, <2>9
      <4> QED
        BY <1>12, <2>0, <3>1, <4>1
    <3>3. x < newKey
      <4>1. CASE m = i
        <5>1. newKey = k /\ key < k /\ key \in Nat
          BY <2>2, <2>7, <4>1
        <5> QED
          BY <1>4, <3>1, <5>1
      <4>2. CASE m # i
        BY <2>2, <3>1, <4>2
      <4> QED
        BY <4>1, <4>2
    <3> QED
      BY <3>2, <3>3
  <2>10. ASSUME r1 # 0, NEW x \in narrow[r1] PROVE x \in narrow[m] /\ x > newKey
    <3>1. x \in span[r1] /\ x \in span[m] /\ x > key /\ x \in Nat
      BY <1>12, <2>1, <2>5, <2>10
    <3>2. m \in B \cup {i} => x > k
      BY <1>12, <2>5, <2>10
    <3>3. x \in narrow[m]
      BY <1>12, <2>0, <3>1, <3>2
    <3>4. x > newKey
      BY <2>2, <3>1, <3>2
    <3> QED
      BY <3>3, <3>4
  <2>11. /\ l1 # 0 => narrow[l1] \subseteq {x \in narrow[m] : x < newKey}
         /\ r1 # 0 => narrow[r1] \subseteq {x \in narrow[m] : x > newKey}
    BY <2>9, <2>10
  <2> QED
    BY <2>3, <2>8, <2>11 DEF l1, r1, newKey
<1>14. Ordered(u, D, narrow)
  <2>1. span \in [1 .. N -> SUBSET Nat]
    BY DEF Ordered
  <2>2. narrow \in [1 .. N -> SUBSET Nat]
    BY <2>1
  <2>3. u.root \in D \cup {0}
    BY <1>0, <1>7, <1>10
  <2> HIDE DEF narrow
  <2>4. D \subseteq 1 .. N
    OBVIOUS
  <2> HIDE DEF D
  <2> QED
    BY <1>7, <1>13, <2>2, <2>3, <2>4 DEF Ordered
<1> HIDE DEF narrow, D, B
<1>15. Sorted(u) /\ KeysOf(u) = {c.nodes[m].key : m \in Reached(c) \ {s}}
  <2>1. c.nodes[s].left = 0 /\ s \in 1 .. Len(c.nodes)
    BY <1>2, <1>4, <1>5
  <2> QED
    BY <1>5, <1>6, <1>14, <2>1, RedirectSorted
<1>16. Reached(c) = Reached(t) /\ Reached(t) \subseteq 1 .. N
  BY <1>5, ReachSame, OrderedIsSorted
<1>17. s \in Reached(t)
  <2>1. CASE t.root = 0
    <3>1. Reached(t) = {}
      BY <1>1, <2>1, WalkMeets DEF Reached
    <3> QED
      BY <3>1
  <2>2. CASE t.root # 0
    <3>1. t.root \in 1 .. N
      BY <1>0, <2>2
    <3>2. Reached(t) = In(f[t.root])
      BY <1>1 DEF Reached
    <3>3. r \in Reached(t)
      <4>1. \A x \in In(f[t.root]) : t.nodes[x].right # 0 => t.nodes[x].right \in In(f[t.root])
        BY <1>1, <3>1, Below
      <4>2. r = t.nodes[i].right /\ r # 0
        BY <1>0 DEF r
      <4> QED
        BY <3>2, <4>1, <4>2
    <3> DEFINE I == {m \in 0 .. N : m = 0 \/ (m \in Reached(t) => In(f[m]) \subseteq Reached(t))}
    <3>4. 0 \in I
      BY <1>0
    <3>5. ASSUME NEW m \in 1 .. N, t.nodes[m].left \in I, t.nodes[m].right \in I
          PROVE  m \in I
      <4> SUFFICES ASSUME m \in Reached(t) PROVE In(f[m]) \subseteq Reached(t)
        BY <1>0
      <4>1. /\ t.nodes[m].left # 0 => t.nodes[m].left \in Reached(t)
            /\ t.nodes[m].right # 0 => t.nodes[m].right \in Reached(t)
        BY <1>1, <3>1, <3>2, Below
      <4>2. /\ In(f[0]) = {}
            /\ In(f[m]) = In(f[t.nodes[m].left]) \cup {m} \cup In(f[t.nodes[m].right])
        <5>1. Meets(f, t, m)
          BY <1>1
        <5> QED
          BY <1>1, <5>1 DEF Meets
      <4> QED
        BY <3>5, <4>1, <4>2
    <3>6. 0 .. N \subseteq I
      <4> HIDE DEF I
      <4> QED
        BY <3>4, <3>5, NodeInduction
    <3>7. In(f[r]) \subseteq Reached(t)
      <4>1. r \in 0 .. N /\ r # 0
        BY <1>0
      <4> QED
        BY <3>3, <3>6, <4>1
    <3> QED
      BY <1>2, <3>7 DEF B
  <2> QED
    BY <2>1, <2>2
<1>18. {c.nodes[m].key : m \in Reached(c) \ {s}} = {t.nodes[m].key : m \in Reached(t) \ {i}}
  <2>1. ASSUME NEW m \in Reached(t), m # s
        PROVE  \E x \in Reached(t) \ {i} : c.nodes[m].key = t.nodes[x].key
    <3>1. CASE m = i
      <4>1. c.nodes[m].key = t.nodes[s].key
        BY <1>0, <1>5, <3>1 DEF k
      <4> QED
        BY <1>4, <1>17, <4>1
    <3>2. CASE m # i
      <4>1. c.nodes[m].key = t.nodes[m].key
        BY <1>5, <1>16, <3>2
      <4> QED
        BY <3>2, <4>1
    <3> QED
      BY <3>1, <3>2
  <2>2. ASSUME NEW m \in Reached(t), m # i
        PROVE  \E x \in Reached(t) \ {s} : t.nodes[m].key = c.nodes[x].key
    <3>1. CASE m = s
      <4>1. c.nodes[i].key = t.nodes[m].key
        BY <1>0, <1>5, <3>1 DEF k
      <4> QED
        BY <1>4, <4>1
    <3>2. CASE m # s
      <4>1. c.nodes[m].key = t.nodes[m].key
        BY <1>5, <1>16, <2>2
      <4> QED
        BY <3>2, <4>1
    <3> QED
      BY <3>1, <3>2
  <2> DEFINE P == {c.nodes[m].key : m \in Reached(t) \ {s}}
             Q == {t.nodes[m].key : m \in Reached(t) \ {i}}
  <2>3. P \subseteq Q
    BY <2>1
  <2>4. Q \subseteq P
    BY <2>2
  <2>5. P = Q
    <3> HIDE DEF P, Q
    <3> QED
      BY <2>3, <2>4
  <2> QED
    BY <1>16, <2>5
<1> QED
  BY <1>15, <1>18

-----------------------------------------------------------------------------
\* ktree_del of a key of a search tree leaves the others, in order.
THEOREM DeleteTakesOneKey ==
  ASSUME NEW t, SearchTree(t)
  PROVE  /\ Sorted(t)
         /\ \A k \in KeysOf(t) :
              Sorted(ktree_del(t, k)) /\ KeysOf(ktree_del(t, k)) = KeysOf(t) \ {k}
<1> DEFINE N == Len(t.nodes)
<1>0. Ranked(t) /\ t.root # 0
  BY DEF SearchTree
<1>1. PICK span : Ordered(t, 1 .. N, span)
  BY <1>0, PlacedIsOrdered DEF SearchTree
<1>2. /\ Sorted(t) /\ KeysOf(t) = {t.nodes[i].key : i \in Reached(t)}
      /\ Reached(t) \subseteq 1 .. N
      /\ \A i, j \in Reached(t) : t.nodes[i].key = t.nodes[j].key => i = j
  BY <1>0, <1>1, OrderedIsSorted
<1>3. ASSUME NEW k \in KeysOf(t)
      PROVE  Sorted(ktree_del(t, k)) /\ KeysOf(ktree_del(t, k)) = KeysOf(t) \ {k}
  <2> DEFINE i == ktree_search(t, k)
             n == t.nodes[i]
             u == ktree_del(t, k)
  <2>1. PICK x \in Reached(t) : t.nodes[x].key = k
    BY <1>2
  <2>2. k \in Nat
    BY <1>0, <1>2, <2>1, NodeTypes
  <2>3. i \in Reached(t) /\ i \in 1 .. N /\ t.nodes[i].key = k
    <3>1. PICK g : Searches(g, t, k) /\ i = g[t.root]
      BY <1>0, <2>2, SearchExists
    <3>2. PICK f : Walks(f, t) /\ InOrder(t) = f[t.root]
      BY <1>0, WalkExists
    <3>3. t.root \in 0 .. N
      BY <1>0, NodeTypes
    <3>4. i \in Reached(t)
      BY <1>0, <1>1, <2>1, <2>2, <3>1, <3>2, <3>3, FindsWhatIsBelow DEF Reached
    <3> HIDE DEF i
    <3>5. i \in 1 .. N /\ i # 0
      BY <1>2, <3>4
    <3>6. i # 0 => t.nodes[i].key = k
      BY <1>0, <2>2, SearchResult DEF i
    <3> QED
      BY <3>4, <3>5, <3>6
  <2>4. i # 0
    BY <2>3
  <2>5. Sorted(u) /\ KeysOf(u) = {t.nodes[m].key : m \in Reached(t) \ {i}}
    <3>1. CASE n.left = 0 \/ n.right = 0
      <4>1. u = Redirect(t, i, OnlyChild(n))
        BY <2>4, <3>1 DEF ktree_del, NULL
      <4> HIDE DEF i, u
      <4> QED
        BY <1>0, <1>1, <2>3, <3>1, <4>1, OneChildGoes
    <3>2. CASE ~(n.left = 0 \/ n.right = 0)
      <4> DEFINE s == ktree_min_key(t, n.right)
                 c == [t EXCEPT !.nodes[i].key = t.nodes[s].key]
      <4>1. u = Redirect(c, s, t.nodes[s].right)
        BY <2>4, <3>2 DEF ktree_del, NULL
      <4>2. t.nodes[i].left # 0 /\ t.nodes[i].right # 0 /\ t.nodes[i].right \in 1 .. N
        BY <1>0, <2>3, <3>2, NodeTypes
      <4>3. c = [t EXCEPT !.nodes[i].key = t.nodes[s].key] /\ s = ktree_min_key(t, t.nodes[i].right)
        OBVIOUS
      <4> HIDE DEF i, u, s, c
      <4>4. PICK f : Walks(f, t) /\ InOrder(t) = f[t.root]
        BY <1>0, WalkExists
      <4>5. /\ s \in In(f[t.nodes[i].right]) /\ t.nodes[s].left = 0
            /\ \A y \in In(f[t.nodes[i].right]) : y # s => t.nodes[s].key < t.nodes[y].key
        BY <1>0, <1>1, <4>2, <4>3, <4>4, LeastKey
      <4>6. In(f[t.nodes[i].right]) \subseteq 1 .. N
        BY <1>0, <4>2, <4>4, WalkMeets
      <4>7. /\ s \in 1 .. N /\ t.nodes[s].key \in Nat /\ t.nodes[s].right \in 0 .. N
            /\ t.nodes[s].right = 0 \/ t.nodes[s].right > s
        BY <1>0, <4>5, <4>6, NodeTypes
      <4>8. Rekeyed(c, t, i, t.nodes[s].key)
        BY <1>0, <2>3, <4>3, <4>7, KeyChanged
      <4>9. Redirected(u, c, s, t.nodes[s].right)
        <5>1. Ranked(c) /\ Len(c.nodes) = N
          BY <4>8 DEF Rekeyed
        <5> QED
          BY <4>1, <4>7, <5>1, RedirectShape
      <4> QED
        BY <1>0, <1>1, <2>3, <4>2, <4>4, <4>5, <4>8, <4>9, SuccessorGoes
    <3> QED
      BY <3>1, <3>2
  <2>6. {t.nodes[m].key : m \in Reached(t) \ {i}} = KeysOf(t) \ {k}
    <3> HIDE DEF i
    <3> QED
      BY <1>2, <2>3
  <2> QED
    BY <2>5, <2>6
<1> QED
  BY <1>2, <1>3

-----------------------------------------------------------------------------
(***************************************************************************)
(* Values: what is computed from values is a value.                        *)
(***************************************************************************)

\* The two powers that bound the integers.
LEMMA PowersDouble ==
  /\ PowerOfTwo[IntBits - 1] \in Nat \ {0}
  /\ PowerOfTwo[IntBits] = 2 * PowerOfTwo[IntBits - 1]
<1> DEFINE S == Nat \ {0}
           step == [n \in S |-> 2 * n]
           Once(g) == [n \in 0 .. IntBits |-> IF n = 0 THEN 1 ELSE 2 * g[n - 1]]
<1>0. IntBits \in Nat /\ IntBits - 1 \in 0 .. IntBits /\ IntBits \in 0 .. IntBits /\ IntBits # 0
  BY ValuesAssumption
<1>1. PICK f : Iterates(f, IntBits, S, 1, step)
  <2>1. step \in [S -> S] /\ 1 \in S
    OBVIOUS
  <2> HIDE DEF step, S
  <2> QED
    BY <1>0, <2>1, IterationExists
<1>2. f \in [0 .. IntBits -> S] /\ f[0] = 1 /\ \A n \in 0 .. IntBits - 1 : f[n + 1] = 2 * f[n]
  <2>1. \A n \in 0 .. IntBits - 1 : n \in 0 .. IntBits
    BY <1>0
  <2> QED
    BY <1>1, <2>1 DEF Iterates
<1>3. f = Once(f)
  <2>1. ASSUME NEW n \in 0 .. IntBits PROVE f[n] = Once(f)[n]
    <3>1. CASE n = 0
      BY <1>2, <3>1
    <3>2. CASE n # 0
      <4>1. n - 1 \in 0 .. IntBits - 1 /\ (n - 1) + 1 = n
        BY <1>0, <3>2
      <4>2. f[(n - 1) + 1] = 2 * f[n - 1]
        BY <1>2, <4>1
      <4> QED
        BY <3>2, <4>1, <4>2
    <3> QED
      BY <3>1, <3>2
  <2> QED
    BY <1>2, <2>1
<1>4. PowerOfTwo = CHOOSE g : g = Once(g)
  BY DEF PowerOfTwo
<1>5. PowerOfTwo = Once(PowerOfTwo)
  <2> HIDE DEF Once
  <2> QED
    BY <1>3, <1>4
<1>6. PowerOfTwo[0] = 1 /\ \A n \in 1 .. IntBits : PowerOfTwo[n] = 2 * PowerOfTwo[n - 1]
  <2>1. \A n \in 0 .. IntBits : PowerOfTwo[n] = Once(PowerOfTwo)[n]
    <3> HIDE DEF Once
    <3> QED
      BY <1>5
  <2>2. Once(PowerOfTwo)[0] = 1
    BY <1>0
  <2>3. \A n \in 1 .. IntBits : Once(PowerOfTwo)[n] = 2 * PowerOfTwo[n - 1]
    BY <1>0
  <2>4. 0 \in 0 .. IntBits /\ \A n \in 1 .. IntBits : n \in 0 .. IntBits
    BY <1>0
  <2> HIDE DEF Once
  <2> QED
    BY <2>1, <2>2, <2>3, <2>4
<1> DEFINE I == {n \in 0 .. IntBits : PowerOfTwo[n] \in S}
<1>7. 0 .. IntBits \subseteq I
  <2>1. 0 \in I
    BY <1>0, <1>6
  <2>2. ASSUME NEW n \in 0 .. IntBits - 1, n \in I PROVE n + 1 \in I
    <3>1. n + 1 \in 0 .. IntBits /\ n + 1 \in 1 .. IntBits /\ (n + 1) - 1 = n
      BY <1>0
    <3>2. PowerOfTwo[n + 1] = 2 * PowerOfTwo[n]
      BY <1>6, <3>1
    <3> QED
      BY <2>2, <3>1, <3>2
  <2> HIDE DEF I
  <2> QED
    BY <1>0, <2>1, <2>2, BoundedInduction
<1> QED
  BY <1>0, <1>6, <1>7

\* A remainder.
LEMMA ModRange ==
  ASSUME NEW a \in Int, NEW q \in Nat \ {0}
  PROVE  a % q \in 0 .. q - 1
  OBVIOUS

\* The integers of IntBits bits, and that Wrap leads to one.
LEMMA IntRange ==
  \E p \in Nat \ {0} :
    IntMin = -p /\ Ints = -p .. p - 1 /\ \A n \in Int : Wrap(n) \in -p .. p - 1
<1> DEFINE p == PowerOfTwo[IntBits - 1]
<1>1. p \in Nat \ {0} /\ PowerOfTwo[IntBits] = 2 * p
  BY PowersDouble
<1>2. IntMin = -p
  BY DEF IntMin
<1> HIDE DEF p
<1>3. Ints = -p .. p - 1
  BY <1>1, <1>2 DEF Ints
<1>4. ASSUME NEW n \in Int PROVE Wrap(n) \in -p .. p - 1
  <2> DEFINE a == n - IntMin
             q == 2 * p
             m == a % q
  <2>1. a \in Int /\ q \in Nat \ {0} /\ q = p + p
    BY <1>1, <1>2
  <2>2. Wrap(n) = m + IntMin
    BY <1>1 DEF Wrap
  <2> HIDE DEF a, q
  <2>3. m \in 0 .. q - 1
    BY <2>1, ModRange
  <2> HIDE DEF m
  <2> QED
    BY <1>1, <1>2, <2>1, <2>2, <2>3
<1> QED
  BY <1>1, <1>2, <1>3, <1>4

\* A quotient of natural numbers.
LEMMA DivRange ==
  ASSUME NEW a \in Nat, NEW b \in Nat \ {0}
  PROVE  a \div b \in 0 .. a /\ (b # 1 /\ a # 0 => a \div b \in 0 .. a - 1)
<1> DEFINE d == a \div b
           r == a % b
<1>1. d \in Int /\ r \in 0 .. b - 1 /\ a = b * d + r
  OBVIOUS
<1> HIDE DEF d, r
<1>2. d >= 0
  <2> SUFFICES ASSUME d <= -1 PROVE FALSE
    BY <1>1
  <2>1. b * d <= -b
    BY <1>1
  <2> QED
    BY <1>1, <2>1
<1>3. b * d >= d
  BY <1>1, <1>2
<1>4. d <= a
  BY <1>1, <1>2, <1>3
<1>5. ASSUME b # 1, a # 0 PROVE d <= a - 1
  <2>1. b >= 2
    BY <1>5
  <2>2. b * d >= 2 * d
    BY <1>1, <1>2, <2>1
  <2> QED
    BY <1>1, <1>2, <1>5, <2>2
<1> QED
  BY <1>1, <1>2, <1>4, <1>5 DEF d

\* Every division the processor allows has an integer for result.
LEMMA QuotientInInts ==
  ASSUME NEW m \in Ints, NEW n \in Ints, n # 0, ~(m = IntMin /\ n = -1)
  PROVE  Quotient(m, n) \in Ints
<1>1. PICK p \in Nat \ {0} : IntMin = -p /\ Ints = -p .. p - 1
  BY IntRange
<1>2. m \in Int /\ n \in Int /\ m >= -p /\ m <= p - 1
  BY <1>1
<1> DEFINE a == Magnitude(m)
           b == Magnitude(n)
           q == a \div b
<1>3. /\ a \in Nat /\ b \in Nat \ {0} /\ a <= p
      /\ a = p => m < 0 /\ (n < 0 => b # 1) /\ a # 0
  BY <1>1, <1>2 DEF Magnitude
<1>4. Quotient(m, n) = IF (m < 0) = (n < 0) THEN q ELSE -q
  BY DEF Quotient
<1> HIDE DEF a, b
<1>5. q \in 0 .. a /\ (b # 1 /\ a # 0 => q \in 0 .. a - 1)
  BY <1>3, DivRange
<1> HIDE DEF q
<1>6. CASE (m < 0) = (n < 0)
  <2>1. Quotient(m, n) = q
    BY <1>4, <1>6
  <2>2. CASE a = p
    <3>1. n < 0
      BY <1>2, <1>3, <1>6, <2>2
    <3> QED
      BY <1>1, <1>3, <1>5, <2>1, <2>2, <3>1
  <2>3. CASE a # p
    BY <1>1, <1>3, <1>5, <2>1, <2>3
  <2> QED
    BY <2>2, <2>3
<1>7. CASE ~((m < 0) = (n < 0))
  <2>1. Quotient(m, n) = -q
    BY <1>4, <1>7
  <2> QED
    BY <1>1, <1>3, <1>5, <2>1
<1> QED
  BY <1>6, <1>7

-----------------------------------------------------------------------------
\* The parts of a value.
LEMMA ValueTypes ==
  /\ \A v \in Values :
       /\ v.type \in {"int", "str", "global"} /\ v.str \in {"own", "help", "quit"}
       /\ v.type = "int" => v.data \in Ints
       /\ v.type = "str" => v.data \in 0 .. MaxLen
       /\ v.type = "global" => v.data = 0
  /\ \A n \in Ints : IntValue(n) \in Values
  /\ \A n \in 0 .. MaxLen : StrValue(n) \in Values
  /\ \A s \in {"own", "help", "quit"} : Global(s) \in Values
<1>1. ASSUME NEW v \in Values
      PROVE  /\ v.type \in {"int", "str", "global"} /\ v.str \in {"own", "help", "quit"}
             /\ v.type = "int" => v.data \in Ints
             /\ v.type = "str" => v.data \in 0 .. MaxLen
             /\ v.type = "global" => v.data = 0
  <2>1. CASE \E n \in Ints : v = IntValue(n)
    BY <2>1 DEF IntValue, Value
  <2>2. CASE \E n \in 0 .. MaxLen : v = StrValue(n)
    BY <2>2 DEF StrValue, Value
  <2>3. CASE \E s \in {"own", "help", "quit"} : v = Global(s)
    BY <2>3 DEF Global, Value
  <2> QED
    BY <2>1, <2>2, <2>3 DEF Values
<1>2. /\ \A n \in Ints : IntValue(n) \in Values
      /\ \A n \in 0 .. MaxLen : StrValue(n) \in Values
      /\ \A s \in {"own", "help", "quit"} : Global(s) \in Values
  BY DEF Values
<1> QED
  BY <1>1, <1>2

\* A copy.
LEMMA CopiedIsValue ==
  ASSUME NEW v \in Values
  PROVE  Copied(v) \in Values
<1>1. CASE v.type = "int"
  BY <1>1, ValueTypes DEF Copied, IntValue
<1>2. CASE v.type = "str"
  BY <1>2, ValueTypes DEF Copied, StrValue
<1>3. CASE v.type = "global"
  BY <1>3, ValueTypes DEF Copied, Global
<1> QED
  BY <1>1, <1>2, <1>3, ValueTypes

\* A length.
LEMMA CappedRange ==
  ASSUME NEW n \in Nat
  PROVE  Capped(n) \in 0 .. MaxLen
  BY ValuesAssumption DEF Capped

\* What __str__ makes.
LEMMA ShownIsValue ==
  ASSUME NEW v \in Values
  PROVE  Shown(v) \in Values
<1>1. CASE v.type = "int"
  <2>1. Shown(v) = StrValue(Capped(IF v.data < 0 THEN 2 ELSE 1))
    BY <1>1 DEF Shown
  <2> QED
    BY <2>1, CappedRange, ValueTypes
<1>2. CASE v.type = "str"
  <2>1. Shown(v) = StrValue(Capped(v.data + 2)) /\ v.data + 2 \in Nat
    BY <1>2, ValueTypes, ValuesAssumption DEF Shown
  <2> QED
    BY <2>1, CappedRange, ValueTypes
<1>3. CASE v.type = "global"
  <2>1. Shown(v) = StrValue(Capped(IF v.str = "own" THEN 6 ELSE 40))
    BY <1>3 DEF Shown
  <2> QED
    BY <2>1, CappedRange, ValueTypes
<1> QED
  BY <1>1, <1>2, <1>3, ValueTypes

\* What an operator makes.
LEMMA OperatedIsValue ==
  ASSUME NEW v \in Values, NEW w \in Values, NEW op, ~DivisionFails(v, op, w)
  PROVE  Operated(v, op, w) \in Values
<1>1. /\ v.type = "int" => v.data \in Ints
      /\ w.type = "int" => w.data \in Ints
      /\ v.type = "str" => v.data \in 0 .. MaxLen
      /\ w.type = "str" => w.data \in 0 .. MaxLen
  BY ValueTypes
<1>2. Ints \subseteq Int /\ \A n \in Int : Wrap(n) \in Ints
  BY IntRange
<1>3. CASE v.type = "int" /\ w.type = "int"
  <2>1. v.data \in Int /\ w.data \in Int /\ v.type # "str"
    BY <1>1, <1>2, <1>3
  <2>2. CASE op = "__add__"
    <3>1. v.data + w.data \in Int /\ Operated(v, op, w) = IntValue(Wrap(v.data + w.data))
      BY <1>3, <2>1, <2>2 DEF Operated
    <3> QED
      BY <1>2, <3>1, ValueTypes
  <2>3. CASE op = "__sub__"
    <3>1. v.data - w.data \in Int /\ Operated(v, op, w) = IntValue(Wrap(v.data - w.data))
      BY <1>3, <2>1, <2>3 DEF Operated
    <3> QED
      BY <1>2, <3>1, ValueTypes
  <2>4. CASE op = "__mul__"
    <3>1. v.data * w.data \in Int
      BY <2>1
    <3>2. Operated(v, op, w) = IntValue(Wrap(v.data * w.data))
      BY <1>3, <2>1, <2>4 DEF Operated
    <3> QED
      BY <1>2, <3>1, <3>2, ValueTypes
  <2>5. CASE op = "__div__"
    <3>1. Operated(v, op, w) = IntValue(Quotient(v.data, w.data))
      BY <1>3, <2>1, <2>5 DEF Operated
    <3>2. w.data # 0 /\ ~(v.data = IntMin /\ w.data = -1)
      BY <1>3, <2>5 DEF DivisionFails
    <3> QED
      BY <1>1, <1>3, <3>1, <3>2, QuotientInInts, ValueTypes
  <2>6. CASE op \notin {"__add__", "__sub__", "__mul__", "__div__"}
    BY <1>3, <2>6 DEF Operated
  <2> QED
    BY <2>2, <2>3, <2>4, <2>5, <2>6
<1>4. CASE v.type = "str" /\ w.type = "str"
  <2>1. CASE op = "__add__"
    <3>1. v.data + w.data \in Nat
      BY <1>1, <1>4, ValuesAssumption
    <3>2. Operated(v, op, w) = StrValue(Capped(v.data + w.data))
      BY <1>4, <2>1 DEF Operated
    <3> QED
      BY <3>1, <3>2, CappedRange, ValueTypes
  <2>2. CASE op # "__add__"
    BY <1>4, <2>2 DEF Operated
  <2> QED
    BY <2>1, <2>2
<1>5. CASE v.type = "str" /\ w.type = "int"
  <2>1. v.data \in Nat /\ w.data \in Int /\ v.data \in 0 .. MaxLen
    <3>1. v.data \in 0 .. MaxLen /\ w.data \in Ints
      BY <1>1, <1>5
    <3>2. v.data \in Nat
      BY <3>1, ValuesAssumption
    <3>3. w.data \in Int
      BY <1>2, <3>1
    <3> QED
      BY <3>1, <3>2, <3>3
  <2>2. CASE op = "__mul__"
    <3>1. Operated(v, op, w) = StrValue(IF w.data < 1 THEN v.data ELSE Capped(v.data * w.data))
      BY <1>5, <2>2 DEF Operated
    <3>2. CASE w.data < 1
      BY <2>1, <3>1, <3>2, ValueTypes
    <3>3. CASE ~(w.data < 1)
      <4>1. w.data \in Nat
        BY <2>1, <3>3
      <4>2. v.data * w.data \in Nat
        BY <2>1, <4>1
      <4> QED
        BY <3>1, <3>3, <4>2, CappedRange, ValueTypes
    <3> QED
      BY <3>2, <3>3
  <2>3. CASE op # "__mul__"
    BY <1>5, <2>3 DEF Operated
  <2> QED
    BY <2>2, <2>3
<1>6. CASE ~(v.type = "int" /\ w.type = "int") /\ ~(v.type = "str" /\ w.type = "str")
             /\ ~(v.type = "str" /\ w.type = "int")
  BY <1>6 DEF Operated
<1> QED
  BY <1>3, <1>4, <1>5, <1>6

-----------------------------------------------------------------------------
(***************************************************************************)
(* The array of all objects: what karray_push and karray_pop do to a list  *)
(* that has each object once.                                              *)
(***************************************************************************)

\* s has each member of L once and nothing else.
Lists(s, L) ==
  s \in Seq(L) /\ IsInjective(s) /\ \A t \in L : \E i \in 1 .. Len(s) : s[i] = t

\* karray_push of an object that is not in the array.
LEMMA AppendLists ==
  ASSUME NEW L, NEW s, Lists(s, L), NEW t, t \notin L
  PROVE  Lists(Append(s, t), L \cup {t})
<1> DEFINE q == Append(s, t)
           M == L \cup {t}
<1>1. s \in Seq(M) /\ s \in Seq(L) /\ Len(s) \in Nat /\ t \in M
  BY DEF Lists
<1>2. /\ q \in Seq(M) /\ Len(q) = Len(s) + 1 /\ q[Len(s) + 1] = t
      /\ \A i \in 1 .. Len(s) : q[i] = s[i] /\ s[i] \in L
  <2> HIDE DEF M
  <2> QED
    BY <1>1
<1>3. DOMAIN q = 1 .. Len(q) /\ DOMAIN s = 1 .. Len(s)
  <2> HIDE DEF q
  <2> QED
    BY <1>1, <1>2
<1> HIDE DEF q
<1>4. IsInjective(q)
  <2> SUFFICES ASSUME NEW a \in 1 .. Len(q), NEW b \in 1 .. Len(q), q[a] = q[b] PROVE a = b
    BY <1>3 DEF IsInjective
  <2>1. \A c \in 1 .. Len(q) : c \in 1 .. Len(s) \/ c = Len(s) + 1
    BY <1>1, <1>2
  <2>2. \A c, d \in 1 .. Len(s) : s[c] = s[d] => c = d
    BY <1>3 DEF Lists, IsInjective
  <2> QED
    BY <1>2, <2>1, <2>2
<1>5. ASSUME NEW u \in M PROVE \E i \in 1 .. Len(q) : q[i] = u
  <2>1. CASE u = t
    <3>1. Len(s) + 1 \in 1 .. Len(q)
      BY <1>1, <1>2
    <3> QED
      BY <1>2, <2>1, <3>1
  <2>2. CASE u \in L
    <3>1. PICK i \in 1 .. Len(s) : s[i] = u
      BY <2>2 DEF Lists
    <3>2. i \in 1 .. Len(q)
      BY <1>1, <1>2
    <3> QED
      BY <1>2, <3>1, <3>2
  <2> QED
    BY <2>1, <2>2
<1>6. Lists(q, M)
  BY <1>2, <1>4, <1>5 DEF Lists
<1> QED
  BY <1>6 DEF q

\* The entries that are left.
LEMMA RemoveIs ==
  ASSUME NEW S, NEW s \in Seq(S), NEW i \in 1 .. Len(s)
  PROVE  LET q == RemoveAt(s, i) IN
         /\ q \in Seq(S) /\ Len(q) = Len(s) - 1
         /\ \A k \in 1 .. Len(s) - 1 : q[k] = IF k < i THEN s[k] ELSE s[k + 1]
<1> DEFINE a == SubSeq(s, 1, i - 1)
           b == SubSeq(s, i + 1, Len(s))
           q == a \o b
<1>0. Len(s) \in Nat /\ i \in Nat /\ i >= 1 /\ i <= Len(s)
  OBVIOUS
<1>1. /\ a \in Seq(S) /\ Len(a) = i - 1
      /\ \A k \in 1 .. i - 1 : a[k] = s[k]
  OBVIOUS
<1>2. /\ b \in Seq(S) /\ Len(b) = Len(s) - i
      /\ \A k \in 1 .. Len(s) - i : b[k] = s[i + k]
  <2>1. b \in Seq(S) /\ Len(b) = Len(s) - i
    BY <1>0
  <2>2. ASSUME NEW k \in 1 .. Len(s) - i PROVE b[k] = s[i + k]
    BY <1>0
  <2> QED
    BY <2>1, <2>2
<1> HIDE DEF a, b
<1>3. q \in Seq(S) /\ Len(q) = Len(s) - 1
  <2>1. q \in Seq(S) /\ Len(q) = Len(a) + Len(b)
    <3>1. a \in Seq(S) /\ b \in Seq(S)
      BY <1>1, <1>2
    <3> QED
      BY <3>1
  <2>2. (i - 1) + (Len(s) - i) = Len(s) - 1
    BY <1>0
  <2> HIDE DEF q
  <2> QED
    BY <1>1, <1>2, <2>1, <2>2
<1>4. ASSUME NEW k \in 1 .. Len(s) - 1 PROVE q[k] = IF k < i THEN s[k] ELSE s[k + 1]
  <2>1. CASE k < i
    <3>1. k \in 1 .. Len(a) /\ k \in 1 .. i - 1
      BY <1>0, <1>1, <2>1
    <3>2. q[k] = a[k]
      BY <1>1, <1>2, <3>1
    <3> QED
      BY <1>1, <2>1, <3>1, <3>2
  <2>2. CASE ~(k < i)
    <3> DEFINE d == k - (i - 1)
    <3>1. d \in 1 .. Len(b) /\ k = Len(a) + d /\ k + 1 = i + d
      BY <1>0, <1>1, <1>2, <2>2
    <3> HIDE DEF d
    <3>2. q[k] = b[d]
      BY <1>1, <1>2, <3>1
    <3> QED
      BY <1>2, <2>2, <3>1, <3>2
  <2> QED
    BY <2>1, <2>2
<1> QED
  BY <1>3, <1>4 DEF RemoveAt, a, b

\* karray_pop of an entry takes its object out.
LEMMA RemoveLists ==
  ASSUME NEW L, NEW s, Lists(s, L), NEW i \in 1 .. Len(s)
  PROVE  /\ s[i] \in L /\ Lists(RemoveAt(s, i), L \ {s[i]})
         /\ Len(RemoveAt(s, i)) = Len(s) - 1
         /\ \A k \in 1 .. Len(s) - 1 : RemoveAt(s, i)[k] = IF k < i THEN s[k] ELSE s[k + 1]
<1> DEFINE q == RemoveAt(s, i)
           M == L \ {s[i]}
           Old(k) == IF k < i THEN k ELSE k + 1
<1>1. s \in Seq(L) /\ Len(s) \in Nat /\ s[i] \in L /\ DOMAIN s = 1 .. Len(s)
  BY DEF Lists
<1>2. /\ q \in Seq(L) /\ Len(q) = Len(s) - 1
      /\ \A k \in 1 .. Len(s) - 1 : q[k] = IF k < i THEN s[k] ELSE s[k + 1]
  BY <1>1, RemoveIs
<1> HIDE DEF q
<1>3. \A k \in 1 .. Len(q) : /\ q[k] = s[Old(k)] /\ Old(k) \in 1 .. Len(s) /\ Old(k) # i
  BY <1>1, <1>2
<1>4. \A a, b \in 1 .. Len(q) : Old(a) = Old(b) => a = b
  BY <1>1, <1>2
<1>5. \A a, b \in 1 .. Len(s) : s[a] = s[b] => a = b
  BY <1>1 DEF Lists, IsInjective
<1>6. DOMAIN q = 1 .. Len(q)
  BY <1>2
<1> HIDE DEF Old
<1>7. IsInjective(q)
  BY <1>3, <1>4, <1>5, <1>6 DEF IsInjective
<1>8. q \in Seq(M)
  <2>1. \A k \in 1 .. Len(q) : q[k] \in M
    <3> SUFFICES ASSUME NEW k \in 1 .. Len(q) PROVE s[Old(k)] \in L /\ s[Old(k)] # s[i]
      BY <1>3
    <3> QED
      BY <1>1, <1>3, <1>5
  <2>2. Len(q) \in Nat /\ q = [k \in 1 .. Len(q) |-> q[k]]
    BY <1>2
  <2> HIDE DEF M
  <2> QED
    BY <2>1, <2>2
<1>9. ASSUME NEW u \in M PROVE \E k \in 1 .. Len(q) : q[k] = u
  <2>1. PICK j \in 1 .. Len(s) : s[j] = u
    BY DEF Lists
  <2>2. j # i
    BY <2>1
  <2>3. CASE j < i
    <3>1. j \in 1 .. Len(q) /\ Old(j) = j
      BY <1>1, <1>2, <2>3 DEF Old
    <3> QED
      BY <1>3, <2>1, <3>1
  <2>4. CASE ~(j < i)
    <3>1. j - 1 \in 1 .. Len(q) /\ Old(j - 1) = j
      BY <1>1, <1>2, <2>2, <2>4 DEF Old
    <3> QED
      BY <1>3, <2>1, <3>1
  <2> QED
    BY <2>3, <2>4
<1>10. Lists(q, M)
  BY <1>7, <1>8, <1>9 DEF Lists
<1> QED
  BY <1>1, <1>2, <1>10 DEF q

\* The array is as long as there are objects.
LEMMA ListLength ==
  ASSUME NEW L, IsFiniteSet(L), NEW s, Lists(s, L)
  PROVE  Len(s) = Cardinality(L)
<1>1. Len(s) \in Nat /\ s \in [1 .. Len(s) -> L]
  BY DEF Lists
<1>2. \A a, b \in 1 .. Len(s) : s[a] = s[b] => a = b
  BY <1>1 DEF Lists, IsInjective
<1>3. s \in Bijection(1 .. Len(s), L)
  BY <1>1, <1>2 DEF Lists, Bijection, Injection, Surjection, IsInjective
<1>4. IsFiniteSet(1 .. Len(s)) /\ Cardinality(1 .. Len(s)) = Len(s)
  BY <1>1, FS_Interval
<1>5. ExistsBijection(1 .. Len(s), L)
  BY <1>3 DEF ExistsBijection
<1> QED
  BY <1>4, <1>5, FS_Bijection

-----------------------------------------------------------------------------
(***************************************************************************)
(* The state of the interpreter.  Linked says where references and names   *)
(* stand: it is what makes the other invariants inductive.                 *)
(***************************************************************************)

\* Live objects, hashes, and what a hash leads to.
LiveIn(m) == {t \in Addr : m.obj[t] # NoObject}
NameHashes == {Hash[x] : x \in Names}
Of(m, h) == khashmap_get(m.names, h)

\* A name leads to a live object with one reference and the name's hash, and
\* every object that has a reference is what its name leads to.
Linked(m) ==
  /\ \A h \in NameHashes :
       Of(m, h) # NULL => LET o == m.obj[Of(m, h)]
                          IN  /\ Of(m, h) \in LiveIn(m)
                              /\ o.refs = 1 /\ o.name # Anon /\ Hash[o.name] = h
  /\ \A t \in LiveIn(m) :
       LET o == m.obj[t]
       IN  /\ o.refs \in {0, 1}
           /\ o.refs = 1 => o.name # Anon /\ Of(m, Hash[o.name]) = t

\* The types of a state.
Machine == [names : Tree, types : Seq(Addr), obj : [Addr -> Objects \cup {NoObject}],
            quitted : BOOLEAN]

\* The state of the interpreter between and within lines.
Good(m) ==
  /\ m \in Machine /\ SearchTree(m.names)
  /\ Lists(m.types, LiveIn(m)) /\ Linked(m)

\* k objects fit at least.
Room(m, k) == Cardinality(LiveIn(m)) + k <= MaxObjects

\* m2 is m and at most k temporaries.
Grown(m, m2, k) ==
  /\ Good(m2) /\ m2.names = m.names
  /\ \A t \in LiveIn(m) : t \in LiveIn(m2) /\ m2.obj[t] = m.obj[t]
  /\ Cardinality(LiveIn(m2)) <= Cardinality(LiveIn(m)) + k

\* Sets of addresses are finite.
LEMMA AddrIsFinite ==
  /\ IsFiniteSet(Addr) /\ Cardinality(Addr) = MaxObjects
  /\ \A S : S \subseteq Addr => IsFiniteSet(S) /\ Cardinality(S) \in Nat
<1>1. IsFiniteSet(Addr) /\ Cardinality(Addr) = MaxObjects
  BY ObjectsAssumption, FS_Interval DEF Addr
<1>2. ASSUME NEW S, S \subseteq Addr PROVE IsFiniteSet(S) /\ Cardinality(S) \in Nat
  BY <1>1, <1>2, FS_Subset, FS_CardinalityType
<1> QED
  BY <1>1, <1>2

\* So are the live objects.
LEMMA LiveIsFinite ==
  ASSUME NEW m
  PROVE  LiveIn(m) \subseteq Addr /\ IsFiniteSet(LiveIn(m)) /\ Cardinality(LiveIn(m)) \in Nat
<1>1. LiveIn(m) \subseteq Addr
  BY DEF LiveIn
<1> QED
  BY <1>1, AddrIsFinite

\* Temporaries add up.
LEMMA GrownTwice ==
  ASSUME NEW m1, NEW m2, NEW m3, NEW j \in Nat, NEW k \in Nat,
         Grown(m1, m2, j), Grown(m2, m3, k)
  PROVE  Grown(m1, m3, j + k)
<1>1. /\ Cardinality(LiveIn(m1)) \in Nat /\ Cardinality(LiveIn(m2)) \in Nat
      /\ Cardinality(LiveIn(m3)) \in Nat
  BY LiveIsFinite
<1>2. Cardinality(LiveIn(m3)) <= Cardinality(LiveIn(m1)) + (j + k)
  BY <1>1 DEF Grown
<1> QED
  BY <1>2 DEF Grown

\* No temporary is also at most k.
LEMMA GrownNot ==
  ASSUME NEW m, Good(m), NEW k \in Nat
  PROVE  Grown(m, m, k)
<1>1. Cardinality(LiveIn(m)) \in Nat
  BY LiveIsFinite
<1> QED
  BY <1>1 DEF Grown

\* What a hash leads to.
LEMMA OfTypes ==
  ASSUME NEW m, Good(m), NEW h \in NameHashes
  PROVE  /\ h \in Nat /\ Of(m, h) \in Nat
         /\ Of(m, h) # 0 =>
              /\ Of(m, h) \in LiveIn(m) /\ Of(m, h) \in Addr
              /\ m.obj[Of(m, h)] \in Objects /\ m.obj[Of(m, h)].value \in Values
              /\ m.obj[Of(m, h)].refs = 1 /\ m.obj[Of(m, h)].name \in Names
              /\ m.obj[Of(m, h)].name # Anon /\ Hash[m.obj[Of(m, h)].name] = h
<1>1. h \in Nat
  BY ValuesAssumption DEF NameHashes
<1>2. Of(m, h) \in Nat
  BY <1>1, GetIsNat DEF Of, Good
<1>3. ASSUME Of(m, h) # 0
      PROVE  /\ Of(m, h) \in LiveIn(m) /\ Of(m, h) \in Addr
             /\ m.obj[Of(m, h)] \in Objects /\ m.obj[Of(m, h)].value \in Values
             /\ m.obj[Of(m, h)].refs = 1 /\ m.obj[Of(m, h)].name \in Names
             /\ m.obj[Of(m, h)].name # Anon /\ Hash[m.obj[Of(m, h)].name] = h
  <2> DEFINE t == Of(m, h)
  <2>1. /\ t \in LiveIn(m) /\ m.obj[t].refs = 1 /\ m.obj[t].name # Anon
        /\ Hash[m.obj[t].name] = h
    BY <1>3 DEF Good, Linked, NULL
  <2>2. t \in Addr /\ m.obj[t] # NoObject /\ m.obj \in [Addr -> Objects \cup {NoObject}]
    BY <2>1 DEF LiveIn, Good, Machine
  <2> HIDE DEF t
  <2>3. m.obj[t] \in Objects
    BY <2>2
  <2>4. m.obj[t].value \in Values /\ m.obj[t].name \in Names \cup {Anon}
    BY <2>3 DEF Objects
  <2> QED
    BY <2>1, <2>2, <2>3, <2>4 DEF t
<1> QED
  BY <1>1, <1>2, <1>3

\* What is at the address of a live object.
LEMMA LiveObject ==
  ASSUME NEW m, Good(m), NEW t \in LiveIn(m)
  PROVE  /\ t \in Addr /\ t # 0 /\ m.obj[t] \in Objects /\ m.obj[t].value \in Values
         /\ m.obj[t].name \in Names \cup {Anon} /\ m.obj[t].refs \in {0, 1}
         /\ m.obj[t].refs = 1 =>
              /\ m.obj[t].name \in Names /\ m.obj[t].name # Anon
              /\ Hash[m.obj[t].name] \in NameHashes /\ Of(m, Hash[m.obj[t].name]) = t
<1>1. t \in Addr /\ m.obj[t] # NoObject /\ m.obj \in [Addr -> Objects \cup {NoObject}]
  BY DEF LiveIn, Good, Machine
<1>2. m.obj[t] \in Objects /\ t # 0
  BY <1>1, ObjectsAssumption DEF Addr
<1>3. m.obj[t].value \in Values /\ m.obj[t].name \in Names \cup {Anon}
  BY <1>2 DEF Objects
<1>4. /\ m.obj[t].refs \in {0, 1}
      /\ m.obj[t].refs = 1 => m.obj[t].name # Anon /\ Of(m, Hash[m.obj[t].name]) = t
  BY DEF Good, Linked
<1> QED
  BY <1>1, <1>2, <1>3, <1>4 DEF NameHashes

\* The address of a new object.
LEMMA FreeAddress ==
  ASSUME NEW m, Room(m, 1)
  PROVE  LET t == CHOOSE t \in Free(m) : \A u \in Free(m) : t <= u
         IN  t \in Addr /\ m.obj[t] = NoObject
<1>1. Free(m) \subseteq Nat
  BY ObjectsAssumption DEF Free, Addr
<1>2. Free(m) # {}
  <2> SUFFICES ASSUME Free(m) = {} PROVE FALSE
    OBVIOUS
  <2>1. LiveIn(m) = Addr
    BY DEF Free, LiveIn
  <2> QED
    BY <2>1, AddrIsFinite, ObjectsAssumption DEF Room
<1>3. \E t \in Free(m) : \A u \in Free(m) : t <= u
  BY <1>1, <1>2, LeastExists
<1> DEFINE t == CHOOSE t \in Free(m) : \A u \in Free(m) : t <= u
<1>4. t \in Free(m)
  BY <1>3
<1> HIDE DEF t
<1>5. t \in Addr /\ m.obj[t] = NoObject
  BY <1>4 DEF Free
<1> QED
  BY <1>5 DEF t

-----------------------------------------------------------------------------
(***************************************************************************)
(* What the functions of type.c do to a good state: temporaries leave      *)
(* every variable as it was, a new object under a name changes that one.   *)
(***************************************************************************)

\* Each created object takes one place.
LEMMA OneMore ==
  ASSUME NEW m, NEW m2, NEW t, LiveIn(m2) = LiveIn(m) \cup {t}
  PROVE  Cardinality(LiveIn(m2)) <= Cardinality(LiveIn(m)) + 1
<1> DEFINE L == LiveIn(m)
<1>1. IsFiniteSet(L) /\ Cardinality(L) \in Nat
  BY LiveIsFinite
<1> HIDE DEF L
<1>2. Cardinality(L \cup {t}) = IF t \in L THEN Cardinality(L) ELSE Cardinality(L) + 1
  BY <1>1, FS_AddElement
<1>3. Cardinality(L \cup {t}) <= Cardinality(L) + 1
  BY <1>1, <1>2
<1> QED
  BY <1>3 DEF L

\* A temporary.
LEMMA NewAnonymous ==
  ASSUME NEW m, Good(m), Room(m, 1), NEW v \in Values
  PROVE  LET r == pythonix_type_new(m, v, Anon) IN
         /\ Grown(m, r.vm, 1) /\ r.t \in LiveIn(r.vm) /\ r.t \notin LiveIn(m)
         /\ r.t # NULL /\ r.vm.obj[r.t].value = v /\ r.vm.quitted = m.quitted
<1> DEFINE r == pythonix_type_new(m, v, Anon)
           t == CHOOSE t \in Free(m) : \A u \in Free(m) : t <= u
           o == [value |-> v, name |-> Anon, refs |-> 0]
           obj1 == [m.obj EXCEPT ![t] = o]
           q == Append(m.types, t)
           n == m.names
           m2 == [m EXCEPT !.types = q, !.obj = obj1, !.names = n]
<1>1. t \in Addr /\ m.obj[t] = NoObject
  BY FreeAddress
<1>2. r = [vm |-> m2, t |-> t]
  <2>1. r = Result([m EXCEPT !.types = Append(@, t), !.obj = obj1, !.names = @], t)
    BY DEF pythonix_type_new
  <2>2. [m EXCEPT !.types = Append(@, t), !.obj = obj1, !.names = @] = m2
    OBVIOUS
  <2> HIDE DEF r, t, obj1, m2
  <2> QED
    BY <2>1, <2>2 DEF Result
<1> HIDE DEF r, t
<1>3. r.vm = m2 /\ r.t = t
  BY <1>2
<1>4. o \in Objects /\ o # NoObject /\ o.refs = 0 /\ o.value = v
  BY NothingAssumption DEF Objects
<1> HIDE DEF o
<1>5. /\ obj1 \in [Addr -> Objects \cup {NoObject}] /\ obj1[t] = o
      /\ \A u \in Addr : u # t => obj1[u] = m.obj[u]
  BY <1>1, <1>4 DEF Good, Machine
<1> HIDE DEF obj1
<1>6. /\ m2.names = m.names /\ m2.types = Append(m.types, t) /\ m2.obj = obj1
      /\ m2.quitted = m.quitted /\ m2 \in Machine
  <2>1. m \in Machine /\ m.types \in Seq(Addr) /\ m.names \in Tree
    BY DEF Good, Machine
  <2>2. q \in Seq(Addr)
    BY <1>1, <2>1
  <2>3. m \in Machine /\ n \in Tree
    BY <2>1
  <2> HIDE DEF q, n
  <2>4. m2 \in Machine /\ m2.types = q /\ m2.obj = obj1 /\ m2.names = n /\ m2.quitted = m.quitted
    BY <1>5, <2>2, <2>3 DEF Machine
  <2> HIDE DEF m2
  <2> QED
    BY <2>4 DEF q, n
<1> HIDE DEF m2
<1>7. LiveIn(m2) = LiveIn(m) \cup {t} /\ t \notin LiveIn(m)
  BY <1>1, <1>4, <1>5, <1>6 DEF LiveIn
<1>8. \A u \in LiveIn(m) : u \in LiveIn(m2) /\ m2.obj[u] = m.obj[u]
  BY <1>5, <1>6, <1>7 DEF LiveIn
<1>9. Lists(m2.types, LiveIn(m2))
  BY <1>6, <1>7, AppendLists DEF Good
<1>10. \A h : Of(m2, h) = Of(m, h)
  BY <1>6 DEF Of
<1>11. Linked(m2)
  <2>1. ASSUME NEW h \in NameHashes, Of(m2, h) # NULL
        PROVE  LET p == m2.obj[Of(m2, h)]
               IN  /\ Of(m2, h) \in LiveIn(m2)
                   /\ p.refs = 1 /\ p.name # Anon /\ Hash[p.name] = h
    BY <1>8, <1>10, <2>1, OfTypes DEF NULL
  <2>2. ASSUME NEW u \in LiveIn(m2)
        PROVE  /\ m2.obj[u].refs \in {0, 1}
               /\ m2.obj[u].refs = 1 =>
                    m2.obj[u].name # Anon /\ Of(m2, Hash[m2.obj[u].name]) = u
    <3>1. CASE u = t
      <4>1. m2.obj[u].refs = 0
        BY <1>4, <1>5, <1>6, <3>1
      <4> QED
        BY <4>1
    <3>2. CASE u \in LiveIn(m)
      BY <1>8, <1>10, <3>2, LiveObject
    <3> QED
      BY <1>7, <3>1, <3>2
  <2> QED
    BY <2>1, <2>2 DEF Linked
<1>12. Good(m2)
  BY <1>6, <1>9, <1>11 DEF Good
<1>13. Cardinality(LiveIn(m2)) <= Cardinality(LiveIn(m)) + 1
  BY <1>7, OneMore
<1>14. Grown(m, m2, 1)
  BY <1>6, <1>8, <1>12, <1>13 DEF Grown
<1>15. t # NULL
  BY <1>1, ObjectsAssumption DEF Addr, NULL
<1>16. m2.obj[t].value = v
  BY <1>4, <1>5, <1>6
<1> QED
  BY <1>3, <1>6, <1>7, <1>14, <1>15, <1>16 DEF r

\* A new object under a name: the name leads to it, what it led to loses its
\* reference, and no other name is changed.
LEMMA NewNamed ==
  ASSUME NEW m, Good(m), Room(m, 1), NEW v \in Values, NEW x \in Names, x # Anon
  PROVE  LET r == pythonix_type_new(m, v, x) IN
         /\ Good(r.vm) /\ r.vm.quitted = m.quitted
         /\ Cardinality(LiveIn(r.vm)) <= Cardinality(LiveIn(m)) + 1
         /\ r.t \in LiveIn(r.vm) /\ r.vm.obj[r.t].value = v
         /\ r.vm.obj[r.t].refs = 1 /\ Of(r.vm, Hash[x]) = r.t /\ r.t # NULL
         /\ \A h \in NameHashes \ {Hash[x]} :
              /\ Of(r.vm, h) = Of(m, h)
              /\ Of(m, h) # NULL => r.vm.obj[Of(m, h)] = m.obj[Of(m, h)]
         /\ \A u \in LiveIn(r.vm) \ {r.t} :
              u \in LiveIn(m) /\ (u # Of(m, Hash[x]) => r.vm.obj[u] = m.obj[u])
<1> DEFINE r == pythonix_type_new(m, v, x)
           t == CHOOSE t \in Free(m) : \A u \in Free(m) : t <= u
           o == [value |-> v, name |-> x, refs |-> 1]
           old == Of(m, Hash[x])
           obj1 == [m.obj EXCEPT ![t] = o]
           obj2 == Release(obj1, old)
           names1 == khashmap_set(m.names, Hash[x], t)
           q == Append(m.types, t)
           m2 == [m EXCEPT !.types = q, !.obj = obj2, !.names = names1]
<1>0. Hash[x] \in NameHashes /\ Hash[x] \in Nat
  BY ValuesAssumption DEF NameHashes
<1>1. t \in Addr /\ m.obj[t] = NoObject
  BY FreeAddress
<1>2. r = [vm |-> m2, t |-> t]
  <2>1. r = Result([m EXCEPT !.types = Append(@, t),
                             !.obj = Release(obj1, pythonix_vm_get_type(m, x)),
                             !.names = khashmap_set(@, Hash[x], t)], t)
    BY DEF pythonix_type_new
  <2>2. pythonix_vm_get_type(m, x) = old
    BY DEF pythonix_vm_get_type, Of
  <2>3. [m EXCEPT !.types = Append(@, t), !.obj = obj2, !.names = khashmap_set(@, Hash[x], t)] = m2
    OBVIOUS
  <2> HIDE DEF r, t, obj1, m2, old
  <2> QED
    BY <2>1, <2>2, <2>3 DEF Result
<1> HIDE DEF r, t
<1>3. r.vm = m2 /\ r.t = t
  BY <1>2
<1>4. /\ o \in Objects /\ o # NoObject /\ o.refs = 1 /\ o.value = v /\ o.name = x
  BY NothingAssumption DEF Objects
<1> HIDE DEF o
<1>5. /\ obj1 \in [Addr -> Objects \cup {NoObject}] /\ obj1[t] = o
      /\ \A u \in Addr : u # t => obj1[u] = m.obj[u]
  BY <1>1, <1>4 DEF Good, Machine
<1> HIDE DEF obj1
<1>6. /\ old \in Nat
      /\ old # 0 => /\ old \in LiveIn(m) /\ old \in Addr /\ old # t
                    /\ m.obj[old] \in Objects /\ m.obj[old].refs = 1
                    /\ Hash[m.obj[old].name] = Hash[x]
  <2>1. old # 0 => old # t
    BY <1>0, <1>1, OfTypes DEF LiveIn
  <2> QED
    BY <1>0, <2>1, OfTypes
<1>7. /\ obj2 \in [Addr -> Objects \cup {NoObject}] /\ obj2[t] = o
      /\ \A u \in Addr : u # t /\ u # old => obj2[u] = m.obj[u]
      /\ old # 0 => obj2[old].refs = 0 /\ obj2[old] # NoObject
  <2>1. CASE old = 0
    <3>1. obj2 = obj1
      BY <2>1 DEF Release, NULL
    <3> HIDE DEF obj2, old
    <3> QED
      BY <1>5, <2>1, <3>1
  <2>2. CASE old # 0
    <3> DEFINE less == [m.obj[old] EXCEPT !.refs = 0]
    <3>1. less \in Objects /\ less # NoObject /\ less.refs = 0
      <4> HIDE DEF old
      <4>1. less \in Objects /\ less.refs = 0
        BY <1>6, <2>2 DEF Objects
      <4> HIDE DEF less
      <4> QED
        BY <4>1, NothingAssumption
    <3>2. obj1[old] = m.obj[old] /\ m.obj[old].refs - 1 = 0
      BY <1>5, <1>6, <2>2
    <3>3. obj2 = [obj1 EXCEPT ![old].refs = @ - 1]
      BY <2>2 DEF Release, NULL
    <3> HIDE DEF old, obj2
    <3>4. obj2 = [obj1 EXCEPT ![old] = less]
      BY <1>5, <1>6, <2>2, <3>2, <3>3
    <3> HIDE DEF less
    <3> QED
      BY <1>1, <1>5, <1>6, <2>2, <3>1, <3>4
  <2> QED
    BY <2>1, <2>2
<1> HIDE DEF obj2
<1>8. /\ SearchTree(names1)
      /\ \A h \in Nat : khashmap_get(names1, h) = IF h = Hash[x] THEN t ELSE khashmap_get(m.names, h)
  <2>1. t \in Nat /\ SearchTree(m.names)
    BY <1>1, ObjectsAssumption DEF Addr, Good
  <2> DEFINE n == m.names
             h0 == Hash[x]
  <2>2. SearchTree(n) /\ h0 \in Nat /\ t \in Nat /\ names1 = khashmap_set(n, h0, t)
    BY <1>0, <2>1
  <2> HIDE DEF n, h0, names1
  <2>3. /\ SearchTree(khashmap_set(n, h0, t))
        /\ \A k \in Nat : khashmap_get(khashmap_set(n, h0, t), k) =
                             IF k = h0 THEN t ELSE khashmap_get(n, k)
    BY <2>2, GetAfterSet
  <2> QED
    BY <2>2, <2>3 DEF n, h0
<1> HIDE DEF names1
<1>9. /\ m2.names = names1 /\ m2.types = Append(m.types, t) /\ m2.obj = obj2
      /\ m2.quitted = m.quitted /\ m2 \in Machine
  <2>1. names1 \in Tree
    BY <1>8 DEF SearchTree, Ranked
  <2>2. m \in Machine /\ m.types \in Seq(Addr)
    BY DEF Good, Machine
  <2>3. q \in Seq(Addr)
    BY <1>1, <2>2
  <2> HIDE DEF q
  <2>4. m2 \in Machine /\ m2.types = q /\ m2.obj = obj2 /\ m2.names = names1 /\ m2.quitted = m.quitted
    BY <1>7, <2>1, <2>2, <2>3 DEF Machine
  <2> HIDE DEF m2
  <2> QED
    BY <2>4 DEF q
<1> HIDE DEF m2
<1>10. LiveIn(m2) = LiveIn(m) \cup {t} /\ t \notin LiveIn(m)
  <2>1. \A u \in Addr : m2.obj[u] # NoObject <=> (u = t \/ m.obj[u] # NoObject)
    <3> SUFFICES ASSUME NEW u \in Addr PROVE obj2[u] # NoObject <=> (u = t \/ m.obj[u] # NoObject)
      BY <1>9
    <3>1. CASE u = t
      BY <1>4, <1>7, <3>1
    <3>2. CASE u = old
      <4>1. old # 0 /\ m.obj[u] # NoObject
        BY <1>6, <3>2, ObjectsAssumption DEF Addr, LiveIn
      <4> QED
        BY <1>7, <3>2, <4>1
    <3>3. CASE u # t /\ u # old
      BY <1>7, <3>3
    <3> QED
      BY <3>1, <3>2, <3>3
  <2> QED
    BY <1>1, <2>1 DEF LiveIn
<1>11. Lists(m2.types, LiveIn(m2))
  BY <1>9, <1>10, AppendLists DEF Good
<1>12. \A h \in NameHashes : Of(m2, h) = IF h = Hash[x] THEN t ELSE Of(m, h)
  <2>1. NameHashes \subseteq Nat
    BY ValuesAssumption DEF NameHashes
  <2> QED
    BY <1>8, <1>9, <2>1 DEF Of
<1>13. \A u \in LiveIn(m) : u # old => u # t /\ m2.obj[u] = m.obj[u]
  BY <1>7, <1>9, <1>10 DEF LiveIn
<1>14. ASSUME NEW h \in NameHashes, h # Hash[x], Of(m, h) # NULL
       PROVE  /\ Of(m, h) # old /\ Of(m, h) \in LiveIn(m)
              /\ m2.obj[Of(m, h)] = m.obj[Of(m, h)]
  <2>1. Of(m, h) \in LiveIn(m) /\ Hash[m.obj[Of(m, h)].name] = h
    BY <1>14, OfTypes DEF NULL
  <2>2. Of(m, h) # old
    BY <1>6, <1>14, <2>1 DEF NULL
  <2> QED
    BY <1>13, <2>1, <2>2
<1>15. Linked(m2)
  <2>1. ASSUME NEW h \in NameHashes, Of(m2, h) # NULL
        PROVE  LET p == m2.obj[Of(m2, h)]
               IN  /\ Of(m2, h) \in LiveIn(m2)
                   /\ p.refs = 1 /\ p.name # Anon /\ Hash[p.name] = h
    <3>1. CASE h = Hash[x]
      <4>1. Of(m2, h) = t /\ m2.obj[t] = o
        BY <1>7, <1>9, <1>12, <3>1
      <4> QED
        BY <1>4, <1>10, <3>1, <4>1
    <3>2. CASE h # Hash[x]
      <4>1. Of(m2, h) = Of(m, h)
        BY <1>12, <3>2
      <4>2. Of(m, h) \in LiveIn(m2) /\ m2.obj[Of(m, h)] = m.obj[Of(m, h)]
        BY <1>10, <1>14, <2>1, <3>2, <4>1
      <4> QED
        BY <2>1, <4>1, <4>2, OfTypes DEF NULL
    <3> QED
      BY <3>1, <3>2
  <2>2. ASSUME NEW u \in LiveIn(m2)
        PROVE  /\ m2.obj[u].refs \in {0, 1}
               /\ m2.obj[u].refs = 1 =>
                    m2.obj[u].name # Anon /\ Of(m2, Hash[m2.obj[u].name]) = u
    <3>1. CASE u = t
      <4>1. m2.obj[u] = o
        BY <1>7, <1>9, <3>1
      <4>2. Of(m2, Hash[x]) = t
        BY <1>0, <1>12
      <4> QED
        BY <1>4, <3>1, <4>1, <4>2
    <3>2. CASE u = old /\ u # t
      <4>1. u # 0
        <5>1. u \in Addr
          BY <1>10, <3>2, LiveIsFinite
        <5> QED
          BY <5>1, ObjectsAssumption DEF Addr
      <4>2. m2.obj[u].refs = 0
        BY <1>7, <1>9, <3>2, <4>1
      <4> QED
        BY <4>2
    <3>3. CASE u # old /\ u # t
      <4>1. u \in LiveIn(m) /\ m2.obj[u] = m.obj[u]
        BY <1>10, <1>13, <3>3
      <4>2. m.obj[u].refs \in {0, 1}
        BY <4>1, LiveObject
      <4>3. ASSUME m.obj[u].refs = 1
            PROVE  m.obj[u].name # Anon /\ Of(m2, Hash[m.obj[u].name]) = u
        <5>1. /\ m.obj[u].name # Anon /\ Hash[m.obj[u].name] \in NameHashes
              /\ Of(m, Hash[m.obj[u].name]) = u
          BY <4>1, <4>3, LiveObject
        <5>2. Hash[m.obj[u].name] # Hash[x]
          BY <3>3, <5>1
        <5> QED
          BY <1>12, <5>1, <5>2
      <4> QED
        BY <4>1, <4>2, <4>3
    <3> QED
      BY <3>1, <3>2, <3>3
  <2> QED
    BY <2>1, <2>2 DEF Linked
<1>16. Good(m2)
  BY <1>8, <1>9, <1>11, <1>15 DEF Good
<1>17. Cardinality(LiveIn(m2)) <= Cardinality(LiveIn(m)) + 1
  BY <1>10, OneMore
<1>18. t # NULL
  BY <1>1, ObjectsAssumption DEF Addr, NULL
<1>19. /\ m2.obj[t].value = v /\ m2.obj[t].refs = 1 /\ Of(m2, Hash[x]) = t
  BY <1>0, <1>4, <1>7, <1>9, <1>12
<1>20. \A h \in NameHashes \ {Hash[x]} :
         /\ Of(m2, h) = Of(m, h)
         /\ Of(m, h) # NULL => m2.obj[Of(m, h)] = m.obj[Of(m, h)]
  BY <1>12, <1>14
<1>21. \A u \in LiveIn(m2) \ {t} :
         u \in LiveIn(m) /\ (u # Of(m, Hash[x]) => m2.obj[u] = m.obj[u])
  BY <1>10, <1>13
<1> HIDE DEF old
<1> QED
  BY <1>3, <1>9, <1>10, <1>16, <1>17, <1>18, <1>19, <1>20, <1>21 DEF r

\* The variables with their values, and the value of an expression, in a state.
EnvOf(m) ==
  [h \in NameHashes |-> IF Of(m, h) = NULL THEN None ELSE m.obj[Of(m, h)].value]

WorthOf(env, e) ==
  IF e.kind \in {"int", "str"} THEN e.value
  ELSE LET v == env[Hash[e.name]]
       IN  IF v = None THEN None
           ELSE IF e.kind = "var" THEN v
           ELSE IF e.method = "__copy__" THEN Copied(v)
           ELSE IF e.method = "__str__" /\ v.str = "own" THEN Shown(v)
           ELSE None

\* The value that a hash leads to.
LEMMA EnvTypes ==
  ASSUME NEW m, Good(m), NEW h \in NameHashes
  PROVE  /\ Of(m, h) = NULL => EnvOf(m)[h] = None
         /\ Of(m, h) # NULL =>
              /\ EnvOf(m)[h] = m.obj[Of(m, h)].value
              /\ EnvOf(m)[h] \in Values /\ EnvOf(m)[h] # None
         /\ EnvOf(m) = [g \in NameHashes |-> EnvOf(m)[g]]
<1>1. EnvOf(m)[h] = IF Of(m, h) = NULL THEN None ELSE m.obj[Of(m, h)].value
  BY DEF EnvOf
<1>2. Of(m, h) # NULL => m.obj[Of(m, h)].value \in Values
  BY OfTypes DEF NULL
<1>3. EnvOf(m) = [g \in NameHashes |-> EnvOf(m)[g]]
  BY DEF EnvOf
<1> QED
  BY <1>1, <1>2, <1>3, NothingAssumption

\* A temporary changes no variable.
LEMMA EnvKept ==
  ASSUME NEW m, Good(m), NEW m2, NEW k, Grown(m, m2, k)
  PROVE  /\ \A h \in NameHashes : Of(m2, h) = Of(m, h)
         /\ EnvOf(m2) = EnvOf(m)
<1>1. \A h \in NameHashes : Of(m2, h) = Of(m, h)
  BY DEF Grown, Of
<1>2. ASSUME NEW h \in NameHashes, Of(m, h) # NULL
      PROVE  m2.obj[Of(m, h)] = m.obj[Of(m, h)]
  <2>1. Of(m, h) \in LiveIn(m)
    BY <1>2, OfTypes DEF NULL
  <2> QED
    BY <2>1 DEF Grown
<1>3. EnvOf(m2) = EnvOf(m)
  BY <1>1, <1>2 DEF EnvOf
<1> QED
  BY <1>1, <1>3

\* quit sets a flag and nothing else.
LEMMA Quits ==
  ASSUME NEW m, Good(m), NEW b \in BOOLEAN
  PROVE  LET m2 == [m EXCEPT !.quitted = b]
         IN  Grown(m, m2, 0) /\ LiveIn(m2) = LiveIn(m) /\ m2.obj = m.obj
<1> DEFINE m2 == [m EXCEPT !.quitted = b]
<1>1. m \in Machine
  BY DEF Good
<1>2. m2 \in Machine /\ m2.names = m.names /\ m2.types = m.types /\ m2.obj = m.obj
  BY <1>1 DEF Machine
<1> HIDE DEF m2
<1>3. LiveIn(m2) = LiveIn(m) /\ \A h : Of(m2, h) = Of(m, h)
  BY <1>2 DEF LiveIn, Of
<1>4. Linked(m2)
  BY <1>2, <1>3 DEF Good, Linked
<1>5. Good(m2)
  BY <1>2, <1>3, <1>4 DEF Good
<1>6. Cardinality(LiveIn(m2)) <= Cardinality(LiveIn(m)) + 0
  BY <1>3, LiveIsFinite
<1>7. Grown(m, m2, 0)
  BY <1>2, <1>3, <1>5, <1>6 DEF Grown
<1> QED
  BY <1>2, <1>3, <1>7 DEF m2

\* __copy__ without a name makes a temporary.
LEMMA Copies ==
  ASSUME NEW m, Good(m), Room(m, 1), NEW t \in LiveIn(m)
  PROVE  LET r == pythonix_type__copy__(m, t, Anon) IN
         /\ Grown(m, r.vm, 1) /\ r.t \in LiveIn(r.vm) /\ r.t # NULL
         /\ r.vm.obj[r.t].value = Copied(m.obj[t].value)
<1>1. Copied(m.obj[t].value) \in Values
  BY LiveObject, CopiedIsValue
<1> QED
  BY <1>1, NewAnonymous DEF pythonix_type__copy__

\* __str__ makes a temporary, or nothing when a global got no interpreter.
LEMMA Strs ==
  ASSUME NEW m, Good(m), Room(m, 1), NEW t \in LiveIn(m), NEW vmGiven
  PROVE  LET r == pythonix_type__str__(m, t, vmGiven) IN
         /\ Grown(m, r.vm, 1)
         /\ r.t # NULL => /\ r.t \in LiveIn(r.vm)
                          /\ r.vm.obj[r.t].value = Shown(m.obj[t].value)
                          /\ ~vmGiven => m.obj[t].value.str = "own"
<1> DEFINE v == m.obj[t].value
           b == m.quitted \/ v.str = "quit"
           after == [m EXCEPT !.quitted = b]
           r == pythonix_type__str__(m, t, vmGiven)
<1>1. v \in Values /\ Shown(v) \in Values
  BY LiveObject, ShownIsValue
<1>2. b \in BOOLEAN
  OBVIOUS
<1>3. r = IF v.str # "own" /\ ~vmGiven THEN Result(after, NULL)
          ELSE pythonix_type_new(after, Shown(v), Anon)
  BY DEF pythonix_type__str__
<1> HIDE DEF r, v, b
<1>4. Grown(m, after, 0) /\ LiveIn(after) = LiveIn(m)
  BY <1>2, Quits
<1> HIDE DEF after
<1>5. CASE v.str # "own" /\ ~vmGiven
  <2>1. r.vm = after /\ r.t = NULL
    BY <1>3, <1>5 DEF Result
  <2>2. Grown(m, after, 1)
    <3>1. Cardinality(LiveIn(m)) \in Nat /\ Cardinality(LiveIn(after)) \in Nat
      BY LiveIsFinite
    <3>2. Cardinality(LiveIn(after)) <= Cardinality(LiveIn(m)) + 1
      BY <1>4, <3>1
    <3> QED
      BY <1>4, <3>2 DEF Grown
  <2> QED
    BY <2>1, <2>2 DEF r
<1>6. CASE ~(v.str # "own" /\ ~vmGiven)
  <2>1. r = pythonix_type_new(after, Shown(v), Anon)
    BY <1>3, <1>6
  <2>2. Good(after) /\ Room(after, 1)
    BY <1>4 DEF Grown, Room
  <2>3. /\ Grown(after, r.vm, 1) /\ r.t \in LiveIn(r.vm)
        /\ r.vm.obj[r.t].value = Shown(v)
    BY <1>1, <2>1, <2>2, NewAnonymous
  <2>4. Grown(m, r.vm, 0 + 1)
    BY <1>4, <2>3, GrownTwice
  <2>5. ~vmGiven => v.str = "own"
    BY <1>6
  <2> QED
    BY <2>3, <2>4, <2>5 DEF r, v
<1> QED
  BY <1>5, <1>6

\* The methods that are looked up by name.
LEMMA Calls ==
  ASSUME NEW m, Good(m), Room(m, 1), NEW t \in LiveIn(m), NEW method, NEW vmGiven
  PROVE  LET r == pythonix_type_method_call(m, t, method, vmGiven)
             v == m.obj[t].value
         IN  /\ Grown(m, r.vm, 1)
             /\ r.t # NULL =>
                  /\ r.t \in LiveIn(r.vm)
                  /\ \/ method = "__copy__" /\ r.vm.obj[r.t].value = Copied(v)
                     \/ method = "__str__" /\ r.vm.obj[r.t].value = Shown(v)
                        /\ (~vmGiven => v.str = "own")
<1> DEFINE r == pythonix_type_method_call(m, t, method, vmGiven)
<1>1. CASE method = "__copy__"
  <2>1. r = pythonix_type__copy__(m, t, Anon)
    BY <1>1 DEF pythonix_type_method_call
  <2> HIDE DEF r
  <2> QED
    BY <1>1, <2>1, Copies DEF r
<1>2. CASE method = "__str__"
  <2>1. r = pythonix_type__str__(m, t, vmGiven)
    BY <1>2 DEF pythonix_type_method_call
  <2> HIDE DEF r
  <2> QED
    BY <1>2, <2>1, Strs DEF r
<1>3. CASE method # "__copy__" /\ method # "__str__"
  <2>1. r.vm = m /\ r.t = NULL
    BY <1>3 DEF pythonix_type_method_call, Result
  <2>2. Grown(m, m, 1)
    BY GrownNot
  <2> HIDE DEF r
  <2> QED
    BY <2>1, <2>2 DEF r
<1> QED
  BY <1>1, <1>2, <1>3

\* What can be typed.
LEMMA ExprTypes ==
  ASSUME NEW e \in Exprs
  PROVE  \/ e.kind \in {"int", "str"} /\ e.value \in Values
         \/ e.kind = "var" /\ e.name \in Names
         \/ e.kind = "method" /\ e.name \in Names
<1>1. CASE \E n \in Literals : e = [kind |-> "int", value |-> IntValue(n)]
  BY <1>1, LiteralsAssumption, ValueTypes
<1>2. CASE \E n \in Texts : e = [kind |-> "str", value |-> StrValue(n)]
  BY <1>2, ValuesAssumption, ValueTypes
<1>3. CASE \E x \in Typed : e = [kind |-> "var", name |-> x]
  BY <1>3, ValuesAssumption
<1>4. CASE \E x \in Typed, m \in TypedMethods : e = [kind |-> "method", name |-> x, method |-> m]
  BY <1>4, ValuesAssumption
<1> QED
  BY <1>1, <1>2, <1>3, <1>4 DEF Exprs

\* An expression makes at most one temporary, which has the value of the
\* expression; without one the expression is an error.
LEMMA Identified ==
  ASSUME NEW m, Good(m), Room(m, 1), NEW e \in Exprs
  PROVE  LET r == pythonix_obj_identify(m, e) IN
         /\ Grown(m, r.vm, 1)
         /\ r.t # NULL => /\ r.t \in LiveIn(r.vm)
                          /\ r.vm.obj[r.t].value = WorthOf(EnvOf(m), e)
<1> DEFINE r == pythonix_obj_identify(m, e)
           Wanted == /\ Grown(m, r.vm, 1)
                     /\ r.t # NULL => /\ r.t \in LiveIn(r.vm)
                                      /\ r.vm.obj[r.t].value = WorthOf(EnvOf(m), e)
<1>1. CASE e.kind \in {"int", "str"} /\ e.value \in Values
  <2>1. r = pythonix_type_new(m, e.value, Anon)
    BY <1>1 DEF pythonix_obj_identify
  <2>2. WorthOf(EnvOf(m), e) = e.value
    BY <1>1 DEF WorthOf
  <2> HIDE DEF r
  <2>3. Grown(m, r.vm, 1) /\ r.t \in LiveIn(r.vm) /\ r.vm.obj[r.t].value = e.value
    BY <1>1, <2>1, NewAnonymous
  <2> QED
    BY <2>2, <2>3 DEF r
<1>2. CASE e.kind \in {"var", "method"} /\ e.name \in Names
  <2> DEFINE t == Of(m, Hash[e.name])
             v == EnvOf(m)[Hash[e.name]]
  <2>1. Hash[e.name] \in NameHashes
    BY <1>2 DEF NameHashes
  <2>2. r = IF t = NULL \/ e.kind = "var" THEN Result(m, t)
            ELSE pythonix_type_method_call(m, t, e.method, FALSE)
    BY <1>2 DEF pythonix_obj_identify, pythonix_vm_get_type, Of
  <2>3. WorthOf(EnvOf(m), e) =
          IF v = None THEN None
          ELSE IF e.kind = "var" THEN v
          ELSE IF e.method = "__copy__" THEN Copied(v)
          ELSE IF e.method = "__str__" /\ v.str = "own" THEN Shown(v)
          ELSE None
    BY <1>2 DEF WorthOf
  <2>4. t # NULL => t \in LiveIn(m) /\ v = m.obj[t].value /\ v # None
    BY <2>1, EnvTypes, OfTypes DEF NULL
  <2>5. Grown(m, m, 1)
    BY GrownNot
  <2> HIDE DEF r, t, v
  <2>6. ASSUME t = NULL PROVE Wanted
    BY <2>2, <2>5, <2>6 DEF Result
  <2>7. ASSUME t # NULL, e.kind = "var" PROVE Wanted
    <3>1. r.vm = m /\ r.t = t
      BY <2>2, <2>7 DEF Result
    <3>2. WorthOf(EnvOf(m), e) = v
      BY <2>3, <2>4, <2>7
    <3> QED
      BY <2>4, <2>5, <2>7, <3>1, <3>2
  <2>8. ASSUME t # NULL, e.kind # "var" PROVE Wanted
    <3>1. r = pythonix_type_method_call(m, t, e.method, FALSE) /\ e.kind = "method"
      BY <1>2, <2>2, <2>8
    <3>2. /\ Grown(m, r.vm, 1)
          /\ r.t # NULL =>
               /\ r.t \in LiveIn(r.vm)
               /\ \/ e.method = "__copy__" /\ r.vm.obj[r.t].value = Copied(m.obj[t].value)
                  \/ /\ e.method = "__str__" /\ r.vm.obj[r.t].value = Shown(m.obj[t].value)
                     /\ m.obj[t].value.str = "own"
      <4> DEFINE method == e.method
                 given == FALSE
      <4>1. /\ t \in LiveIn(m) /\ r = pythonix_type_method_call(m, t, method, given)
            /\ given = FALSE
        BY <2>4, <2>8, <3>1
      <4> HIDE DEF method, given
      <4>2. /\ Grown(m, r.vm, 1)
            /\ r.t # NULL =>
                 /\ r.t \in LiveIn(r.vm)
                 /\ \/ method = "__copy__" /\ r.vm.obj[r.t].value = Copied(m.obj[t].value)
                    \/ /\ method = "__str__" /\ r.vm.obj[r.t].value = Shown(m.obj[t].value)
                       /\ ~given => m.obj[t].value.str = "own"
        BY <4>1, Calls
      <4> QED
        BY <4>1, <4>2 DEF method
    <3>3. /\ e.method = "__copy__" => WorthOf(EnvOf(m), e) = Copied(v)
          /\ e.method = "__str__" /\ v.str = "own" => WorthOf(EnvOf(m), e) = Shown(v)
      BY <2>3, <2>4, <2>8, <3>1
    <3> QED
      BY <2>4, <2>8, <3>2, <3>3
  <2> QED
    BY <2>6, <2>7, <2>8 DEF r
<1> QED
  BY <1>1, <1>2, ExprTypes

-----------------------------------------------------------------------------
(***************************************************************************)
(* Changes of variables, the room that is left between two lines, and the  *)
(* interpreter that has just started.                                      *)
(***************************************************************************)

\* A new object under a name changes that variable.
LEMMA EnvNamed ==
  ASSUME NEW m, Good(m), Room(m, 1), NEW v \in Values, NEW x \in Names, x # Anon
  PROVE  EnvOf(pythonix_type_new(m, v, x).vm) = [EnvOf(m) EXCEPT ![Hash[x]] = v]
<1> DEFINE r == pythonix_type_new(m, v, x)
           n == r.vm
<1>1. /\ r.vm.obj[r.t].value = v /\ Of(r.vm, Hash[x]) = r.t /\ r.t # NULL
      /\ \A h \in NameHashes \ {Hash[x]} :
           /\ Of(r.vm, h) = Of(m, h)
           /\ Of(m, h) # NULL => r.vm.obj[Of(m, h)] = m.obj[Of(m, h)]
  BY NewNamed
<1> HIDE DEF r
<1>2. ASSUME NEW h \in NameHashes
      PROVE  (IF Of(n, h) = NULL THEN None ELSE n.obj[Of(n, h)].value) =
               IF h = Hash[x] THEN v
               ELSE IF Of(m, h) = NULL THEN None ELSE m.obj[Of(m, h)].value
  <2>1. CASE h = Hash[x]
    BY <1>1, <2>1
  <2>2. CASE h # Hash[x]
    BY <1>1, <2>2
  <2> QED
    BY <2>1, <2>2
<1> HIDE DEF n
<1>3. EnvOf(n) = [EnvOf(m) EXCEPT ![Hash[x]] = v]
  BY <1>2 DEF EnvOf
<1> QED
  BY <1>3 DEF n, r

\* An operator changes the variable whose object it works on.
LEMMA InPlace ==
  ASSUME NEW m, Good(m), NEW h \in NameHashes, NEW t, t = Of(m, h), t # NULL, NEW w \in Values
  PROVE  LET m2 == [m EXCEPT !.obj[t].value = w]
         IN  Good(m2) /\ EnvOf(m2) = [EnvOf(m) EXCEPT ![h] = w]
<1> DEFINE o == [m.obj[t] EXCEPT !.value = w]
           obj2 == [m.obj EXCEPT ![t] = o]
           m2 == [m EXCEPT !.obj = obj2]
<1>1. /\ m \in Machine /\ t \in LiveIn(m) /\ t \in Addr /\ m.obj[t] \in Objects
      /\ m.obj[t].name # Anon /\ Hash[m.obj[t].name] = h
  BY OfTypes DEF NULL, Good
<1>2. [m EXCEPT !.obj[t].value = w] = m2
  BY <1>1 DEF Machine
<1>3. o \in Objects /\ o.value = w /\ o.refs = m.obj[t].refs /\ o.name = m.obj[t].name
  BY <1>1 DEF Objects
<1>4. o # NoObject
  BY <1>3, NothingAssumption
<1> HIDE DEF o
<1>5. /\ obj2 \in [Addr -> Objects \cup {NoObject}] /\ obj2[t] = o
      /\ \A u \in Addr : u # t => obj2[u] = m.obj[u]
  BY <1>1, <1>3 DEF Machine
<1> HIDE DEF obj2
<1>6. /\ m2.names = m.names /\ m2.types = m.types /\ m2.obj = obj2 /\ m2 \in Machine
  BY <1>1, <1>5 DEF Machine
<1> HIDE DEF m2
<1>7. LiveIn(m2) = LiveIn(m) /\ \A g : Of(m2, g) = Of(m, g)
  BY <1>1, <1>4, <1>5, <1>6 DEF LiveIn, Of
<1>8. ASSUME NEW u \in LiveIn(m)
      PROVE  m2.obj[u].refs = m.obj[u].refs /\ m2.obj[u].name = m.obj[u].name
  <2>1. u \in Addr
    BY LiveIsFinite
  <2> QED
    BY <1>3, <1>5, <1>6, <2>1
<1>9. Linked(m2)
  <2>1. ASSUME NEW g \in NameHashes, Of(m2, g) # NULL
        PROVE  LET p == m2.obj[Of(m2, g)]
               IN  /\ Of(m2, g) \in LiveIn(m2)
                   /\ p.refs = 1 /\ p.name # Anon /\ Hash[p.name] = g
    <3>1. Of(m, g) # 0 /\ Of(m2, g) = Of(m, g)
      BY <1>7, <2>1 DEF NULL
    <3>2. /\ Of(m, g) \in LiveIn(m) /\ m.obj[Of(m, g)].refs = 1
          /\ m.obj[Of(m, g)].name # Anon /\ Hash[m.obj[Of(m, g)].name] = g
      BY <3>1, OfTypes
    <3> QED
      BY <1>7, <1>8, <3>1, <3>2
  <2>2. ASSUME NEW u \in LiveIn(m2)
        PROVE  /\ m2.obj[u].refs \in {0, 1}
               /\ m2.obj[u].refs = 1 =>
                    m2.obj[u].name # Anon /\ Of(m2, Hash[m2.obj[u].name]) = u
    BY <1>7, <1>8, LiveObject
  <2> QED
    BY <2>1, <2>2 DEF Linked
<1>10. Good(m2)
  BY <1>6, <1>7, <1>9 DEF Good
<1>11. ASSUME NEW g \in NameHashes
       PROVE  (IF Of(m2, g) = NULL THEN None ELSE m2.obj[Of(m2, g)].value) =
                IF g = h THEN w
                ELSE IF Of(m, g) = NULL THEN None ELSE m.obj[Of(m, g)].value
  <2>1. CASE g = h
    BY <1>3, <1>5, <1>6, <1>7, <2>1
  <2>2. CASE g # h /\ Of(m, g) # NULL
    <3>1. Of(m, g) \in Addr /\ Hash[m.obj[Of(m, g)].name] = g
      BY <2>2, OfTypes DEF NULL
    <3>2. Of(m, g) # t
      BY <1>1, <2>2, <3>1
    <3> QED
      BY <1>5, <1>6, <1>7, <2>2, <3>1, <3>2
  <2>3. CASE g # h /\ Of(m, g) = NULL
    BY <1>7, <2>3
  <2> QED
    BY <2>1, <2>2, <2>3
<1>12. EnvOf(m2) = [EnvOf(m) EXCEPT ![h] = w]
  BY <1>11 DEF EnvOf
<1> QED
  BY <1>2, <1>10, <1>12

\* There are as many variables as hashes.
LEMMA NamesAreFinite ==
  IsFiniteSet(NameHashes) /\ Cardinality(NameHashes) \in Nat
<1>1. Hash \in Surjection(Names, NameHashes)
  BY ValuesAssumption DEF Surjection, NameHashes
<1>2. IsFiniteSet(NameHashes)
  BY <1>1, ValuesAssumption, FS_Surjection
<1> QED
  BY <1>2, FS_CardinalityType

\* Between two lines every object is a variable's, so two more objects fit.
LEMMA RoomForTwo ==
  ASSUME NEW m, Good(m), \A i \in 1 .. Len(m.types) : m.obj[m.types[i]].refs = 1
  PROVE  /\ \A t \in LiveIn(m) : m.obj[t].refs = 1
         /\ LiveIn(m) = {Of(m, h) : h \in NameHashes} \ {NULL}
         /\ Room(m, 2)
<1>1. ASSUME NEW t \in LiveIn(m) PROVE m.obj[t].refs = 1
  <2>1. PICK i \in 1 .. Len(m.types) : m.types[i] = t
    BY DEF Good, Lists
  <2> QED
    BY <2>1
<1>2. ASSUME NEW t \in LiveIn(m) PROVE \E h \in NameHashes : Of(m, h) = t /\ t # NULL
  BY <1>1, LiveObject DEF NULL
<1>3. \A h \in NameHashes : Of(m, h) # NULL => Of(m, h) \in LiveIn(m)
  BY OfTypes DEF NULL
<1>4. LiveIn(m) = {Of(m, h) : h \in NameHashes} \ {NULL}
  BY <1>2, <1>3
<1> DEFINE H == {h \in NameHashes : Of(m, h) # NULL}
           f == [h \in H |-> Of(m, h)]
           L == LiveIn(m)
<1>5. f \in Surjection(H, L)
  <2>1. f \in [H -> L]
    BY <1>3
  <2>2. ASSUME NEW t \in L PROVE \E h \in H : f[h] = t
    BY <1>2
  <2> HIDE DEF f, H, L
  <2> QED
    BY <2>1, <2>2 DEF Surjection
<1>6. H \subseteq NameHashes
  OBVIOUS
<1>7. IsFiniteSet(H) /\ Cardinality(H) <= Cardinality(NameHashes) /\ Cardinality(H) \in Nat
  <2> HIDE DEF H
  <2> QED
    BY <1>6, NamesAreFinite, FS_Subset, FS_CardinalityType
<1> HIDE DEF f, H
<1>8. Cardinality(L) <= Cardinality(H)
  BY <1>5, <1>7, FS_Surjection
<1>9. MaxObjects \in Nat /\ MaxObjects >= Cardinality(NameHashes) + 2
  BY ObjectsAssumption DEF NameHashes
<1>10. Cardinality(L) \in Nat
  BY LiveIsFinite
<1> HIDE DEF L
<1>11. Cardinality(L) + 2 <= MaxObjects
  BY <1>7, <1>8, <1>9, <1>10, NamesAreFinite
<1> QED
  BY <1>1, <1>4, <1>11 DEF Room, L

\* The variables of an interpreter that has just started.
First == [h \in NameHashes |-> IF h = Hash["quit"] THEN Global("quit")
                               ELSE IF h = Hash["help"] THEN Global("help") ELSE None]

\* The interpreter starts with `help' and `quit'.
LEMMA FreshIsGood ==
  /\ Good(Fresh) /\ Fresh.quitted = FALSE
  /\ \A t \in LiveIn(Fresh) : Fresh.obj[t].refs = 1
  /\ EnvOf(Fresh) = First
<1> DEFINE m0 == [names |-> khashmap_new, types |-> <<>>,
                  obj |-> [t \in Addr |-> NoObject], quitted |-> FALSE]
           r1 == pythonix_type_new(m0, Global("help"), "help")
           r2 == pythonix_type_new(r1.vm, Global("quit"), "quit")
           m1 == r1.vm
           m2 == r2.vm
<1>0. /\ "help" \in Names /\ "quit" \in Names /\ Hash["help"] \in NameHashes
      /\ Hash["quit"] \in NameHashes /\ Hash["help"] # Hash["quit"]
      /\ "help" # Anon /\ "quit" # Anon
      /\ Global("help") \in Values /\ Global("quit") \in Values
  BY ValuesAssumption, ValueTypes DEF NameHashes, Anon
<1>1. Fresh = m2
  BY DEF Fresh
<1>2. SearchTree(m0.names) /\ \A h \in Nat : khashmap_get(m0.names, h) = 0
  BY NewMap
<1>3. LiveIn(m0) = {} /\ m0.types = <<>> /\ m0.quitted = FALSE
  BY DEF LiveIn
<1>4. \A h \in NameHashes : Of(m0, h) = NULL
  BY <1>2, ValuesAssumption DEF Of, NULL, NameHashes
<1>5. Good(m0)
  <2>1. m0 \in Machine
    <3>1. khashmap_new \in Tree
      BY <1>2 DEF SearchTree, Ranked
    <3> QED
      BY <3>1 DEF Machine
  <2>2. Lists(m0.types, LiveIn(m0))
    <3>1. <<>> \in Seq({}) /\ Len(<<>>) = 0 /\ DOMAIN <<>> = 1 .. Len(<<>>)
      OBVIOUS
    <3>2. 1 .. 0 = {}
      OBVIOUS
    <3>3. IsInjective(<<>>)
      BY <3>1, <3>2 DEF IsInjective
    <3> QED
      BY <1>3, <3>1, <3>3 DEF Lists
  <2>3. Linked(m0)
    BY <1>3, <1>4 DEF Linked
  <2> HIDE DEF m0
  <2> QED
    BY <1>2, <2>1, <2>2, <2>3 DEF Good
<1> HIDE DEF m0
<1>6. Cardinality(LiveIn(m0)) = 0 /\ MaxObjects \in Nat /\ MaxObjects >= 2
  BY <1>3, FS_EmptySet, NamesAreFinite, ObjectsAssumption DEF NameHashes
<1>7. Room(m0, 1)
  BY <1>6 DEF Room
<1>8. /\ Good(m1) /\ m1.quitted = FALSE /\ Cardinality(LiveIn(m1)) <= 1
      /\ m1.obj[r1.t].refs = 1
      /\ \A h \in NameHashes \ {Hash["help"]} : Of(m1, h) = NULL
      /\ \A u \in LiveIn(m1) : u = r1.t
  <2>1. /\ Good(m1) /\ m1.quitted = m0.quitted
        /\ Cardinality(LiveIn(m1)) <= Cardinality(LiveIn(m0)) + 1
        /\ m1.obj[r1.t].refs = 1
        /\ \A h \in NameHashes \ {Hash["help"]} : Of(m1, h) = Of(m0, h)
        /\ \A u \in LiveIn(m1) \ {r1.t} : u \in LiveIn(m0)
    BY <1>0, <1>5, <1>7, NewNamed
  <2> HIDE DEF r1
  <2> QED
    BY <1>3, <1>4, <1>6, <2>1
<1>9. EnvOf(m1) = [EnvOf(m0) EXCEPT ![Hash["help"]] = Global("help")]
  BY <1>0, <1>5, <1>7, EnvNamed
<1> HIDE DEF r1
<1>10. Room(m1, 1)
  BY <1>6, <1>8, LiveIsFinite DEF Room
<1>11. /\ Good(m2) /\ m2.quitted = FALSE /\ m2.obj[r2.t].refs = 1
       /\ \A u \in LiveIn(m2) \ {r2.t} :
            u \in LiveIn(m1) /\ (u # Of(m1, Hash["quit"]) => m2.obj[u] = m1.obj[u])
  BY <1>0, <1>8, <1>10, NewNamed
<1>12. EnvOf(m2) = [EnvOf(m1) EXCEPT ![Hash["quit"]] = Global("quit")]
  BY <1>0, <1>8, <1>10, EnvNamed
<1> HIDE DEF r2, m1, m2
<1>13. ASSUME NEW u \in LiveIn(m2) PROVE m2.obj[u].refs = 1
  <2>1. CASE u = r2.t
    BY <1>11, <2>1
  <2>2. CASE u # r2.t
    <3>1. u \in LiveIn(m1)
      BY <1>11, <2>2
    <3>2. u # 0 /\ Of(m1, Hash["quit"]) = NULL
      BY <1>0, <1>8, <3>1, LiveObject
    <3>3. m2.obj[u] = m1.obj[u] /\ u = r1.t
      BY <1>8, <1>11, <2>2, <3>1, <3>2 DEF NULL
    <3> QED
      BY <1>8, <3>3
  <2> QED
    BY <2>1, <2>2
<1>14. EnvOf(m0) = [h \in NameHashes |-> None]
  BY <1>4 DEF EnvOf
<1>15. EnvOf(m2) = First
  BY <1>9, <1>12, <1>14 DEF First
<1> QED
  BY <1>1, <1>11, <1>13, <1>15

-----------------------------------------------------------------------------
(***************************************************************************)
(* The steps.                                                              *)
(***************************************************************************)

\* The inductive invariant.  What the collector has passed by is a variable's.
IInv ==
  /\ Good(vm) /\ place \in Places /\ left \in 0 .. Len(types)
  /\ place # "gc" => left = 0
  /\ place # "panic" => \A i \in left + 1 .. Len(types) : obj[types[i]].refs = 1

\* The lengths and the fields that the actions use.
LEMMA Fields ==
  /\ vm.names = names /\ vm.types = types /\ vm.obj = obj /\ vm.quitted = quitted
  /\ vm = [names |-> names, types |-> types, obj |-> obj, quitted |-> quitted]
BY DEF vm

\* The length of the array.
LEMMA LengthIsNat ==
  ASSUME NEW m, Good(m)
  PROVE  Len(m.types) \in Nat
BY DEF Good, Lists

\* The state after a step that leads to m.
LEMMA BecomesIs ==
  ASSUME NEW m, m \in Machine, Becomes(m)
  PROVE  vm' = m /\ types' = m.types /\ obj' = m.obj
<1>1. m = [names |-> m.names, types |-> m.types, obj |-> m.obj, quitted |-> m.quitted]
  BY DEF Machine
<1> QED
  BY <1>1 DEF Becomes, vm

\* A line leads from the prompt to the collector.
LEMMA LineKeeps ==
  ASSUME NEW m, Good(m), Line(m)
  PROVE  IInv' /\ vm' = m
<1>1. Becomes(m) /\ left' = Len(m.types) /\ place' = "gc"
  BY DEF Line
<1>2. vm' = m /\ types' = m.types
  BY <1>1, BecomesIs DEF Good
<1>3. Len(types') \in Nat /\ left' = Len(types')
  BY <1>1, <1>2, LengthIsNat
<1>4. left' + 1 .. Len(types') = {} /\ left' \in 0 .. Len(types')
  BY <1>3
<1>5. Good(vm)'
  <2>1. Good(vm)' <=> Good(vm')
    OBVIOUS
  <2> QED
    BY <1>2, <2>1
<1> QED
  BY <1>1, <1>2, <1>4, <1>5 DEF IInv, Places

\* At the prompt.
LEMMA AtPrompt ==
  ASSUME IInv, place = "read"
  PROVE  /\ Good(vm) /\ Room(vm, 1) /\ Room(vm, 2)
         /\ \A t \in LiveIn(vm) : vm.obj[t].refs = 1
         /\ LiveIn(vm) = {Of(vm, h) : h \in NameHashes} \ {NULL}
<1>1. Good(vm) /\ left = 0 /\ \A i \in left + 1 .. Len(types) : obj[types[i]].refs = 1
  BY DEF IInv
<1>2. \A i \in 1 .. Len(vm.types) : vm.obj[vm.types[i]].refs = 1
  BY <1>1, Fields
<1> DEFINE m == vm
<1> HIDE DEF m
<1>3. /\ \A t \in LiveIn(m) : m.obj[t].refs = 1
      /\ LiveIn(m) = {Of(m, h) : h \in NameHashes} \ {NULL}
      /\ Room(m, 2)
  BY <1>1, <1>2, RoomForTwo DEF m
<1>4. Room(m, 1)
  BY <1>3, LiveIsFinite, ObjectsAssumption DEF Room
<1> QED
  BY <1>1, <1>3, <1>4 DEF m

\* One more object after a line's first.
LEMMA RoomAfter ==
  ASSUME NEW m, NEW m2, Room(m, 2), Grown(m, m2, 1)
  PROVE  Good(m2) /\ Room(m2, 1)
<1>1. Cardinality(LiveIn(m)) \in Nat /\ Cardinality(LiveIn(m2)) \in Nat /\ MaxObjects \in Nat
  BY LiveIsFinite, ObjectsAssumption
<1> QED
  BY <1>1 DEF Grown, Room

-----------------------------------------------------------------------------
\* What a line does to the variables.
Assigned(env1, env2) ==
  \E h \in NameHashes, e \in Exprs :
    WorthOf(env1, e) # None /\ env2 = [env1 EXCEPT ![h] = Copied(WorthOf(env1, e))]

Combined(env1, env2) ==
  \E h \in NameHashes, e \in Exprs, op \in TypedOps :
    /\ env1[h] # None /\ WorthOf(env1, e) # None
    /\ ~DivisionFails(env1[h], op, WorthOf(env1, e))
    /\ env2 = [env1 EXCEPT ![h] = Operated(env1[h], op, WorthOf(env1, e))]

\* What is typed is an expression.
LEMMA TypedExprs ==
  ASSUME NEW x \in Typed
  PROVE  /\ x \in Names /\ Hash[x] \in NameHashes /\ Variable(x) \in Exprs
         /\ \A method \in TypedMethods : Called(x, method) \in Exprs
BY ValuesAssumption DEF NameHashes, Variable, Called, Exprs

\* x = e sets one variable to a copy of the value of e, or none.
LEMMA AssignKeeps ==
  ASSUME IInv, NEW x \in Typed, NEW e \in Exprs, pythonix_assign_any(x, e)
  PROVE  /\ IInv'
         /\ EnvOf(vm') = EnvOf(vm) \/ Assigned(EnvOf(vm), EnvOf(vm'))
<1> DEFINE m == vm
           r == pythonix_obj_identify(m, e)
           c == pythonix_type__copy__(r.vm, r.t, x)
<1>1. place = "read" /\ Line(IF r.t = NULL THEN r.vm ELSE c.vm)
  BY DEF pythonix_assign_any
<1>2. Good(m) /\ Room(m, 1) /\ Room(m, 2)
  BY <1>1, AtPrompt
<1>3. m = vm
  OBVIOUS
<1> HIDE DEF m
<1>4. /\ Grown(m, r.vm, 1)
      /\ r.t # NULL => /\ r.t \in LiveIn(r.vm)
                       /\ r.vm.obj[r.t].value = WorthOf(EnvOf(m), e)
  BY <1>2, Identified
<1> HIDE DEF r
<1>5. Good(r.vm) /\ Room(r.vm, 1) /\ EnvOf(r.vm) = EnvOf(m)
  BY <1>2, <1>4, RoomAfter, EnvKept
<1>6. CASE r.t = NULL
  <2>1. Line(r.vm)
    BY <1>1, <1>6
  <2> QED
    BY <1>3, <1>5, <2>1, LineKeeps
<1>7. CASE r.t # NULL /\ x = Anon
  <2>1. Grown(r.vm, c.vm, 1)
    BY <1>4, <1>5, <1>7, Copies
  <2>2. Good(c.vm) /\ EnvOf(c.vm) = EnvOf(r.vm)
    BY <1>5, <2>1, EnvKept DEF Grown
  <2>3. Line(c.vm)
    BY <1>1, <1>7
  <2> HIDE DEF c
  <2> QED
    BY <1>3, <1>5, <2>2, <2>3, LineKeeps
<1>8. CASE r.t # NULL /\ x # Anon
  <2> DEFINE w == WorthOf(EnvOf(m), e)
             v == Copied(w)
  <2>1. r.vm.obj[r.t].value = w /\ w \in Values
    BY <1>4, <1>5, <1>8, LiveObject
  <2>2. x \in Names /\ Hash[x] \in NameHashes /\ v \in Values /\ w # None
    BY <2>1, TypedExprs, CopiedIsValue, NothingAssumption
  <2>3. c = pythonix_type_new(r.vm, v, x)
    BY <2>1 DEF pythonix_type__copy__
  <2> HIDE DEF w, v, c
  <2>4. Good(c.vm) /\ EnvOf(c.vm) = [EnvOf(m) EXCEPT ![Hash[x]] = v]
    BY <1>5, <1>8, <2>2, <2>3, NewNamed, EnvNamed
  <2>5. Line(c.vm)
    BY <1>1, <1>8 DEF c
  <2>6. IInv' /\ vm' = c.vm
    BY <2>4, <2>5, LineKeeps
  <2>7. Assigned(EnvOf(m), EnvOf(c.vm))
    BY <2>2, <2>4 DEF Assigned, v, w
  <2> QED
    BY <1>3, <2>6, <2>7
<1> QED
  BY <1>6, <1>7, <1>8

\* Showing a variable changes none.
LEMMA PrintKeeps ==
  ASSUME IInv, NEW x \in Typed, pythonix_print_var(x)
  PROVE  IInv' /\ EnvOf(vm') = EnvOf(vm)
<1> DEFINE m == vm
           e == Variable(x)
           r == pythonix_obj_identify(m, e)
           c == pythonix_type_method_call(r.vm, r.t, "__str__", TRUE)
           after == IF r.t = NULL THEN r.vm ELSE c.vm
<1>1. place = "read" /\ Line(after)
  BY DEF pythonix_print_var
<1>2. Good(m) /\ Room(m, 1) /\ Room(m, 2) /\ e \in Exprs
  BY <1>1, AtPrompt, TypedExprs
<1>3. m = vm
  OBVIOUS
<1> HIDE DEF m, e
<1>4. Grown(m, r.vm, 1) /\ (r.t # NULL => r.t \in LiveIn(r.vm))
  BY <1>2, Identified
<1> HIDE DEF r
<1>5. Good(r.vm) /\ Room(r.vm, 1) /\ EnvOf(r.vm) = EnvOf(m)
  BY <1>2, <1>4, RoomAfter, EnvKept
<1>6. r.t # NULL => Grown(r.vm, c.vm, 1)
  BY <1>4, <1>5, Calls
<1> HIDE DEF c
<1>7. Good(after) /\ EnvOf(after) = EnvOf(m)
  BY <1>5, <1>6, EnvKept DEF Grown
<1> HIDE DEF after
<1> QED
  BY <1>1, <1>3, <1>7, LineKeeps

\* A method call changes no variable.
LEMMA MethodKeeps ==
  ASSUME IInv, NEW x \in Typed, NEW method \in TypedMethods, pythonix_method_call(x, method)
  PROVE  IInv' /\ EnvOf(vm') = EnvOf(vm)
<1> DEFINE m == vm
           e == Called(x, method)
           r == pythonix_obj_identify(m, e)
           c == pythonix_type_method_call(r.vm, r.t, "__str__", FALSE)
           self == pythonix_vm_get_type(vm, x)
           shown == self # NULL /\ obj[self].value.type = "str" /\ method = "__str__"
           after == IF r.t = NULL \/ shown THEN r.vm ELSE c.vm
<1>1. place = "read" /\ Line(after)
  BY DEF pythonix_method_call
<1>2. Good(m) /\ Room(m, 1) /\ Room(m, 2) /\ e \in Exprs
  BY <1>1, AtPrompt, TypedExprs
<1>3. m = vm
  OBVIOUS
<1> HIDE DEF m, e, shown
<1>4. Grown(m, r.vm, 1) /\ (r.t # NULL => r.t \in LiveIn(r.vm))
  BY <1>2, Identified
<1> HIDE DEF r
<1>5. Good(r.vm) /\ Room(r.vm, 1) /\ EnvOf(r.vm) = EnvOf(m)
  BY <1>2, <1>4, RoomAfter, EnvKept
<1>6. r.t # NULL => Grown(r.vm, c.vm, 1)
  BY <1>4, <1>5, Calls
<1> HIDE DEF c
<1>7. Good(after) /\ EnvOf(after) = EnvOf(m)
  BY <1>5, <1>6, EnvKept DEF Grown
<1> HIDE DEF after
<1> QED
  BY <1>1, <1>3, <1>7, LineKeeps

\* x op= e changes one variable by the value of e, or none.
LEMMA OperateKeeps ==
  ASSUME IInv, NEW x \in Typed, NEW op \in TypedOps, NEW e \in Exprs,
         pythonix_var_operator_any(x, op, e)
  PROVE  /\ IInv'
         /\ EnvOf(vm') = EnvOf(vm) \/ Combined(EnvOf(vm), EnvOf(vm'))
<1> DEFINE m == vm
           h == Hash[x]
           self == Of(m, h)
           r == pythonix_obj_identify(m, e)
           v == m.obj[self].value
           w == r.vm.obj[r.t].value
           first == CopiesFirst(v, op, w)
           n == IF first THEN pythonix_type__copy__(r.vm, self, Anon).vm ELSE r.vm
           fails == DivisionFails(v, op, w)
           after == [n EXCEPT !.obj[self].value = Operated(v, op, w)]
<1>1. /\ place = "read"
      /\ self = NULL => Line(m)
      /\ self # NULL =>
           IF r.t = NULL THEN Line(r.vm)
           ELSE IF fails THEN place' = "panic" /\ Becomes(r.vm) /\ left' = left
           ELSE Line(after)
  BY DEF pythonix_var_operator_any, Of, pythonix_vm_get_type, vm
<1>2. Good(m) /\ Room(m, 1) /\ Room(m, 2) /\ h \in NameHashes
  BY <1>1, AtPrompt, TypedExprs
<1>3. m = vm
  OBVIOUS
<1> HIDE DEF m, h
<1>4. /\ Grown(m, r.vm, 1)
      /\ r.t # NULL => r.t \in LiveIn(r.vm) /\ w = WorthOf(EnvOf(m), e)
  BY <1>2, Identified
<1> HIDE DEF r
<1>5. Good(r.vm) /\ Room(r.vm, 1) /\ EnvOf(r.vm) = EnvOf(m)
  BY <1>2, <1>4, RoomAfter, EnvKept
<1>6. CASE self = NULL
  BY <1>1, <1>2, <1>3, <1>6, LineKeeps
<1>7. CASE self # NULL /\ r.t = NULL
  BY <1>1, <1>3, <1>5, <1>7, LineKeeps
<1>8. CASE self # NULL /\ r.t # NULL /\ fails
  <2>1. place' = "panic" /\ Becomes(r.vm) /\ left' = left
    BY <1>1, <1>8
  <2>2. vm' = r.vm /\ types' = r.vm.types
    BY <1>5, <2>1, BecomesIs DEF Good
  <2>3. left' = 0 /\ left' \in 0 .. Len(types')
    <3>1. Len(types') \in Nat
      BY <1>5, <2>2, LengthIsNat
    <3> QED
      BY <1>1, <2>1, <3>1 DEF IInv
  <2>4. Good(vm)'
    <3>1. Good(vm)' <=> Good(vm')
      OBVIOUS
    <3> QED
      BY <1>5, <2>2, <3>1
  <2>5. IInv'
    BY <2>1, <2>3, <2>4 DEF IInv, Places
  <2> QED
    BY <1>3, <1>5, <2>2, <2>5
<1>9. CASE self # NULL /\ r.t # NULL /\ ~fails
  <2>1. self \in LiveIn(m) /\ v \in Values /\ v = EnvOf(m)[h] /\ v # None
    BY <1>2, <1>9, EnvTypes, OfTypes DEF NULL
  <2>2. w \in Values /\ w # None
    BY <1>4, <1>5, <1>9, LiveObject, NothingAssumption
  <2>3. Line(after)
    BY <1>1, <1>9
  <2>4. self \in LiveIn(r.vm)
    BY <1>4, <2>1 DEF Grown
  <2>5. Good(n) /\ EnvOf(n) = EnvOf(m) /\ self = Of(n, h)
    <3>1. Of(r.vm, h) = self
      BY <1>2, <1>4, EnvKept
    <3>2. CASE first
      <4>1. Grown(r.vm, pythonix_type__copy__(r.vm, self, Anon).vm, 1)
        BY <1>5, <2>4, Copies
      <4>2. n = pythonix_type__copy__(r.vm, self, Anon).vm
        BY <3>2
      <4> HIDE DEF n, self
      <4> QED
        BY <1>2, <1>5, <3>1, <4>1, <4>2, EnvKept DEF Grown
    <3>3. CASE ~first
      <4>1. n = r.vm
        BY <3>3
      <4> QED
        BY <1>5, <3>1, <4>1
    <3> QED
      BY <3>2, <3>3
  <2>6. Operated(v, op, w) \in Values
    BY <1>9, <2>1, <2>2, OperatedIsValue
  <2> DEFINE u == Operated(v, op, w)
  <2>7. after = [n EXCEPT !.obj[self].value = u] /\ u \in Values
    BY <2>6
  <2>8. Combined(EnvOf(m), [EnvOf(m) EXCEPT ![h] = u])
    <3>1. w = WorthOf(EnvOf(m), e)
      BY <1>4, <1>9
    <3>2. ~DivisionFails(v, op, w)
      BY <1>9
    <3> HIDE DEF v, w
    <3> QED
      BY <1>2, <2>1, <2>2, <3>1, <3>2 DEF Combined
  <2> HIDE DEF after, n, u, self, v, w
  <2>9. Good(after) /\ EnvOf(after) = [EnvOf(n) EXCEPT ![h] = u]
    BY <1>2, <1>9, <2>5, <2>7, InPlace
  <2>10. IInv' /\ vm' = after
    BY <2>3, <2>9, LineKeeps
  <2> QED
    BY <1>3, <2>5, <2>8, <2>9, <2>10
<1> QED
  BY <1>6, <1>7, <1>8, <1>9

\* Other lines change nothing.
LEMMA OtherLinesKeep ==
  ASSUME IInv, pythonix_not_impl
  PROVE  IInv' /\ EnvOf(vm') = EnvOf(vm)
<1>1. Line(vm) /\ Good(vm)
  BY DEF pythonix_not_impl, IInv
<1> QED
  BY <1>1, LineKeeps

-----------------------------------------------------------------------------
\* The collector frees what has no reference, and no name leads there.
LEMMA CollectorKeeps ==
  ASSUME IInv, pythonix_vm_gc
  PROVE  IInv' /\ EnvOf(vm') = EnvOf(vm)
<1> DEFINE t == types[left]
           o == obj[t]
           named == o.name # Anon /\ khashmap_get(names, Hash[o.name]) = t
<1>1. /\ place = "gc" /\ left > 0 /\ left' = left - 1 /\ place' = "gc" /\ quitted' = quitted
      /\ IF o.refs <= 0
         THEN /\ names' = IF named THEN khashmap_set(names, Hash[o.name], NULL) ELSE names
              /\ obj' = [obj EXCEPT ![t] = NoObject]
              /\ types' = RemoveAt(types, left)
         ELSE names' = names /\ obj' = obj /\ types' = types
  BY DEF pythonix_vm_gc, karray_pop
<1>2. /\ Good(vm) /\ left \in 1 .. Len(types) /\ Len(types) \in Nat
      /\ \A i \in left + 1 .. Len(types) : obj[types[i]].refs = 1
  <2>1. Good(vm) /\ left \in 0 .. Len(types) /\ place # "panic"
    BY <1>1 DEF IInv
  <2>2. Len(types) \in Nat
    BY <2>1, Fields, LengthIsNat
  <2> QED
    BY <1>1, <2>1, <2>2 DEF IInv
<1>3. /\ names \in Tree /\ SearchTree(names) /\ Lists(types, LiveIn(vm)) /\ Linked(vm)
      /\ obj \in [Addr -> Objects \cup {NoObject}] /\ types \in Seq(Addr) /\ quitted \in BOOLEAN
  BY <1>2, Fields DEF Good, Machine
<1>4. t \in LiveIn(vm) /\ t \in Addr
  BY <1>2, <1>3, LiveIsFinite DEF Lists
<1>5. CASE o.refs <= 0
  <2>1. o.refs = 0 /\ o = vm.obj[t]
    <3>1. vm.obj[t].refs \in {0, 1}
      BY <1>2, <1>4, LiveObject
    <3>2. o = vm.obj[t]
      BY Fields
    <3> QED
      BY <1>5, <3>1, <3>2
  <2>2. \A h \in NameHashes : Of(vm, h) # t
    <3> SUFFICES ASSUME NEW h \in NameHashes, Of(vm, h) = t PROVE FALSE
      OBVIOUS
    <3>1. t # 0
      BY <1>2, <1>4, LiveObject
    <3>2. vm.obj[Of(vm, h)].refs = 1
      BY <1>2, <3>1, OfTypes
    <3> QED
      BY <2>1, <3>2
  <2>3. names' = names
    <3>1. named => FALSE
      <4> SUFFICES ASSUME named PROVE FALSE
        OBVIOUS
      <4>1. o.name \in Names /\ Hash[o.name] \in NameHashes
        BY <1>2, <1>4, <2>1, LiveObject DEF NameHashes
      <4>2. Of(vm, Hash[o.name]) = t
        BY Fields DEF Of
      <4> QED
        BY <2>2, <4>1, <4>2
    <3> QED
      BY <1>1, <1>5, <3>1
  <2>4. obj' = [obj EXCEPT ![t] = NoObject] /\ types' = RemoveAt(types, left)
    BY <1>1, <1>5
  <2> HIDE DEF named, o
  <2> DEFINE m == vm
             n == vm'
  <2>5. /\ m.names = names /\ m.types = types /\ m.obj = obj /\ m.quitted = quitted
        /\ n.names = names' /\ n.types = types' /\ n.obj = obj' /\ n.quitted = quitted'
        /\ n = [names |-> names', types |-> types', obj |-> obj', quitted |-> quitted']
    BY DEF vm
  <2>6. Good(m) /\ t \in LiveIn(m) /\ (\A h \in NameHashes : Of(m, h) # t) /\ Lists(types, LiveIn(m))
    BY <1>2, <1>3, <1>4, <2>2
  <2>7. m = vm /\ n = vm'
    OBVIOUS
  <2> HIDE DEF m, n
  <2>8. /\ t = types[left] /\ Lists(types', LiveIn(m) \ {t}) /\ Len(types') = Len(types) - 1
        /\ \A k \in 1 .. Len(types) - 1 :
             types'[k] = IF k < left THEN types[k] ELSE types[k + 1]
    BY <1>2, <2>4, <2>6, RemoveLists
  <2> HIDE DEF t
  <2>9. LiveIn(n) = LiveIn(m) \ {t}
    BY <1>3, <1>4, <2>4, <2>5 DEF LiveIn
  <2>10. \A u \in LiveIn(n) : u \in LiveIn(m) /\ n.obj[u] = m.obj[u]
    BY <1>3, <1>4, <2>4, <2>5, <2>9 DEF LiveIn
  <2>11. \A h : Of(n, h) = Of(m, h)
    BY <2>3, <2>5 DEF Of
  <2>12. \A h \in NameHashes : Of(m, h) # NULL => Of(m, h) \in LiveIn(n)
    BY <2>6, <2>9, OfTypes DEF NULL
  <2>13. Linked(n)
    <3>1. ASSUME NEW h \in NameHashes, Of(n, h) # NULL
          PROVE  LET p == n.obj[Of(n, h)]
                 IN  /\ Of(n, h) \in LiveIn(n)
                     /\ p.refs = 1 /\ p.name # Anon /\ Hash[p.name] = h
      <4>1. Of(n, h) = Of(m, h) /\ Of(m, h) # 0 /\ Of(m, h) \in LiveIn(n)
        BY <2>11, <2>12, <3>1 DEF NULL
      <4>2. /\ m.obj[Of(m, h)].refs = 1 /\ m.obj[Of(m, h)].name # Anon
            /\ Hash[m.obj[Of(m, h)].name] = h
        BY <2>6, <4>1, OfTypes
      <4> QED
        BY <2>10, <4>1, <4>2
    <3>2. ASSUME NEW u \in LiveIn(n)
          PROVE  /\ n.obj[u].refs \in {0, 1}
                 /\ n.obj[u].refs = 1 =>
                      n.obj[u].name # Anon /\ Of(n, Hash[n.obj[u].name]) = u
      BY <2>6, <2>10, <2>11, LiveObject
    <3> QED
      BY <3>1, <3>2 DEF Linked
  <2>14. n \in Machine
    <3>1. obj' \in [Addr -> Objects \cup {NoObject}]
      BY <1>3, <2>4
    <3>2. types' \in Seq(Addr)
      BY <1>2, <1>3, <2>4, RemoveIs
    <3> QED
      BY <1>1, <1>3, <2>3, <2>5, <3>1, <3>2 DEF Machine
  <2>15. Good(n)
    BY <1>3, <2>3, <2>5, <2>8, <2>9, <2>13, <2>14 DEF Good
  <2>16. left' \in 0 .. Len(types')
    BY <1>1, <1>2, <2>8
  <2>17. ASSUME NEW i \in left' + 1 .. Len(types') PROVE obj'[types'[i]].refs = 1
    <3>1. /\ i \in 1 .. Len(types) - 1 /\ ~(i < left) /\ i + 1 \in left + 1 .. Len(types)
          /\ i + 1 \in 1 .. Len(types)
      BY <1>1, <1>2, <2>8
    <3>2. types'[i] = types[i + 1] /\ obj[types[i + 1]].refs = 1
      BY <1>2, <2>8, <3>1
    <3>3. types'[i] \in LiveIn(n)
      <4>1. i \in 1 .. Len(types')
        BY <2>8, <3>1
      <4> QED
        BY <2>8, <2>9, <4>1 DEF Lists
    <3> QED
      BY <2>5, <2>10, <3>2, <3>3
  <2>18. Good(vm)'
    <3>1. Good(vm)' <=> Good(vm')
      OBVIOUS
    <3> QED
      BY <2>7, <2>15, <3>1
  <2>19. IInv'
    BY <1>1, <2>16, <2>17, <2>18 DEF IInv, Places
  <2>20. EnvOf(n) = EnvOf(m)
    BY <2>10, <2>11, <2>12 DEF EnvOf
  <2> QED
    BY <2>7, <2>19, <2>20
<1>6. CASE ~(o.refs <= 0)
  <2>1. names' = names /\ obj' = obj /\ types' = types
    BY <1>1, <1>6
  <2>2. vm' = vm
    BY <1>1, <2>1 DEF vm
  <2>3. o.refs = 1
    <3>1. vm.obj[t].refs \in {0, 1}
      BY <1>2, <1>4, LiveObject
    <3>2. o = vm.obj[t]
      BY Fields
    <3> QED
      BY <1>6, <3>1, <3>2
  <2>4. Good(vm)'
    <3>1. Good(vm)' <=> Good(vm')
      OBVIOUS
    <3> QED
      BY <1>2, <2>2, <3>1
  <2>5. \A i \in left' + 1 .. Len(types') : i = left \/ i \in left + 1 .. Len(types)
    BY <1>1, <1>2, <2>1
  <2>6. \A i \in left' + 1 .. Len(types') : obj'[types'[i]].refs = 1
    BY <1>2, <2>1, <2>3, <2>5
  <2>7. left' \in 0 .. Len(types')
    BY <1>1, <1>2, <2>1
  <2> HIDE DEF t, o, named
  <2>8. IInv'
    BY <1>1, <2>4, <2>6, <2>7 DEF IInv, Places
  <2> QED
    BY <2>2, <2>8
<1> QED
  BY <1>5, <1>6

\* After the collector, the prompt or the end.
LEMMA NextLineKeeps ==
  ASSUME IInv, NextLine
  PROVE  IInv' /\ EnvOf(vm') = EnvOf(vm)
<1>1. vm' = vm /\ types' = types /\ obj' = obj /\ left' = 0 /\ left = 0 /\ place = "gc"
  BY DEF NextLine, vm
<1>2. Good(vm)'
  <2>1. Good(vm)' <=> Good(vm')
    OBVIOUS
  <2> QED
    BY <1>1, <2>1 DEF IInv
<1>3. place' \in {"quit", "read"}
  BY DEF NextLine
<1>4. \A i \in left' + 1 .. Len(types') : obj'[types'[i]].refs = 1
  BY <1>1 DEF IInv
<1>5. left' \in 0 .. Len(types')
  BY <1>1 DEF IInv
<1>6. IInv'
  BY <1>1, <1>2, <1>3, <1>4, <1>5 DEF IInv, Places
<1> QED
  BY <1>1, <1>6

\* From an interpreter that has just started.
LEMMA FreshEntries ==
  ASSUME NEW i \in 1 .. Len(Fresh.types)
  PROVE  Fresh.obj[Fresh.types[i]].refs = 1
<1>1. Lists(Fresh.types, LiveIn(Fresh)) /\ \A t \in LiveIn(Fresh) : Fresh.obj[t].refs = 1
  BY FreshIsGood DEF Good
<1>2. Fresh.types[i] \in LiveIn(Fresh)
  BY <1>1 DEF Lists
<1> QED
  BY <1>1, <1>2

\* A new interpreter.
LEMMA RestartKeeps ==
  ASSUME pythonix_vm_free
  PROVE  IInv' /\ EnvOf(vm') = First
<1>1. place' = "read" /\ Becomes(Fresh) /\ left' = 0
  BY DEF pythonix_vm_free
<1>2. Good(Fresh) /\ EnvOf(Fresh) = First
  BY FreshIsGood
<1>3. vm' = Fresh /\ types' = Fresh.types /\ obj' = Fresh.obj
  BY <1>1, <1>2, BecomesIs DEF Good
<1>4. Good(vm)'
  <2>1. Good(vm)' <=> Good(vm')
    OBVIOUS
  <2> QED
    BY <1>2, <1>3, <2>1
<1>5. Len(types') \in Nat
  BY <1>2, <1>3, LengthIsNat
<1>6. left' \in 0 .. Len(types') /\ left' + 1 .. Len(types') = 1 .. Len(types')
  BY <1>1, <1>5
<1>7. \A i \in left' + 1 .. Len(types') : obj'[types'[i]].refs = 1
  BY <1>3, <1>6, FreshEntries
<1>8. IInv'
  BY <1>1, <1>4, <1>6, <1>7 DEF IInv, Places
<1> QED
  BY <1>2, <1>3, <1>8

\* The first interpreter.
LEMMA StartKeeps ==
  ASSUME Init
  PROVE  IInv /\ EnvOf(vm) = First
<1>1. place = "read" /\ left = 0 /\ types = Fresh.types /\ obj = Fresh.obj
  BY DEF Init
<1>2. Good(Fresh) /\ EnvOf(Fresh) = First /\ Fresh.quitted = FALSE
  BY FreshIsGood
<1>3. vm = Fresh
  <2>1. Fresh \in Machine
    BY <1>2 DEF Good
  <2>2. Fresh = [names |-> Fresh.names, types |-> Fresh.types, obj |-> Fresh.obj,
                 quitted |-> Fresh.quitted]
    BY <2>1 DEF Machine
  <2> QED
    BY <1>2, <2>2 DEF Init, vm
<1>4. Len(types) \in Nat
  BY <1>1, <1>2, LengthIsNat
<1>5. left \in 0 .. Len(types) /\ left + 1 .. Len(types) = 1 .. Len(types)
  BY <1>1, <1>4
<1>6. \A i \in left + 1 .. Len(types) : obj[types[i]].refs = 1
  BY <1>1, <1>5, FreshEntries
<1> QED
  BY <1>1, <1>2, <1>3, <1>5, <1>6 DEF IInv, Places

\* Every step keeps the invariant and is a step of the variables, or of none.
LEMMA StepKeeps ==
  ASSUME IInv, [Next]_vars
  PROVE  /\ IInv'
         /\ \/ EnvOf(vm') = EnvOf(vm) \/ EnvOf(vm') = First
            \/ Assigned(EnvOf(vm), EnvOf(vm')) \/ Combined(EnvOf(vm), EnvOf(vm'))
<1>1. CASE UNCHANGED vars
  <2>1. vm' = vm
    BY <1>1 DEF vars, vm
  <2>2. Good(vm)'
    <3>1. Good(vm)' <=> Good(vm')
      OBVIOUS
    <3> QED
      BY <2>1, <3>1 DEF IInv
  <2> QED
    BY <1>1, <2>1, <2>2 DEF vars, IInv
<1>2. CASE \E x \in Typed : pythonix_print_var(x)
  BY <1>2, PrintKeeps
<1>3. CASE \E x \in Typed, e \in Exprs : pythonix_assign_any(x, e)
  BY <1>3, AssignKeeps
<1>4. CASE \E x \in Typed, method \in TypedMethods : pythonix_method_call(x, method)
  BY <1>4, MethodKeeps
<1>5. CASE \E x \in Typed, op \in TypedOps, e \in Exprs : pythonix_var_operator_any(x, op, e)
  BY <1>5, OperateKeeps
<1>6. CASE pythonix_not_impl
  BY <1>6, OtherLinesKeep
<1>7. CASE pythonix_vm_gc
  BY <1>7, CollectorKeeps
<1>8. CASE NextLine
  BY <1>8, NextLineKeeps
<1>9. CASE pythonix_vm_free
  BY <1>9, RestartKeeps
<1> QED
  BY <1>1, <1>2, <1>3, <1>4, <1>5, <1>6, <1>7, <1>8, <1>9 DEF Next

\* In every state the invariant holds.
LEMMA AlwaysGood == Spec => []IInv
<1>1. Init => IInv
  BY StartKeeps
<1>2. IInv /\ [Next]_vars => IInv'
  BY StepKeeps
<1> QED
  BY <1>1, <1>2, PTL DEF Spec

\* The two ways to name the live objects.
LEMMA LiveIsLive == Live = LiveIn(vm)
BY Fields DEF Live, LiveIn

-----------------------------------------------------------------------------
\* The values are the same in the abstract specification.
LEMMA SameValues ==
  /\ \A v : Env!Copied(v) = Copied(v) /\ Env!Shown(v) = Shown(v) /\ Env!Global(v) = Global(v)
  /\ \A v, op, w : /\ Env!DivisionFails(v, op, w) <=> DivisionFails(v, op, w)
                   /\ Env!Operated(v, op, w) = Operated(v, op, w)
  /\ Env!Exprs = Exprs
<1>1. \A t, d, s : Env!Value(t, d, s) = Value(t, d, s)
  BY DEF Env!Value, Value
<1>2. \A n : Env!IntValue(n) = IntValue(n) /\ Env!StrValue(n) = StrValue(n)
  BY <1>1 DEF Env!IntValue, IntValue, Env!StrValue, StrValue
<1>3. \A n : Env!Global(n) = Global(n) /\ Env!Copied(n) = Copied(n)
  BY <1>1 DEF Env!Global, Global, Env!Copied, Copied
<1>4. \A n : Env!Capped(n) = Capped(n)
  BY DEF Env!Capped, Capped
<1>5. \A v : Env!Shown(v) = Shown(v)
  BY <1>2, <1>4 DEF Env!Shown, Shown
<1>6. Env!PowerOfTwo = PowerOfTwo
  BY DEF Env!PowerOfTwo, PowerOfTwo
<1>7. Env!IntMin = IntMin
  BY <1>6 DEF Env!IntMin, IntMin
<1>8. \A n : Env!Wrap(n) = Wrap(n)
  BY <1>6, <1>7 DEF Env!Wrap, Wrap
<1>9. \A m, n : Env!Quotient(m, n) = Quotient(m, n)
  BY DEF Env!Quotient, Quotient, Env!Magnitude, Magnitude
<1>10. \A v, op, w : Env!DivisionFails(v, op, w) <=> DivisionFails(v, op, w)
  BY <1>7 DEF Env!DivisionFails, DivisionFails
<1>11. \A v, op, w : Env!Operated(v, op, w) = Operated(v, op, w)
  BY <1>2, <1>4, <1>8, <1>9 DEF Env!Operated, Operated
<1>12. Env!Exprs = Exprs
  BY <1>2 DEF Env!Exprs, Exprs
<1> QED
  BY <1>3, <1>5, <1>10, <1>11, <1>12

-----------------------------------------------------------------------------
\* Types: every object has a value that the interpreter can name, the array of
\* objects holds each live object once.
THEOREM TypeCorrect == Spec => []TypeOK
<1>1. IInv => TypeOK
  <2> SUFFICES ASSUME IInv PROVE TypeOK
    OBVIOUS
  <2>1. Good(vm) /\ place \in Places /\ left \in 0 .. Len(types)
    BY DEF IInv
  <2>2. obj \in [Addr -> Objects \cup {NoObject}] /\ quitted \in BOOLEAN
    BY <2>1, Fields DEF Good, Machine
  <2>3. Lists(types, LiveIn(vm))
    BY <2>1, Fields DEF Good
  <2>4. Len(types) = Cardinality(LiveIn(vm))
    BY <2>3, LiveIsFinite, ListLength
  <2>5. types \in Seq(Live) /\ IsInjective(types) /\ Len(types) = Cardinality(Live)
    BY <2>3, <2>4, LiveIsLive DEF Lists
  <2> QED
    BY <2>1, <2>2, <2>5 DEF TypeOK
<1> QED
  BY <1>1, AlwaysGood, PTL

\* A name leads to an object that is alive, counted and has its hash: neither
\* pythonix_type_new nor pythonix_vm_gc ever leaves a name behind.
THEOREM NamesLive == Spec => []NamesLeadToObjects
<1>1. IInv => NamesLeadToObjects
  <2> SUFFICES ASSUME IInv, NEW x \in Names, khashmap_get(names, Hash[x]) # NULL
               PROVE  LET t == khashmap_get(names, Hash[x])
                      IN  /\ t \in Live /\ obj[t].refs = 1
                          /\ obj[t].name # Anon /\ Hash[obj[t].name] = Hash[x]
    BY DEF NamesLeadToObjects
  <2>1. Good(vm) /\ Hash[x] \in NameHashes
    BY DEF IInv, NameHashes
  <2>2. Of(vm, Hash[x]) = khashmap_get(names, Hash[x])
    BY Fields DEF Of
  <2>3. /\ Of(vm, Hash[x]) \in LiveIn(vm) /\ vm.obj[Of(vm, Hash[x])].refs = 1
        /\ vm.obj[Of(vm, Hash[x])].name # Anon
        /\ Hash[vm.obj[Of(vm, Hash[x])].name] = Hash[x]
    BY <2>1, <2>2, OfTypes DEF NULL
  <2> QED
    BY <2>2, <2>3, Fields, LiveIsLive
<1> QED
  BY <1>1, AlwaysGood, PTL

\* When a line is read, exactly the objects that names lead to are alive:
\* pythonix_vm_gc has freed every temporary and every replaced value.
THEOREM CollectorIsComplete == Spec => []OnlyVariablesLive
<1>1. IInv => OnlyVariablesLive
  <2> SUFFICES ASSUME IInv, place = "read"
               PROVE  Live = {khashmap_get(names, Hash[x]) : x \in Names} \ {NULL}
    BY DEF OnlyVariablesLive
  <2>1. Live = {Of(vm, h) : h \in NameHashes} \ {NULL}
    BY AtPrompt, LiveIsLive
  <2>2. {Of(vm, h) : h \in NameHashes} = {khashmap_get(names, Hash[x]) : x \in Names}
    BY Fields DEF Of, NameHashes
  <2> QED
    BY <2>1, <2>2
<1> QED
  BY <1>1, AlwaysGood, PTL

\* The keys of the map are in order, each once, and ktree_del of any of them
\* leaves the others so.
THEOREM TreeSorted == Spec => []NamesAreSorted
<1>1. IInv => NamesAreSorted
  <2> SUFFICES ASSUME IInv PROVE NamesAreSorted
    OBVIOUS
  <2>1. SearchTree(names)
    BY Fields DEF IInv, Good
  <2> QED
    BY <2>1, DeleteTakesOneKey DEF NamesAreSorted
<1> QED
  BY <1>1, AlwaysGood, PTL

\* The interpreter implements PyEnv: each step changes one variable the way the
\* line says, or none, for every set of names, hashes and widths of integers.
THEOREM ImplementsPromise == Spec => KeepsVariables
<1> DEFINE env == [h \in {Hash[x] : x \in Names} |->
                     IF khashmap_get(names, h) = NULL THEN None
                     ELSE obj[khashmap_get(names, h)].value]
<1>1. env = EnvOf(vm)
  BY Fields DEF EnvOf, Of, NameHashes
<1>2. env' = EnvOf(vm')
  <2>1. vm'.names = names' /\ vm'.obj = obj'
    BY DEF vm
  <2> QED
    BY <2>1 DEF EnvOf, Of, NameHashes
<1>3. Env!FirstEnv = First /\ Env!Hashes = NameHashes
  BY SameValues DEF Env!FirstEnv, First, Env!Hashes, NameHashes
<1>4. ASSUME NEW e \in Exprs
      PROVE  Env!ValueOf(e) = WorthOf(env, e)
  <2> DEFINE v == env[Hash[e.name]]
  <2>1. Env!ValueOf(e) =
          IF e.kind \in {"int", "str"} THEN e.value
          ELSE CASE v = None -> None
                 [] v # None /\ e.kind = "var" -> v
                 [] v # None /\ e.kind = "method" ->
                      CASE e.method = "__copy__" -> Copied(v)
                        [] e.method = "__str__" /\ v.str = "own" -> Shown(v)
                        [] OTHER -> None
    BY SameValues DEF Env!ValueOf
  <2>2. WorthOf(env, e) =
          IF e.kind \in {"int", "str"} THEN e.value
          ELSE IF v = None THEN None
          ELSE IF e.kind = "var" THEN v
          ELSE IF e.method = "__copy__" THEN Copied(v)
          ELSE IF e.method = "__str__" /\ v.str = "own" THEN Shown(v)
          ELSE None
    BY DEF WorthOf
  <2> HIDE DEF v, env
  <2>3. CASE e.kind \in {"int", "str"}
    BY <2>1, <2>2, <2>3
  <2>4. CASE e.kind = "var"
    BY <2>1, <2>2, <2>4
  <2>5. CASE e.kind = "method"
    BY <2>1, <2>2, <2>5
  <2> QED
    BY <2>3, <2>4, <2>5, ExprTypes
<1>5. Init => Env!Init
  BY <1>1, <1>3, StartKeeps DEF Env!Init
<1>6. IInv /\ [Next]_vars => [Env!Next]_env
  <2> SUFFICES ASSUME IInv, [Next]_vars PROVE Env!Next \/ env' = env
    OBVIOUS
  <2>1. \/ env' = env \/ env' = First
        \/ Assigned(env, env') \/ Combined(env, env')
    BY <1>1, <1>2, StepKeeps
  <2>2. ASSUME NEW h \in NameHashes, NEW v, env' = [env EXCEPT ![h] = v]
        PROVE  Env!OthersKeepTheirs(h) /\ env'[h] = v
    <3>1. DOMAIN env = NameHashes
      BY DEF NameHashes
    <3> QED
      BY <1>3, <2>2, <3>1 DEF Env!OthersKeepTheirs
  <2>3. ASSUME env' = First PROVE Env!Next
    BY <1>3, <2>3 DEF Env!Next, Env!Restart
  <2>4. ASSUME Assigned(env, env') PROVE Env!Next
    <3>1. PICK h \in NameHashes, e \in Exprs :
            WorthOf(env, e) # None /\ env' = [env EXCEPT ![h] = Copied(WorthOf(env, e))]
      BY <2>4 DEF Assigned
    <3> DEFINE w == WorthOf(env, e)
    <3>2. w \in Env!Worth
      BY <1>4, <3>1, SameValues DEF Env!Worth
    <3>3. Env!OthersKeepTheirs(h) /\ env'[h] = Copied(w)
      BY <2>2, <3>1
    <3>4. Env!Assign(h)
      BY <3>2, <3>3, SameValues DEF Env!Assign
    <3> QED
      BY <1>3, <3>4 DEF Env!Next
  <2>5. ASSUME Combined(env, env') PROVE Env!Next
    <3>1. PICK h \in NameHashes, e \in Exprs, op \in TypedOps :
            /\ env[h] # None /\ WorthOf(env, e) # None
            /\ ~DivisionFails(env[h], op, WorthOf(env, e))
            /\ env' = [env EXCEPT ![h] = Operated(env[h], op, WorthOf(env, e))]
      BY <2>5 DEF Combined
    <3> DEFINE w == WorthOf(env, e)
    <3>2. w \in Env!Worth
      BY <1>4, <3>1, SameValues DEF Env!Worth
    <3>3. Env!OthersKeepTheirs(h) /\ env'[h] = Operated(env[h], op, w)
      BY <2>2, <3>1
    <3>4. Env!Operate(h)
      BY <3>1, <3>2, <3>3, SameValues DEF Env!Operate
    <3> QED
      BY <1>3, <3>4 DEF Env!Next
  <2> QED
    BY <2>1, <2>3, <2>4, <2>5
<1> QED
  BY <1>5, <1>6, AlwaysGood, PTL DEF Spec, KeepsVariables, Env!Spec
=============================================================================
