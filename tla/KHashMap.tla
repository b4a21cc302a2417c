------------------------------- MODULE KHashMap -------------------------------
(***************************************************************************)
(* The search tree of kernel/src/kstd/ktree.c and the map from hashes to   *)
(* values that khashmap.c keeps in one.  A tree is the sequence of its     *)
(* nodes in the order they were allocated; a pointer is a place in that    *)
(* sequence, and 0 is NULL.  One task uses a map at a time, so the locks   *)
(* of the nodes are free between two calls.                                *)
(***************************************************************************)
EXTENDS Naturals, Sequences

CONSTANT Sentinel       \* UINT64_MAX>>1, the key of the node made with the map

ASSUME SentinelAssumption == Sentinel \in Nat

NULL == 0

ktree_new(k, v) == [key |-> k, value |-> v, left |-> NULL, right |-> NULL]

khashmap_new == [root |-> 1, nodes |-> <<ktree_new(Sentinel, 0)>>]

\* Where a call for k goes on from node n.
Side(n, k) == IF k > n.key THEN "right" ELSE "left"

\* The node with key k, or NULL.
ktree_search(t, k) ==
  LET at[i \in 0 .. Len(t.nodes)] ==
        IF i = NULL \/ t.nodes[i].key = k THEN i
        ELSE at[t.nodes[i][Side(t.nodes[i], k)]]
  IN  at[t.root]

ktree_add(t, k, v) ==
  LET new == Len(t.nodes) + 1
      above[i \in 1 .. Len(t.nodes)] ==
        LET next == t.nodes[i][Side(t.nodes[i], k)]
        IN  IF next = NULL THEN i ELSE above[next]
      p == above[t.root]
  IN  [t EXCEPT !.nodes = Append([@ EXCEPT ![p][Side(t.nodes[p], k)] = new], ktree_new(k, v))]

ktree_min_key(t, from) ==
  LET least[i \in 1 .. Len(t.nodes)] ==
        IF t.nodes[i].left = NULL THEN i ELSE least[t.nodes[i].left]
  IN  least[from]

-----------------------------------------------------------------------------
\* The pointer to node i becomes one to node j.
Redirect(t, i, j) ==
  LET To(p) == IF p = i THEN j ELSE p
  IN  [root |-> To(t.root),
       nodes |-> [m \in DOMAIN t.nodes |->
                    [t.nodes[m] EXCEPT !.left = To(@), !.right = To(@)]]]

\* The only child of a node, or NULL.
OnlyChild(n) == IF n.left = NULL THEN n.right ELSE n.left

\* ktree_del in a tree without equal keys, as all trees of hash maps are.  A
\* node with two children gets the key of its successor, and keeps its value.
\* Mutant: the successor stays where it was.
ktree_delTwice(t, k) ==
  LET i == ktree_search(t, k)
      n == t.nodes[i]
  IN  IF i = NULL THEN t
      ELSE IF n.left = NULL \/ n.right = NULL THEN Redirect(t, i, OnlyChild(n))
      ELSE [t EXCEPT !.nodes[i].key = t.nodes[ktree_min_key(t, n.right)].key]

ktree_del(t, k) ==
  LET i == ktree_search(t, k)
      n == t.nodes[i]
      s == ktree_min_key(t, n.right)
  IN  IF i = NULL THEN t
      ELSE IF n.left = NULL \/ n.right = NULL THEN Redirect(t, i, OnlyChild(n))
      ELSE Redirect([t EXCEPT !.nodes[i].key = t.nodes[s].key], s, t.nodes[s].right)

-----------------------------------------------------------------------------
khashmap_get(t, hash) ==
  LET i == ktree_search(t, hash)
  IN  IF i = NULL THEN 0 ELSE t.nodes[i].value

\* Mutant: the key is not looked for first.
khashmap_setNew(t, hash, v) == ktree_add(t, hash, v)
khashmap_set(t, hash, v) ==
  LET i == ktree_search(t, hash)
  IN  IF i = NULL THEN ktree_add(t, hash, v) ELSE [t EXCEPT !.nodes[i].value = v]

-----------------------------------------------------------------------------
\* The nodes from the least key to the greatest, as a walk of the tree finds them.
InOrder(t) ==
  LET walk[i \in 0 .. Len(t.nodes)] ==
        IF i = NULL THEN <<>>
        ELSE walk[t.nodes[i].left] \o <<i>> \o walk[t.nodes[i].right]
  IN  walk[t.root]

\* The walk meets the keys in order, and no key twice.
Sorted(t) ==
  \A a, b \in DOMAIN InOrder(t) :
    a < b => t.nodes[InOrder(t)[a]].key < t.nodes[InOrder(t)[b]].key

KeysOf(t) == {t.nodes[i].key : i \in {InOrder(t)[a] : a \in DOMAIN InOrder(t)}}
=============================================================================
