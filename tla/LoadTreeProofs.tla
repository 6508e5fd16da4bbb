--------------------------- MODULE LoadTreeProofs ---------------------------
(***************************************************************************)
(* What is proved of the nodes of the parallel branch and bound, for any   *)
(* number of solvers and any leaves, when the load coordinator takes a     *)
(* step.  The cover: each leaf that the incumbent does not solve is in a   *)
(* node with no ancestor, of the pool or at a solver (TreeOk); and what a  *)
(* solver has dropped of its node the load coordinator knows to be solved, *)
(* has in a descendant, or will hear of before the end of that node        *)
(* (Part).  LoadCoverProofs says the same of the steps of the solvers.     *)
(***************************************************************************)
EXTENDS LoadCoordinationProofs

-----------------------------------------------------------------------------
(* The tree of nodes.                                                      *)

\* The messages of s that bring a part of its node, or end it as solved.
Gifts(s)   == {m \in ToCoord : m.tag = "Node" /\ m.src = s}
Normals(s) == {m \in ToCoord : m.tag = "Completion" /\ m.src = s /\ m.val = "normal"}

\* The load coordinator needs nothing more of leaf l.
Solved(c, l) == c.inc <= Value[l]
\* The bound of a node is one of its leaves, but for those that are solved.
Fits(c, n) == \A l \in n.leaves : n.bound <= Value[l] \/ Solved(c, l)
\* A node whose ancestor is the one of number i holds leaf l.
Handed(c, i, l) == \E n \in Nodes(c) : n.anc = i /\ l \in n.leaves
\* Each leaf that is not solved is in a node that a checkpoint saves.
Covers(c) == \A l \in Leaves : Solved(c, l) \/ Handed(c, 0, l)

Sorted(p) == \A i, j \in DOMAIN p : i <= j => p[i].bound <= p[j].bound
\* No two nodes, of the pool p and at the solvers, have one number.
Distinct(p) == \A i, j \in DOMAIN p : p[i].id = p[j].id => i = j
Apart(p, f) == /\ Distinct(p)
               /\ \A i \in DOMAIN p, s \in Solvers : p[i].id # f[s].id
               /\ \A s, t \in Solvers : f[s] # NoNode /\ f[s].id = f[t].id => s = t

TreeOk(c) ==
    /\ Sorted(c.pool) /\ Apart(c.pool, c.cur)
    /\ \A n \in Nodes(c) : Fits(c, n)
    /\ Covers(c)

\* The nodes are those of the pool and those at the solvers.
LEMMA NodesAre ==
    ASSUME NEW c \in CoordSet
    PROVE  /\ \A n \in Nodes(c) : \/ \E i \in DOMAIN c.pool : n = c.pool[i]
                                  \/ \E s \in Solvers : c.cur[s] # NoNode /\ n = c.cur[s]
           /\ \A i \in DOMAIN c.pool : c.pool[i] \in Nodes(c)
           /\ \A s \in Solvers : c.cur[s] # NoNode => c.cur[s] \in Nodes(c)
           /\ Nodes(c) \subseteq NodeSet
<1>1. c.pool \in Seq(NodeSet) /\ c.cur \in [Solvers -> MaybeNode]
  BY DEF CoordSet
<1>2. \A n : n \in Nodes(c) <=> \/ \E i \in DOMAIN c.pool : n = c.pool[i]
                                \/ \E s \in Solvers : c.cur[s] # NoNode /\ n = c.cur[s]
  BY DEF Nodes, Active, ToSet
<1>3. \A i \in DOMAIN c.pool : c.pool[i] \in NodeSet
  BY <1>1
<1>4. \A s \in Solvers : c.cur[s] # NoNode => c.cur[s] \in NodeSet
  BY <1>1 DEF MaybeNode
<1> QED
  BY <1>2, <1>3, <1>4, Zenon

\* A number says which node is meant.
LEMMA ApartIds ==
    ASSUME NEW c \in CoordSet, Apart(c.pool, c.cur), NEW m \in Nodes(c), NEW n \in Nodes(c), m.id = n.id
    PROVE  m = n
<1>1. \/ \E i \in DOMAIN c.pool : m = c.pool[i]
      \/ \E s \in Solvers : c.cur[s] # NoNode /\ m = c.cur[s]
  BY NodesAre
<1>2. \/ \E i \in DOMAIN c.pool : n = c.pool[i]
      \/ \E s \in Solvers : c.cur[s] # NoNode /\ n = c.cur[s]
  BY NodesAre
<1> QED
  BY <1>1, <1>2 DEF Apart, Distinct

\* From c to d the node x is deleted.
Drops(c, d, x) ==
    /\ d.inc = c.inc
    /\ \A n \in Nodes(c) : n.id # x.id => Orphaned(n, x) \in Nodes(d)
    /\ \A m \in Nodes(d) : \E n \in Nodes(c) : n.id # x.id /\ m = Orphaned(n, x)

\* If what is not solved of x is in its descendants, nothing is lost, neither for
\* the checkpoint nor for another node that x descends from.
LEMMA DropKeeps ==
    ASSUME NEW c \in CoordSet, NEW d \in CoordSet, NEW x \in Nodes(c), Drops(c, d, x), Apart(c.pool, c.cur),
           \A l \in x.leaves : Solved(c, l) \/ Handed(c, x.id, l)
    PROVE  /\ (\A n \in Nodes(c) : Fits(c, n)) => \A n \in Nodes(d) : Fits(d, n)
           /\ \A l, i : i # x.id /\ Handed(c, i, l) => Solved(d, l) \/ Handed(d, i, l)
           /\ Covers(c) => Covers(d)
<1>1. x \in NodeSet /\ Nodes(c) \subseteq NodeSet
  BY NodesAre
<1>2. \A l : Solved(c, l) <=> Solved(d, l)
  BY DEF Drops, Solved
<1>3. ASSUME NEW n \in Nodes(c)
      PROVE  LET m == Orphaned(n, x) IN
             /\ m.leaves = n.leaves /\ m.bound = n.bound
             /\ m.anc = IF n.anc = x.id THEN x.anc ELSE n.anc
  BY <1>1 DEF Orphaned, NodeSet
<1>4. ASSUME \A n \in Nodes(c) : Fits(c, n), NEW m \in Nodes(d) PROVE Fits(d, m)
  <2>1. PICK n \in Nodes(c) : m = Orphaned(n, x)
    BY DEF Drops
  <2> QED
    BY <1>2, <1>3, <1>4, <2>1 DEF Fits
<1>5. ASSUME NEW l, NEW i, i # x.id, Handed(c, i, l) PROVE Solved(d, l) \/ Handed(d, i, l)
  <2>1. PICK n \in Nodes(c) : n.anc = i /\ l \in n.leaves
    BY <1>5 DEF Handed
  <2>2. CASE n.id # x.id
    <3>1. Orphaned(n, x) \in Nodes(d)
      BY <2>2 DEF Drops
    <3>2. Orphaned(n, x).anc = i /\ l \in Orphaned(n, x).leaves
      BY <1>3, <1>5, <2>1
    <3> QED
      BY <3>1, <3>2 DEF Handed
  <2>3. CASE n.id = x.id
    <3>1. n = x
      BY <2>3, ApartIds
    <3>2. CASE Handed(c, x.id, l)
      <4>1. PICK m \in Nodes(c) : m.anc = x.id /\ l \in m.leaves
        BY <3>2 DEF Handed
      <4>2. m.id # x.id
        BY <1>5, <2>1, <3>1, <4>1, ApartIds
      <4>3. Orphaned(m, x) \in Nodes(d)
        BY <4>2 DEF Drops
      <4>4. Orphaned(m, x).anc = i /\ l \in Orphaned(m, x).leaves
        BY <1>3, <2>1, <3>1, <4>1
      <4> QED
        BY <4>3, <4>4 DEF Handed
    <3> QED
      BY <1>2, <2>1, <3>1, <3>2
  <2> QED
    BY <2>2, <2>3
<1>6. x.id # 0
  BY <1>1 DEF NodeSet
<1> QED
  BY <1>2, <1>4, <1>5, <1>6 DEF Covers


\* The deletion of a node, field by field.
LEMMA FreedFields ==
    ASSUME NEW e \in CoordSet, NEW x \in NodeSet
    PROVE  LET d == Freed(e, x) IN
           /\ d \in CoordSet /\ d.inc = e.inc /\ DOMAIN d.pool = DOMAIN e.pool
           /\ \A i \in DOMAIN e.pool : d.pool[i] = Orphaned(e.pool[i], x)
           /\ \A s \in Solvers : d.cur[s] = Orphaned(e.cur[s], x)
<1>1. Freed(e, x) \in CoordSet
  BY FreedIs
<1>2. e.pool \in Seq(NodeSet) /\ e.cur \in [Solvers -> MaybeNode]
  BY DEF CoordSet
<1>3. /\ Freed(e, x).inc = e.inc
      /\ Freed(e, x).pool = [k \in DOMAIN e.pool |-> Orphaned(e.pool[k], x)]
      /\ Freed(e, x).cur = [s \in Solvers |-> Orphaned(e.cur[s], x)]
  BY DEF Freed, CoordSet
<1> QED
  BY <1>1, <1>3

\* The number, the leaves and the bound of a node outlive the deletion of x.
LEMMA OrphanedFields ==
    ASSUME NEW n \in MaybeNode, NEW x \in NodeSet
    PROVE  LET m == Orphaned(n, x) IN
           /\ m \in MaybeNode /\ m.id = n.id /\ m.leaves = n.leaves /\ m.bound = n.bound
           /\ m = NoNode <=> n = NoNode
<1>1. CASE n = NoNode
  BY <1>1, OrphanedIs
<1>2. CASE n \in NodeSet
  <2>1. Orphaned(n, x) \in NodeSet
    BY <1>2, OrphanedIs
  <2>2. Orphaned(n, x).id = n.id /\ Orphaned(n, x).leaves = n.leaves /\ Orphaned(n, x).bound = n.bound
    BY <1>2 DEF Orphaned, NodeSet
  <2> QED
    BY <1>2, <2>1, <2>2, NodeTypes DEF MaybeNode
<1> QED
  BY <1>1, <1>2 DEF MaybeNode

\* The order of the pool and the numbers outlive it too.
LEMMA FreedOrder ==
    ASSUME NEW e \in CoordSet, NEW x \in NodeSet, Sorted(e.pool), Apart(e.pool, e.cur)
    PROVE  Sorted(Freed(e, x).pool) /\ Apart(Freed(e, x).pool, Freed(e, x).cur)
<1> DEFINE d == Freed(e, x)
<1>1. /\ DOMAIN d.pool = DOMAIN e.pool
      /\ \A i \in DOMAIN e.pool : d.pool[i] = Orphaned(e.pool[i], x)
      /\ \A s \in Solvers : d.cur[s] = Orphaned(e.cur[s], x)
  BY FreedFields
<1>2. \A i \in DOMAIN e.pool : e.pool[i] \in MaybeNode
  BY DEF CoordSet, MaybeNode
<1>3. \A s \in Solvers : e.cur[s] \in MaybeNode
  BY DEF CoordSet
<1>4. \A i \in DOMAIN e.pool : d.pool[i].id = e.pool[i].id /\ d.pool[i].bound = e.pool[i].bound
  BY <1>1, <1>2, OrphanedFields
<1>5. \A s \in Solvers : d.cur[s].id = e.cur[s].id /\ (d.cur[s] = NoNode <=> e.cur[s] = NoNode)
  BY <1>1, <1>3, OrphanedFields
<1> HIDE DEF d
<1>6. Sorted(d.pool)
  BY <1>1, <1>4 DEF Sorted
<1>7. Distinct(d.pool)
  BY <1>1, <1>4 DEF Apart, Distinct
<1>8. Apart(d.pool, d.cur)
  BY <1>1, <1>4, <1>5, <1>7 DEF Apart
<1> QED
  BY <1>6, <1>8 DEF d

\* Without x the nodes of c are those of e.
Less(c, e, x) ==
    /\ e.inc = c.inc
    /\ \A n \in Nodes(c) : n.id # x.id => n \in Nodes(e)
    /\ \A n \in Nodes(e) : n \in Nodes(c) /\ n.id # x.id

\* Then it is dropped when it is deleted.
LEMMA FreedDrops ==
    ASSUME NEW c \in CoordSet, NEW e \in CoordSet, NEW x \in NodeSet, Less(c, e, x)
    PROVE  Drops(c, Freed(e, x), x)
<1> DEFINE d == Freed(e, x)
<1>1. /\ d \in CoordSet /\ d.inc = e.inc /\ DOMAIN d.pool = DOMAIN e.pool
      /\ \A i \in DOMAIN e.pool : d.pool[i] = Orphaned(e.pool[i], x)
      /\ \A s \in Solvers : d.cur[s] = Orphaned(e.cur[s], x)
  BY FreedFields
<1>2. \A s \in Solvers : e.cur[s] \in MaybeNode
  BY DEF CoordSet
<1>3. \A s \in Solvers : d.cur[s] = NoNode <=> e.cur[s] = NoNode
  BY <1>1, <1>2, OrphanedFields
<1> HIDE DEF d
<1>4. ASSUME NEW n \in Nodes(e) PROVE Orphaned(n, x) \in Nodes(d)
  <2>1. CASE \E i \in DOMAIN e.pool : n = e.pool[i]
    <3>1. PICK i \in DOMAIN e.pool : n = e.pool[i]
      BY <2>1
    <3>2. i \in DOMAIN d.pool /\ d.pool[i] = Orphaned(n, x)
      BY <1>1, <3>1
    <3> QED
      BY <1>1, <3>2, NodesAre
  <2>2. CASE \E s \in Solvers : e.cur[s] # NoNode /\ n = e.cur[s]
    <3>1. PICK s \in Solvers : e.cur[s] # NoNode /\ n = e.cur[s]
      BY <2>2
    <3>2. d.cur[s] # NoNode /\ d.cur[s] = Orphaned(n, x)
      BY <1>1, <1>3, <3>1
    <3> QED
      BY <1>1, <3>2, NodesAre
  <2> QED
    BY <2>1, <2>2, NodesAre
<1>5. ASSUME NEW m \in Nodes(d) PROVE \E n \in Nodes(e) : m = Orphaned(n, x)
  <2>1. CASE \E i \in DOMAIN d.pool : m = d.pool[i]
    <3>1. PICK i \in DOMAIN d.pool : m = d.pool[i]
      BY <2>1
    <3>2. i \in DOMAIN e.pool /\ m = Orphaned(e.pool[i], x)
      BY <1>1, <3>1
    <3> QED
      BY <3>2, NodesAre
  <2>2. CASE \E s \in Solvers : d.cur[s] # NoNode /\ m = d.cur[s]
    <3>1. PICK s \in Solvers : d.cur[s] # NoNode /\ m = d.cur[s]
      BY <2>2
    <3>2. e.cur[s] # NoNode /\ m = Orphaned(e.cur[s], x)
      BY <1>1, <1>3, <3>1
    <3> QED
      BY <3>2, NodesAre
  <2> QED
    BY <1>1, <2>1, <2>2, NodesAre
<1>6. Drops(c, d, x)
  BY <1>1, <1>4, <1>5 DEF Drops, Less
<1> QED
  BY <1>6 DEF d

\* The tree outlives the deletion of x, if what is not solved of x is in its
\* descendants.
LEMMA TreeFreed ==
    ASSUME NEW c \in CoordSet, NEW e \in CoordSet, NEW x \in Nodes(c), TreeOk(c), Less(c, e, x),
           Sorted(e.pool), Apart(e.pool, e.cur),
           \A l \in x.leaves : Solved(c, l) \/ Handed(c, x.id, l)
    PROVE  /\ TreeOk(Freed(e, x)) /\ Freed(e, x) \in CoordSet /\ Freed(e, x).inc = c.inc
           /\ \A l, i : i # x.id /\ Handed(c, i, l) => Solved(Freed(e, x), l) \/ Handed(Freed(e, x), i, l)
<1> DEFINE d == Freed(e, x)
<1>1. x \in NodeSet
  BY NodesAre
<1>2. d \in CoordSet /\ Drops(c, d, x) /\ d.inc = c.inc
  BY <1>1, FreedFields, FreedDrops DEF Less
<1>3. Sorted(d.pool) /\ Apart(d.pool, d.cur)
  BY <1>1, FreedOrder
<1>4. (\A n \in Nodes(c) : Fits(c, n)) /\ Covers(c) /\ Apart(c.pool, c.cur)
  BY DEF TreeOk
<1> HIDE DEF d
<1>5. /\ (\A n \in Nodes(c) : Fits(c, n)) => \A n \in Nodes(d) : Fits(d, n)
      /\ \A l, i : i # x.id /\ Handed(c, i, l) => Solved(d, l) \/ Handed(d, i, l)
      /\ Covers(c) => Covers(d)
  BY <1>2, <1>4, DropKeeps
<1>6. TreeOk(d)
  BY <1>3, <1>4, <1>5 DEF TreeOk
<1> QED
  BY <1>2, <1>5, <1>6 DEF d

\* The node at s is the same in c and d, and what its descendants hold still is held.
Carries(c, d, s) ==
    /\ d.inc <= c.inc /\ Same(c.cur[s], d.cur[s])
    /\ \A l : Handed(c, c.cur[s].id, l) => Solved(d, l) \/ Handed(d, d.cur[s].id, l)

\* What is solved with a worse incumbent is solved with a better.
LEMMA SolvedStill ==
    ASSUME NEW c \in CoordSet, NEW d \in CoordSet, d.inc <= c.inc, NEW l \in Leaves, Solved(c, l)
    PROVE  Solved(d, l)
<1>1. c.inc \in Int /\ d.inc \in Int /\ Value[l] \in Int
  BY ValsIs DEF CoordSet
<1> QED
  BY <1>1 DEF Solved

\* The leaves of nodes are leaves.
LEMMA HandedLeaf ==
    ASSUME NEW c \in CoordSet, NEW i, NEW l, Handed(c, i, l)
    PROVE  l \in Leaves
<1>1. PICK n \in Nodes(c) : l \in n.leaves
  BY DEF Handed
<1> QED
  BY <1>1, NodesAre DEF NodeSet

\* So it is along several steps.
LEMMA CarriesOn ==
    ASSUME NEW c \in CoordSet, NEW d \in CoordSet, NEW e \in CoordSet, NEW s, Carries(c, d, s), Carries(d, e, s)
    PROVE  Carries(c, e, s)
<1>1. e.inc <= c.inc /\ e.inc <= d.inc
  <2>1. c.inc \in Int /\ d.inc \in Int /\ e.inc \in Int
    BY ValsIs DEF CoordSet
  <2> QED
    BY <2>1 DEF Carries
<1>2. Same(c.cur[s], e.cur[s])
  BY DEF Carries, Same
<1>3. ASSUME NEW l, Handed(c, c.cur[s].id, l) PROVE Solved(e, l) \/ Handed(e, e.cur[s].id, l)
  <2>1. Solved(d, l) \/ Handed(d, d.cur[s].id, l)
    BY <1>3 DEF Carries
  <2>2. l \in Leaves
    BY <1>3, HandedLeaf
  <2> QED
    BY <1>1, <2>1, <2>2, SolvedStill DEF Carries
<1> QED
  BY <1>1, <1>2, <1>3 DEF Carries

\* What the load coordinator has it carries on.
LEMMA CarriesSame ==
    ASSUME NEW c \in CoordSet, NEW s
    PROVE  Carries(c, c, s)
<1>1. c.inc \in Int
  BY ValsIs DEF CoordSet
<1> QED
  BY <1>1 DEF Carries, Same

\* A node is out of the pool.
LEMMA RemovedTree ==
    ASSUME NEW c \in CoordSet, NEW k \in DOMAIN c.pool, NEW p, p = RemoveAt(c.pool, k),
           Sorted(c.pool), Apart(c.pool, c.cur)
    PROVE  /\ p \in Seq(NodeSet) /\ Less(c, NewPool(c, p), c.pool[k]) /\ NewPool(c, p) \in CoordSet
           /\ Sorted(p) /\ Apart(p, c.cur) /\ NewPool(c, p).pool = p /\ NewPool(c, p).cur = c.cur
<1> DEFINE n == Len(c.pool)
           e == NewPool(c, p)
<1>1. c.pool \in Seq(NodeSet) /\ n \in Nat /\ DOMAIN c.pool = 1..n /\ k \in 1..n
  BY DEF CoordSet
<1>2. /\ p \in Seq(NodeSet) /\ Len(p) = n - 1 /\ DOMAIN p = 1..(n - 1)
      /\ \A i \in 1..(k - 1) : p[i] = c.pool[i]
      /\ \A i \in k..(n - 1) : p[i] = c.pool[i + 1]
  <2>1. p \in Seq(NodeSet) /\ Len(p) = n - 1
    BY <1>1, RemovedIs
  <2>2. /\ \A i \in 1..(k - 1) : p[i] = c.pool[i]
        /\ \A i \in k..(n - 1) : p[i] = c.pool[i + 1]
    BY <1>1, RemovedIs
  <2>3. DOMAIN p = 1..Len(p)
    BY <2>1
  <2> QED
    BY <2>1, <2>2, <2>3
<1>3. e \in CoordSet /\ e.cur = c.cur /\ e.inc = c.inc /\ e.pool = p
  BY <1>2, PoolChanged
<1> HIDE DEF n, e
<1>5. PICK g \in [DOMAIN p -> DOMAIN c.pool] :
         \A i \in DOMAIN p : g[i] # k /\ p[i] = c.pool[g[i]] /\ g[i] = IF i < k THEN i ELSE i + 1
  <2> DEFINE G == [i \in DOMAIN p |-> IF i < k THEN i ELSE i + 1]
  <2>1. \A i \in DOMAIN p : IF i < k THEN i \in DOMAIN c.pool /\ p[i] = c.pool[i]
                                     ELSE i + 1 \in DOMAIN c.pool /\ p[i] = c.pool[i + 1]
    BY <1>1, <1>2
  <2>2. G \in [DOMAIN p -> DOMAIN c.pool]
    BY <2>1
  <2>3. \A i \in DOMAIN p : G[i] # k /\ p[i] = c.pool[G[i]] /\ G[i] = IF i < k THEN i ELSE i + 1
    BY <1>1, <1>2, <2>1
  <2> QED
    BY <2>2, <2>3
<1>6. ASSUME NEW i \in DOMAIN p, NEW j \in DOMAIN p
      PROVE  (i <= j => g[i] <= g[j]) /\ (g[i] = g[j] => i = j)
  <2>1. i \in Int /\ j \in Int /\ k \in Int
    BY <1>1, <1>2
  <2>2. g[i] = IF i < k THEN i ELSE i + 1
    BY <1>5, <2>1
  <2>3. g[j] = IF j < k THEN j ELSE j + 1
    BY <1>5, <2>1
  <2> QED
    BY <2>1, <2>2, <2>3
<1>7. Sorted(p)
  BY <1>5, <1>6 DEF Sorted
<1>8. Apart(p, c.cur)
  BY <1>5, <1>6 DEF Apart, Distinct
<1>9. ASSUME NEW m \in Nodes(c), m.id # c.pool[k].id PROVE m \in Nodes(e)
  <2>1. CASE \E i \in DOMAIN c.pool : m = c.pool[i]
    <3>1. PICK i \in DOMAIN c.pool : m = c.pool[i]
      BY <2>1
    <3>2. i # k
      BY <1>9, <3>1
    <3>3. CASE i < k
      <4>1. i \in DOMAIN p /\ p[i] = m
        BY <1>1, <1>2, <3>1, <3>3
      <4> QED
        BY <1>3, <4>1, NodesAre
    <3>4. CASE i > k
      <4>1. i - 1 \in DOMAIN p /\ i - 1 \in k..(n - 1) /\ (i - 1) + 1 = i
        BY <1>1, <1>2, <3>1, <3>4
      <4>2. p[i - 1] = m
        BY <1>2, <3>1, <4>1
      <4> QED
        BY <1>3, <4>1, <4>2, NodesAre
    <3> QED
      BY <1>1, <3>2, <3>3, <3>4
  <2>2. CASE \E s \in Solvers : c.cur[s] # NoNode /\ m = c.cur[s]
    BY <1>3, <2>2, NodesAre
  <2> QED
    BY <2>1, <2>2, NodesAre
<1>10. ASSUME NEW m \in Nodes(e) PROVE m \in Nodes(c) /\ m.id # c.pool[k].id
  <2>1. CASE \E i \in DOMAIN p : m = p[i]
    <3>1. PICK i \in DOMAIN p : m = p[i]
      BY <2>1
    <3>2. g[i] \in DOMAIN c.pool /\ g[i] # k /\ m = c.pool[g[i]]
      BY <1>5, <3>1
    <3> QED
      BY <3>2, NodesAre DEF Apart, Distinct
  <2>2. CASE \E s \in Solvers : e.cur[s] # NoNode /\ m = e.cur[s]
    BY <1>3, <2>2, NodesAre DEF Apart
  <2> QED
    BY <1>3, <2>1, <2>2, NodesAre
<1>11. Less(c, e, c.pool[k])
  BY <1>3, <1>9, <1>10 DEF Less
<1> QED
  BY <1>2, <1>3, <1>7, <1>8, <1>11 DEF e

\* The nodes behind the first k are not better than the incumbent.
Hopeless(c, k) == \A i \in DOMAIN c.pool : i > k => c.pool[i].bound >= c.inc

\* A node of the pool that is not better than the incumbent holds nothing that is
\* not solved.
LEMMA HopelessSolved ==
    ASSUME NEW c \in CoordSet, NEW n \in Nodes(c), Fits(c, n), n.bound >= c.inc, NEW l \in n.leaves
    PROVE  Solved(c, l)
<1>1. n \in NodeSet
  BY NodesAre
<1>2. l \in Leaves /\ n.bound \in Int
  BY <1>1 DEF NodeSet
<1>3. c.inc \in Int /\ Value[l] \in Int
  BY <1>2, ValsIs DEF CoordSet
<1> QED
  BY <1>2, <1>3 DEF Fits, Solved

\* So the tree outlives its deletion.
LEMMA DeletedTree ==
    ASSUME NEW c \in CoordSet, NEW k \in Nat, k < Len(c.pool), TreeOk(c), Hopeless(c, k)
    PROVE  /\ Deleted(c, k + 1) \in CoordSet /\ Deleted(c, k + 1).inc = c.inc
           /\ TreeOk(Deleted(c, k + 1)) /\ Hopeless(Deleted(c, k + 1), k)
           /\ \A s \in Solvers : Carries(c, Deleted(c, k + 1), s)
<1> DEFINE p == RemoveAt(c.pool, k + 1)
           x == c.pool[k + 1]
           e == NewPool(c, p)
           d == Freed(e, x)
<1>1. c.pool \in Seq(NodeSet) /\ k + 1 \in DOMAIN c.pool
  BY DEF CoordSet
<1>2. x \in Nodes(c)
  BY <1>1, NodesAre
<1>3. Sorted(c.pool) /\ Apart(c.pool, c.cur) /\ \A n \in Nodes(c) : Fits(c, n)
  BY DEF TreeOk
<1>4. /\ p \in Seq(NodeSet) /\ Less(c, e, x) /\ e \in CoordSet /\ Sorted(e.pool) /\ Apart(e.pool, e.cur)
      /\ e.pool = p /\ e.cur = c.cur
  BY <1>1, <1>3, RemovedTree
<1>5. \A l \in x.leaves : Solved(c, l)
  <2>1. x.bound >= c.inc
    BY <1>1 DEF Hopeless
  <2> QED
    BY <1>2, <1>3, <2>1, HopelessSolved
<1>6. Deleted(c, k + 1) = d
  BY DEF Deleted, NewPool
<1>7. x \in NodeSet
  BY <1>1
<1>8. /\ DOMAIN d.pool = DOMAIN p
      /\ \A i \in DOMAIN p : d.pool[i].bound = p[i].bound
  <2>1. DOMAIN d.pool = DOMAIN p /\ \A i \in DOMAIN p : d.pool[i] = Orphaned(p[i], x)
    BY <1>4, <1>7, FreedFields
  <2>2. \A i \in DOMAIN p : p[i] \in MaybeNode
    BY <1>4 DEF MaybeNode
  <2> QED
    BY <1>7, <2>1, <2>2, OrphanedFields
<1>9. \A i \in DOMAIN p : i > k => p[i].bound >= c.inc
  <2>1. Len(p) = Len(c.pool) - 1 /\ \A i \in (k + 1)..(Len(c.pool) - 1) : p[i] = c.pool[i + 1]
    BY <1>1, RemovedIs
  <2>2. ASSUME NEW i \in DOMAIN p, i > k PROVE p[i].bound >= c.inc
    <3>1. i \in 1..Len(p)
      BY <1>4
    <3>2. i \in (k + 1)..(Len(c.pool) - 1) /\ i + 1 \in DOMAIN c.pool /\ i + 1 > k
      BY <1>1, <2>1, <2>2, <3>1
    <3> QED
      BY <2>1, <3>2 DEF Hopeless
  <2> QED
    BY <2>2
<1> HIDE DEF p, e, x
<1>10. /\ TreeOk(d) /\ d \in CoordSet /\ d.inc = c.inc
       /\ \A l, i : i # x.id /\ Handed(c, i, l) => Solved(d, l) \/ Handed(d, i, l)
  BY <1>2, <1>4, <1>5, TreeFreed
<1>11. \A s \in Solvers : Same(c.cur[s], d.cur[s])
  <2>1. Alike(e, d)
    BY <1>4, <1>7, FreedIs
  <2> QED
    BY <1>4, <2>1 DEF Alike
<1> HIDE DEF d
<1>12. Hopeless(d, k)
  BY <1>8, <1>9, <1>10 DEF Hopeless
<1>13. ASSUME NEW s \in Solvers PROVE Carries(c, d, s)
  <2>1. c.cur[s].id # x.id
    BY <1>1, <1>3 DEF Apart, x
  <2>2. d.cur[s].id = c.cur[s].id
    BY <1>11 DEF Same
  <2>3. d.inc <= c.inc
    BY <1>10, ValsIs DEF CoordSet
  <2> QED
    BY <1>10, <1>11, <2>1, <2>2, <2>3 DEF Carries
<1> QED
  BY <1>6, <1>10, <1>12, <1>13

\* And that of all behind the first k.
LEMMA BehindTree ==
    ASSUME NEW c \in CoordSet, NEW k \in 0..Len(c.pool), TreeOk(c), Hopeless(c, k)
    PROVE  /\ DeletedBehind(c, k) \in CoordSet /\ DeletedBehind(c, k).inc = c.inc
           /\ TreeOk(DeletedBehind(c, k)) /\ \A s \in Solvers : Carries(c, DeletedBehind(c, k), s)
<1> DEFINE A == {e \in CoordSet : e.inc = c.inc /\ TreeOk(e) /\ Hopeless(e, k) /\ \A s \in Solvers : Carries(c, e, s)}
<1>1. c \in A
  BY CarriesSame
<1>2. ASSUME NEW e \in A, Len(e.pool) > k PROVE Deleted(e, k + 1) \in A
  <2>1. k \in Nat /\ e \in CoordSet /\ TreeOk(e) /\ Hopeless(e, k) /\ k < Len(e.pool) /\ e.inc = c.inc
    <3>1. c.pool \in Seq(NodeSet) /\ e.pool \in Seq(NodeSet)
      BY DEF CoordSet
    <3> QED
      BY <1>2, <3>1
  <2>2. /\ Deleted(e, k + 1) \in CoordSet /\ Deleted(e, k + 1).inc = e.inc
        /\ TreeOk(Deleted(e, k + 1)) /\ Hopeless(Deleted(e, k + 1), k)
        /\ \A s \in Solvers : Carries(e, Deleted(e, k + 1), s)
    BY <2>1, DeletedTree
  <2>3. \A s \in Solvers : Carries(c, Deleted(e, k + 1), s)
    BY <2>1, <2>2, CarriesOn
  <2> QED
    BY <2>1, <2>2, <2>3
<1>3. A \subseteq CoordSet
  OBVIOUS
<1> HIDE DEF A
<1>4. DeletedBehind(c, k) \in A
  BY <1>1, <1>2, <1>3, BehindKeeps
<1> QED
  BY <1>4 DEF A

\* The pool, its nodes and their fields.
LEMMA PoolFields ==
    ASSUME NEW p \in Seq(NodeSet)
    PROVE  /\ Len(p) \in Nat /\ DOMAIN p = 1..Len(p)
           /\ \A i \in DOMAIN p : /\ p[i] \in NodeSet /\ p[i].bound \in Nat /\ p[i].id \in Nat \ {0}
                                  /\ p[i].leaves \in SUBSET Leaves
<1>1. Len(p) \in Nat /\ DOMAIN p = 1..Len(p) /\ \A i \in DOMAIN p : p[i] \in NodeSet
  OBVIOUS
<1>2. \A n \in NodeSet : n.bound \in Nat /\ n.id \in Nat \ {0} /\ n.leaves \in SUBSET Leaves
  BY DEF NodeSet
<1> QED
  BY <1>1, <1>2

\* The nodes of a sorted pool that are no worse than b come first.
LEMMA SortedFirst ==
    ASSUME NEW p \in Seq(NodeSet), Sorted(p), NEW b \in Nat
    PROVE  LET k == Cardinality({j \in DOMAIN p : p[j].bound <= b}) IN
           k \in 0..Len(p) /\ \A i \in DOMAIN p : i <= k <=> p[i].bound <= b
<1> DEFINE T == {j \in DOMAIN p : p[j].bound <= b}
           bad == {j \in DOMAIN p : p[j].bound > b}
<1>1. Len(p) \in Nat /\ DOMAIN p = 1..Len(p) /\ \A i \in DOMAIN p : p[i].bound \in Nat
  BY PoolFields
<1>2. CASE bad = {}
  <2>1. T = 1..Len(p)
    BY <1>1, <1>2
  <2>2. Cardinality(1..Len(p)) = Len(p)
    BY <1>1, FS_Interval
  <2>3. Cardinality(T) = Len(p)
    BY <2>1, <2>2, Zenon
  <2>4. \A i \in DOMAIN p : i <= Len(p) /\ p[i].bound <= b
    BY <1>1, <1>2
  <2> HIDE DEF T, bad
  <2>5. Cardinality(T) \in 0..Len(p) /\ \A i \in DOMAIN p : i <= Cardinality(T) <=> p[i].bound <= b
    BY <1>1, <2>3, <2>4
  <2> QED
    BY <2>5 DEF T
<1>3. CASE bad # {}
  <2>1. bad \subseteq Nat
    BY <1>1
  <2>2. PICK x \in bad : \A y \in bad : x <= y
    BY <1>3, <2>1, LeastNat
  <2>3. x \in 1..Len(p) /\ p[x].bound > b
    BY <1>1, <2>2
  <2>4. \A i \in DOMAIN p : i < x => p[i].bound <= b
    BY <1>1, <2>2
  <2>5. \A i \in DOMAIN p : i >= x => p[i].bound > b
    <3>1. ASSUME NEW i \in DOMAIN p, i >= x PROVE p[i].bound > b
      <4>1. p[x].bound <= p[i].bound
        BY <1>1, <2>3, <3>1 DEF Sorted
      <4> QED
        BY <1>1, <2>3, <4>1
    <3> QED
      BY <3>1
  <2>6. T = 1..(x - 1)
    BY <1>1, <2>3, <2>4, <2>5
  <2>7. Cardinality(1..(x - 1)) = x - 1
    BY <1>1, <2>3, FS_Interval
  <2>8. Cardinality(T) = x - 1
    BY <2>6, <2>7, Zenon
  <2> HIDE DEF T, bad
  <2>9. Cardinality(T) \in 0..Len(p)
    BY <1>1, <2>3, <2>8
  <2>10. \A i \in DOMAIN p : i <= Cardinality(T) <=> p[i].bound <= b
    BY <1>1, <2>3, <2>4, <2>5, <2>8
  <2> QED
    BY <2>9, <2>10 DEF T
<1> QED
  BY <1>2, <1>3

\* The tree outlives the pruning.
LEMMA PrunedTree ==
    ASSUME NEW c \in CoordSet, TreeOk(c)
    PROVE  /\ Pruned(c) \in CoordSet /\ Pruned(c).inc = c.inc
           /\ TreeOk(Pruned(c)) /\ \A s \in Solvers : Carries(c, Pruned(c), s)
<1> DEFINE k == Cardinality({j \in DOMAIN c.pool : c.pool[j].bound <= c.inc})
<1>1. c.pool \in Seq(NodeSet) /\ Sorted(c.pool) /\ c.inc \in Nat
  BY ValsIs DEF CoordSet, TreeOk
<1>2. k \in 0..Len(c.pool) /\ \A i \in DOMAIN c.pool : i <= k <=> c.pool[i].bound <= c.inc
  BY <1>1, SortedFirst
<1> HIDE DEF k
<1>3. Hopeless(c, k)
  <2>1. ASSUME NEW i \in DOMAIN c.pool, i > k PROVE c.pool[i].bound >= c.inc
    <3>1. i \in Int /\ k \in Int /\ c.pool[i].bound \in Int
      BY <1>1, <1>2, PoolFields
    <3> QED
      BY <1>1, <1>2, <2>1, <3>1
  <2> QED
    BY <2>1 DEF Hopeless
<1>4. Pruned(c) = DeletedBehind(c, k)
  BY DEF Pruned, k
<1> QED
  BY <1>2, <1>3, <1>4, BehindTree

\* All nodes of a sorted pool are as bad as its head.
LEMMA HeadHopeless ==
    ASSUME NEW c \in CoordSet, TreeOk(c), c.pool # <<>>, ~(Head(c.pool).bound < c.inc)
    PROVE  Hopeless(c, 0) /\ 0 \in 0..Len(c.pool)
<1>1. c.pool \in Seq(NodeSet) /\ Sorted(c.pool) /\ c.inc \in Int
  BY ValsIs DEF CoordSet, TreeOk
<1>2. Head(c.pool) = c.pool[1] /\ 1 \in DOMAIN c.pool /\ 0 \in 0..Len(c.pool)
  BY <1>1
<1>3. ASSUME NEW i \in DOMAIN c.pool PROVE c.pool[i].bound >= c.inc
  <2>1. i >= 1 /\ c.pool[1].bound \in Int /\ c.pool[i].bound \in Int
    BY <1>1, <1>2, PoolFields
  <2>2. c.pool[1].bound <= c.pool[i].bound
    BY <1>1, <1>2, <2>1 DEF Sorted
  <2> QED
    BY <1>1, <1>2, <2>1, <2>2
<1> QED
  BY <1>2, <1>3 DEF Hopeless

\* From p, z is made by putting n at position k, behind all that are no worse.
PutAt(p, n, z, k) ==
    /\ z \in Seq(NodeSet) /\ DOMAIN z = 1..(Len(p) + 1) /\ k \in 1..(Len(p) + 1)
    /\ z[k] = n
    /\ \A i \in DOMAIN p : i < k => i \in DOMAIN z /\ z[i] = p[i]
    /\ \A i \in DOMAIN p : i >= k => i + 1 \in DOMAIN z /\ z[i + 1] = p[i]
    /\ \A i \in DOMAIN p : i < k <=> p[i].bound <= n.bound

\* That is what the insertion does.
LEMMA InsertedPut ==
    ASSUME NEW p \in Seq(NodeSet), Sorted(p), NEW n \in NodeSet
    PROVE  \E k \in 1..(Len(p) + 1) : PutAt(p, n, Inserted(p, n), k)
<1> DEFINE k == Cardinality({j \in DOMAIN p : p[j].bound <= n.bound})
           x == SubSeq(p, 1, k)
           y == SubSeq(p, k + 1, Len(p))
           z == (x \o <<n>>) \o y
<1>1. Len(p) \in Nat /\ DOMAIN p = 1..Len(p) /\ n.bound \in Nat /\ \A i \in DOMAIN p : p[i] \in NodeSet
  BY PoolFields DEF NodeSet
<1>2. k \in 0..Len(p) /\ \A i \in DOMAIN p : i <= k <=> p[i].bound <= n.bound
  BY <1>1, SortedFirst
<1>3. /\ x \in Seq(NodeSet) /\ Len(x) = k /\ \A i \in 1..k : x[i] = p[i]
      /\ y \in Seq(NodeSet) /\ Len(y) = Len(p) - k /\ \A i \in 1..(Len(p) - k) : y[i] = p[k + i]
  <2>1. k \in 0..Len(p)
    BY <1>2
  <2> HIDE DEF k
  <2>2. x \in Seq(NodeSet) /\ Len(x) = k /\ \A i \in 1..k : x[i] = p[i]
    BY <2>1, PartOfQueue
  <2>3. y \in Seq(NodeSet) /\ Len(y) = Len(p) - k /\ \A i \in 1..(Len(p) - k) : y[i] = p[k + i]
    BY <2>1, PartOfQueue
  <2> QED
    BY <2>2, <2>3
<1>4. Inserted(p, n) = SubSeq(p, 1, (k + 1) - 1) \o <<n>> \o SubSeq(p, k + 1, Len(p))
  BY DEF Inserted, InsertAt
<1>5. (k + 1) - 1 = k
  BY <1>2
<1> HIDE DEF k
<1>6. Inserted(p, n) = z
  BY <1>4, <1>5, Zenon
<1> HIDE DEF x, y
<1>7. /\ x \o <<n>> \in Seq(NodeSet) /\ Len(x \o <<n>>) = k + 1 /\ (x \o <<n>>)[k + 1] = n
      /\ \A i \in 1..k : (x \o <<n>>)[i] = x[i]
  BY <1>2, <1>3
<1>8. /\ z \in Seq(NodeSet) /\ Len(z) = Len(p) + 1
      /\ \A i \in 1..(k + 1) : z[i] = (x \o <<n>>)[i]
      /\ \A i \in 1..(Len(p) - k) : z[k + 1 + i] = y[i]
  <2> DEFINE w == x \o <<n>>
  <2>1. w \in Seq(NodeSet) /\ y \in Seq(NodeSet)
    BY <1>3, <1>7
  <2>2. Len(w) = k + 1 /\ Len(y) = Len(p) - k /\ Len(w) + Len(y) = Len(p) + 1
    <3>1. Len(w) = k + 1 /\ Len(y) = Len(p) - k
      BY <1>3, <1>7
    <3>2. k \in Int /\ Len(p) \in Int
      BY <1>1, <1>2
    <3> HIDE DEF w
    <3> QED
      BY <3>1, <3>2
  <2>3. z = w \o y
    OBVIOUS
  <2> HIDE DEF w, z
  <2>4. w \o y \in Seq(NodeSet) /\ Len(w \o y) = Len(w) + Len(y)
    BY <2>1
  <2>5. \A i \in 1..Len(w) : (w \o y)[i] = w[i]
    BY <2>1
  <2>6. \A i \in 1..Len(y) : (w \o y)[Len(w) + i] = y[i]
    BY <2>1
  <2>7. /\ z \in Seq(NodeSet) /\ Len(z) = Len(p) + 1
        /\ \A i \in 1..(k + 1) : z[i] = w[i]
        /\ \A i \in 1..(Len(p) - k) : z[k + 1 + i] = y[i]
    BY <2>2, <2>3, <2>4, <2>5, <2>6
  <2> QED
    BY <2>7 DEF w
<1> HIDE DEF z
<1>9. DOMAIN z = 1..(Len(p) + 1) /\ k + 1 \in 1..(Len(p) + 1) /\ z[k + 1] = n
  <2>1. DOMAIN z = 1..Len(z)
    BY <1>8
  <2> QED
    BY <1>1, <1>2, <1>7, <1>8, <2>1
<1>10. ASSUME NEW i \in DOMAIN p, i < k + 1 PROVE i \in DOMAIN z /\ z[i] = p[i]
  <2>1. i \in 1..k /\ i \in 1..(k + 1)
    BY <1>1, <1>2, <1>10
  <2> QED
    BY <1>1, <1>2, <1>3, <1>7, <1>8, <1>9, <2>1
<1>11. ASSUME NEW i \in DOMAIN p, i >= k + 1 PROVE i + 1 \in DOMAIN z /\ z[i + 1] = p[i]
  <2>0. i \in Int /\ k \in Int /\ Len(p) \in Int /\ i <= Len(p)
    BY <1>1, <1>2
  <2>1. i - k \in 1..(Len(p) - k) /\ k + 1 + (i - k) = i + 1 /\ k + (i - k) = i
    BY <1>11, <2>0
  <2>2. z[k + 1 + (i - k)] = y[i - k] /\ y[i - k] = p[k + (i - k)]
    BY <1>3, <1>8, <2>1
  <2> QED
    BY <1>1, <1>9, <2>1, <2>2
<1>12. \A i \in DOMAIN p : i < k + 1 <=> p[i].bound <= n.bound
  BY <1>1, <1>2
<1>13. PutAt(p, n, z, k + 1)
  BY <1>8, <1>9, <1>10, <1>11, <1>12 DEF PutAt
<1> QED
  BY <1>6, <1>9, <1>13

\* The order, the numbers and the nodes of a pool with one more.
LEMMA InsertedKeeps ==
    ASSUME NEW p \in Seq(NodeSet), Sorted(p), NEW n \in NodeSet, NEW f \in [Solvers -> MaybeNode], Apart(p, f),
           \A i \in DOMAIN p : p[i].id # n.id, \A s \in Solvers : f[s].id # n.id
    PROVE  LET z == Inserted(p, n) IN
           /\ z \in Seq(NodeSet) /\ Sorted(z) /\ Apart(z, f)
           /\ \E j \in DOMAIN z : z[j] = n
           /\ \A i \in DOMAIN p : \E j \in DOMAIN z : z[j] = p[i]
           /\ \A j \in DOMAIN z : z[j] = n \/ \E i \in DOMAIN p : z[j] = p[i]
<1> DEFINE z == Inserted(p, n)
<1>1. PICK k \in 1..(Len(p) + 1) : PutAt(p, n, z, k)
  BY InsertedPut
<1> HIDE DEF z
<1>2. /\ Len(p) \in Nat /\ DOMAIN p = 1..Len(p) /\ n.bound \in Nat
      /\ \A i \in DOMAIN p : p[i] \in NodeSet /\ p[i].bound \in Nat
  BY PoolFields DEF NodeSet
<1>3. z \in Seq(NodeSet) /\ DOMAIN z = 1..(Len(p) + 1) /\ k \in DOMAIN z /\ z[k] = n
  BY <1>1 DEF PutAt
<1>4. ASSUME NEW j \in DOMAIN z
      PROVE  /\ j < k => j \in DOMAIN p /\ z[j] = p[j]
             /\ j > k => j - 1 \in DOMAIN p /\ z[j] = p[j - 1] /\ j - 1 >= k
  <2>1. ASSUME j < k PROVE j \in DOMAIN p /\ z[j] = p[j]
    <3>1. j \in DOMAIN p
      BY <1>2, <1>3, <2>1
    <3> QED
      BY <1>1, <2>1, <3>1 DEF PutAt
  <2>2. ASSUME j > k PROVE j - 1 \in DOMAIN p /\ z[j] = p[j - 1] /\ j - 1 >= k
    <3>1. j - 1 \in DOMAIN p /\ j - 1 >= k /\ (j - 1) + 1 = j
      BY <1>2, <1>3, <2>2
    <3>2. z[(j - 1) + 1] = p[j - 1]
      BY <1>1, <3>1 DEF PutAt
    <3> QED
      BY <3>1, <3>2
  <2> QED
    BY <2>1, <2>2
<1>5. \A i \in DOMAIN p : (i < k => p[i].bound <= n.bound) /\ (i >= k => p[i].bound >= n.bound)
  <2>1. ASSUME NEW i \in DOMAIN p PROVE (i < k => p[i].bound <= n.bound) /\ (i >= k => p[i].bound >= n.bound)
    <3>1. i < k <=> p[i].bound <= n.bound
      BY <1>1 DEF PutAt
    <3> QED
      BY <1>2, <1>3, <3>1
  <2> QED
    BY <2>1
<1>6. ASSUME NEW i \in DOMAIN z, NEW j \in DOMAIN z, i <= j PROVE z[i].bound <= z[j].bound
  <2>1. i \in Int /\ j \in Int /\ k \in Int
    BY <1>2, <1>3
  <2>2. CASE j < k
    BY <1>4, <1>6, <2>1, <2>2 DEF Sorted
  <2>3. CASE i > k
    <3>1. j > k /\ i - 1 <= j - 1
      BY <1>6, <2>1, <2>3
    <3> QED
      BY <1>4, <2>3, <3>1 DEF Sorted
  <2>4. CASE i = k /\ j = k
    BY <1>2, <1>3, <2>4
  <2>5. CASE i < k /\ j = k
    BY <1>3, <1>4, <1>5, <2>5
  <2>6. CASE i = k /\ j > k
    BY <1>3, <1>4, <1>5, <2>6
  <2>7. CASE i < k /\ j > k
    <3>1. i \in DOMAIN p /\ z[i] = p[i] /\ j - 1 \in DOMAIN p /\ z[j] = p[j - 1] /\ i <= j - 1
      BY <1>4, <2>1, <2>7
    <3> QED
      BY <3>1 DEF Sorted
  <2> QED
    BY <1>6, <2>1, <2>2, <2>3, <2>4, <2>5, <2>6, <2>7
<1>7. \A j \in DOMAIN z : z[j] = n \/ \E i \in DOMAIN p : z[j] = p[i]
  <2>1. ASSUME NEW j \in DOMAIN z PROVE z[j] = n \/ \E i \in DOMAIN p : z[j] = p[i]
    <3>1. j < k \/ j = k \/ j > k
      BY <1>2, <1>3
    <3> QED
      BY <1>3, <1>4, <3>1
  <2> QED
    BY <2>1
<1>8. \A i \in DOMAIN p : \E j \in DOMAIN z : z[j] = p[i]
  <2>1. ASSUME NEW i \in DOMAIN p PROVE \E j \in DOMAIN z : z[j] = p[i]
    <3>1. i < k \/ i >= k
      BY <1>2, <1>3
    <3> QED
      BY <1>1, <3>1 DEF PutAt
  <2> QED
    BY <2>1
<1>9. ASSUME NEW i \in DOMAIN z, NEW j \in DOMAIN z, z[i].id = z[j].id PROVE i = j
  <2>1. i \in Int /\ j \in Int /\ k \in Int
    BY <1>2, <1>3
  <2>2. CASE i = k
    BY <1>3, <1>4, <1>9, <2>1, <2>2
  <2>3. CASE j = k
    BY <1>3, <1>4, <1>9, <2>1, <2>3
  <2>4. CASE i # k /\ j # k
    <3>1. PICK a \in DOMAIN p : z[i] = p[a] /\ ((i < k /\ a = i) \/ (i > k /\ a = i - 1 /\ a >= k))
      BY <1>4, <2>1, <2>4
    <3>2. PICK b \in DOMAIN p : z[j] = p[b] /\ ((j < k /\ b = j) \/ (j > k /\ b = j - 1 /\ b >= k))
      BY <1>4, <2>1, <2>4
    <3>3. a = b
      BY <1>9, <3>1, <3>2 DEF Apart, Distinct
    <3> QED
      BY <2>1, <3>1, <3>2, <3>3
  <2> QED
    BY <2>2, <2>3, <2>4
<1>10. \A i \in DOMAIN z, s \in Solvers : z[i].id # f[s].id
  BY <1>7 DEF Apart
<1>11. Apart(z, f)
  BY <1>9, <1>10 DEF Apart, Distinct
<1>12. Sorted(z)
  BY <1>6 DEF Sorted
<1>13. \E j \in DOMAIN z : z[j] = n
  BY <1>3
<1> QED
  BY <1>3, <1>7, <1>8, <1>11, <1>12, <1>13 DEF z

\* The same of a pool without its head.
LEMMA TailKeeps ==
    ASSUME NEW p \in Seq(NodeSet), p # <<>>, Sorted(p), NEW f \in [Solvers -> MaybeNode], Apart(p, f)
    PROVE  /\ Tail(p) \in Seq(NodeSet) /\ Head(p) \in NodeSet /\ Sorted(Tail(p)) /\ Apart(Tail(p), f)
           /\ \A i \in DOMAIN Tail(p) : Tail(p)[i].id # Head(p).id
           /\ \A s \in Solvers : f[s].id # Head(p).id
           /\ \E i \in DOMAIN p : p[i] = Head(p)
           /\ \A i \in DOMAIN Tail(p) : \E j \in DOMAIN p : p[j] = Tail(p)[i]
           /\ \A j \in DOMAIN p : p[j] = Head(p) \/ \E i \in DOMAIN Tail(p) : p[j] = Tail(p)[i]
<1> DEFINE z == Tail(p)
           h == Head(p)
<1>1. /\ Len(p) \in Nat \ {0} /\ DOMAIN p = 1..Len(p) /\ z \in Seq(NodeSet) /\ Len(z) = Len(p) - 1
      /\ h \in NodeSet /\ h = p[1] /\ \A k \in 1..(Len(p) - 1) : z[k] = p[k + 1]
  BY HeadAndTail
<1>2. DOMAIN z = 1..(Len(p) - 1)
  BY <1>1
<1> HIDE DEF z, h
<1>3. \A i \in DOMAIN z : i + 1 \in DOMAIN p /\ i + 1 # 1 /\ z[i] = p[i + 1]
  BY <1>1, <1>2
<1>4. 1 \in DOMAIN p
  BY <1>1
<1>5. ASSUME NEW i \in DOMAIN z, NEW j \in DOMAIN z
      PROVE  (i <= j => i + 1 <= j + 1) /\ (i + 1 = j + 1 => i = j)
  BY <1>1, <1>2
<1>6. Sorted(z)
  BY <1>3, <1>5 DEF Sorted
<1>7. Apart(z, f)
  BY <1>3, <1>5 DEF Apart, Distinct
<1>8. \A i \in DOMAIN z : z[i].id # h.id
  BY <1>1, <1>3, <1>4 DEF Apart, Distinct
<1>9. \A s \in Solvers : f[s].id # h.id
  BY <1>1, <1>4 DEF Apart
<1>10. ASSUME NEW j \in DOMAIN p PROVE p[j] = h \/ \E i \in DOMAIN z : p[j] = z[i]
  <2>1. CASE j = 1
    BY <1>1, <2>1
  <2>2. CASE j # 1
    <3>1. j - 1 \in DOMAIN z /\ (j - 1) + 1 = j
      BY <1>1, <1>2, <2>2
    <3> QED
      BY <1>3, <3>1
  <2> QED
    BY <2>1, <2>2
<1> QED
  BY <1>1, <1>3, <1>4, <1>6, <1>7, <1>8, <1>9, <1>10 DEF z, h

\* And of the solvers when s has node n, or none.
LEMMA CurKeeps ==
    ASSUME NEW p \in Seq(NodeSet), NEW f \in [Solvers -> MaybeNode], NEW g, Apart(p, f),
           NEW s \in Solvers, NEW n \in MaybeNode, g[s] = n, \A t \in Solvers \ {s} : g[t] = f[t],
           n # NoNode => /\ \A i \in DOMAIN p : p[i].id # n.id
                         /\ \A t \in Solvers \ {s} : f[t].id # n.id
    PROVE  Apart(p, g)
<1>1. \A t \in Solvers : f[t] \in MaybeNode
  OBVIOUS
<1>2. \A m \in MaybeNode : m = NoNode <=> m.id = 0
  BY NodeTypes
<1>3. \A i \in DOMAIN p : p[i].id # 0
  BY PoolFields
<1>4. \A i \in DOMAIN p, t \in Solvers : p[i].id # g[t].id
  <2>1. ASSUME NEW i \in DOMAIN p, NEW t \in Solvers PROVE p[i].id # g[t].id
    <3>1. CASE t = s
      BY <1>2, <1>3, <3>1
    <3>2. CASE t # s
      BY <3>2 DEF Apart
    <3> QED
      BY <3>1, <3>2
  <2> QED
    BY <2>1
<1>5. ASSUME NEW t \in Solvers, NEW u \in Solvers, g[t] # NoNode, g[t].id = g[u].id PROVE t = u
  <2>1. CASE t = s /\ u # s
    BY <1>5, <2>1
  <2>2. CASE t # s /\ u = s
    <3>1. n # NoNode
      BY <1>1, <1>2, <1>5, <2>2
    <3> QED
      BY <1>5, <2>2, <3>1
  <2>3. CASE t # s /\ u # s
    BY <1>5, <2>3 DEF Apart
  <2> QED
    BY <2>1, <2>2, <2>3
<1> QED
  BY <1>4, <1>5 DEF Apart

\* From c to d no node is lost, though its bound may change.
Grown(c, d) ==
    /\ d.inc <= c.inc
    /\ \A n \in Nodes(c) : \E m \in Nodes(d) : m.anc = n.anc /\ m.leaves = n.leaves

\* Then the tree stays.
LEMMA TreeGrown ==
    ASSUME NEW c \in CoordSet, NEW d \in CoordSet, TreeOk(c), Grown(c, d),
           Sorted(d.pool), Apart(d.pool, d.cur), \A m \in Nodes(d) : m \in Nodes(c) \/ Fits(d, m)
    PROVE  TreeOk(d) /\ \A i, l : Handed(c, i, l) => Handed(d, i, l)
<1>1. \A i, l : Handed(c, i, l) => Handed(d, i, l)
  BY DEF Handed, Grown
<1>2. d.inc <= c.inc
  BY DEF Grown
<1>3. Covers(d)
  <2>1. ASSUME NEW l \in Leaves PROVE Solved(d, l) \/ Handed(d, 0, l)
    BY <1>1, <1>2, SolvedStill DEF TreeOk, Covers
  <2> QED
    BY <2>1 DEF Covers
<1>4. ASSUME NEW m \in Nodes(c), NEW l \in m.leaves PROVE m.bound <= Value[l] \/ Solved(d, l)
  <2>1. l \in Leaves
    BY NodesAre DEF NodeSet
  <2>2. m.bound <= Value[l] \/ Solved(c, l)
    BY DEF TreeOk, Fits
  <2> QED
    BY <1>2, <2>1, <2>2, SolvedStill
<1>5. \A m \in Nodes(d) : Fits(d, m)
  BY <1>4 DEF Fits
<1> QED
  BY <1>1, <1>3, <1>5 DEF TreeOk

\* What it carries of a solver whose node is the same.
LEMMA GrownCarries ==
    ASSUME NEW c \in CoordSet, NEW d \in CoordSet, d.inc <= c.inc, NEW s, d.cur[s] = c.cur[s],
           \A i, l : Handed(c, i, l) => Handed(d, i, l)
    PROVE  Carries(c, d, s)
BY DEF Carries, Same

\* From c to d only the node at s, and the pool, change.
Only(c, d, s) == d.inc = c.inc /\ \A t \in Solvers \ {s} : d.cur[t] = c.cur[t]

\* With the same incumbent the same leaves are solved.
LEMMA IncSame ==
    ASSUME NEW c \in CoordSet, NEW d, d.inc = c.inc
    PROVE  d.inc <= c.inc /\ \A l : Solved(d, l) <=> Solved(c, l)
BY ValsIs DEF CoordSet, Solved

\* A better incumbent.
LEMMA IncTree ==
    ASSUME NEW c \in CoordSet, NEW x \in Vals, x <= c.inc, TreeOk(c)
    PROVE  TreeOk(NewInc(c, x)) /\ \A s \in Solvers : Carries(c, NewInc(c, x), s)
<1> DEFINE d == NewInc(c, x)
<1>1. d \in CoordSet /\ d.inc = x /\ d.pool = c.pool /\ d.cur = c.cur
  BY DEF CoordSet, NewInc
<1> HIDE DEF d
<1>2. Nodes(d) = Nodes(c)
  BY <1>1 DEF Nodes, Active
<1>3. Grown(c, d)
  BY <1>1, <1>2 DEF Grown
<1>4. TreeOk(d) /\ \A i, l : Handed(c, i, l) => Handed(d, i, l)
  BY <1>1, <1>2, <1>3, TreeGrown DEF TreeOk
<1>5. \A s \in Solvers : Carries(c, d, s)
  BY <1>1, <1>4, GrownCarries
<1> QED
  BY <1>4, <1>5 DEF d

\* A new node in the pool.
LEMMA InsertedTree ==
    ASSUME NEW c \in CoordSet, TreeOk(c), NEW n \in NodeSet, \A m \in Nodes(c) : m.id # n.id, Fits(c, n)
    PROVE  LET d == NewPool(c, Inserted(c.pool, n)) IN
           /\ TreeOk(d) /\ n \in Nodes(d) /\ \A s \in Solvers : Carries(c, d, s)
<1> DEFINE p == Inserted(c.pool, n)
           d == NewPool(c, p)
<1>1. c.pool \in Seq(NodeSet) /\ c.cur \in [Solvers -> MaybeNode] /\ Sorted(c.pool) /\ Apart(c.pool, c.cur)
  BY DEF CoordSet, TreeOk
<1>2. \A i \in DOMAIN c.pool : c.pool[i].id # n.id
  BY NodesAre
<1>3. ASSUME NEW s \in Solvers PROVE c.cur[s].id # n.id
  <2>1. CASE c.cur[s] = NoNode
    BY <2>1, NodeTypes DEF NodeSet
  <2>2. CASE c.cur[s] # NoNode
    BY <2>2, NodesAre
  <2> QED
    BY <2>1, <2>2
<1>4. /\ p \in Seq(NodeSet) /\ Sorted(p) /\ Apart(p, c.cur)
      /\ \E j \in DOMAIN p : p[j] = n
      /\ \A i \in DOMAIN c.pool : \E j \in DOMAIN p : p[j] = c.pool[i]
      /\ \A j \in DOMAIN p : p[j] = n \/ \E i \in DOMAIN c.pool : p[j] = c.pool[i]
  BY <1>1, <1>2, <1>3, InsertedKeeps
<1>5. d \in CoordSet /\ d.pool = p /\ d.cur = c.cur /\ d.inc = c.inc
  BY <1>4, PoolChanged
<1> HIDE DEF p, d
<1>6. \A m \in Nodes(c) : m \in Nodes(d)
  BY <1>4, <1>5, NodesAre
<1>7. n \in Nodes(d)
  BY <1>4, <1>5, NodesAre
<1>8. \A m \in Nodes(d) : m \in Nodes(c) \/ m = n
  BY <1>4, <1>5, NodesAre
<1>9. d.inc <= c.inc /\ Fits(d, n)
  BY <1>5, IncSame DEF Fits
<1>10. Grown(c, d)
  BY <1>6, <1>9 DEF Grown
<1>11. TreeOk(d) /\ \A i, l : Handed(c, i, l) => Handed(d, i, l)
  BY <1>4, <1>5, <1>8, <1>9, <1>10, TreeGrown
<1>12. \A s \in Solvers : Carries(c, d, s)
  BY <1>5, <1>9, <1>11, GrownCarries
<1> QED
  BY <1>7, <1>11, <1>12 DEF p, d

\* The head of the pool is put behind its equals.
LEMMA RotatedTree ==
    ASSUME NEW c \in CoordSet, TreeOk(c), c.pool # <<>>
    PROVE  LET d == NewPool(c, Inserted(Tail(c.pool), Head(c.pool))) IN
           TreeOk(d) /\ \A s \in Solvers : Carries(c, d, s)
<1> DEFINE y == Tail(c.pool)
           n == Head(c.pool)
           p == Inserted(y, n)
           d == NewPool(c, p)
<1>1. c.pool \in Seq(NodeSet) /\ c.cur \in [Solvers -> MaybeNode] /\ Sorted(c.pool) /\ Apart(c.pool, c.cur)
  BY DEF CoordSet, TreeOk
<1>2. /\ y \in Seq(NodeSet) /\ n \in NodeSet /\ Sorted(y) /\ Apart(y, c.cur)
      /\ \A i \in DOMAIN y : y[i].id # n.id
      /\ \A s \in Solvers : c.cur[s].id # n.id
      /\ \E i \in DOMAIN c.pool : c.pool[i] = n
      /\ \A i \in DOMAIN y : \E j \in DOMAIN c.pool : c.pool[j] = y[i]
      /\ \A j \in DOMAIN c.pool : c.pool[j] = n \/ \E i \in DOMAIN y : c.pool[j] = y[i]
  BY <1>1, TailKeeps
<1> HIDE DEF y, n
<1>3. /\ p \in Seq(NodeSet) /\ Sorted(p) /\ Apart(p, c.cur)
      /\ \E j \in DOMAIN p : p[j] = n
      /\ \A i \in DOMAIN y : \E j \in DOMAIN p : p[j] = y[i]
      /\ \A j \in DOMAIN p : p[j] = n \/ \E i \in DOMAIN y : p[j] = y[i]
  BY <1>1, <1>2, InsertedKeeps
<1>4. d \in CoordSet /\ d.pool = p /\ d.cur = c.cur /\ d.inc = c.inc
  BY <1>3, PoolChanged
<1> HIDE DEF p, d
<1>5. \A j \in DOMAIN c.pool : \E i \in DOMAIN p : p[i] = c.pool[j]
  BY <1>2, <1>3
<1>6. \A i \in DOMAIN p : \E j \in DOMAIN c.pool : p[i] = c.pool[j]
  BY <1>2, <1>3
<1>7. (\A m \in Nodes(c) : m \in Nodes(d)) /\ \A m \in Nodes(d) : m \in Nodes(c)
  BY <1>4, <1>5, <1>6, NodesAre
<1>8. d.inc <= c.inc
  BY <1>4, IncSame
<1>9. Grown(c, d)
  BY <1>7, <1>8 DEF Grown
<1>10. TreeOk(d) /\ \A i, l : Handed(c, i, l) => Handed(d, i, l)
  BY <1>3, <1>4, <1>7, <1>9, TreeGrown
<1>11. \A s \in Solvers : Carries(c, d, s)
  BY <1>4, <1>8, <1>10, GrownCarries
<1> QED
  BY <1>10, <1>11 DEF p, d, y, n

\* The head of the pool goes to a solver without a node.
LEMMA SentTree ==
    ASSUME NEW c \in CoordSet, NEW d \in CoordSet, TreeOk(c), c.pool # <<>>, NEW s \in Solvers,
           c.cur[s] = NoNode, d.pool = Tail(c.pool), d.cur[s] = Head(c.pool), Only(c, d, s)
    PROVE  TreeOk(d) /\ Fits(d, Head(c.pool)) /\ \A t \in Solvers \ {s} : Carries(c, d, t)
<1> DEFINE y == Tail(c.pool)
           n == Head(c.pool)
<1>1. c.pool \in Seq(NodeSet) /\ c.cur \in [Solvers -> MaybeNode] /\ Sorted(c.pool) /\ Apart(c.pool, c.cur)
  BY DEF CoordSet, TreeOk
<1>2. /\ y \in Seq(NodeSet) /\ n \in NodeSet /\ Sorted(y) /\ Apart(y, c.cur)
      /\ \A i \in DOMAIN y : y[i].id # n.id
      /\ \A t \in Solvers : c.cur[t].id # n.id
      /\ \E i \in DOMAIN c.pool : c.pool[i] = n
      /\ \A i \in DOMAIN y : \E j \in DOMAIN c.pool : c.pool[j] = y[i]
      /\ \A j \in DOMAIN c.pool : c.pool[j] = n \/ \E i \in DOMAIN y : c.pool[j] = y[i]
  BY <1>1, TailKeeps
<1>3. d.pool = y /\ d.cur[s] = n /\ d.inc = c.inc /\ \A t \in Solvers \ {s} : d.cur[t] = c.cur[t]
  BY DEF Only
<1> HIDE DEF y, n
<1>4. Apart(y, d.cur)
  <2>1. n \in MaybeNode
    BY <1>2 DEF MaybeNode
  <2>2. n # NoNode => /\ \A i \in DOMAIN y : y[i].id # n.id
                      /\ \A t \in Solvers \ {s} : c.cur[t].id # n.id
    BY <1>2
  <2> DEFINE f == c.cur
             g == d.cur
  <2>3. f \in [Solvers -> MaybeNode] /\ Apart(y, f) /\ g[s] = n /\ \A t \in Solvers \ {s} : g[t] = f[t]
    BY <1>1, <1>2, <1>3
  <2>4. n # NoNode => /\ \A i \in DOMAIN y : y[i].id # n.id
                      /\ \A t \in Solvers \ {s} : f[t].id # n.id
    BY <2>2
  <2> HIDE DEF f, g
  <2>5. Apart(y, g)
    BY <1>2, <2>1, <2>3, <2>4, CurKeeps
  <2> QED
    BY <2>5 DEF g
<1>5. n # NoNode
  BY <1>2, NodeTypes
<1>6. \A m \in Nodes(c) : m \in Nodes(d)
  <2>1. ASSUME NEW j \in DOMAIN c.pool PROVE c.pool[j] \in Nodes(d)
    BY <1>2, <1>3, <1>5, NodesAre
  <2>2. ASSUME NEW t \in Solvers, c.cur[t] # NoNode PROVE c.cur[t] \in Nodes(d)
    BY <1>3, <2>2, NodesAre
  <2> QED
    BY <2>1, <2>2, NodesAre
<1>7. \A m \in Nodes(d) : m \in Nodes(c)
  <2>1. ASSUME NEW i \in DOMAIN y PROVE y[i] \in Nodes(c)
    BY <1>2, NodesAre
  <2>2. n \in Nodes(c)
    BY <1>2, NodesAre
  <2>3. ASSUME NEW t \in Solvers, d.cur[t] # NoNode PROVE d.cur[t] \in Nodes(c)
    BY <1>3, <2>2, <2>3, NodesAre
  <2> QED
    BY <1>3, <2>1, <2>3, NodesAre
<1>8. d.inc <= c.inc
  BY <1>3, IncSame
<1>9. Grown(c, d)
  BY <1>6, <1>8 DEF Grown
<1>10. TreeOk(d) /\ \A i, l : Handed(c, i, l) => Handed(d, i, l)
  BY <1>2, <1>3, <1>4, <1>7, <1>9, TreeGrown
<1>11. \A t \in Solvers \ {s} : Carries(c, d, t)
  BY <1>3, <1>8, <1>10, GrownCarries
<1>12. Fits(d, n)
  <2>1. n \in Nodes(d)
    BY <1>3, <1>5, NodesAre
  <2> QED
    BY <1>10, <2>1 DEF TreeOk
<1> QED
  BY <1>10, <1>11, <1>12 DEF n

\* The node at s is deleted, all it held being solved or in its descendants.
LEMMA SolvedTree ==
    ASSUME NEW c \in CoordSet, TreeOk(c), NEW s \in Solvers, c.cur[s] # NoNode,
           \A l \in c.cur[s].leaves : Solved(c, l) \/ Handed(c, c.cur[s].id, l)
    PROVE  LET d == Freed(OutOf(c, s), c.cur[s]) IN
           /\ d \in CoordSet /\ TreeOk(d) /\ d.inc = c.inc /\ d.cur[s] = NoNode
           /\ \A t \in Solvers \ {s} : Carries(c, d, t)
<1> DEFINE x == c.cur[s]
           e == OutOf(c, s)
           d == Freed(e, x)
<1>1. c.pool \in Seq(NodeSet) /\ c.cur \in [Solvers -> MaybeNode] /\ Sorted(c.pool) /\ Apart(c.pool, c.cur)
  BY DEF CoordSet, TreeOk
<1>2. x \in Nodes(c) /\ x \in NodeSet /\ x # NoNode
  BY NodesAre
<1>3. /\ e \in CoordSet /\ e.inc = c.inc /\ e.cur[s] = NoNode /\ e.pool = c.pool
      /\ \A t \in Solvers \ {s} : e.cur[t] = c.cur[t]
  BY OutIs
<1>4. /\ d \in CoordSet /\ d.cur[s] = Orphaned(NoNode, x)
      /\ \A t \in Solvers \ {s} : d.cur[t] = Orphaned(c.cur[t], x)
  BY <1>2, <1>3, FreedFields
<1> HIDE DEF x, e
<1>5. Sorted(e.pool) /\ Apart(e.pool, e.cur)
  <2>1. NoNode \in MaybeNode
    BY DEF MaybeNode
  <2> QED
    BY <1>1, <1>3, <2>1, CurKeeps
<1>6. \A t \in Solvers \ {s} : c.cur[t].id # x.id
  BY <1>1, <1>2 DEF Apart, x
<1>7. \A i \in DOMAIN c.pool : c.pool[i].id # x.id
  BY <1>1 DEF Apart, x
<1>8. ASSUME NEW m \in Nodes(c), m.id # x.id PROVE m \in Nodes(e)
  <2>1. CASE \E i \in DOMAIN c.pool : m = c.pool[i]
    BY <1>3, <2>1, NodesAre
  <2>2. CASE \E t \in Solvers : c.cur[t] # NoNode /\ m = c.cur[t]
    <3>1. PICK t \in Solvers : c.cur[t] # NoNode /\ m = c.cur[t]
      BY <2>2
    <3>2. t # s
      BY <1>8, <3>1 DEF x
    <3> QED
      BY <1>3, <3>1, <3>2, NodesAre
  <2> QED
    BY <2>1, <2>2, NodesAre
<1>9. ASSUME NEW m \in Nodes(e) PROVE m \in Nodes(c) /\ m.id # x.id
  <2>1. CASE \E i \in DOMAIN e.pool : m = e.pool[i]
    BY <1>3, <1>7, <2>1, NodesAre
  <2>2. CASE \E t \in Solvers : e.cur[t] # NoNode /\ m = e.cur[t]
    <3>1. PICK t \in Solvers : e.cur[t] # NoNode /\ m = e.cur[t]
      BY <2>2
    <3>2. t # s
      BY <1>3, <3>1
    <3> QED
      BY <1>3, <1>6, <3>1, <3>2, NodesAre
  <2> QED
    BY <1>3, <2>1, <2>2, NodesAre
<1>10. Less(c, e, x)
  BY <1>3, <1>8, <1>9 DEF Less
<1>11. \A l \in x.leaves : Solved(c, l) \/ Handed(c, x.id, l)
  BY DEF x
<1>12. /\ TreeOk(d) /\ d.inc = c.inc
       /\ \A l, i : i # x.id /\ Handed(c, i, l) => Solved(d, l) \/ Handed(d, i, l)
  BY <1>2, <1>3, <1>5, <1>10, <1>11, TreeFreed
<1>13. d.cur[s] = NoNode
  BY <1>2, <1>4, OrphanedIs
<1> HIDE DEF d
<1>14. ASSUME NEW t \in Solvers \ {s} PROVE Carries(c, d, t)
  <2>1. c.cur[t] \in MaybeNode
    BY <1>1
  <2>2. d.cur[t].id = c.cur[t].id /\ d.cur[t].leaves = c.cur[t].leaves
    BY <1>2, <1>4, <2>1, OrphanedFields
  <2>3. d.inc <= c.inc
    BY <1>12, IncSame
  <2> QED
    BY <1>6, <1>12, <2>2, <2>3 DEF Carries, Same
<1> QED
  BY <1>4, <1>12, <1>13, <1>14 DEF d, e, x

\* The node at s is put back in the pool.
LEMMA ReturnedTree ==
    ASSUME NEW c \in CoordSet, NEW d \in CoordSet, TreeOk(c), NEW s \in Solvers, c.cur[s] # NoNode,
           d.pool = Inserted(c.pool, c.cur[s]), d.cur[s] = NoNode, Only(c, d, s)
    PROVE  TreeOk(d) /\ \A t \in Solvers \ {s} : Carries(c, d, t)
<1> DEFINE x == c.cur[s]
           e == OutOf(c, s)
           p == Inserted(c.pool, x)
<1>1. c.pool \in Seq(NodeSet) /\ c.cur \in [Solvers -> MaybeNode] /\ Sorted(c.pool) /\ Apart(c.pool, c.cur)
  BY DEF CoordSet, TreeOk
<1>2. x \in Nodes(c) /\ x \in NodeSet /\ x # NoNode
  BY NodesAre
<1>3. d.pool = p /\ d.inc = c.inc /\ \A t \in Solvers \ {s} : d.cur[t] = c.cur[t]
  BY DEF Only
<1>4. d.cur \in [Solvers -> MaybeNode] /\ NoNode \in MaybeNode /\ NoNode.id = 0
  BY NodeTypes DEF CoordSet, MaybeNode
<1>5. Apart(c.pool, d.cur)
  <2>1. \A t \in Solvers \ {s} : d.cur[t] = c.cur[t]
    BY <1>3
  <2> HIDE DEF x, p, e
  <2> QED
    BY <1>1, <1>4, <2>1, CurKeeps
<1>6. \A i \in DOMAIN c.pool : c.pool[i].id # x.id
  BY <1>1 DEF Apart
<1>7. ASSUME NEW t \in Solvers PROVE d.cur[t].id # x.id
  <2>1. CASE t = s
    BY <1>2, <1>4, <2>1 DEF NodeSet
  <2>2. CASE t # s
    BY <1>1, <1>2, <1>3, <2>2 DEF Apart
  <2> QED
    BY <2>1, <2>2
<1>8. /\ p \in Seq(NodeSet) /\ Sorted(p) /\ Apart(p, d.cur)
      /\ \E j \in DOMAIN p : p[j] = x
      /\ \A i \in DOMAIN c.pool : \E j \in DOMAIN p : p[j] = c.pool[i]
      /\ \A j \in DOMAIN p : p[j] = x \/ \E i \in DOMAIN c.pool : p[j] = c.pool[i]
  <2> HIDE DEF x
  <2> QED
    BY <1>1, <1>2, <1>4, <1>5, <1>6, <1>7, InsertedKeeps
<1> HIDE DEF p
<1>9. ASSUME NEW m \in Nodes(c) PROVE m \in Nodes(d)
  <2>1. CASE \E i \in DOMAIN c.pool : m = c.pool[i]
    BY <1>3, <1>8, <2>1, NodesAre
  <2>2. CASE \E t \in Solvers : c.cur[t] # NoNode /\ m = c.cur[t]
    <3>1. PICK t \in Solvers : c.cur[t] # NoNode /\ m = c.cur[t]
      BY <2>2
    <3> QED
      BY <1>3, <1>8, <3>1, NodesAre
  <2> QED
    BY <2>1, <2>2, NodesAre
<1>10. ASSUME NEW m \in Nodes(d) PROVE m \in Nodes(c)
  <2>1. CASE \E i \in DOMAIN p : m = p[i]
    BY <1>2, <1>8, <2>1, NodesAre
  <2>2. CASE \E t \in Solvers : d.cur[t] # NoNode /\ m = d.cur[t]
    BY <1>3, <2>2, NodesAre
  <2> QED
    BY <1>3, <2>1, <2>2, NodesAre
<1>11. d.inc <= c.inc
  BY <1>3, IncSame
<1>12. Grown(c, d)
  BY <1>9, <1>11 DEF Grown
<1>13. TreeOk(d) /\ \A i, l : Handed(c, i, l) => Handed(d, i, l)
  BY <1>3, <1>8, <1>10, <1>12, TreeGrown
<1> QED
  BY <1>3, <1>11, <1>13, GrownCarries

\* The node at s, its bound being b by now, is put back in the pool, and the
\* head of the pool goes to s.
LEMMA ExchangedTree ==
    ASSUME NEW c \in CoordSet, NEW d \in CoordSet, TreeOk(c), c.pool # <<>>, NEW s \in Solvers, c.cur[s] # NoNode,
           NEW b \in Nat, Fits(c, Bounded(c.cur[s], b)),
           d.pool = Inserted(Tail(c.pool), Bounded(c.cur[s], b)), d.cur[s] = Head(c.pool), Only(c, d, s)
    PROVE  TreeOk(d) /\ Fits(d, Head(c.pool)) /\ \A t \in Solvers \ {s} : Carries(c, d, t)
<1> DEFINE x == c.cur[s]
           z == Bounded(x, b)
           y == Tail(c.pool)
           n == Head(c.pool)
           p == Inserted(y, z)
<1>1. c.pool \in Seq(NodeSet) /\ c.cur \in [Solvers -> MaybeNode] /\ Sorted(c.pool) /\ Apart(c.pool, c.cur)
  BY DEF CoordSet, TreeOk
<1>2. x \in Nodes(c) /\ x \in NodeSet /\ x # NoNode
  BY NodesAre
<1>3. z \in NodeSet /\ z.id = x.id /\ z.leaves = x.leaves /\ z.anc = x.anc /\ z # NoNode
  <2>1. z \in NodeSet /\ z.id = x.id /\ z.leaves = x.leaves /\ z.anc = x.anc
    BY <1>2 DEF NodeSet, Bounded
  <2> QED
    BY <2>1, NodeTypes
<1>4. d.pool = p /\ d.inc = c.inc /\ d.cur[s] = n /\ \A t \in Solvers \ {s} : d.cur[t] = c.cur[t]
  BY DEF Only
<1>5. /\ y \in Seq(NodeSet) /\ n \in NodeSet /\ Sorted(y) /\ Apart(y, c.cur)
      /\ \A i \in DOMAIN y : y[i].id # n.id
      /\ \A t \in Solvers : c.cur[t].id # n.id
      /\ \E i \in DOMAIN c.pool : c.pool[i] = n
      /\ \A i \in DOMAIN y : \E j \in DOMAIN c.pool : c.pool[j] = y[i]
      /\ \A j \in DOMAIN c.pool : c.pool[j] = n \/ \E i \in DOMAIN y : c.pool[j] = y[i]
  BY <1>1, TailKeeps
<1>6. \A i \in DOMAIN y : y[i].id # z.id
  BY <1>1, <1>3, <1>5 DEF Apart
<1>7. \A t \in Solvers : d.cur[t].id # z.id
  <2>1. ASSUME NEW t \in Solvers, t # s PROVE d.cur[t].id # z.id
    BY <1>1, <1>2, <1>3, <1>4, <2>1 DEF Apart
  <2>2. d.cur[s].id # z.id
    BY <1>3, <1>4, <1>5
  <2> QED
    BY <2>1, <2>2
<1> HIDE DEF x, y, z, n
<1>8. d.cur \in [Solvers -> MaybeNode] /\ n \in MaybeNode /\ n # NoNode
  BY <1>5, NodeTypes DEF CoordSet, MaybeNode
<1>9. Apart(y, d.cur)
  <2> DEFINE f == c.cur
             g == d.cur
  <2>1. f \in [Solvers -> MaybeNode] /\ Apart(y, f) /\ g[s] = n /\ \A t \in Solvers \ {s} : g[t] = f[t]
    BY <1>1, <1>4, <1>5
  <2>2. n # NoNode => /\ \A i \in DOMAIN y : y[i].id # n.id
                      /\ \A t \in Solvers \ {s} : f[t].id # n.id
    BY <1>5
  <2> HIDE DEF f, g
  <2>0. y \in Seq(NodeSet) /\ n \in MaybeNode
    BY <1>5, <1>8
  <2>3. Apart(y, g)
    BY <2>0, <2>1, <2>2, CurKeeps
  <2> QED
    BY <2>3 DEF g
<1>10. /\ p \in Seq(NodeSet) /\ Sorted(p) /\ Apart(p, d.cur)
       /\ \E j \in DOMAIN p : p[j] = z
       /\ \A i \in DOMAIN y : \E j \in DOMAIN p : p[j] = y[i]
       /\ \A j \in DOMAIN p : p[j] = z \/ \E i \in DOMAIN y : p[j] = y[i]
  BY <1>3, <1>5, <1>6, <1>7, <1>8, <1>9, InsertedKeeps
<1> HIDE DEF p
<1>11. z \in Nodes(d) /\ n \in Nodes(d)
  BY <1>4, <1>8, <1>10, NodesAre
<1>12. ASSUME NEW m \in Nodes(c) PROVE \E k \in Nodes(d) : k.anc = m.anc /\ k.leaves = m.leaves
  <2>1. CASE \E i \in DOMAIN c.pool : m = c.pool[i]
    <3>1. m = n \/ \E i \in DOMAIN y : m = y[i]
      BY <1>5, <2>1
    <3>2. m \in Nodes(d)
      BY <1>4, <1>10, <1>11, <3>1, NodesAre
    <3> QED
      BY <3>2
  <2>2. CASE \E t \in Solvers : c.cur[t] # NoNode /\ m = c.cur[t]
    <3>1. PICK t \in Solvers : c.cur[t] # NoNode /\ m = c.cur[t]
      BY <2>2
    <3>2. CASE t = s
      BY <1>3, <1>11, <3>1, <3>2 DEF x
    <3>3. CASE t # s
      <4>1. m \in Nodes(d)
        BY <1>4, <3>1, <3>3, NodesAre
      <4> QED
        BY <4>1
    <3> QED
      BY <3>2, <3>3
  <2> QED
    BY <2>1, <2>2, NodesAre
<1>13. d.inc <= c.inc /\ Fits(d, z)
  BY <1>4, IncSame DEF Fits, z, x
<1>14. ASSUME NEW m \in Nodes(d) PROVE m \in Nodes(c) \/ Fits(d, m)
  <2>1. CASE \E i \in DOMAIN p : m = p[i]
    <3>1. m = z \/ \E i \in DOMAIN y : m = y[i]
      BY <1>10, <2>1
    <3> QED
      BY <1>5, <1>13, <3>1, NodesAre
  <2>2. CASE \E t \in Solvers : d.cur[t] # NoNode /\ m = d.cur[t]
    <3>1. PICK t \in Solvers : d.cur[t] # NoNode /\ m = d.cur[t]
      BY <2>2
    <3>2. CASE t = s
      BY <1>4, <1>5, <3>1, <3>2, NodesAre
    <3>3. CASE t # s
      BY <1>4, <3>1, <3>3, NodesAre
    <3> QED
      BY <3>2, <3>3
  <2> QED
    BY <1>4, <2>1, <2>2, NodesAre
<1>15. Grown(c, d)
  BY <1>12, <1>13 DEF Grown
<1>16. TreeOk(d) /\ \A i, l : Handed(c, i, l) => Handed(d, i, l)
  BY <1>4, <1>10, <1>14, <1>15, TreeGrown
<1>17. Fits(d, n)
  BY <1>11, <1>16 DEF TreeOk
<1>18. \A t \in Solvers \ {s} : Carries(c, d, t)
  BY <1>4, <1>13, <1>16, GrownCarries
<1> QED
  BY <1>16, <1>17, <1>18 DEF n

-----------------------------------------------------------------------------
(* What a solver and the load coordinator know of its node.                *)

\* A message before position k of q says that leaf l needs nothing more, or that s
\* has given it away.
Brings(q, k, s, l) ==
    \E j \in DOMAIN q : j < k /\ \/ q[j].tag = "Solution" /\ q[j].val <= Value[l]
                                 \/ q[j] \in Gifts(s) /\ l \in q[j].val.leaves
\* When the load coordinator handles what is at position k, it need not find leaf l
\* in the node at s.
Seen(c, q, k, s, l) == Solved(c, l) \/ Brings(q, k, s, l) \/ Handed(c, c.cur[s].id, l)

\* The messages of s: parts of its node are given away while it has it, before it
\* asks for another and before it ends it; the bound with which it asks, and its end,
\* are right when they are handled.
Line(c, q, s) ==
    /\ \A k \in DOMAIN q : q[k] \in Gifts(s) =>
          c.cur[s] # NoNode /\ \A l \in q[k].val.leaves : q[k].val.bound <= Value[l]
    /\ \A j, k \in DOMAIN q : q[k] \in Gifts(s) /\ q[j] \in Ends(s) \cup Requests(s) => k < j
    /\ None(q, Requests(s)) \/ None(q, Normals(s))
    /\ None(q, Requests(s)) \/ Single(q, Requests(s))
    /\ \A k \in DOMAIN q : q[k] \in Requests(s) =>
          \A l \in c.cur[s].leaves : q[k].val <= Value[l] \/ Seen(c, q, k, s, l)
    /\ \A k \in DOMAIN q : q[k] \in Normals(s) =>
          \A l \in c.cur[s].leaves : Seen(c, q, k, s, l)

\* The solver v is told to terminate, or will be.
Dismissed(v, r) == v.term = "normal" \/ \E k \in DOMAIN r : r[k].tag = "TerminateRequest"

\* The solver: what it need not search of its node is known; it is told to terminate
\* when nothing is left; it stops its search for a reason.
Works(c, q, v, r, s) ==
    /\ Fits(c, v.cur) /\ Fits(c, v.new) /\ \A k \in DOMAIN r : r[k] \in NewNodes => Fits(c, r[k].val)
    /\ v.pc # "idle" /\ v.new = NoNode /\ None(r, NewNodes) =>
          \A l \in v.cur.leaves : l \in v.open \/ v.own <= Value[l] \/ Seen(c, q, Len(q) + 1, s, l)
    /\ Dismissed(v, r) => \A l \in Leaves : Solved(c, l)
    /\ v.pc = "complete" => v.open = {} \/ v.new # NoNode \/ v.term # "no"
Awaits(v) == v.pc = "await" => v.new = NoNode /\ (v.open = {} \/ v.term = "normal")

Part(c, q, v, r, s) == Line(c, q, s) /\ (~Gone(v) => Works(c, q, v, r, s) /\ Awaits(v))

\* A leaf the load coordinator need not hear of again stays one.
LEMMA SeenChanged ==
    ASSUME NEW c \in CoordSet, NEW d \in CoordSet, NEW s, Carries(c, d, s), NEW q, NEW k, NEW l \in Leaves,
           Seen(c, q, k, s, l)
    PROVE  Seen(d, q, k, s, l)
BY SolvedStill DEF Seen, Carries

\* It stays one with more messages in the queue, and seen from behind more of them.
LEMMA SeenFurther ==
    ASSUME NEW c, NEW q \in Seq(ToCoord), NEW p \in Seq(ToCoord), NEW k \in Int, NEW j \in Int, k <= j,
           NEW s, NEW l, Seen(c, q, k, s, l)
    PROVE  Seen(c, q \o p, j, s, l)
<1>1. CASE Brings(q, k, s, l)
  <2>1. PICK i \in DOMAIN q : i < k /\ \/ q[i].tag = "Solution" /\ q[i].val <= Value[l]
                                       \/ q[i] \in Gifts(s) /\ l \in q[i].val.leaves
    BY <1>1 DEF Brings
  <2>2. i \in DOMAIN (q \o p) /\ (q \o p)[i] = q[i] /\ i < j
    BY <2>1
  <2>3. Brings(q \o p, j, s, l)
    BY <2>1, <2>2 DEF Brings
  <2> QED
    BY <2>3 DEF Seen
<1> QED
  BY <1>1 DEF Seen

\* What the load coordinator d does with message m of the queue.
Hears(d, m, s) ==
    /\ m.tag = "Solution" => d.inc <= m.val
    /\ m \in Gifts(s) => \A l \in m.val.leaves : Solved(d, l) \/ Handed(d, d.cur[s].id, l)

\* It stays one when the first message is handled, if what that brings has arrived.
LEMMA SeenPopped ==
    ASSUME NEW c \in CoordSet, NEW d \in CoordSet, NEW s, Carries(c, d, s),
           NEW q \in Seq(ToCoord), q # <<>>, Hears(d, Head(q), s),
           NEW k \in Int, NEW l \in Leaves, Seen(c, q, k, s, l)
    PROVE  Seen(d, Tail(q), k - 1, s, l)
<1>1. CASE Brings(q, k, s, l)
  <2>1. PICK i \in DOMAIN q : i < k /\ \/ q[i].tag = "Solution" /\ q[i].val <= Value[l]
                                       \/ q[i] \in Gifts(s) /\ l \in q[i].val.leaves
    BY <1>1 DEF Brings
  <2>2. /\ Len(q) \in Nat \ {0} /\ DOMAIN q = 1..Len(q) /\ Tail(q) \in Seq(ToCoord) /\ Len(Tail(q)) = Len(q) - 1
        /\ Head(q) = q[1] /\ \A j \in 1..(Len(q) - 1) : Tail(q)[j] = q[j + 1]
    BY HeadAndTail
  <2>3. CASE i = 1
    <3>1. CASE q[i].tag = "Solution" /\ q[i].val <= Value[l]
      <4>1. q[i] \in ToCoord
        BY <2>1
      <4>2. q[i].val \in Vals
        BY <3>1, <4>1 DEF ToCoord
      <4>3. q[i].val \in Int /\ d.inc \in Int /\ Value[l] \in Int
        BY <4>2, ValsIs DEF CoordSet
      <4>4. d.inc <= q[i].val
        BY <2>2, <2>3, <3>1 DEF Hears
      <4> QED
        BY <3>1, <4>3, <4>4 DEF Seen, Solved
    <3>2. CASE q[i] \in Gifts(s) /\ l \in q[i].val.leaves
      BY <2>2, <2>3, <3>2 DEF Hears, Seen
    <3> QED
      BY <2>1, <3>1, <3>2
  <2>4. CASE i # 1
    <3>1. i - 1 \in 1..(Len(q) - 1) /\ (i - 1) + 1 = i /\ i - 1 < k - 1
      BY <2>1, <2>2, <2>4
    <3>2. i - 1 \in DOMAIN Tail(q) /\ Tail(q)[i - 1] = q[i]
      BY <2>2, <3>1
    <3>3. Brings(Tail(q), k - 1, s, l)
      BY <2>1, <3>1, <3>2 DEF Brings
    <3> QED
      BY <3>3 DEF Seen
  <2> QED
    BY <2>3, <2>4
<1>2. CASE Solved(c, l) \/ Handed(c, c.cur[s].id, l)
  BY <1>2, SolvedStill DEF Seen, Carries
<1> QED
  BY <1>1, <1>2 DEF Seen

\* A bound stays right when the incumbent improves.
LEMMA FitsStill ==
    ASSUME NEW c \in CoordSet, NEW d \in CoordSet, d.inc <= c.inc, NEW n \in MaybeNode, Fits(c, n)
    PROVE  Fits(d, n)
<1>1. n.leaves \subseteq Leaves
  BY NodeTypes
<1> QED
  BY <1>1, SolvedStill DEF Fits

\* What the messages of s say stays right when the load coordinator changes.
LEMMA LineChanged ==
    ASSUME NEW c \in CoordSet, NEW d \in CoordSet, NEW s \in Solvers, Carries(c, d, s),
           NEW q, Line(c, q, s)
    PROVE  Line(d, q, s)
<1>1. c.cur[s] \in MaybeNode /\ d.cur[s] \in MaybeNode /\ Same(c.cur[s], d.cur[s])
  BY DEF CoordSet, Carries
<1>2. c.cur[s] # NoNode => d.cur[s] # NoNode
  BY <1>1, SameNone
<1>3. d.cur[s].leaves = c.cur[s].leaves /\ c.cur[s].leaves \subseteq Leaves
  BY <1>1, NodeTypes DEF Same
<1>4. ASSUME NEW k \in DOMAIN q, NEW l \in d.cur[s].leaves, Seen(c, q, k, s, l) PROVE Seen(d, q, k, s, l)
  BY <1>3, <1>4, SeenChanged
<1>5. /\ \A k \in DOMAIN q : q[k] \in Requests(s) =>
            \A l \in d.cur[s].leaves : q[k].val <= Value[l] \/ Seen(c, q, k, s, l)
      /\ \A k \in DOMAIN q : q[k] \in Normals(s) =>
            \A l \in d.cur[s].leaves : Seen(c, q, k, s, l)
  BY <1>3 DEF Line
<1>6. /\ \A k \in DOMAIN q : q[k] \in Gifts(s) =>
            d.cur[s] # NoNode /\ \A l \in q[k].val.leaves : q[k].val.bound <= Value[l]
      /\ \A j, k \in DOMAIN q : q[k] \in Gifts(s) /\ q[j] \in Ends(s) \cup Requests(s) => k < j
      /\ None(q, Requests(s)) \/ None(q, Normals(s))
      /\ None(q, Requests(s)) \/ Single(q, Requests(s))
  BY <1>2 DEF Line
<1>7. /\ \A k \in DOMAIN q : q[k] \in Requests(s) =>
            \A l \in d.cur[s].leaves : q[k].val <= Value[l] \/ Seen(d, q, k, s, l)
      /\ \A k \in DOMAIN q : q[k] \in Normals(s) =>
            \A l \in d.cur[s].leaves : Seen(d, q, k, s, l)
  BY <1>4, <1>5
<1> QED
  BY <1>6, <1>7 DEF Line

\* What holds of a solver's work still does, if the coordinator carries its node on.
LEMMA WorksChanged ==
    ASSUME NEW c \in CoordSet, NEW d \in CoordSet, NEW s \in Solvers, Carries(c, d, s),
           NEW q, NEW v \in SolverSet, NEW r \in Seq(ToSolver), Works(c, q, v, r, s)
    PROVE  Works(d, q, v, r, s)
<1>1. d.inc <= c.inc
  BY DEF Carries
<1>2. v.cur \in MaybeNode /\ v.new \in MaybeNode /\ v.cur.leaves \subseteq Leaves
  BY SolverFields, NodeTypes
<1>3. \A k \in DOMAIN r : r[k] \in NewNodes => r[k].val \in MaybeNode
  BY DEF NewNodes, ToSolver, MaybeNode
<1>4. /\ Fits(d, v.cur) /\ Fits(d, v.new)
      /\ \A k \in DOMAIN r : r[k] \in NewNodes => Fits(d, r[k].val)
  BY <1>1, <1>2, <1>3, FitsStill DEF Works
<1>5. v.pc # "idle" /\ v.new = NoNode /\ None(r, NewNodes) =>
          \A l \in v.cur.leaves : l \in v.open \/ v.own <= Value[l] \/ Seen(d, q, Len(q) + 1, s, l)
  BY <1>2, SeenChanged DEF Works
<1>6. Dismissed(v, r) => \A l \in Leaves : Solved(d, l)
  BY <1>1, SolvedStill DEF Works
<1> QED
  BY <1>4, <1>5, <1>6 DEF Works

\* So does all that holds of a solver.
LEMMA PartChanged ==
    ASSUME NEW c \in CoordSet, NEW d \in CoordSet, NEW s \in Solvers, Carries(c, d, s),
           NEW q, NEW v \in SolverSet, NEW r \in Seq(ToSolver), Part(c, q, v, r, s)
    PROVE  Part(d, q, v, r, s)
BY LineChanged, WorksChanged DEF Part

\* The same when it takes the first message.
LEMMA LinePopped ==
    ASSUME NEW c \in CoordSet, NEW d \in CoordSet, NEW s \in Solvers, Carries(c, d, s),
           NEW q \in Seq(ToCoord), q # <<>>, Hears(d, Head(q), s), Line(c, q, s)
    PROVE  Line(d, Tail(q), s)
<1> DEFINE z == Tail(q)
<1>1. c.cur[s] \in MaybeNode /\ d.cur[s] \in MaybeNode /\ Same(c.cur[s], d.cur[s])
  BY DEF CoordSet, Carries
<1>2. c.cur[s] # NoNode => d.cur[s] # NoNode
  BY <1>1, SameNone
<1>3. d.cur[s].leaves = c.cur[s].leaves /\ c.cur[s].leaves \subseteq Leaves
  BY <1>1, NodeTypes DEF Same
<1>4. /\ Len(q) \in Nat \ {0} /\ DOMAIN q = 1..Len(q) /\ z \in Seq(ToCoord) /\ Len(z) = Len(q) - 1
      /\ \A k \in 1..(Len(q) - 1) : z[k] = q[k + 1]
  BY HeadAndTail
<1>5. DOMAIN z = 1..(Len(q) - 1)
  BY <1>4
<1>6. ASSUME NEW k \in DOMAIN z
      PROVE  k \in Int /\ k + 1 \in DOMAIN q /\ z[k] = q[k + 1] /\ (k + 1) - 1 = k
  BY <1>4, <1>5
<1>7. ASSUME NEW k \in DOMAIN z, NEW l \in d.cur[s].leaves, Seen(c, q, k + 1, s, l) PROVE Seen(d, z, k, s, l)
  <2>1. k + 1 \in Int /\ l \in Leaves /\ (k + 1) - 1 = k
    BY <1>3, <1>6
  <2>2. Seen(d, z, (k + 1) - 1, s, l)
    BY <1>7, <2>1, SeenPopped
  <2> QED
    BY <2>1, <2>2
<1>8. /\ None(z, Requests(s)) \/ None(z, Normals(s))
      /\ None(z, Requests(s)) \/ Single(z, Requests(s))
  BY ShorterQueue DEF Line
<1> HIDE DEF z
<1>9. \A k \in DOMAIN z : z[k] \in Gifts(s) =>
          d.cur[s] # NoNode /\ \A l \in z[k].val.leaves : z[k].val.bound <= Value[l]
  BY <1>2, <1>6 DEF Line
<1>10. ASSUME NEW j \in DOMAIN z, NEW k \in DOMAIN z, z[k] \in Gifts(s), z[j] \in Ends(s) \cup Requests(s)
       PROVE  k < j
  <2>1. k + 1 < j + 1
    BY <1>6, <1>10 DEF Line
  <2> QED
    BY <1>6, <2>1
<1>11. ASSUME NEW k \in DOMAIN z, z[k] \in Requests(s), NEW l \in d.cur[s].leaves
       PROVE  z[k].val <= Value[l] \/ Seen(d, z, k, s, l)
  <2>1. q[k + 1].val <= Value[l] \/ Seen(c, q, k + 1, s, l)
    BY <1>3, <1>6, <1>11 DEF Line
  <2> QED
    BY <1>6, <1>7, <1>11, <2>1
<1>12. ASSUME NEW k \in DOMAIN z, z[k] \in Normals(s), NEW l \in d.cur[s].leaves
       PROVE  Seen(d, z, k, s, l)
  <2>1. Seen(c, q, k + 1, s, l)
    BY <1>3, <1>6, <1>12 DEF Line
  <2> QED
    BY <1>7, <1>12, <2>1
<1>13. Line(d, z, s)
  BY <1>8, <1>9, <1>10, <1>11, <1>12 DEF Line
<1> QED
  BY <1>13 DEF z

\* What holds of a solver's work still does when the first message is handled.
LEMMA WorksPopped ==
    ASSUME NEW c \in CoordSet, NEW d \in CoordSet, NEW s \in Solvers, Carries(c, d, s),
           NEW q \in Seq(ToCoord), q # <<>>, Hears(d, Head(q), s),
           NEW v \in SolverSet, NEW r \in Seq(ToSolver), Works(c, q, v, r, s)
    PROVE  Works(d, Tail(q), v, r, s)
<1>1. d.inc <= c.inc
  BY DEF Carries
<1>2. v.cur \in MaybeNode /\ v.new \in MaybeNode /\ v.cur.leaves \subseteq Leaves
  BY SolverFields, NodeTypes
<1>3. \A k \in DOMAIN r : r[k] \in NewNodes => r[k].val \in MaybeNode
  BY DEF NewNodes, ToSolver, MaybeNode
<1>4. /\ Fits(d, v.cur) /\ Fits(d, v.new)
      /\ \A k \in DOMAIN r : r[k] \in NewNodes => Fits(d, r[k].val)
  BY <1>1, <1>2, <1>3, FitsStill DEF Works
<1>5. Len(q) + 1 \in Int /\ (Len(q) + 1) - 1 = Len(Tail(q)) + 1
  BY HeadAndTail
<1>6. ASSUME NEW l \in v.cur.leaves, Seen(c, q, Len(q) + 1, s, l)
      PROVE  Seen(d, Tail(q), Len(Tail(q)) + 1, s, l)
  <2>1. l \in Leaves
    BY <1>2
  <2>2. Seen(d, Tail(q), (Len(q) + 1) - 1, s, l)
    BY <1>5, <1>6, <2>1, SeenPopped
  <2> QED
    BY <1>5, <2>2
<1>7. v.pc # "idle" /\ v.new = NoNode /\ None(r, NewNodes) =>
          \A l \in v.cur.leaves : l \in v.open \/ v.own <= Value[l] \/ Seen(d, Tail(q), Len(Tail(q)) + 1, s, l)
  BY <1>6 DEF Works
<1>8. Dismissed(v, r) => \A l \in Leaves : Solved(d, l)
  BY <1>1, SolvedStill DEF Works
<1> QED
  BY <1>4, <1>7, <1>8 DEF Works

\* So does all that holds of a solver.
LEMMA PartPopped ==
    ASSUME NEW c \in CoordSet, NEW d \in CoordSet, NEW s \in Solvers, Carries(c, d, s),
           NEW q \in Seq(ToCoord), q # <<>>, Hears(d, Head(q), s),
           NEW v \in SolverSet, NEW r \in Seq(ToSolver), Part(c, q, v, r, s)
    PROVE  Part(d, Tail(q), v, r, s)
BY LinePopped, WorksPopped DEF Part

\* A solver of which the queue holds no message about its node.
LEMMA LineClean ==
    ASSUME NEW d, NEW q, NEW s, None(q, Gifts(s)), None(q, Requests(s)), None(q, Normals(s))
    PROVE  Line(d, q, s)
BY DEF Line, None

\* Behind a request or an end no part of the node is given away, behind a request no
\* end says that the node is solved.
LEMMA NothingBehind ==
    ASSUME NEW c, NEW q \in Seq(ToCoord), q # <<>>, NEW s, Line(c, q, s)
    PROVE  /\ Head(q) \in Ends(s) \cup Requests(s) => None(Tail(q), Gifts(s))
           /\ Head(q) \in Requests(s) => None(Tail(q), Normals(s)) /\ None(Tail(q), Requests(s))
<1>1. /\ Len(q) \in Nat \ {0} /\ DOMAIN q = 1..Len(q) /\ Tail(q) \in Seq(ToCoord) /\ Len(Tail(q)) = Len(q) - 1
      /\ Head(q) = q[1] /\ \A k \in 1..(Len(q) - 1) : Tail(q)[k] = q[k + 1]
  BY HeadAndTail
<1>2. ASSUME Head(q) \in Ends(s) \cup Requests(s), NEW k \in DOMAIN Tail(q), Tail(q)[k] \in Gifts(s) PROVE FALSE
  <2>1. k \in 1..(Len(q) - 1) /\ k + 1 \in DOMAIN q /\ 1 \in DOMAIN q /\ ~(k + 1 < 1)
    BY <1>1
  <2> QED
    BY <1>1, <1>2, <2>1 DEF Line
<1>3. Head(q) \in Requests(s) => None(q, Normals(s))
  BY ShorterQueue DEF Line
<1>4. None(q, Normals(s)) => None(Tail(q), Normals(s))
  BY ShorterQueue
<1>5. Head(q) \in Requests(s) => None(Tail(q), Requests(s))
  BY ShorterQueue DEF Line
<1>6. Head(q) \in Ends(s) \cup Requests(s) => None(Tail(q), Gifts(s))
  BY <1>2 DEF None
<1> QED
  BY <1>3, <1>4, <1>5, <1>6

\* A message that brings no node and dismisses no solver with leaves left.
LEMMA PartMailed ==
    ASSUME NEW c, NEW q, NEW v, NEW r \in Seq(ToSolver), NEW s, NEW m \in ToSolver, m \notin NewNodes,
           m.tag = "TerminateRequest" => \A l \in Leaves : Solved(c, l),
           Part(c, q, v, r, s)
    PROVE  Part(c, q, v, Append(r, m), s)
<1> DEFINE z == Append(r, m)
<1>1. /\ DOMAIN z = 1..(Len(r) + 1) /\ DOMAIN r = 1..Len(r) /\ Len(r) \in Nat
      /\ \A k \in DOMAIN r : z[k] = r[k]
      /\ z[Len(r) + 1] = m
  OBVIOUS
<1>2. \A k \in DOMAIN z : k \in DOMAIN r \/ z[k] = m
  BY <1>1
<1>3. None(z, NewNodes) => None(r, NewNodes)
  BY LongerQueue
<1> HIDE DEF z
<1>4. ASSUME Works(c, q, v, r, s) PROVE Works(c, q, v, z, s)
  <2>1. \A k \in DOMAIN z : z[k] \in NewNodes => Fits(c, z[k].val)
    BY <1>1, <1>2, <1>4 DEF Works
  <2>2. Dismissed(v, z) => \A l \in Leaves : Solved(c, l)
    BY <1>1, <1>2, <1>4 DEF Works, Dismissed
  <2> QED
    BY <1>3, <1>4, <2>1, <2>2 DEF Works
<1> QED
  BY <1>4 DEF Part, z

\* A node is sent to the solver: what it knows of its old one matters no more.
LEMMA WorksNode ==
    ASSUME NEW c \in CoordSet, NEW d \in CoordSet, d.inc <= c.inc, NEW q, NEW p,
           NEW v \in SolverSet, NEW r \in Seq(ToSolver), NEW s,
           NEW n \in NodeSet, Fits(d, n), Works(c, q, v, r, s)
    PROVE  Works(d, p, v, Append(r, NodeMsg(n)), s)
<1> DEFINE m == NodeMsg(n)
           z == Append(r, m)
<1>1. m \in ToSolver /\ m \in NewNodes /\ m.val = n /\ m.tag = "Node"
  BY NodeMsgIs
<1> HIDE DEF m
<1>2. /\ DOMAIN z = 1..(Len(r) + 1) /\ DOMAIN r = 1..Len(r) /\ Len(r) \in Nat
      /\ \A k \in DOMAIN r : z[k] = r[k]
      /\ z[Len(r) + 1] = m
  OBVIOUS
<1>3. \A k \in DOMAIN z : k \in DOMAIN r \/ z[k] = m
  BY <1>2
<1>4. ~None(z, NewNodes)
  BY <1>1, LongerQueue
<1> HIDE DEF z
<1>5. v.cur \in MaybeNode /\ v.new \in MaybeNode
  BY SolverFields
<1>6. \A k \in DOMAIN r : r[k] \in NewNodes => r[k].val \in MaybeNode
  BY DEF NewNodes, ToSolver, MaybeNode
<1>7. /\ Fits(d, v.cur) /\ Fits(d, v.new)
      /\ \A k \in DOMAIN r : r[k] \in NewNodes => Fits(d, r[k].val)
  BY <1>5, <1>6, FitsStill DEF Works
<1>8. \A k \in DOMAIN z : z[k] \in NewNodes => Fits(d, z[k].val)
  BY <1>1, <1>2, <1>3, <1>7
<1>9. Dismissed(v, z) => Dismissed(v, r)
  BY <1>1, <1>2, <1>3 DEF Dismissed
<1>10. Dismissed(v, z) => \A l \in Leaves : Solved(d, l)
  BY <1>9, SolvedStill DEF Works
<1>11. Works(d, p, v, z, s)
  BY <1>4, <1>7, <1>8, <1>10 DEF Works
<1> QED
  BY <1>11 DEF z, m

\* Messages of s that are not about its node, or of others.
Quiet(p, s) == None(p, Gifts(s)) /\ None(p, Requests(s)) /\ None(p, Ends(s))

\* What holds of the queue still does with messages at its end that are no matter of the node.
LEMMA LinePosted ==
    ASSUME NEW c, NEW q \in Seq(ToCoord), NEW p \in Seq(ToCoord), NEW s, Quiet(p, s), Line(c, q, s)
    PROVE  Line(c, q \o p, s)
<1> DEFINE z == q \o p
<1>1. /\ z \in Seq(ToCoord) /\ DOMAIN q = 1..Len(q) /\ DOMAIN p = 1..Len(p) /\ DOMAIN z = 1..(Len(q) + Len(p))
      /\ Len(q) \in Nat /\ Len(p) \in Nat
      /\ \A k \in DOMAIN q : z[k] = q[k]
      /\ \A k \in DOMAIN z : k > Len(q) => k - Len(q) \in DOMAIN p /\ z[k] = p[k - Len(q)]
  OBVIOUS
<1>2. ASSUME NEW k \in DOMAIN q, NEW l, Seen(c, q, k, s, l) PROVE Seen(c, z, k, s, l)
  <2>1. k \in Int /\ k <= k
    BY <1>1
  <2> QED
    BY <1>2, <2>1, SeenFurther
<1>3. \A m \in Normals(s) : m \in Ends(s)
  BY DEF Normals, Ends
<1>4. ASSUME NEW k \in DOMAIN z, z[k] \in Gifts(s) \cup Requests(s) \cup Ends(s)
      PROVE  k \in DOMAIN q /\ z[k] = q[k]
  <2>1. CASE k > Len(q)
    BY <1>1, <1>4, <2>1 DEF Quiet, None
  <2>2. CASE ~(k > Len(q))
    BY <1>1, <2>2
  <2> QED
    BY <2>1, <2>2
<1>5. None(p, Normals(s))
  BY <1>3 DEF Quiet, None
<1>6. /\ None(z, Requests(s)) \/ None(z, Normals(s))
      /\ None(z, Requests(s)) \/ Single(z, Requests(s))
  BY <1>5, JoinedQueue DEF Line, Quiet, One
<1> HIDE DEF z
<1>7. \A k \in DOMAIN z : z[k] \in Gifts(s) =>
          c.cur[s] # NoNode /\ \A l \in z[k].val.leaves : z[k].val.bound <= Value[l]
  BY <1>4 DEF Line
<1>8. \A j, k \in DOMAIN z : z[k] \in Gifts(s) /\ z[j] \in Ends(s) \cup Requests(s) => k < j
  BY <1>4 DEF Line
<1>9. \A k \in DOMAIN z : z[k] \in Requests(s) =>
          \A l \in c.cur[s].leaves : z[k].val <= Value[l] \/ Seen(c, z, k, s, l)
  BY <1>2, <1>4 DEF Line
<1>10. \A k \in DOMAIN z : z[k] \in Normals(s) => \A l \in c.cur[s].leaves : Seen(c, z, k, s, l)
  BY <1>2, <1>3, <1>4 DEF Line
<1>11. Line(c, z, s)
  BY <1>6, <1>7, <1>8, <1>9, <1>10 DEF Line
<1> QED
  BY <1>11 DEF z

\* What holds of a solver's work still does with any messages at the end of the queue.
LEMMA WorksPosted ==
    ASSUME NEW c, NEW q \in Seq(ToCoord), NEW p \in Seq(ToCoord), NEW s, NEW v, NEW r, Works(c, q, v, r, s)
    PROVE  Works(c, q \o p, v, r, s)
<1>1. /\ q \o p \in Seq(ToCoord) /\ Len(q) + 1 \in Int /\ Len(q \o p) + 1 \in Int
      /\ Len(q) + 1 <= Len(q \o p) + 1
  OBVIOUS
<1>2. \A l : Seen(c, q, Len(q) + 1, s, l) => Seen(c, q \o p, Len(q \o p) + 1, s, l)
  BY <1>1, SeenFurther
<1> QED
  BY <1>2 DEF Works

\* So does all that holds of a solver, with messages that are no matter of its node.
LEMMA PartPosted ==
    ASSUME NEW c, NEW q \in Seq(ToCoord), NEW p \in Seq(ToCoord), NEW s, NEW v, NEW r, Quiet(p, s),
           Part(c, q, v, r, s)
    PROVE  Part(c, q \o p, v, r, s)
BY LinePosted, WorksPosted DEF Part

-----------------------------------------------------------------------------
(* The load coordinator keeps the cover.                                   *)

Cover(c, b) == TreeOk(c) /\ \A s \in Solvers : Part(c, b[0], sv[s], b[s], s)
Fine(st) == Ok(st) /\ Cover(st.lc, st.box)

\* What a fine state is.
LEMMA FineIs ==
    ASSUME NEW st, Fine(st)
    PROVE  /\ Ok(st) /\ Cover(st.lc, st.box) /\ CoordOk(st.lc, st.box) /\ st.lc \in CoordSet
           /\ st = [lc |-> st.lc, box |-> st.box]
BY OkIs DEF Fine

\* A fine state put together.
LEMMA FineMade ==
    ASSUME NEW c, NEW b, Ok([lc |-> c, box |-> b]), Cover(c, b)
    PROVE  Fine([lc |-> c, box |-> b])
BY DEF Fine

\* What the type says of one solver.
LEMMA TypedParts ==
    ASSUME NEW c, NEW b, Typed(c, b), SvTyped, NEW s \in Solvers
    PROVE  /\ c \in CoordSet /\ c.cur[s] \in MaybeNode /\ sv[s] \in SolverSet
           /\ b[0] \in Seq(ToCoord) /\ b[s] \in Seq(ToSolver)
BY DEF Typed, SvTyped, CoordSet

\* The cover is kept by a coordinator that carries the nodes of all solvers on.
LEMMA CoverChanged ==
    ASSUME NEW c, NEW b, Typed(c, b), SvTyped, Cover(c, b), NEW d \in CoordSet, TreeOk(d),
           \A s \in Solvers : Carries(c, d, s)
    PROVE  Cover(d, b)
<1>1. ASSUME NEW s \in Solvers PROVE Part(d, b[0], sv[s], b[s], s)
  <2>1. c \in CoordSet /\ sv[s] \in SolverSet /\ b[s] \in Seq(ToSolver)
    BY TypedParts
  <2> QED
    BY <2>1, PartChanged DEF Cover
<1> QED
  BY <1>1 DEF Cover

\* Neither the pool nor the nodes at the solvers change.
LEMMA CoverFields ==
    ASSUME NEW c, NEW b, Typed(c, b), SvTyped, Cover(c, b), NEW d \in CoordSet,
           d.pool = c.pool, d.cur = c.cur, d.inc = c.inc
    PROVE  Cover(d, b)
<1>1. Nodes(d) = Nodes(c)
  BY DEF Nodes, Active
<1>2. c \in CoordSet /\ d.inc <= c.inc
  BY IncSame DEF Typed
<1>3. TreeOk(c)
  BY DEF Cover
<1>4. TreeOk(d)
  BY <1>1, <1>3 DEF TreeOk, Fits, Covers, Handed, Solved
<1>5. \A s \in Solvers : Carries(c, d, s)
  BY <1>1, <1>2 DEF Carries, Same, Handed
<1> QED
  BY <1>4, <1>5, CoverChanged

\* The cover is kept when a message without a node is sent.
LEMMA CoverMailed ==
    ASSUME NEW c, NEW b, Typed(c, b), SvTyped, Cover(c, b), NEW rs \in SUBSET Solvers,
           NEW m \in ToSolver, m \notin NewNodes,
           m.tag = "TerminateRequest" => \A l \in Leaves : Solved(c, l)
    PROVE  Cover(c, SentTo(b, rs, m))
<1> DEFINE z == SentTo(b, rs, m)
<1>2. Mailed(b, z, rs, m)
  BY SentToIs
<1> HIDE DEF z
<1>3. ASSUME NEW s \in Solvers PROVE Part(c, z[0], sv[s], z[s], s)
  <2>1. b[s] \in Seq(ToSolver) /\ Part(c, b[0], sv[s], b[s], s)
    BY TypedParts DEF Cover
  <2>2. CASE s \in rs
    <3>1. z[0] = b[0] /\ z[s] = Append(b[s], m)
      BY <1>2, <2>2 DEF Mailed
    <3>2. Part(c, b[0], sv[s], Append(b[s], m), s)
      BY <2>1, PartMailed
    <3> QED
      BY <3>1, <3>2
  <2>3. CASE s \notin rs
    BY <1>2, <2>1, <2>3 DEF Mailed
  <2> QED
    BY <2>2, <2>3
<1>4. Cover(c, z)
  BY <1>3 DEF Cover
<1> QED
  BY <1>4 DEF z

\* A node is sent to s, of which the queue holds no message about its node.
LEMMA CoverNode ==
    ASSUME NEW c, NEW b, Typed(c, b), SvTyped, Cover(c, b), NEW d \in CoordSet, TreeOk(d), d.inc <= c.inc,
           NEW s \in Solvers, \A t \in Solvers \ {s} : Carries(c, d, t),
           NEW n \in NodeSet, Fits(d, n), Line(d, b[0], s)
    PROVE  Cover(d, SentTo(b, {s}, NodeMsg(n)))
<1> DEFINE z == SentTo(b, {s}, NodeMsg(n))
<1>2. Mailed(b, z, {s}, NodeMsg(n))
  BY SentToIs
<1> HIDE DEF z
<1>3. ASSUME NEW t \in Solvers PROVE Part(d, z[0], sv[t], z[t], t)
  <2>1. c \in CoordSet /\ sv[t] \in SolverSet /\ b[t] \in Seq(ToSolver) /\ Part(c, b[0], sv[t], b[t], t)
    BY TypedParts DEF Cover
  <2>2. CASE t = s
    <3>1. z[0] = b[0] /\ z[s] = Append(b[s], NodeMsg(n))
      BY <1>2 DEF Mailed
    <3>2. Works(c, b[0], sv[s], b[s], s) => Works(d, b[0], sv[s], Append(b[s], NodeMsg(n)), s)
      BY <2>1, <2>2, WorksNode
    <3>3. Part(d, b[0], sv[s], Append(b[s], NodeMsg(n)), s)
      BY <2>1, <2>2, <3>2 DEF Part
    <3> QED
      BY <2>2, <3>1, <3>3
  <2>3. CASE t # s
    <3>1. z[0] = b[0] /\ z[t] = b[t]
      BY <1>2, <2>3 DEF Mailed
    <3>2. Part(d, b[0], sv[t], b[t], t)
      BY <2>1, <2>3, PartChanged
    <3> QED
      BY <3>1, <3>2
  <2> QED
    BY <2>2, <2>3
<1>4. Cover(d, z)
  BY <1>3 DEF Cover
<1> QED
  BY <1>4 DEF z

\* A solver without a node has sent nothing about one.
LEMMA IdleLine ==
    ASSUME NEW c, NEW q \in Seq(ToCoord), NEW s, c.cur[s] = NoNode, Order(c, q, s), Line(c, q, s), NEW d
    PROVE  Line(d, q, s)
<1>1. None(q, Requests(s)) /\ None(q, Ends(s))
  BY DEF Order, None
<1>2. \A m \in Normals(s) : m \in Ends(s)
  BY DEF Normals, Ends
<1>3. None(q, Gifts(s)) /\ None(q, Normals(s))
  BY <1>1, <1>2 DEF Line, None
<1> QED
  BY <1>1, <1>3, LineClean

\* sendParaNodesToIdleSolvers, one round.
LEMMA OneNodeSentFine ==
    ASSUME SvTyped, NEW st, Fine(st), NEW k
    PROVE  Fine(OneNodeSent(st, k))
<1> DEFINE idle == Solvers \ Active(st.lc)
<1>1. /\ st = [lc |-> st.lc, box |-> st.box] /\ CoordOk(st.lc, st.box) /\ st.lc \in CoordSet /\ Ok(st)
      /\ Cover(st.lc, st.box)
  BY FineIs
<1> DEFINE c == st.lc
           b == st.box
<1>2. c.pool \in Seq(NodeSet) /\ c.cur \in [Solvers -> MaybeNode] /\ TreeOk(c)
  BY <1>1, CoordFields DEF Cover
<1>3. Ok(OneNodeSent(st, k))
  BY <1>1, OneNodeSentOk
<1>4. CASE idle = {} \/ c.pool = <<>> \/ c.phase = "termination"
  BY <1>4 DEF OneNodeSent
<1>5. CASE ~(idle = {} \/ c.pool = <<>> \/ c.phase = "termination") /\ Head(c.pool).bound < c.inc
  <2>1. OneNodeSent(st, k) = Activated([st EXCEPT !.lc.pool = Tail(@)], Least(idle), Head(c.pool))
    BY <1>5 DEF OneNodeSent
  <2>2. Head(c.pool) \in NodeSet /\ Tail(c.pool) \in Seq(NodeSet) /\ c.pool # <<>>
    BY <1>2, <1>5, HeadAndTail
  <2>3. Least(idle) \in idle
    <3>1. idle \subseteq Nat /\ idle # {}
      BY <1>5, SolversFinite
    <3> QED
      BY <3>1, LeastIs
  <2>4. PICK s : s = Least(idle)
    BY Zenon
  <2>5. s \in Solvers /\ c.cur[s] = NoNode
    BY <2>3, <2>4 DEF Active
  <2>6. PICK e : e = NewPool(c, Tail(c.pool))
    BY Zenon
  <2>7. [st EXCEPT !.lc.pool = Tail(@)] = [lc |-> e, box |-> b]
    BY <1>1, <2>6, PoolSet, Zenon
  <2>8. e \in CoordSet /\ e.cur = c.cur /\ e.inc = c.inc /\ e.pool = Tail(c.pool)
    BY <1>1, <2>2, <2>6, PoolChanged
  <2>9. PICK d \in CoordSet : Sends(e, b, s, Head(c.pool), d)
    BY <2>2, <2>5, <2>8, ActivatedIs
  <2>10. /\ Activated([lc |-> e, box |-> b], s, Head(c.pool)) = [lc |-> d, box |-> SentTo(b, {s}, NodeMsg(Head(c.pool)))]
         /\ d.pool = Tail(c.pool) /\ d.cur[s] = Head(c.pool) /\ Only(c, d, s)
    BY <2>8, <2>9 DEF Sends, Only
  <2> HIDE DEF c, b, idle
  <2>11. TreeOk(d) /\ Fits(d, Head(c.pool)) /\ \A t \in Solvers \ {s} : Carries(c, d, t)
    <3>1. c \in CoordSet
      BY <1>1 DEF c
    <3> QED
      BY <1>2, <2>2, <2>5, <2>10, <3>1, SentTree
  <2>12. CoordOk(c, b) /\ Typed(c, b) /\ Cover(c, b) /\ c \in CoordSet /\ d.inc <= c.inc
    <3>1. CoordOk(c, b) /\ Typed(c, b) /\ Cover(c, b) /\ c \in CoordSet
      BY <1>1 DEF c, b, CoordOk
    <3>2. d.inc = c.inc
      BY <2>10 DEF Only
    <3> QED
      BY <3>1, <3>2, IncSame
  <2>13. Line(d, b[0], s)
    <3>1. Order(c, b[0], s) /\ b[0] \in Seq(ToCoord)
      BY <2>5, <2>12, CoordParts
    <3>2. Line(c, b[0], s)
      BY <2>5, <2>12 DEF Cover, Part
    <3> QED
      BY <2>5, <3>1, <3>2, IdleLine
  <2>14. Cover(d, SentTo(b, {s}, NodeMsg(Head(c.pool))))
    BY <2>2, <2>5, <2>11, <2>12, <2>13, CoverNode
  <2>15. OneNodeSent(st, k) = [lc |-> d, box |-> SentTo(b, {s}, NodeMsg(Head(c.pool)))]
    BY <2>1, <2>4, <2>7, <2>10
  <2> QED
    BY <1>3, <2>14, <2>15, FineMade
<1>6. CASE ~(idle = {} \/ c.pool = <<>> \/ c.phase = "termination") /\ ~(Head(c.pool).bound < c.inc)
  <2>1. OneNodeSent(st, k) = [st EXCEPT !.lc = DeletedBehind(c, 0)]
    BY <1>6 DEF OneNodeSent
  <2>2. [st EXCEPT !.lc = DeletedBehind(c, 0)] = [lc |-> DeletedBehind(c, 0), box |-> b]
    BY <1>1
  <2>3. Hopeless(c, 0) /\ 0 \in 0..Len(c.pool)
    BY <1>1, <1>2, <1>6, HeadHopeless
  <2>4. DeletedBehind(c, 0) \in CoordSet /\ TreeOk(DeletedBehind(c, 0)) /\ \A s \in Solvers : Carries(c, DeletedBehind(c, 0), s)
    BY <1>1, <1>2, <2>3, BehindTree
  <2>5. Cover(DeletedBehind(c, 0), b)
    BY <1>1, <2>4, CoverChanged DEF CoordOk
  <2> QED
    BY <1>3, <2>1, <2>2, <2>5, FineMade
<1> QED
  BY <1>1, <1>4, <1>5, <1>6

\* sendParaNodesToIdleSolvers.
LEMMA NodesSentFine ==
    ASSUME SvTyped, NEW st, Fine(st)
    PROVE  Fine(NodesSent(st))
<1> DEFINE A == {e \in OkStates : Fine(e)}
<1>1. st \in A
  BY FineIs, OkIs
<1>2. \A e \in A, x \in Nat : OneNodeSent(e, x) \in A
  BY OneNodeSentFine, FineIs, OkIs
<1> HIDE DEF A
<1>3. NodesSent(st) \in A
  BY <1>1, <1>2, NodesSentKeeps
<1> QED
  BY <1>3 DEF A

\* The same, of the parts.
LEMMA OkMeans ==
    ASSUME NEW c, NEW b, Ok([lc |-> c, box |-> b])
    PROVE  CoordOk(c, b)
<1>1. \A st : Ok(st) => CoordOk(st.lc, st.box)
  BY OkIs
<1> QED
  BY <1>1

\* The first message of the load coordinator's queue is handled; s is its sender.
LEMMA CoverPoppedOne ==
    ASSUME NEW c, NEW b, Typed(c, b), SvTyped, Cover(c, b), b[0] # <<>>, NEW d \in CoordSet, TreeOk(d),
           NEW s, \A t \in Solvers \ {s} : Carries(c, d, t) /\ Hears(d, Head(b[0]), t),
           s \in Solvers => Part(d, Tail(b[0]), sv[s], b[s], s)
    PROVE  Cover(d, Popped(b))
<1>1. Popped(b)[0] = Tail(b[0]) /\ \A t \in Solvers : Popped(b)[t] = b[t]
  BY PoppedIs
<1>2. ASSUME NEW t \in Solvers PROVE Part(d, Tail(b[0]), sv[t], b[t], t)
  <2>1. CASE t = s
    BY <2>1
  <2>2. CASE t # s
    <3>1. c \in CoordSet /\ sv[t] \in SolverSet /\ b[0] \in Seq(ToCoord) /\ b[t] \in Seq(ToSolver)
      BY TypedParts
    <3>2. Carries(c, d, t) /\ Hears(d, Head(b[0]), t) /\ Part(c, b[0], sv[t], b[t], t)
      BY <2>2 DEF Cover
    <3> QED
      BY <3>1, <3>2, PartPopped
  <2> QED
    BY <2>1, <2>2
<1> QED
  BY <1>1, <1>2 DEF Cover

\* No solver loses anything by it.
LEMMA CoverPopped ==
    ASSUME NEW c, NEW b, Typed(c, b), SvTyped, Cover(c, b), b[0] # <<>>, NEW d \in CoordSet, TreeOk(d),
           \A t \in Solvers : Carries(c, d, t) /\ Hears(d, Head(b[0]), t)
    PROVE  Cover(d, Popped(b))
<1>1. 0 \notin Solvers
  BY SolversFinite
<1> QED
  BY <1>1, CoverPoppedOne

\* A message that is neither a solution nor a part of a node says nothing new.
LEMMA HearsNothing ==
    ASSUME NEW d, NEW m, m.tag \notin {"Solution", "Node"}, NEW s
    PROVE  Hears(d, m, s)
BY DEF Hears, Gifts

\* A message from another solver is no part of the node of s.
LEMMA HearsOthers ==
    ASSUME NEW d, NEW m, m.tag # "Solution", NEW s, m.src # s
    PROVE  Hears(d, m, s)
BY DEF Hears, Gifts

\* What is popped without a change of the nodes.
LEMMA CoverQuiet ==
    ASSUME NEW c, NEW b, Typed(c, b), SvTyped, Cover(c, b), b[0] # <<>>, Head(b[0]).tag \notin {"Solution", "Node"}
    PROVE  Cover(c, Popped(b)) /\ Typed(c, Popped(b))
<1>1. c \in CoordSet /\ TreeOk(c)
  BY DEF Typed, Cover
<1>2. \A t \in Solvers : Carries(c, c, t) /\ Hears(c, Head(b[0]), t)
  BY <1>1, CarriesSame, HearsNothing
<1>3. Typed(c, Popped(b))
  BY PoppedIs
<1> QED
  BY <1>1, <1>2, <1>3, CoverPopped

\* The messages that tell neither a node nor the end.
LEMMA NewsIs ==
    ASSUME NEW x \in Vals
    PROVE  /\ \A tag \in {"NodeReceived", "RampUp", "InterruptRequest", "TerminateRequest", "NoNodes", "NotificationId"} :
                 LET m == Msg(tag, 0, 0) IN m \in ToSolver /\ m \notin NewNodes /\ m.tag = tag
           /\ \A tag \in {"Solution", "IncumbentValue"} :
                 LET m == Msg(tag, 0, x) IN m \in ToSolver /\ m \notin NewNodes /\ m.tag = tag
BY DEF Msg, ToSolver, NewNodes

\* The queues are such after a message is sent.
LEMMA SentKeepsType ==
    ASSUME NEW c \in CoordSet, NEW b, Typed(c, b), NEW rs \in SUBSET Solvers, NEW m \in ToSolver
    PROVE  Typed(c, SentTo(b, rs, m))
<1> DEFINE z == SentTo(b, rs, m)
<1>1. Mailed(b, z, rs, m)
  BY SentToIs
<1> HIDE DEF z
<1>2. Table(z) /\ z[0] \in Seq(ToCoord)
  BY <1>1 DEF Mailed, Typed
<1>3. ASSUME NEW s \in Solvers PROVE z[s] \in Seq(ToSolver)
  <2>1. b[s] \in Seq(ToSolver) /\ (z[s] = Append(b[s], m) \/ z[s] = b[s])
    BY <1>1 DEF Mailed, Typed
  <2>2. Append(b[s], m) \in Seq(ToSolver)
    BY <2>1
  <2> QED
    BY <2>1, <2>2, Zenon
<1>4. Typed(c, z)
  BY <1>2, <1>3, SentTyped
<1> QED
  BY <1>4 DEF z

\* Such messages are sent.
LEMMA FineMailed ==
    ASSUME SvTyped, NEW st, Fine(st), NEW rs \in SUBSET Solvers,
           NEW tag \in {"NodeReceived", "RampUp", "InterruptRequest", "TerminateRequest"},
           tag = "TerminateRequest" => \A l \in Leaves : Solved(st.lc, l)
    PROVE  /\ Fine(ToSolvers(st, rs, tag, 0))
           /\ ToSolvers(st, rs, tag, 0) = [lc |-> st.lc, box |-> SentTo(st.box, rs, Msg(tag, 0, 0))]
<1>1. Ok(st) /\ Cover(st.lc, st.box) /\ Typed(st.lc, st.box)
  BY FineIs DEF CoordOk
<1>2. Plain(Msg(tag, 0, 0), st.lc)
  BY PlainIs
<1>3. /\ Ok(ToSolvers(st, rs, tag, 0))
      /\ ToSolvers(st, rs, tag, 0) = [lc |-> st.lc, box |-> SentTo(st.box, rs, Msg(tag, 0, 0))]
  BY <1>1, <1>2, MailedOk
<1>4. Msg(tag, 0, 0) \in ToSolver /\ Msg(tag, 0, 0) \notin NewNodes /\ Msg(tag, 0, 0).tag = tag
  BY ValsIs, NewsIs
<1>5. Cover(st.lc, SentTo(st.box, rs, Msg(tag, 0, 0)))
  BY <1>1, <1>4, CoverMailed
<1> QED
  BY <1>3, <1>5, FineMade

\* processTagNode: what the sender has given away is from now on handed on by its
\* node, or its bound says that it is solved.
LEMMA NodeTakenFine ==
    ASSUME NEW c, NEW b, CoordOk(c, b), SvTyped, Cover(c, b), b[0] # <<>>, Head(b[0]).tag = "Node"
    PROVE  Fine(NodeTaken([lc |-> c, box |-> Popped(b)], Head(b[0])))
<1> DEFINE m == Head(b[0])
           s == m.src
           n == Grafted(c, m)
           st == [lc |-> c, box |-> Popped(b)]
           d == NewPool(c, Inserted(c.pool, n))
           more == [lc |-> d, box |-> Popped(b)]
<1>1. Typed(c, b) /\ c \in CoordSet /\ TreeOk(c)
  BY DEF CoordOk, Typed, Cover
<1>2. m \in ToCoord /\ b[0] \in Seq(ToCoord)
  BY <1>1, PoppedIs
<1>3. /\ n \in NodeSet /\ (\A x \in Nodes(c) : x.id # n.id) /\ n.leaves = m.val.leaves /\ n.bound = m.val.bound
      /\ n.anc = c.cur[s].id /\ s \in Solvers /\ Inserted(c.pool, n) \in Seq(NodeSet)
  BY <1>1, <1>2, GraftedIs
<1>4. m \in Gifts(s)
  BY <1>2 DEF Gifts
<1>5. \A l \in m.val.leaves : m.val.bound <= Value[l]
  <2>1. Line(c, b[0], s)
    BY <1>3 DEF Cover, Part
  <2>2. 1 \in DOMAIN b[0] /\ m = b[0][1]
    BY <1>2
  <2> QED
    BY <1>4, <2>1, <2>2 DEF Line
<1>6. CoordOk(c, Popped(b))
  BY SilentPopped
<1>7. /\ m.val.bound < c.inc => NodeTaken(st, m) = ToSolvers(NodesSent(more), {s}, "NodeReceived", 0)
      /\ ~(m.val.bound < c.inc) => NodeTaken(st, m) = ToSolvers(st, {s}, "NodeReceived", 0)
  BY NodeTakenIs, Zenon
<1>8. \A t \in Solvers \ {s} : \A e : Hears(e, m, t)
  BY HearsOthers
<1> HIDE DEF n, m
<1>9. Fine(more)
  <2>1. Fits(c, n)
    BY <1>3, <1>5 DEF Fits
  <2>2. TreeOk(d) /\ n \in Nodes(d) /\ \A t \in Solvers : Carries(c, d, t)
    BY <1>1, <1>3, <2>1, InsertedTree
  <2>3. d \in CoordSet /\ Alike(c, d) /\ d.cur = c.cur
    BY <1>1, <1>3, PoolChanged
  <2> HIDE DEF d
  <2>4. Hears(d, m, s)
    <3>1. \A l \in m.val.leaves : Handed(d, d.cur[s].id, l)
      BY <1>3, <2>2, <2>3 DEF Handed
    <3> QED
      BY <3>1 DEF Hears, m
  <2>5. Cover(d, Popped(b))
    BY <1>1, <1>8, <2>2, <2>3, <2>4, CoverPopped DEF m
  <2>6. CoordOk(d, Popped(b))
    BY <1>6, <2>3, CoordAlike
  <2>7. Ok(more)
    BY <2>6, OkMade
  <2> QED
    BY <2>5, <2>7, FineMade
<1>10. ~(m.val.bound < c.inc) => Fine(st)
  <2>1. ASSUME ~(m.val.bound < c.inc), NEW l \in m.val.leaves PROVE Solved(c, l)
    <3>1. l \in Leaves /\ m.val.bound \in Int /\ c.inc \in Int
      BY <1>1, <1>3, ValsIs DEF NodeSet, CoordSet
    <3>2. Value[l] \in Int
      BY <3>1, ValsIs
    <3> QED
      BY <1>5, <2>1, <3>1, <3>2 DEF Solved
  <2>2. ~(m.val.bound < c.inc) => Hears(c, m, s)
    BY <2>1 DEF Hears, m
  <2>3. ~(m.val.bound < c.inc) => Cover(c, Popped(b))
    BY <1>1, <1>8, <2>2, CarriesSame, CoverPopped DEF m
  <2>4. Ok(st)
    BY <1>6, OkMade
  <2> QED
    BY <2>3, <2>4, FineMade
<1> HIDE DEF st, more
<1>11. Fine(NodesSent(more))
  BY <1>9, NodesSentFine
<1>12. \A e : Fine(e) => Fine(ToSolvers(e, {s}, "NodeReceived", 0))
  BY <1>3, FineMailed
<1>13. Fine(NodeTaken(st, m))
  BY <1>7, <1>10, <1>11, <1>12, Zenon
<1> QED
  BY <1>13 DEF st, m

\* processTagSolution: what the better solution solves, it solves for all.
LEMMA SolutionTakenFine ==
    ASSUME NEW c, NEW b, CoordOk(c, b), SvTyped, Cover(c, b), b[0] # <<>>, Head(b[0]).tag = "Solution"
    PROVE  Fine(SolutionTaken([lc |-> c, box |-> Popped(b)], Head(b[0])))
<1> DEFINE m == Head(b[0])
           st == [lc |-> c, box |-> Popped(b)]
           w == Msg("IncumbentValue", 0, m.val)
           d == NewInc(c, m.val)
           p == Spread(Popped(b), m)
<1>1. Typed(c, b) /\ c \in CoordSet /\ TreeOk(c)
  BY DEF CoordOk, Typed, Cover
<1>2. m \in ToCoord
  BY <1>1, PoppedIs
<1>3. m.val \in Vals
  BY <1>2 DEF ToCoord
<1>4. c.inc \in Int /\ m.val \in Int
  BY <1>1, <1>3, ValsIs DEF CoordSet
<1>5. /\ ~(m.val < c.inc) => SolutionTaken(st, m) = st
      /\ m.val < c.inc => SolutionTaken(st, m) = [lc |-> Pruned(d), box |-> p]
  BY SolutionIgnoredIs, SolutionTakenIs, Zenon
<1>6. Ok(SolutionTaken(st, m))
  BY SolutionTakenOk
<1>7. \A e, t : e.inc <= m.val => Hears(e, m, t)
  BY DEF Hears, Gifts
<1>8. CASE ~(m.val < c.inc)
  <2>1. \A t \in Solvers : Carries(c, c, t) /\ Hears(c, m, t)
    BY <1>1, <1>4, <1>7, <1>8, CarriesSame
  <2>2. Cover(c, Popped(b))
    BY <1>1, <2>1, CoverPopped
  <2>3. Ok(st)
    BY <1>5, <1>6, <1>8, Zenon
  <2>4. Fine(st)
    BY <2>2, <2>3, FineMade
  <2> QED
    BY <1>5, <1>8, <2>4, Zenon
<1>9. CASE m.val < c.inc
  <2>1. d \in CoordSet /\ d.inc = m.val
    BY <1>1, <1>3, IncChanged
  <2>2. m.val <= c.inc /\ d.inc <= m.val
    BY <1>4, <1>9, <2>1
  <2>3. TreeOk(d) /\ \A t \in Solvers : Carries(c, d, t)
    BY <1>1, <1>3, <2>2, IncTree
  <2> HIDE DEF d
  <2>4. Cover(d, Popped(b))
    BY <1>1, <1>7, <2>1, <2>2, <2>3, CoverPopped
  <2>5. Typed(d, Popped(b))
    BY <1>1, <2>1, PoppedIs DEF Typed
  <2>6. w \in ToSolver /\ w \notin NewNodes /\ w.tag = "IncumbentValue"
    BY <1>3, NewsIs
  <2>7. Cover(d, p)
    BY <2>4, <2>5, <2>6, CoverMailed DEF Spread
  <2>8. Pruned(d) \in CoordSet /\ TreeOk(Pruned(d)) /\ \A t \in Solvers : Carries(d, Pruned(d), t)
    BY <2>1, <2>3, PrunedTree
  <2>9. CoordOk(Pruned(d), p)
    <3> HIDE DEF p
    <3>1. Ok([lc |-> Pruned(d), box |-> p])
      BY <1>5, <1>6, <1>9, Zenon
    <3> QED
      BY <3>1, OkMeans
  <2>10. Typed(d, p)
    BY <2>1, <2>9 DEF CoordOk, Typed
  <2> HIDE DEF p
  <2>11. Cover(Pruned(d), p)
    BY <2>7, <2>8, <2>10, CoverChanged
  <2>12. Ok([lc |-> Pruned(d), box |-> p])
    BY <2>9, OkMade
  <2>13. Fine([lc |-> Pruned(d), box |-> p])
    BY <2>11, <2>12, FineMade
  <2> QED
    BY <1>5, <1>9, <2>13, Zenon
<1> QED
  BY <1>8, <1>9

\* processTagSolverState.
LEMMA StateTakenFine ==
    ASSUME NEW c, NEW b, CoordOk(c, b), SvTyped, Cover(c, b), b[0] # <<>>, Head(b[0]).tag = "SolverState"
    PROVE  Fine(StateTaken([lc |-> c, box |-> Popped(b)], Head(b[0])))
<1> DEFINE m == Head(b[0])
           s == m.src
           st == [lc |-> c, box |-> Popped(b)]
           e == Answering(c, m)
           w == Msg("Solution", 0, c.inc)
           a == Msg("NotificationId", 0, 0)
           y == Informed(c, Popped(b), m)
<1>1. Typed(c, b) /\ c \in CoordSet
  BY DEF CoordOk, Typed
<1>2. m \in ToCoord
  BY <1>1, PoppedIs
<1>3. {s} \in SUBSET Solvers /\ s \in Solvers /\ m.val \in [bound : Nat, best : Vals]
  BY <1>2 DEF ToCoord
<1>4. e \in CoordSet /\ e.inc = c.inc /\ e.pool = c.pool /\ e.cur = c.cur
  <2>1. Most(c.sbound[s], m.val.bound) \in Nat
    BY <1>1, <1>3, CoordFields DEF Most
  <2>2. e \in CoordSet /\ e.inc = c.inc
    BY <1>1, <2>1, BoundChanged DEF Answering
  <2>3. e.pool = c.pool /\ e.cur = c.cur
    BY <1>1 DEF Answering, NewBound, CoordSet
  <2> QED
    BY <2>2, <2>3
<1>5. Cover(c, Popped(b)) /\ Typed(c, Popped(b))
  BY <1>1, CoverQuiet
<1>6. w \in ToSolver /\ w \notin NewNodes /\ w.tag = "Solution"
  BY <1>1, NewsIs DEF CoordSet
<1>7. a \in ToSolver /\ a \notin NewNodes /\ a.tag = "NotificationId"
  BY ValsIs, NewsIs
<1>8. Ok(StateTaken(st, m))
  BY StateTakenOk
<1>9. StateTaken(st, m) = [lc |-> e, box |-> SentTo(y, {s}, a)]
  BY <1>1, StateTakenIs, Zenon
<1>10. CoordOk(e, SentTo(y, {s}, a))
  <2> HIDE DEF e, y, st
  <2>1. Ok([lc |-> e, box |-> SentTo(y, {s}, a)])
    BY <1>8, <1>9, Zenon
  <2> QED
    BY <2>1, OkMeans
<1>11. Cover(c, y) /\ Typed(c, y)
  <2>1. Cover(c, SentTo(Popped(b), {s}, w))
    BY <1>3, <1>5, <1>6, CoverMailed
  <2>2. Typed(c, SentTo(Popped(b), {s}, w))
    BY <1>1, <1>3, <1>5, <1>6, SentKeepsType
  <2> QED
    BY <1>5, <2>1, <2>2 DEF Informed
<1> HIDE DEF y, a, w, e, m
<1>12. Cover(c, SentTo(y, {s}, a))
  BY <1>3, <1>7, <1>11, CoverMailed
<1>13. Typed(c, SentTo(y, {s}, a))
  BY <1>1, <1>10 DEF CoordOk, Typed
<1>14. Cover(e, SentTo(y, {s}, a))
  BY <1>4, <1>12, <1>13, CoverFields
<1>15. Fine([lc |-> e, box |-> SentTo(y, {s}, a)])
  BY <1>10, <1>14, OkMade, FineMade
<1> HIDE DEF st
<1>16. Fine(StateTaken(st, m))
  BY <1>9, <1>15, Zenon
<1> QED
  BY <1>16 DEF st, m

\* processTagTerminated.
LEMMA SolverTerminatedFine ==
    ASSUME NEW c, NEW b, CoordOk(c, b), SvTyped, Cover(c, b), b[0] # <<>>, Head(b[0]).tag = "Terminated"
    PROVE  Fine(SolverTerminated([lc |-> c, box |-> Popped(b)], Head(b[0])))
<1> DEFINE d == Counted(c, Head(b[0]))
           got == SolverTerminated([lc |-> c, box |-> Popped(b)], Head(b[0]))
<1>1. Typed(c, b) /\ c \in CoordSet
  BY DEF CoordOk, Typed
<1>2. /\ got = [lc |-> d, box |-> Popped(b)]
      /\ d \in CoordSet /\ d.pool = c.pool /\ d.cur = c.cur /\ d.inc = c.inc
  BY <1>1, SolverTerminatedIs, Zenon
<1>3. Ok(got)
  BY SolverTerminatedOk
<1>4. Cover(c, Popped(b)) /\ Typed(c, Popped(b))
  BY <1>1, CoverQuiet
<1> HIDE DEF d, got
<1>5. Cover(d, Popped(b))
  BY <1>2, <1>4, CoverFields
<1>6. Fine([lc |-> d, box |-> Popped(b)])
  BY <1>2, <1>3, <1>5, FineMade
<1> QED
  BY <1>2, <1>6 DEF got

\* What an idle solver knows stays, whatever is taken of its queue.
LEMMA WorksIdle ==
    ASSUME NEW c \in CoordSet, NEW d \in CoordSet, d.inc <= c.inc, NEW q, NEW p, NEW v \in SolverSet,
           v.pc = "idle", NEW r \in Seq(ToSolver), NEW s, Works(c, q, v, r, s)
    PROVE  Works(d, p, v, r, s) /\ Awaits(v)
<1>1. v.cur \in MaybeNode /\ v.new \in MaybeNode
  BY SolverFields
<1>2. \A k \in DOMAIN r : r[k] \in NewNodes => r[k].val \in MaybeNode
  BY DEF NewNodes, ToSolver, MaybeNode
<1>3. /\ Fits(d, v.cur) /\ Fits(d, v.new)
      /\ \A k \in DOMAIN r : r[k] \in NewNodes => Fits(d, r[k].val)
  BY <1>1, <1>2, FitsStill DEF Works
<1>4. Dismissed(v, r) => \A l \in Leaves : Solved(d, l)
  BY SolvedStill DEF Works
<1> QED
  BY <1>3, <1>4 DEF Works, Awaits

\* A solver the end of whose node is in the queue is idle.
LEMMA EndedIdle ==
    ASSUME NEW c, NEW q \in Seq(ToCoord), q # <<>>, NEW v, NEW r, NEW s, SolverOk(c, q, v, r, s), ~Gone(v),
           Head(q) \in Ends(s)
    PROVE  v.pc = "idle"
<1>1. ~None(q, Ends(s))
  BY ShorterQueue
<1> QED
  BY <1>1 DEF SolverOk, PcOk, Talks, Waits

\* The tree after the end of the node of s is taken.
LEMMA ConcludedTree ==
    ASSUME NEW c \in CoordSet, TreeOk(c), NEW s \in Solvers, c.cur[s] # NoNode, NEW val \in {"normal", "interrupt"},
           val = "normal" => \A l \in c.cur[s].leaves : Solved(c, l) \/ Handed(c, c.cur[s].id, l)
    PROVE  LET d == Concluded(c, s, val) IN
           d \in CoordSet /\ TreeOk(d) /\ d.inc = c.inc /\ \A t \in Solvers \ {s} : Carries(c, d, t)
<1> DEFINE d == Concluded(c, s, val)
           x == c.cur[s]
<1>1. CASE val = "normal"
  <2>1. d = Freed(OutOf(c, s), x)
    BY <1>1 DEF Concluded
  <2> QED
    BY <1>1, <2>1, SolvedTree
<1>2. CASE val = "interrupt"
  <2>1. d = NewPool(OutOf(c, s), Inserted(c.pool, x))
    BY <1>2 DEF Concluded
  <2>2. /\ OutOf(c, s) \in CoordSet /\ OutOf(c, s).inc = c.inc /\ OutOf(c, s).cur[s] = NoNode
        /\ \A r \in Solvers \ {s} : OutOf(c, s).cur[r] = c.cur[r]
    BY OutIs
  <2>3. x \in NodeSet
    BY CoordFields, NodeTypes
  <2>4. Inserted(c.pool, x) \in Seq(NodeSet)
    BY <2>3, CoordFields, InsertedIs
  <2> HIDE DEF x
  <2>5. d \in CoordSet /\ d.cur = OutOf(c, s).cur /\ d.inc = c.inc /\ d.pool = Inserted(c.pool, x)
    BY <2>1, <2>2, <2>4, PoolChanged
  <2> HIDE DEF d
  <2>6. d.cur[s] = NoNode /\ Only(c, d, s)
    BY <2>2, <2>5 DEF Only
  <2>7. TreeOk(d) /\ \A t \in Solvers \ {s} : Carries(c, d, t)
    BY <2>5, <2>6, ReturnedTree DEF x
  <2> QED
    BY <2>5, <2>7 DEF d
<1> QED
  BY <1>1, <1>2

\* The completion is taken, before nodes are sent.
LEMMA ConcludedCover ==
    ASSUME NEW c, NEW b, CoordOk(c, b), SvTyped, Cover(c, b), b[0] # <<>>, Head(b[0]).tag = "Completion"
    PROVE  Cover(Concluded(c, Head(b[0]).src, Head(b[0]).val), Popped(b))
<1> DEFINE m == Head(b[0])
           q == b[0]
           s == m.src
           d == Concluded(c, m.src, m.val)
<1>1. Typed(c, b) /\ c \in CoordSet /\ TreeOk(c)
  BY DEF CoordOk, Typed, Cover
<1>2. m \in ToCoord /\ q \in Seq(ToCoord)
  BY <1>1, PoppedIs
<1>3. s \in Solvers /\ m.val \in {"normal", "another", "interrupt"}
  BY <1>2 DEF ToCoord
<1>4. CASE m.val = "another"
  <2>1. d = c
    BY <1>4 DEF Concluded
  <2>2. Cover(c, Popped(b))
    BY <1>1, CoverQuiet
  <2> QED
    BY <2>1, <2>2
<1>5. CASE m.val # "another"
  <2>1. m \in Ends(s) /\ m.tag = "Completion"
    BY <1>2, <1>5, SilentTags
  <2>2. /\ sv[s] \in SolverSet /\ b[s] \in Seq(ToSolver)
        /\ Order(c, q, s) /\ SolverOk(c, q, sv[s], b[s], s)
    BY <1>3, CoordParts
  <2>3. Line(c, q, s) /\ (~Gone(sv[s]) => Works(c, q, sv[s], b[s], s))
    BY <1>3 DEF Cover, Part
  <2>4. c.cur[s] # NoNode /\ None(Tail(q), Ends(s)) /\ None(Tail(q), Requests(s))
    BY <1>2, <2>1, <2>2, OrderShrinks
  <2>5. None(Tail(q), Gifts(s))
    BY <1>2, <2>1, <2>3, NothingBehind
  <2>6. None(Tail(q), Normals(s))
    BY <2>4 DEF None, Normals, Ends
  <2>7. m.val = "normal" => \A l \in c.cur[s].leaves : Solved(c, l) \/ Handed(c, c.cur[s].id, l)
    <3>1. 1 \in DOMAIN q /\ q[1] = m /\ DOMAIN q \subseteq Nat \ {0}
      BY <1>2
    <3>2. m.val = "normal" => q[1] \in Normals(s)
      BY <1>2, <2>1, <3>1 DEF Normals
    <3>3. m.val = "normal" => \A l \in c.cur[s].leaves : Seen(c, q, 1, s, l)
      BY <2>3, <3>1, <3>2 DEF Line
    <3>4. \A l : ~Brings(q, 1, s, l)
      BY <3>1 DEF Brings
    <3> QED
      BY <3>3, <3>4 DEF Seen
  <2>8. m.val \in {"normal", "interrupt"}
    BY <1>3, <1>5
  <2> HIDE DEF m, q
  <2>9. d \in CoordSet /\ TreeOk(d) /\ d.inc = c.inc /\ \A t \in Solvers \ {s} : Carries(c, d, t)
    BY <1>1, <1>3, <2>4, <2>7, <2>8, ConcludedTree
  <2> HIDE DEF d
  <2>10. \A t : Hears(d, m, t)
    BY <2>1, HearsNothing
  <2>11. Line(d, Tail(q), s)
    BY <2>4, <2>5, <2>6, LineClean
  <2>12. ~Gone(sv[s]) => Works(d, Tail(q), sv[s], b[s], s) /\ Awaits(sv[s])
    <3>1. d.inc <= c.inc
      BY <1>1, <2>9, IncSame
    <3>2. ~Gone(sv[s]) => sv[s].pc = "idle"
      BY <1>2, <2>1, <2>2, EndedIdle DEF m, q
    <3> QED
      BY <1>1, <2>2, <2>3, <2>9, <3>1, <3>2, WorksIdle
  <2>13. Part(d, Tail(q), sv[s], b[s], s)
    BY <2>11, <2>12 DEF Part
  <2>14. Cover(d, Popped(b))
    BY <1>1, <2>9, <2>10, <2>13, CoverPoppedOne DEF m, q
  <2> QED
    BY <2>14 DEF d, m
<1> QED
  BY <1>4, <1>5

\* processTagCompletionOfCalculation.
LEMMA CompletedFine ==
    ASSUME NEW c, NEW b, CoordOk(c, b), SvTyped, Cover(c, b), b[0] # <<>>, Head(b[0]).tag = "Completion"
    PROVE  Fine(Completed([lc |-> c, box |-> Popped(b)], Head(b[0])))
<1> DEFINE m == Head(b[0])
           d == Concluded(c, m.src, m.val)
<1>1. c \in CoordSet
  BY DEF CoordOk, Typed
<1>2. CoordOk(d, Popped(b)) /\ Cover(d, Popped(b))
  BY ConcludedOk, ConcludedCover
<1>3. Completed([lc |-> c, box |-> Popped(b)], m) = NodesSent([lc |-> d, box |-> Popped(b)])
  BY <1>1, CompletedIs, Zenon
<1> HIDE DEF d
<1>4. Fine([lc |-> d, box |-> Popped(b)])
  BY <1>2, OkMade, FineMade
<1>5. Fine(NodesSent([lc |-> d, box |-> Popped(b)]))
  BY <1>4, NodesSentFine
<1> QED
  BY <1>3, <1>5

\* A request is refused, after the change of c to d.
LEMMA RefusedFine ==
    ASSUME NEW c, NEW b, CoordOk(c, b), SvTyped, Cover(c, b), b[0] # <<>>, NEW s \in Solvers,
           Head(b[0]) \in Requests(s), NEW d \in CoordSet, TreeOk(d), Alike(c, d), \A t \in Solvers : Carries(c, d, t)
    PROVE  Fine([lc |-> d, box |-> SentTo(Popped(b), {s}, Refusal)])
<1>1. Typed(c, b)
  BY DEF CoordOk
<1>2. Head(b[0]).tag = "AnotherNodeRequest"
  BY DEF Requests
<1>3. Cover(d, Popped(b))
  BY <1>1, <1>2, HearsNothing, CoverPopped
<1>4. Typed(d, Popped(b))
  BY <1>1, PoppedIs DEF Typed
<1>5. Refusal \in ToSolver /\ Refusal \notin NewNodes /\ Refusal.tag = "NoNodes"
  BY ValsIs, NewsIs DEF Refusal
<1>6. Cover(d, SentTo(Popped(b), {s}, Refusal))
  BY <1>3, <1>4, <1>5, CoverMailed
<1>7. CoordOk(d, SentTo(Popped(b), {s}, Refusal))
  BY Refused DEF Refusal
<1> QED
  BY <1>6, <1>7, OkMade, FineMade

\* The node of the sender is exchanged: it has nothing given away that is unsolved,
\* so that the bound it comes with fits all of it.
LEMMA ExchangedFine ==
    ASSUME NEW c, NEW b, CoordOk(c, b), SvTyped, Cover(c, b), b[0] # <<>>, NEW s \in Solvers,
           Head(b[0]) \in Requests(s), MayReplace(c, s), NEW z,
           z = Inserted(Tail(c.pool), Bounded(c.cur[s], Head(b[0]).val))
    PROVE  Fine(Activated([lc |-> NewPool(c, z), box |-> Popped(b)], s, Head(c.pool)))
<1> DEFINE m == Head(b[0])
           q == b[0]
           x == Bounded(c.cur[s], m.val)
           top == Head(c.pool)
           e == NewPool(c, z)
<1>1. Typed(c, b) /\ c \in CoordSet /\ TreeOk(c)
  BY DEF CoordOk, Typed, Cover
<1>2. q \in Seq(ToCoord) /\ m.val \in Nat
  BY <1>1, PoppedIs DEF Requests, ToCoord
<1>3. c.cur[s] \in NodeSet /\ c.pool \in Seq(NodeSet) /\ c.pool # <<>>
  <2>1. Order(c, q, s) /\ c.cur[s] \in MaybeNode
    BY CoordParts
  <2>2. c.cur[s] # NoNode
    BY <1>2, <2>1, OrderShrinks
  <2> QED
    BY <1>1, <2>1, <2>2, NodeTypes, CoordFields DEF MayReplace
<1>4. Line(c, q, s)
  BY DEF Cover, Part
<1>5. Fits(c, x)
  <2>1. 1 \in DOMAIN q /\ q[1] = m /\ DOMAIN q \subseteq Nat \ {0}
    BY <1>2
  <2>2. \A l \in c.cur[s].leaves : m.val <= Value[l] \/ Seen(c, q, 1, s, l)
    BY <1>4, <2>1 DEF Line
  <2>3. \A l : ~Brings(q, 1, s, l)
    BY <2>1 DEF Brings
  <2>4. \A l : ~Handed(c, c.cur[s].id, l)
    BY DEF Handed, MayReplace
  <2>5. x.bound = m.val /\ x.leaves = c.cur[s].leaves
    BY <1>3 DEF Bounded, NodeSet
  <2> HIDE DEF m, q, x
  <2> QED
    BY <2>2, <2>3, <2>4, <2>5 DEF Seen, Fits
<1>6. x \in NodeSet
  BY <1>2, <1>3 DEF Bounded, NodeSet
<1>7. top \in NodeSet /\ Tail(c.pool) \in Seq(NodeSet)
  BY <1>3, HeadAndTail
<1>8. z \in Seq(NodeSet)
  <2> HIDE DEF x
  <2> QED
    BY <1>6, <1>7, InsertedIs DEF x
<1>9. e \in CoordSet /\ e.cur = c.cur /\ e.inc = c.inc /\ e.pool = z
  BY <1>1, <1>8, PoolChanged
<1> HIDE DEF e, top, m
<1>10. PICK d \in CoordSet : Sends(e, Popped(b), s, top, d)
  BY <1>7, <1>9, ActivatedIs
<1>11. /\ Activated([lc |-> e, box |-> Popped(b)], s, top) = [lc |-> d, box |-> SentTo(Popped(b), {s}, NodeMsg(top))]
       /\ d.inc = c.inc /\ d.cur[s] = top /\ d.pool = z /\ \A r \in Solvers \ {s} : d.cur[r] = c.cur[r]
  BY <1>9, <1>10 DEF Sends
<1>12. c.cur[s] # NoNode /\ Only(c, d, s) /\ d.inc <= c.inc
  BY <1>1, <1>3, <1>11, NodeTypes, IncSame DEF Only
<1>13. TreeOk(d) /\ Fits(d, top) /\ \A t \in Solvers \ {s} : Carries(c, d, t)
  BY <1>1, <1>2, <1>3, <1>5, <1>11, <1>12, ExchangedTree DEF top, m
<1>14. Cover(c, Popped(b)) /\ Typed(c, Popped(b)) /\ Popped(b)[0] = Tail(q)
  BY <1>1, CoverQuiet, PoppedIs DEF Requests
<1>15. Line(d, Tail(q), s)
  BY <1>2, <1>4, NothingBehind, LineClean
<1>16. Cover(d, SentTo(Popped(b), {s}, NodeMsg(top)))
  BY <1>7, <1>12, <1>13, <1>14, <1>15, CoverNode
<1>17. Ok(Activated([lc |-> e, box |-> Popped(b)], s, top))
  BY <1>7, <1>9, Granted
<1>18. Fine([lc |-> d, box |-> SentTo(Popped(b), {s}, NodeMsg(top))])
  BY <1>11, <1>16, <1>17, FineMade, Zenon
<1> QED
  BY <1>11, <1>18, Zenon DEF e, top

\* processTagAnotherNodeRequest, in any running phase.
LEMMA AnotherNodeRequestedFine ==
    ASSUME NEW c, NEW b, CoordOk(c, b), SvTyped, Cover(c, b), b[0] # <<>>, Head(b[0]).tag = "AnotherNodeRequest"
    PROVE  Fine(AnotherNodeRequested([lc |-> c, box |-> Popped(b)], Head(b[0])))
<1> DEFINE m == Head(b[0])
           s == m.src
           got == AnotherNodeRequested([lc |-> c, box |-> Popped(b)], m)
           out == SentTo(Popped(b), {s}, Refusal)
           top == Head(c.pool)
           p == Inserted(Tail(c.pool), top)
           z == Inserted(Tail(c.pool), Bounded(c.cur[s], m.val))
<1>1. Typed(c, b) /\ c \in CoordSet /\ TreeOk(c)
  BY DEF CoordOk, Typed, Cover
<1>2. m \in ToCoord
  BY <1>1, PoppedIs
<1>3. s \in Solvers /\ m \in Requests(s)
  BY <1>2, SilentTags
<1>4. ASSUME NEW d \in CoordSet, Alike(c, d), TreeOk(d), \A t \in Solvers : Carries(c, d, t)
      PROVE  Fine([lc |-> d, box |-> out])
  BY <1>3, <1>4, RefusedFine
<1>5. /\ ~MayReplace(c, s) => got = [lc |-> c, box |-> out]
      /\ MayReplace(c, s) /\ top.bound >= c.inc => got = [lc |-> DeletedBehind(c, 0), box |-> out]
      /\ MayReplace(c, s) /\ ~(top.bound >= c.inc) /\ c.sbound[s] <= top.bound
            => got = [lc |-> NewPool(c, p), box |-> out]
      /\ MayReplace(c, s) /\ ~(top.bound >= c.inc) /\ ~(c.sbound[s] <= top.bound)
            => got = Activated([lc |-> NewPool(c, z), box |-> Popped(b)], s, top)
  BY AnotherNodeRequestedIs, Zenon
<1>6. Fine([lc |-> c, box |-> out])
  BY <1>1, <1>4, CarriesSame DEF Alike, Same
<1>7. c.pool \in Seq(NodeSet) /\ c.inc \in Int
  BY <1>1, CoordFields, ValsIs
<1>8. MayReplace(c, s) => c.pool # <<>> /\ top \in NodeSet /\ Tail(c.pool) \in Seq(NodeSet)
  BY <1>7, HeadAndTail DEF MayReplace
<1>9. MayReplace(c, s) /\ top.bound >= c.inc => Fine([lc |-> DeletedBehind(c, 0), box |-> out])
  <2> SUFFICES ASSUME MayReplace(c, s), top.bound >= c.inc
               PROVE  Fine([lc |-> DeletedBehind(c, 0), box |-> out])
    OBVIOUS
  <2>1. ~(top.bound < c.inc)
    BY <1>7, <1>8 DEF NodeSet
  <2>2. Hopeless(c, 0) /\ 0 \in 0..Len(c.pool)
    BY <1>1, <1>8, <2>1, HeadHopeless
  <2>3. /\ DeletedBehind(c, 0) \in CoordSet /\ TreeOk(DeletedBehind(c, 0))
        /\ \A t \in Solvers : Carries(c, DeletedBehind(c, 0), t)
    BY <1>1, <2>2, BehindTree
  <2>4. Alike(c, DeletedBehind(c, 0))
    BY <1>1, <2>2, BehindIs
  <2> QED
    BY <1>4, <2>3, <2>4
<1>10. MayReplace(c, s) => Fine([lc |-> NewPool(c, p), box |-> out])
  <2>1. MayReplace(c, s) => TreeOk(NewPool(c, p)) /\ \A t \in Solvers : Carries(c, NewPool(c, p), t)
    BY <1>1, <1>8, RotatedTree
  <2>2. MayReplace(c, s) => NewPool(c, p) \in CoordSet /\ Alike(c, NewPool(c, p))
    BY <1>1, <1>8, InsertedIs, PoolChanged
  <2> QED
    BY <1>4, <2>1, <2>2
<1>11. MayReplace(c, s) => Fine(Activated([lc |-> NewPool(c, z), box |-> Popped(b)], s, top))
  BY <1>3, ExchangedFine
<1> HIDE DEF got, m, out, top, p, z
<1>12. Fine(got)
  BY <1>5, <1>6, <1>9, <1>10, <1>11, Zenon
<1> QED
  BY <1>12 DEF got, m

\* Every handler of the load coordinator.
LEMMA HandledFine ==
    ASSUME NEW c, NEW b, CoordOk(c, b), SvTyped, Cover(c, b), b[0] # <<>>
    PROVE  Fine(Handled([lc |-> c, box |-> Popped(b)], Head(b[0])))
<1> DEFINE st == [lc |-> c, box |-> Popped(b)]
           m == Head(b[0])
<1>1. m.tag \in {"Node", "Solution", "SolverState", "Completion", "AnotherNodeRequest", "Terminated"}
  <2>1. m \in ToCoord
    BY PoppedIs DEF CoordOk
  <2> QED
    BY <2>1 DEF ToCoord
<1>2. /\ m.tag = "Node" => Handled(st, m) = NodeTaken(st, m)
      /\ m.tag = "Solution" => Handled(st, m) = SolutionTaken(st, m)
      /\ m.tag = "SolverState" => Handled(st, m) = StateTaken(st, m)
      /\ m.tag = "Completion" => Handled(st, m) = Completed(st, m)
      /\ m.tag = "AnotherNodeRequest" => Handled(st, m) = AnotherNodeRequested(st, m)
      /\ m.tag = "Terminated" => Handled(st, m) = SolverTerminated(st, m)
  <2> HIDE DEF st, m
  <2> QED
    BY DEF Handled
<1>3. /\ m.tag = "Node" => Fine(NodeTaken(st, m))
      /\ m.tag = "Solution" => Fine(SolutionTaken(st, m))
      /\ m.tag = "SolverState" => Fine(StateTaken(st, m))
      /\ m.tag = "Completion" => Fine(Completed(st, m))
      /\ m.tag = "AnotherNodeRequest" => Fine(AnotherNodeRequested(st, m))
      /\ m.tag = "Terminated" => Fine(SolverTerminated(st, m))
  BY NodeTakenFine, SolutionTakenFine, StateTakenFine, CompletedFine, AnotherNodeRequestedFine,
     SolverTerminatedFine, Zenon
<1> HIDE DEF st, m
<1>4. Fine(Handled(st, m))
  BY <1>1, <1>2, <1>3
<1> QED
  BY <1>4 DEF st, m

-----------------------------------------------------------------------------
(* The load coordinator's own course.                                      *)

\* d goes on where c does.
Steady(c, d) == d.pc = c.pc /\ d.hard = c.hard

\* One step after the other.
LEMMA SteadyOn ==
    ASSUME NEW c, NEW d, NEW e, Steady(c, d), Steady(d, e)
    PROVE  Steady(c, e)
BY DEF Steady

\* What the operators on the load coordinator's record leave.
LEMMA SteadyFields ==
    ASSUME NEW c \in CoordSet
    PROVE  /\ \A p : Steady(c, NewPool(c, p))
           /\ \A x : Steady(c, NewInc(c, x))
           /\ \A s, x : Steady(c, NewBound(c, s, x))
           /\ \A s : Steady(c, OutOf(c, s))
           /\ \A x : Steady(c, Freed(c, x))
           /\ Steady(c, c)
<1>1. \A p : Steady(c, NewPool(c, p))
  BY DEF Steady, NewPool, CoordSet
<1>2. \A x : Steady(c, NewInc(c, x))
  BY DEF Steady, NewInc, CoordSet
<1>3. ASSUME NEW s, NEW x PROVE Steady(c, NewBound(c, s, x))
  <2> DEFINE B == [c.sbound EXCEPT ![s] = x]
  <2>1. NewBound(c, s, x) = [c EXCEPT !.sbound = B]
    BY DEF NewBound
  <2> HIDE DEF B
  <2> QED
    BY <2>1 DEF Steady, CoordSet
<1>4. ASSUME NEW s PROVE Steady(c, OutOf(c, s))
  <2> DEFINE C == [c.cur EXCEPT ![s] = NoNode]
             B == [c.sbound EXCEPT ![s] = 0]
  <2>1. OutOf(c, s) = [c EXCEPT !.cur = C, !.sbound = B]
    BY DEF OutOf
  <2> HIDE DEF B, C
  <2> QED
    BY <2>1 DEF Steady, CoordSet
<1>5. ASSUME NEW x PROVE Steady(c, Freed(c, x))
  <2> DEFINE P == [k \in DOMAIN c.pool |-> Orphaned(c.pool[k], x)]
             C == [s \in Solvers |-> Orphaned(c.cur[s], x)]
  <2>1. Freed(c, x) = [c EXCEPT !.pool = P, !.cur = C]
    BY DEF Freed
  <2> HIDE DEF P, C
  <2> QED
    BY <2>1 DEF Steady, CoordSet
<1>6. Steady(c, c)
  BY DEF Steady
<1> QED
  BY <1>1, <1>2, <1>3, <1>4, <1>5, <1>6

\* The deletion of nodes of the pool.
LEMMA SteadyBehind ==
    ASSUME NEW c \in CoordSet, NEW k \in 0..Len(c.pool)
    PROVE  Steady(c, DeletedBehind(c, k))
<1> DEFINE A == {e \in CoordSet : Steady(c, e)}
<1>1. c \in A
  BY DEF Steady
<1>2. ASSUME NEW e \in A, Len(e.pool) > k PROVE Deleted(e, k + 1) \in A
  <2>1. e.pool \in Seq(NodeSet)
    BY DEF CoordSet
  <2>2. k + 1 \in DOMAIN e.pool
    BY <1>2, <2>1
  <2>3. Deleted(e, k + 1) \in CoordSet
    BY <2>2, DeletedIs
  <2>4. Steady(e, Deleted(e, k + 1))
    <3> DEFINE p == RemoveAt(e.pool, k + 1)
               x == e.pool[k + 1]
               d == NewPool(e, p)
    <3>1. p \in Seq(NodeSet)
      BY <2>1, <2>2, RemovedIs
    <3>2. Deleted(e, k + 1) = Freed(d, x)
      BY DEF Deleted, NewPool
    <3> HIDE DEF p, x
    <3>3. d \in CoordSet /\ Steady(e, d)
      BY <3>1, PoolChanged, SteadyFields
    <3> HIDE DEF d
    <3>4. Steady(d, Freed(d, x))
      BY <3>3, SteadyFields
    <3> QED
      BY <3>2, <3>3, <3>4, SteadyOn
  <2> QED
    BY <2>3, <2>4, SteadyOn
<1> HIDE DEF A
<1>3. DeletedBehind(c, k) \in A
  <2>1. A \subseteq CoordSet
    BY DEF A
  <2> QED
    BY <1>1, <1>2, <2>1, BehindKeeps
<1> QED
  BY <1>3 DEF A

\* The pruning of the pool.
LEMMA SteadyPruned ==
    ASSUME NEW c \in CoordSet
    PROVE  Steady(c, Pruned(c))
<1>1. c.pool \in Seq(NodeSet)
  BY DEF CoordSet
<1>2. Cardinality({j \in DOMAIN c.pool : c.pool[j].bound <= c.inc}) \in 0..Len(c.pool)
  BY <1>1, CountOfPool
<1> QED
  BY <1>2, SteadyBehind DEF Pruned

\* A round of sendParaNodesToIdleSolvers.
LEMMA SteadyRound ==
    ASSUME NEW st, Ok(st), NEW k
    PROVE  Steady(st.lc, OneNodeSent(st, k).lc)
<1> DEFINE idle == Solvers \ Active(st.lc)
           c == st.lc
           b == st.box
<1>1. st = [lc |-> st.lc, box |-> st.box] /\ st.lc \in CoordSet
  BY OkIs
<1>2. c.pool \in Seq(NodeSet) /\ c.cur \in [Solvers -> MaybeNode]
  BY <1>1, CoordFields
<1>3. CASE idle = {} \/ c.pool = <<>> \/ c.phase = "termination"
  BY <1>3 DEF OneNodeSent, Steady
<1>4. CASE ~(idle = {} \/ c.pool = <<>> \/ c.phase = "termination") /\ Head(c.pool).bound < c.inc
  <2>1. OneNodeSent(st, k) = Activated([st EXCEPT !.lc.pool = Tail(@)], Least(idle), Head(c.pool))
    BY <1>4 DEF OneNodeSent
  <2>2. Head(c.pool) \in NodeSet /\ Tail(c.pool) \in Seq(NodeSet) /\ c.pool # <<>>
    BY <1>2, <1>4, HeadAndTail
  <2>3. Least(idle) \in idle
    <3>1. idle \subseteq Nat /\ idle # {}
      BY <1>4, SolversFinite
    <3> QED
      BY <3>1, LeastIs
  <2>4. PICK s : s = Least(idle)
    BY Zenon
  <2>5. s \in Solvers
    BY <2>3, <2>4
  <2>6. PICK e : e = NewPool(c, Tail(c.pool))
    BY Zenon
  <2>7. [st EXCEPT !.lc.pool = Tail(@)] = [lc |-> e, box |-> b]
    BY <1>1, <2>6, PoolSet, Zenon
  <2>8. e \in CoordSet /\ Steady(c, e)
    BY <1>1, <2>2, <2>6, PoolChanged, SteadyFields
  <2>9. PICK d \in CoordSet : Sends(e, b, s, Head(c.pool), d)
    BY <2>2, <2>5, <2>8, ActivatedIs
  <2>10. Activated([lc |-> e, box |-> b], s, Head(c.pool)).lc = d /\ Steady(e, d)
    BY <2>9 DEF Sends, Steady
  <2> HIDE DEF c, b, idle
  <2>11. Steady(c, d)
    BY <2>8, <2>10, SteadyOn
  <2> QED
    BY <2>1, <2>4, <2>7, <2>10, <2>11 DEF c
<1>5. CASE ~(idle = {} \/ c.pool = <<>> \/ c.phase = "termination") /\ ~(Head(c.pool).bound < c.inc)
  <2>1. OneNodeSent(st, k) = [st EXCEPT !.lc = DeletedBehind(c, 0)]
    BY <1>5 DEF OneNodeSent
  <2>2. [st EXCEPT !.lc = DeletedBehind(c, 0)] = [lc |-> DeletedBehind(c, 0), box |-> b]
    BY <1>1
  <2>3. 0 \in 0..Len(c.pool)
    BY <1>2
  <2>4. Steady(c, DeletedBehind(c, 0))
    BY <1>1, <2>3, SteadyBehind
  <2> QED
    BY <2>1, <2>2, <2>4
<1> QED
  BY <1>3, <1>4, <1>5

\* All rounds.
LEMMA SteadySent ==
    ASSUME SvTyped, NEW st, Ok(st)
    PROVE  Steady(st.lc, NodesSent(st).lc)
<1> DEFINE A == {e \in OkStates : Steady(st.lc, e.lc)}
<1>1. st \in A
  BY OkIs DEF Steady
<1>2. ASSUME NEW e \in A, NEW x \in Nat PROVE OneNodeSent(e, x) \in A
  <2>1. Ok(e) /\ Steady(st.lc, e.lc)
    BY DEF OkStates
  <2>2. Ok(OneNodeSent(e, x)) /\ Steady(e.lc, OneNodeSent(e, x).lc)
    BY <2>1, OneNodeSentOk, SteadyRound
  <2>3. Steady(st.lc, OneNodeSent(e, x).lc)
    BY <2>1, <2>2, SteadyOn
  <2> QED
    BY <2>2, <2>3, OkIs
<1> HIDE DEF A
<1>3. NodesSent(st) \in A
  BY <1>1, <1>2, NodesSentKeeps
<1> QED
  BY <1>3 DEF A

\* To send messages leaves it too.
LEMMA SteadyMailed ==
    ASSUME NEW st, Ok(st), NEW rs, NEW tag, NEW val
    PROVE  ToSolvers(st, rs, tag, val).lc = st.lc
<1>1. \A c, b : ToSolvers([lc |-> c, box |-> b], rs, tag, val) = [lc |-> c, box |-> SentTo(b, rs, Msg(tag, 0, val))]
  BY SentIs
<1>2. st = [lc |-> st.lc, box |-> st.box]
  BY OkIs
<1>3. ToSolvers(st, rs, tag, val) = [lc |-> st.lc, box |-> SentTo(st.box, rs, Msg(tag, 0, val))]
  BY <1>1, <1>2, Zenon
<1> QED
  BY <1>3

\* The handlers of nodes and of solutions.
LEMMA SteadyTaken ==
    ASSUME NEW c, NEW b, CoordOk(c, b), SvTyped, b[0] # <<>>
    PROVE  LET st == [lc |-> c, box |-> Popped(b)]
               m == Head(b[0])
           IN /\ m.tag = "Node" => Steady(c, NodeTaken(st, m).lc)
              /\ m.tag = "Solution" => Steady(c, SolutionTaken(st, m).lc)
<1> DEFINE m == Head(b[0])
           st == [lc |-> c, box |-> Popped(b)]
           d == NewPool(c, Inserted(c.pool, Grafted(c, m)))
           more == [lc |-> d, box |-> Popped(b)]
<1>1. Typed(c, b) /\ c \in CoordSet
  BY DEF CoordOk, Typed
<1>2. m \in ToCoord
  BY <1>1, PoppedIs
<1>3. ASSUME m.tag = "Node" PROVE Steady(c, NodeTaken(st, m).lc)
  <2>1. Inserted(c.pool, Grafted(c, m)) \in Seq(NodeSet)
    BY <1>1, <1>2, <1>3, GraftedIs
  <2>2. CoordOk(c, Popped(b))
    BY <1>3, SilentPopped
  <2>3. d \in CoordSet /\ Alike(c, d) /\ Steady(c, d)
    BY <1>1, <2>1, PoolChanged, SteadyFields
  <2>4. Ok(st) /\ st.lc = c
    BY <2>2, OkMade
  <2> HIDE DEF d
  <2>5. CoordOk(d, Popped(b))
    BY <2>2, <2>3, CoordAlike
  <2>6. Ok(more) /\ more.lc = d
    BY <2>5, OkMade
  <2>7. /\ m.val.bound < c.inc => NodeTaken(st, m) = ToSolvers(NodesSent(more), {m.src}, "NodeReceived", 0)
        /\ ~(m.val.bound < c.inc) => NodeTaken(st, m) = ToSolvers(st, {m.src}, "NodeReceived", 0)
    BY NodeTakenIs, Zenon DEF d
  <2> HIDE DEF st, more, m
  <2>8. Ok(NodesSent(more)) /\ Steady(d, NodesSent(more).lc)
    BY <2>6, NodesSentOk, SteadySent
  <2>9. Steady(c, NodesSent(more).lc) /\ Steady(c, st.lc)
    BY <1>1, <2>3, <2>4, <2>8, SteadyOn, SteadyFields
  <2>10. \A e : Ok(e) => ToSolvers(e, {m.src}, "NodeReceived", 0).lc = e.lc
    BY SteadyMailed
  <2> QED
    BY <2>4, <2>7, <2>8, <2>9, <2>10
<1>4. Steady(c, SolutionTaken(st, m).lc) \/ m.tag # "Solution"
  <2> SUFFICES ASSUME m.tag = "Solution" PROVE Steady(c, SolutionTaken(st, m).lc)
    OBVIOUS
  <2>1. m.val \in Vals
    BY <1>2 DEF ToCoord
  <2> DEFINE e == NewInc(c, m.val)
  <2>2. e \in CoordSet /\ Steady(c, e)
    BY <1>1, <2>1, IncChanged, SteadyFields
  <2> HIDE DEF e
  <2>3. Steady(e, Pruned(e))
    BY <2>2, SteadyPruned
  <2>4. Steady(c, Pruned(e)) /\ Steady(c, c)
    BY <2>2, <2>3, SteadyOn DEF Steady
  <2>5. m.val < c.inc => SolutionTaken(st, m) = [lc |-> Pruned(e), box |-> Spread(Popped(b), m)]
    BY SolutionTakenIs, Zenon DEF e
  <2>6. ~(m.val < c.inc) => SolutionTaken(st, m) = [lc |-> c, box |-> Popped(b)]
    BY SolutionIgnoredIs, Zenon
  <2> HIDE DEF st, m
  <2> QED
    BY <2>4, <2>5, <2>6
<1> HIDE DEF st, m
<1>5. (m.tag = "Node" => Steady(c, NodeTaken(st, m).lc)) /\ (m.tag = "Solution" => Steady(c, SolutionTaken(st, m).lc))
  BY <1>3, <1>4
<1> QED
  BY <1>5 DEF st, m

\* That of completions.
LEMMA SteadyCompleted ==
    ASSUME NEW c, NEW b, CoordOk(c, b), SvTyped, b[0] # <<>>, Head(b[0]).tag = "Completion"
    PROVE  Steady(c, Completed([lc |-> c, box |-> Popped(b)], Head(b[0])).lc)
<1> DEFINE m == Head(b[0])
           s == m.src
           d == Concluded(c, m.src, m.val)
<1>1. Typed(c, b) /\ c \in CoordSet
  BY DEF CoordOk, Typed
<1>2. m \in ToCoord
  BY <1>1, PoppedIs
<1>3. s \in Solvers /\ m.val \in {"normal", "another", "interrupt"}
  BY <1>2 DEF ToCoord
<1>4. CoordOk(d, Popped(b))
  BY ConcludedOk
<1>5. Completed([lc |-> c, box |-> Popped(b)], m) = NodesSent([lc |-> d, box |-> Popped(b)])
  BY <1>1, CompletedIs, Zenon
<1>6. Steady(c, d)
  <2>1. OutOf(c, s) \in CoordSet /\ Steady(c, OutOf(c, s)) /\ Steady(c, c)
    BY <1>1, <1>3, OutIs, SteadyFields
  <2> DEFINE e == OutOf(c, s)
             p == Inserted(c.pool, c.cur[s])
  <2>2. m.val = "normal" => d = Freed(e, c.cur[s])
    BY DEF Concluded
  <2>3. m.val = "interrupt" => d = NewPool(e, p)
    BY DEF Concluded
  <2>4. m.val = "another" => d = c
    BY DEF Concluded
  <2> HIDE DEF e, p, d
  <2>5. Steady(e, Freed(e, c.cur[s])) /\ Steady(e, NewPool(e, p))
    BY <2>1, SteadyFields DEF e
  <2>6. Steady(c, Freed(e, c.cur[s])) /\ Steady(c, NewPool(e, p))
    BY <2>1, <2>5, SteadyOn DEF e
  <2> HIDE DEF m
  <2> QED
    BY <1>3, <2>1, <2>2, <2>3, <2>4, <2>6
<1> HIDE DEF d
<1>7. Ok([lc |-> d, box |-> Popped(b)]) /\ [lc |-> d, box |-> Popped(b)].lc = d
  BY <1>4, OkMade
<1>8. Steady(d, NodesSent([lc |-> d, box |-> Popped(b)]).lc)
  BY <1>7, SteadySent
<1> QED
  BY <1>5, <1>6, <1>8, SteadyOn

\* That of requests.
LEMMA SteadyRequested ==
    ASSUME NEW c, NEW b, CoordOk(c, b), SvTyped, b[0] # <<>>, Head(b[0]).tag = "AnotherNodeRequest"
    PROVE  Steady(c, AnotherNodeRequested([lc |-> c, box |-> Popped(b)], Head(b[0])).lc)
<1> DEFINE m == Head(b[0])
           s == m.src
           got == AnotherNodeRequested([lc |-> c, box |-> Popped(b)], m)
           out == SentTo(Popped(b), {s}, Refusal)
           top == Head(c.pool)
           solving == Bounded(c.cur[s], m.val)
           p == Inserted(Tail(c.pool), top)
           z == Inserted(Tail(c.pool), solving)
           e == NewPool(c, z)
<1>1. Typed(c, b) /\ c \in CoordSet
  BY DEF CoordOk, Typed
<1>2. m \in ToCoord
  BY <1>1, PoppedIs
<1>3. s \in Solvers /\ m \in Requests(s) /\ m.val \in Nat
  BY <1>2, SilentTags DEF ToCoord
<1>4. /\ ~MayReplace(c, s) => got = [lc |-> c, box |-> out]
      /\ MayReplace(c, s) /\ top.bound >= c.inc => got = [lc |-> DeletedBehind(c, 0), box |-> out]
      /\ MayReplace(c, s) /\ ~(top.bound >= c.inc) /\ c.sbound[s] <= top.bound
            => got = [lc |-> NewPool(c, p), box |-> out]
      /\ MayReplace(c, s) /\ ~(top.bound >= c.inc) /\ ~(c.sbound[s] <= top.bound)
            => got = Activated([lc |-> e, box |-> Popped(b)], s, top)
  BY AnotherNodeRequestedIs, Zenon
<1>5. c.pool \in Seq(NodeSet)
  BY <1>1, CoordFields
<1>6. Steady(c, c) /\ Steady(c, DeletedBehind(c, 0)) /\ Steady(c, NewPool(c, p)) /\ Steady(c, e)
  <2>1. 0 \in 0..Len(c.pool)
    BY <1>5
  <2> HIDE DEF p, z
  <2> QED
    BY <1>1, <2>1, SteadyFields, SteadyBehind
<1>7. MayReplace(c, s) => Steady(c, Activated([lc |-> e, box |-> Popped(b)], s, top).lc)
  <2> SUFFICES ASSUME MayReplace(c, s) PROVE Steady(c, Activated([lc |-> e, box |-> Popped(b)], s, top).lc)
    OBVIOUS
  <2>1. top \in NodeSet /\ Tail(c.pool) \in Seq(NodeSet)
    BY <1>5, HeadAndTail DEF MayReplace
  <2>2. c.cur[s] \in NodeSet
    <3>1. Order(c, b[0], s) /\ b[0] \in Seq(ToCoord) /\ c.cur[s] \in MaybeNode
      BY <1>3, CoordParts
    <3>2. c.cur[s] # NoNode
      BY <1>3, <3>1, OrderShrinks
    <3> QED
      BY <3>1, <3>2, NodeTypes
  <2> HIDE DEF m
  <2>3. solving \in NodeSet
    BY <1>3, <2>2 DEF Bounded, NodeSet
  <2> HIDE DEF solving
  <2>4. z \in Seq(NodeSet)
    BY <2>1, <2>3, InsertedIs
  <2> HIDE DEF z
  <2>5. e \in CoordSet
    BY <1>1, <2>4, PoolChanged
  <2> HIDE DEF e, top
  <2>6. PICK d \in CoordSet : Sends(e, Popped(b), s, top, d)
    BY <1>3, <2>1, <2>5, ActivatedIs
  <2>7. Activated([lc |-> e, box |-> Popped(b)], s, top).lc = d /\ Steady(e, d)
    BY <2>6 DEF Sends, Steady
  <2> QED
    BY <1>6, <2>7, SteadyOn
<1> HIDE DEF got, m, out, top, p, e
<1>8. Steady(c, got.lc)
  BY <1>4, <1>6, <1>7
<1> QED
  BY <1>8 DEF got, m

\* Every handler leaves where the load coordinator goes on.
LEMMA SteadyHandled ==
    ASSUME NEW c, NEW b, CoordOk(c, b), SvTyped, b[0] # <<>>
    PROVE  Steady(c, Handled([lc |-> c, box |-> Popped(b)], Head(b[0])).lc)
<1> DEFINE st == [lc |-> c, box |-> Popped(b)]
           m == Head(b[0])
<1>1. m.tag \in {"Node", "Solution", "SolverState", "Completion", "AnotherNodeRequest", "Terminated"}
  <2>1. m \in ToCoord
    BY PoppedIs DEF CoordOk
  <2> QED
    BY <2>1 DEF ToCoord
<1>2. /\ m.tag = "Node" => Handled(st, m) = NodeTaken(st, m)
      /\ m.tag = "Solution" => Handled(st, m) = SolutionTaken(st, m)
      /\ m.tag = "SolverState" => Handled(st, m) = StateTaken(st, m)
      /\ m.tag = "Completion" => Handled(st, m) = Completed(st, m)
      /\ m.tag = "AnotherNodeRequest" => Handled(st, m) = AnotherNodeRequested(st, m)
      /\ m.tag = "Terminated" => Handled(st, m) = SolverTerminated(st, m)
  <2> HIDE DEF st, m
  <2> QED
    BY DEF Handled
<1>3. c \in CoordSet
  BY DEF CoordOk, Typed
<1>4. (m.tag = "Node" => Steady(c, NodeTaken(st, m).lc)) /\ (m.tag = "Solution" => Steady(c, SolutionTaken(st, m).lc))
  BY SteadyTaken, Zenon
<1>5. Steady(c, StateTaken(st, m).lc)
  <2>1. StateTaken(st, m) = [lc |-> Answering(c, m),
                             box |-> SentTo(Informed(c, Popped(b), m), {m.src}, Msg("NotificationId", 0, 0))]
    BY <1>3, StateTakenIs, Zenon
  <2>2. Steady(c, Answering(c, m))
    BY <1>3, SteadyFields DEF Answering
  <2> HIDE DEF st, m
  <2> QED
    BY <2>1, <2>2
<1>6. Steady(c, SolverTerminated(st, m).lc)
  <2>1. SolverTerminated(st, m) = [lc |-> Counted(c, m), box |-> Popped(b)]
    BY <1>3, SolverTerminatedIs, Zenon
  <2>2. Counted(c, m).hard = c.hard /\ Counted(c, m).pc = c.pc
    BY <1>3, SolverTerminatedIs, Zenon
  <2> HIDE DEF st, m
  <2> QED
    BY <2>1, <2>2 DEF Steady
<1>7. m.tag = "Completion" => Steady(c, Completed(st, m).lc)
  BY SteadyCompleted, Zenon
<1>8. m.tag = "AnotherNodeRequest" => Steady(c, AnotherNodeRequested(st, m).lc)
  BY SteadyRequested, Zenon
<1> HIDE DEF st, m
<1>9. Steady(c, Handled(st, m).lc)
  BY <1>1, <1>2, <1>4, <1>5, <1>6, <1>7, <1>8
<1> QED
  BY <1>9 DEF st, m

\* d has the same nodes and the same incumbent as c.
SameNodes(c, d) == d.pool = c.pool /\ d.cur = c.cur /\ d.inc = c.inc

\* All leaves are solved.
AllSolved(c) == \A l \in Leaves : Solved(c, l)

\* What holds of the load coordinator in the course of run, and after it.
Outcome(c, b) ==
    /\ c.pc \in {"run", "check"} => Cover(c, b)
    /\ c.pc = "closing" => c.hard
    /\ c.pc = "done" => c.hard \/ AllSolved(c)

\* What run sets of its own.
LEMMA FieldSet ==
    ASSUME NEW st, Ok(st), NEW x
    PROVE  /\ LET e == [st EXCEPT !.lc.phase = x] IN
              e.box = st.box /\ Steady(st.lc, e.lc) /\ SameNodes(st.lc, e.lc)
           /\ LET e == [st EXCEPT !.lc.intr = x] IN
              e.box = st.box /\ Steady(st.lc, e.lc) /\ SameNodes(st.lc, e.lc)
           /\ LET e == [st EXCEPT !.lc.hard = x] IN
              e.box = st.box /\ e.lc.pc = st.lc.pc /\ e.lc.hard = x /\ SameNodes(st.lc, e.lc)
           /\ LET e == [st EXCEPT !.lc.pc = x] IN
              e.box = st.box /\ e.lc.pc = x /\ e.lc.hard = st.lc.hard /\ SameNodes(st.lc, e.lc)
<1> DEFINE c == st.lc
           b == st.box
<1>1. st = [lc |-> c, box |-> b] /\ c \in CoordSet
  BY OkIs
<1>2. DOMAIN c = {"pc", "pool", "cur", "sbound", "inc", "phase", "intr", "nterm", "hard", "cmp"}
  BY <1>1, CoordFields
<1> HIDE DEF c, b
<1>3. /\ [st EXCEPT !.lc.phase = x] = [lc |-> [c EXCEPT !.phase = x], box |-> b]
      /\ [st EXCEPT !.lc.intr = x] = [lc |-> [c EXCEPT !.intr = x], box |-> b]
      /\ [st EXCEPT !.lc.hard = x] = [lc |-> [c EXCEPT !.hard = x], box |-> b]
      /\ [st EXCEPT !.lc.pc = x] = [lc |-> [c EXCEPT !.pc = x], box |-> b]
  BY <1>1
<1>4. Steady(c, [c EXCEPT !.phase = x]) /\ SameNodes(c, [c EXCEPT !.phase = x])
  BY <1>2 DEF Steady, SameNodes
<1>5. Steady(c, [c EXCEPT !.intr = x]) /\ SameNodes(c, [c EXCEPT !.intr = x])
  BY <1>2 DEF Steady, SameNodes
<1>6. [c EXCEPT !.hard = x].pc = c.pc /\ [c EXCEPT !.hard = x].hard = x /\ SameNodes(c, [c EXCEPT !.hard = x])
  BY <1>2 DEF SameNodes
<1>7. [c EXCEPT !.pc = x].pc = x /\ [c EXCEPT !.pc = x].hard = c.hard /\ SameNodes(c, [c EXCEPT !.pc = x])
  BY <1>2 DEF SameNodes
<1> QED
  BY <1>1, <1>3, <1>4, <1>5, <1>6, <1>7 DEF c, b

\* What it sets as it ends a step.
LEMMA PcField ==
    ASSUME NEW st, Ok(st), NEW x
    PROVE  LET e == [st EXCEPT !.lc.pc = x] IN
           e.box = st.box /\ e.lc.pc = x /\ e.lc.hard = st.lc.hard /\ SameNodes(st.lc, e.lc)
BY FieldSet, Zenon

\* They are no matter of the nodes.
LEMMA FineFields ==
    ASSUME SvTyped, NEW st, Fine(st), NEW e, Ok(e), e.box = st.box, SameNodes(st.lc, e.lc)
    PROVE  Fine(e)
<1>1. Typed(st.lc, st.box) /\ Cover(st.lc, st.box) /\ e.lc \in CoordSet
  BY FineIs, OkIs DEF CoordOk
<1>2. Cover(e.lc, e.box)
  BY <1>1, CoverFields DEF SameNodes
<1> QED
  BY <1>2 DEF Fine

\* The end of the loop of run.
LEMMA PhaseCheckedFine ==
    ASSUME SvTyped, NEW st, Fine(st), NEW past \in BOOLEAN, NEW ramp \in BOOLEAN
    PROVE  Fine(PhaseChecked(st, past, ramp)) /\ Steady(st.lc, PhaseChecked(st, past, ramp).lc)
<1>0. Ok(st)
  BY FineIs
<1>1. CASE st.lc.phase = "termination"
  BY <1>1 DEF PhaseChecked, Steady
<1>2. CASE st.lc.phase # "termination" /\ past
  <2> DEFINE x == [st EXCEPT !.lc.phase = "termination", !.lc.intr = TRUE]
             y == [st EXCEPT !.lc.phase = "termination"]
             rs == IF st.lc.intr THEN {} ELSE Solvers
  <2>1. x = [y EXCEPT !.lc.intr = TRUE]
    OBVIOUS
  <2>2. Ok(y) /\ Steady(st.lc, y.lc) /\ y.box = st.box /\ SameNodes(st.lc, y.lc)
    BY <1>0, PhaseSet, FieldSet
  <2> HIDE DEF x, y
  <2>3. Fine(y)
    BY <2>2, FineFields
  <2>4. Ok(x) /\ Steady(y.lc, x.lc) /\ x.box = y.box /\ SameNodes(y.lc, x.lc)
    BY <2>1, <2>2, IntrSet, FieldSet
  <2>5. Fine(x) /\ Steady(st.lc, x.lc)
    BY <2>2, <2>3, <2>4, FineFields, SteadyOn
  <2>6. Fine(ToSolvers(x, rs, "InterruptRequest", 0))
    BY <2>5, FineMailed
  <2>7. ToSolvers(x, rs, "InterruptRequest", 0).lc = x.lc
    BY <2>4, SteadyMailed
  <2>8. PhaseChecked(st, past, ramp) = ToSolvers(x, rs, "InterruptRequest", 0)
    BY <1>2, Zenon DEF PhaseChecked, x
  <2> QED
    BY <2>5, <2>6, <2>7, <2>8
<1>3. CASE st.lc.phase # "termination" /\ ~past
  <2> DEFINE x == [st EXCEPT !.lc.phase = "normal"]
             y == ToSolvers(x, Solvers, "RampUp", 0)
  <2>1. Ok(x) /\ Steady(st.lc, x.lc) /\ x.box = st.box /\ SameNodes(st.lc, x.lc)
    BY <1>0, PhaseSet, FieldSet
  <2> HIDE DEF x
  <2>2. Fine(x)
    BY <2>1, FineFields
  <2>3. Fine(y) /\ y.lc = x.lc
    BY <2>1, <2>2, FineMailed, SteadyMailed
  <2> HIDE DEF y
  <2>4. PhaseChecked(st, past, ramp) = NodesSent(IF ramp THEN y ELSE st)
    BY <1>3, Zenon DEF PhaseChecked, x, y
  <2>5. Fine(NodesSent(y)) /\ Fine(NodesSent(st))
    BY <2>3, NodesSentFine
  <2>6. Steady(y.lc, NodesSent(y).lc) /\ Steady(st.lc, NodesSent(st).lc)
    BY <1>0, <2>3, FineIs, SteadySent
  <2>7. Steady(st.lc, NodesSent(y).lc)
    BY <2>1, <2>3, <2>6, SteadyOn
  <2> QED
    BY <2>4, <2>5, <2>6, <2>7
<1> QED
  BY <1>1, <1>2, <1>3

\* The exit from the loop of run: past the time limit, or when all is solved.
LEMMA LeftFine ==
    ASSUME NEW st, Ok(st), st.lc.hard \/ (st.lc.nterm # 0 /\ AllSolved(st.lc))
    PROVE  Outcome(Left(st).lc, Left(st).box)
<1> DEFINE x == [st EXCEPT !.lc.pc = "closing"]
           y == [x EXCEPT !.lc.phase = "termination"]
           z == [st EXCEPT !.lc.pc = "done"]
           u == [st EXCEPT !.lc.pc = "closing", !.lc.phase = "termination"]
<1>1. y = u
  OBVIOUS
<1>2. Left(st) = IF st.lc.nterm = 0 /\ (Active(st.lc) # {} \/ st.lc.intr)
                 THEN ToSolvers(u, Solvers, "TerminateRequest", 0) ELSE z
  BY Zenon DEF Left
<1> HIDE DEF u
<1>3. x.lc.pc = "closing" /\ x.lc.hard = st.lc.hard
  BY PcField
<1>4. z.lc.pc = "done" /\ z.lc.hard = st.lc.hard /\ z.lc.inc = st.lc.inc
  <2>1. z.lc.pc = "done" /\ z.lc.hard = st.lc.hard /\ SameNodes(st.lc, z.lc)
    BY PcField
  <2> HIDE DEF z
  <2> QED
    BY <2>1 DEF SameNodes
<1>5. st.lc.hard \/ (st.lc.nterm # 0 /\ AllSolved(z.lc))
  <2> HIDE DEF z
  <2> QED
    BY <1>4 DEF AllSolved, Solved
<1>6. ToSolvers(y, Solvers, "TerminateRequest", 0).lc.pc = "closing"
      /\ ToSolvers(y, Solvers, "TerminateRequest", 0).lc.hard = st.lc.hard
  <2>1. st = [lc |-> st.lc, box |-> st.box] /\ st.lc \in CoordSet
    BY OkIs
  <2>2. DOMAIN st.lc = {"pc", "pool", "cur", "sbound", "inc", "phase", "intr", "nterm", "hard", "cmp"}
    BY <2>1, CoordFields
  <2>3. x = [lc |-> x.lc, box |-> x.box] /\ DOMAIN x.lc = DOMAIN st.lc
    BY <2>1, <2>2
  <2> HIDE DEF x
  <2>4. y = [lc |-> y.lc, box |-> y.box] /\ y.lc.pc = x.lc.pc /\ y.lc.hard = x.lc.hard
    BY <2>2, <2>3
  <2> HIDE DEF y
  <2>5. \A c, b : ToSolvers([lc |-> c, box |-> b], Solvers, "TerminateRequest", 0)
                      = [lc |-> c, box |-> SentTo(b, Solvers, Msg("TerminateRequest", 0, 0))]
    BY SentIs
  <2>6. ToSolvers(y, Solvers, "TerminateRequest", 0)
            = [lc |-> y.lc, box |-> SentTo(y.box, Solvers, Msg("TerminateRequest", 0, 0))]
    BY <2>4, <2>5, Zenon
  <2> QED
    BY <1>3, <2>4, <2>6
<1> HIDE DEF x, y, z
<1>7. Left(st) = IF st.lc.nterm = 0 /\ (Active(st.lc) # {} \/ st.lc.intr)
                 THEN ToSolvers(y, Solvers, "TerminateRequest", 0) ELSE z
  BY <1>1, <1>2, Zenon
<1> QED
  BY <1>4, <1>5, <1>6, <1>7 DEF Outcome

\* Without a node left all leaves are solved.
LEMMA EmptySolved ==
    ASSUME NEW c \in CoordSet, TreeOk(c), Active(c) = {}, c.pool = <<>>
    PROVE  AllSolved(c)
<1>1. Nodes(c) = {}
  BY DEF Nodes, ToSet
<1> QED
  BY <1>1 DEF TreeOk, Covers, Handed, AllSolved

\* The begin of the loop of run: solvers are told to terminate when no node is left.
LEMMA LoopHeadFine ==
    ASSUME SvTyped, NEW st, Fine(st), st.lc.pc = "run", NEW past
    PROVE  LET t == LoopHead(st, past) IN Ok(t) /\ Outcome(t.lc, t.box)
<1> DEFINE x == [st EXCEPT !.lc.phase = "termination"]
           y == ToSolvers(x, Solvers, "TerminateRequest", 0)
           none == Active(st.lc) = {} /\ st.lc.pool = <<>>
           s == IF none /\ st.lc.phase # "termination" THEN y ELSE st
           h == [s EXCEPT !.lc.hard = TRUE]
           t == LoopHead(st, past)
<1>1. Ok(st) /\ st.lc \in CoordSet /\ TreeOk(st.lc)
  BY FineIs DEF Cover
<1>2. none => AllSolved(st.lc)
  BY <1>1, EmptySolved
<1>3. Ok(x) /\ x.box = st.box /\ Steady(st.lc, x.lc) /\ SameNodes(st.lc, x.lc)
  BY <1>1, PhaseSet, FieldSet
<1> HIDE DEF x
<1>4. Fine(x)
  BY <1>3, FineFields
<1>5. AllSolved(st.lc) => \A l \in Leaves : Solved(x.lc, l)
  BY <1>3 DEF SameNodes, AllSolved, Solved
<1>6. none => Fine(y)
  BY <1>2, <1>4, <1>5, FineMailed
<1>7. y.lc = x.lc
  BY <1>3, SteadyMailed
<1> HIDE DEF y
<1>8. Fine(s) /\ s.lc.pc = "run"
  BY <1>3, <1>6, <1>7 DEF Steady
<1>9. t = IF Active(st.lc) # {} THEN st
          ELSE IF st.lc.pool = <<>> /\ st.lc.phase = "termination" /\ st.lc.nterm = N THEN Left(st)
          ELSE IF past THEN Left(h) ELSE s
  BY Zenon DEF LoopHead, y, x
<1> HIDE DEF s
<1>10. Ok(h) /\ h.lc.hard = TRUE
  BY <1>8, FineIs, HardSet, FieldSet
<1> HIDE DEF h
<1>11. Outcome(st.lc, st.box) /\ Outcome(s.lc, s.box)
  BY <1>8, FineIs DEF Outcome
<1>12. Outcome(Left(h).lc, Left(h).box)
  BY <1>10, LeftFine
<1>13. none /\ st.lc.nterm = N => Outcome(Left(st).lc, Left(st).box)
  BY <1>1, <1>2, NAssumption, LeftFine
<1>14. Ok(t)
  BY <1>1, LoopHeadOk
<1> HIDE DEF t
<1>15. Outcome(t.lc, t.box)
  BY <1>9, <1>11, <1>12, <1>13
<1> QED
  BY <1>14, <1>15 DEF t

-----------------------------------------------------------------------------
(* The steps of the load coordinator.                                      *)

\* While every report is waited for: no leaf is lost, and the run ends because
\* of the time limit or with all leaves solved.
CInv == sync => Outcome(lc, box)

\* A step of the load coordinator leaves the solvers as they are.
LEMMA CoordCovers ==
    ASSUME UNCHANGED <<sv, sync>>, sync => Outcome(lc', box')
    PROVE  CInv'
BY DEF CInv, Outcome, Cover, Part, Works, Awaits, Dismissed, Line, Seen, Brings

\* A message handled in run.
LEMMA HandleCovers ==
    ASSUME IInv, CInv, Handle
    PROVE  CInv'
<1> DEFINE st == Handled([lc |-> lc, box |-> [box EXCEPT ![0] = Tail(@)]], Head(box[0]))
           z == [st EXCEPT !.lc.pc = "check"]
<1>1. SvTyped /\ CoordOk(lc, box) /\ box[0] # <<>> /\ lc.pc = "run"
  BY DEF IInv, Handle
<1>2. UNCHANGED <<sv, sync>> /\ lc' = [st.lc EXCEPT !.pc = "check"] /\ box' = st.box
  BY DEF Handle
<1>3. SUFFICES ASSUME sync PROVE Outcome(lc', box')
  BY <1>2, CoordCovers
<1>4. Cover(lc, box)
  BY <1>1, <1>3 DEF CInv, Outcome
<1>5. Fine(st)
  BY <1>1, <1>4, HandledFine DEF Popped
<1> HIDE DEF st
<1>6. Ok(st)
  BY <1>5, FineIs
<1>7. Ok(z) /\ z.box = st.box /\ z.lc.pc = "check" /\ SameNodes(st.lc, z.lc)
  BY <1>1, <1>6, PcSet, PcField
<1>8. z.lc = lc'
  BY <1>2, <1>6 DEF Ok
<1> HIDE DEF z
<1>9. Fine(z)
  BY <1>1, <1>5, <1>7, FineFields
<1> QED
  BY <1>2, <1>7, <1>8, <1>9 DEF Fine, Outcome

\* One handled in the destructor.
LEMMA CloseCovers ==
    ASSUME IInv, CInv, Close
    PROVE  CInv'
<1> DEFINE st == Handled([lc |-> lc, box |-> [box EXCEPT ![0] = Tail(@)]], Head(box[0]))
           p == IF st.lc.nterm = N THEN "done" ELSE st.lc.pc
           z == [st EXCEPT !.lc.pc = p]
<1>1. SvTyped /\ CoordOk(lc, box) /\ box[0] # <<>> /\ lc.pc = "closing"
  BY DEF IInv, Close
<1>2. UNCHANGED <<sv, sync>> /\ lc' = [st.lc EXCEPT !.pc = p] /\ box' = st.box
  BY DEF Close
<1>3. SUFFICES ASSUME sync PROVE Outcome(lc', box')
  BY <1>2, CoordCovers
<1>4. Steady(lc, st.lc) /\ Ok(st)
  BY <1>1, SteadyHandled, HandledOk DEF Popped
<1> HIDE DEF st
<1>5. st.lc.pc = "closing" /\ st.lc.hard /\ p \in {"closing", "done"}
  BY <1>1, <1>3, <1>4 DEF CInv, Outcome, Steady
<1> HIDE DEF p
<1>6. z.lc.pc = p /\ z.lc.hard = st.lc.hard
  BY <1>4, PcField
<1>7. z.lc = lc'
  BY <1>2, <1>4 DEF Ok
<1> HIDE DEF z
<1> QED
  BY <1>5, <1>6, <1>7 DEF Outcome

\* The phase and the nodes are looked at after a message.
LEMMA RunsFine ==
    ASSUME SvTyped, NEW st, Fine(st)
    PROVE  Fine([st EXCEPT !.lc.pc = "run"]) /\ [st EXCEPT !.lc.pc = "run"].lc.pc = "run"
<1> DEFINE z == [st EXCEPT !.lc.pc = "run"]
<1>1. Ok(st)
  BY FineIs
<1>2. Ok(z) /\ z.box = st.box /\ z.lc.pc = "run" /\ SameNodes(st.lc, z.lc)
  BY <1>1, PcSet, PcField
<1> HIDE DEF z
<1>3. Fine(z)
  BY <1>2, FineFields
<1> QED
  BY <1>2, <1>3 DEF z

\* The loop of run from one message to the next.
LEMMA CheckCovers ==
    ASSUME IInv, CInv, NEW past \in BOOLEAN, NEW past2 \in BOOLEAN, NEW ramp \in BOOLEAN, Check(past, past2, ramp)
    PROVE  CInv'
<1> DEFINE y == [lc |-> lc, box |-> box]
           x == [lc |-> [lc EXCEPT !.pc = "run"], box |-> box]
           st == PhaseChecked(x, past, ramp)
           t == LoopHead(st, past2)
<1>1. SvTyped /\ CoordOk(lc, box) /\ lc.pc = "check"
  BY DEF IInv, Check
<1>2. UNCHANGED <<sv, sync>> /\ lc' = t.lc /\ box' = t.box
  BY DEF Check
<1>3. SUFFICES ASSUME sync PROVE Outcome(lc', box')
  BY <1>2, CoordCovers
<1>4. Ok(y) /\ y.lc = lc /\ y.box = box
  BY <1>1, OkMade
<1>5. Cover(lc, box)
  BY <1>1, <1>3 DEF CInv, Outcome
<1>6. Fine(y)
  BY <1>4, <1>5 DEF Fine
<1>7. x = [y EXCEPT !.lc.pc = "run"]
  OBVIOUS
<1> HIDE DEF y, x
<1>9. Fine(x) /\ x.lc.pc = "run"
  BY <1>1, <1>6, <1>7, RunsFine
<1>10. Fine(st) /\ Steady(x.lc, st.lc)
  BY <1>1, <1>9, PhaseCheckedFine
<1> HIDE DEF st
<1>11. Outcome(t.lc, t.box)
  BY <1>1, <1>9, <1>10, LoopHeadFine DEF Steady
<1> HIDE DEF t
<1> QED
  BY <1>2, <1>11
=============================================================================
