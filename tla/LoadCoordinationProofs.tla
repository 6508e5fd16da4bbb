------------------------ MODULE LoadCoordinationProofs ------------------------
(***************************************************************************)
(* For any number of solvers, any leaves, values and bounds, and any       *)
(* length of the queues: each report and each request of a solver has one  *)
(* answer, the solvers and the load coordinator agree on who has which     *)
(* node, and no solution by which SCIP prunes is lost.                     *)
(*                                                                         *)
(* None of the three is inductive.  What a solver and the load coordinator *)
(* know of each other is spread over both and the two queues between them: *)
(* the invariant IInv says, for each solver, what its messages on the way  *)
(* to the load coordinator, its own record, the messages on the way to it  *)
(* and the load coordinator's entry for it tell together.  First the       *)
(* handlers of the load coordinator are shown to keep it, as operators on  *)
(* the pair of the load coordinator and the queues, then the steps of the  *)
(* solvers.  The loops (NodesSent, DeletedBehind, and the messages a solver     *)
(* receives in one step) are recursive functions of the module             *)
(* LoadCoordination; a least counterexample stands for the induction along *)
(* them.                                                                   *)
(***************************************************************************)
EXTENDS LoadCoordination, FiniteSetTheorems, SequenceTheorems, WellFoundedInduction, TLAPS

-----------------------------------------------------------------------------
(* The invariant.                                                          *)

\* The values of solutions, and that of none.
Vals     == {Value[l] : l \in Leaves} \cup {Inf}
\* The nodes, and what a solver has: a node or none.
NodeSet  == [id : Nat \ {0}, leaves : (SUBSET Leaves) \ {{}}, bound : Nat, anc : Nat]
MaybeNode == NodeSet \cup {NoNode}

\* The records of the load coordinator, and of a solver.
CoordSet == [pc : {"run", "check", "closing", "done"}, pool : Seq(NodeSet),
             cur : [Solvers -> MaybeNode], sbound : [Solvers -> Nat], inc : Vals,
             phase : {"rampUp", "normal", "termination"}, intr : BOOLEAN,
             nterm : Nat, hard : BOOLEAN, cmp : BOOLEAN]

SolverSet == [pc : {"idle", "solve", "report", "ask", "waitid", "waitack", "finish",
                    "complete", "await", "exit", "gone"},
              cur : MaybeNode, new : MaybeNode, open : SUBSET Leaves,
              own : Vals, inc : Vals, best : Vals, loc : Vals, pend : Vals,
              asked : BOOLEAN, noticed : BOOLEAN,
              term : {"no", "normal", "interrupted"}, rampUp : BOOLEAN]

\* The messages to the load coordinator, and to the solvers.
ToCoord ==
    [tag : {"Node"}, src : Solvers, val : [leaves : (SUBSET Leaves) \ {{}}, bound : Nat]]
    \cup [tag : {"Solution"}, src : Solvers, val : Vals]
    \cup [tag : {"SolverState"}, src : Solvers, val : [bound : Nat, best : Vals]]
    \cup [tag : {"Completion"}, src : Solvers, val : {"normal", "another", "interrupt"}]
    \cup [tag : {"AnotherNodeRequest"}, src : Solvers, val : Nat]
    \cup [tag : {"Terminated"}, src : Solvers, val : {0, 1}]
ToSolver ==
    [tag : {"Node"}, src : {0}, val : NodeSet]
    \cup [tag : {"Solution", "IncumbentValue"}, src : {0}, val : Vals]
    \cup [tag : {"NodeReceived", "RampUp", "NoNodes", "NotificationId",
                 "TerminateRequest", "InterruptRequest"}, src : {0}, val : {0}]

\* Queues.
None(q, T)   == \A k \in DOMAIN q : q[k] \notin T
Single(q, T) == \E k \in DOMAIN q : q[k] \in T /\ \A j \in DOMAIN q : q[j] \in T => j = k

\* The messages of s to the load coordinator by what they are about: its report,
\* its request, the end of its node; and those to it.
States(s)   == {m \in ToCoord : m.tag = "SolverState" /\ m.src = s}
Requests(s) == {m \in ToCoord : m.tag = "AnotherNodeRequest" /\ m.src = s}
Ends(s)     == {m \in ToCoord : m.tag = "Completion" /\ m.src = s /\ m.val # "another"}
Answers     == {m \in ToSolver : m.tag = "NotificationId"}
Refusals    == {m \in ToSolver : m.tag = "NoNodes"}
NewNodes    == {m \in ToSolver : m.tag = "Node"}
Replies     == Refusals \cup NewNodes

\* One in the two queues together.
One(q, T, r, U) == \/ Single(q, T) /\ None(r, U)
                   \/ None(q, T) /\ Single(r, U)

\* The same node, whatever its bound and its ancestor are by now.
Same(m, n) == m.id = n.id /\ m.leaves = n.leaves
Alike(c, d) == d.inc = c.inc /\ \A s \in Solvers : Same(c.cur[s], d.cur[s])

\* A solver that ends its node has no request behind it; until both
\* are handled the load coordinator knows of a node at it.
Order(c, q, s) ==
    /\ \A k \in DOMAIN q : q[k] \in Ends(s) \cup Requests(s) => c.cur[s] # NoNode
    /\ \A j, k \in DOMAIN q : q[j] \in Ends(s) /\ q[k] \in Ends(s) \cup Requests(s) => k <= j

\* One report or answer is on its way if the solver v waits for one, else none;
\* so for requests.
Reports(q, v, r, s) ==
    IF v.noticed THEN One(q, States(s), r, Answers) ELSE None(q, States(s)) /\ None(r, Answers)
Asks(q, v, r, s) ==
    IF v.asked THEN One(q, Requests(s), r, Replies)
    ELSE /\ None(q, Requests(s)) /\ None(r, Refusals)
         /\ v.cur # NoNode => None(r, NewNodes)
\* A solver without a node.
Waits(q, v, r, s) ==
    IF v.cur # NoNode THEN None(q, Ends(s))
    ELSE /\ v.new = NoNode /\ ~v.asked
         /\ None(r, NewNodes) \/ (Single(r, NewNodes) /\ None(q, Ends(s)))
\* The node of a solver, and its agreement with the load coordinator on it.
Has(v) == IF v.new # NoNode THEN v.new ELSE v.cur
Agrees(n, q, v, r, s) ==
    None(q, Ends(s)) =>
        /\ \A k \in DOMAIN r : r[k] \in NewNodes => Same(n, r[k].val)
        /\ None(r, NewNodes) => Same(n, Has(v))
Talks(n, q, v, r, s) ==
    /\ Reports(q, v, r, s) /\ Asks(q, v, r, s) /\ Waits(q, v, r, s) /\ Agrees(n, q, v, r, s)

\* A solution no worse than x has come to the load coordinator or is on its way.
Arrives(c, q, x) == c.inc <= x \/ \E k \in DOMAIN q : q[k].tag = "Solution" /\ q[k].val <= x
\* The solver is told, and knows, no value better than the incumbent.
Told(c, r) == \A k \in DOMAIN r : r[k].tag \in {"Solution", "IncumbentValue"} => c.inc <= r[k].val
Knows(c, v) == (v.inc < Inf => c.inc <= v.inc) /\ (v.pend < Inf => c.inc <= v.pend)
\* No solution of the solver is left to be sent.
Keeps(c, q, v) ==
    /\ v.loc = Inf
    /\ v.own < Inf => Arrives(c, q, v.own)
    /\ v.best < Inf => Arrives(c, q, v.best)
\* Every report is waited for.
Paced(v) == (v.noticed => v.pc = "waitid") /\ v.pc # "finish"

Gone(v)    == v.pc \in {"exit", "gone"}
PcOk(v)    == v.pc = "idle" <=> v.cur = NoNode
\* What holds of solver s, with q the queue to the load coordinator c and r the one
\* to the solver v.
SolverOk(c, q, v, r, s) ==
    /\ Told(c, r)
    /\ ~Gone(v) =>
          /\ PcOk(v) /\ Talks(c.cur[s], q, v, r, s) /\ Knows(c, v)
          /\ sync => Paced(v) /\ Keeps(c, q, v)

\* The types of the load coordinator and the queues, and of the solvers.
Typed(c, b) ==
    /\ c \in CoordSet /\ b \in [0..N -> Seq(ToCoord) \cup Seq(ToSolver)]
    /\ b[0] \in Seq(ToCoord) /\ \A s \in Solvers : b[s] \in Seq(ToSolver)
SvTyped == sv \in [Solvers -> SolverSet] /\ sync \in BOOLEAN

\* The invariant, as a condition on the load coordinator and the queues.
CoordOk(c, b) ==
    /\ Typed(c, b)
    /\ \A s \in Solvers : Order(c, b[0], s) /\ SolverOk(c, b[0], sv[s], b[s], s)
Ok(st) == st = [lc |-> st.lc, box |-> st.box] /\ CoordOk(st.lc, st.box)
IInv == SvTyped /\ CoordOk(lc, box)

\* The values are numbers up to Inf.
LEMMA ValsIs ==
    /\ Inf \in Vals /\ \A l \in Leaves : Value[l] \in Vals
    /\ \A x \in Vals : x \in Int /\ 0 <= x /\ x <= 100
BY ValueAssumption, BoundAssumption DEF Vals, Inf

\* None and Single of a queue that is extended, or loses its head.
LEMMA JoinedQueue ==
    ASSUME NEW S, NEW q \in Seq(S), NEW p \in Seq(S), NEW T
    PROVE  /\ q \o p \in Seq(S)
           /\ None(q \o p, T) <=> None(q, T) /\ None(p, T)
           /\ Single(q \o p, T) <=> One(q, T, p, T)
<1> DEFINE z == q \o p
           n == Len(q)
<1>1. /\ z \in Seq(S) /\ n \in Nat /\ Len(p) \in Nat
      /\ DOMAIN q = 1..n /\ DOMAIN p = 1..Len(p) /\ DOMAIN z = 1..(n + Len(p))
      /\ \A k \in 1..n : z[k] = q[k]
      /\ \A k \in 1..Len(p) : z[n + k] = p[k]
      /\ \A k \in DOMAIN z : k > n => k - n \in 1..Len(p) /\ z[k] = p[k - n]
  OBVIOUS
<1> HIDE DEF z, n
<1>2. None(z, T) <=> None(q, T) /\ None(p, T)
  <2>1. ASSUME None(z, T) PROVE None(q, T) /\ None(p, T)
    <3>1. ASSUME NEW k \in DOMAIN q PROVE q[k] \notin T
      BY <1>1, <2>1 DEF None
    <3>2. ASSUME NEW k \in DOMAIN p PROVE p[k] \notin T
      <4>1. n + k \in DOMAIN z /\ z[n + k] = p[k]
        BY <1>1
      <4> QED
        BY <2>1, <4>1 DEF None
    <3> QED
      BY <3>1, <3>2 DEF None
  <2>2. ASSUME None(q, T), None(p, T) PROVE None(z, T)
    BY <1>1, <2>2 DEF None
  <2> QED
    BY <2>1, <2>2
<1>3. ASSUME Single(z, T) PROVE One(q, T, p, T)
  <2>1. PICK k \in DOMAIN z : z[k] \in T /\ \A j \in DOMAIN z : z[j] \in T => j = k
    BY <1>3 DEF Single
  <2>2. CASE k <= n
    <3>1. Single(q, T)
      BY <1>1, <2>1, <2>2 DEF Single
    <3>2. None(p, T)
      <4>1. ASSUME NEW j \in DOMAIN p, p[j] \in T PROVE FALSE
        BY <1>1, <2>1, <2>2, <4>1
      <4> QED
        BY <4>1 DEF None
    <3> QED
      BY <3>1, <3>2 DEF One
  <2>3. CASE k > n
    <3>1. None(q, T)
      BY <1>1, <2>1, <2>3 DEF None
    <3>2. p[k - n] \in T /\ k - n \in DOMAIN p
      BY <1>1, <2>1, <2>3
    <3>3. ASSUME NEW j \in DOMAIN p, p[j] \in T PROVE j = k - n
      BY <1>1, <2>1, <3>3
    <3> QED
      BY <3>1, <3>2, <3>3 DEF One, Single
  <2> QED
    BY <1>1, <2>2, <2>3
<1>4. ASSUME One(q, T, p, T) PROVE Single(z, T)
  <2>1. CASE Single(q, T) /\ None(p, T)
    <3>1. PICK k \in DOMAIN q : q[k] \in T /\ \A j \in DOMAIN q : q[j] \in T => j = k
      BY <2>1 DEF Single
    <3>2. ASSUME NEW j \in DOMAIN z, z[j] \in T PROVE j = k
      <4>1. ASSUME j > n PROVE FALSE
        <5>1. j - n \in DOMAIN p /\ p[j - n] = z[j]
          BY <1>1, <3>2, <4>1
        <5> QED
          BY <2>1, <3>2, <5>1 DEF None
      <4>2. j <= n
        BY <1>1, <3>2, <4>1
      <4> QED
        BY <1>1, <3>1, <3>2, <4>2
    <3>3. k \in DOMAIN z /\ z[k] \in T
      BY <1>1, <3>1
    <3> QED
      BY <3>2, <3>3 DEF Single
  <2>2. CASE None(q, T) /\ Single(p, T)
    <3>1. PICK k \in DOMAIN p : p[k] \in T /\ \A j \in DOMAIN p : p[j] \in T => j = k
      BY <2>2 DEF Single
    <3>2. ASSUME NEW j \in DOMAIN z, z[j] \in T PROVE j = n + k
      <4>1. j > n
        BY <1>1, <2>2, <3>2 DEF None
      <4>2. j - n \in DOMAIN p /\ p[j - n] \in T
        BY <1>1, <3>2, <4>1
      <4> QED
        BY <1>1, <3>1, <4>2
    <3>3. n + k \in DOMAIN z /\ z[n + k] \in T
      BY <1>1, <3>1
    <3> QED
      BY <3>2, <3>3 DEF Single
  <2> QED
    BY <1>4, <2>1, <2>2 DEF One
<1> QED
  BY <1>1, <1>2, <1>3, <1>4 DEF z

\* The same of a queue of one message.
LEMMA OneMessage ==
    ASSUME NEW S, NEW m \in S, NEW T
    PROVE  /\ <<m>> \in Seq(S) /\ <<>> \in Seq(S)
           /\ None(<<m>>, T) <=> m \notin T
           /\ Single(<<m>>, T) <=> m \in T
           /\ None(<<>>, T) /\ ~Single(<<>>, T)
BY DEF None, Single

\* The same of the empty queue.
LEMMA NoMessage ==
    ASSUME NEW T
    PROVE  None(<<>>, T) /\ ~Single(<<>>, T)
BY DEF None, Single

\* No message and one exclude each other.
LEMMA NotBoth ==
    ASSUME NEW q, NEW T
    PROVE  ~(None(q, T) /\ Single(q, T))
BY DEF None, Single

\* A queue is its head and the rest.
LEMMA HeadAndTail ==
    ASSUME NEW S, NEW q \in Seq(S), q # <<>>
    PROVE  /\ Head(q) \in S /\ <<Head(q)>> \in Seq(S) /\ Tail(q) \in Seq(S)
           /\ q = <<Head(q)>> \o Tail(q)
           /\ Len(Tail(q)) = Len(q) - 1 /\ Len(q) \in Nat \ {0}
           /\ Head(q) = q[1] /\ \A k \in 1..(Len(q) - 1) : Tail(q)[k] = q[k + 1]
<1>1. /\ Head(q) \in S /\ Tail(q) \in Seq(S)
      /\ Len(Tail(q)) = Len(q) - 1 /\ Len(q) \in Nat \ {0}
      /\ Head(q) = q[1] /\ \A k \in 1..(Len(q) - 1) : Tail(q)[k] = q[k + 1]
  OBVIOUS
<1>2. q = <<Head(q)>> \o Tail(q)
  <2> DEFINE z == <<Head(q)>> \o Tail(q)
  <2>1. /\ <<Head(q)>> \in Seq(S) /\ Len(<<Head(q)>>) = 1 /\ <<Head(q)>>[1] = q[1]
    BY <1>1
  <2>2. /\ z \in Seq(S) /\ Len(z) = Len(q)
        /\ \A i \in 1..Len(q) : z[i] = IF i <= 1 THEN <<Head(q)>>[i] ELSE Tail(q)[i - 1]
    BY <1>1, <2>1, ConcatProperties
  <2>3. \A i \in 1..Len(q) : z[i] = q[i]
    <3>1. ASSUME NEW i \in 1..Len(q), i # 1 PROVE Tail(q)[i - 1] = q[i]
      BY <1>1, <3>1
    <3> QED
      BY <1>1, <2>1, <2>2, <3>1
  <2> HIDE DEF z
  <2> QED
    BY <2>2, <2>3, SeqEqual DEF z
<1> QED
  BY <1>1, <1>2

\* A queue that loses its first message holds no, or one, message of T.
LEMMA ShorterQueue ==
    ASSUME NEW S, NEW q \in Seq(S), q # <<>>, NEW T
    PROVE  /\ None(q, T) <=> Head(q) \notin T /\ None(Tail(q), T)
           /\ Single(q, T) <=> \/ Head(q) \in T /\ None(Tail(q), T)
                               \/ Head(q) \notin T /\ Single(Tail(q), T)
<1>1. /\ Head(q) \in S /\ <<Head(q)>> \in Seq(S) /\ Tail(q) \in Seq(S)
      /\ q = <<Head(q)>> \o Tail(q)
  BY HeadAndTail
<1>2. /\ None(<<Head(q)>>, T) <=> Head(q) \notin T
      /\ Single(<<Head(q)>>, T) <=> Head(q) \in T
  BY <1>1, OneMessage
<1>3. /\ None(q, T) <=> None(<<Head(q)>>, T) /\ None(Tail(q), T)
      /\ Single(q, T) <=> One(<<Head(q)>>, T, Tail(q), T)
  <2> DEFINE x == <<Head(q)>>
             y == Tail(q)
  <2>1. x \in Seq(S) /\ y \in Seq(S) /\ q = x \o y
    BY <1>1
  <2> HIDE DEF x, y
  <2>2. /\ None(x \o y, T) <=> None(x, T) /\ None(y, T)
        /\ Single(x \o y, T) <=> One(x, T, y, T)
    BY <2>1, JoinedQueue
  <2> QED
    BY <2>1, <2>2 DEF x, y
<1> QED
  BY <1>2, <1>3 DEF One

-----------------------------------------------------------------------------
(* The operators of the load coordinator.                                  *)

\* Every non-empty set of natural numbers has a least element.
LEMMA LeastNat ==
    ASSUME NEW T, T \subseteq Nat, T # {}
    PROVE  \E x \in T : \A y \in T : x <= y
<1>1. PICK x \in T : \A y \in T : ~(<<y, x>> \in OpToRel(<, Nat))
  BY NatLessThanWellFounded, WFMin
<1>2. \A y \in T : ~(<<y, x>> \in OpToRel(<, Nat)) => ~(y < x)
  BY Zenon DEF OpToRel
<1>3. \A y \in T : ~(y < x)
  BY <1>1, <1>2, Zenon
<1> QED
  BY <1>3

\* A row of values, each made from the one before.
IsRow(r, F, x, q, n) == \A k \in 0..n : r[k] = IF k = 0 THEN x ELSE F[<<r[k - 1], q[k]>>]

\* The values of a loop over a queue exist, for any length: a least
\* counterexample.
LEMMA RowExists ==
    ASSUME NEW A, NEW B, NEW F \in [A \X B -> A], NEW x \in A, NEW q \in Seq(B)
    PROVE  \E r \in [0..Len(q) -> A] : IsRow(r, F, x, q, Len(q))
<1> USE DEF IsRow
<1> DEFINE bad == {n \in 0..Len(q) : ~\E r \in [0..n -> A] : IsRow(r, F, x, q, n)}
<1>1. Len(q) \in Nat /\ \A k \in 1..Len(q) : q[k] \in B
  OBVIOUS
<1>2. bad = {}
  <2> SUFFICES ASSUME bad # {} PROVE FALSE
    OBVIOUS
  <2>1. bad \subseteq Nat
    BY <1>1
  <2>2. PICK n \in bad : \A j \in bad : n <= j
    BY <2>1, LeastNat
  <2>3. n # 0
    <3>1. [j \in 0..0 |-> x] \in [0..0 -> A] /\ IsRow([j \in 0..0 |-> x], F, x, q, 0)
      OBVIOUS
    <3> QED
      BY <3>1
  <2>4. n - 1 \in 0..Len(q) /\ n - 1 \notin bad /\ n \in 1..Len(q)
    <3>1. n \in 0..Len(q)
      OBVIOUS
    <3> HIDE DEF bad
    <3> QED
      BY <1>1, <2>2, <2>3, <3>1
  <2>5. PICK g \in [0..(n - 1) -> A] : IsRow(g, F, x, q, n - 1)
    BY <2>4
  <2> DEFINE r == [j \in 0..n |-> IF j = n THEN F[<<g[n - 1], q[n]>>] ELSE g[j]]
  <2>6. r \in [0..n -> A]
    BY <1>1, <2>4, <2>5
  <2>7. \A j \in 0..(n - 1) : r[j] = g[j]
    BY <2>4
  <2>8. IsRow(r, F, x, q, n)
    <3>1. ASSUME NEW k \in 0..n, k # n
          PROVE  r[k] = IF k = 0 THEN x ELSE F[<<r[k - 1], q[k]>>]
      <4>1. k \in 0..(n - 1) /\ (k # 0 => k - 1 \in 0..(n - 1))
        BY <2>4, <3>1
      <4>2. g[k] = IF k = 0 THEN x ELSE F[<<g[k - 1], q[k]>>]
        BY <2>5, <4>1
      <4> HIDE DEF r
      <4> QED
        BY <2>7, <4>1, <4>2
    <3>2. r[n] = F[<<r[n - 1], q[n]>>]
      <4>1. n - 1 \in 0..(n - 1) /\ n \in 0..n
        BY <2>4
      <4> QED
        BY <2>7, <4>1
    <3> HIDE DEF r
    <3> QED
      BY <2>3, <3>1, <3>2
  <2> HIDE DEF r
  <2> QED
    BY <2>2, <2>6, <2>8
<1>3. Len(q) \in 0..Len(q)
  BY <1>1
<1> QED
  BY <1>2, <1>3

\* What each step of a loop keeps holds after all of them.
LEMMA RowStays ==
    ASSUME NEW A, NEW z, NEW n \in Nat, z[0] \in A,
           \A k \in 1..n : z[k - 1] \in A => z[k] \in A
    PROVE  \A k \in 0..n : z[k] \in A
<1> DEFINE bad == {k \in 0..n : z[k] \notin A}
<1> SUFFICES ASSUME bad # {} PROVE FALSE
  OBVIOUS
<1>1. PICK k \in bad : \A j \in bad : k <= j
  <2>1. bad \subseteq Nat
    OBVIOUS
  <2> QED
    BY <2>1, LeastNat
<1>2. k \in 1..n /\ k - 1 \in 0..n /\ k - 1 \notin bad
  BY <1>1
<1> QED
  BY <1>1, <1>2

\* Least finds the least element.
LEMMA LeastIs ==
    ASSUME NEW T, T \subseteq Nat, T # {}
    PROVE  Least(T) \in T /\ \A y \in T : Least(T) <= y
<1>1. \E x \in T : \A y \in T : x <= y
  BY LeastNat
<1> QED
  BY <1>1 DEF Least

\* What a node, or the lack of one, is.
LEMMA NodeTypes ==
    /\ NoNode = [id |-> 0, leaves |-> {}, bound |-> 0, anc |-> 0]
    /\ NoNode \notin NodeSet
    /\ \A n \in MaybeNode : /\ n.id \in Nat /\ n.bound \in Nat /\ n.anc \in Nat /\ n.leaves \subseteq Leaves
                            /\ n = NoNode <=> n.id = 0
                            /\ n = NoNode <=> n.leaves = {}
                            /\ n # NoNode <=> n \in NodeSet
<1>1. NoNode = [id |-> 0, leaves |-> {}, bound |-> 0, anc |-> 0]
  BY DEF NoNode, Node
<1>2. \A n \in NodeSet : n.id \in Nat \ {0} /\ n.leaves # {} /\ n.leaves \subseteq Leaves
                         /\ n.bound \in Nat /\ n.anc \in Nat
  BY DEF NodeSet
<1> QED
  BY <1>1, <1>2 DEF MaybeNode

\* The fields of the load coordinator.
LEMMA CoordFields ==
    ASSUME NEW c \in CoordSet
    PROVE  /\ c = [pc |-> c.pc, pool |-> c.pool, cur |-> c.cur, sbound |-> c.sbound, inc |-> c.inc,
                   phase |-> c.phase, intr |-> c.intr, nterm |-> c.nterm, hard |-> c.hard, cmp |-> c.cmp]
           /\ c.pc \in {"run", "check", "closing", "done"} /\ c.pool \in Seq(NodeSet)
           /\ c.cur \in [Solvers -> MaybeNode] /\ c.sbound \in [Solvers -> Nat] /\ c.inc \in Vals
           /\ c.phase \in {"rampUp", "normal", "termination"} /\ c.intr \in BOOLEAN
           /\ c.nterm \in Nat /\ c.hard \in BOOLEAN /\ c.cmp \in BOOLEAN
           /\ DOMAIN c = {"pc", "pool", "cur", "sbound", "inc", "phase", "intr", "nterm", "hard", "cmp"}
BY DEF CoordSet

\* There are finitely many solvers, and the first is one.
LEMMA SolversFinite == IsFiniteSet(Solvers) /\ Solvers \subseteq Nat \ {0} /\ 0 \notin Solvers /\ 1 \in Solvers
<1>1. N \in Int /\ 1 \in Int
  BY NAssumption
<1>2. IsFiniteSet(1..N)
  BY <1>1, FS_Interval
<1> QED
  BY <1>2, NAssumption DEF Solvers

\* A fresh id is one, and exists.
LEMMA FreshIdIs ==
    ASSUME NEW c \in CoordSet
    PROVE  FreshId(c) \in Nat \ {0} /\ \A n \in Nodes(c) : n.id # FreshId(c)
<1> DEFINE A == Nodes(c)
           F == {k \in 1..(Cardinality(A) + 1) : \A n \in A : n.id # k}
<1>1. IsFiniteSet(A)
  <2>1. IsFiniteSet(ToSet(c.pool))
    <3>1. c.pool \in Seq(NodeSet) /\ Len(c.pool) \in Nat
      BY DEF CoordSet
    <3>2. IsFiniteSet(1..Len(c.pool))
      BY <3>1, FS_Interval
    <3>3. [i \in 1..Len(c.pool) |-> c.pool[i]] \in Surjection(1..Len(c.pool), ToSet(c.pool))
      BY <3>1 DEF Surjection, ToSet
    <3> QED
      BY <3>2, <3>3, FS_Surjection
  <2>2. IsFiniteSet({c.cur[s] : s \in Active(c)})
    <3>1. IsFiniteSet(Active(c))
      BY SolversFinite, FS_Subset DEF Active
    <3>2. [s \in Active(c) |-> c.cur[s]] \in Surjection(Active(c), {c.cur[s] : s \in Active(c)})
      BY DEF Surjection
    <3> QED
      BY <3>1, <3>2, FS_Surjection
  <2> QED
    BY <2>1, <2>2, FS_Union DEF Nodes
<1>2. Cardinality(A) \in Nat
  BY <1>1, FS_CardinalityType
<1>3. F # {}
  <2> SUFFICES ASSUME F = {} PROVE FALSE
    OBVIOUS
  <2> DEFINE K == 1..(Cardinality(A) + 1)
             f == [k \in K |-> CHOOSE n \in A : n.id = k]
  <2>1. \A k \in K : \E n \in A : n.id = k
    OBVIOUS
  <2>2. f \in [K -> A] /\ \A k \in K : f[k].id = k
    BY <2>1
  <2>3. IsFiniteSet(K) /\ Cardinality(K) = Cardinality(A) + 1
    BY <1>2, FS_Interval
  <2> HIDE DEF f, K, A
  <2>4. Cardinality(A) < Cardinality(K)
    BY <1>2, <2>3
  <2>5. \E x, y \in K : x # y /\ f[x] = f[y]
    BY <1>1, <2>2, <2>3, <2>4, FS_PigeonHole
  <2> QED
    BY <2>2, <2>5
<1>4. F \subseteq Nat /\ F \subseteq Nat \ {0}
  BY <1>2
<1>5. FreshId(c) = Least(F)
  BY DEF FreshId
<1>6. Least(F) \in F
  BY <1>3, <1>4, LeastIs
<1> QED
  BY <1>4, <1>5, <1>6

\* The number of nodes of the pool that are no worse than b.
LEMMA CountOfPool ==
    ASSUME NEW p \in Seq(NodeSet), NEW b
    PROVE  Cardinality({j \in DOMAIN p : p[j].bound <= b}) \in 0..Len(p)
<1> DEFINE B == {j \in DOMAIN p : p[j].bound <= b}
<1>1. Len(p) \in Nat /\ DOMAIN p = 1..Len(p)
  OBVIOUS
<1>2. IsFiniteSet(1..Len(p)) /\ Cardinality(1..Len(p)) = Len(p)
  BY <1>1, FS_Interval
<1>3. B \in SUBSET (1..Len(p))
  BY <1>1
<1>4. IsFiniteSet(B) /\ Cardinality(B) <= Len(p)
  BY <1>2, <1>3, FS_Subset
<1>5. Cardinality(B) \in Nat
  BY <1>4, FS_CardinalityType
<1> QED
  BY <1>1, <1>4, <1>5

\* What SubSeq keeps of the begin and of the end of a queue.
LEMMA PartOfQueue ==
    ASSUME NEW S, NEW p \in Seq(S), NEW k \in 0..Len(p)
    PROVE  /\ SubSeq(p, 1, k) \in Seq(S) /\ Len(SubSeq(p, 1, k)) = k
           /\ \A i \in 1..k : SubSeq(p, 1, k)[i] = p[i]
           /\ SubSeq(p, k + 1, Len(p)) \in Seq(S) /\ Len(SubSeq(p, k + 1, Len(p))) = Len(p) - k
           /\ \A i \in 1..(Len(p) - k) : SubSeq(p, k + 1, Len(p))[i] = p[k + i]
<1>1. Len(p) \in Nat /\ \A i \in 1..Len(p) : p[i] \in S
  OBVIOUS
<1>2. \A i \in 1..k : p[i] \in S
  BY <1>1
<1>3. \A i \in (k + 1)..Len(p) : p[i] \in S
  BY <1>1
<1>4. /\ SubSeq(p, 1, k) \in Seq(S) /\ Len(SubSeq(p, 1, k)) = (IF 1 <= k THEN k - 1 + 1 ELSE 0)
      /\ \A i \in 1..(k - 1 + 1) : SubSeq(p, 1, k)[i] = p[1 + i - 1]
  BY <1>2, SubSeqProperties
<1>5. /\ SubSeq(p, k + 1, Len(p)) \in Seq(S)
      /\ Len(SubSeq(p, k + 1, Len(p))) = IF k + 1 <= Len(p) THEN Len(p) - (k + 1) + 1 ELSE 0
      /\ \A i \in 1..(Len(p) - (k + 1) + 1) : SubSeq(p, k + 1, Len(p))[i] = p[k + 1 + i - 1]
  BY <1>1, <1>3, SubSeqProperties
<1> QED
  BY <1>1, <1>4, <1>5

\* A node is inserted in the pool.
LEMMA InsertedIs ==
    ASSUME NEW p \in Seq(NodeSet), NEW n \in NodeSet
    PROVE  Inserted(p, n) \in Seq(NodeSet)
<1> DEFINE k == Cardinality({j \in DOMAIN p : p[j].bound <= n.bound})
<1>1. k \in 0..Len(p) /\ Len(p) \in Nat
  BY CountOfPool, LenProperties, Zenon
<1>2. SubSeq(p, 1, k) \in Seq(NodeSet) /\ SubSeq(p, k + 1, Len(p)) \in Seq(NodeSet)
  BY <1>1, PartOfQueue
<1>3. Inserted(p, n) = SubSeq(p, 1, (k + 1) - 1) \o <<n>> \o SubSeq(p, k + 1, Len(p))
  BY DEF Inserted, InsertAt
<1>4. (k + 1) - 1 = k
  BY <1>1
<1>5. SubSeq(p, 1, k) \o <<n>> \in Seq(NodeSet)
  BY <1>2
<1> HIDE DEF k
<1> QED
  BY <1>2, <1>3, <1>4, <1>5

\* The adoption of a node changes neither its number nor its leaves.
LEMMA OrphanedIs ==
    ASSUME NEW n, NEW x \in NodeSet
    PROVE  /\ n \in NodeSet => Orphaned(n, x) \in NodeSet /\ Same(n, Orphaned(n, x))
           /\ n = NoNode => Orphaned(n, x) = NoNode
<1>1. x.id # 0 /\ x.anc \in Nat
  BY DEF NodeSet
<1>2. n \in NodeSet => Orphaned(n, x) \in NodeSet /\ Same(n, Orphaned(n, x))
  BY <1>1 DEF NodeSet, Orphaned, Same
<1>3. Orphaned(NoNode, x) = NoNode
  BY <1>1, NodeTypes DEF Orphaned
<1> QED
  BY <1>2, <1>3

\* The deletion of a node leaves the nodes at the solvers alike.
LEMMA FreedIs ==
    ASSUME NEW c \in CoordSet, NEW x \in NodeSet
    PROVE  Freed(c, x) \in CoordSet /\ Alike(c, Freed(c, x))
<1> DEFINE P == [k \in DOMAIN c.pool |-> Orphaned(c.pool[k], x)]
           C == [s \in Solvers |-> Orphaned(c.cur[s], x)]
<1>1. Freed(c, x) = [c EXCEPT !.pool = P, !.cur = C]
  BY DEF Freed
<1>2. c.pool \in Seq(NodeSet) /\ c.cur \in [Solvers -> MaybeNode]
  BY DEF CoordSet
<1>3. P \in Seq(NodeSet)
  BY <1>2, OrphanedIs
<1>4. ASSUME NEW s \in Solvers
      PROVE  C[s] \in MaybeNode /\ Same(c.cur[s], C[s])
  BY <1>2, OrphanedIs DEF MaybeNode, Same
<1>5. C \in [Solvers -> MaybeNode]
  BY <1>4
<1> HIDE DEF P, C
<1>6. Freed(c, x) \in CoordSet /\ Freed(c, x).cur = C /\ Freed(c, x).inc = c.inc
  BY <1>1, <1>3, <1>5 DEF CoordSet
<1> QED
  BY <1>4, <1>6 DEF Alike

\* A node is taken out of the pool.
LEMMA RemovedIs ==
    ASSUME NEW S, NEW p \in Seq(S), NEW k \in DOMAIN p
    PROVE  /\ RemoveAt(p, k) \in Seq(S) /\ Len(RemoveAt(p, k)) = Len(p) - 1
           /\ \A i \in 1..(k - 1) : RemoveAt(p, k)[i] = p[i]
           /\ \A i \in k..(Len(p) - 1) : RemoveAt(p, k)[i] = p[i + 1]
<1>1. Len(p) \in Nat /\ k \in 1..Len(p)
  OBVIOUS
<1>2. k - 1 \in 0..Len(p) /\ k \in 0..Len(p) /\ 0 \in 0..Len(p)
  BY <1>1
<1> DEFINE x == SubSeq(p, 1, k - 1)
           y == SubSeq(p, k + 1, Len(p))
<1>3. /\ x \in Seq(S) /\ Len(x) = k - 1 /\ \A i \in 1..(k - 1) : x[i] = p[i]
  BY <1>2, PartOfQueue
<1>4. /\ y \in Seq(S) /\ Len(y) = Len(p) - k /\ \A i \in 1..(Len(p) - k) : y[i] = p[k + i]
  BY <1>2, PartOfQueue
<1>5. RemoveAt(p, k) = x \o y
  BY DEF RemoveAt
<1> HIDE DEF x, y
<1>6. /\ x \o y \in Seq(S) /\ Len(x \o y) = Len(p) - 1
      /\ \A i \in 1..(k - 1) : (x \o y)[i] = x[i]
      /\ \A i \in 1..(Len(p) - k) : (x \o y)[k - 1 + i] = y[i]
  <2>1. x \in Seq(S) /\ y \in Seq(S)
    BY <1>3, <1>4
  <2>2. x \o y \in Seq(S) /\ Len(x \o y) = Len(x) + Len(y)
    BY <2>1
  <2>3. \A i \in 1..Len(x) : (x \o y)[i] = x[i]
    BY <2>1
  <2>4. \A i \in 1..Len(y) : (x \o y)[Len(x) + i] = y[i]
    BY <2>1
  <2>5. Len(x) = k - 1 /\ Len(y) = Len(p) - k /\ Len(x) + Len(y) = Len(p) - 1
    BY <1>1, <1>3, <1>4
  <2> QED
    BY <2>2, <2>3, <2>4, <2>5
<1>7. ASSUME NEW i \in k..(Len(p) - 1)
      PROVE  (x \o y)[i] = p[i + 1]
  <2>1. i - (k - 1) \in 1..(Len(p) - k) /\ i = k - 1 + (i - (k - 1)) /\ k + (i - (k - 1)) = i + 1
    BY <1>1
  <2>2. (x \o y)[k - 1 + (i - (k - 1))] = y[i - (k - 1)] /\ y[i - (k - 1)] = p[k + (i - (k - 1))]
    BY <1>4, <1>6, <2>1
  <2> QED
    BY <2>1, <2>2
<1>8. \A i \in 1..(k - 1) : (x \o y)[i] = p[i]
  BY <1>3, <1>6
<1> QED
  BY <1>5, <1>6, <1>7, <1>8

\* The deletion of a node of the pool leaves the nodes at the solvers alike.
LEMMA DeletedIs ==
    ASSUME NEW c \in CoordSet, NEW k \in DOMAIN c.pool
    PROVE  /\ Deleted(c, k) \in CoordSet /\ Alike(c, Deleted(c, k))
           /\ Len(Deleted(c, k).pool) = Len(c.pool) - 1
<1> DEFINE p == RemoveAt(c.pool, k)
           d == [c EXCEPT !.pool = p]
<1>1. c.pool \in Seq(NodeSet) /\ c.pool[k] \in NodeSet
  BY DEF CoordSet
<1>2. p \in Seq(NodeSet) /\ Len(p) = Len(c.pool) - 1
  BY <1>1, RemovedIs
<1> HIDE DEF p
<1>3. d \in CoordSet /\ d.pool = p /\ Alike(c, d)
  BY <1>2 DEF CoordSet, Alike, Same
<1>4. Deleted(c, k) = Freed(d, c.pool[k])
  BY DEF Deleted, p
<1> HIDE DEF d
<1>5. Freed(d, c.pool[k]) \in CoordSet /\ Alike(d, Freed(d, c.pool[k]))
  BY <1>1, <1>3, FreedIs
<1>6. Alike(c, Freed(d, c.pool[k]))
  BY <1>3, <1>5 DEF Alike, Same
<1>7. Len(Freed(d, c.pool[k]).pool) = Len(p)
  <2>1. Freed(d, c.pool[k]).pool = [i \in DOMAIN p |-> Orphaned(p[i], c.pool[k])]
    BY <1>3 DEF Freed, CoordSet
  <2>2. Freed(d, c.pool[k]).pool \in Seq(NodeSet)
    BY <1>5 DEF CoordSet
  <2>3. DOMAIN Freed(d, c.pool[k]).pool = DOMAIN p
    BY <2>1
  <2> QED
    <3>1. DOMAIN p = 1..Len(p) /\ Len(p) \in Nat
      BY <1>2
    <3>2. DOMAIN Freed(d, c.pool[k]).pool = 1..Len(Freed(d, c.pool[k]).pool) /\ Len(Freed(d, c.pool[k]).pool) \in Nat
      BY <2>2
    <3> QED
      BY <2>3, <3>1, <3>2
<1> QED
  BY <1>2, <1>4, <1>5, <1>6, <1>7

\* What the deletion of each node keeps holds after that of all behind the
\* first k.
LEMMA BehindKeeps ==
    ASSUME NEW A, A \subseteq CoordSet, NEW c \in A, NEW k \in 0..Len(c.pool),
           \A e \in A : Len(e.pool) > k => Deleted(e, k + 1) \in A
    PROVE  DeletedBehind(c, k) \in A /\ Len(DeletedBehind(c, k).pool) = k
<1> DEFINE n == Len(c.pool) - k
           q == [j \in 1..n |-> k + 1]
           F == [p \in A \X Nat |-> IF Len(p[1].pool) > k /\ p[2] = k + 1 THEN Deleted(p[1], k + 1) ELSE p[1]]
           Row(r) == r = [j \in 0..Len(q) |-> IF j = 0 THEN c ELSE Deleted(r[j - 1], q[j])]
           Now(e, j) == e \in A /\ Len(e.pool) = Len(c.pool) - j
<1>1. Len(c.pool) \in Nat /\ n \in Nat
  BY DEF CoordSet
<1>2. q \in Seq(Nat) /\ Len(q) = n /\ \A j \in 1..n : q[j] = k + 1
  BY <1>1
<1>3. F \in [A \X Nat -> A]
  OBVIOUS
<1>4. ASSUME NEW e, NEW j \in 1..n, Now(e, j - 1)
      PROVE  Deleted(e, k + 1) \in A /\ Now(Deleted(e, k + 1), j) /\ F[<<e, k + 1>>] = Deleted(e, k + 1)
  <2>1. e \in A /\ Len(e.pool) = Len(c.pool) - (j - 1) /\ Len(e.pool) > k
    BY <1>1, <1>4
  <2>2. Deleted(e, k + 1) \in A
    BY <2>1
  <2>3. e \in CoordSet /\ e.pool \in Seq(NodeSet) /\ k + 1 \in DOMAIN e.pool
    <3>1. e \in CoordSet /\ e.pool \in Seq(NodeSet)
      BY <2>1 DEF CoordSet
    <3> QED
      BY <1>1, <2>1, <3>1
  <2>4. Len(Deleted(e, k + 1).pool) = Len(c.pool) - j
    <3>1. Len(Deleted(e, k + 1).pool) = Len(e.pool) - 1
      BY <2>3, DeletedIs
    <3> QED
      BY <1>1, <2>1, <3>1
  <2>5. <<e, k + 1>> \in A \X Nat
    BY <2>1
  <2>6. F[<<e, k + 1>>] = Deleted(e, k + 1)
    BY <2>1, <2>5
  <2> QED
    BY <2>2, <2>4, <2>6
<1> HIDE DEF F, q, Now
<1>5. PICK r \in [0..Len(q) -> A] : IsRow(r, F, c, q, Len(q))
  BY <1>2, <1>3, RowExists
<1> DEFINE bad == {j \in 0..n : ~Now(r[j], j)}
<1>6. bad = {}
  <2> SUFFICES ASSUME bad # {} PROVE FALSE
    OBVIOUS
  <2>1. bad \subseteq Nat
    BY <1>1
  <2>2. PICK j \in bad : \A i \in bad : j <= i
    BY <2>1, LeastNat
  <2>3. r[0] = c /\ Now(c, 0)
    <3>1. 0 \in 0..Len(q) /\ Len(c.pool) - 0 = Len(c.pool)
      BY <1>1, <1>2
    <3>2. r[0] = c
      BY <1>5, <3>1 DEF IsRow
    <3> QED
      BY <3>1, <3>2 DEF Now
  <2>4. j \in 1..n /\ j - 1 \in 0..n /\ j - 1 \notin bad
    BY <1>1, <2>2, <2>3
  <2>5. Now(r[j - 1], j - 1)
    BY <2>4
  <2>6. r[j] = F[<<r[j - 1], k + 1>>]
    <3>1. r[j] = F[<<r[j - 1], q[j]>>]
      BY <1>2, <1>5, <2>4 DEF IsRow
    <3> QED
      BY <1>2, <2>4, <3>1
  <2>7. Now(r[j], j)
    BY <1>4, <2>4, <2>5, <2>6
  <2> QED
    BY <2>2, <2>7
<1>7. \A j \in 0..n : Now(r[j], j)
  BY <1>6
<1> HIDE DEF bad
<1>8. ASSUME NEW j \in 0..Len(q)
      PROVE  r[j] = IF j = 0 THEN c ELSE Deleted(r[j - 1], q[j])
  <2>1. CASE j = 0
    BY <1>1, <1>2, <1>5, <2>1 DEF IsRow
  <2>2. CASE j # 0
    <3>1. j \in 1..n /\ j - 1 \in 0..n
      BY <1>1, <1>2, <2>2
    <3>2. r[j] = F[<<r[j - 1], q[j]>>]
      BY <1>2, <1>5, <2>2 DEF IsRow
    <3>3. F[<<r[j - 1], k + 1>>] = Deleted(r[j - 1], k + 1)
      BY <1>4, <1>7, <3>1
    <3> QED
      BY <1>2, <2>2, <3>1, <3>2, <3>3
  <2> QED
    BY <2>1, <2>2
<1>9. Row(r)
  <2>1. r = [j \in 0..Len(q) |-> r[j]]
    BY <1>5
  <2> QED
    BY <1>8, <2>1
<1> DEFINE z == CHOOSE f : Row(f)
<1>10. Row(z)
  BY <1>9, Zenon
<1>11. DeletedBehind(c, k) = z[Len(q)]
  BY Zenon DEF DeletedBehind, Applied, q
<1> HIDE DEF z
<1>12. \A j \in 0..n : z[j] = IF j = 0 THEN c ELSE Deleted(z[j - 1], k + 1)
  <2>1. z = [j \in 0..n |-> IF j = 0 THEN c ELSE Deleted(z[j - 1], q[j])]
    BY <1>2, <1>10, Zenon
  <2> HIDE DEF n, Row
  <2>2. ASSUME NEW j \in 0..n PROVE z[j] = IF j = 0 THEN c ELSE Deleted(z[j - 1], q[j])
    BY <2>1, <2>2, Zenon
  <2> QED
    BY <1>1, <1>2, <2>2
<1> DEFINE off == {j \in 0..n : ~Now(z[j], j)}
<1>13. off = {}
  <2> SUFFICES ASSUME off # {} PROVE FALSE
    OBVIOUS
  <2>1. off \subseteq Nat
    BY <1>1
  <2>2. PICK j \in off : \A i \in off : j <= i
    BY <2>1, LeastNat
  <2>3. z[0] = c /\ Now(c, 0)
    BY <1>1, <1>12 DEF Now
  <2>4. j \in 1..n /\ j - 1 \in 0..n /\ j - 1 \notin off
    BY <1>1, <2>2, <2>3
  <2>5. Now(z[j - 1], j - 1)
    BY <2>4
  <2>6. z[j] = Deleted(z[j - 1], k + 1)
    BY <1>1, <1>12, <2>4
  <2>7. Now(z[j], j)
    BY <1>4, <2>4, <2>5, <2>6
  <2> QED
    BY <2>2, <2>7
<1>14. Now(z[n], n)
  BY <1>1, <1>13
<1> QED
  BY <1>1, <1>2, <1>11, <1>14 DEF Now

\* So the nodes at the solvers are alike after it.
LEMMA BehindIs ==
    ASSUME NEW c \in CoordSet, NEW k \in 0..Len(c.pool)
    PROVE  DeletedBehind(c, k) \in CoordSet /\ Alike(c, DeletedBehind(c, k))
<1> DEFINE A == {e \in CoordSet : Alike(c, e)}
<1>1. c \in A
  BY DEF Alike, Same
<1>2. ASSUME NEW e \in A, Len(e.pool) > k PROVE Deleted(e, k + 1) \in A
  <2>1. e.pool \in Seq(NodeSet)
    BY DEF CoordSet
  <2>2. k + 1 \in DOMAIN e.pool
    BY <1>2, <2>1
  <2>3. Deleted(e, k + 1) \in CoordSet /\ Alike(e, Deleted(e, k + 1))
    BY <2>2, DeletedIs
  <2>4. Alike(c, Deleted(e, k + 1))
    BY <2>3 DEF Alike, Same
  <2> QED
    BY <2>3, <2>4
<1> HIDE DEF A
<1>3. DeletedBehind(c, k) \in A
  <2>1. A \subseteq CoordSet
    BY DEF A
  <2> QED
    BY <1>1, <1>2, <2>1, BehindKeeps
<1> QED
  BY <1>3 DEF A

\* And the pruning of the pool.
LEMMA PrunedIs ==
    ASSUME NEW c \in CoordSet
    PROVE  Pruned(c) \in CoordSet /\ Alike(c, Pruned(c))
<1>1. c.pool \in Seq(NodeSet)
  BY DEF CoordSet
<1>2. Cardinality({j \in DOMAIN c.pool : c.pool[j].bound <= c.inc}) \in 0..Len(c.pool)
  BY <1>1, CountOfPool
<1> QED
  BY <1>2, BehindIs DEF Pruned

-----------------------------------------------------------------------------
(* What a solver and the load coordinator know of each other.              *)

\* A queue that gets a message holds no, or one, message of T.
LEMMA LongerQueue ==
    ASSUME NEW S, NEW q \in Seq(S), NEW m \in S, NEW T
    PROVE  /\ Append(q, m) \in Seq(S) /\ Append(q, m) = q \o <<m>>
           /\ None(Append(q, m), T) <=> None(q, T) /\ m \notin T
           /\ Single(Append(q, m), T) <=> \/ Single(q, T) /\ m \notin T
                                          \/ None(q, T) /\ m \in T
<1>1. Append(q, m) = q \o <<m>> /\ Append(q, m) \in Seq(S)
  BY AppendIsConcat, AppendProperties
<1>2. /\ None(<<m>>, T) <=> m \notin T
      /\ Single(<<m>>, T) <=> m \in T
      /\ <<m>> \in Seq(S)
  BY OneMessage
<1>3. /\ None(q \o <<m>>, T) <=> None(q, T) /\ None(<<m>>, T)
      /\ Single(q \o <<m>>, T) <=> One(q, T, <<m>>, T)
  BY <1>2, JoinedQueue
<1> QED
  BY <1>1, <1>2, <1>3 DEF One

\* Sets of messages.
LEMMA MessageSets ==
    ASSUME NEW s
    PROVE  /\ \A m \in States(s) \cup Requests(s) \cup Ends(s) : m \in ToCoord /\ m.src = s
           /\ States(s) \cap Requests(s) = {} /\ States(s) \cap Ends(s) = {}
           /\ Requests(s) \cap Ends(s) = {}
           /\ Answers \cap Refusals = {} /\ Answers \cap NewNodes = {} /\ Refusals \cap NewNodes = {}
BY DEF States, Requests, Ends, Answers, Refusals, NewNodes

\* A queue without reports, requests and ends of s.
Silent(p, s) == None(p, States(s)) /\ None(p, Requests(s)) /\ None(p, Ends(s))
SilentMsg(m, s) == m \notin States(s) /\ m \notin Requests(s) /\ m \notin Ends(s)

\* Messages about something else leave the order of ends and requests.
LEMMA OrderGrows ==
    ASSUME NEW c, NEW q \in Seq(ToCoord), NEW p \in Seq(ToCoord), NEW s, Silent(p, s), Order(c, q, s)
    PROVE  Order(c, q \o p, s)
<1> DEFINE z == q \o p
<1>1. /\ Len(q) \in Nat /\ Len(p) \in Nat /\ DOMAIN q = 1..Len(q) /\ DOMAIN p = 1..Len(p)
      /\ DOMAIN z = 1..(Len(q) + Len(p))
      /\ \A k \in DOMAIN z : \/ k \in DOMAIN q /\ z[k] = q[k]
                             \/ k - Len(q) \in DOMAIN p /\ z[k] = p[k - Len(q)]
  OBVIOUS
<1> HIDE DEF z
<1>2. \A k \in DOMAIN z : z[k] \in Ends(s) \cup Requests(s) => k \in DOMAIN q /\ z[k] = q[k]
  BY <1>1 DEF Silent, None
<1> QED
  BY <1>2 DEF Order, z

\* What the first message of the queue of the load coordinator tells.
LEMMA OrderShrinks ==
    ASSUME NEW c, NEW q \in Seq(ToCoord), q # <<>>, NEW s, Order(c, q, s)
    PROVE  /\ Order(c, Tail(q), s)
           /\ Head(q) \in Ends(s) \cup Requests(s) => c.cur[s] # NoNode
           /\ Head(q) \in Ends(s) => None(Tail(q), Ends(s)) /\ None(Tail(q), Requests(s))
<1> DEFINE z == Tail(q)
<1>1. /\ Len(q) \in Nat /\ Head(q) = q[1] /\ 1 \in DOMAIN q /\ z \in Seq(ToCoord)
      /\ DOMAIN z = 1..(Len(q) - 1) /\ DOMAIN q = 1..Len(q)
      /\ \A k \in DOMAIN z : z[k] = q[k + 1] /\ k + 1 \in DOMAIN q
  BY HeadAndTail
<1> HIDE DEF z
<1>2. Order(c, z, s)
  <2>1. \A k \in DOMAIN z : z[k] \in Ends(s) \cup Requests(s) => c.cur[s] # NoNode
    BY <1>1 DEF Order
  <2>2. ASSUME NEW j \in DOMAIN z, NEW k \in DOMAIN z, z[j] \in Ends(s), z[k] \in Ends(s) \cup Requests(s)
        PROVE  k <= j
    <3>1. k + 1 <= j + 1
      BY <1>1, <2>2 DEF Order
    <3> QED
      BY <1>1, <3>1
  <2> QED
    BY <2>1, <2>2 DEF Order
<1>3. ASSUME Head(q) \in Ends(s), NEW k \in DOMAIN z, z[k] \in Ends(s) \cup Requests(s) PROVE FALSE
  <2>1. k + 1 <= 1
    BY <1>1, <1>3 DEF Order
  <2> QED
    BY <1>1, <2>1
<1>4. Head(q) \in Ends(s) \cup Requests(s) => c.cur[s] # NoNode
  BY <1>1 DEF Order
<1>5. Head(q) \in Ends(s) => None(z, Ends(s)) /\ None(z, Requests(s))
  BY <1>3 DEF None
<1> QED
  BY <1>2, <1>4, <1>5 DEF z

\* A value that arrives does so whatever comes behind it.
LEMMA ArrivesStill ==
    ASSUME NEW c, NEW q \in Seq(ToCoord), NEW p \in Seq(ToCoord), NEW x, Arrives(c, q, x)
    PROVE  Arrives(c, q \o p, x)
<1>1. \A k \in DOMAIN q : k \in DOMAIN (q \o p) /\ (q \o p)[k] = q[k]
  OBVIOUS
<1> QED
  BY <1>1 DEF Arrives

\* It still does when the first message is handled.
LEMMA ArrivesThen ==
    ASSUME NEW c, NEW d, c.inc \in Int, d.inc \in Int, NEW q \in Seq(ToCoord), NEW x \in Int, q # <<>>,
           d.inc <= c.inc, Head(q).tag = "Solution" => d.inc <= Head(q).val,
           Arrives(c, q, x)
    PROVE  Arrives(d, Tail(q), x)
<1>1. CASE c.inc <= x
  BY <1>1 DEF Arrives
<1>2. ASSUME NEW k \in DOMAIN q, q[k].tag = "Solution", q[k].val <= x
      PROVE  Arrives(d, Tail(q), x)
  <2>1. /\ Len(q) \in Nat /\ DOMAIN q = 1..Len(q) /\ Head(q) = q[1] /\ q[k] \in ToCoord
        /\ Tail(q) \in Seq(ToCoord) /\ DOMAIN Tail(q) = 1..(Len(q) - 1)
        /\ \A i \in 1..(Len(q) - 1) : Tail(q)[i] = q[i + 1]
    BY HeadAndTail
  <2>2. CASE k = 1
    <3>1. q[k].val \in Int
      BY <1>2, <2>1, ValsIs DEF ToCoord
    <3> QED
      BY <1>2, <2>1, <2>2, <3>1 DEF Arrives
  <2>3. CASE k # 1
    <3>1. k - 1 \in DOMAIN Tail(q) /\ Tail(q)[k - 1] = q[k]
      BY <2>1, <2>3
    <3> QED
      BY <1>2, <3>1 DEF Arrives
  <2> QED
    BY <2>2, <2>3
<1> QED
  BY <1>1, <1>2 DEF Arrives

\* And when the incumbent is better.
LEMMA ArrivesBetter ==
    ASSUME NEW c, NEW d, c.inc \in Int, d.inc \in Int, d.inc <= c.inc, NEW q, NEW x \in Int, Arrives(c, q, x)
    PROVE  Arrives(d, q, x)
BY DEF Arrives

\* Messages of others come.
LEMMA TalksGrows ==
    ASSUME NEW n, NEW q \in Seq(ToCoord), NEW p \in Seq(ToCoord), NEW v, NEW r, NEW s, Silent(p, s)
    PROVE  Talks(n, q, v, r, s) <=> Talks(n, q \o p, v, r, s)
<1>1. ASSUME NEW T, None(p, T)
      PROVE  /\ None(q \o p, T) <=> None(q, T)
             /\ Single(q \o p, T) <=> Single(q, T)
  BY <1>1, JoinedQueue, NotBoth DEF One
<1>2. /\ None(q \o p, States(s)) <=> None(q, States(s))
      /\ Single(q \o p, States(s)) <=> Single(q, States(s))
      /\ None(q \o p, Requests(s)) <=> None(q, Requests(s))
      /\ Single(q \o p, Requests(s)) <=> Single(q, Requests(s))
      /\ None(q \o p, Ends(s)) <=> None(q, Ends(s))
  BY <1>1 DEF Silent
<1>3. /\ Reports(q \o p, v, r, s) <=> Reports(q, v, r, s)
      /\ Asks(q \o p, v, r, s) <=> Asks(q, v, r, s)
  BY <1>2, Zenon DEF Reports, Asks, One
<1>4. /\ Waits(q \o p, v, r, s) <=> Waits(q, v, r, s)
      /\ Agrees(n, q \o p, v, r, s) <=> Agrees(n, q, v, r, s)
  BY <1>2, Zenon DEF Waits, Agrees
<1> QED
  BY <1>3, <1>4, Zenon DEF Talks

\* A message of another solver, or one that says nothing of it, is handled.
LEMMA TalksShrinks ==
    ASSUME NEW n, NEW q \in Seq(ToCoord), q # <<>>, NEW v, NEW r, NEW s, SilentMsg(Head(q), s)
    PROVE  Talks(n, q, v, r, s) <=> Talks(n, Tail(q), v, r, s)
<1>1. ASSUME NEW T, Head(q) \notin T
      PROVE  /\ None(q, T) <=> None(Tail(q), T)
             /\ Single(q, T) <=> Single(Tail(q), T)
  BY <1>1, ShorterQueue
<1>2. /\ None(q, States(s)) <=> None(Tail(q), States(s))
      /\ Single(q, States(s)) <=> Single(Tail(q), States(s))
      /\ None(q, Requests(s)) <=> None(Tail(q), Requests(s))
      /\ Single(q, Requests(s)) <=> Single(Tail(q), Requests(s))
      /\ None(q, Ends(s)) <=> None(Tail(q), Ends(s))
  BY <1>1 DEF SilentMsg
<1>3. /\ Reports(Tail(q), v, r, s) <=> Reports(q, v, r, s)
      /\ Asks(Tail(q), v, r, s) <=> Asks(q, v, r, s)
  BY <1>2, Zenon DEF Reports, Asks, One
<1>4. /\ Waits(Tail(q), v, r, s) <=> Waits(q, v, r, s)
      /\ Agrees(n, Tail(q), v, r, s) <=> Agrees(n, q, v, r, s)
  BY <1>2, Zenon DEF Waits, Agrees
<1> QED
  BY <1>3, <1>4, Zenon DEF Talks

\* A message that is no answer comes to the solver.
LEMMA TalksMailed ==
    ASSUME NEW n, NEW q, NEW v, NEW r \in Seq(ToSolver), NEW s,
           NEW m \in ToSolver, m \notin Answers \cup Replies, Talks(n, q, v, r, s)
    PROVE  Talks(n, q, v, Append(r, m), s)
<1> DEFINE z == Append(r, m)
<1>1. ASSUME NEW T, T \subseteq Answers \cup Replies
      PROVE  /\ None(z, T) <=> None(r, T)
             /\ Single(z, T) <=> Single(r, T)
  BY <1>1, LongerQueue
<1>2. /\ None(z, Answers) <=> None(r, Answers)
      /\ Single(z, Answers) <=> Single(r, Answers)
      /\ None(z, Replies) <=> None(r, Replies)
      /\ Single(z, Replies) <=> Single(r, Replies)
      /\ None(z, Refusals) <=> None(r, Refusals)
      /\ None(z, NewNodes) <=> None(r, NewNodes)
      /\ Single(z, NewNodes) <=> Single(r, NewNodes)
  <2>1. /\ Answers \subseteq Answers \cup Replies /\ Replies \subseteq Answers \cup Replies
        /\ Refusals \subseteq Answers \cup Replies /\ NewNodes \subseteq Answers \cup Replies
    BY DEF Replies
  <2> HIDE DEF z
  <2> QED
    BY <1>1, <2>1
<1>3. \A k \in DOMAIN z : z[k] \in NewNodes => k \in DOMAIN r /\ z[k] = r[k]
  BY DEF Replies
<1> HIDE DEF z
<1>4. /\ Reports(q, v, z, s) <=> Reports(q, v, r, s)
      /\ Asks(q, v, z, s) <=> Asks(q, v, r, s)
      /\ Waits(q, v, z, s) <=> Waits(q, v, r, s)
  BY <1>2, Zenon DEF Reports, Asks, Waits, One
<1>5. Agrees(n, q, v, r, s) => Agrees(n, q, v, z, s)
  BY <1>2, <1>3 DEF Agrees
<1> QED
  BY <1>4, <1>5 DEF Talks, z

\* Only the number and the leaves of the node matter.
LEMMA TalksSame ==
    ASSUME NEW n, NEW m, Same(n, m), NEW q, NEW v, NEW r, NEW s, Talks(n, q, v, r, s)
    PROVE  Talks(m, q, v, r, s)
BY DEF Talks, Agrees, Same

\* Messages about something else leave all that holds of a solver.
LEMMA OkGrows ==
    ASSUME NEW c, NEW q \in Seq(ToCoord), NEW p \in Seq(ToCoord), NEW v, NEW r, NEW s, Silent(p, s),
           SolverOk(c, q, v, r, s)
    PROVE  SolverOk(c, q \o p, v, r, s)
<1>1. Talks(c.cur[s], q, v, r, s) => Talks(c.cur[s], q \o p, v, r, s)
  BY TalksGrows
<1>2. Keeps(c, q, v) => Keeps(c, q \o p, v)
  BY ArrivesStill DEF Keeps
<1> QED
  BY <1>1, <1>2, Zenon DEF SolverOk

\* The values that are compared are integers, none above Inf.
LEMMA OkInt ==
    ASSUME NEW c \in CoordSet, NEW v \in SolverSet, NEW r \in Seq(ToSolver)
    PROVE  /\ c.inc \in Int /\ v.inc \in Int /\ v.pend \in Int /\ v.own \in Int /\ v.best \in Int /\ v.loc \in Int
           /\ v.inc <= Inf /\ v.own <= Inf /\ v.pend <= Inf /\ v.best <= Inf /\ v.loc <= Inf /\ c.inc <= Inf
           /\ Inf \in Int
           /\ \A k \in DOMAIN r : r[k].tag \in {"Solution", "IncumbentValue"} => r[k].val \in Int
<1>1. \A m \in ToSolver : m.tag \in {"Solution", "IncumbentValue"} => m.val \in Int
  BY ValsIs DEF ToSolver
<1>2. \A k \in DOMAIN r : r[k] \in ToSolver
  OBVIOUS
<1>3. Inf \in Int /\ \A x \in Vals : x \in Int /\ x <= Inf
  BY ValsIs DEF Inf
<1>4. c.inc \in Vals /\ v.inc \in Vals /\ v.pend \in Vals /\ v.own \in Vals /\ v.best \in Vals /\ v.loc \in Vals
  BY DEF CoordSet, SolverSet
<1> QED
  BY <1>1, <1>2, <1>3, <1>4

\* The incumbent gets better, and the nodes stay at the solvers.
LEMMA OkChanged ==
    ASSUME NEW c \in CoordSet, NEW d \in CoordSet, NEW s, Same(c.cur[s], d.cur[s]), d.inc <= c.inc,
           NEW q \in Seq(ToCoord), NEW v \in SolverSet, NEW r \in Seq(ToSolver), SolverOk(c, q, v, r, s)
    PROVE  SolverOk(d, q, v, r, s)
<1> USE OkInt
<1>1. Told(d, r)
  <2>1. Told(c, r)
    BY Zenon DEF SolverOk
  <2> QED
    BY <2>1 DEF Told
<1>2. Talks(c.cur[s], q, v, r, s) => Talks(d.cur[s], q, v, r, s)
  BY TalksSame
<1>3. Knows(c, v) => Knows(d, v)
  BY DEF Knows
<1>4. Keeps(c, q, v) => Keeps(d, q, v)
  BY ArrivesBetter DEF Keeps
<1> QED
  BY <1>1, <1>2, <1>3, <1>4, Zenon DEF SolverOk

\* So does a handled message about something else.
LEMMA OkShrinks ==
    ASSUME NEW c \in CoordSet, NEW d \in CoordSet, NEW s, Same(c.cur[s], d.cur[s]), d.inc <= c.inc,
           NEW q \in Seq(ToCoord), q # <<>>, SilentMsg(Head(q), s),
           Head(q).tag = "Solution" => d.inc <= Head(q).val,
           NEW v \in SolverSet, NEW r \in Seq(ToSolver), SolverOk(c, q, v, r, s)
    PROVE  SolverOk(d, Tail(q), v, r, s)
<1>1. SolverOk(d, q, v, r, s)
  BY OkChanged
<1>2. Talks(d.cur[s], q, v, r, s) => Talks(d.cur[s], Tail(q), v, r, s)
  BY TalksShrinks
<1>3. Keeps(c, q, v) => Keeps(d, Tail(q), v)
  BY ArrivesThen, OkInt DEF Keeps
<1> QED
  BY <1>1, <1>2, <1>3, Zenon DEF SolverOk

\* What the load coordinator may send at any time.
Plain(m, c) ==
    /\ m \in ToSolver /\ m \notin Answers \cup Replies
    /\ m.tag \in {"Solution", "IncumbentValue"} => c.inc <= m.val

\* So does a message that is no answer, sent to the solver.
LEMMA OkMailed ==
    ASSUME NEW c, NEW q, NEW v, NEW r \in Seq(ToSolver), NEW s,
           NEW m, Plain(m, c), SolverOk(c, q, v, r, s)
    PROVE  Append(r, m) \in Seq(ToSolver) /\ SolverOk(c, q, v, Append(r, m), s)
<1>1. m \in ToSolver /\ m \notin Answers \cup Replies /\ (m.tag \in {"Solution", "IncumbentValue"} => c.inc <= m.val)
  BY DEF Plain
<1>2. Talks(c.cur[s], q, v, r, s) => Talks(c.cur[s], q, v, Append(r, m), s)
  BY <1>1, TalksMailed
<1>3. Told(c, r) => Told(c, Append(r, m))
  BY <1>1 DEF Told
<1>4. Append(r, m) \in Seq(ToSolver)
  BY <1>1
<1> QED
  BY <1>2, <1>3, <1>4, Zenon DEF SolverOk

-----------------------------------------------------------------------------
(* The steps of the load coordinator.                                      *)

\* What holds of one solver.
LEMMA CoordParts ==
    ASSUME NEW c, NEW b, CoordOk(c, b), SvTyped, NEW s \in Solvers
    PROVE  /\ c \in CoordSet /\ c.cur[s] \in MaybeNode /\ sv[s] \in SolverSet
           /\ b[0] \in Seq(ToCoord) /\ b[s] \in Seq(ToSolver)
           /\ Order(c, b[0], s) /\ SolverOk(c, b[0], sv[s], b[s], s)
BY CoordFields DEF CoordOk, Typed, SvTyped

\* A solver has no node on both sides or on neither.
LEMMA SameNone ==
    ASSUME NEW m \in MaybeNode, NEW n \in MaybeNode, Same(m, n)
    PROVE  m = NoNode <=> n = NoNode
BY NodeTypes DEF Same

\* A better incumbent leaves the whole.
LEMMA CoordChanged ==
    ASSUME NEW c, NEW b, CoordOk(c, b), SvTyped, NEW d \in CoordSet, d.inc <= c.inc,
           \A s \in Solvers : Same(c.cur[s], d.cur[s])
    PROVE  CoordOk(d, b)
<1>1. Typed(d, b)
  BY DEF CoordOk, Typed
<1>2. ASSUME NEW s \in Solvers PROVE Order(d, b[0], s) /\ SolverOk(d, b[0], sv[s], b[s], s)
  <2>1. /\ c \in CoordSet /\ c.cur[s] \in MaybeNode /\ sv[s] \in SolverSet
        /\ b[0] \in Seq(ToCoord) /\ b[s] \in Seq(ToSolver)
        /\ Order(c, b[0], s) /\ SolverOk(c, b[0], sv[s], b[s], s)
    BY CoordParts
  <2>2. SolverOk(d, b[0], sv[s], b[s], s)
    BY <2>1, OkChanged
  <2>3. d.cur[s] \in MaybeNode
    BY CoordFields
  <2>4. c.cur[s] = NoNode <=> d.cur[s] = NoNode
    BY <2>1, <2>3, SameNone
  <2>5. Order(d, b[0], s)
    BY <2>1, <2>4, Zenon DEF Order
  <2> QED
    BY <2>2, <2>5
<1> QED
  BY <1>1, <1>2 DEF CoordOk

\* So does a change of the load coordinator's own.
LEMMA CoordAlike ==
    ASSUME NEW c, NEW b, CoordOk(c, b), SvTyped, NEW d \in CoordSet, Alike(c, d)
    PROVE  CoordOk(d, b)
<1>1. c \in CoordSet
  BY DEF CoordOk, Typed
<1>2. d.inc <= c.inc
  BY <1>1, ValsIs DEF Alike, CoordSet
<1> QED
  BY <1>2, CoordChanged DEF Alike

\* A function on the ranks.
Table(b) == b = [r \in 0..N |-> b[r]]

\* The queues z are the queues b with m come to the solvers rs.
Mailed(b, z, rs, m) ==
    /\ Table(z) /\ z[0] = b[0]
    /\ \A s \in Solvers : z[s] = IF s \in rs THEN Append(b[s], m) ELSE b[s]

\* The queues after a message to some solvers.
LEMMA SentToIs ==
    ASSUME NEW c, NEW b, Typed(c, b), NEW rs \in SUBSET Solvers, NEW m
    PROVE  Mailed(b, SentTo(b, rs, m), rs, m)
<1>1. DOMAIN b = 0..N
  BY DEF Typed
<1>2. 0 \in 0..N /\ 0 \notin rs /\ \A s \in Solvers : s \in 0..N
  BY NAssumption DEF Solvers
<1>3. SentTo(b, rs, m) = [r \in 0..N |-> IF r \in rs THEN Append(b[r], m) ELSE b[r]]
  BY <1>1, Zenon DEF SentTo
<1>4. \A r \in 0..N : SentTo(b, rs, m)[r] = IF r \in rs THEN Append(b[r], m) ELSE b[r]
  BY <1>3, Zenon
<1>5. Table(SentTo(b, rs, m))
  BY <1>3, <1>4 DEF Table
<1> QED
  BY <1>2, <1>4, <1>5 DEF Mailed

\* The state of the load coordinator after it.
LEMMA SentIs ==
    ASSUME NEW c, NEW b, NEW rs, NEW tag, NEW val
    PROVE  ToSolvers([lc |-> c, box |-> b], rs, tag, val)
               = [lc |-> c, box |-> SentTo(b, rs, Msg(tag, 0, val))]
BY DEF ToSolvers

\* Queues of the right kinds.
LEMMA SentTyped ==
    ASSUME NEW c \in CoordSet, NEW b, Table(b),
           b[0] \in Seq(ToCoord), \A s \in Solvers : b[s] \in Seq(ToSolver)
    PROVE  Typed(c, b)
<1>1. \A r \in 0..N : r = 0 \/ r \in Solvers
  BY NAssumption DEF Solvers
<1>2. b \in [0..N -> Seq(ToCoord) \cup Seq(ToSolver)]
  BY <1>1 DEF Table
<1> QED
  BY <1>2 DEF Typed

\* A message that is no answer, to some solvers, leaves the whole.
LEMMA CoordMailed ==
    ASSUME NEW c, NEW b, CoordOk(c, b), SvTyped, NEW rs \in SUBSET Solvers, NEW m,
           rs # {} => Plain(m, c)
    PROVE  CoordOk(c, SentTo(b, rs, m))
<1> DEFINE z == SentTo(b, rs, m)
<1>1. Typed(c, b) /\ c \in CoordSet /\ b[0] \in Seq(ToCoord)
  BY DEF CoordOk, Typed
<1>2. Mailed(b, z, rs, m)
  BY <1>1, SentToIs
<1> HIDE DEF z
<1>4. ASSUME NEW s \in Solvers
      PROVE  /\ z[s] \in Seq(ToSolver)
             /\ Order(c, z[0], s) /\ SolverOk(c, z[0], sv[s], z[s], s)
  <2>1. /\ b[s] \in Seq(ToSolver) /\ Order(c, b[0], s) /\ SolverOk(c, b[0], sv[s], b[s], s)
    BY CoordParts
  <2>2. CASE s \in rs
    <3>1. Plain(m, c) /\ z[s] = Append(b[s], m)
      BY <1>2, <2>2 DEF Mailed, Plain
    <3>2. Append(b[s], m) \in Seq(ToSolver) /\ SolverOk(c, b[0], sv[s], Append(b[s], m), s)
      BY <2>1, <3>1, OkMailed
    <3> QED
      BY <1>2, <2>1, <3>1, <3>2 DEF Mailed
  <2>3. CASE s \notin rs
    BY <1>2, <2>1, <2>3 DEF Mailed
  <2> QED
    BY <2>2, <2>3
<1>5. Typed(c, z)
  BY <1>1, <1>2, <1>4, SentTyped DEF Mailed
<1> QED
  BY <1>4, <1>5 DEF CoordOk, z

\* The whole from its parts.
LEMMA Composed ==
    ASSUME NEW c \in CoordSet, NEW z, Table(z), z[0] \in Seq(ToCoord),
           \A s \in Solvers : /\ z[s] \in Seq(ToSolver)
                              /\ Order(c, z[0], s) /\ SolverOk(c, z[0], sv[s], z[s], s)
    PROVE  CoordOk(c, z)
BY SentTyped DEF CoordOk

\* A message for each solver but s says nothing.
LEMMA SilentToOthers ==
    ASSUME NEW m, NEW s, m.src # s
    PROVE  SilentMsg(m, s)
BY DEF SilentMsg, States, Requests, Ends

\* The first message of the load coordinator is taken away.
Popped(b) == [b EXCEPT ![0] = Tail(@)]

\* The queues when the first message is taken.
LEMMA PoppedIs ==
    ASSUME NEW c, NEW b, Typed(c, b), b[0] # <<>>
    PROVE  /\ Typed(c, Popped(b)) /\ Table(Popped(b)) /\ Popped(b)[0] = Tail(b[0])
           /\ \A s \in Solvers : Popped(b)[s] = b[s]
           /\ Head(b[0]) \in ToCoord /\ b[0] \in Seq(ToCoord) /\ Tail(b[0]) \in Seq(ToCoord)
<1>1. /\ Head(b[0]) \in ToCoord /\ b[0] \in Seq(ToCoord) /\ Tail(b[0]) \in Seq(ToCoord)
  BY HeadAndTail DEF Typed
<1> DEFINE z == Popped(b)
           t == Tail(b[0])
<1>2. DOMAIN b = 0..N /\ 0 \in 0..N /\ \A s \in Solvers : s \in 0..N /\ s # 0 /\ b[s] \in Seq(ToSolver)
  BY NAssumption DEF Typed, Solvers
<1>3. z = [b EXCEPT ![0] = t]
  BY Zenon DEF Popped
<1> HIDE DEF z, t
<1>4. z[0] = t /\ (\A s \in Solvers : z[s] = b[s])
  BY <1>2, <1>3
<1>5. Table(z)
  BY <1>2, <1>3 DEF Table
<1>6. Typed(c, z)
  BY <1>1, <1>2, <1>4, <1>5, SentTyped DEF t, Typed
<1> QED
  BY <1>1, <1>4, <1>5, <1>6 DEF z, t

\* What holds of the solvers that have not sent it is left.
LEMMA OtherPopped ==
    ASSUME NEW c, NEW b, CoordOk(c, b), SvTyped, b[0] # <<>>,
           NEW d \in CoordSet, d.inc <= c.inc, NEW s \in Solvers, Same(c.cur[s], d.cur[s]),
           SilentMsg(Head(b[0]), s),
           Head(b[0]).tag = "Solution" => d.inc <= Head(b[0]).val
    PROVE  Order(d, Tail(b[0]), s) /\ SolverOk(d, Tail(b[0]), sv[s], b[s], s)
<1>1. /\ c \in CoordSet /\ c.cur[s] \in MaybeNode /\ sv[s] \in SolverSet
      /\ b[0] \in Seq(ToCoord) /\ b[s] \in Seq(ToSolver)
      /\ Order(c, b[0], s) /\ SolverOk(c, b[0], sv[s], b[s], s)
  BY CoordParts
<1>2. SolverOk(d, Tail(b[0]), sv[s], b[s], s)
  BY <1>1, OkShrinks
<1>3. d.cur[s] \in MaybeNode
  BY CoordFields
<1>4. c.cur[s] = NoNode <=> d.cur[s] = NoNode
  BY <1>1, <1>3, SameNone
<1>5. Order(c, Tail(b[0]), s)
  BY <1>1, OrderShrinks
<1>6. Order(d, Tail(b[0]), s)
  BY <1>4, <1>5, Zenon DEF Order
<1> QED
  BY <1>2, <1>6

\* A message is handled that leaves its sender s as told here.
LEMMA OnePopped ==
    ASSUME NEW c, NEW b, CoordOk(c, b), SvTyped, b[0] # <<>>,
           NEW d \in CoordSet, d.inc <= c.inc, NEW s, Head(b[0]).src = s,
           Head(b[0]).tag = "Solution" => d.inc <= Head(b[0]).val,
           \A r \in Solvers \ {s} : Same(c.cur[r], d.cur[r]),
           Order(d, Tail(b[0]), s), SolverOk(d, Tail(b[0]), sv[s], b[s], s)
    PROVE  CoordOk(d, Popped(b))
<1>1. Typed(c, b)
  BY DEF CoordOk
<1>2. /\ Table(Popped(b)) /\ Popped(b)[0] = Tail(b[0]) /\ \A r \in Solvers : Popped(b)[r] = b[r]
      /\ Tail(b[0]) \in Seq(ToCoord)
  BY <1>1, PoppedIs
<1>3. ASSUME NEW r \in Solvers PROVE Order(d, Tail(b[0]), r) /\ SolverOk(d, Tail(b[0]), sv[r], b[r], r)
  <2>1. CASE r = s
    BY <2>1
  <2>2. CASE r # s
    BY <2>2, OtherPopped, SilentToOthers
  <2> QED
    BY <2>1, <2>2
<1>4. \A r \in Solvers : b[r] \in Seq(ToSolver)
  BY <1>1 DEF Typed
<1> DEFINE z == Popped(b)
<1> HIDE DEF z
<1>5. /\ Table(z) /\ z[0] = Tail(b[0]) /\ z[0] \in Seq(ToCoord)
      /\ \A r \in Solvers : z[r] = b[r]
  BY <1>2 DEF z
<1>6. CoordOk(d, z)
  BY <1>3, <1>4, <1>5, Composed
<1> QED
  BY <1>6 DEF z

\* So when the sender gets an answer.
LEMMA OneAnswered ==
    ASSUME NEW c, NEW b, CoordOk(c, b), SvTyped, b[0] # <<>>,
           NEW d \in CoordSet, d.inc = c.inc, NEW s \in Solvers, Head(b[0]).src = s,
           Head(b[0]).tag # "Solution",
           \A r \in Solvers \ {s} : Same(c.cur[r], d.cur[r]), NEW m \in ToSolver,
           Order(d, Tail(b[0]), s), SolverOk(d, Tail(b[0]), sv[s], Append(b[s], m), s)
    PROVE  CoordOk(d, SentTo(Popped(b), {s}, m))
<1>1. Typed(c, b) /\ c \in CoordSet
  BY DEF CoordOk, Typed
<1>2. /\ Typed(c, Popped(b)) /\ Popped(b)[0] = Tail(b[0]) /\ \A r \in Solvers : Popped(b)[r] = b[r]
      /\ Tail(b[0]) \in Seq(ToCoord)
  BY <1>1, PoppedIs
<1>3. Mailed(Popped(b), SentTo(Popped(b), {s}, m), {s}, m)
  BY <1>2, SentToIs
<1>4. d.inc <= c.inc
  BY <1>1, ValsIs DEF CoordSet
<1>5. ASSUME NEW r \in Solvers, r # s PROVE Order(d, Tail(b[0]), r) /\ SolverOk(d, Tail(b[0]), sv[r], b[r], r)
  BY <1>4, <1>5, OtherPopped, SilentToOthers
<1>6. \A r \in Solvers : b[r] \in Seq(ToSolver)
  BY <1>1 DEF Typed
<1> DEFINE z == SentTo(Popped(b), {s}, m)
           p == Popped(b)
<1> HIDE DEF z, p
<1>7. Mailed(p, z, {s}, m) /\ p[0] = Tail(b[0]) /\ \A r \in Solvers : p[r] = b[r]
  BY <1>2, <1>3 DEF z, p
<1>8. Table(z) /\ z[0] = Tail(b[0])
  BY <1>7, Zenon DEF Mailed
<1>9. ASSUME NEW r \in Solvers
      PROVE  /\ z[r] \in Seq(ToSolver)
             /\ Order(d, z[0], r) /\ SolverOk(d, z[0], sv[r], z[r], r)
  <2>1. CASE r = s
    <3>1. z[r] = Append(b[s], m)
      BY <1>7, <2>1 DEF Mailed
    <3>2. Append(b[s], m) \in Seq(ToSolver)
      BY <1>6
    <3> QED
      BY <1>8, <2>1, <3>1, <3>2
  <2>2. CASE r # s
    <3>1. z[r] = b[r]
      BY <1>7, <2>2 DEF Mailed
    <3> QED
      BY <1>5, <1>6, <1>8, <2>2, <3>1
  <2> QED
    BY <2>1, <2>2
<1>10. CoordOk(d, z)
  BY <1>2, <1>8, <1>9, Composed
<1> QED
  BY <1>10 DEF z

\* So when one solver gets a message and none is taken.
LEMMA OneMailed ==
    ASSUME NEW c, NEW b, CoordOk(c, b), SvTyped,
           NEW d \in CoordSet, d.inc = c.inc, NEW s \in Solvers,
           \A r \in Solvers \ {s} : Same(c.cur[r], d.cur[r]), NEW m \in ToSolver,
           Order(d, b[0], s), SolverOk(d, b[0], sv[s], Append(b[s], m), s)
    PROVE  CoordOk(d, SentTo(b, {s}, m))
<1>1. Typed(c, b) /\ c \in CoordSet /\ b[0] \in Seq(ToCoord)
  BY DEF CoordOk, Typed
<1>2. Mailed(b, SentTo(b, {s}, m), {s}, m)
  BY <1>1, SentToIs
<1>3. d.inc <= c.inc
  BY <1>1, ValsIs DEF CoordSet
<1> DEFINE z == SentTo(b, {s}, m)
<1> HIDE DEF z
<1>4. Mailed(b, z, {s}, m)
  BY <1>2 DEF z
<1>5. Table(z) /\ z[0] = b[0]
  BY <1>4, Zenon DEF Mailed
<1>6. ASSUME NEW r \in Solvers
      PROVE  /\ z[r] \in Seq(ToSolver)
             /\ Order(d, z[0], r) /\ SolverOk(d, z[0], sv[r], z[r], r)
  <2>1. /\ c.cur[r] \in MaybeNode /\ sv[r] \in SolverSet /\ b[r] \in Seq(ToSolver)
        /\ Order(c, b[0], r) /\ SolverOk(c, b[0], sv[r], b[r], r)
    BY CoordParts
  <2>2. CASE r = s
    <3>1. z[r] = Append(b[s], m)
      BY <1>4, <2>2 DEF Mailed
    <3>2. Append(b[s], m) \in Seq(ToSolver)
      BY <2>1, <2>2
    <3> QED
      BY <1>5, <2>2, <3>1, <3>2
  <2>3. CASE r # s
    <3>1. z[r] = b[r]
      BY <1>4, <2>3 DEF Mailed
    <3>2. Same(c.cur[r], d.cur[r]) /\ d.cur[r] \in MaybeNode
      BY <2>3, CoordFields
    <3>3. SolverOk(d, b[0], sv[r], b[r], r)
      BY <1>1, <1>3, <2>1, <3>2, OkChanged
    <3>4. c.cur[r] = NoNode <=> d.cur[r] = NoNode
      BY <2>1, <3>2, SameNone
    <3>5. Order(d, b[0], r)
      BY <2>1, <3>4, Zenon DEF Order
    <3> QED
      BY <1>5, <2>1, <3>1, <3>3, <3>5
  <2> QED
    BY <2>2, <2>3
<1>7. CoordOk(d, z)
  BY <1>1, <1>5, <1>6, Composed
<1> QED
  BY <1>7 DEF z

\* An idle solver has no node, none comes to it, and it asks for none.
LEMMA IdleSolver ==
    ASSUME NEW q, NEW v \in SolverSet, NEW r \in Seq(ToSolver), NEW s,
           Talks(NoNode, q, v, r, s), None(q, Ends(s))
    PROVE  v.cur = NoNode /\ v.new = NoNode /\ ~v.asked /\ None(r, Replies)
<1>1. None(r, NewNodes)
  <2>1. ASSUME NEW k \in DOMAIN r, r[k] \in NewNodes PROVE FALSE
    <3>1. Same(NoNode, r[k].val)
      BY <2>1 DEF Talks, Agrees
    <3>2. r[k].val \in NodeSet
      BY <2>1 DEF NewNodes, ToSolver
    <3> QED
      BY <3>1, <3>2, SameNone, NodeTypes DEF MaybeNode
  <2> QED
    BY <2>1 DEF None
<1>2. Same(NoNode, Has(v))
  BY <1>1 DEF Talks, Agrees
<1>3. v.cur \in MaybeNode /\ v.new \in MaybeNode /\ NoNode \in MaybeNode
  BY DEF SolverSet, MaybeNode
<1>4. Has(v) = NoNode
  BY <1>2, <1>3, SameNone DEF Has
<1>5. v.cur = NoNode /\ v.new = NoNode
  BY <1>4 DEF Has
<1>6. ~v.asked
  BY <1>5 DEF Talks, Waits
<1>7. None(r, Refusals)
  BY <1>6 DEF Talks, Asks
<1> QED
  BY <1>1, <1>5, <1>6, <1>7 DEF None, Replies

NodeMsg(n) == Msg("Node", 0, n)

\* The message with a node.
LEMMA NodeMsgIs ==
    ASSUME NEW n \in NodeSet
    PROVE  /\ NodeMsg(n) \in ToSolver /\ NodeMsg(n) \in NewNodes /\ NodeMsg(n) \notin Answers
           /\ NodeMsg(n) \notin Refusals /\ NodeMsg(n).val = n /\ NodeMsg(n).tag = "Node"
           /\ NodeMsg(n) \in Replies
BY DEF NodeMsg, Msg, ToSolver, NewNodes, Answers, Refusals, Replies

\* The last of the messages is a new node.
LEMMA NewNodeAgrees ==
    ASSUME NEW q, NEW v, NEW r \in Seq(ToSolver), NEW s, NEW n \in NodeSet, None(r, NewNodes)
    PROVE  Agrees(n, q, v, Append(r, NodeMsg(n)), s)
<1> DEFINE m == NodeMsg(n)
           z == Append(r, m)
<1>1. m \in ToSolver /\ m \in NewNodes /\ m.val = n
  BY NodeMsgIs
<1> HIDE DEF m
<1>2. /\ Len(r) \in Nat /\ DOMAIN r = 1..Len(r) /\ DOMAIN z = 1..(Len(r) + 1)
      /\ z[Len(r) + 1] = m /\ \A k \in 1..Len(r) : z[k] = r[k]
  BY <1>1
<1> HIDE DEF z
<1>3. ASSUME NEW k \in DOMAIN z, z[k] \in NewNodes PROVE Same(n, z[k].val)
  <2>1. CASE k \in DOMAIN r
    BY <1>2, <1>3, <2>1 DEF None
  <2>2. CASE k = Len(r) + 1
    BY <1>1, <1>2, <2>2 DEF Same
  <2> QED
    BY <1>2, <2>1, <2>2
<1>4. ~None(z, NewNodes)
  <2>1. Len(r) + 1 \in DOMAIN z /\ z[Len(r) + 1] \in NewNodes
    BY <1>1, <1>2
  <2> QED
    BY <2>1 DEF None
<1> QED
  BY <1>3, <1>4 DEF Agrees, z, m

\* An idle solver gets a node.
LEMMA NodeToIdle ==
    ASSUME NEW c, NEW q \in Seq(ToCoord), NEW v \in SolverSet, NEW r \in Seq(ToSolver), NEW s,
           c.cur[s] = NoNode, Order(c, q, s), SolverOk(c, q, v, r, s),
           NEW n \in NodeSet, NEW d, d.cur[s] = n, d.inc = c.inc
    PROVE  Order(d, q, s) /\ SolverOk(d, q, v, Append(r, NodeMsg(n)), s)
<1> DEFINE z == Append(r, NodeMsg(n))
<1>1. /\ NodeMsg(n) \in ToSolver /\ NodeMsg(n) \in NewNodes /\ NodeMsg(n) \notin Answers
      /\ NodeMsg(n) \notin Refusals /\ NodeMsg(n).val = n /\ NodeMsg(n).tag = "Node"
  BY NodeMsgIs
<1>2. None(q, Ends(s)) /\ None(q, Requests(s))
  BY DEF Order, None
<1>3. Order(d, q, s)
  BY NodeTypes DEF Order, MaybeNode
<1>4. Told(d, z)
  <2>1. Told(c, r)
    BY DEF SolverOk
  <2> QED
    BY <1>1, <2>1 DEF Told
<1>5. ASSUME Talks(c.cur[s], q, v, r, s) PROVE Talks(d.cur[s], q, v, z, s)
  <2>1. v.cur = NoNode /\ v.new = NoNode /\ ~v.asked /\ None(r, Replies)
    BY <1>2, <1>5, IdleSolver
  <2>2. None(r, Refusals) /\ None(r, NewNodes)
    BY <2>1 DEF None, Replies
  <2>3. /\ None(z, Answers) <=> None(r, Answers)
        /\ Single(z, Answers) <=> Single(r, Answers)
        /\ None(z, Refusals) /\ Single(z, NewNodes)
    BY <1>1, <2>2, LongerQueue
  <2>4. Agrees(n, q, v, z, s)
    BY <2>2, NewNodeAgrees
  <2> HIDE DEF z
  <2>5. Reports(q, v, z, s)
    BY <1>5, <2>3, Zenon DEF Talks, Reports, One
  <2>6. Asks(q, v, z, s) /\ Waits(q, v, z, s)
    BY <1>2, <2>1, <2>3, Zenon DEF Asks, Waits
  <2> QED
    BY <2>4, <2>5, <2>6 DEF Talks
<1>6. Knows(c, v) => Knows(d, v)
  BY DEF Knows
<1>7. Keeps(c, q, v) => Keeps(d, q, v)
  BY DEF Keeps, Arrives
<1> HIDE DEF z
<1>8. SolverOk(d, q, v, z, s)
  BY <1>4, <1>5, <1>6, <1>7, Zenon DEF SolverOk
<1> QED
  BY <1>3, <1>8 DEF z

\* The load coordinator becomes d when it sends n to s.
Sends(c, b, s, n, d) ==
    /\ Activated([lc |-> c, box |-> b], s, n) = [lc |-> d, box |-> SentTo(b, {s}, NodeMsg(n))]
    /\ d.inc = c.inc /\ d.cur[s] = n /\ d.pool = c.pool /\ d.hard = c.hard /\ d.pc = c.pc
    /\ \A r \in Solvers \ {s} : d.cur[r] = c.cur[r]

\* What Activated changes.
LEMMA ActivatedIs ==
    ASSUME NEW c \in CoordSet, NEW b, NEW s \in Solvers, NEW n \in NodeSet
    PROVE  \E d \in CoordSet : Sends(c, b, s, n, d)
<1> DEFINE x == [lc |-> c, box |-> b]
           e == [c EXCEPT !.cur = [c.cur EXCEPT ![s] = n]]
           d == [c EXCEPT !.cur = [c.cur EXCEPT ![s] = n], !.sbound = [c.sbound EXCEPT ![s] = n.bound]]
<1>1. [x EXCEPT !.lc.cur[s] = n, !.lc.sbound[s] = n.bound]
          = [[x EXCEPT !.lc.cur[s] = n] EXCEPT !.lc.sbound[s] = n.bound]
  OBVIOUS
<1>2. [x EXCEPT !.lc.cur[s] = n] = [lc |-> e, box |-> b]
  OBVIOUS
<1>3. [[lc |-> e, box |-> b] EXCEPT !.lc.sbound[s] = n.bound] = [lc |-> d, box |-> b]
  <2>1. e.sbound = c.sbound
    BY DEF CoordSet
  <2>2. [e EXCEPT !.sbound = [c.sbound EXCEPT ![s] = n.bound]] = d
    OBVIOUS
  <2> HIDE DEF e, d
  <2>3. [[lc |-> e, box |-> b] EXCEPT !.lc.sbound[s] = n.bound]
            = [lc |-> [e EXCEPT !.sbound = [e.sbound EXCEPT ![s] = n.bound]], box |-> b]
    OBVIOUS
  <2> QED
    BY <2>1, <2>2, <2>3
<1>4. Activated(x, s, n) = ToSolvers([lc |-> d, box |-> b], {s}, "Node", n)
  BY <1>1, <1>2, <1>3 DEF Activated
<1>5. Activated(x, s, n) = [lc |-> d, box |-> SentTo(b, {s}, NodeMsg(n))]
  BY <1>4, SentIs DEF NodeMsg
<1>6. c.cur \in [Solvers -> MaybeNode] /\ c.sbound \in [Solvers -> Nat]
  BY CoordFields
<1>7. n \in MaybeNode /\ n.bound \in Nat
  BY DEF MaybeNode, NodeSet
<1> DEFINE C == [c.cur EXCEPT ![s] = n]
           B == [c.sbound EXCEPT ![s] = n.bound]
<1>8. C \in [Solvers -> MaybeNode] /\ B \in [Solvers -> Nat] /\ C[s] = n
      /\ \A r \in Solvers \ {s} : C[r] = c.cur[r]
  BY <1>6, <1>7
<1>9. d = [c EXCEPT !.cur = C, !.sbound = B]
  OBVIOUS
<1> HIDE DEF C, B, d
<1>10. d \in CoordSet /\ d.cur = C /\ d.inc = c.inc /\ d.pool = c.pool /\ d.hard = c.hard /\ d.pc = c.pc
  BY <1>8, <1>9 DEF CoordSet
<1>11. Sends(c, b, s, n, d)
  BY <1>5, <1>8, <1>10 DEF Sends
<1> QED
  BY <1>10, <1>11

\* A node goes to an idle solver: the whole is left.
LEMMA ActivatedOk ==
    ASSUME NEW c, NEW b, CoordOk(c, b), SvTyped, NEW s \in Solvers, c.cur[s] = NoNode, NEW n \in NodeSet
    PROVE  Ok(Activated([lc |-> c, box |-> b], s, n))
<1>1. c \in CoordSet
  BY DEF CoordOk, Typed
<1>2. PICK d \in CoordSet : Sends(c, b, s, n, d)
  BY <1>1, ActivatedIs
<1>3. /\ Activated([lc |-> c, box |-> b], s, n) = [lc |-> d, box |-> SentTo(b, {s}, NodeMsg(n))]
      /\ d.inc = c.inc /\ d.cur[s] = n
      /\ \A r \in Solvers \ {s} : d.cur[r] = c.cur[r]
  BY <1>2 DEF Sends
<1>4. /\ sv[s] \in SolverSet /\ b[0] \in Seq(ToCoord) /\ b[s] \in Seq(ToSolver)
      /\ Order(c, b[0], s) /\ SolverOk(c, b[0], sv[s], b[s], s)
  BY CoordParts
<1>5. Order(d, b[0], s) /\ SolverOk(d, b[0], sv[s], Append(b[s], NodeMsg(n)), s)
  BY <1>3, <1>4, NodeToIdle
<1>6. NodeMsg(n) \in ToSolver /\ \A r \in Solvers \ {s} : Same(c.cur[r], d.cur[r])
  BY <1>3, NodeMsgIs DEF Same
<1>7. CoordOk(d, SentTo(b, {s}, NodeMsg(n)))
  BY <1>3, <1>5, <1>6, OneMailed
<1> QED
  BY <1>3, <1>7 DEF Ok

CoordStates == [lc : CoordSet, box : [0..N -> Seq(ToCoord) \cup Seq(ToSolver)]]
OkStates == {st \in CoordStates : Ok(st)}

\* A state of the load coordinator and its queues, taken apart.
LEMMA OkIs ==
    ASSUME NEW st, Ok(st)
    PROVE  st \in OkStates /\ st = [lc |-> st.lc, box |-> st.box] /\ CoordOk(st.lc, st.box) /\ st.lc \in CoordSet
<1>1. st = [lc |-> st.lc, box |-> st.box] /\ CoordOk(st.lc, st.box)
  BY DEF Ok
<1>2. st.lc \in CoordSet /\ st.box \in [0..N -> Seq(ToCoord) \cup Seq(ToSolver)]
  BY <1>1 DEF CoordOk, Typed
<1>3. st \in CoordStates
  BY <1>1, <1>2 DEF CoordStates
<1> QED
  BY <1>1, <1>2, <1>3 DEF OkStates

\* And put together.
LEMMA OkMade ==
    ASSUME NEW c, NEW b, CoordOk(c, b)
    PROVE  Ok([lc |-> c, box |-> b]) /\ [lc |-> c, box |-> b].lc = c /\ [lc |-> c, box |-> b].box = b
BY DEF Ok

\* Another pool.
NewPool(c, p) == [c EXCEPT !.pool = p]

\* The pool is nothing a solver knows of.
LEMMA PoolChanged ==
    ASSUME NEW c \in CoordSet, NEW p \in Seq(NodeSet)
    PROVE  /\ NewPool(c, p) \in CoordSet /\ Alike(c, NewPool(c, p))
           /\ NewPool(c, p).cur = c.cur /\ NewPool(c, p).inc = c.inc /\ NewPool(c, p).pool = p
<1>1. NewPool(c, p) \in CoordSet /\ NewPool(c, p).cur = c.cur /\ NewPool(c, p).inc = c.inc /\ NewPool(c, p).pool = p
  BY DEF CoordSet, NewPool
<1> QED
  BY <1>1 DEF Alike, Same

\* The change of the pool in a state.
LEMMA PoolSet ==
    ASSUME NEW st, st = [lc |-> st.lc, box |-> st.box], NEW p
    PROVE  [st EXCEPT !.lc.pool = p] = [lc |-> NewPool(st.lc, p), box |-> st.box]
<1>1. \A c, b : [[lc |-> c, box |-> b] EXCEPT !.lc.pool = p] = [lc |-> [c EXCEPT !.pool = p], box |-> b]
  OBVIOUS
<1>2. [[lc |-> st.lc, box |-> st.box] EXCEPT !.lc.pool = p] = [lc |-> [st.lc EXCEPT !.pool = p], box |-> st.box]
  BY <1>1, Zenon
<1> QED
  BY <1>2, Zenon DEF NewPool

\* sendParaNodesToIdleSolvers, one round.
LEMMA OneNodeSentOk ==
    ASSUME SvTyped, NEW st, Ok(st), NEW k
    PROVE  Ok(OneNodeSent(st, k))
<1> DEFINE idle == Solvers \ Active(st.lc)
<1>1. st = [lc |-> st.lc, box |-> st.box] /\ CoordOk(st.lc, st.box) /\ st.lc \in CoordSet
  BY OkIs
<1> DEFINE c == st.lc
           b == st.box
<1>2. c.pool \in Seq(NodeSet) /\ c.cur \in [Solvers -> MaybeNode]
  BY <1>1, CoordFields
<1>3. CASE idle = {} \/ c.pool = <<>> \/ c.phase = "termination"
  BY <1>3 DEF OneNodeSent
<1>4. CASE ~(idle = {} \/ c.pool = <<>> \/ c.phase = "termination") /\ Head(c.pool).bound < c.inc
  <2>1. OneNodeSent(st, k) = Activated([st EXCEPT !.lc.pool = Tail(@)], Least(idle), Head(c.pool))
    BY <1>4 DEF OneNodeSent
  <2>2. Head(c.pool) \in NodeSet /\ Tail(c.pool) \in Seq(NodeSet)
    BY <1>2, <1>4, HeadAndTail
  <2>3. Least(idle) \in idle
    <3>1. idle \subseteq Nat /\ idle # {}
      BY <1>4, SolversFinite
    <3> QED
      BY <3>1, LeastIs
  <2>4. Least(idle) \in Solvers /\ c.cur[Least(idle)] = NoNode
    BY <2>3 DEF Active
  <2>5. PICK d : d = NewPool(c, Tail(c.pool))
    BY Zenon
  <2>6. [st EXCEPT !.lc.pool = Tail(@)] = [lc |-> d, box |-> b]
    BY <1>1, <2>5, PoolSet, Zenon
  <2>7. d \in CoordSet /\ Alike(c, d) /\ d.cur = c.cur
    BY <1>1, <2>2, <2>5, PoolChanged
  <2>8. CoordOk(d, b)
    BY <1>1, <2>7, CoordAlike
  <2>9. Ok(Activated([lc |-> d, box |-> b], Least(idle), Head(c.pool)))
    BY <2>2, <2>4, <2>7, <2>8, ActivatedOk
  <2> QED
    BY <2>1, <2>6, <2>9
<1>5. CASE ~(idle = {} \/ c.pool = <<>> \/ c.phase = "termination") /\ ~(Head(c.pool).bound < c.inc)
  <2>1. OneNodeSent(st, k) = [st EXCEPT !.lc = DeletedBehind(c, 0)]
    BY <1>5 DEF OneNodeSent
  <2>2. [st EXCEPT !.lc = DeletedBehind(c, 0)] = [lc |-> DeletedBehind(c, 0), box |-> b]
    BY <1>1
  <2>3. <<>> \in Seq(NodeSet)
    OBVIOUS
  <2>4. DeletedBehind(c, 0) \in CoordSet /\ Alike(c, DeletedBehind(c, 0))
    BY <1>1, <1>2, <2>3, BehindIs
  <2>5. CoordOk(DeletedBehind(c, 0), b)
    BY <1>1, <2>4, CoordAlike
  <2> QED
    BY <2>1, <2>2, <2>5, OkMade
<1> QED
  BY <1>3, <1>4, <1>5

\* What each of the rounds of sendParaNodesToIdleSolvers keeps, all keep.
LEMMA NodesSentKeeps ==
    ASSUME NEW A, NEW st \in A, \A e \in A, x \in Nat : OneNodeSent(e, x) \in A
    PROVE  NodesSent(st) \in A
<1> DEFINE xs == [k \in 1..N |-> k]
           F == [p \in A \X Nat |-> OneNodeSent(p[1], p[2])]
           Row(r) == r = [k \in 0..Len(xs) |-> IF k = 0 THEN st ELSE OneNodeSent(r[k - 1], xs[k])]
<1>1. xs \in Seq(Nat)
  BY NAssumption
<1>4. F \in [A \X Nat -> A]
  OBVIOUS
<1> HIDE DEF xs, F
<1>5. PICK r \in [0..Len(xs) -> A] : IsRow(r, F, st, xs, Len(xs))
  BY <1>1, <1>4, RowExists
<1>6. Len(xs) \in Nat /\ \A k \in 1..Len(xs) : xs[k] \in Nat
  BY <1>1
<1>7. \A k \in 0..Len(xs) : r[k] = IF k = 0 THEN st ELSE OneNodeSent(r[k - 1], xs[k])
  <2>1. ASSUME NEW k \in 0..Len(xs), k # 0 PROVE F[<<r[k - 1], xs[k]>>] = OneNodeSent(r[k - 1], xs[k])
    <3>1. k - 1 \in 0..Len(xs) /\ k \in 1..Len(xs)
      BY <1>6, <2>1
    <3>2. xs[k] \in Nat
      BY <1>6, <3>1
    <3>3. r[k - 1] \in A
      BY <1>5, <3>1
    <3> QED
      BY <3>2, <3>3 DEF F
  <2> QED
    BY <1>5, <2>1 DEF IsRow
<1>8. Row(r)
  BY <1>5, <1>7
<1> DEFINE z == CHOOSE f : Row(f)
<1>9. Row(z)
  BY <1>8, Zenon
<1>10. NodesSent(st) = z[Len(xs)]
  BY Zenon DEF NodesSent, Applied, xs
<1> HIDE DEF z
<1>11. \A k \in 0..Len(xs) : z[k] = IF k = 0 THEN st ELSE OneNodeSent(z[k - 1], xs[k])
  BY <1>9, Zenon
<1>12. z[0] \in A
  BY <1>6, <1>11
<1>13. ASSUME NEW k \in 1..Len(xs), z[k - 1] \in A PROVE z[k] \in A
  <2>1. z[k] = OneNodeSent(z[k - 1], xs[k])
    BY <1>6, <1>11
  <2> QED
    BY <1>6, <1>13, <2>1
<1>14. z[Len(xs)] \in A
  <2>1. \A k \in 0..Len(xs) : z[k] \in A
    BY <1>6, <1>12, <1>13, RowStays
  <2> QED
    BY <1>6, <2>1
<1> QED
  BY <1>10, <1>14

\* sendParaNodesToIdleSolvers.
LEMMA NodesSentOk ==
    ASSUME SvTyped, NEW st, Ok(st)
    PROVE  Ok(NodesSent(st))
<1>1. st \in OkStates
  BY OkIs
<1>2. \A e \in OkStates, x \in Nat : OneNodeSent(e, x) \in OkStates
  BY OneNodeSentOk, OkIs DEF OkStates
<1>3. NodesSent(st) \in OkStates
  BY <1>1, <1>2, NodesSentKeeps
<1> QED
  BY <1>3 DEF OkStates

\* The messages that are no answers, and tell no better value than the
\* incumbent.
LEMMA PlainIs ==
    ASSUME NEW c
    PROVE  /\ \A tag \in {"NodeReceived", "RampUp", "TerminateRequest", "InterruptRequest"} :
                 Plain(Msg(tag, 0, 0), c)
           /\ \A tag \in {"Solution", "IncumbentValue"}, x \in Vals : c.inc <= x => Plain(Msg(tag, 0, x), c)
BY DEF Plain, Msg, ToSolver, Answers, Replies, Refusals, NewNodes

\* They may be sent to any solvers.
LEMMA MailedOk ==
    ASSUME SvTyped, NEW st, Ok(st), NEW rs \in SUBSET Solvers, NEW tag, NEW val,
           rs # {} => Plain(Msg(tag, 0, val), st.lc)
    PROVE  /\ Ok(ToSolvers(st, rs, tag, val))
           /\ ToSolvers(st, rs, tag, val) = [lc |-> st.lc, box |-> SentTo(st.box, rs, Msg(tag, 0, val))]
<1>1. st = [lc |-> st.lc, box |-> st.box] /\ CoordOk(st.lc, st.box)
  BY OkIs
<1>2. ToSolvers([lc |-> st.lc, box |-> st.box], rs, tag, val)
          = [lc |-> st.lc, box |-> SentTo(st.box, rs, Msg(tag, 0, val))]
  BY SentIs
<1>3. CoordOk(st.lc, SentTo(st.box, rs, Msg(tag, 0, val)))
  BY <1>1, CoordMailed
<1>4. ToSolvers(st, rs, tag, val) = [lc |-> st.lc, box |-> SentTo(st.box, rs, Msg(tag, 0, val))]
  BY <1>1, <1>2, Zenon
<1> QED
  BY <1>3, <1>4, OkMade

\* A message that is about no solver is taken.
LEMMA AllPopped ==
    ASSUME NEW c, NEW b, CoordOk(c, b), SvTyped, b[0] # <<>>,
           NEW d \in CoordSet, d.inc <= c.inc, \A s \in Solvers : Same(c.cur[s], d.cur[s]),
           \A s \in Solvers : SilentMsg(Head(b[0]), s),
           Head(b[0]).tag = "Solution" => d.inc <= Head(b[0]).val
    PROVE  CoordOk(d, Popped(b))
<1>1. Typed(c, b)
  BY DEF CoordOk
<1>2. /\ Table(Popped(b)) /\ Popped(b)[0] = Tail(b[0]) /\ \A r \in Solvers : Popped(b)[r] = b[r]
      /\ Tail(b[0]) \in Seq(ToCoord)
  BY <1>1, PoppedIs
<1>3. ASSUME NEW r \in Solvers PROVE Order(d, Tail(b[0]), r) /\ SolverOk(d, Tail(b[0]), sv[r], b[r], r)
  BY OtherPopped
<1>4. \A r \in Solvers : b[r] \in Seq(ToSolver)
  BY <1>1 DEF Typed
<1> DEFINE z == Popped(b)
<1> HIDE DEF z
<1>5. /\ Table(z) /\ z[0] = Tail(b[0]) /\ z[0] \in Seq(ToCoord)
      /\ \A r \in Solvers : z[r] = b[r]
  BY <1>2 DEF z
<1>6. CoordOk(d, z)
  BY <1>3, <1>4, <1>5, Composed
<1> QED
  BY <1>6 DEF z

\* Which messages are about their sender, by their tags.
LEMMA SilentTags ==
    ASSUME NEW m \in ToCoord
    PROVE  /\ m.tag \in {"Node", "Solution", "Terminated"} => \A s : SilentMsg(m, s)
           /\ m.tag = "Completion" /\ m.val = "another" => \A s : SilentMsg(m, s)
           /\ m.tag = "Completion" /\ m.val # "another" => m \in Ends(m.src)
           /\ m.tag = "SolverState" => m \in States(m.src)
           /\ m.tag = "AnotherNodeRequest" => m \in Requests(m.src)
           /\ m.src \in Solvers
BY DEF SilentMsg, States, Requests, Ends, ToCoord

\* A message that changes nothing is taken.
LEMMA SilentPopped ==
    ASSUME NEW c, NEW b, CoordOk(c, b), SvTyped, b[0] # <<>>,
           \/ Head(b[0]).tag \in {"Node", "Terminated"}
           \/ Head(b[0]).tag = "Completion" /\ Head(b[0]).val = "another"
    PROVE  CoordOk(c, Popped(b))
<1>1. Typed(c, b) /\ c \in CoordSet
  BY DEF CoordOk, Typed
<1>2. Head(b[0]) \in ToCoord
  BY <1>1, PoppedIs
<1>3. (\A s \in Solvers : SilentMsg(Head(b[0]), s)) /\ Head(b[0]).tag # "Solution"
  BY <1>2, SilentTags
<1>4. c.inc <= c.inc /\ \A s \in Solvers : Same(c.cur[s], c.cur[s])
  BY <1>1, ValsIs DEF CoordSet, Same
<1> QED
  BY <1>1, <1>3, <1>4, AllPopped

\* The node that is made of a part given away by a solver.
Grafted(c, m) == Node(FreshId(c), m.val.leaves, m.val.bound, c.cur[m.src].id)

\* processTagNode, state by state.
LEMMA NodeTakenIs ==
    ASSUME NEW c, NEW b, NEW m
    PROVE  LET st == [lc |-> c, box |-> b]
               more == [lc |-> NewPool(c, Inserted(c.pool, Grafted(c, m))), box |-> b]
           IN /\ m.val.bound < c.inc =>
                    NodeTaken(st, m) = ToSolvers(NodesSent(more), {m.src}, "NodeReceived", 0)
              /\ ~(m.val.bound < c.inc) => NodeTaken(st, m) = ToSolvers(st, {m.src}, "NodeReceived", 0)
<1> DEFINE st == [lc |-> c, box |-> b]
           n == Grafted(c, m)
           p == Inserted(c.pool, n)
           more == [lc |-> NewPool(c, p), box |-> b]
<1>1. st = [lc |-> st.lc, box |-> st.box] /\ st.lc = c /\ st.box = b
  OBVIOUS
<1> HIDE DEF n
<1>2. [st EXCEPT !.lc.pool = Inserted(@, n)] = more
  <2> HIDE DEF st
  <2>1. Inserted(st.lc.pool, n) = p
    BY <1>1, Zenon
  <2> HIDE DEF p
  <2>2. [st EXCEPT !.lc.pool = p] = [lc |-> NewPool(st.lc, p), box |-> st.box]
    BY <1>1, PoolSet, Zenon
  <2> QED
    BY <1>1, <2>1, <2>2, Zenon
<1> HIDE DEF st, p, more
<1>3. NodeTaken(st, m) = ToSolvers(IF m.val.bound < c.inc THEN NodesSent([st EXCEPT !.lc.pool = Inserted(@, n)])
                                   ELSE st, {m.src}, "NodeReceived", 0)
  BY <1>1, Zenon DEF NodeTaken, n, Grafted
<1>4. /\ m.val.bound < c.inc => NodeTaken(st, m) = ToSolvers(NodesSent(more), {m.src}, "NodeReceived", 0)
      /\ ~(m.val.bound < c.inc) => NodeTaken(st, m) = ToSolvers(st, {m.src}, "NodeReceived", 0)
  BY <1>2, <1>3, Zenon
<1> QED
  BY <1>4, Zenon DEF st, more, p, n

\* processTagNode: the new node is one, and fits into the pool.
LEMMA GraftedIs ==
    ASSUME NEW c \in CoordSet, NEW m \in ToCoord, m.tag = "Node"
    PROVE  /\ Grafted(c, m) \in NodeSet /\ \A n \in Nodes(c) : n.id # Grafted(c, m).id
           /\ Grafted(c, m).leaves = m.val.leaves /\ Grafted(c, m).bound = m.val.bound
           /\ Grafted(c, m).anc = c.cur[m.src].id /\ m.src \in Solvers
           /\ Inserted(c.pool, Grafted(c, m)) \in Seq(NodeSet)
<1>1. m.val \in [leaves : (SUBSET Leaves) \ {{}}, bound : Nat] /\ m.src \in Solvers
  BY DEF ToCoord
<1>2. FreshId(c) \in Nat \ {0} /\ (\A n \in Nodes(c) : n.id # FreshId(c)) /\ c.cur[m.src].id \in Nat
  <2>1. c.cur[m.src] \in MaybeNode
    BY <1>1, CoordFields
  <2> QED
    BY <2>1, FreshIdIs, NodeTypes
<1>3. Grafted(c, m) = [id |-> FreshId(c), leaves |-> m.val.leaves, bound |-> m.val.bound, anc |-> c.cur[m.src].id]
  BY DEF Grafted, Node
<1>4. Grafted(c, m) \in NodeSet
  BY <1>1, <1>2, <1>3 DEF NodeSet
<1>5. Inserted(c.pool, Grafted(c, m)) \in Seq(NodeSet)
  BY <1>4, CoordFields, InsertedIs
<1> QED
  BY <1>1, <1>2, <1>3, <1>4, <1>5

\* processTagNode.
LEMMA NodeTakenOk ==
    ASSUME NEW c, NEW b, CoordOk(c, b), SvTyped, b[0] # <<>>, Head(b[0]).tag = "Node"
    PROVE  Ok(NodeTaken([lc |-> c, box |-> Popped(b)], Head(b[0])))
<1> DEFINE m == Head(b[0])
           st == [lc |-> c, box |-> Popped(b)]
           d == NewPool(c, Inserted(c.pool, Grafted(c, m)))
           more == [lc |-> d, box |-> Popped(b)]
<1>1. Typed(c, b) /\ c \in CoordSet
  BY DEF CoordOk, Typed
<1>2. m \in ToCoord
  BY <1>1, PoppedIs
<1>3. m.src \in Solvers /\ Inserted(c.pool, Grafted(c, m)) \in Seq(NodeSet)
  BY <1>1, <1>2, GraftedIs
<1>4. CoordOk(c, Popped(b))
  BY SilentPopped
<1>5. Ok(st)
  BY <1>4, OkMade
<1>6. Ok(more)
  <2>1. d \in CoordSet /\ Alike(c, d)
    BY <1>1, <1>3, PoolChanged
  <2> HIDE DEF d
  <2>2. CoordOk(d, Popped(b))
    BY <1>4, <2>1, CoordAlike
  <2> QED
    BY <2>2, OkMade
<1>7. /\ m.val.bound < c.inc => NodeTaken(st, m) = ToSolvers(NodesSent(more), {m.src}, "NodeReceived", 0)
      /\ ~(m.val.bound < c.inc) => NodeTaken(st, m) = ToSolvers(st, {m.src}, "NodeReceived", 0)
  BY NodeTakenIs, Zenon
<1> HIDE DEF st, more, m
<1>8. Ok(NodesSent(more))
  BY <1>6, NodesSentOk
<1>9. \A e : Ok(e) => Ok(ToSolvers(e, {m.src}, "NodeReceived", 0))
  BY <1>3, PlainIs, MailedOk
<1>10. Ok(NodeTaken(st, m))
  BY <1>5, <1>7, <1>8, <1>9, Zenon
<1> QED
  BY <1>10 DEF st, m

\* What the handlers of a solver's messages do to what holds of it.
LEMMA KeepsShrinks ==
    ASSUME NEW c \in CoordSet, NEW d, d.inc = c.inc, NEW q \in Seq(ToCoord), q # <<>>,
           Head(q).tag # "Solution", NEW v \in SolverSet, Keeps(c, q, v)
    PROVE  Keeps(d, Tail(q), v)
<1>1. c.inc \in Int /\ d.inc \in Int /\ v.own \in Int /\ v.best \in Int /\ d.inc <= c.inc
  BY ValsIs DEF CoordSet, SolverSet
<1> QED
  BY <1>1, ArrivesThen DEF Keeps

\* The solver is told no worse value.
LEMMA ToldMore ==
    ASSUME NEW c, NEW d, d.inc = c.inc, NEW r \in Seq(ToSolver), NEW m \in ToSolver,
           m.tag \notin {"Solution", "IncumbentValue"}, Told(c, r)
    PROVE  Told(d, Append(r, m))
BY DEF Told

\* A message without a node leaves the agreement on the node.
LEMMA AgreesMore ==
    ASSUME NEW n, NEW q, NEW v, NEW r \in Seq(ToSolver), NEW s, NEW m \in ToSolver, m \notin NewNodes,
           Agrees(n, q, v, r, s)
    PROVE  Agrees(n, q, v, Append(r, m), s)
<1> DEFINE z == Append(r, m)
<1>1. None(z, NewNodes) <=> None(r, NewNodes)
  BY LongerQueue
<1>2. \A k \in DOMAIN z : z[k] \in NewNodes => k \in DOMAIN r /\ z[k] = r[k]
  OBVIOUS
<1> HIDE DEF z
<1>3. Agrees(n, q, v, z, s)
  BY <1>1, <1>2 DEF Agrees
<1> QED
  BY <1>3 DEF z

\* The messages to a solver by their tags.
LEMMA TagSets ==
    ASSUME NEW m \in ToSolver
    PROVE  /\ m \in Answers <=> m.tag = "NotificationId"
           /\ m \in Refusals <=> m.tag = "NoNodes"
           /\ m \in NewNodes <=> m.tag = "Node"
           /\ m \in Replies <=> m.tag \in {"NoNodes", "Node"}
BY DEF Answers, Refusals, NewNodes, Replies

\* A report is taken and answered.
LEMMA ReportAnswered ==
    ASSUME NEW c \in CoordSet, NEW q \in Seq(ToCoord), q # <<>>, NEW v \in SolverSet,
           NEW r \in Seq(ToSolver), NEW s, Head(q) \in States(s), SolverOk(c, q, v, r, s),
           NEW m \in ToSolver, m.tag = "NotificationId"
    PROVE  SolverOk(c, Tail(q), v, Append(r, m), s)
<1> DEFINE z == Append(r, m)
           t == Tail(q)
<1>1. m \in Answers /\ m \notin Refusals /\ m \notin NewNodes /\ m \notin Replies
  BY TagSets
<1>2. Head(q).tag = "SolverState" /\ Head(q) \notin Requests(s) /\ Head(q) \notin Ends(s)
  BY MessageSets DEF States
<1>3. /\ Single(z, Answers) <=> None(r, Answers)
      /\ None(z, Refusals) <=> None(r, Refusals)
      /\ None(z, Replies) <=> None(r, Replies)
      /\ Single(z, Replies) <=> Single(r, Replies)
      /\ None(z, NewNodes) <=> None(r, NewNodes)
      /\ Single(z, NewNodes) <=> Single(r, NewNodes)
  BY <1>1, LongerQueue, NotBoth
<1>4. /\ ~None(q, States(s)) /\ (Single(q, States(s)) => None(t, States(s)))
      /\ None(t, Requests(s)) <=> None(q, Requests(s))
      /\ Single(t, Requests(s)) <=> Single(q, Requests(s))
      /\ None(t, Ends(s)) <=> None(q, Ends(s))
  BY <1>2, ShorterQueue
<1>5. Agrees(c.cur[s], q, v, r, s) => Agrees(c.cur[s], q, v, z, s)
  BY <1>1, AgreesMore
<1>6. Told(c, r) => Told(c, z)
  BY ToldMore
<1>7. Keeps(c, q, v) => Keeps(c, t, v)
  BY <1>2, KeepsShrinks
<1> HIDE DEF z, t
<1>8. Reports(q, v, r, s) => Reports(t, v, z, s)
  BY <1>3, <1>4, Zenon DEF Reports, One
<1>9. Asks(q, v, r, s) => Asks(t, v, z, s)
  BY <1>3, <1>4, Zenon DEF Asks, One
<1>10. Waits(q, v, r, s) => Waits(t, v, z, s)
  BY <1>3, <1>4, Zenon DEF Waits
<1>11. Agrees(c.cur[s], q, v, z, s) => Agrees(c.cur[s], t, v, z, s)
  BY <1>4, Zenon DEF Agrees
<1>12. Talks(c.cur[s], q, v, r, s) => Talks(c.cur[s], t, v, z, s)
  BY <1>5, <1>8, <1>9, <1>10, <1>11, Zenon DEF Talks
<1>13. SolverOk(c, t, v, z, s)
  BY <1>6, <1>7, <1>12, Zenon DEF SolverOk
<1> QED
  BY <1>13 DEF t, z

\* A request is taken and refused.
LEMMA RequestRefused ==
    ASSUME NEW c \in CoordSet, NEW q \in Seq(ToCoord), q # <<>>, NEW v \in SolverSet,
           NEW r \in Seq(ToSolver), NEW s, Head(q) \in Requests(s), SolverOk(c, q, v, r, s),
           NEW m \in ToSolver, m.tag = "NoNodes"
    PROVE  SolverOk(c, Tail(q), v, Append(r, m), s)
<1> DEFINE z == Append(r, m)
           t == Tail(q)
<1>1. m \notin Answers /\ m \in Refusals /\ m \notin NewNodes /\ m \in Replies
  BY TagSets
<1>2. Head(q).tag = "AnotherNodeRequest" /\ Head(q) \notin States(s) /\ Head(q) \notin Ends(s)
  BY MessageSets DEF Requests
<1>3. /\ None(z, Answers) <=> None(r, Answers)
      /\ Single(z, Answers) <=> Single(r, Answers)
      /\ Single(z, Replies) <=> None(r, Replies)
      /\ None(z, NewNodes) <=> None(r, NewNodes)
      /\ Single(z, NewNodes) <=> Single(r, NewNodes)
  BY <1>1, LongerQueue, NotBoth
<1>4. /\ ~None(q, Requests(s)) /\ (Single(q, Requests(s)) => None(t, Requests(s)))
      /\ None(t, States(s)) <=> None(q, States(s))
      /\ Single(t, States(s)) <=> Single(q, States(s))
      /\ None(t, Ends(s)) <=> None(q, Ends(s))
  BY <1>2, ShorterQueue
<1>5. Agrees(c.cur[s], q, v, r, s) => Agrees(c.cur[s], q, v, z, s)
  BY <1>1, AgreesMore
<1>6. Told(c, r) => Told(c, z)
  BY ToldMore
<1>7. Keeps(c, q, v) => Keeps(c, t, v)
  BY <1>2, KeepsShrinks
<1> HIDE DEF z, t
<1>8. Reports(q, v, r, s) => Reports(t, v, z, s)
  BY <1>3, <1>4, Zenon DEF Reports, One
<1>9. Asks(q, v, r, s) => Asks(t, v, z, s)
  BY <1>3, <1>4, Zenon DEF Asks, One
<1>10. Waits(q, v, r, s) => Waits(t, v, z, s)
  BY <1>3, <1>4, Zenon DEF Waits
<1>11. Agrees(c.cur[s], q, v, z, s) => Agrees(c.cur[s], t, v, z, s)
  BY <1>4, Zenon DEF Agrees
<1>12. Talks(c.cur[s], q, v, r, s) => Talks(c.cur[s], t, v, z, s)
  BY <1>5, <1>8, <1>9, <1>10, <1>11, Zenon DEF Talks
<1>13. SolverOk(c, t, v, z, s)
  BY <1>6, <1>7, <1>12, Zenon DEF SolverOk
<1> QED
  BY <1>13 DEF t, z

\* A request is taken and another node sent.
LEMMA RequestGranted ==
    ASSUME NEW c \in CoordSet, NEW q \in Seq(ToCoord), q # <<>>, NEW v \in SolverSet,
           NEW r \in Seq(ToSolver), NEW s, Head(q) \in Requests(s), SolverOk(c, q, v, r, s),
           NEW n \in NodeSet, NEW d, d.cur[s] = n, d.inc = c.inc
    PROVE  SolverOk(d, Tail(q), v, Append(r, NodeMsg(n)), s)
<1> DEFINE m == NodeMsg(n)
           z == Append(r, m)
           t == Tail(q)
<1>1. /\ m \in ToSolver /\ m \notin Answers /\ m \notin Refusals /\ m \in NewNodes /\ m \in Replies
      /\ m.tag = "Node"
  BY NodeMsgIs
<1>2. Head(q).tag = "AnotherNodeRequest" /\ Head(q) \notin States(s) /\ Head(q) \notin Ends(s)
  BY MessageSets DEF Requests
<1>3. /\ None(z, Answers) <=> None(r, Answers)
      /\ Single(z, Answers) <=> Single(r, Answers)
      /\ Single(z, Replies) <=> None(r, Replies)
      /\ None(r, Replies) => None(r, NewNodes)
  <2> HIDE DEF m
  <2>1. None(r, Replies) => None(r, NewNodes)
    BY DEF None, Replies
  <2> QED
    BY <1>1, <2>1, LongerQueue, NotBoth
<1>4. /\ ~None(q, Requests(s)) /\ (Single(q, Requests(s)) => None(t, Requests(s)))
      /\ None(t, States(s)) <=> None(q, States(s))
      /\ Single(t, States(s)) <=> Single(q, States(s))
      /\ None(t, Ends(s)) <=> None(q, Ends(s))
  BY <1>2, ShorterQueue
<1>5. None(r, NewNodes) => Agrees(n, t, v, z, s)
  BY NewNodeAgrees
<1>6. Told(c, r) => Told(d, z)
  BY <1>1, ToldMore
<1>7. Keeps(c, q, v) => Keeps(d, t, v)
  BY <1>2, KeepsShrinks
<1> HIDE DEF z, t, m
<1>8. Reports(q, v, r, s) => Reports(t, v, z, s)
  BY <1>3, <1>4, Zenon DEF Reports, One
<1>9. Asks(q, v, r, s) => v.asked /\ Asks(t, v, z, s) /\ None(r, NewNodes)
  BY <1>3, <1>4, Zenon DEF Asks, One
<1>10. v.asked /\ Waits(q, v, r, s) => Waits(t, v, z, s)
  BY <1>3, <1>4, Zenon DEF Waits
<1>11. Talks(c.cur[s], q, v, r, s) => Talks(n, t, v, z, s)
  BY <1>5, <1>8, <1>9, <1>10, Zenon DEF Talks
<1>12. Knows(c, v) => Knows(d, v)
  BY DEF Knows
<1>13. SolverOk(d, t, v, z, s)
  BY <1>6, <1>7, <1>11, <1>12, Zenon DEF SolverOk
<1> QED
  BY <1>13 DEF t, z, m

\* The end of a node is taken: the solver has none.
LEMMA EndTaken ==
    ASSUME NEW c \in CoordSet, NEW q \in Seq(ToCoord), q # <<>>, NEW v \in SolverSet,
           NEW r \in Seq(ToSolver), NEW s, Head(q) \in Ends(s), Order(c, q, s), SolverOk(c, q, v, r, s),
           NEW d, d.cur[s] = NoNode, d.inc = c.inc
    PROVE  Order(d, Tail(q), s) /\ SolverOk(d, Tail(q), v, r, s)
<1> DEFINE t == Tail(q)
<1>2. Head(q).tag = "Completion" /\ Head(q) \notin States(s) /\ Head(q) \notin Requests(s)
  BY MessageSets DEF Ends
<1>3. None(t, Ends(s)) /\ None(t, Requests(s))
  BY OrderShrinks
<1>4. /\ None(t, States(s)) <=> None(q, States(s))
      /\ Single(t, States(s)) <=> Single(q, States(s))
      /\ None(t, Requests(s)) <=> None(q, Requests(s))
      /\ Single(t, Requests(s)) <=> Single(q, Requests(s))
      /\ ~None(q, Ends(s))
  BY <1>2, ShorterQueue
<1>6. Told(c, r) => Told(d, r)
  BY DEF Told
<1>7. Keeps(c, q, v) => Keeps(d, t, v)
  BY <1>2, KeepsShrinks
<1> HIDE DEF t
<1>8. Reports(q, v, r, s) => Reports(t, v, r, s)
  BY <1>4, Zenon DEF Reports, One
<1>9. Asks(q, v, r, s) => Asks(t, v, r, s)
  BY <1>4, Zenon DEF Asks, One
<1>10. Waits(q, v, r, s) => Waits(t, v, r, s) /\ v.cur = NoNode /\ v.new = NoNode /\ None(r, NewNodes)
  BY <1>3, <1>4, Zenon DEF Waits
<1>11. v.cur = NoNode /\ v.new = NoNode /\ None(r, NewNodes) => Agrees(NoNode, t, v, r, s)
  BY DEF Agrees, Has, Same, None
<1>12. Talks(c.cur[s], q, v, r, s) => Talks(NoNode, t, v, r, s)
  BY <1>8, <1>9, <1>10, <1>11, Zenon DEF Talks
<1>13. Knows(c, v) => Knows(d, v)
  BY DEF Knows
<1>14. SolverOk(d, t, v, r, s)
  BY <1>6, <1>7, <1>12, <1>13, Zenon DEF SolverOk
<1>15. Order(d, t, s)
  BY <1>3 DEF Order, None
<1> QED
  BY <1>14, <1>15 DEF t

NewInc(c, x)      == [c EXCEPT !.inc = x]
NewBound(c, s, x) == [c EXCEPT !.sbound[s] = x]

\* A new incumbent.
LEMMA IncChanged ==
    ASSUME NEW c \in CoordSet, NEW x \in Vals
    PROVE  /\ NewInc(c, x) \in CoordSet /\ NewInc(c, x).inc = x
           /\ \A s \in Solvers : Same(c.cur[s], NewInc(c, x).cur[s])
<1>1. NewInc(c, x) \in CoordSet /\ NewInc(c, x).inc = x /\ NewInc(c, x).cur = c.cur
  BY DEF NewInc, CoordSet
<1> QED
  BY <1>1 DEF Same

\* A new bound of a solver.
LEMMA BoundChanged ==
    ASSUME NEW c \in CoordSet, NEW s, NEW x \in Nat
    PROVE  /\ NewBound(c, s, x) \in CoordSet /\ Alike(c, NewBound(c, s, x))
           /\ NewBound(c, s, x).inc = c.inc
<1>1. c.sbound \in [Solvers -> Nat]
  BY CoordFields
<1> DEFINE B == [c.sbound EXCEPT ![s] = x]
<1>2. B \in [Solvers -> Nat] /\ NewBound(c, s, x) = [c EXCEPT !.sbound = B]
  BY <1>1 DEF NewBound
<1> HIDE DEF B
<1>3. NewBound(c, s, x) \in CoordSet /\ NewBound(c, s, x).inc = c.inc /\ NewBound(c, s, x).cur = c.cur
  BY <1>2 DEF CoordSet
<1> QED
  BY <1>3 DEF Alike, Same

\* The queues after all but the finder have been told of the solution.
Spread(b, m) == SentTo(b, Solvers \ {m.src}, Msg("IncumbentValue", 0, m.val))

\* processTagSolution: a solution no better changes nothing.
LEMMA SolutionIgnoredIs ==
    ASSUME NEW c, NEW b, NEW m, ~(m.val < c.inc)
    PROVE  SolutionTaken([lc |-> c, box |-> b], m) = [lc |-> c, box |-> b]
<1> DEFINE st == [lc |-> c, box |-> b]
<1>1. st.lc.inc = c.inc
  OBVIOUS
<1> HIDE DEF st
<1>2. SolutionTaken(st, m) = st
  BY <1>1, Zenon DEF SolutionTaken
<1> QED
  BY <1>2 DEF st

\* A better one is the incumbent, and all but the finder are told of it.
LEMMA SolutionTakenIs ==
    ASSUME NEW c, NEW b, NEW m, m.val < c.inc
    PROVE  SolutionTaken([lc |-> c, box |-> b], m) = [lc |-> Pruned(NewInc(c, m.val)), box |-> Spread(b, m)]
<1> DEFINE st == [lc |-> c, box |-> b]
           rs == Solvers \ {m.src}
           p == SentTo(b, rs, Msg("IncumbentValue", 0, m.val))
<1>1. st.lc.inc = c.inc
  OBVIOUS
<1>2. ToSolvers(st, rs, "IncumbentValue", m.val) = [lc |-> c, box |-> p]
  <2>1. \A x, rr, y : ToSolvers([lc |-> c, box |-> x], rr, "IncumbentValue", y)
                          = [lc |-> c, box |-> SentTo(x, rr, Msg("IncumbentValue", 0, y))]
    BY SentIs
  <2> QED
    BY <2>1, Zenon
<1>3. \A f : [[lc |-> c, box |-> f] EXCEPT !.lc = Pruned([@ EXCEPT !.inc = m.val])]
                 = [lc |-> Pruned(NewInc(c, m.val)), box |-> f]
  BY DEF NewInc
<1> HIDE DEF st, p
<1>4. SolutionTaken(st, m) = [[lc |-> c, box |-> p] EXCEPT !.lc = Pruned([@ EXCEPT !.inc = m.val])]
  BY <1>1, <1>2, Zenon DEF SolutionTaken
<1>5. SolutionTaken(st, m) = [lc |-> Pruned(NewInc(c, m.val)), box |-> p]
  BY <1>3, <1>4, Zenon
<1>6. p = Spread(b, m)
  BY Zenon DEF p, Spread
<1> QED
  BY <1>5, <1>6, Zenon DEF st

\* processTagSolution.
LEMMA SolutionTakenOk ==
    ASSUME NEW c, NEW b, CoordOk(c, b), SvTyped, b[0] # <<>>, Head(b[0]).tag = "Solution"
    PROVE  Ok(SolutionTaken([lc |-> c, box |-> Popped(b)], Head(b[0])))
<1> DEFINE m == Head(b[0])
           st == [lc |-> c, box |-> Popped(b)]
           w == Msg("IncumbentValue", 0, m.val)
           d == NewInc(c, m.val)
           p == Spread(Popped(b), m)
<1>1. Typed(c, b) /\ c \in CoordSet
  BY DEF CoordOk, Typed
<1>2. m \in ToCoord
  BY <1>1, PoppedIs
<1>3. m.val \in Vals /\ (\A s \in Solvers : SilentMsg(m, s))
  <2>1. m.val \in Vals
    BY <1>2 DEF ToCoord
  <2> QED
    BY <1>2, <2>1, SilentTags
<1>4. c.inc \in Int /\ m.val \in Int
  BY <1>1, <1>3, ValsIs DEF CoordSet
<1>5. /\ ~(m.val < c.inc) => SolutionTaken(st, m) = st
      /\ m.val < c.inc => SolutionTaken(st, m) = [lc |-> Pruned(d), box |-> p]
  BY SolutionIgnoredIs, SolutionTakenIs, Zenon
<1>6. CASE ~(m.val < c.inc)
  <2>1. c.inc <= c.inc /\ c.inc <= m.val /\ \A s \in Solvers : Same(c.cur[s], c.cur[s])
    BY <1>4, <1>6 DEF Same
  <2>2. CoordOk(c, Popped(b))
    BY <1>1, <1>3, <2>1, AllPopped
  <2>3. Ok(st)
    BY <2>2, OkMade
  <2> QED
    BY <1>5, <1>6, <2>3, Zenon
<1>7. CASE m.val < c.inc
  <2>1. d \in CoordSet /\ d.inc = m.val /\ \A s \in Solvers : Same(c.cur[s], d.cur[s])
    BY <1>1, <1>3, IncChanged
  <2>2. CoordOk(d, Popped(b))
    <3> HIDE DEF d
    <3>1. d.inc <= c.inc /\ d.inc <= m.val
      BY <1>4, <1>7, <2>1
    <3> QED
      BY <1>3, <2>1, <3>1, AllPopped
  <2>3. Plain(w, d)
    BY <1>3, <1>4, <2>1, PlainIs
  <2>4. CoordOk(d, p)
    BY <2>2, <2>3, CoordMailed DEF Spread
  <2>5. Pruned(d) \in CoordSet /\ Alike(d, Pruned(d))
    BY <2>1, PrunedIs
  <2>6. CoordOk(Pruned(d), p)
    BY <2>4, <2>5, CoordAlike
  <2> HIDE DEF p, d
  <2>7. Ok([lc |-> Pruned(d), box |-> p])
    BY <2>6, OkMade
  <2> QED
    BY <1>5, <1>7, <2>7, Zenon
<1> QED
  BY <1>6, <1>7

\* To take a message and to send one commute.
LEMMA PoppedSent ==
    ASSUME NEW c, NEW b, Typed(c, b), b[0] # <<>>, NEW rs \in SUBSET Solvers, NEW m
    PROVE  Popped(SentTo(b, rs, m)) = SentTo(Popped(b), rs, m)
<1>1. DOMAIN b = 0..N /\ 0 \in 0..N /\ 0 \notin rs
  BY NAssumption DEF Typed, Solvers
<1> DEFINE x == SentTo(b, rs, m)
           y == Popped(b)
<1>2. x = [r \in 0..N |-> IF r \in rs THEN Append(b[r], m) ELSE b[r]]
  BY <1>1, Zenon DEF SentTo
<1>3. y = [r \in 0..N |-> IF r = 0 THEN Tail(b[0]) ELSE b[r]]
  BY <1>1 DEF Popped
<1> HIDE DEF x, y
<1>4. DOMAIN y = 0..N
  BY <1>3, Zenon
<1>5. SentTo(y, rs, m) = [r \in 0..N |-> IF r \in rs THEN Append(y[r], m) ELSE y[r]]
  BY <1>4, Zenon DEF SentTo
<1>6. Popped(x) = [r \in 0..N |-> IF r = 0 THEN Tail(x[0]) ELSE x[r]]
  BY <1>1, <1>2 DEF Popped
<1>7. ASSUME NEW r \in 0..N
      PROVE  (IF r = 0 THEN Tail(x[0]) ELSE x[r]) = (IF r \in rs THEN Append(y[r], m) ELSE y[r])
  <2>1. x[0] = b[0]
    BY <1>1, <1>2, Zenon
  <2>2. x[r] = (IF r \in rs THEN Append(b[r], m) ELSE b[r])
    BY <1>2, Zenon
  <2>3. y[r] = (IF r = 0 THEN Tail(b[0]) ELSE b[r])
    BY <1>3, Zenon
  <2>4. CASE r = 0
    BY <1>1, <2>1, <2>3, <2>4, Zenon
  <2>5. CASE r # 0
    BY <2>2, <2>3, <2>5, Zenon
  <2> QED
    BY <2>4, <2>5
<1>8. Popped(x) = SentTo(y, rs, m)
  BY <1>5, <1>6, <1>7, Zenon
<1> QED
  BY <1>8 DEF x, y

\* The box when the sender of a report has got the incumbent it does not know.
Informed(c, b, m) ==
    IF c.inc < m.val.best THEN SentTo(b, {m.src}, Msg("Solution", 0, c.inc)) ELSE b
Answering(c, m) == NewBound(c, m.src, Most(c.sbound[m.src], m.val.bound))

\* processTagSolverState, state by state.
LEMMA StateTakenIs ==
    ASSUME NEW c \in CoordSet, NEW b, NEW m
    PROVE  StateTaken([lc |-> c, box |-> b], m)
               = [lc |-> Answering(c, m), box |-> SentTo(Informed(c, b, m), {m.src}, Msg("NotificationId", 0, 0))]
<1> DEFINE s == m.src
           st == [lc |-> c, box |-> b]
           e == Answering(c, m)
           st1 == [lc |-> e, box |-> b]
           y == Informed(c, b, m)
           f == [st.lc EXCEPT !.sbound[s] = Most(@, m.val.bound)]
           g == [st EXCEPT !.lc = f]
<1>1. f = e
  BY DEF Answering, NewBound
<1>2. [st EXCEPT !.lc = e] = st1
  OBVIOUS
<1>3. e.inc = c.inc
  BY DEF Answering, NewBound, CoordSet
<1>4. ToSolvers(st1, {s}, "Solution", c.inc) = [lc |-> e, box |-> SentTo(b, {s}, Msg("Solution", 0, c.inc))]
  <2> HIDE DEF e
  <2> QED
    BY DEF ToSolvers
<1>5. (IF c.inc < m.val.best THEN ToSolvers(st1, {s}, "Solution", c.inc) ELSE st1) = [lc |-> e, box |-> y]
  BY <1>4 DEF Informed
<1>6. ToSolvers([lc |-> e, box |-> y], {s}, "NotificationId", 0)
          = [lc |-> e, box |-> SentTo(y, {s}, Msg("NotificationId", 0, 0))]
  <2> HIDE DEF y, e
  <2> QED
    BY DEF ToSolvers
<1> HIDE DEF y, e, st1, st
<1>7. StateTaken(st, m) = ToSolvers(IF f.inc < m.val.best THEN ToSolvers(g, {s}, "Solution", f.inc) ELSE g,
                                    {s}, "NotificationId", 0)
  BY Zenon DEF StateTaken
<1>8. g = st1
  BY <1>1, <1>2, Zenon
<1> HIDE DEF f, g
<1>9. StateTaken(st, m) = ToSolvers(IF c.inc < m.val.best THEN ToSolvers(st1, {s}, "Solution", c.inc) ELSE st1,
                                    {s}, "NotificationId", 0)
  BY <1>1, <1>3, <1>7, <1>8, Zenon
<1>10. StateTaken(st, m) = [lc |-> e, box |-> SentTo(y, {s}, Msg("NotificationId", 0, 0))]
  BY <1>5, <1>6, <1>9, Zenon
<1> QED
  BY <1>10 DEF st, e, y

\* processTagSolverState.
LEMMA StateTakenOk ==
    ASSUME NEW c, NEW b, CoordOk(c, b), SvTyped, b[0] # <<>>, Head(b[0]).tag = "SolverState"
    PROVE  Ok(StateTaken([lc |-> c, box |-> Popped(b)], Head(b[0])))
<1> DEFINE m == Head(b[0])
           s == m.src
           st == [lc |-> c, box |-> Popped(b)]
           e == NewBound(c, s, Most(c.sbound[s], m.val.bound))
           w == Msg("Solution", 0, c.inc)
           a == Msg("NotificationId", 0, 0)
           x == IF c.inc < m.val.best THEN SentTo(b, {s}, w) ELSE b
<1>1. Typed(c, b) /\ c \in CoordSet
  BY DEF CoordOk, Typed
<1>2. m \in ToCoord
  BY <1>1, PoppedIs
<1>3. s \in Solvers /\ m.val \in [bound : Nat, best : Vals] /\ m \in States(s) /\ {s} \in SUBSET Solvers
  BY <1>2, SilentTags DEF ToCoord
<1>4. Most(c.sbound[s], m.val.bound) \in Nat
  BY <1>1, <1>3, CoordFields DEF Most
<1>5. e \in CoordSet /\ Alike(c, e) /\ e.inc = c.inc
  BY <1>1, <1>4, BoundChanged
<1> HIDE DEF e, w, m
<1>6. CoordOk(e, b)
  BY <1>5, CoordAlike
<1>7. Plain(w, e)
  <2>1. c.inc \in Vals /\ c.inc \in Int
    BY <1>1, ValsIs DEF CoordSet
  <2>2. e.inc <= c.inc
    BY <1>5, <2>1
  <2> QED
    BY <2>1, <2>2, PlainIs DEF w
<1>8. CoordOk(e, x) /\ x[0] = b[0]
  <2>1. CoordOk(e, SentTo(b, {s}, w))
    BY <1>3, <1>6, <1>7, CoordMailed
  <2>2. SentTo(b, {s}, w)[0] = b[0]
    BY <1>1, <1>3, SentToIs DEF Mailed
  <2> QED
    BY <1>6, <2>1, <2>2
<1>9. Popped(x) = Informed(c, Popped(b), m)
  <2>1. Popped(SentTo(b, {s}, w)) = SentTo(Popped(b), {s}, w)
    BY <1>1, <1>3, PoppedSent
  <2> QED
    BY <2>1 DEF Informed, w
<1>10. StateTaken(st, m) = [lc |-> e, box |-> SentTo(Popped(x), {s}, a)]
  <2>1. StateTaken(st, m) = [lc |-> e, box |-> SentTo(Informed(c, Popped(b), m), {s}, a)]
    BY <1>1, StateTakenIs, Zenon DEF e, Answering
  <2> QED
    BY <1>9, <2>1, Zenon
<1> HIDE DEF x
<1>11. a \in ToSolver /\ a.tag = "NotificationId"
  BY DEF Msg, ToSolver
<1>12. /\ e \in CoordSet /\ sv[s] \in SolverSet /\ x[0] \in Seq(ToCoord) /\ x[s] \in Seq(ToSolver)
       /\ Order(e, x[0], s) /\ SolverOk(e, x[0], sv[s], x[s], s)
  BY <1>3, <1>8, CoordParts
<1>13. x[0] # <<>> /\ Head(x[0]) = m /\ m.tag = "SolverState"
  BY <1>8 DEF m
<1> HIDE DEF a
<1>14. SolverOk(e, Tail(x[0]), sv[s], Append(x[s], a), s)
  BY <1>3, <1>11, <1>12, <1>13, ReportAnswered
<1>15. Order(e, Tail(x[0]), s)
  BY <1>12, <1>13, OrderShrinks
<1>16. \A r \in Solvers \ {s} : Same(e.cur[r], e.cur[r])
  BY DEF Same
<1>17. CoordOk(e, SentTo(Popped(x), {s}, a))
  BY <1>3, <1>5, <1>8, <1>11, <1>13, <1>14, <1>15, <1>16, OneAnswered
<1> HIDE DEF st
<1>18. Ok(StateTaken(st, m))
  BY <1>10, <1>17, OkMade
<1> QED
  BY <1>18 DEF m, st

OutOf(c, s) == [c EXCEPT !.cur[s] = NoNode, !.sbound[s] = 0]

\* A solver becomes inactive.
LEMMA OutIs ==
    ASSUME NEW c \in CoordSet, NEW s \in Solvers
    PROVE  /\ OutOf(c, s) \in CoordSet /\ OutOf(c, s).inc = c.inc /\ OutOf(c, s).cur[s] = NoNode
           /\ \A r \in Solvers \ {s} : OutOf(c, s).cur[r] = c.cur[r]
           /\ OutOf(c, s).pool = c.pool
<1> DEFINE C == [c.cur EXCEPT ![s] = NoNode]
           B == [c.sbound EXCEPT ![s] = 0]
<1>1. c.cur \in [Solvers -> MaybeNode] /\ c.sbound \in [Solvers -> Nat] /\ NoNode \in MaybeNode
  BY CoordFields DEF MaybeNode
<1>2. C \in [Solvers -> MaybeNode] /\ B \in [Solvers -> Nat] /\ C[s] = NoNode
      /\ \A r \in Solvers \ {s} : C[r] = c.cur[r]
  BY <1>1
<1>3. OutOf(c, s) = [c EXCEPT !.cur = C, !.sbound = B]
  BY DEF OutOf
<1> HIDE DEF C, B
<1>4. OutOf(c, s) \in CoordSet /\ OutOf(c, s).inc = c.inc /\ OutOf(c, s).cur = C /\ OutOf(c, s).pool = c.pool
  BY <1>2, <1>3 DEF CoordSet
<1> QED
  BY <1>2, <1>4

\* What the load coordinator is after a completion, before it sends nodes.
Concluded(c, s, val) ==
    CASE val = "normal"    -> Freed(OutOf(c, s), c.cur[s])
      [] val = "another"   -> c
      [] val = "interrupt" -> NewPool(OutOf(c, s), Inserted(c.pool, c.cur[s]))

\* processTagCompletionOfCalculation, in one expression.
LEMMA CompletedIs ==
    ASSUME NEW c \in CoordSet, NEW b, NEW m
    PROVE  Completed([lc |-> c, box |-> b], m) = NodesSent([lc |-> Concluded(c, m.src, m.val), box |-> b])
<1> DEFINE s == m.src
           st == [lc |-> c, box |-> b]
           x == c.cur[s]
           out == OutOf(c, s)
           done == CASE m.val = "normal"    -> Freed(out, x)
                     [] m.val = "another"   -> c
                     [] m.val = "interrupt" -> [out EXCEPT !.pool = Inserted(@, x)]
<1>1. Completed(st, m) = NodesSent([st EXCEPT !.lc = done])
  <2>1. st.lc = c
    OBVIOUS
  <2> HIDE DEF st
  <2> QED
    BY <2>1, Zenon DEF Completed, OutOf
<1>2. [st EXCEPT !.lc = done] = [lc |-> done, box |-> b]
  <2> HIDE DEF done
  <2> QED
    OBVIOUS
<1>3. done = Concluded(c, s, m.val)
  <2>1. out.pool = c.pool
    BY DEF OutOf, CoordSet
  <2> HIDE DEF out
  <2>2. [out EXCEPT !.pool = Inserted(@, x)] = NewPool(out, Inserted(c.pool, x))
    BY <2>1 DEF NewPool
  <2> QED
    BY <2>2, Zenon DEF Concluded, out
<1> HIDE DEF done, st
<1>4. Completed(st, m) = NodesSent([lc |-> Concluded(c, s, m.val), box |-> b])
  BY <1>1, <1>2, <1>3, Zenon
<1> QED
  BY <1>4 DEF st

\* The completion is taken, before nodes are sent.
LEMMA ConcludedOk ==
    ASSUME NEW c, NEW b, CoordOk(c, b), SvTyped, b[0] # <<>>, Head(b[0]).tag = "Completion"
    PROVE  CoordOk(Concluded(c, Head(b[0]).src, Head(b[0]).val), Popped(b))
<1> DEFINE m == Head(b[0])
           s == m.src
           out == OutOf(c, s)
           x == c.cur[s]
           done == Concluded(c, m.src, m.val)
<1>1. Typed(c, b) /\ c \in CoordSet
  BY DEF CoordOk, Typed
<1>2. m \in ToCoord
  BY <1>1, PoppedIs
<1>3. s \in Solvers /\ m.val \in {"normal", "another", "interrupt"}
  BY <1>2 DEF ToCoord
<1>4. CASE m.val = "another"
  <2>1. done = c
    BY <1>4 DEF Concluded
  <2>2. CoordOk(c, Popped(b))
    BY <1>4, SilentPopped
  <2> QED
    BY <2>1, <2>2
<1>5. CASE m.val # "another"
  <2>1. m \in Ends(s) /\ m = Head(b[0]) /\ m.tag = "Completion"
    BY <1>2, <1>5, SilentTags
  <2>2. /\ sv[s] \in SolverSet /\ b[0] \in Seq(ToCoord) /\ b[s] \in Seq(ToSolver) /\ x \in MaybeNode
        /\ Order(c, b[0], s) /\ SolverOk(c, b[0], sv[s], b[s], s)
    BY <1>3, CoordParts
  <2>3. x \in NodeSet
    <3>1. x # NoNode
      BY <2>1, <2>2, OrderShrinks
    <3> QED
      BY <2>2, <3>1, NodeTypes
  <2>4. /\ out \in CoordSet /\ out.inc = c.inc /\ out.cur[s] = NoNode /\ out.pool = c.pool
        /\ \A r \in Solvers \ {s} : out.cur[r] = c.cur[r]
    BY <1>1, <1>3, OutIs
  <2>5. /\ m.val = "normal" => done = Freed(out, x)
        /\ m.val = "interrupt" => done = NewPool(out, Inserted(c.pool, x))
    BY DEF Concluded
  <2> HIDE DEF m, out, x, done
  <2>6. Order(out, Tail(b[0]), s) /\ SolverOk(out, Tail(b[0]), sv[s], b[s], s)
    BY <1>1, <2>1, <2>2, <2>4, EndTaken
  <2>7. CoordOk(out, Popped(b))
    <3>1. out.inc <= c.inc
      BY <1>1, <2>4, ValsIs DEF CoordSet
    <3>2. \A r \in Solvers \ {s} : Same(c.cur[r], out.cur[r])
      BY <2>4 DEF Same
    <3> QED
      BY <2>1, <2>4, <2>6, <3>1, <3>2, OnePopped
  <2>8. ASSUME m.val = "normal" PROVE CoordOk(done, Popped(b))
    <3>1. Freed(out, x) \in CoordSet /\ Alike(out, Freed(out, x))
      BY <2>3, <2>4, FreedIs
    <3>2. CoordOk(Freed(out, x), Popped(b))
      BY <2>7, <3>1, CoordAlike
    <3> QED
      BY <2>5, <2>8, <3>2
  <2>9. ASSUME m.val = "interrupt" PROVE CoordOk(done, Popped(b))
    <3> DEFINE d == NewPool(out, Inserted(c.pool, x))
    <3>1. d \in CoordSet /\ Alike(out, d)
      BY <1>1, <2>3, <2>4, CoordFields, InsertedIs, PoolChanged
    <3> HIDE DEF d
    <3>2. CoordOk(d, Popped(b))
      BY <2>7, <3>1, CoordAlike
    <3> QED
      BY <2>5, <2>9, <3>2 DEF d
  <2>10. CoordOk(done, Popped(b))
    BY <1>3, <1>5, <2>8, <2>9
  <2> QED
    BY <2>10 DEF done, m
<1> QED
  BY <1>4, <1>5

\* processTagCompletionOfCalculation.
LEMMA CompletedOk ==
    ASSUME NEW c, NEW b, CoordOk(c, b), SvTyped, b[0] # <<>>, Head(b[0]).tag = "Completion"
    PROVE  Ok(Completed([lc |-> c, box |-> Popped(b)], Head(b[0])))
<1>1. Typed(c, b) /\ c \in CoordSet
  BY DEF CoordOk, Typed
<1> DEFINE m == Head(b[0])
           done == Concluded(c, m.src, m.val)
<1>2. CoordOk(done, Popped(b))
  BY ConcludedOk
<1>3. Completed([lc |-> c, box |-> Popped(b)], m) = NodesSent([lc |-> done, box |-> Popped(b)])
  BY <1>1, CompletedIs, Zenon
<1> HIDE DEF m, done
<1>4. Ok([lc |-> done, box |-> Popped(b)])
  BY <1>2, OkMade
<1>5. Ok(NodesSent([lc |-> done, box |-> Popped(b)]))
  BY <1>4, NodesSentOk
<1> QED
  BY <1>3, <1>5 DEF m

\* The request of s is refused, and the load coordinator becomes d.
LEMMA Refused ==
    ASSUME NEW c, NEW b, CoordOk(c, b), SvTyped, b[0] # <<>>, NEW s, Head(b[0]) \in Requests(s),
           s \in Solvers, NEW d \in CoordSet, Alike(c, d)
    PROVE  CoordOk(d, SentTo(Popped(b), {s}, Msg("NoNodes", 0, 0)))
<1> DEFINE a == Msg("NoNodes", 0, 0)
<1>1. a \in ToSolver /\ a.tag = "NoNodes"
  BY DEF Msg, ToSolver
<1> HIDE DEF a
<1>2. /\ c \in CoordSet /\ sv[s] \in SolverSet /\ b[0] \in Seq(ToCoord) /\ b[s] \in Seq(ToSolver)
      /\ Order(c, b[0], s) /\ SolverOk(c, b[0], sv[s], b[s], s)
  BY CoordParts
<1>3. SolverOk(c, Tail(b[0]), sv[s], Append(b[s], a), s)
  BY <1>1, <1>2, RequestRefused
<1>4. Order(c, Tail(b[0]), s)
  BY <1>2, OrderShrinks
<1>5. Head(b[0]).src = s /\ Head(b[0]).tag # "Solution"
  BY DEF Requests
<1>6. \A r \in Solvers \ {s} : Same(c.cur[r], c.cur[r])
  BY DEF Same
<1>7. CoordOk(c, SentTo(Popped(b), {s}, a))
  BY <1>1, <1>2, <1>3, <1>4, <1>5, <1>6, OneAnswered
<1>8. CoordOk(d, SentTo(Popped(b), {s}, a))
  BY <1>7, CoordAlike
<1> QED
  BY <1>8 DEF a

\* The request of s is granted with node n.
LEMMA Granted ==
    ASSUME NEW c, NEW b, CoordOk(c, b), SvTyped, b[0] # <<>>, NEW s, Head(b[0]) \in Requests(s),
           s \in Solvers, NEW e \in CoordSet, e.cur = c.cur, e.inc = c.inc, NEW n \in NodeSet
    PROVE  Ok(Activated([lc |-> e, box |-> Popped(b)], s, n))
<1>1. PICK d \in CoordSet : Sends(e, Popped(b), s, n, d)
  BY ActivatedIs
<1>2. /\ Activated([lc |-> e, box |-> Popped(b)], s, n) = [lc |-> d, box |-> SentTo(Popped(b), {s}, NodeMsg(n))]
      /\ d.inc = c.inc /\ d.cur[s] = n
      /\ \A r \in Solvers \ {s} : d.cur[r] = c.cur[r]
  BY <1>1 DEF Sends
<1>3. /\ c \in CoordSet /\ sv[s] \in SolverSet /\ b[0] \in Seq(ToCoord) /\ b[s] \in Seq(ToSolver)
      /\ Order(c, b[0], s) /\ SolverOk(c, b[0], sv[s], b[s], s)
  BY CoordParts
<1>4. SolverOk(d, Tail(b[0]), sv[s], Append(b[s], NodeMsg(n)), s)
  BY <1>2, <1>3, RequestGranted
<1>5. Order(d, Tail(b[0]), s)
  <2>1. Order(c, Tail(b[0]), s)
    BY <1>3, OrderShrinks
  <2>2. d.cur[s] # NoNode
    BY <1>2, NodeTypes
  <2> QED
    BY <2>1, <2>2, Zenon DEF Order
<1>6. Head(b[0]).src = s /\ Head(b[0]).tag # "Solution"
  BY DEF Requests
<1>7. (\A r \in Solvers \ {s} : Same(c.cur[r], d.cur[r])) /\ NodeMsg(n) \in ToSolver
  BY <1>2, NodeMsgIs DEF Same
<1>8. CoordOk(d, SentTo(Popped(b), {s}, NodeMsg(n)))
  BY <1>2, <1>4, <1>5, <1>6, <1>7, OneAnswered
<1>9. Ok([lc |-> d, box |-> SentTo(Popped(b), {s}, NodeMsg(n))])
  BY <1>8, OkMade
<1> QED
  BY <1>2, <1>9, Zenon

\* A node whose bound has become b.
Bounded(n, b) == [n EXCEPT !.bound = b]
Refusal == Msg("NoNodes", 0, 0)

\* processTagAnotherNodeRequest, state by state: no exchange is possible, the
\* pool is worse than the incumbent, it is worse than the sender, or its best node
\* is exchanged for that of the sender.
LEMMA AnotherNodeRequestedIs ==
    ASSUME NEW c, NEW b, NEW m
    PROVE  LET s == m.src
               st == [lc |-> c, box |-> b]
               out == SentTo(b, {s}, Refusal)
               top == Head(c.pool)
               got == AnotherNodeRequested(st, m)
           IN /\ ~MayReplace(c, s) => got = [lc |-> c, box |-> out]
              /\ MayReplace(c, s) /\ top.bound >= c.inc => got = [lc |-> DeletedBehind(c, 0), box |-> out]
              /\ MayReplace(c, s) /\ ~(top.bound >= c.inc) /\ c.sbound[s] <= top.bound
                    => got = [lc |-> NewPool(c, Inserted(Tail(c.pool), top)), box |-> out]
              /\ MayReplace(c, s) /\ ~(top.bound >= c.inc) /\ ~(c.sbound[s] <= top.bound)
                    => got = Activated([lc |-> NewPool(c, Inserted(Tail(c.pool), Bounded(c.cur[s], m.val))), box |-> b],
                                       s, top)
<1> DEFINE s == m.src
           st == [lc |-> c, box |-> b]
           out == SentTo(b, {s}, Refusal)
           top == Head(c.pool)
           got == AnotherNodeRequested(st, m)
           none(d) == ToSolvers([st EXCEPT !.lc = d], {s}, "NoNodes", 0)
           solving == [c.cur[s] EXCEPT !.bound = m.val]
           p == Inserted(Tail(c.pool), solving)
<1>1. ASSUME NEW d PROVE none(d) = [lc |-> d, box |-> out]
  <2>1. [st EXCEPT !.lc = d] = [lc |-> d, box |-> b]
    OBVIOUS
  <2>2. ToSolvers([lc |-> d, box |-> b], {s}, "NoNodes", 0) = [lc |-> d, box |-> out]
    BY DEF ToSolvers, Refusal
  <2> QED
    BY <2>1, <2>2, Zenon
<1>2. [st EXCEPT !.lc.pool = Inserted(Tail(@), solving)] = [lc |-> NewPool(c, p), box |-> b]
  <2>1. st = [lc |-> st.lc, box |-> st.box] /\ st.lc = c /\ st.box = b
    OBVIOUS
  <2> HIDE DEF st, solving
  <2>2. Inserted(Tail(st.lc.pool), solving) = p
    BY <2>1, Zenon
  <2> HIDE DEF p
  <2>3. [st EXCEPT !.lc.pool = p] = [lc |-> NewPool(st.lc, p), box |-> st.box]
    BY <2>1, PoolSet, Zenon
  <2> QED
    BY <2>1, <2>2, <2>3, Zenon
<1>3. st.lc = c /\ [c EXCEPT !.pool = Inserted(Tail(@), Head(@))] = NewPool(c, Inserted(Tail(c.pool), top))
  BY DEF NewPool
<1>4. got = IF ~MayReplace(c, s) THEN none(c)
            ELSE IF top.bound >= c.inc THEN none(DeletedBehind(c, 0))
            ELSE IF c.sbound[s] <= top.bound
            THEN none([c EXCEPT !.pool = Inserted(Tail(@), Head(@))])
            ELSE Activated([st EXCEPT !.lc.pool = Inserted(Tail(@), solving)], s, top)
  <2> HIDE DEF st
  <2> QED
    BY <1>3, Zenon DEF AnotherNodeRequested, st
<1>5. solving = Bounded(c.cur[s], m.val)
  BY DEF Bounded
<1> HIDE DEF st, out, top, got, none, solving
<1>6. got = IF ~MayReplace(c, s) THEN [lc |-> c, box |-> out]
            ELSE IF top.bound >= c.inc THEN [lc |-> DeletedBehind(c, 0), box |-> out]
            ELSE IF c.sbound[s] <= top.bound
            THEN [lc |-> NewPool(c, Inserted(Tail(c.pool), top)), box |-> out]
            ELSE Activated([lc |-> NewPool(c, p), box |-> b], s, top)
  BY <1>1, <1>2, <1>3, <1>4, Zenon
<1>7. /\ ~MayReplace(c, s) => got = [lc |-> c, box |-> out]
      /\ MayReplace(c, s) /\ top.bound >= c.inc => got = [lc |-> DeletedBehind(c, 0), box |-> out]
      /\ MayReplace(c, s) /\ ~(top.bound >= c.inc) /\ c.sbound[s] <= top.bound
            => got = [lc |-> NewPool(c, Inserted(Tail(c.pool), top)), box |-> out]
      /\ MayReplace(c, s) /\ ~(top.bound >= c.inc) /\ ~(c.sbound[s] <= top.bound)
            => got = Activated([lc |-> NewPool(c, p), box |-> b], s, top)
  BY <1>6, Zenon
<1> QED
  BY <1>5, <1>7, Zenon DEF p, got, st, out, top

\* processTagAnotherNodeRequest.
LEMMA AnotherNodeRequestedOk ==
    ASSUME NEW c, NEW b, CoordOk(c, b), SvTyped, b[0] # <<>>, Head(b[0]).tag = "AnotherNodeRequest"
    PROVE  Ok(AnotherNodeRequested([lc |-> c, box |-> Popped(b)], Head(b[0])))
<1> DEFINE m == Head(b[0])
           s == m.src
           got == AnotherNodeRequested([lc |-> c, box |-> Popped(b)], m)
           out == SentTo(Popped(b), {s}, Refusal)
           top == Head(c.pool)
           solving == Bounded(c.cur[s], m.val)
           p == Inserted(Tail(c.pool), top)
           z == Inserted(Tail(c.pool), solving)
<1>1. Typed(c, b) /\ c \in CoordSet
  BY DEF CoordOk, Typed
<1>2. m \in ToCoord
  BY <1>1, PoppedIs
<1>3. s \in Solvers /\ m \in Requests(s) /\ m.val \in Nat
  BY <1>2, SilentTags DEF ToCoord
<1>4. ASSUME NEW d \in CoordSet, Alike(c, d) PROVE Ok([lc |-> d, box |-> out])
  <2>1. CoordOk(d, out)
    BY <1>3, <1>4, Refused DEF Refusal
  <2> QED
    BY <2>1, OkMade
<1>5. c.pool \in Seq(NodeSet)
  BY <1>1, CoordFields
<1>6. /\ ~MayReplace(c, s) => got = [lc |-> c, box |-> out]
      /\ MayReplace(c, s) /\ top.bound >= c.inc => got = [lc |-> DeletedBehind(c, 0), box |-> out]
      /\ MayReplace(c, s) /\ ~(top.bound >= c.inc) /\ c.sbound[s] <= top.bound
            => got = [lc |-> NewPool(c, p), box |-> out]
      /\ MayReplace(c, s) /\ ~(top.bound >= c.inc) /\ ~(c.sbound[s] <= top.bound)
            => got = Activated([lc |-> NewPool(c, z), box |-> Popped(b)], s, top)
  BY AnotherNodeRequestedIs, Zenon
<1>7. Ok([lc |-> c, box |-> out])
  BY <1>1, <1>4 DEF Alike, Same
<1>8. ASSUME MayReplace(c, s)
      PROVE  /\ top \in NodeSet /\ Tail(c.pool) \in Seq(NodeSet)
             /\ Ok([lc |-> DeletedBehind(c, 0), box |-> out]) /\ Ok([lc |-> NewPool(c, p), box |-> out])
  <2>1. c.pool # <<>> /\ top \in NodeSet /\ Tail(c.pool) \in Seq(NodeSet)
    BY <1>5, <1>8, HeadAndTail DEF MayReplace
  <2>2. DeletedBehind(c, 0) \in CoordSet /\ Alike(c, DeletedBehind(c, 0))
    <3>1. 0 \in 0..Len(c.pool)
      BY <1>5
    <3> QED
      BY <1>1, <3>1, BehindIs
  <2>3. NewPool(c, p) \in CoordSet /\ Alike(c, NewPool(c, p))
    BY <1>1, <2>1, InsertedIs, PoolChanged
  <2> QED
    BY <1>4, <2>1, <2>2, <2>3
<1>9. MayReplace(c, s) => Ok(Activated([lc |-> NewPool(c, z), box |-> Popped(b)], s, top))
  <2>1. Order(c, b[0], s) /\ b[0] \in Seq(ToCoord) /\ c.cur[s] \in MaybeNode
    BY <1>3, CoordParts
  <2>2. c.cur[s] # NoNode
    BY <1>3, <2>1, OrderShrinks
  <2>3. c.cur[s] \in NodeSet
    BY <2>1, <2>2, NodeTypes
  <2> HIDE DEF m
  <2>4. solving \in NodeSet
    BY <1>3, <2>3 DEF Bounded, NodeSet
  <2> HIDE DEF solving
  <2>5. MayReplace(c, s) => z \in Seq(NodeSet)
    BY <1>8, <2>4, InsertedIs
  <2>6. MayReplace(c, s) => NewPool(c, z) \in CoordSet /\ NewPool(c, z).cur = c.cur /\ NewPool(c, z).inc = c.inc
    BY <1>1, <2>5, PoolChanged
  <2> HIDE DEF z
  <2> QED
    BY <1>3, <1>8, <2>6, Granted DEF m
<1> HIDE DEF got, m, out, top, p, z
<1>10. Ok(got)
  BY <1>6, <1>7, <1>8, <1>9, Zenon
<1> QED
  BY <1>10 DEF got, m

\* The count of the terminated solvers.
Counted(c, m) == [c EXCEPT !.nterm = @ + 1, !.cmp = @ \/ m.val = 1]

\* processTagTerminated, in one expression.
LEMMA SolverTerminatedIs ==
    ASSUME NEW c \in CoordSet, NEW b, NEW m
    PROVE  /\ SolverTerminated([lc |-> c, box |-> b], m) = [lc |-> Counted(c, m), box |-> b]
           /\ Counted(c, m) \in CoordSet /\ Counted(c, m).pool = c.pool /\ Counted(c, m).cur = c.cur
           /\ Counted(c, m).inc = c.inc /\ Counted(c, m).hard = c.hard /\ Counted(c, m).pc = c.pc
<1> DEFINE st == [lc |-> c, box |-> b]
           k == c.nterm + 1
           x == c.cmp \/ m.val = 1
           e == [c EXCEPT !.nterm = k]
           d == Counted(c, m)
<1>1. k \in Nat /\ x \in BOOLEAN
  BY CoordFields
<1>2. /\ d \in CoordSet /\ d.pool = c.pool /\ d.cur = c.cur /\ d.inc = c.inc /\ d.hard = c.hard /\ d.pc = c.pc
      /\ e.cmp = c.cmp /\ [e EXCEPT !.cmp = x] = d
  <2>1. d = [c EXCEPT !.nterm = k, !.cmp = x]
    BY DEF Counted
  <2> HIDE DEF k, x, d
  <2> QED
    BY <1>1, <2>1 DEF CoordSet
<1>3. \A u : [st EXCEPT !.lc.nterm = @ + 1, !.lc.cmp = @ \/ u]
                 = [[st EXCEPT !.lc.nterm = @ + 1] EXCEPT !.lc.cmp = @ \/ u]
  OBVIOUS
<1>4. [st EXCEPT !.lc.nterm = @ + 1] = [lc |-> e, box |-> b]
  OBVIOUS
<1> HIDE DEF k, x, e, d
<1>5. \A u : [[lc |-> e, box |-> b] EXCEPT !.lc.cmp = u] = [lc |-> [e EXCEPT !.cmp = u], box |-> b]
  OBVIOUS
<1>6. [[lc |-> e, box |-> b] EXCEPT !.lc.cmp = @ \/ m.val = 1] = [lc |-> d, box |-> b]
  <2>1. (e.cmp \/ m.val = 1) = x
    BY <1>2 DEF x
  <2>2. [[lc |-> e, box |-> b] EXCEPT !.lc.cmp = @ \/ m.val = 1]
            = [[lc |-> e, box |-> b] EXCEPT !.lc.cmp = (e.cmp \/ m.val = 1)]
    OBVIOUS
  <2>3. [[lc |-> e, box |-> b] EXCEPT !.lc.cmp = x] = [lc |-> [e EXCEPT !.cmp = x], box |-> b]
    BY <1>5, Zenon
  <2> QED
    BY <1>2, <2>1, <2>2, <2>3, Zenon
<1> HIDE DEF st
<1>7. SolverTerminated(st, m) = [lc |-> d, box |-> b]
  BY <1>3, <1>4, <1>6, Zenon DEF SolverTerminated
<1> QED
  BY <1>2, <1>7 DEF d, st

\* processTagTerminated.
LEMMA SolverTerminatedOk ==
    ASSUME NEW c, NEW b, CoordOk(c, b), SvTyped, b[0] # <<>>, Head(b[0]).tag = "Terminated"
    PROVE  Ok(SolverTerminated([lc |-> c, box |-> Popped(b)], Head(b[0])))
<1> DEFINE d == Counted(c, Head(b[0]))
<1>1. c \in CoordSet
  BY DEF CoordOk, Typed
<1>2. CoordOk(c, Popped(b))
  BY SilentPopped
<1>3. /\ SolverTerminated([lc |-> c, box |-> Popped(b)], Head(b[0])) = [lc |-> d, box |-> Popped(b)]
      /\ d \in CoordSet /\ d.inc = c.inc /\ d.cur = c.cur
  BY <1>1, SolverTerminatedIs, Zenon
<1> HIDE DEF d
<1>4. Alike(c, d)
  BY <1>3 DEF Alike, Same
<1>5. CoordOk(d, Popped(b))
  BY <1>2, <1>3, <1>4, CoordAlike
<1>6. Ok([lc |-> d, box |-> Popped(b)])
  BY <1>5, OkMade
<1> QED
  BY <1>3, <1>6, Zenon

\* Every handler of the load coordinator.
LEMMA HandledOk ==
    ASSUME NEW c, NEW b, CoordOk(c, b), SvTyped, b[0] # <<>>
    PROVE  Ok(Handled([lc |-> c, box |-> Popped(b)], Head(b[0])))
<1> DEFINE st == [lc |-> c, box |-> Popped(b)]
           m == Head(b[0])
<1>1. m.tag \in {"Node", "Solution", "SolverState", "Completion", "AnotherNodeRequest", "Terminated"}
  <2>1. m \in ToCoord
    BY PoppedIs DEF CoordOk
  <2> QED
    BY <2>1 DEF ToCoord
<1>2. /\ m.tag = "Node" => Handled(st, m) = NodeTaken(st, m)
      /\ m.tag = "Solution" => Handled(st, m) = SolutionTaken(st, m)
      /\ m.tag = "SolverState" => Handled(st, m) = StateTaken(st, m)
      /\ m.tag = "Completion" => Handled(st, m) = Completed(st, m)
      /\ m.tag = "AnotherNodeRequest" => Handled(st, m) = AnotherNodeRequested(st, m)
      /\ m.tag = "Terminated" => Handled(st, m) = SolverTerminated(st, m)
  <2> HIDE DEF st, m
  <2> QED
    BY DEF Handled
<1>3. /\ m.tag = "Node" => Ok(NodeTaken(st, m))
      /\ m.tag = "Solution" => Ok(SolutionTaken(st, m))
      /\ m.tag = "SolverState" => Ok(StateTaken(st, m))
      /\ m.tag = "Completion" => Ok(Completed(st, m))
      /\ m.tag = "AnotherNodeRequest" => Ok(AnotherNodeRequested(st, m))
      /\ m.tag = "Terminated" => Ok(SolverTerminated(st, m))
  BY NodeTakenOk, SolutionTakenOk, StateTakenOk, CompletedOk, AnotherNodeRequestedOk, SolverTerminatedOk, Zenon
<1> HIDE DEF st, m
<1>4. Ok(Handled(st, m))
  BY <1>1, <1>2, <1>3
<1> QED
  BY <1>4 DEF st, m

\* What the load coordinator does next is nothing a solver knows of.
LEMMA PcSet ==
    ASSUME SvTyped, NEW st, Ok(st), NEW x \in {"run", "check", "closing", "done"}
    PROVE  Ok([st EXCEPT !.lc.pc = x])
<1>1. st = [lc |-> st.lc, box |-> st.box] /\ CoordOk(st.lc, st.box) /\ st.lc \in CoordSet
  BY OkIs
<1>2. \A c, b : [[lc |-> c, box |-> b] EXCEPT !.lc.pc = x] = [lc |-> [c EXCEPT !.pc = x], box |-> b]
  OBVIOUS
<1> DEFINE d == [st.lc EXCEPT !.pc = x]
<1>3. [st EXCEPT !.lc.pc = x] = [lc |-> d, box |-> st.box]
  BY <1>1, <1>2, Zenon
<1>4. d \in CoordSet /\ d.inc = st.lc.inc /\ d.cur = st.lc.cur
  BY <1>1 DEF CoordSet
<1> HIDE DEF d
<1>5. Alike(st.lc, d)
  BY <1>4 DEF Alike, Same
<1>6. CoordOk(d, st.box)
  BY <1>1, <1>4, <1>5, CoordAlike
<1> QED
  BY <1>3, <1>6, OkMade

\* Nor its phase.
LEMMA PhaseSet ==
    ASSUME SvTyped, NEW st, Ok(st), NEW x \in {"rampUp", "normal", "termination"}
    PROVE  Ok([st EXCEPT !.lc.phase = x])
<1>1. st = [lc |-> st.lc, box |-> st.box] /\ CoordOk(st.lc, st.box) /\ st.lc \in CoordSet
  BY OkIs
<1>2. \A c, b : [[lc |-> c, box |-> b] EXCEPT !.lc.phase = x] = [lc |-> [c EXCEPT !.phase = x], box |-> b]
  OBVIOUS
<1> DEFINE d == [st.lc EXCEPT !.phase = x]
<1>3. [st EXCEPT !.lc.phase = x] = [lc |-> d, box |-> st.box]
  BY <1>1, <1>2, Zenon
<1>4. d \in CoordSet /\ d.inc = st.lc.inc /\ d.cur = st.lc.cur
  BY <1>1 DEF CoordSet
<1> HIDE DEF d
<1>5. Alike(st.lc, d)
  BY <1>4 DEF Alike, Same
<1>6. CoordOk(d, st.box)
  BY <1>1, <1>4, <1>5, CoordAlike
<1> QED
  BY <1>3, <1>6, OkMade

\* Nor whether it has interrupted the solvers.
LEMMA IntrSet ==
    ASSUME SvTyped, NEW st, Ok(st), NEW x \in BOOLEAN
    PROVE  Ok([st EXCEPT !.lc.intr = x])
<1>1. st = [lc |-> st.lc, box |-> st.box] /\ CoordOk(st.lc, st.box) /\ st.lc \in CoordSet
  BY OkIs
<1>2. \A c, b : [[lc |-> c, box |-> b] EXCEPT !.lc.intr = x] = [lc |-> [c EXCEPT !.intr = x], box |-> b]
  OBVIOUS
<1> DEFINE d == [st.lc EXCEPT !.intr = x]
<1>3. [st EXCEPT !.lc.intr = x] = [lc |-> d, box |-> st.box]
  BY <1>1, <1>2, Zenon
<1>4. d \in CoordSet /\ d.inc = st.lc.inc /\ d.cur = st.lc.cur
  BY <1>1 DEF CoordSet
<1> HIDE DEF d
<1>5. Alike(st.lc, d)
  BY <1>4 DEF Alike, Same
<1>6. CoordOk(d, st.box)
  BY <1>1, <1>4, <1>5, CoordAlike
<1> QED
  BY <1>3, <1>6, OkMade

\* Nor whether the time limit has stopped it.
LEMMA HardSet ==
    ASSUME SvTyped, NEW st, Ok(st), NEW x \in BOOLEAN
    PROVE  Ok([st EXCEPT !.lc.hard = x])
<1>1. st = [lc |-> st.lc, box |-> st.box] /\ CoordOk(st.lc, st.box) /\ st.lc \in CoordSet
  BY OkIs
<1>2. \A c, b : [[lc |-> c, box |-> b] EXCEPT !.lc.hard = x] = [lc |-> [c EXCEPT !.hard = x], box |-> b]
  OBVIOUS
<1> DEFINE d == [st.lc EXCEPT !.hard = x]
<1>3. [st EXCEPT !.lc.hard = x] = [lc |-> d, box |-> st.box]
  BY <1>1, <1>2, Zenon
<1>4. d \in CoordSet /\ d.inc = st.lc.inc /\ d.cur = st.lc.cur
  BY <1>1 DEF CoordSet
<1> HIDE DEF d
<1>5. Alike(st.lc, d)
  BY <1>4 DEF Alike, Same
<1>6. CoordOk(d, st.box)
  BY <1>1, <1>4, <1>5, CoordAlike
<1> QED
  BY <1>3, <1>6, OkMade

\* The end of the loop of run.
LEMMA PhaseCheckedOk ==
    ASSUME SvTyped, NEW st, Ok(st), NEW past \in BOOLEAN, NEW ramp \in BOOLEAN
    PROVE  Ok(PhaseChecked(st, past, ramp))
<1>1. CASE st.lc.phase = "termination"
  BY <1>1 DEF PhaseChecked
<1>2. CASE st.lc.phase # "termination" /\ past
  <2> DEFINE x == [st EXCEPT !.lc.phase = "termination", !.lc.intr = TRUE]
             rs == IF st.lc.intr THEN {} ELSE Solvers
  <2>1. x = [[st EXCEPT !.lc.phase = "termination"] EXCEPT !.lc.intr = TRUE]
    OBVIOUS
  <2>2. Ok(x)
    <3> DEFINE y == [st EXCEPT !.lc.phase = "termination"]
    <3>1. Ok(y)
      BY PhaseSet
    <3> HIDE DEF y
    <3>2. Ok([y EXCEPT !.lc.intr = TRUE])
      BY <3>1, IntrSet
    <3> QED
      BY <2>1, <3>2, Zenon DEF y
  <2> HIDE DEF x
  <2>3. Ok(ToSolvers(x, rs, "InterruptRequest", 0))
    BY <2>2, PlainIs, MailedOk
  <2>4. PhaseChecked(st, past, ramp) = ToSolvers(x, rs, "InterruptRequest", 0)
    BY <1>2, Zenon DEF PhaseChecked, x
  <2> QED
    BY <2>3, <2>4, Zenon
<1>3. CASE st.lc.phase # "termination" /\ ~past
  <2> DEFINE x == [st EXCEPT !.lc.phase = "normal"]
             y == ToSolvers(x, Solvers, "RampUp", 0)
  <2>1. Ok(x)
    BY PhaseSet
  <2> HIDE DEF x
  <2>2. Ok(y)
    BY <2>1, PlainIs, MailedOk
  <2> HIDE DEF y
  <2>3. PhaseChecked(st, past, ramp) = NodesSent(IF ramp THEN y ELSE st)
    BY <1>3, Zenon DEF PhaseChecked, x, y
  <2>4. Ok(NodesSent(y)) /\ Ok(NodesSent(st))
    BY <2>2, NodesSentOk
  <2> QED
    BY <2>3, <2>4
<1> QED
  BY <1>1, <1>2, <1>3

\* The exit from the loop of run.
LEMMA LeftOk ==
    ASSUME SvTyped, NEW st, Ok(st)
    PROVE  Ok(Left(st))
<1> DEFINE x == [st EXCEPT !.lc.pc = "closing"]
           y == [x EXCEPT !.lc.phase = "termination"]
           z == [st EXCEPT !.lc.pc = "done"]
           u == [st EXCEPT !.lc.pc = "closing", !.lc.phase = "termination"]
<1>1. y = u
  OBVIOUS
<1>6. Left(st) = IF st.lc.nterm = 0 /\ (Active(st.lc) # {} \/ st.lc.intr)
                 THEN ToSolvers(u, Solvers, "TerminateRequest", 0) ELSE z
  BY Zenon DEF Left
<1> HIDE DEF u
<1>2. Ok(x) /\ Ok(z)
  BY PcSet
<1> HIDE DEF x, z
<1>3. Ok(y)
  BY <1>2, PhaseSet
<1> HIDE DEF y
<1>4. Ok(ToSolvers(y, Solvers, "TerminateRequest", 0))
  BY <1>3, PlainIs, MailedOk
<1>5. Left(st) = IF st.lc.nterm = 0 /\ (Active(st.lc) # {} \/ st.lc.intr)
                 THEN ToSolvers(y, Solvers, "TerminateRequest", 0) ELSE z
  BY <1>1, <1>6, Zenon
<1> QED
  BY <1>2, <1>4, <1>5

\* The begin of the loop of run.
LEMMA LoopHeadOk ==
    ASSUME SvTyped, NEW st, Ok(st), NEW past
    PROVE  Ok(LoopHead(st, past))
<1> DEFINE x == [st EXCEPT !.lc.phase = "termination"]
           y == ToSolvers(x, Solvers, "TerminateRequest", 0)
           s == IF Active(st.lc) = {} /\ st.lc.pool = <<>> /\ st.lc.phase # "termination" THEN y ELSE st
           h == [s EXCEPT !.lc.hard = TRUE]
<1>1. Ok(x)
  BY PhaseSet
<1> HIDE DEF x
<1>2. Ok(y)
  BY <1>1, PlainIs, MailedOk
<1> HIDE DEF y
<1>3. Ok(s)
  BY <1>2
<1>4. LoopHead(st, past)
          = IF Active(st.lc) # {} THEN st
            ELSE IF st.lc.pool = <<>> /\ st.lc.phase = "termination" /\ st.lc.nterm = N THEN Left(st)
            ELSE IF past THEN Left(h) ELSE s
  BY Zenon DEF LoopHead, y, x
<1> HIDE DEF s
<1>5. Ok(h)
  BY <1>3, HardSet
<1> HIDE DEF h
<1>6. Ok(Left(st)) /\ Ok(Left(h))
  BY <1>5, LeftOk
<1> QED
  BY <1>3, <1>4, <1>6

\* A step of the load coordinator leaves the solvers as they are.
LEMMA CoordStep ==
    ASSUME IInv, UNCHANGED <<sv, sync>>, CoordOk(lc', box')
    PROVE  IInv'
BY DEF IInv, SvTyped, CoordOk, SolverOk

\* A message handled in run.
LEMMA HandleKeeps ==
    ASSUME IInv, Handle
    PROVE  IInv'
<1> DEFINE st == Handled([lc |-> lc, box |-> [box EXCEPT ![0] = Tail(@)]], Head(box[0]))
<1>1. SvTyped /\ CoordOk(lc, box) /\ box[0] # <<>>
  BY DEF IInv, Handle
<1>2. Ok(st)
  BY <1>1, HandledOk DEF Popped
<1>3. UNCHANGED <<sv, sync>> /\ lc' = [st.lc EXCEPT !.pc = "check"] /\ box' = st.box
  BY DEF Handle
<1> HIDE DEF st
<1>4. Ok([st EXCEPT !.lc.pc = "check"])
  BY <1>1, <1>2, PcSet
<1>5. [st EXCEPT !.lc.pc = "check"].lc = [st.lc EXCEPT !.pc = "check"] /\ [st EXCEPT !.lc.pc = "check"].box = st.box
  BY <1>2 DEF Ok
<1>6. CoordOk(lc', box')
  BY <1>3, <1>4, <1>5 DEF Ok
<1> QED
  BY <1>3, <1>6, CoordStep

\* One handled in the destructor.
LEMMA CloseKeeps ==
    ASSUME IInv, Close
    PROVE  IInv'
<1> DEFINE st == Handled([lc |-> lc, box |-> [box EXCEPT ![0] = Tail(@)]], Head(box[0]))
           p == IF st.lc.nterm = N THEN "done" ELSE st.lc.pc
<1>1. SvTyped /\ CoordOk(lc, box) /\ box[0] # <<>>
  BY DEF IInv, Close
<1>2. Ok(st)
  BY <1>1, HandledOk DEF Popped
<1>3. UNCHANGED <<sv, sync>> /\ lc' = [st.lc EXCEPT !.pc = p] /\ box' = st.box
  BY DEF Close
<1>4. p \in {"run", "check", "closing", "done"}
  <2>1. st.lc \in CoordSet
    BY <1>2, OkIs
  <2> HIDE DEF st
  <2> QED
    BY <2>1, CoordFields
<1> HIDE DEF st, p
<1>5. Ok([st EXCEPT !.lc.pc = p])
  BY <1>1, <1>2, <1>4, PcSet
<1>6. [st EXCEPT !.lc.pc = p].lc = [st.lc EXCEPT !.pc = p] /\ [st EXCEPT !.lc.pc = p].box = st.box
  BY <1>2 DEF Ok
<1>7. CoordOk(lc', box')
  BY <1>3, <1>5, <1>6 DEF Ok
<1> QED
  BY <1>3, <1>7, CoordStep

\* The loop of run from one message to the next.
LEMMA CheckKeeps ==
    ASSUME IInv, NEW past \in BOOLEAN, NEW past2 \in BOOLEAN, NEW ramp \in BOOLEAN, Check(past, past2, ramp)
    PROVE  IInv'
<1> DEFINE x == [lc |-> [lc EXCEPT !.pc = "run"], box |-> box]
           st == PhaseChecked(x, past, ramp)
           t == LoopHead(st, past2)
<1>1. SvTyped /\ CoordOk(lc, box)
  BY DEF IInv
<1>2. UNCHANGED <<sv, sync>> /\ lc' = t.lc /\ box' = t.box
  BY DEF Check
<1>3. Ok(x)
  <2>1. x = [[lc |-> lc, box |-> box] EXCEPT !.lc.pc = "run"]
    OBVIOUS
  <2>2. Ok([lc |-> lc, box |-> box])
    BY <1>1, OkMade
  <2> DEFINE y == [lc |-> lc, box |-> box]
  <2> HIDE DEF x, y
  <2>3. Ok([y EXCEPT !.lc.pc = "run"])
    BY <1>1, <2>2, PcSet DEF y
  <2> QED
    BY <2>1, <2>3, Zenon DEF y
<1> HIDE DEF x
<1>4. Ok(st)
  BY <1>1, <1>3, PhaseCheckedOk
<1> HIDE DEF st
<1>5. Ok(t)
  BY <1>1, <1>4, LoopHeadOk
<1> HIDE DEF t
<1>6. CoordOk(lc', box')
  BY <1>2, <1>5 DEF Ok
<1> QED
  BY <1>2, <1>6, CoordStep

-----------------------------------------------------------------------------
(* The steps of the solvers.                                               *)

\* What holds of a solver while it handles messages.
Midway(c, q, v, r, s) ==
    /\ v \in SolverSet /\ r \in Seq(ToSolver)
    /\ Told(c, r) /\ Talks(c.cur[s], q, v, r, s) /\ Knows(c, v)

\* What the handlers of messages leave alone.
Passive(v, w) ==
    /\ w.pc = v.pc /\ w.open = v.open /\ w.own = v.own /\ w.loc = v.loc /\ w.best = v.best
    /\ v.cur # NoNode => w.cur = v.cur
    /\ ~v.noticed => ~w.noticed

\* The fields of a solver.
LEMMA SolverFields ==
    ASSUME NEW v \in SolverSet
    PROVE  /\ v = [pc |-> v.pc, cur |-> v.cur, new |-> v.new, open |-> v.open, own |-> v.own, inc |-> v.inc,
                   best |-> v.best, loc |-> v.loc, pend |-> v.pend, asked |-> v.asked, noticed |-> v.noticed,
                   term |-> v.term, rampUp |-> v.rampUp]
           /\ v.pc \in {"idle", "solve", "report", "ask", "waitid", "waitack", "finish",
                        "complete", "await", "exit", "gone"}
           /\ v.cur \in MaybeNode /\ v.new \in MaybeNode /\ v.open \in SUBSET Leaves
           /\ v.own \in Vals /\ v.inc \in Vals /\ v.best \in Vals /\ v.loc \in Vals /\ v.pend \in Vals
           /\ v.asked \in BOOLEAN /\ v.noticed \in BOOLEAN
           /\ v.term \in {"no", "normal", "interrupted"} /\ v.rampUp \in BOOLEAN
BY DEF SolverSet

\* The lower of two values.
LEMMA LowerIs ==
    ASSUME NEW a \in Vals, NEW b \in Vals
    PROVE  Lower(a, b) \in Vals /\ Lower(a, b) <= a /\ Lower(a, b) <= b /\ (Lower(a, b) = a \/ Lower(a, b) = b)
BY ValsIs DEF Lower

\* What a message of each kind does.
LEMMA ReceivedIs ==
    ASSUME NEW v \in SolverSet, NEW m \in ToSolver
    PROVE  LET w == Received(v, m) IN
           /\ w \in SolverSet
           /\ w.pc = v.pc /\ w.open = v.open /\ w.own = v.own /\ w.loc = v.loc /\ w.best = v.best
           /\ m.tag = "Node" /\ v.cur = NoNode =>
                 w.cur = m.val /\ w.new = v.new /\ w.asked = FALSE /\ w.noticed = v.noticed
                 /\ w.inc = v.inc /\ w.pend = v.pend
           /\ m.tag = "Node" /\ v.cur # NoNode =>
                 w.cur = v.cur /\ w.new = m.val /\ w.asked = FALSE /\ w.noticed = v.noticed
                 /\ w.inc = v.inc /\ w.pend = v.pend
           /\ m.tag = "NoNodes" =>
                 w.cur = v.cur /\ w.new = v.new /\ w.asked = FALSE /\ w.noticed = v.noticed
                 /\ w.inc = v.inc /\ w.pend = v.pend
           /\ m.tag = "NotificationId" =>
                 w.cur = v.cur /\ w.new = v.new /\ w.asked = v.asked /\ w.noticed = FALSE
                 /\ w.inc = v.inc /\ w.pend = v.pend
           /\ m.tag \notin {"Node", "NoNodes", "NotificationId"} =>
                 w.cur = v.cur /\ w.new = v.new /\ w.asked = v.asked /\ w.noticed = v.noticed
           /\ m.tag = "Solution" => w.inc = v.inc /\ (w.pend = v.pend \/ w.pend = m.val)
           /\ m.tag = "IncumbentValue" => (w.inc = v.inc \/ w.inc = m.val) /\ w.pend = v.pend
           /\ m.tag \notin {"Solution", "IncumbentValue"} => w.inc = v.inc /\ w.pend = v.pend
<1> DEFINE w == Received(v, m)
<1>0. m.tag \in {"Node", "Solution", "IncumbentValue", "NodeReceived", "RampUp", "NoNodes",
                 "NotificationId", "TerminateRequest", "InterruptRequest"}
  BY DEF ToSolver
<1>1. CASE m.tag = "Node" /\ v.cur = NoNode
  <2>1. m.val \in MaybeNode
    BY <1>1 DEF ToSolver, MaybeNode
  <2>2. w = [v EXCEPT !.cur = m.val, !.asked = FALSE]
    BY <1>1 DEF Received
  <2> HIDE DEF w
  <2> QED
    BY <1>1, <2>1, <2>2 DEF SolverSet, w
<1>2. CASE m.tag = "Node" /\ v.cur # NoNode
  <2>1. m.val \in MaybeNode
    BY <1>2 DEF ToSolver, MaybeNode
  <2>2. w = [v EXCEPT !.new = m.val, !.asked = FALSE]
    BY <1>2 DEF Received
  <2> HIDE DEF w
  <2> QED
    BY <1>2, <2>1, <2>2 DEF SolverSet, w
<1>3. CASE m.tag = "NodeReceived"
  <2>1. w = v
    BY <1>3 DEF Received
  <2> QED
    BY <1>3, <2>1
<1>4. CASE m.tag = "RampUp"
  <2>1. w = [v EXCEPT !.rampUp = TRUE]
    BY <1>4 DEF Received
  <2> HIDE DEF w
  <2> QED
    BY <1>4, <2>1 DEF SolverSet, w
<1>5. CASE m.tag = "Solution"
  <2>1. m.val \in Vals
    BY <1>5 DEF ToSolver
  <2>2. w = v \/ w = [v EXCEPT !.pend = m.val]
    BY <1>5 DEF Received
  <2> HIDE DEF w
  <2> QED
    BY <1>5, <2>1, <2>2 DEF SolverSet, w
<1>6. CASE m.tag = "IncumbentValue"
  <2>1. m.val \in Vals /\ v.inc \in Vals
    BY <1>6 DEF ToSolver, SolverSet
  <2>2. w = [v EXCEPT !.inc = Lower(v.inc, m.val)]
    BY <1>6 DEF Received
  <2>3. Lower(v.inc, m.val) \in Vals /\ (Lower(v.inc, m.val) = v.inc \/ Lower(v.inc, m.val) = m.val)
    BY <2>1, LowerIs
  <2> HIDE DEF w
  <2> QED
    BY <1>6, <2>1, <2>2, <2>3 DEF SolverSet, w
<1>7. CASE m.tag = "NoNodes"
  <2>1. w = [v EXCEPT !.asked = FALSE]
    BY <1>7 DEF Received
  <2> HIDE DEF w
  <2> QED
    BY <1>7, <2>1 DEF SolverSet, w
<1>8. CASE m.tag = "NotificationId"
  <2>1. w = [v EXCEPT !.noticed = FALSE]
    BY <1>8 DEF Received
  <2> HIDE DEF w
  <2> QED
    BY <1>8, <2>1 DEF SolverSet, w
<1>9. CASE m.tag \in {"TerminateRequest", "InterruptRequest"}
  <2>1. w = [v EXCEPT !.term = "normal"] \/ w = [v EXCEPT !.term = "interrupted"]
    BY <1>9 DEF Received
  <2> HIDE DEF w
  <2> QED
    BY <1>9, <2>1 DEF SolverSet, w
<1> QED
  BY <1>0, <1>1, <1>2, <1>3, <1>4, <1>5, <1>6, <1>7, <1>8, <1>9

\* The first message of a solver is handled: both sides still agree.
LEMMA TalksReceived ==
    ASSUME NEW n, NEW q, NEW v \in SolverSet, NEW r \in Seq(ToSolver), r # <<>>, NEW s,
           Talks(n, q, v, r, s)
    PROVE  Talks(n, q, Received(v, Head(r)), Tail(r), s)
<1> DEFINE m == Head(r)
           t == Tail(r)
           w == Received(v, m)
<1>1. m \in ToSolver /\ t \in Seq(ToSolver) /\ Len(r) \in Nat \ {0} /\ m = r[1]
      /\ Len(t) = Len(r) - 1 /\ \A k \in 1..(Len(r) - 1) : t[k] = r[k + 1]
  BY HeadAndTail
<1>2. /\ None(r, Answers) <=> m \notin Answers /\ None(t, Answers)
      /\ Single(r, Answers) <=> (m \in Answers /\ None(t, Answers)) \/ (m \notin Answers /\ Single(t, Answers))
      /\ None(r, Refusals) <=> m \notin Refusals /\ None(t, Refusals)
      /\ None(r, NewNodes) <=> m \notin NewNodes /\ None(t, NewNodes)
      /\ Single(r, NewNodes) <=> (m \in NewNodes /\ None(t, NewNodes)) \/ (m \notin NewNodes /\ Single(t, NewNodes))
      /\ None(r, Replies) <=> m \notin Replies /\ None(t, Replies)
      /\ Single(r, Replies) <=> (m \in Replies /\ None(t, Replies)) \/ (m \notin Replies /\ Single(t, Replies))
  BY ShorterQueue
<1>3. /\ m \in Answers <=> m.tag = "NotificationId"
      /\ m \in Refusals <=> m.tag = "NoNodes"
      /\ m \in NewNodes <=> m.tag = "Node"
      /\ m \in Replies <=> m.tag \in {"NoNodes", "Node"}
  BY <1>1, TagSets
<1>4. ASSUME None(q, Ends(s))
      PROVE  /\ \A k \in DOMAIN t : t[k] \in NewNodes => Same(n, t[k].val)
             /\ m \in NewNodes => Same(n, m.val)
             /\ m \notin NewNodes /\ None(t, NewNodes) => Same(n, Has(v))
  <2>1. /\ \A k \in DOMAIN r : r[k] \in NewNodes => Same(n, r[k].val)
        /\ None(r, NewNodes) => Same(n, Has(v))
    BY <1>4 DEF Talks, Agrees
  <2>2. /\ DOMAIN r = 1..Len(r) /\ DOMAIN t = 1..(Len(r) - 1)
        /\ 1 \in DOMAIN r /\ \A k \in 1..(Len(r) - 1) : k + 1 \in DOMAIN r
    BY <1>1
  <2> HIDE DEF m, t
  <2> QED
    BY <1>1, <1>2, <2>1, <2>2
<1>5. /\ None(t, Replies) <=> None(t, Refusals) /\ None(t, NewNodes)
  BY DEF None, Replies
<1>6. /\ v.cur \in MaybeNode /\ v.new \in MaybeNode
      /\ v.asked \in BOOLEAN /\ v.noticed \in BOOLEAN
  BY SolverFields
<1>7. /\ Reports(q, v, r, s) /\ Asks(q, v, r, s) /\ Waits(q, v, r, s)
  BY DEF Talks
<1> HIDE DEF m, t
<1>8. /\ m.tag = "Node" /\ v.cur = NoNode =>
            w.cur = m.val /\ w.new = v.new /\ w.asked = FALSE /\ w.noticed = v.noticed
      /\ m.tag = "Node" /\ v.cur # NoNode =>
            w.cur = v.cur /\ w.new = m.val /\ w.asked = FALSE /\ w.noticed = v.noticed
      /\ m.tag = "NoNodes" =>
            w.cur = v.cur /\ w.new = v.new /\ w.asked = FALSE /\ w.noticed = v.noticed
      /\ m.tag = "NotificationId" =>
            w.cur = v.cur /\ w.new = v.new /\ w.asked = v.asked /\ w.noticed = FALSE
      /\ m.tag \notin {"Node", "NoNodes", "NotificationId"} =>
            w.cur = v.cur /\ w.new = v.new /\ w.asked = v.asked /\ w.noticed = v.noticed
      /\ m.tag = "Node" => m.val # NoNode
  <2>1. m.tag = "Node" => m.val \in NodeSet
    BY <1>1 DEF ToSolver
  <2>2. m.tag = "Node" => m.val # NoNode
    BY <2>1, NodeTypes
  <2> QED
    BY <1>1, <2>2, ReceivedIs
<1> HIDE DEF w
<1>9. ASSUME Reports(q, w, t, s), Asks(q, w, t, s), Waits(q, w, t, s),
             None(q, Ends(s)) => Same(n, Has(w)) \/ ~None(t, NewNodes)
      PROVE  Talks(n, q, w, t, s)
  BY <1>4, <1>9 DEF Talks, Agrees
<1>10. ASSUME m.tag = "Node" /\ v.cur = NoNode PROVE Talks(n, q, w, t, s)
  <2>1. Reports(q, w, t, s)
    BY <1>2, <1>3, <1>7, <1>8, <1>10, Zenon DEF Reports, One
  <2>2. v.new = NoNode /\ ~v.asked /\ None(t, NewNodes) /\ None(q, Ends(s))
    BY <1>2, <1>3, <1>7, <1>10, NotBoth DEF Waits
  <2>3. w.cur # NoNode /\ w.new = NoNode /\ w.asked = FALSE
    BY <1>8, <1>10, <2>2
  <2>4. Asks(q, w, t, s)
    BY <1>2, <1>7, <2>2, <2>3 DEF Asks
  <2>5. Waits(q, w, t, s)
    BY <2>2, <2>3 DEF Waits
  <2>6. Same(n, Has(w))
    BY <1>3, <1>4, <1>8, <1>10, <2>2, <2>3 DEF Has
  <2> QED
    BY <1>9, <2>1, <2>4, <2>5, <2>6
<1>11. ASSUME m.tag = "Node" /\ v.cur # NoNode PROVE Talks(n, q, w, t, s)
  <2>1. Reports(q, w, t, s)
    BY <1>2, <1>3, <1>7, <1>8, <1>11, Zenon DEF Reports, One
  <2>2. v.asked
    BY <1>2, <1>3, <1>7, <1>11 DEF Asks
  <2>3. None(q, Requests(s)) /\ None(t, Refusals) /\ None(t, NewNodes)
    BY <1>2, <1>3, <1>5, <1>7, <1>11, <2>2 DEF Asks, One
  <2>4. w.cur # NoNode /\ w.new # NoNode /\ w.asked = FALSE
    BY <1>8, <1>11
  <2>5. Asks(q, w, t, s)
    BY <2>3, <2>4 DEF Asks
  <2>6. Waits(q, w, t, s)
    BY <1>7, <1>11, <2>4 DEF Waits
  <2>7. None(q, Ends(s)) => Same(n, Has(w))
    BY <1>3, <1>4, <1>8, <1>11, <2>4 DEF Has
  <2> QED
    BY <1>9, <2>1, <2>5, <2>6, <2>7
<1>12. ASSUME m.tag = "NoNodes" PROVE Talks(n, q, w, t, s)
  <2>1. Reports(q, w, t, s)
    BY <1>2, <1>3, <1>7, <1>8, <1>12, Zenon DEF Reports, One
  <2>2. v.asked
    BY <1>2, <1>3, <1>7, <1>12 DEF Asks
  <2>3. None(q, Requests(s)) /\ None(t, Refusals) /\ None(t, NewNodes)
    BY <1>2, <1>3, <1>5, <1>7, <1>12, <2>2 DEF Asks, One
  <2>4. w.cur = v.cur /\ w.new = v.new /\ w.asked = FALSE /\ w.cur # NoNode
    BY <1>7, <1>8, <1>12, <2>2 DEF Waits
  <2>5. Asks(q, w, t, s)
    BY <2>3, <2>4 DEF Asks
  <2>6. Waits(q, w, t, s)
    BY <1>7, <2>4 DEF Waits
  <2>7. None(q, Ends(s)) => Same(n, Has(w))
    BY <1>3, <1>4, <1>12, <2>3, <2>4 DEF Has
  <2> QED
    BY <1>9, <2>1, <2>5, <2>6, <2>7
<1>13. ASSUME m.tag \notin {"NoNodes", "Node"} PROVE Talks(n, q, w, t, s)
  <2>1. m \notin Refusals /\ m \notin NewNodes /\ m \notin Replies
    BY <1>3, <1>13
  <2>2. w.cur = v.cur /\ w.new = v.new /\ w.asked = v.asked
    BY <1>8, <1>13
  <2>3. Reports(q, w, t, s)
    <3>1. CASE m.tag = "NotificationId"
      <4>1. v.noticed
        BY <1>2, <1>3, <1>7, <3>1 DEF Reports
      <4>2. None(q, States(s)) /\ None(t, Answers)
        BY <1>2, <1>3, <1>7, <3>1, <4>1 DEF Reports, One
      <4> QED
        BY <1>8, <3>1, <4>2 DEF Reports
    <3>2. CASE m.tag # "NotificationId"
      BY <1>2, <1>3, <1>7, <1>8, <1>13, <3>2, Zenon DEF Reports, One
    <3> QED
      BY <3>1, <3>2
  <2>4. Asks(q, w, t, s)
    BY <1>2, <1>7, <2>1, <2>2, Zenon DEF Asks, One
  <2>5. Waits(q, w, t, s)
    BY <1>2, <1>7, <2>1, <2>2, Zenon DEF Waits
  <2>6. None(q, Ends(s)) => Same(n, Has(w)) \/ ~None(t, NewNodes)
    BY <1>4, <2>1, <2>2 DEF Has
  <2> QED
    BY <1>9, <2>3, <2>4, <2>5, <2>6
<1>14. Talks(n, q, w, t, s)
  BY <1>10, <1>11, <1>12, <1>13
<1> QED
  BY <1>14 DEF w, t, m

\* And the solver still knows no value better than the incumbent.
LEMMA ReceivedMidway ==
    ASSUME NEW c \in CoordSet, NEW q, NEW v, NEW r, r # <<>>, NEW s, Midway(c, q, v, r, s)
    PROVE  Midway(c, q, Received(v, Head(r)), Tail(r), s) /\ Passive(v, Received(v, Head(r)))
<1> DEFINE m == Head(r)
           t == Tail(r)
           w == Received(v, m)
<1>1. v \in SolverSet /\ r \in Seq(ToSolver) /\ Told(c, r) /\ Talks(c.cur[s], q, v, r, s) /\ Knows(c, v)
  BY DEF Midway
<1>2. m \in ToSolver /\ t \in Seq(ToSolver) /\ Len(r) \in Nat \ {0} /\ m = r[1]
      /\ Len(t) = Len(r) - 1 /\ \A k \in 1..(Len(r) - 1) : t[k] = r[k + 1]
  BY <1>1, HeadAndTail
<1>3. Talks(c.cur[s], q, w, t, s)
  BY <1>1, TalksReceived
<1>4. /\ 1 \in DOMAIN r /\ DOMAIN t = 1..(Len(r) - 1) /\ \A k \in 1..(Len(r) - 1) : k + 1 \in DOMAIN r
  BY <1>1, <1>2
<1> HIDE DEF m, t
<1>5. Told(c, t)
  BY <1>1, <1>2, <1>4 DEF Told
<1>6. m.tag \in {"Solution", "IncumbentValue"} => c.inc <= m.val
  BY <1>1, <1>2, <1>4 DEF Told
<1>7. /\ w \in SolverSet
      /\ m.tag = "Solution" => w.inc = v.inc /\ (w.pend = v.pend \/ w.pend = m.val)
      /\ m.tag = "IncumbentValue" => (w.inc = v.inc \/ w.inc = m.val) /\ w.pend = v.pend
      /\ m.tag \notin {"Solution", "IncumbentValue"} => w.inc = v.inc /\ w.pend = v.pend
  BY <1>1, <1>2, ReceivedIs
<1>8. Passive(v, w)
  <2>1. /\ w.pc = v.pc /\ w.open = v.open /\ w.own = v.own /\ w.loc = v.loc /\ w.best = v.best
    BY <1>1, <1>2, ReceivedIs
  <2>2. v.cur # NoNode => w.cur = v.cur
    BY <1>1, <1>2, ReceivedIs
  <2>3. ~v.noticed => ~w.noticed
    BY <1>1, <1>2, ReceivedIs
  <2> QED
    BY <2>1, <2>2, <2>3 DEF Passive
<1> HIDE DEF w
<1>9. Knows(c, w)
  BY <1>1, <1>6, <1>7 DEF Knows
<1>10. Midway(c, q, w, t, s)
  BY <1>2, <1>3, <1>5, <1>7, <1>9 DEF Midway
<1> QED
  BY <1>8, <1>10 DEF w, t, m

\* Induction over the positions of a queue: a least counterexample.
LEMMA UpwardClosed ==
    ASSUME NEW n \in Nat, NEW ok, 0 \in ok, \A k \in 1..n : k - 1 \in ok => k \in ok
    PROVE  \A k \in 0..n : k \in ok
<1> DEFINE bad == {k \in 0..n : k \notin ok}
<1> SUFFICES ASSUME bad # {} PROVE FALSE
  OBVIOUS
<1>1. PICK k \in bad : \A j \in bad : k <= j
  <2>1. bad \subseteq Nat
    OBVIOUS
  <2> QED
    BY <2>1, LeastNat
<1>2. k \in 1..n /\ k - 1 \in 0..n /\ k - 1 \notin bad
  BY <1>1
<1> QED
  BY <1>1, <1>2

Suffix(r, k) == SubSeq(r, k + 1, Len(r))

\* What is left of a queue after k messages.
LEMMA SuffixIs ==
    ASSUME NEW S, NEW r \in Seq(S), NEW k \in 0..Len(r)
    PROVE  /\ Suffix(r, k) \in Seq(S) /\ Len(Suffix(r, k)) = Len(r) - k
           /\ \A i \in 1..(Len(r) - k) : Suffix(r, k)[i] = r[k + i]
           /\ k = Len(r) => Suffix(r, k) = <<>>
           /\ k = 0 => Suffix(r, k) = r
<1> DEFINE x == Suffix(r, k)
<1>1. x \in Seq(S) /\ Len(x) = Len(r) - k /\ \A i \in 1..(Len(r) - k) : x[i] = r[k + i]
  BY PartOfQueue DEF Suffix
<1> HIDE DEF x
<1>2. ASSUME k = Len(r) PROVE x = <<>>
  <2>1. Len(x) = 0
    BY <1>1, <1>2
  <2> QED
    BY <1>1, <2>1
<1>3. ASSUME k = 0 PROVE x = r
  <2>1. Len(x) = Len(r) /\ \A i \in 1..Len(r) : x[i] = r[i]
    BY <1>1, <1>3
  <2> QED
    BY <1>1, <2>1, SeqEqual
<1> QED
  BY <1>1, <1>2, <1>3 DEF x

\* The next message, and what is left then.
LEMMA SuffixStep ==
    ASSUME NEW S, NEW r \in Seq(S), NEW k \in 1..Len(r)
    PROVE  /\ Suffix(r, k - 1) # <<>> /\ Head(Suffix(r, k - 1)) = r[k]
           /\ Tail(Suffix(r, k - 1)) = Suffix(r, k)
<1> DEFINE x == Suffix(r, k - 1)
           y == Suffix(r, k)
<1>0. Len(r) \in Nat /\ k - 1 \in 0..Len(r) /\ k \in 0..Len(r) /\ (k - 1) + 1 = k
  OBVIOUS
<1>1. x \in Seq(S) /\ Len(x) = Len(r) - (k - 1) /\ \A i \in 1..(Len(r) - (k - 1)) : x[i] = r[(k - 1) + i]
  BY <1>0, SuffixIs
<1>2. y \in Seq(S) /\ Len(y) = Len(r) - k /\ \A i \in 1..(Len(r) - k) : y[i] = r[k + i]
  BY <1>0, SuffixIs
<1> HIDE DEF x, y
<1>3. x # <<>>
  BY <1>0, <1>1
<1>4. /\ Tail(x) \in Seq(S) /\ Len(Tail(x)) = Len(x) - 1 /\ Head(x) = x[1]
      /\ \A i \in 1..(Len(x) - 1) : Tail(x)[i] = x[i + 1]
  BY <1>1, <1>3, HeadAndTail
<1>5. Head(x) = r[k]
  <2>1. 1 \in 1..(Len(r) - (k - 1)) /\ (k - 1) + 1 = k
    BY <1>0
  <2> QED
    BY <1>1, <1>4, <2>1
<1>6. Tail(x) = y
  <2>1. Len(Tail(x)) = Len(y)
    <3>1. \A n, i : n \in Nat /\ i \in 1..n => (n - (i - 1)) - 1 = n - i
      OBVIOUS
    <3>2. (Len(r) - (k - 1)) - 1 = Len(r) - k
      BY <1>0, <3>1
    <3>3. Len(Tail(x)) = (Len(r) - (k - 1)) - 1 /\ Len(y) = Len(r) - k
      BY <1>1, <1>2, <1>4, Zenon
    <3> QED
      BY <3>2, <3>3, Zenon
  <2>2. ASSUME NEW i \in 1..Len(y) PROVE Tail(x)[i] = y[i]
    <3>1. i \in 1..(Len(x) - 1) /\ i + 1 \in 1..(Len(r) - (k - 1)) /\ (k - 1) + (i + 1) = k + i
      BY <1>0, <1>1, <1>2
    <3> QED
      BY <1>1, <1>2, <1>4, <3>1
  <2> QED
    BY <1>2, <1>4, <2>1, <2>2, SeqEqual
<1> QED
  BY <1>3, <1>5, <1>6 DEF x, y

\* The handlers leave alone, one after the other, what each does.
LEMMA PassiveIs ==
    /\ \A v : Passive(v, v)
    /\ \A u, v, w : Passive(u, v) /\ Passive(v, w) => Passive(u, w)
BY DEF Passive

\* The solver v with the queue r is w when the first k messages are handled.
After(c, q, v, r, s, w, k) == Midway(c, q, w, Suffix(r, k), s) /\ Passive(v, w)

\* The solver v when the messages p are handled; and when the last was m.
HasReceived(v, p) == Applied(Received, v, p)
JustReceived(w, m) == \E u \in SolverSet : w = Received(u, m)

\* The begin of the queue is handled, message by message.
LEMMA AppliedReceived ==
    ASSUME NEW c \in CoordSet, NEW q, NEW v, NEW r, NEW s, Midway(c, q, v, r, s),
           NEW p \in Seq(ToSolver), Len(p) <= Len(r), \A i \in 1..Len(p) : p[i] = r[i]
    PROVE  /\ After(c, q, v, r, s, HasReceived(v, p), Len(p))
           /\ Len(p) # 0 => JustReceived(HasReceived(v, p), p[Len(p)])
<1> DEFINE F == [x \in SolverSet \X ToSolver |-> Received(x[1], x[2])]
           Row(f) == f = [k \in 0..Len(p) |-> IF k = 0 THEN v ELSE Received(f[k - 1], p[k])]
<1>1. v \in SolverSet /\ r \in Seq(ToSolver)
  BY DEF Midway
<1>2. F \in [SolverSet \X ToSolver -> SolverSet]
  <2>1. \A u \in SolverSet, m \in ToSolver : Received(u, m) \in SolverSet
    BY ReceivedIs
  <2> QED
    BY <2>1
<1> HIDE DEF F
<1>3. PICK f \in [0..Len(p) -> SolverSet] : IsRow(f, F, v, p, Len(p))
  BY <1>1, <1>2, RowExists
<1>4. Len(p) \in Nat /\ Len(r) \in Nat /\ \A k \in 1..Len(p) : p[k] \in ToSolver
  BY <1>1
<1>5. \A k \in 0..Len(p) : f[k] = IF k = 0 THEN v ELSE Received(f[k - 1], p[k])
  <2>1. ASSUME NEW k \in 0..Len(p), k # 0 PROVE F[<<f[k - 1], p[k]>>] = Received(f[k - 1], p[k])
    <3>1. f[k - 1] \in SolverSet /\ p[k] \in ToSolver
      BY <1>3, <1>4, <2>1
    <3> QED
      BY <3>1 DEF F
  <2> QED
    BY <1>3, <2>1 DEF IsRow
<1>6. Row(f)
  BY <1>3, <1>5
<1> DEFINE z == CHOOSE g : Row(g)
<1>7. Row(z)
  BY <1>6, Zenon
<1>8. HasReceived(v, p) = z[Len(p)]
  BY Zenon DEF Applied, HasReceived
<1> HIDE DEF z
<1>9. \A k \in 0..Len(p) : z[k] = IF k = 0 THEN v ELSE Received(z[k - 1], p[k])
  BY <1>7, Zenon
<1> DEFINE ok == {k \in 0..Len(p) : After(c, q, v, r, s, z[k], k)}
<1>10. 0 \in ok
  <2>1. Suffix(r, 0) = r /\ z[0] = v
    BY <1>1, <1>4, <1>9, SuffixIs
  <2> QED
    BY <1>4, <2>1, PassiveIs DEF After
<1>11. ASSUME NEW k \in 1..Len(p), k - 1 \in ok PROVE k \in ok
  <2>1. z[k] = Received(z[k - 1], r[k]) /\ k \in 1..Len(r) /\ k \in 0..Len(p)
    BY <1>4, <1>9
  <2>2. Midway(c, q, z[k - 1], Suffix(r, k - 1), s) /\ Passive(v, z[k - 1])
    BY <1>11 DEF After
  <2>3. /\ Suffix(r, k - 1) # <<>> /\ Head(Suffix(r, k - 1)) = r[k]
        /\ Tail(Suffix(r, k - 1)) = Suffix(r, k)
    BY <1>1, <2>1, SuffixStep
  <2>4. Midway(c, q, z[k], Suffix(r, k), s) /\ Passive(z[k - 1], z[k])
    BY <2>1, <2>2, <2>3, ReceivedMidway
  <2> QED
    BY <2>1, <2>2, <2>4, PassiveIs DEF After
<1>12. \A k \in 0..Len(p) : k \in ok
  <2> HIDE DEF ok
  <2> QED
    BY <1>4, <1>10, <1>11, UpwardClosed
<1>13. After(c, q, v, r, s, z[Len(p)], Len(p))
  BY <1>4, <1>12
<1>14. ASSUME Len(p) # 0 PROVE JustReceived(z[Len(p)], p[Len(p)])
  <2>1. z[Len(p)] = Received(z[Len(p) - 1], p[Len(p)]) /\ Len(p) - 1 \in 0..Len(p)
    BY <1>4, <1>9, <1>14
  <2>2. z[Len(p) - 1] \in SolverSet
    BY <1>12, <2>1 DEF After, Midway
  <2> QED
    BY <2>1, <2>2 DEF JustReceived
<1> QED
  BY <1>8, <1>13, <1>14

\* The step of a solver: the others see no message of theirs.
LEMMA SilentOthers ==
    ASSUME NEW s, NEW p \in Seq(ToCoord), \A k \in DOMAIN p : p[k].src = s, NEW r, r # s
    PROVE  Silent(p, r)
<1>1. \A k \in DOMAIN p : p[k] \notin States(r) /\ p[k] \notin Requests(r) /\ p[k] \notin Ends(r)
  BY DEF States, Requests, Ends
<1> QED
  BY <1>1 DEF Silent, None

\* The queues b with the messages r left to s, and with those ms it sends.
Posted(b, s, r, ms) == [[b EXCEPT ![s] = r] EXCEPT ![0] = @ \o ms]

\* These queues, one by one.
LEMMA PostedIs ==
    ASSUME NEW c, NEW b, Typed(c, b), NEW s \in Solvers, NEW r \in Seq(ToSolver), NEW ms \in Seq(ToCoord)
    PROVE  /\ Table(Posted(b, s, r, ms)) /\ Posted(b, s, r, ms)[0] = b[0] \o ms
           /\ Posted(b, s, r, ms)[s] = r /\ \A t \in Solvers \ {s} : Posted(b, s, r, ms)[t] = b[t]
<1>1. b \in [0..N -> Seq(ToCoord) \cup Seq(ToSolver)] /\ b[0] \in Seq(ToCoord)
  BY DEF Typed
<1>2. Solvers \subseteq 0..N /\ 0 \in 0..N /\ 0 \notin Solvers
  BY NAssumption DEF Solvers
<1> QED
  BY <1>1, <1>2 DEF Posted, Table

\* A step of a solver, when what holds of it afterwards is shown.
LEMMA BecomesOk ==
    ASSUME IInv, NEW s \in Solvers, NEW v \in SolverSet, NEW r \in Seq(ToSolver), NEW ms \in Seq(ToCoord),
           \A k \in DOMAIN ms : ms[k].src = s,
           NEW b, b = [box EXCEPT ![s] = r], Becomes(s, v, b, ms),
           Order(lc, box[0] \o ms, s), SolverOk(lc, box[0] \o ms, v, r, s)
    PROVE  IInv'
<1> DEFINE z == Posted(box, s, r, ms)
<1>1. SvTyped /\ CoordOk(lc, box) /\ Typed(lc, box) /\ sv \in [Solvers -> SolverSet]
  BY DEF IInv, CoordOk, SvTyped
<1>2. UNCHANGED <<lc, sync>> /\ sv' = [sv EXCEPT ![s] = v] /\ box' = z
  BY DEF Becomes, Posted
<1>3. /\ Table(z) /\ z[0] = box[0] \o ms
      /\ z[s] = r /\ \A t \in Solvers \ {s} : z[t] = box[t]
  BY <1>1, PostedIs
<1> HIDE DEF z
<1>4. sv' \in [Solvers -> SolverSet] /\ sv'[s] = v /\ \A t \in Solvers \ {s} : sv'[t] = sv[t]
  BY <1>1, <1>2
<1>5. box[0] \in Seq(ToCoord) /\ z[0] \in Seq(ToCoord)
  BY <1>1, <1>3 DEF Typed
<1>6. ASSUME NEW t \in Solvers
      PROVE  z[t] \in Seq(ToSolver) /\ Order(lc, z[0], t) /\ SolverOk(lc, z[0], sv'[t], z[t], t)
  <2>1. CASE t = s
    BY <1>3, <1>4, <2>1
  <2>2. CASE t # s
    <3>1. Silent(ms, t)
      BY <2>2, SilentOthers
    <3>2. box[t] \in Seq(ToSolver) /\ Order(lc, box[0], t) /\ SolverOk(lc, box[0], sv[t], box[t], t)
      BY <1>1, CoordParts
    <3>3. Order(lc, box[0] \o ms, t) /\ SolverOk(lc, box[0] \o ms, sv[t], box[t], t)
      BY <1>5, <3>1, <3>2, OkGrows, OrderGrows
    <3> QED
      BY <1>3, <1>4, <2>2, <3>2, <3>3
  <2> QED
    BY <2>1, <2>2
<1>7. lc \in CoordSet
  BY <1>1 DEF Typed
<1>8. Typed(lc, z)
  BY <1>3, <1>5, <1>6, <1>7, SentTyped
<1>9. SvTyped'
  BY <1>1, <1>2, <1>4 DEF SvTyped
<1>11. CoordOk(lc, box)'
  BY <1>2, <1>6, <1>8 DEF CoordOk, SolverOk
<1> QED
  BY <1>9, <1>11 DEF IInv

\* What both sides know is about the node, the request and the report.
LEMMA TalksFields ==
    ASSUME NEW n, NEW q, NEW v, NEW w, NEW r, NEW s,
           w.cur = v.cur, w.new = v.new, w.asked = v.asked, w.noticed = v.noticed, Talks(n, q, v, r, s)
    PROVE  Talks(n, q, w, r, s)
<1>1. Reports(q, w, r, s)
  BY Zenon DEF Talks, Reports
<1>2. Asks(q, w, r, s)
  BY Zenon DEF Talks, Asks
<1>3. Waits(q, w, r, s)
  BY Zenon DEF Talks, Waits
<1>4. Agrees(n, q, w, r, s)
  BY Zenon DEF Talks, Agrees, Has
<1> QED
  BY <1>1, <1>2, <1>3, <1>4 DEF Talks

\* A solver that has a node is one for the load coordinator too.
LEMMA HasNode ==
    ASSUME NEW n \in MaybeNode, NEW q, NEW v \in SolverSet, NEW r \in Seq(ToSolver), NEW s,
           Talks(n, q, v, r, s), v.cur # NoNode
    PROVE  None(q, Ends(s)) /\ n # NoNode
<1>1. None(q, Ends(s))
  BY DEF Talks, Waits
<1>2. v.cur \in MaybeNode /\ v.new \in MaybeNode
  BY SolverFields
<1>3. Has(v) \in MaybeNode /\ Has(v) # NoNode
  BY <1>2 DEF Has
<1>4. CASE None(r, NewNodes)
  <2>1. Same(n, Has(v))
    BY <1>1, <1>4 DEF Talks, Agrees
  <2> QED
    BY <1>1, <1>3, <2>1, SameNone
<1>5. CASE ~None(r, NewNodes)
  <2>1. PICK k \in DOMAIN r : r[k] \in NewNodes
    BY <1>5 DEF None
  <2>2. Same(n, r[k].val)
    BY <1>1, <2>1 DEF Talks, Agrees
  <2>3. r[k].val \in NodeSet
    BY <2>1 DEF NewNodes, ToSolver
  <2>4. r[k].val \in MaybeNode /\ r[k].val # NoNode
    BY <2>3, NodeTypes DEF MaybeNode
  <2> QED
    BY <1>1, <2>2, <2>4, SameNone
<1> QED
  BY <1>4, <1>5

\* A solver with a node that has handled what it has to, between two steps.
Settled(c, q, v, r, s) ==
    /\ Midway(c, q, v, r, s) /\ v.cur # NoNode
    /\ sync => ~v.noticed /\ Keeps(c, q, v)

\* What arrives does so whatever comes behind it.
LEMMA KeepsGrows ==
    ASSUME NEW c, NEW q \in Seq(ToCoord), NEW p \in Seq(ToCoord), NEW v, Keeps(c, q, v)
    PROVE  Keeps(c, q \o p, v)
BY ArrivesStill DEF Keeps

\* Messages about something else leave what holds between two steps.
LEMMA SettledGrows ==
    ASSUME NEW c, NEW q \in Seq(ToCoord), NEW p \in Seq(ToCoord), NEW v, NEW r, NEW s, Silent(p, s),
           Settled(c, q, v, r, s)
    PROVE  Settled(c, q \o p, v, r, s)
<1>1. Midway(c, q \o p, v, r, s)
  BY TalksGrows DEF Settled, Midway
<1> QED
  BY <1>1, KeepsGrows DEF Settled

\* The fields of a solver that are not about its search.
Alongside(v, w) ==
    /\ w.cur = v.cur /\ w.new = v.new /\ w.asked = v.asked /\ w.noticed = v.noticed
    /\ w.inc = v.inc /\ w.pend = v.pend

\* The fields that are not about the search matter to the talk only.
LEMMA MidwayFields ==
    ASSUME NEW c, NEW q, NEW v, NEW w \in SolverSet, NEW r, NEW s, Alongside(v, w), Midway(c, q, v, r, s)
    PROVE  Midway(c, q, w, r, s)
<1>1. Talks(c.cur[s], q, w, r, s)
  BY TalksFields DEF Alongside, Midway
<1>2. Knows(c, w)
  BY DEF Alongside, Midway, Knows
<1> QED
  BY <1>1, <1>2 DEF Midway

\* And to what holds between two steps.
LEMMA SettledFields ==
    ASSUME NEW c, NEW q, NEW v, NEW w \in SolverSet, NEW r, NEW s, Alongside(v, w),
           w.own = v.own, w.best = v.best, w.loc = v.loc, Settled(c, q, v, r, s)
    PROVE  Settled(c, q, w, r, s)
<1>1. Midway(c, q, w, r, s)
  BY MidwayFields DEF Settled
<1>2. Keeps(c, q, v) => Keeps(c, q, w)
  BY DEF Keeps
<1> QED
  BY <1>1, <1>2 DEF Settled, Alongside

Pcs == {"idle", "solve", "report", "ask", "waitid", "waitack", "finish",
        "complete", "await", "exit", "gone"}
At(v, x) == [v EXCEPT !.pc = x]

\* A solver that goes on.
LEMMA AtIs ==
    ASSUME NEW v \in SolverSet, NEW x \in Pcs
    PROVE  /\ At(v, x) \in SolverSet /\ At(v, x).pc = x /\ Alongside(v, At(v, x))
           /\ At(v, x).own = v.own /\ At(v, x).best = v.best /\ At(v, x).loc = v.loc
           /\ At(v, x).open = v.open /\ At(v, x).term = v.term
BY DEF At, Pcs, SolverSet, Alongside

\* What holds between two steps is what the invariant says of a solver.
LEMMA SettledOk ==
    ASSUME NEW c, NEW q, NEW v, NEW r, NEW s, Settled(c, q, v, r, s),
           v.pc \notin {"idle", "exit", "gone"}, sync => v.pc # "finish"
    PROVE  SolverOk(c, q, v, r, s)
BY DEF Settled, Midway, SolverOk, PcOk, Paced

\* A step of solver s to v, when the messages r are left and ms are sent.
Stepped(s, v, r, ms) ==
    /\ r \in Seq(ToSolver) /\ ms \in Seq(ToCoord) /\ \A k \in DOMAIN ms : ms[k].src = s
    /\ Order(lc, box[0] \o ms, s) /\ Settled(lc, box[0] \o ms, v, r, s)

\* A step to what holds between two steps keeps the invariant.
LEMMA SteppedKeeps ==
    ASSUME IInv, NEW s \in Solvers, NEW v, NEW r, NEW ms, Stepped(s, v, r, ms),
           NEW b, b = [box EXCEPT ![s] = r], NEW x \in Pcs \ {"idle", "exit", "gone"}, sync => x # "finish",
           Becomes(s, At(v, x), b, ms)
    PROVE  IInv'
<1>1. v \in SolverSet
  BY DEF Stepped, Settled, Midway
<1>2. At(v, x) \in SolverSet /\ At(v, x).pc = x
  BY <1>1, AtIs
<1>3. Settled(lc, box[0] \o ms, At(v, x), r, s)
  BY <1>1, <1>2, AtIs, SettledFields DEF Stepped
<1>4. SolverOk(lc, box[0] \o ms, At(v, x), r, s)
  BY <1>2, <1>3, SettledOk
<1> QED
  BY <1>2, <1>4, BecomesOk DEF Stepped

\* What the invariant says of one solver.
LEMMA SolverParts ==
    ASSUME IInv, NEW s \in Solvers, ~Gone(sv[s])
    PROVE  /\ lc \in CoordSet /\ box[0] \in Seq(ToCoord) /\ box[s] \in Seq(ToSolver)
           /\ sv[s] \in SolverSet /\ lc.cur[s] \in MaybeNode
           /\ Order(lc, box[0], s) /\ Midway(lc, box[0], sv[s], box[s], s) /\ PcOk(sv[s])
           /\ sync => Paced(sv[s]) /\ Keeps(lc, box[0], sv[s])
<1>1. CoordOk(lc, box) /\ SvTyped
  BY DEF IInv
<1>2. /\ lc \in CoordSet /\ box[0] \in Seq(ToCoord) /\ box[s] \in Seq(ToSolver)
      /\ sv[s] \in SolverSet /\ lc.cur[s] \in MaybeNode
      /\ Order(lc, box[0], s) /\ SolverOk(lc, box[0], sv[s], box[s], s)
  BY <1>1, CoordParts
<1> QED
  BY <1>2 DEF SolverOk, Midway

\* A solver at work, before it handles messages.
LEMMA Working ==
    ASSUME IInv, NEW s \in Solvers, ~Gone(sv[s]), sv[s].pc \notin {"idle", "waitid"}
    PROVE  Settled(lc, box[0], sv[s], box[s], s) /\ (sync => sv[s].pc # "finish")
<1>1. /\ Midway(lc, box[0], sv[s], box[s], s) /\ PcOk(sv[s])
      /\ sync => Paced(sv[s]) /\ Keeps(lc, box[0], sv[s])
  BY SolverParts
<1> QED
  BY <1>1 DEF Settled, PcOk, Paced

\* A step in which nothing is sent.
LEMMA NothingSent ==
    ASSUME NEW q \in Seq(ToCoord)
    PROVE  q \o <<>> = q /\ <<>> \in Seq(ToCoord)
OBVIOUS

\* The first k messages of a queue are handled.
LEMMA PartReceived ==
    ASSUME NEW c \in CoordSet, NEW q, NEW v, NEW r, NEW s, Midway(c, q, v, r, s),
           NEW k \in 0..Len(r), NEW p, p = SubSeq(r, 1, k)
    PROVE  /\ After(c, q, v, r, s, HasReceived(v, p), k)
           /\ k # 0 => JustReceived(HasReceived(v, p), r[k])
<1>1. r \in Seq(ToSolver)
  BY DEF Midway
<1>2. p \in Seq(ToSolver) /\ Len(p) = k /\ \A i \in 1..k : p[i] = r[i]
  BY <1>1, PartOfQueue
<1>3. Len(p) <= Len(r) /\ \A i \in 1..Len(p) : p[i] = r[i]
  BY <1>1, <1>2
<1>4. /\ After(c, q, v, r, s, HasReceived(v, p), Len(p))
      /\ Len(p) # 0 => JustReceived(HasReceived(v, p), p[Len(p)])
  BY <1>2, <1>3, AppliedReceived
<1>5. k # 0 => p[k] = r[k]
  BY <1>2
<1> QED
  BY <1>2, <1>4, <1>5

\* The first k messages are handled.
LEMMA UptoIs ==
    ASSUME IInv, NEW s \in Solvers, ~Gone(sv[s]), NEW k \in 0..Len(box[s])
    PROVE  /\ Midway(lc, box[0], Upto(s, k), Suffix(box[s], k), s) /\ Passive(sv[s], Upto(s, k))
           /\ Rest(s, k) = [box EXCEPT ![s] = Suffix(box[s], k)]
           /\ Suffix(box[s], k) \in Seq(ToSolver)
           /\ k # 0 => JustReceived(Upto(s, k), box[s][k])
<1> DEFINE p == SubSeq(box[s], 1, k)
<1>1. /\ lc \in CoordSet /\ box[s] \in Seq(ToSolver) /\ Midway(lc, box[0], sv[s], box[s], s)
  BY SolverParts
<1>2. /\ After(lc, box[0], sv[s], box[s], s, HasReceived(sv[s], p), k)
      /\ k # 0 => JustReceived(HasReceived(sv[s], p), box[s][k])
  BY <1>1, PartReceived
<1>3. Upto(s, k) = HasReceived(sv[s], p)
  BY Zenon DEF Upto, HasReceived
<1> HIDE DEF p
<1>4. /\ Midway(lc, box[0], Upto(s, k), Suffix(box[s], k), s) /\ Passive(sv[s], Upto(s, k))
      /\ k # 0 => JustReceived(Upto(s, k), box[s][k])
  BY <1>2, <1>3, Zenon DEF After
<1>5. Rest(s, k) = [box EXCEPT ![s] = Suffix(box[s], k)]
  BY DEF Rest, Suffix
<1> QED
  BY <1>1, <1>4, <1>5, SuffixIs

\* All messages are handled, from v on.
LEMMA AllReceived ==
    ASSUME NEW c \in CoordSet, NEW q, NEW v, NEW r, NEW s, Midway(c, q, v, r, s)
    PROVE  Midway(c, q, HasReceived(v, r), <<>>, s) /\ Passive(v, HasReceived(v, r))
<1>1. r \in Seq(ToSolver) /\ Len(r) <= Len(r) /\ Len(r) \in 0..Len(r)
  BY DEF Midway
<1>2. After(c, q, v, r, s, HasReceived(v, r), Len(r))
  BY <1>1, AppliedReceived
<1>3. Suffix(r, Len(r)) = <<>>
  BY <1>1, SuffixIs
<1> QED
  BY <1>2, <1>3 DEF After

\* So for a solver in the model.
LEMMA DrainedIs ==
    ASSUME IInv, NEW s \in Solvers, ~Gone(sv[s])
    PROVE  /\ Midway(lc, box[0], Drained(s), <<>>, s) /\ Passive(sv[s], Drained(s))
           /\ Emptied(s) = [box EXCEPT ![s] = <<>>]
<1>1. box[s] \in Seq(ToSolver) /\ Len(box[s]) \in 0..Len(box[s])
  BY SolverParts
<1>2. Midway(lc, box[0], Upto(s, Len(box[s])), Suffix(box[s], Len(box[s])), s)
      /\ Passive(sv[s], Upto(s, Len(box[s])))
  BY <1>1, UptoIs
<1>3. Suffix(box[s], Len(box[s])) = <<>>
  BY <1>1, SuffixIs
<1> QED
  BY <1>2, <1>3, Zenon DEF Drained, Emptied

\* What the handlers leave alone is kept.
LEMMA PassiveSettled ==
    ASSUME NEW c, NEW q, NEW u, NEW v, NEW r, NEW s, u.cur # NoNode, Midway(c, q, v, r, s), Passive(u, v),
           sync => ~v.noticed /\ Keeps(c, q, u)
    PROVE  Settled(c, q, v, r, s)
BY DEF Settled, Passive, Keeps

\* The first message with a tag, for which a solver waits.
LEMMA AnswerIs ==
    ASSUME NEW s, NEW S, box[s] \in Seq(S), NEW tag, \E k \in DOMAIN box[s] : box[s][k].tag = tag
    PROVE  /\ Answer(s, tag) \in DOMAIN box[s] /\ box[s][Answer(s, tag)].tag = tag
           /\ Answer(s, tag) \in 0..Len(box[s]) /\ Answer(s, tag) # 0
<1> DEFINE T == {k \in DOMAIN box[s] : box[s][k].tag = tag}
<1>1. T \subseteq Nat /\ T # {} /\ T \subseteq (0..Len(box[s])) \ {0}
  OBVIOUS
<1>2. Answer(s, tag) = Least(T)
  BY DEF Answer
<1>3. Least(T) \in T
  BY <1>1, LeastIs
<1> QED
  BY <1>1, <1>2, <1>3

\* When the answer to a report has come, none is owed.
LEMMA NoticeReceived ==
    ASSUME IInv, NEW s \in Solvers, ~Gone(sv[s]), sv[s].pc # "idle", NEW k \in 0..Len(box[s]), k # 0,
           box[s][k].tag = "NotificationId"
    PROVE  Settled(lc, box[0], Upto(s, k), Suffix(box[s], k), s) /\ ~Upto(s, k).noticed
<1>1. /\ Midway(lc, box[0], Upto(s, k), Suffix(box[s], k), s) /\ Passive(sv[s], Upto(s, k))
      /\ JustReceived(Upto(s, k), box[s][k])
  BY UptoIs
<1>2. PICK u \in SolverSet : Upto(s, k) = Received(u, box[s][k])
  BY <1>1 DEF JustReceived
<1>3. box[s] \in Seq(ToSolver) /\ PcOk(sv[s]) /\ (sync => Keeps(lc, box[0], sv[s]))
  BY SolverParts
<1>4. box[s][k] \in ToSolver
  BY <1>3
<1>5. ~Upto(s, k).noticed
  <2> DEFINE m == box[s][k]
  <2>1. m \in ToSolver /\ m.tag = "NotificationId"
    BY <1>4
  <2> HIDE DEF m
  <2>2. Received(u, m).noticed = FALSE
    BY <2>1, ReceivedIs
  <2> QED
    BY <1>2, <2>2 DEF m
<1> QED
  BY <1>1, <1>3, <1>5, PassiveSettled DEF PcOk

\* A step in which nothing is sent keeps the order of the messages.
LEMMA SteppedWith ==
    ASSUME IInv, NEW s \in Solvers, ~Gone(sv[s]), NEW v, NEW r, Settled(lc, box[0], v, r, s)
    PROVE  Stepped(s, v, r, <<>>)
<1>1. box[0] \in Seq(ToCoord) /\ Order(lc, box[0], s)
  BY SolverParts
<1>2. box[0] \o <<>> = box[0] /\ <<>> \in Seq(ToCoord)
  BY <1>1, NothingSent
<1>3. r \in Seq(ToSolver)
  BY DEF Settled, Midway
<1>4. \A k \in DOMAIN <<>> : <<>>[k].src = s
  OBVIOUS
<1> QED
  BY <1>1, <1>2, <1>3, <1>4 DEF Stepped

\* waitNotificationIdMessage.
LEMMA WaitNotificationIdKeeps ==
    ASSUME IInv, NEW s \in Solvers, WaitNotificationId(s)
    PROVE  IInv'
<1> DEFINE k == Answer(s, "NotificationId")
<1>1. /\ sv[s].pc = "waitid" /\ \E j \in DOMAIN box[s] : box[s][j].tag = "NotificationId"
      /\ Becomes(s, At(Upto(s, k), "ask"), Rest(s, k), <<>>)
  BY Zenon DEF WaitNotificationId, Answered, At
<1>2. ~Gone(sv[s])
  BY <1>1 DEF Gone
<1>3. box[s] \in Seq(ToSolver)
  BY <1>2, SolverParts
<1>4. k \in 0..Len(box[s]) /\ k # 0 /\ box[s][k].tag = "NotificationId"
  BY <1>1, <1>3, AnswerIs
<1> HIDE DEF k
<1>5. Settled(lc, box[0], Upto(s, k), Suffix(box[s], k), s)
  BY <1>1, <1>2, <1>4, NoticeReceived
<1>6. Rest(s, k) = [box EXCEPT ![s] = Suffix(box[s], k)]
  BY <1>2, <1>4, UptoIs
<1>7. Stepped(s, Upto(s, k), Suffix(box[s], k), <<>>)
  BY <1>2, <1>5, SteppedWith
<1>8. "ask" \in Pcs \ {"idle", "exit", "gone"} /\ "ask" # "finish"
  BY DEF Pcs
<1> QED
  BY <1>1, <1>6, <1>7, <1>8, SteppedKeeps

\* The wait of sendParaNode.
LEMMA WaitNodeReceivedKeeps ==
    ASSUME IInv, NEW s \in Solvers, WaitNodeReceived(s)
    PROVE  IInv'
<1> DEFINE k == Answer(s, "NodeReceived")
<1>1. /\ sv[s].pc = "waitack" /\ \E j \in DOMAIN box[s] : box[s][j].tag = "NodeReceived"
      /\ Becomes(s, At(Upto(s, k), "report"), Rest(s, k), <<>>)
  BY Zenon DEF WaitNodeReceived, Answered, At
<1>2. ~Gone(sv[s])
  BY <1>1 DEF Gone
<1>3. box[s] \in Seq(ToSolver) /\ Settled(lc, box[0], sv[s], box[s], s)
  BY <1>1, <1>2, SolverParts, Working
<1>4. k \in 0..Len(box[s])
  BY <1>1, <1>3, AnswerIs
<1> HIDE DEF k
<1>5. /\ Midway(lc, box[0], Upto(s, k), Suffix(box[s], k), s) /\ Passive(sv[s], Upto(s, k))
      /\ Rest(s, k) = [box EXCEPT ![s] = Suffix(box[s], k)]
  BY <1>2, <1>4, UptoIs
<1>6. Settled(lc, box[0], Upto(s, k), Suffix(box[s], k), s)
  BY <1>3, <1>5, PassiveSettled DEF Settled, Passive
<1>7. Stepped(s, Upto(s, k), Suffix(box[s], k), <<>>)
  BY <1>2, <1>6, SteppedWith
<1>8. "report" \in Pcs \ {"idle", "exit", "gone"} /\ "report" # "finish"
  BY DEF Pcs
<1> QED
  BY <1>1, <1>5, <1>7, <1>8, SteppedKeeps

-----------------------------------------------------------------------------
(* The solver's solutions.                                                 *)

\* updatePendingSolution.
LEMMA PendingIs ==
    ASSUME NEW v \in SolverSet
    PROVE  LET w == Pending(v) IN
           /\ w \in SolverSet /\ w.pc = v.pc /\ w.cur = v.cur /\ w.new = v.new /\ w.open = v.open
           /\ w.asked = v.asked /\ w.noticed = v.noticed /\ w.own = v.own /\ w.loc = v.loc /\ w.term = v.term
           /\ \/ w.best = v.best /\ w.inc = v.inc
              \/ v.pend < Inf /\ w.best = v.pend /\ w.inc = Lower(v.inc, v.pend)
           /\ w.pend = Inf
<1> DEFINE w == Pending(v)
<1>1. v.pend \in Vals /\ v.inc \in Vals /\ v.best \in Vals
  BY SolverFields
<1>2. Lower(v.inc, v.pend) \in Vals /\ Inf \in Vals
  <2>1. Lower(v.inc, v.pend) \in Vals
    BY <1>1, LowerIs
  <2> QED
    BY <2>1, ValsIs DEF Inf
<1>3. CASE v.pend = Inf
  BY <1>3 DEF Pending
<1>4. CASE v.pend # Inf /\ v.pend <= v.best
  <2>1. w = [v EXCEPT !.best = v.pend, !.inc = Lower(v.inc, v.pend), !.pend = Inf]
    BY <1>4 DEF Pending
  <2>2. v.pend < Inf
    BY <1>1, <1>4, ValsIs DEF Inf
  <2> HIDE DEF w
  <2> QED
    BY <1>1, <1>2, <2>1, <2>2 DEF SolverSet, w
<1>5. CASE v.pend # Inf /\ ~(v.pend <= v.best)
  <2>1. w = [v EXCEPT !.pend = Inf]
    BY <1>5 DEF Pending
  <2> HIDE DEF w
  <2> QED
    BY <1>1, <1>2, <2>1 DEF SolverSet, w
<1> QED
  BY <1>3, <1>4, <1>5

\* The solution taken is one the load coordinator has sent.
LEMMA PendingOk ==
    ASSUME NEW c \in CoordSet, NEW q, NEW v, NEW r, NEW s, Settled(c, q, v, r, s)
    PROVE  Settled(c, q, Pending(v), r, s)
<1> DEFINE w == Pending(v)
<1>1. v \in SolverSet /\ Midway(c, q, v, r, s) /\ v.cur # NoNode /\ Knows(c, v)
  BY DEF Settled, Midway
<1>2. /\ w \in SolverSet /\ w.cur = v.cur /\ w.new = v.new
      /\ w.asked = v.asked /\ w.noticed = v.noticed /\ w.own = v.own /\ w.loc = v.loc
      /\ \/ w.best = v.best /\ w.inc = v.inc
         \/ v.pend < Inf /\ w.best = v.pend /\ w.inc = Lower(v.inc, v.pend)
      /\ w.pend = Inf
  BY <1>1, PendingIs
<1>3. v.pend \in Vals /\ v.inc \in Vals
  BY <1>1, SolverFields
<1>4. Lower(v.inc, v.pend) = v.inc \/ Lower(v.inc, v.pend) = v.pend
  BY <1>3, LowerIs
<1> HIDE DEF w
<1>5. Knows(c, w)
  BY <1>1, <1>2, <1>3, <1>4, ValsIs DEF Knows, Inf
<1>6. Talks(c.cur[s], q, w, r, s)
  BY <1>1, <1>2, TalksFields DEF Midway
<1>7. v.pend < Inf => Arrives(c, q, v.pend)
  BY <1>1 DEF Arrives, Knows
<1>8. Keeps(c, q, v) => Keeps(c, q, w)
  BY <1>2, <1>7 DEF Keeps
<1>9. Settled(c, q, w, r, s)
  BY <1>1, <1>2, <1>5, <1>6, <1>8 DEF Settled, Midway
<1> QED
  BY <1>9 DEF w

\* createSubproblem: SCIP starts with the best solution or with none.
LEMMA StartedOk ==
    ASSUME NEW c \in CoordSet, NEW q, NEW v, NEW r, NEW s, NEW x, Settled(c, q, v, r, s)
    PROVE  Settled(c, q, Started(v, x), r, s) /\ Started(v, x) = At(Started(v, x), "report")
<1> DEFINE w == Pending(v)
           o == IF x /\ w.best < w.inc THEN w.best ELSE Inf
           u == Started(v, x)
<1>1. Settled(c, q, w, r, s)
  BY PendingOk
<1>2. u = [w EXCEPT !.pc = "report", !.open = w.cur.leaves, !.own = o]
  BY DEF Started
<1> HIDE DEF w
<1>3. w \in SolverSet /\ w.cur \in MaybeNode /\ w.best \in Vals /\ w.inc \in Vals
  <2>1. w \in SolverSet
    BY <1>1 DEF Settled, Midway
  <2> QED
    BY <2>1, SolverFields
<1>4. w.cur.leaves \subseteq Leaves
  BY <1>3, NodeTypes
<1>5. o \in Vals /\ (o = Inf \/ o = w.best)
  BY <1>3, ValsIs DEF Inf
<1> HIDE DEF o, u
<1>6. u \in SolverSet /\ Alongside(w, u) /\ u.own = o /\ u.best = w.best /\ u.loc = w.loc /\ u.pc = "report"
  BY <1>2, <1>3, <1>4, <1>5 DEF SolverSet, Alongside
<1>7. Midway(c, q, u, r, s)
  BY <1>1, <1>6, MidwayFields DEF Settled
<1>8. Keeps(c, q, w) => Keeps(c, q, u)
  BY <1>5, <1>6 DEF Keeps, Inf
<1>9. Settled(c, q, u, r, s)
  BY <1>1, <1>6, <1>7, <1>8 DEF Settled, Alongside
<1>10. u = At(u, "report")
  BY <1>6 DEF At, SolverSet
<1> QED
  BY <1>9, <1>10 DEF u

\* A solution that SCIP has found may wait to be sent.
Kept(c, q, v) ==
    /\ v.own < Inf => Arrives(c, q, v.own) \/ v.loc <= v.own
    /\ v.best < Inf => Arrives(c, q, v.best)

\* As Settled, before the saved solution is sent.
Ready(c, q, v, r, s) ==
    /\ Midway(c, q, v, r, s) /\ v.cur # NoNode
    /\ sync => ~v.noticed /\ Kept(c, q, v)

\* Nothing is saved between two steps.
LEMMA SettledReady ==
    ASSUME NEW c, NEW q, NEW v, NEW r, NEW s, Settled(c, q, v, r, s)
    PROVE  Ready(c, q, v, r, s)
BY DEF Settled, Ready, Keeps, Kept

\* saveIfImprovedSolutionWasFound.
LEMMA ImprovedIs ==
    ASSUME NEW v \in SolverSet, NEW x \in Vals
    PROVE  /\ Improved(v, x) \in SolverSet /\ Alongside(v, Improved(v, x)) /\ Improved(v, x).own = v.own
           /\ Improved(v, x).best = v.best /\ Improved(v, x).pc = v.pc /\ Improved(v, x).open = v.open
           /\ Improved(v, x).term = v.term
           /\ x < v.inc /\ v.loc = Inf => Improved(v, x).loc = x
<1>1. v.inc \in Vals /\ v.loc \in Vals /\ Inf \in Vals
  BY SolverFields, ValsIs DEF Inf
<1>2. CASE x >= v.inc
  <2>1. Improved(v, x) = v
    BY <1>2 DEF Improved
  <2>2. ~(x < v.inc)
    BY <1>1, <1>2, ValsIs DEF Inf
  <2> QED
    BY <2>1, <2>2 DEF Alongside
<1>3. CASE ~(x >= v.inc)
  <2> DEFINE y == IF x < v.loc THEN x ELSE Inf
  <2>1. Improved(v, x) = [v EXCEPT !.loc = y]
    BY <1>3 DEF Improved
  <2>2. y \in Vals /\ (x < v.inc /\ v.loc = Inf => y = x)
    BY <1>1, ValsIs DEF Inf
  <2> HIDE DEF y
  <2> QED
    BY <2>1, <2>2 DEF SolverSet, Alongside
<1> QED
  BY <1>2, <1>3

\* A solution is found and saved, or none is.
LEMMA SolutionSaved ==
    ASSUME NEW c, NEW q, NEW v, NEW r, NEW s, Settled(c, q, v, r, s), NEW x \in Vals, x < v.inc,
           NEW u \in SolverSet, Alongside(v, u), u.own = x, u.best = v.best, u.loc = v.loc
    PROVE  Ready(c, q, Improved(u, x), r, s)
<1> DEFINE w == Improved(u, x)
<1>1. /\ w \in SolverSet /\ Alongside(u, w) /\ w.own = x /\ w.best = v.best
      /\ x < u.inc /\ u.loc = Inf => w.loc = x
  BY ImprovedIs
<1> HIDE DEF w
<1>2. Alongside(v, w) /\ u.inc = v.inc
  BY <1>1 DEF Alongside
<1>3. Midway(c, q, w, r, s)
  BY <1>1, <1>2, MidwayFields DEF Settled
<1>4. Keeps(c, q, v) => Kept(c, q, w)
  BY <1>1, <1>2, ValsIs DEF Keeps, Kept, Inf
<1>5. Ready(c, q, w, r, s)
  BY <1>2, <1>3, <1>4 DEF Settled, Ready, Alongside
<1> QED
  BY <1>5 DEF w

\* The message with the saved solution.
LEMMA AnnouncementIs ==
    ASSUME NEW s \in Solvers, NEW v \in SolverSet
    PROVE  /\ Announcement(s, v) \in Seq(ToCoord) /\ \A t : Silent(Announcement(s, v), t)
           /\ \A k \in DOMAIN Announcement(s, v) : Announcement(s, v)[k].src = s
           /\ Announces(v) => \E k \in DOMAIN Announcement(s, v) :
                 Announcement(s, v)[k].tag = "Solution" /\ Announcement(s, v)[k].val = v.loc
<1> DEFINE m == Msg("Solution", s, v.loc)
<1>1. v.loc \in Vals
  BY SolverFields
<1>2. m \in ToCoord /\ m.tag = "Solution" /\ m.src = s /\ m.val = v.loc
  BY <1>1 DEF ToCoord, Msg
<1>3. \A t : m \notin States(t) /\ m \notin Requests(t) /\ m \notin Ends(t)
  BY <1>2 DEF States, Requests, Ends
<1>4. Announcement(s, v) = IF Announces(v) THEN <<m>> ELSE <<>>
  BY DEF Announcement
<1> HIDE DEF m
<1>5. CASE Announces(v)
  <2>1. \A t : Silent(<<m>>, t)
    BY <1>2, <1>3, OneMessage DEF Silent
  <2>2. <<m>> \in Seq(ToCoord) /\ DOMAIN <<m>> = {1} /\ <<m>>[1] = m
    BY <1>2
  <2> QED
    BY <1>2, <1>4, <1>5, <2>1, <2>2
<1>6. CASE ~Announces(v)
  <2>1. \A t : Silent(<<>>, t)
    BY NoMessage DEF Silent
  <2> QED
    BY <1>4, <1>6, <2>1
<1> QED
  BY <1>5, <1>6

\* The solver after sendLocalSolution.
LEMMA AnnouncedIs ==
    ASSUME NEW v \in SolverSet
    PROVE  /\ Announced(v) \in SolverSet /\ Alongside(v, Announced(v)) /\ Announced(v).pc = v.pc
           /\ Announced(v).own = v.own /\ Announced(v).open = v.open /\ Announced(v).term = v.term
           /\ ~v.noticed => Announced(v).loc = Inf /\ Announced(v).best = Lower(v.best, v.loc)
<1>1. v.best \in Vals /\ v.loc \in Vals
  BY SolverFields
<1>2. Lower(v.best, v.loc) \in Vals
  BY <1>1, LowerIs
<1>3. Inf \in Vals
  BY ValsIs DEF Inf
<1>4. CASE v.noticed
  BY <1>4 DEF Announced, Alongside
<1>5. CASE ~v.noticed
  <2>1. Announced(v) = [v EXCEPT !.best = Lower(v.best, v.loc), !.loc = Inf]
    BY <1>5 DEF Announced
  <2> QED
    BY <1>2, <1>3, <2>1 DEF SolverSet, Alongside
<1> QED
  BY <1>4, <1>5

\* A better value that arrives will do.
LEMMA ArrivesMore ==
    ASSUME NEW c, c.inc \in Int, NEW q \in Seq(ToCoord), NEW x \in Int, NEW y \in Int, x <= y, Arrives(c, q, x)
    PROVE  Arrives(c, q, y)
<1>1. CASE c.inc <= x
  BY <1>1 DEF Arrives
<1>2. CASE ~(c.inc <= x)
  <2>1. PICK k \in DOMAIN q : q[k].tag = "Solution" /\ q[k].val <= x
    BY <1>2 DEF Arrives
  <2>2. q[k] \in ToCoord
    OBVIOUS
  <2>3. q[k].val \in Vals
    BY <2>1, <2>2 DEF ToCoord
  <2>4. q[k].val <= y
    BY <2>1, <2>3, ValsIs
  <2> QED
    BY <2>1, <2>4 DEF Arrives
<1> QED
  BY <1>1, <1>2

\* What is saved is sent.
LEMMA AnnouncedOk ==
    ASSUME NEW c \in CoordSet, NEW q \in Seq(ToCoord), NEW v, NEW r, NEW s \in Solvers, Ready(c, q, v, r, s)
    PROVE  Settled(c, q \o Announcement(s, v), Announced(v), r, s)
<1> DEFINE w == Announced(v)
           a == Announcement(s, v)
           z == q \o a
<1>1. v \in SolverSet /\ Midway(c, q, v, r, s) /\ v.cur # NoNode
  BY DEF Ready, Midway
<1>2. /\ w \in SolverSet /\ Alongside(v, w) /\ w.own = v.own
      /\ ~v.noticed => w.loc = Inf /\ w.best = Lower(v.best, v.loc)
  BY <1>1, AnnouncedIs
<1>3. /\ a \in Seq(ToCoord) /\ Silent(a, s)
      /\ Announces(v) => \E k \in DOMAIN a : a[k].tag = "Solution" /\ a[k].val = v.loc
  BY <1>1, AnnouncementIs
<1> HIDE DEF w, a
<1>4. z \in Seq(ToCoord)
  BY <1>3
<1>5. Midway(c, q, w, r, s)
  BY <1>1, <1>2, MidwayFields
<1>6. Midway(c, z, w, r, s)
  BY <1>3, <1>5, TalksGrows DEF Midway
<1>7. v.own \in Int /\ v.best \in Int /\ v.loc \in Int /\ c.inc \in Int
  <2>1. r \in Seq(ToSolver)
    BY <1>1 DEF Midway
  <2> QED
    BY <1>1, <2>1, OkInt
<1>8. ASSUME ~v.noticed, Kept(c, q, v) PROVE Keeps(c, z, w)
  <2>1. w.loc = Inf /\ w.best = Lower(v.best, v.loc)
    BY <1>2, <1>8
  <2>2. \A x : Arrives(c, q, x) => Arrives(c, z, x)
    BY <1>3, ArrivesStill
  <2>3. CASE v.loc < v.best
    <3>1. PICK k \in DOMAIN a : a[k].tag = "Solution" /\ a[k].val = v.loc
      BY <1>3, <1>8, <2>3 DEF Announces
    <3>2. Len(q) + k \in DOMAIN z /\ z[Len(q) + k] = a[k]
      BY <1>3, <3>1
    <3>3. Arrives(c, z, v.loc)
      BY <1>7, <3>1, <3>2 DEF Arrives
    <3>4. w.best = v.loc
      BY <1>7, <2>1, <2>3 DEF Lower
    <3>5. v.own < Inf => Arrives(c, z, v.own)
      <4>2. v.loc <= v.own => Arrives(c, z, v.own)
        BY <1>4, <1>7, <3>3, ArrivesMore
      <4> QED
        BY <1>8, <2>2, <4>2 DEF Kept
    <3> QED
      BY <1>2, <2>1, <3>3, <3>4, <3>5 DEF Keeps
  <2>4. CASE ~(v.loc < v.best)
    <3>1. w.best = v.best
      BY <1>7, <2>1, <2>4 DEF Lower
    <3>2. v.best < Inf => Arrives(c, z, v.best)
      BY <1>8, <2>2 DEF Kept
    <3>3. v.own < Inf => Arrives(c, z, v.own)
      <4>1. v.own \in Int /\ v.best \in Int /\ (v.loc <= v.own => v.best <= v.own)
            /\ (v.best <= v.own /\ v.own < Inf => v.best < Inf)
        BY <1>7, <2>4 DEF Inf
      <4>2. v.own < Inf /\ v.loc <= v.own => Arrives(c, z, v.own)
        BY <1>4, <1>7, <3>2, <4>1, ArrivesMore
      <4> QED
        BY <1>8, <2>2, <4>2 DEF Kept
    <3> QED
      BY <1>2, <2>1, <3>1, <3>2, <3>3 DEF Keeps
  <2> QED
    BY <2>3, <2>4
<1>9. Settled(c, z, w, r, s)
  BY <1>1, <1>2, <1>6, <1>8 DEF Ready, Settled, Alongside
<1> QED
  BY <1>9 DEF w, z, a

\* Messages are appended in any grouping.
LEMMA JoinedThree ==
    ASSUME NEW q \in Seq(ToCoord), NEW p \in Seq(ToCoord), NEW a \in Seq(ToCoord)
    PROVE  q \o (p \o a) = (q \o p) \o a
OBVIOUS

\* The solver's messages when it has sent what it has saved.
LEMMA SteppedAnnounced ==
    ASSUME IInv, NEW s \in Solvers, ~Gone(sv[s]), NEW ms \in Seq(ToCoord), \A k \in DOMAIN ms : ms[k].src = s,
           Order(lc, box[0] \o ms, s), NEW v, NEW r, r \in Seq(ToSolver), Ready(lc, box[0] \o ms, v, r, s)
    PROVE  Stepped(s, Announced(v), r, ms \o Announcement(s, v))
<1> DEFINE a == Announcement(s, v)
           q == box[0] \o ms
<1>1. v \in SolverSet
  BY DEF Ready, Midway
<1>2. a \in Seq(ToCoord) /\ Silent(a, s) /\ \A k \in DOMAIN a : a[k].src = s
  BY <1>1, AnnouncementIs
<1>3. box[0] \in Seq(ToCoord) /\ lc \in CoordSet
  BY SolverParts
<1>4. q \in Seq(ToCoord)
  BY <1>3
<1>5. Settled(lc, q \o a, Announced(v), r, s)
  BY <1>3, <1>4, AnnouncedOk
<1> HIDE DEF a
<1>6. box[0] \o (ms \o a) = q \o a
  BY <1>2, <1>3, JoinedThree
<1>7. ms \o a \in Seq(ToCoord) /\ \A k \in DOMAIN (ms \o a) : (ms \o a)[k].src = s
  BY <1>2
<1>8. Order(lc, q \o a, s)
  BY <1>2, <1>4, OrderGrows
<1> HIDE DEF q
<1>9. Stepped(s, Announced(v), r, ms \o a)
  BY <1>5, <1>6, <1>7, <1>8 DEF Stepped
<1> QED
  BY <1>9 DEF a

\* The end of solve.
LEMMA EndedKeeps ==
    ASSUME IInv, NEW s \in Solvers, ~Gone(sv[s]), NEW v, NEW r, NEW ms, Stepped(s, v, r, ms),
           NEW b, b = [box EXCEPT ![s] = r], Ended(s, v, b, ms)
    PROVE  IInv'
<1> DEFINE w == Improved(v, v.own)
<1>1. /\ r \in Seq(ToSolver) /\ ms \in Seq(ToCoord) /\ \A k \in DOMAIN ms : ms[k].src = s
      /\ Order(lc, box[0] \o ms, s) /\ Settled(lc, box[0] \o ms, v, r, s)
  BY DEF Stepped
<1>2. v \in SolverSet /\ (sync => ~v.noticed)
  BY <1>1 DEF Settled, Midway
<1>3. \/ v.noticed /\ Becomes(s, At(v, "finish"), b, ms)
      \/ v.own < v.inc /\ Becomes(s, At(Announced(w), "complete"), b, ms \o Announcement(s, w))
      \/ Becomes(s, At(v, "complete"), b, ms)
  BY Zenon DEF Ended, At
<1>4. "finish" \in Pcs \ {"idle", "exit", "gone"} /\ "complete" \in Pcs \ {"idle", "exit", "gone"}
      /\ "complete" # "finish"
  BY DEF Pcs
<1> HIDE DEF w
<1>5. ASSUME v.noticed, Becomes(s, At(v, "finish"), b, ms) PROVE IInv'
  BY <1>2, <1>4, <1>5, SteppedKeeps
<1>6. ASSUME v.own < v.inc, Becomes(s, At(Announced(w), "complete"), b, ms \o Announcement(s, w)) PROVE IInv'
  <2>1. v.own \in Vals /\ Alongside(v, v)
    BY <1>2, SolverFields DEF Alongside
  <2>2. Ready(lc, box[0] \o ms, w, r, s)
    BY <1>1, <1>2, <1>6, <2>1, SolutionSaved DEF w
  <2>3. Stepped(s, Announced(w), r, ms \o Announcement(s, w))
    BY <1>1, <2>2, SteppedAnnounced
  <2> QED
    BY <1>4, <1>6, <2>3, SteppedKeeps
<1>7. ASSUME Becomes(s, At(v, "complete"), b, ms) PROVE IInv'
  BY <1>4, <1>7, SteppedKeeps
<1> QED
  BY <1>3, <1>5, <1>6, <1>7

\* The wait before it.
LEMMA FinishKeeps ==
    ASSUME IInv, NEW s \in Solvers, Finish(s)
    PROVE  IInv'
<1> DEFINE k == Answer(s, "NotificationId")
<1>1. /\ sv[s].pc = "finish" /\ \E j \in DOMAIN box[s] : box[s][j].tag = "NotificationId"
      /\ Ended(s, Upto(s, k), Rest(s, k), <<>>)
  BY Zenon DEF Finish, Answered
<1>2. ~Gone(sv[s])
  BY <1>1 DEF Gone
<1>3. box[s] \in Seq(ToSolver)
  BY <1>2, SolverParts
<1>4. k \in 0..Len(box[s]) /\ k # 0 /\ box[s][k].tag = "NotificationId"
  BY <1>1, <1>3, AnswerIs
<1> HIDE DEF k
<1>5. Settled(lc, box[0], Upto(s, k), Suffix(box[s], k), s)
  BY <1>1, <1>2, <1>4, NoticeReceived
<1>6. Rest(s, k) = [box EXCEPT ![s] = Suffix(box[s], k)]
  BY <1>2, <1>4, UptoIs
<1>7. Stepped(s, Upto(s, k), Suffix(box[s], k), <<>>)
  BY <1>2, <1>5, SteppedWith
<1> QED
  BY <1>1, <1>2, <1>6, <1>7, EndedKeeps

\* The handlers leave what is saved.
LEMMA PassiveReady ==
    ASSUME NEW c, NEW q, NEW u, NEW v, NEW r, NEW t, NEW s, Ready(c, q, u, t, s),
           Midway(c, q, v, r, s), Passive(u, v)
    PROVE  Ready(c, q, v, r, s)
BY DEF Ready, Passive, Kept

\* updatePendingSolution in a step.
LEMMA SteppedPending ==
    ASSUME IInv, NEW s \in Solvers, ~Gone(sv[s]), NEW v, NEW r, NEW ms, Stepped(s, v, r, ms)
    PROVE  Stepped(s, Pending(v), r, ms)
<1>1. lc \in CoordSet
  BY SolverParts
<1> QED
  BY <1>1, PendingOk DEF Stepped

\* The callback.
LEMMA CallbackKeeps ==
    ASSUME IInv, NEW s \in Solvers, ~Gone(sv[s]), NEW v, Ready(lc, box[0], v, box[s], s), Callback(s, v)
    PROVE  IInv'
<1> DEFINE r == HasReceived(v, box[s])
           w == Pending(Announced(r))
           a == Announcement(s, r)
<1>1. \/ Ended(s, w, Emptied(s), a)
      \/ Becomes(s, At(w, "report"), Emptied(s), a)
  BY Zenon DEF Callback, HasReceived, At
<1>2. /\ lc \in CoordSet /\ box[0] \in Seq(ToCoord) /\ Order(lc, box[0], s)
  BY SolverParts
<1>3. Midway(lc, box[0], r, <<>>, s) /\ Passive(v, r)
  BY <1>2, AllReceived DEF Ready
<1> HIDE DEF r
<1>4. Ready(lc, box[0], r, <<>>, s)
  BY <1>3, PassiveReady
<1>5. box[0] \o <<>> = box[0] /\ <<>> \in Seq(ToCoord) /\ <<>> \in Seq(ToSolver)
      /\ \A k \in DOMAIN <<>> : <<>>[k].src = s
  BY <1>2, NothingSent
<1>6. Stepped(s, Announced(r), <<>>, <<>> \o a)
  BY <1>2, <1>4, <1>5, SteppedAnnounced
<1>7. <<>> \o a = a
  <2>1. r \in SolverSet
    BY <1>3 DEF Midway
  <2>2. a \in Seq(ToCoord)
    BY <2>1, AnnouncementIs
  <2> QED
    BY <2>2, ConcatEmptySeq
<1>8. Stepped(s, w, <<>>, a)
  BY <1>6, <1>7, SteppedPending
<1>9. Emptied(s) = [box EXCEPT ![s] = <<>>]
  BY DEF Emptied
<1>10. "report" \in Pcs \ {"idle", "exit", "gone"} /\ "report" # "finish"
  BY DEF Pcs
<1> HIDE DEF w, a
<1>11. Ended(s, w, Emptied(s), a) => IInv'
  BY <1>8, <1>9, EndedKeeps
<1>12. Becomes(s, At(w, "report"), Emptied(s), a) => IInv'
  BY <1>8, <1>9, <1>10, SteppedKeeps
<1> QED
  BY <1>1, <1>11, <1>12

\* An event of SCIP.
LEMMA EventKeeps ==
    ASSUME IInv, NEW s \in Solvers, Event(s)
    PROVE  IInv'
<1>1. sv[s].pc \in {"solve", "report", "ask"} /\ Callback(s, sv[s])
  BY DEF Event, SolvingPcs
<1>2. ~Gone(sv[s]) /\ sv[s].pc \notin {"idle", "waitid"}
  BY <1>1 DEF Gone
<1>3. Ready(lc, box[0], sv[s], box[s], s)
  BY <1>2, Working, SettledReady
<1> QED
  BY <1>1, <1>2, <1>3, CallbackKeeps

Found(v, x) == [v EXCEPT !.own = x]

\* A solution is found.
LEMMA FoundIs ==
    ASSUME NEW v \in SolverSet, NEW x \in Vals
    PROVE  /\ Found(v, x) \in SolverSet /\ Alongside(v, Found(v, x)) /\ Found(v, x).own = x
           /\ Found(v, x).best = v.best /\ Found(v, x).loc = v.loc
BY DEF Found, SolverSet, Alongside

Without(v, l) == [v EXCEPT !.open = @ \ l]

\* Leaves are done or given away.
LEMMA FewerLeft ==
    ASSUME NEW v \in SolverSet, NEW l
    PROVE  /\ Without(v, l) \in SolverSet /\ Alongside(v, Without(v, l)) /\ Without(v, l).own = v.own
           /\ Without(v, l).best = v.best /\ Without(v, l).loc = v.loc /\ Without(v, l).pc = v.pc
BY DEF Without, SolverSet, Alongside

\* SCIP evaluates a leaf.
LEMMA ExploreKeeps ==
    ASSUME IInv, NEW s \in Solvers, NEW l \in Leaves, Explore(s, l)
    PROVE  IInv'
<1> DEFINE v == sv[s]
           w == IF Value[l] < Cut(v) THEN Improved(Found(v, Value[l]), Value[l]) ELSE v
<1>1. v.pc \in {"solve", "report", "ask"} /\ Callback(s, Without(w, {l}))
  BY Zenon DEF Explore, SolvingPcs, Found, Without
<1>2. ~Gone(v) /\ v.pc \notin {"idle", "waitid"}
  BY <1>1 DEF Gone
<1>3. Settled(lc, box[0], v, box[s], s)
  BY <1>2, Working
<1>4. v \in SolverSet
  BY <1>3 DEF Settled, Midway
<1>5. v.inc \in Vals /\ v.own \in Vals
  BY <1>4, SolverFields
<1>6. Value[l] \in Vals
  BY ValueAssumption, BoundAssumption, ValsIs DEF Inf
<1>7. Value[l] < Cut(v) => Value[l] < v.inc
  <2>1. Lower(v.inc, v.own) <= v.inc /\ Lower(v.inc, v.own) \in Vals
    BY <1>5, LowerIs
  <2> QED
    BY <1>5, <1>6, <2>1, ValsIs DEF Cut
<1>8. Ready(lc, box[0], w, box[s], s)
  <2>1. CASE Value[l] < Cut(v)
    <3> DEFINE u == Found(v, Value[l])
    <3>1. u \in SolverSet /\ Alongside(v, u) /\ u.own = Value[l] /\ u.best = v.best /\ u.loc = v.loc
      BY <1>4, <1>6, FoundIs
    <3> HIDE DEF u
    <3>2. Ready(lc, box[0], Improved(u, Value[l]), box[s], s)
      BY <1>3, <1>6, <1>7, <2>1, <3>1, SolutionSaved
    <3> QED
      BY <2>1, <3>2 DEF u
  <2>2. CASE ~(Value[l] < Cut(v))
    BY <1>3, <2>2, SettledReady
  <2> QED
    BY <2>1, <2>2
<1> HIDE DEF w, v
<1>9. w \in SolverSet
  BY <1>8 DEF Ready, Midway
<1> DEFINE u == Without(w, {l})
<1>10. u \in SolverSet /\ Alongside(w, u) /\ u.own = w.own /\ u.best = w.best /\ u.loc = w.loc
  BY <1>9, FewerLeft
<1> HIDE DEF u
<1>11. Midway(lc, box[0], u, box[s], s)
  BY <1>8, <1>10, MidwayFields DEF Ready
<1>12. Ready(lc, box[0], u, box[s], s)
  BY <1>8, <1>10, <1>11 DEF Ready, Kept, Alongside
<1>13. Callback(s, u) /\ ~Gone(sv[s])
  BY <1>1, <1>2 DEF u, v
<1> QED
  BY <1>12, <1>13, CallbackKeeps

-----------------------------------------------------------------------------
(* The solver's reports, requests, nodes given away and ends.              *)

\* One message is sent.
LEMMA SilentSent ==
    ASSUME NEW s \in Solvers, NEW m \in ToCoord, m.src = s
    PROVE  /\ <<m>> \in Seq(ToCoord) /\ \A k \in DOMAIN <<m>> : <<m>>[k].src = s
           /\ SilentMsg(m, s) => Silent(<<m>>, s)
<1>1. DOMAIN <<m>> = {1} /\ <<m>>[1] = m /\ <<m>> \in Seq(ToCoord)
  OBVIOUS
<1>2. SilentMsg(m, s) => Silent(<<m>>, s)
  BY OneMessage DEF Silent, SilentMsg
<1> QED
  BY <1>1, <1>2

\* Dual bounds are natural numbers.
LEMMA DualBoundIs ==
    ASSUME NEW v \in SolverSet, NEW ls \in SUBSET Leaves
    PROVE  DualBound(v) \in Nat /\ BoundOf(ls) \in Nat
<1>1. ASSUME NEW ms \in SUBSET Leaves PROVE BoundOf(ms) \in Nat
  <2> DEFINE T == {Bound[l] : l \in ms} \cup {Inf}
  <2>1. T \subseteq Nat /\ T # {}
    BY BoundAssumption DEF Inf
  <2> HIDE DEF T
  <2>2. Least(T) \in T
    BY <2>1, LeastIs
  <2> QED
    BY <2>1, <2>2 DEF BoundOf, T
<1>2. v.open \in SUBSET Leaves /\ v.cur \in MaybeNode
  BY SolverFields
<1>3. v.cur.bound \in Nat
  BY <1>2, NodeTypes
<1> QED
  BY <1>1, <1>2, <1>3 DEF DualBound

\* The request and the end of a node follow the node.
LEMMA OrderSent ==
    ASSUME NEW c \in CoordSet, NEW q \in Seq(ToCoord), NEW v, NEW r, NEW s, Midway(c, q, v, r, s),
           c.cur[s] \in MaybeNode, v.cur # NoNode, Order(c, q, s), NEW m \in ToCoord
    PROVE  Order(c, q \o <<m>>, s)
<1>1. None(q, Ends(s)) /\ c.cur[s] # NoNode
  BY HasNode DEF Midway
<1>2. Len(q) \in Nat /\ DOMAIN q = 1..Len(q) /\ DOMAIN (q \o <<m>>) = 1..(Len(q) + 1)
      /\ \A k \in 1..Len(q) : (q \o <<m>>)[k] = q[k]
  OBVIOUS
<1>3. \A j, k \in 1..(Len(q) + 1) : (q \o <<m>>)[j] \in Ends(s) => k <= j
  BY <1>1, <1>2 DEF None
<1> QED
  BY <1>1, <1>2, <1>3 DEF Order

\* A step to v in which the message m, which is about something else, is sent.
LEMMA SteppedSilently ==
    ASSUME IInv, NEW s \in Solvers, ~Gone(sv[s]), NEW v, NEW r, Settled(lc, box[0], v, r, s),
           NEW m \in ToCoord, m.src = s, SilentMsg(m, s)
    PROVE  Stepped(s, v, r, <<m>>)
<1>1. box[0] \in Seq(ToCoord) /\ Order(lc, box[0], s)
  BY SolverParts
<1>2. <<m>> \in Seq(ToCoord) /\ Silent(<<m>>, s) /\ \A k \in DOMAIN <<m>> : <<m>>[k].src = s
  BY SilentSent
<1>3. r \in Seq(ToSolver)
  BY DEF Settled, Midway
<1> QED
  BY <1>1, <1>2, <1>3, SettledGrows, OrderGrows DEF Stepped

\* sendParaNode.
LEMMA GiveKeeps ==
    ASSUME IInv, NEW s \in Solvers, NEW ls \in SUBSET Leaves, Give(s, ls)
    PROVE  IInv'
<1> DEFINE v == sv[s]
           m == Msg("Node", s, [leaves |-> ls, bound |-> BoundOf(ls)])
           u == Without(v, ls)
<1>1. /\ v.pc \in {"report", "ask"} /\ ls # {}
      /\ Becomes(s, [v EXCEPT !.open = @ \ ls, !.pc = "waitack"], box, <<m>>)
  BY DEF Give
<1>2. ~Gone(v) /\ v.pc \notin {"idle", "waitid"}
  BY <1>1 DEF Gone
<1>3. Settled(lc, box[0], v, box[s], s)
  BY <1>2, Working
<1>4. v \in SolverSet
  BY <1>3 DEF Settled, Midway
<1>5. BoundOf(ls) \in Nat
  BY <1>4, DualBoundIs
<1>6. m \in ToCoord /\ m.src = s /\ m.tag = "Node"
  BY <1>1, <1>5 DEF ToCoord, Msg
<1>7. SilentMsg(m, s)
  BY <1>6, SilentTags
<1>8. u \in SolverSet /\ Alongside(v, u) /\ u.own = v.own /\ u.best = v.best /\ u.loc = v.loc
  BY <1>4, FewerLeft
<1>9. Becomes(s, At(u, "waitack"), box, <<m>>)
  BY <1>1 DEF At, Without
<1> HIDE DEF u, m
<1>10. Settled(lc, box[0], u, box[s], s)
  BY <1>3, <1>8, SettledFields
<1>11. Stepped(s, u, box[s], <<m>>)
  BY <1>2, <1>6, <1>7, <1>10, SteppedSilently
<1>12. box = [box EXCEPT ![s] = box[s]]
  BY DEF IInv, CoordOk, Typed
<1>13. "waitack" \in Pcs \ {"idle", "exit", "gone"} /\ "waitack" # "finish"
  BY DEF Pcs
<1> QED
  BY <1>9, <1>11, <1>12, <1>13, SteppedKeeps

Asked(v) == [v EXCEPT !.asked = TRUE]

\* sendAnotherNodeRequest.
LEMMA AskKeeps ==
    ASSUME IInv, NEW s \in Solvers, Ask(s)
    PROVE  IInv'
<1> DEFINE v == sv[s]
           m == Msg("AnotherNodeRequest", s, DualBound(v))
           u == Asked(v)
           q == box[0]
           r == box[s]
<1>1. /\ v.pc \in {"report", "ask"} /\ ~v.asked
      /\ Becomes(s, [v EXCEPT !.asked = TRUE, !.pc = "solve"], box, <<m>>)
  BY DEF Ask
<1>2. ~Gone(v) /\ v.pc \notin {"idle", "waitid"}
  BY <1>1 DEF Gone
<1>3. Settled(lc, q, v, r, s)
  BY <1>2, Working
<1>4. v \in SolverSet /\ Midway(lc, q, v, r, s) /\ v.cur # NoNode /\ r \in Seq(ToSolver)
  BY <1>3 DEF Settled, Midway
<1>5. DualBound(v) \in Nat
  BY <1>4, DualBoundIs
<1>6. m \in ToCoord /\ m.src = s /\ m.tag = "AnotherNodeRequest"
  BY <1>5 DEF ToCoord, Msg
<1>7. m \in Requests(s) /\ m \notin States(s) /\ m \notin Ends(s)
  BY <1>6 DEF Requests, States, Ends
<1>8. /\ u \in SolverSet /\ u.cur = v.cur /\ u.new = v.new /\ u.asked = TRUE /\ u.noticed = v.noticed
      /\ u.inc = v.inc /\ u.pend = v.pend /\ u.own = v.own /\ u.best = v.best /\ u.loc = v.loc
  BY <1>4 DEF Asked, SolverSet
<1>9. Becomes(s, At(u, "solve"), box, <<m>>)
  BY <1>1 DEF At, Asked
<1>10. /\ lc \in CoordSet /\ lc.cur[s] \in MaybeNode /\ q \in Seq(ToCoord) /\ Order(lc, q, s)
  BY <1>2, SolverParts
<1>11. /\ <<m>> \in Seq(ToCoord) /\ \A k \in DOMAIN <<m>> : <<m>>[k].src = s
  BY <1>6, SilentSent
<1>12. box = [box EXCEPT ![s] = box[s]]
  BY DEF IInv, CoordOk, Typed
<1> HIDE DEF u, m, q
<1>13. /\ Order(lc, q \o <<m>>, s)
  BY <1>4, <1>6, <1>10, OrderSent
<1>14. /\ None(q \o <<m>>, States(s)) <=> None(q, States(s))
       /\ Single(q \o <<m>>, States(s)) <=> Single(q, States(s))
       /\ None(q, Requests(s)) => Single(q \o <<m>>, Requests(s))
       /\ None(q \o <<m>>, Ends(s)) <=> None(q, Ends(s))
  <2>1. \A T : /\ None(q \o <<m>>, T) <=> None(q, T) /\ None(<<m>>, T)
               /\ Single(q \o <<m>>, T) <=> One(q, T, <<m>>, T)
    BY <1>10, <1>11, JoinedQueue
  <2>2. \A T : (None(<<m>>, T) <=> m \notin T) /\ (Single(<<m>>, T) <=> m \in T)
    BY <1>6, OneMessage
  <2> QED
    BY <1>7, <2>1, <2>2, Zenon DEF One
<1>15. Talks(lc.cur[s], q \o <<m>>, u, r, s)
  <2>1. Reports(q, v, r, s) /\ Asks(q, v, r, s) /\ Waits(q, v, r, s) /\ Agrees(lc.cur[s], q, v, r, s)
    BY <1>4 DEF Midway, Talks
  <2>2. Reports(q \o <<m>>, u, r, s)
    BY <1>8, <1>14, <2>1, Zenon DEF Reports, One
  <2>3. None(q, Requests(s)) /\ None(r, Refusals) /\ None(r, NewNodes)
    BY <1>1, <1>4, <2>1 DEF Asks
  <2>4. None(r, Replies)
    BY <2>3 DEF None, Replies
  <2>5. Asks(q \o <<m>>, u, r, s)
    BY <1>8, <1>14, <2>3, <2>4 DEF Asks, One
  <2>6. Waits(q \o <<m>>, u, r, s)
    BY <1>4, <1>8, <1>14, <2>1 DEF Waits
  <2>7. Agrees(lc.cur[s], q \o <<m>>, u, r, s)
    BY <1>8, <1>14, <2>1, Zenon DEF Agrees, Has
  <2> QED
    BY <2>2, <2>5, <2>6, <2>7 DEF Talks
<1>16. Knows(lc, u) /\ Told(lc, r)
  BY <1>4, <1>8 DEF Midway, Knows
<1>17. Keeps(lc, q, v) => Keeps(lc, q \o <<m>>, u)
  <2>1. Keeps(lc, q, v) => Keeps(lc, q, u)
    BY <1>8 DEF Keeps
  <2> QED
    BY <1>10, <1>11, <2>1, KeepsGrows
<1>18. Settled(lc, q \o <<m>>, u, r, s)
  BY <1>3, <1>4, <1>8, <1>15, <1>16, <1>17 DEF Settled, Midway
<1>19. Stepped(s, u, box[s], <<m>>)
  BY <1>4, <1>11, <1>13, <1>18 DEF Stepped, q
<1>20. "solve" \in Pcs \ {"idle", "exit", "gone"} /\ "solve" # "finish"
  BY DEF Pcs
<1> QED
  BY <1>9, <1>12, <1>19, <1>20, SteppedKeeps

Noticed(v) == [v EXCEPT !.noticed = TRUE]

\* sendSolverState.
LEMMA ReportKeeps ==
    ASSUME IInv, NEW s \in Solvers, Report(s)
    PROVE  IInv'
<1> DEFINE v == sv[s]
           m == Msg("SolverState", s, [bound |-> DualBound(v), best |-> v.best])
           y == Noticed(v)
           x == IF sync \/ ~v.rampUp THEN "waitid" ELSE "ask"
           u == At(y, x)
           q == box[0]
           r == box[s]
<1>1. /\ v.pc = "report" /\ ~v.noticed
      /\ Becomes(s, [v EXCEPT !.noticed = TRUE, !.pc = x], box, <<m>>)
  BY Zenon DEF Report
<1>2. ~Gone(v) /\ v.pc \notin {"idle", "waitid"}
  BY <1>1 DEF Gone
<1>3. Settled(lc, q, v, r, s)
  BY <1>2, Working
<1>4. v \in SolverSet /\ Midway(lc, q, v, r, s) /\ v.cur # NoNode /\ r \in Seq(ToSolver)
  BY <1>3 DEF Settled, Midway
<1>5. DualBound(v) \in Nat /\ v.best \in Vals
  BY <1>4, DualBoundIs, SolverFields
<1>6. m \in ToCoord /\ m.src = s /\ m.tag = "SolverState"
  BY <1>5 DEF ToCoord, Msg
<1>7. m \in States(s) /\ m \notin Requests(s) /\ m \notin Ends(s)
  BY <1>6 DEF Requests, States, Ends
<1>8. /\ y \in SolverSet /\ y.cur = v.cur /\ y.new = v.new /\ y.asked = v.asked /\ y.noticed = TRUE
      /\ y.inc = v.inc /\ y.pend = v.pend /\ y.own = v.own /\ y.best = v.best /\ y.loc = v.loc
  BY <1>4 DEF Noticed, SolverSet
<1>9. x \in Pcs /\ (sync => x = "waitid") /\ x \notin {"idle", "exit", "gone", "finish"}
  BY DEF Pcs
<1>10. Becomes(s, u, box, <<m>>)
  <2> HIDE DEF x, m
  <2>1. [v EXCEPT !.noticed = TRUE, !.pc = x] = u
    BY DEF At, Noticed
  <2> QED
    BY <1>1, <2>1, Zenon
<1> HIDE DEF x, y
<1>11. /\ u \in SolverSet /\ u.pc = x /\ Alongside(y, u)
       /\ u.own = y.own /\ u.best = y.best /\ u.loc = y.loc
  BY <1>8, <1>9, AtIs
<1> HIDE DEF u
<1>12. /\ u.cur = v.cur /\ u.new = v.new /\ u.asked = v.asked /\ u.noticed = TRUE
       /\ u.inc = v.inc /\ u.pend = v.pend /\ u.own = v.own /\ u.best = v.best /\ u.loc = v.loc
  BY <1>8, <1>11 DEF Alongside
<1>13. /\ lc \in CoordSet /\ lc.cur[s] \in MaybeNode /\ q \in Seq(ToCoord) /\ Order(lc, q, s)
  BY <1>2, SolverParts
<1>14. /\ <<m>> \in Seq(ToCoord) /\ \A k \in DOMAIN <<m>> : <<m>>[k].src = s
  BY <1>6, SilentSent
<1>15. box = [box EXCEPT ![s] = r]
  BY DEF IInv, CoordOk, Typed
<1> HIDE DEF m, q
<1>16. Order(lc, q \o <<m>>, s)
  BY <1>4, <1>6, <1>13, OrderSent
<1>17. /\ None(q, States(s)) => Single(q \o <<m>>, States(s))
       /\ None(q \o <<m>>, Requests(s)) <=> None(q, Requests(s))
       /\ Single(q \o <<m>>, Requests(s)) <=> Single(q, Requests(s))
       /\ None(q \o <<m>>, Ends(s)) <=> None(q, Ends(s))
  <2>1. \A T : /\ None(q \o <<m>>, T) <=> None(q, T) /\ None(<<m>>, T)
               /\ Single(q \o <<m>>, T) <=> One(q, T, <<m>>, T)
    BY <1>13, <1>14, JoinedQueue
  <2>2. \A T : (None(<<m>>, T) <=> m \notin T) /\ (Single(<<m>>, T) <=> m \in T)
    BY <1>6, OneMessage
  <2> QED
    BY <1>7, <2>1, <2>2, Zenon DEF One
<1>18. Talks(lc.cur[s], q \o <<m>>, u, r, s)
  <2>1. Reports(q, v, r, s) /\ Asks(q, v, r, s) /\ Waits(q, v, r, s) /\ Agrees(lc.cur[s], q, v, r, s)
    BY <1>4 DEF Midway, Talks
  <2>2. Reports(q \o <<m>>, u, r, s)
    BY <1>1, <1>12, <1>17, <2>1 DEF Reports, One
  <2>3. Asks(q \o <<m>>, u, r, s)
    BY <1>12, <1>17, <2>1, Zenon DEF Asks, One
  <2>4. Waits(q \o <<m>>, u, r, s)
    BY <1>12, <1>17, <2>1, Zenon DEF Waits
  <2>5. Agrees(lc.cur[s], q \o <<m>>, u, r, s)
    BY <1>12, <1>17, <2>1, Zenon DEF Agrees, Has
  <2> QED
    BY <2>2, <2>3, <2>4, <2>5 DEF Talks
<1>19. Knows(lc, u) /\ Told(lc, r)
  BY <1>4, <1>12 DEF Midway, Knows
<1>20. Keeps(lc, q, v) => Keeps(lc, q \o <<m>>, u)
  <2>1. Keeps(lc, q, v) => Keeps(lc, q, u)
    BY <1>12 DEF Keeps
  <2> QED
    BY <1>13, <1>14, <2>1, KeepsGrows
<1>21. SolverOk(lc, q \o <<m>>, u, r, s)
  BY <1>3, <1>4, <1>9, <1>11, <1>12, <1>18, <1>19, <1>20 DEF SolverOk, PcOk, Paced, Settled
<1> QED
  BY <1>4, <1>10, <1>11, <1>14, <1>15, <1>16, <1>21, BecomesOk DEF q

\* A solver that gets a node starts with it.
LEMMA SteppedStarted ==
    ASSUME IInv, NEW s \in Solvers, ~Gone(sv[s]), NEW v, NEW r, NEW ms, Stepped(s, v, r, ms), NEW x,
           NEW b, b = [box EXCEPT ![s] = r], Becomes(s, Started(v, x), b, ms)
    PROVE  IInv'
<1>1. lc \in CoordSet
  BY SolverParts
<1>2. Settled(lc, box[0] \o ms, Started(v, x), r, s) /\ Started(v, x) = At(Started(v, x), "report")
  BY <1>1, StartedOk DEF Stepped
<1> DEFINE u == Started(v, x)
<1> HIDE DEF u
<1>3. Stepped(s, u, r, ms)
  BY <1>2 DEF Stepped, u
<1>4. "report" \in Pcs \ {"idle", "exit", "gone"} /\ "report" # "finish"
  BY DEF Pcs
<1>5. Becomes(s, At(u, "report"), b, ms)
  BY <1>2, Zenon DEF u
<1> QED
  BY <1>3, <1>4, <1>5, SteppedKeeps

\* A solver that ends, and what it has sent before.
LEMMA GoneKeeps ==
    ASSUME IInv, NEW s \in Solvers, NEW v \in SolverSet, Gone(v), NEW r \in Seq(ToSolver), Told(lc, r),
           NEW ms \in Seq(ToCoord), \A k \in DOMAIN ms : ms[k].src = s, Order(lc, box[0] \o ms, s),
           NEW b, b = [box EXCEPT ![s] = r], Becomes(s, v, b, ms)
    PROVE  IInv'
<1>1. SolverOk(lc, box[0] \o ms, v, r, s)
  BY DEF SolverOk
<1> QED
  BY <1>1, BecomesOk

\* receiveNewNodeAndReactivate.
LEMMA IdleKeeps ==
    ASSUME IInv, NEW s \in Solvers, Idle(s)
    PROVE  IInv'
<1>1. sv[s].pc = "idle" /\ ~Gone(sv[s])
  BY DEF Idle, Gone
<1>2. PICK k \in DOMAIN box[s], x \in BOOLEAN :
        Becomes(s, IF Upto(s, k).cur # NoNode THEN Started(Upto(s, k), x) ELSE At(Upto(s, k), "exit"),
                Rest(s, k), <<>>)
  BY Zenon DEF Idle, At
<1>3. box[s] \in Seq(ToSolver) /\ box[0] \in Seq(ToCoord) /\ Order(lc, box[0], s)
      /\ (sync => Paced(sv[s]) /\ Keeps(lc, box[0], sv[s]))
  BY <1>1, SolverParts
<1>4. k \in 0..Len(box[s])
  BY <1>3
<1> DEFINE v == Upto(s, k)
           r == Suffix(box[s], k)
<1>5. /\ Midway(lc, box[0], v, r, s) /\ Passive(sv[s], v)
      /\ Rest(s, k) = [box EXCEPT ![s] = r] /\ r \in Seq(ToSolver)
  BY <1>1, <1>4, UptoIs
<1>6. Becomes(s, IF v.cur # NoNode THEN Started(v, x) ELSE At(v, "exit"), Rest(s, k), <<>>)
  BY <1>2
<1> HIDE DEF v, r
<1>7. CASE v.cur # NoNode
  <2>1. sync => ~sv[s].noticed
    BY <1>1, <1>3 DEF Paced
  <2>2. Settled(lc, box[0], v, r, s)
    BY <1>3, <1>5, <1>7, <2>1 DEF Settled, Passive, Keeps
  <2>3. Stepped(s, v, r, <<>>)
    BY <1>1, <2>2, SteppedWith
  <2>4. Becomes(s, Started(v, x), Rest(s, k), <<>>)
    BY <1>6, <1>7
  <2> QED
    BY <1>1, <1>5, <2>3, <2>4, SteppedStarted
<1>8. CASE v.cur = NoNode
  <2>1. Becomes(s, At(v, "exit"), Rest(s, k), <<>>)
    BY <1>6, <1>8
  <2>2. v \in SolverSet /\ Told(lc, r)
    BY <1>5 DEF Midway
  <2>3. At(v, "exit") \in SolverSet /\ Gone(At(v, "exit"))
    BY <2>2, AtIs DEF Pcs, Gone
  <2>4. box[0] \o <<>> = box[0] /\ <<>> \in Seq(ToCoord) /\ \A i \in DOMAIN <<>> : <<>>[i].src = s
    BY <1>3, NothingSent
  <2> QED
    BY <1>3, <1>5, <2>1, <2>2, <2>3, <2>4, GoneKeeps
<1> QED
  BY <1>7, <1>8

\* A solver at its begin.
LEMMA NewSolverIs ==
    /\ NewSolver \in SolverSet /\ NewSolver.pc = "idle" /\ NewSolver.cur = NoNode /\ NewSolver.new = NoNode
    /\ NewSolver.asked = FALSE /\ NewSolver.noticed = FALSE
    /\ NewSolver.own = Inf /\ NewSolver.inc = Inf /\ NewSolver.best = Inf /\ NewSolver.loc = Inf
    /\ NewSolver.pend = Inf
<1>1. NoNode \in MaybeNode /\ Inf \in Vals
  BY ValsIs DEF MaybeNode, Inf
<1> QED
  BY <1>1 DEF NewSolver, SolverSet

\* ~ParaSolver.
LEMMA ExitKeeps ==
    ASSUME IInv, NEW s \in Solvers, Exit(s)
    PROVE  IInv'
<1> DEFINE u == At(NewSolver, "gone")
           m == Msg("Terminated", s, IF Drained(s).term = "interrupted" THEN 1 ELSE 0)
<1>1. Becomes(s, u, Emptied(s), <<m>>)
  BY DEF Exit, At
<1>2. u \in SolverSet /\ Gone(u)
  BY NewSolverIs, AtIs DEF Pcs, Gone
<1>3. m \in ToCoord /\ m.src = s /\ m.tag = "Terminated"
  BY DEF ToCoord, Msg
<1>4. SilentMsg(m, s)
  BY <1>3, SilentTags
<1>5. <<m>> \in Seq(ToCoord) /\ Silent(<<m>>, s) /\ \A k \in DOMAIN <<m>> : <<m>>[k].src = s
  BY <1>3, <1>4, SilentSent
<1>6. box[0] \in Seq(ToCoord) /\ Order(lc, box[0], s)
  BY CoordParts DEF IInv
<1> HIDE DEF m, u
<1>7. Order(lc, box[0] \o <<m>>, s)
  BY <1>5, <1>6, OrderGrows
<1>8. Told(lc, <<>>) /\ <<>> \in Seq(ToSolver)
  BY DEF Told
<1>9. Emptied(s) = [box EXCEPT ![s] = <<>>]
  BY DEF Emptied
<1> QED
  BY <1>1, <1>2, <1>5, <1>7, <1>8, <1>9, GoneKeeps

\* The solver when the completion of its node is sent.
Ending(v) == [v EXCEPT !.cur = v.new, !.new = NoNode, !.open = {}, !.own = Inf]

\* Its fields.
LEMMA EndingIs ==
    ASSUME NEW v \in SolverSet
    PROVE  LET w == Ending(v) IN
           /\ w \in SolverSet /\ w.cur = v.new /\ w.new = NoNode /\ w.own = Inf /\ w.pc = v.pc
           /\ w.asked = v.asked /\ w.noticed = v.noticed /\ w.inc = v.inc /\ w.pend = v.pend
           /\ w.best = v.best /\ w.loc = v.loc /\ w.term = v.term
<1>1. v.new \in MaybeNode /\ NoNode \in MaybeNode /\ Inf \in Vals
  BY SolverFields, ValsIs DEF MaybeNode, Inf
<1> QED
  BY <1>1 DEF Ending, SolverSet

\* It knows the same values,
LEMMA EndingKnows ==
    ASSUME NEW c, NEW v \in SolverSet, Knows(c, v)
    PROVE  Knows(c, Ending(v))
<1>1. Ending(v).inc = v.inc /\ Ending(v).pend = v.pend
  BY EndingIs
<1> QED
  BY <1>1 DEF Knows

\* and keeps its solutions.
LEMMA EndingKeeps ==
    ASSUME NEW c, NEW q, NEW v \in SolverSet, Keeps(c, q, v)
    PROVE  Keeps(c, q, Ending(v))
<1>1. Ending(v).own = Inf /\ Ending(v).best = v.best /\ Ending(v).loc = v.loc
  BY EndingIs
<1> QED
  BY <1>1 DEF Keeps, Inf

EndMsg(s, state) == Msg("Completion", s, state)

\* The completion that is sent.
LEMMA EndMsgIs ==
    ASSUME NEW s \in Solvers, NEW state \in {"normal", "another", "interrupt"}
    PROVE  /\ EndMsg(s, state) \in ToCoord /\ EndMsg(s, state).src = s
           /\ state = "another" => SilentMsg(EndMsg(s, state), s)
           /\ state # "another" => EndMsg(s, state) \in Ends(s)
           /\ EndMsg(s, state) \notin States(s) /\ EndMsg(s, state) \notin Requests(s)
BY DEF EndMsg, Msg, ToCoord, SilentMsg, States, Requests, Ends

\* Without a new node the solver waits for one.
LEMMA WaitingTalks ==
    ASSUME NEW n, NEW q \in Seq(ToCoord), NEW v \in SolverSet, NEW r, NEW s, Talks(n, q, v, r, s),
           v.cur # NoNode, v.new = NoNode, ~v.asked, NEW m \in ToCoord,
           m \in Ends(s), m \notin States(s), m \notin Requests(s)
    PROVE  Talks(n, q \o <<m>>, Ending(v), r, s)
<1> DEFINE w == Ending(v)
           p == q \o <<m>>
<1>1. w.cur = NoNode /\ w.new = NoNode /\ ~w.asked /\ w.noticed = v.noticed
  BY EndingIs
<1>2. /\ None(p, States(s)) <=> None(q, States(s))
      /\ Single(p, States(s)) <=> Single(q, States(s))
      /\ None(p, Requests(s)) <=> None(q, Requests(s))
      /\ ~None(p, Ends(s))
  <2>1. <<m>> \in Seq(ToCoord)
    OBVIOUS
  <2>2. \A T : /\ None(p, T) <=> None(q, T) /\ None(<<m>>, T)
               /\ Single(p, T) <=> One(q, T, <<m>>, T)
    BY <2>1, JoinedQueue
  <2>3. \A T : (None(<<m>>, T) <=> m \notin T) /\ (Single(<<m>>, T) <=> m \in T)
    BY OneMessage
  <2> HIDE DEF p
  <2> QED
    BY <2>2, <2>3, Zenon DEF One
<1> HIDE DEF w, p
<1>3. Reports(q, v, r, s) /\ Asks(q, v, r, s)
  BY DEF Talks
<1>4. None(q, Requests(s)) /\ None(r, Refusals) /\ None(r, NewNodes)
  BY <1>3 DEF Asks
<1>5. Reports(p, w, r, s)
  BY <1>1, <1>2, <1>3, Zenon DEF Reports, One
<1>6. Asks(p, w, r, s)
  BY <1>1, <1>2, <1>4 DEF Asks
<1>7. Waits(p, w, r, s)
  BY <1>1, <1>4 DEF Waits
<1>8. Agrees(n, p, w, r, s)
  BY <1>2 DEF Agrees
<1>9. Talks(n, p, w, r, s)
  BY <1>5, <1>6, <1>7, <1>8 DEF Talks
<1> QED
  BY <1>9 DEF w, p

\* With one it goes on.
LEMMA GoingOnTalks ==
    ASSUME NEW n, NEW q, NEW v \in SolverSet, NEW r, NEW s, Talks(n, q, v, r, s),
           v.cur # NoNode, v.new # NoNode
    PROVE  Talks(n, q, Ending(v), r, s)
<1> DEFINE w == Ending(v)
<1>1. w.cur = v.new /\ w.new = NoNode /\ w.asked = v.asked /\ w.noticed = v.noticed
  BY EndingIs
<1> HIDE DEF w
<1>2. Reports(q, v, r, s) /\ Asks(q, v, r, s) /\ Waits(q, v, r, s) /\ Agrees(n, q, v, r, s)
  BY DEF Talks
<1>3. Has(w) = Has(v)
  BY <1>1 DEF Has
<1>4. Reports(q, w, r, s)
  BY <1>1, <1>2, Zenon DEF Reports
<1>5. Asks(q, w, r, s)
  BY <1>1, <1>2, Zenon DEF Asks
<1>6. Waits(q, w, r, s)
  BY <1>1, <1>2, Zenon DEF Waits
<1>7. Agrees(n, q, w, r, s)
  BY <1>2, <1>3 DEF Agrees
<1>8. Talks(n, q, w, r, s)
  BY <1>4, <1>5, <1>6, <1>7 DEF Talks
<1> QED
  BY <1>8 DEF w

\* What the solver tells of the end of its node, as no answer is left to come.
MayEnd(v, state) ==
    /\ state \in {"normal", "another", "interrupt"}
    /\ v.term = "no" => (state = "another" <=> v.new # NoNode)
    /\ v.term = "no" /\ v.new = NoNode => ~v.asked

\* sendCompletionOfCalculation, and what follows.
LEMMA CompletedByKeeps ==
    ASSUME IInv, NEW s \in Solvers, ~Gone(sv[s]), NEW v, NEW r, Settled(lc, box[0], v, r, s),
           NEW state, MayEnd(v, state), NEW b, b = [box EXCEPT ![s] = r], CompletedBy(s, v, b, state)
    PROVE  IInv'
<1> DEFINE w == Ending(v)
           m == EndMsg(s, state)
           q == box[0]
<1>1. /\ v.term # "no" => Becomes(s, At(w, "exit"), b, <<m>>)
      /\ v.term = "no" /\ v.new = NoNode => Becomes(s, At(w, "idle"), b, <<m>>)
      /\ v.term = "no" /\ v.new # NoNode => \E x \in BOOLEAN : Becomes(s, Started(w, x), b, <<m>>)
  BY Zenon DEF CompletedBy, At, Ending, EndMsg
<1>2. /\ v \in SolverSet /\ Midway(lc, q, v, r, s) /\ v.cur # NoNode /\ Told(lc, r) /\ Knows(lc, v)
      /\ Talks(lc.cur[s], q, v, r, s) /\ r \in Seq(ToSolver)
  BY DEF Settled, Midway
<1>3. /\ w \in SolverSet /\ w.cur = v.new /\ w.noticed = v.noticed /\ w.new = NoNode
  BY <1>2, EndingIs
<1>4. /\ m \in ToCoord /\ m.src = s
      /\ state = "another" => SilentMsg(m, s)
      /\ state # "another" => m \in Ends(s)
      /\ m \notin States(s) /\ m \notin Requests(s)
  BY EndMsgIs DEF MayEnd
<1>5. <<m>> \in Seq(ToCoord) /\ \A k \in DOMAIN <<m>> : <<m>>[k].src = s
  BY <1>4, SilentSent
<1>6. /\ lc \in CoordSet /\ lc.cur[s] \in MaybeNode /\ q \in Seq(ToCoord) /\ Order(lc, q, s)
  BY SolverParts
<1>7. Knows(lc, w) /\ (Keeps(lc, q, v) => Keeps(lc, q, w))
  BY <1>2, EndingKnows, EndingKeeps
<1> HIDE DEF m
<1>8. Order(lc, q \o <<m>>, s)
  BY <1>2, <1>4, <1>6, OrderSent
<1>9. ASSUME v.term # "no" PROVE IInv'
  <2>1. At(w, "exit") \in SolverSet /\ Gone(At(w, "exit"))
    BY <1>3, AtIs DEF Pcs, Gone
  <2> HIDE DEF w
  <2> QED
    BY <1>1, <1>2, <1>5, <1>8, <1>9, <2>1, GoneKeeps
<1>10. ASSUME v.term = "no", v.new = NoNode PROVE IInv'
  <2>1. Becomes(s, At(w, "idle"), b, <<m>>) /\ m \in Ends(s) /\ ~v.asked
    BY <1>1, <1>4, <1>10 DEF MayEnd
  <2>2. Talks(lc.cur[s], q \o <<m>>, w, r, s)
    BY <1>2, <1>4, <1>6, <1>10, <2>1, WaitingTalks
  <2> DEFINE u == At(w, "idle")
  <2>3. /\ u \in SolverSet /\ u.pc = "idle" /\ Alongside(w, u)
        /\ u.own = w.own /\ u.best = w.best /\ u.loc = w.loc
    BY <1>3, AtIs DEF Pcs
  <2> HIDE DEF w, u
  <2>4. u.cur = w.cur /\ u.new = w.new /\ u.asked = w.asked /\ u.noticed = w.noticed
        /\ u.inc = w.inc /\ u.pend = w.pend
    BY <2>3 DEF Alongside
  <2>5. Talks(lc.cur[s], q \o <<m>>, u, r, s)
    BY <2>2, <2>4, TalksFields
  <2>6. Knows(lc, u)
    BY <1>7, <2>4 DEF Knows
  <2>7. Keeps(lc, q, v) => Keeps(lc, q \o <<m>>, u)
    <3>1. Keeps(lc, q, w) => Keeps(lc, q, u)
      BY <2>3 DEF Keeps
    <3> QED
      BY <1>5, <1>6, <1>7, <3>1, KeepsGrows
  <2>8. PcOk(u)
    BY <1>3, <1>10, <2>3, <2>4 DEF PcOk
  <2>9. sync => Paced(u) /\ Keeps(lc, q \o <<m>>, u)
    BY <1>3, <2>3, <2>4, <2>7 DEF Settled, Paced
  <2>10. SolverOk(lc, q \o <<m>>, u, r, s)
    BY <1>2, <2>5, <2>6, <2>8, <2>9 DEF SolverOk
  <2> QED
    BY <1>2, <1>5, <1>8, <2>1, <2>3, <2>10, BecomesOk DEF u
<1>11. ASSUME v.term = "no", v.new # NoNode PROVE IInv'
  <2>1. PICK x \in BOOLEAN : Becomes(s, Started(w, x), b, <<m>>)
    BY <1>1, <1>11
  <2>2. Talks(lc.cur[s], q, w, r, s)
    BY <1>2, <1>11, GoingOnTalks
  <2> HIDE DEF w
  <2>3. Settled(lc, q, w, r, s)
    BY <1>2, <1>3, <1>7, <1>11, <2>2 DEF Settled, Midway
  <2>4. SilentMsg(m, s)
    BY <1>4, <1>11 DEF MayEnd
  <2>5. Stepped(s, w, r, <<m>>)
    BY <1>4, <2>3, <2>4, SteppedSilently
  <2> QED
    BY <2>1, <2>5, SteppedStarted
<1> QED
  BY <1>9, <1>10, <1>11

\* Its receive of all messages before.
LEMMA CompleteKeeps ==
    ASSUME IInv, NEW s \in Solvers, Complete(s)
    PROVE  IInv'
<1> DEFINE v == Drained(s)
           state == IF v.term = "interrupted" THEN "interrupt"
                    ELSE IF v.new # NoNode THEN "another" ELSE "normal"
<1>1. /\ sv[s].pc = "complete"
      /\ IF v.term # "interrupted" /\ v.new = NoNode /\ v.asked
         THEN Becomes(s, At(v, "await"), Emptied(s), <<>>)
         ELSE CompletedBy(s, v, Emptied(s), state)
  BY Zenon DEF Complete, At
<1>2. ~Gone(sv[s])
  BY <1>1 DEF Gone
<1>3. Settled(lc, box[0], sv[s], box[s], s)
  BY <1>1, <1>2, Working
<1>4. /\ Midway(lc, box[0], v, <<>>, s) /\ Passive(sv[s], v)
      /\ Emptied(s) = [box EXCEPT ![s] = <<>>]
  BY <1>2, DrainedIs
<1>5. state \in {"normal", "another", "interrupt"}
      /\ (v.term = "no" => (state = "another" <=> v.new # NoNode))
  OBVIOUS
<1> HIDE DEF v, state
<1>6. Settled(lc, box[0], v, <<>>, s)
  BY <1>3, <1>4, PassiveSettled DEF Settled, Passive
<1>7. CASE v.term # "interrupted" /\ v.new = NoNode /\ v.asked
  <2>1. Stepped(s, v, <<>>, <<>>)
    BY <1>2, <1>6, SteppedWith
  <2>2. "await" \in Pcs \ {"idle", "exit", "gone"} /\ "await" # "finish"
    BY DEF Pcs
  <2> QED
    BY <1>1, <1>4, <1>7, <2>1, <2>2, SteppedKeeps
<1>8. CASE ~(v.term # "interrupted" /\ v.new = NoNode /\ v.asked)
  <2>1. MayEnd(v, state)
    BY <1>5, <1>8 DEF MayEnd
  <2>2. CompletedBy(s, v, Emptied(s), state)
    BY <1>1, <1>8
  <2> QED
    BY <1>2, <1>4, <1>6, <2>1, <2>2, CompletedByKeeps
<1> QED
  BY <1>7, <1>8

\* Its loop that waits for the answer to the request.
LEMMA AwaitKeeps ==
    ASSUME IInv, NEW s \in Solvers, Await(s)
    PROVE  IInv'
<1>1. sv[s].pc = "await" /\ ~Gone(sv[s])
  BY DEF Await, Gone
<1>2. PICK k \in DOMAIN box[s] :
        /\ Upto(s, k).new # NoNode \/ ~Upto(s, k).asked
        /\ CompletedBy(s, Upto(s, k), Rest(s, k), IF Upto(s, k).new # NoNode THEN "another" ELSE "normal")
  BY Zenon DEF Await
<1>3. box[s] \in Seq(ToSolver) /\ Settled(lc, box[0], sv[s], box[s], s)
  BY <1>1, SolverParts, Working
<1>4. k \in 0..Len(box[s])
  BY <1>3
<1> DEFINE v == Upto(s, k)
           r == Suffix(box[s], k)
           state == IF v.new # NoNode THEN "another" ELSE "normal"
<1>5. /\ Midway(lc, box[0], v, r, s) /\ Passive(sv[s], v) /\ Rest(s, k) = [box EXCEPT ![s] = r]
  BY <1>1, <1>4, UptoIs
<1>6. state \in {"normal", "another", "interrupt"} /\ (state = "another" <=> v.new # NoNode)
  OBVIOUS
<1>7. (v.new # NoNode \/ ~v.asked) /\ CompletedBy(s, v, Rest(s, k), state)
  BY <1>2
<1> HIDE DEF v, r, state
<1>8. Settled(lc, box[0], v, r, s)
  BY <1>3, <1>5, PassiveSettled DEF Settled, Passive
<1>9. MayEnd(v, state)
  BY <1>6, <1>7 DEF MayEnd
<1> QED
  BY <1>1, <1>5, <1>7, <1>8, <1>9, CompletedByKeeps

-----------------------------------------------------------------------------
(* The invariant, and what follows from it.                                *)

\* The invariant holds at the begin, when the root node has been sent.
LEMMA InitOk ==
    ASSUME Init
    PROVE  IInv
<1> DEFINE c == [pc |-> "run", pool |-> <<>>, cur |-> [s \in Solvers |-> NoNode],
                 sbound |-> [s \in Solvers |-> 0], inc |-> Inf,
                 phase |-> "rampUp", intr |-> FALSE, nterm |-> 0, hard |-> FALSE, cmp |-> FALSE]
           b == [r \in 0..N |-> <<>>]
           st == Activated([lc |-> c, box |-> b], 1, Root)
<1>1. sv = [s \in Solvers |-> NewSolver] /\ sync \in SyncModes /\ lc = st.lc /\ box = st.box
  BY DEF Init
<1>2. SvTyped /\ \A s \in Solvers : sv[s] = NewSolver
  <2>1. sv \in [Solvers -> SolverSet] /\ \A s \in Solvers : sv[s] = NewSolver
    BY <1>1, NewSolverIs
  <2>2. sync \in BOOLEAN
    BY <1>1, SyncAssumption
  <2> QED
    BY <2>1, <2>2 DEF SvTyped
<1>3. c \in CoordSet /\ c.inc = Inf /\ \A s \in Solvers : c.cur[s] = NoNode
  <2>1. NoNode \in MaybeNode /\ Inf \in Vals
    BY ValsIs DEF MaybeNode, Inf
  <2> QED
    BY <2>1 DEF CoordSet
<1>4. Table(b) /\ b[0] = <<>> /\ \A s \in Solvers : b[s] = <<>>
  BY NAssumption DEF Table, Solvers
<1>5. Root \in NodeSet
  BY ValueAssumption DEF Root, Node, NodeSet
<1> HIDE DEF c, b
<1>6. ASSUME NEW s \in Solvers PROVE Order(c, <<>>, s) /\ SolverOk(c, <<>>, NewSolver, <<>>, s)
  <2> DEFINE v == NewSolver
  <2>1. Order(c, <<>>, s) /\ Told(c, <<>>)
    BY DEF Order, Told
  <2>2. /\ v.pc = "idle" /\ v.cur = NoNode /\ v.new = NoNode /\ v.asked = FALSE /\ v.noticed = FALSE
        /\ v.own = Inf /\ v.inc = Inf /\ v.best = Inf /\ v.loc = Inf /\ v.pend = Inf
    BY NewSolverIs
  <2> HIDE DEF v
  <2>3. \A T : None(<<>>, T)
    BY NoMessage
  <2>4. Reports(<<>>, v, <<>>, s) /\ Asks(<<>>, v, <<>>, s) /\ Waits(<<>>, v, <<>>, s)
    BY <2>2, <2>3 DEF Reports, Asks, Waits
  <2>5. Agrees(c.cur[s], <<>>, v, <<>>, s)
    BY <1>3, <2>2 DEF Agrees, Has, Same
  <2>6. Knows(c, v) /\ PcOk(v) /\ Paced(v) /\ Keeps(c, <<>>, v)
    BY <2>2 DEF Knows, PcOk, Paced, Keeps, Inf
  <2>7. SolverOk(c, <<>>, v, <<>>, s)
    BY <2>1, <2>4, <2>5, <2>6 DEF SolverOk, Talks
  <2> QED
    BY <2>1, <2>7 DEF v
<1>7. CoordOk(c, b)
  <2>1. b[0] \in Seq(ToCoord) /\ \A s \in Solvers : b[s] \in Seq(ToSolver)
    <3>1. <<>> \in Seq(ToCoord) /\ <<>> \in Seq(ToSolver)
      OBVIOUS
    <3> QED
      BY <1>4, <3>1, Zenon
  <2>2. \A s \in Solvers : /\ b[s] \in Seq(ToSolver)
                           /\ Order(c, b[0], s) /\ SolverOk(c, b[0], sv[s], b[s], s)
    BY <1>2, <1>4, <1>6, <2>1
  <2> QED
    BY <1>3, <1>4, <2>1, <2>2, Composed
<1>8. 1 \in Solvers
  BY SolversFinite
<1>9. Ok(st)
  BY <1>2, <1>3, <1>5, <1>7, <1>8, ActivatedOk
<1> HIDE DEF st
<1>10. CoordOk(lc, box)
  BY <1>1, <1>9 DEF Ok
<1> QED
  BY <1>2, <1>10 DEF IInv

\* Every step of a solver keeps it.
LEMMA SolveKeeps ==
    ASSUME IInv, NEW s \in Solvers, Solve(s)
    PROVE  IInv'
<1>1. CASE Idle(s)
  BY <1>1, IdleKeeps
<1>2. CASE Event(s)
  BY <1>2, EventKeeps
<1>3. CASE WaitNotificationId(s)
  BY <1>3, WaitNotificationIdKeeps
<1>4. CASE WaitNodeReceived(s)
  BY <1>4, WaitNodeReceivedKeeps
<1>5. CASE Finish(s)
  BY <1>5, FinishKeeps
<1>6. CASE Complete(s)
  BY <1>6, CompleteKeeps
<1>7. CASE Await(s)
  BY <1>7, AwaitKeeps
<1>8. CASE Exit(s)
  BY <1>8, ExitKeeps
<1>9. ASSUME NEW l \in Leaves, Explore(s, l) PROVE IInv'
  BY <1>9, ExploreKeeps
<1>10. CASE Report(s)
  BY <1>10, ReportKeeps
<1>11. CASE Ask(s)
  BY <1>11, AskKeeps
<1>12. ASSUME NEW ls \in SUBSET Leaves, Give(s, ls) PROVE IInv'
  BY <1>12, GiveKeeps
<1> QED
  BY <1>1, <1>2, <1>3, <1>4, <1>5, <1>6, <1>7, <1>8, <1>9, <1>10, <1>11, <1>12 DEF Solve

\* Every step keeps it.
LEMMA NextKeeps ==
    ASSUME IInv, [Next]_vars
    PROVE  IInv'
<1>1. CASE Handle
  BY <1>1, HandleKeeps
<1>2. CASE Close
  BY <1>2, CloseKeeps
<1>3. ASSUME NEW past \in BOOLEAN, NEW past2 \in BOOLEAN, NEW ramp \in BOOLEAN, Check(past, past2, ramp)
      PROVE  IInv'
  BY <1>3, CheckKeeps
<1>4. ASSUME NEW s \in Solvers, Solve(s) PROVE IInv'
  BY <1>4, SolveKeeps
<1>5. CASE UNCHANGED vars
  <2>1. UNCHANGED <<sv, sync>> /\ lc' = lc /\ box' = box
    BY <1>5 DEF vars
  <2>2. CoordOk(lc', box')
    BY <2>1 DEF IInv, CoordOk, SolverOk
  <2> QED
    BY <2>1, <2>2, CoordStep
<1> QED
  BY <1>1, <1>2, <1>3, <1>4, <1>5 DEF Next, LoadCoordinator

\* The inductive invariant of the load coordinator, its solvers and their
\* queues: it holds in every state, for any number of solvers, any leaves and
\* values, with and without synchronous notification.
THEOREM Invariant == Spec => []IInv
<1>1. Init => IInv
  BY InitOk
<1>2. IInv /\ [Next]_vars => IInv'
  BY NextKeeps
<1> QED
  BY <1>1, <1>2, PTL DEF Spec

\* It says that solutions are kept.
LEMMA SolutionKeptHolds ==
    ASSUME IInv
    PROVE  SolutionKept
<1> SUFFICES ASSUME NEW s \in Running, sync, sv[s].own < Inf
             PROVE  \/ lc.inc <= sv[s].own \/ sv[s].loc <= sv[s].own
                    \/ \E k \in DOMAIN box[0] : box[0][k].tag = "Solution" /\ box[0][k].val <= sv[s].own
  BY DEF SolutionKept
<1>1. s \in Solvers /\ ~Gone(sv[s])
  BY DEF Running, Gone
<1>2. Keeps(lc, box[0], sv[s])
  BY <1>1, SolverParts
<1> QED
  BY <1>2 DEF Keeps, Arrives

\* No message and one message, counted.
LEMMA CountOf ==
    ASSUME NEW q, NEW T
    PROVE  /\ None(q, T) => Cardinality({k \in DOMAIN q : q[k] \in T}) = 0
           /\ Single(q, T) => Cardinality({k \in DOMAIN q : q[k] \in T}) = 1
<1> DEFINE D == {k \in DOMAIN q : q[k] \in T}
<1>1. ASSUME None(q, T) PROVE Cardinality(D) = 0
  <2>1. D = {}
    BY <1>1 DEF None
  <2> HIDE DEF D
  <2> QED
    BY <2>1, FS_EmptySet
<1>2. ASSUME Single(q, T) PROVE Cardinality(D) = 1
  <2>1. PICK k : D = {k}
    BY <1>2 DEF Single
  <2> HIDE DEF D
  <2> QED
    BY <2>1, FS_Singleton
<1> QED
  BY <1>1, <1>2

\* The counts of the properties.
LEMMA FromIs ==
    ASSUME IInv, NEW s \in Solvers
    PROVE  /\ From(s, "SolverState") = Cardinality({k \in DOMAIN box[0] : box[0][k] \in States(s)})
           /\ From(s, "AnotherNodeRequest") = Cardinality({k \in DOMAIN box[0] : box[0][k] \in Requests(s)})
           /\ From(s, "Completion") = 0 => None(box[0], Ends(s))
           /\ To(s, {"NotificationId"}) = Cardinality({k \in DOMAIN box[s] : box[s][k] \in Answers})
           /\ To(s, {"NoNodes", "Node"}) = Cardinality({k \in DOMAIN box[s] : box[s][k] \in Replies})
<1>1. box[0] \in Seq(ToCoord) /\ box[s] \in Seq(ToSolver)
  BY CoordParts DEF IInv
<1>2. \A tag : From(s, tag) = Cardinality({k \in DOMAIN box[0] : box[0][k].tag = tag /\ box[0][k].src = s})
  BY DEF From, Count
<1>3. \A tags : To(s, tags) = Cardinality({k \in DOMAIN box[s] : box[s][k].tag \in tags})
  BY DEF To, Count
<1>4. \A k \in DOMAIN box[0] : box[0][k] \in ToCoord
  BY <1>1
<1>5. \A k \in DOMAIN box[s] : box[s][k] \in ToSolver
  BY <1>1
<1>6. {k \in DOMAIN box[0] : box[0][k].tag = "SolverState" /\ box[0][k].src = s}
         = {k \in DOMAIN box[0] : box[0][k] \in States(s)}
  BY <1>4 DEF States
<1>7. {k \in DOMAIN box[0] : box[0][k].tag = "AnotherNodeRequest" /\ box[0][k].src = s}
         = {k \in DOMAIN box[0] : box[0][k] \in Requests(s)}
  BY <1>4 DEF Requests
<1>8. {k \in DOMAIN box[s] : box[s][k].tag \in {"NotificationId"}} = {k \in DOMAIN box[s] : box[s][k] \in Answers}
  BY <1>5, TagSets
<1>9. {k \in DOMAIN box[s] : box[s][k].tag \in {"NoNodes", "Node"}} = {k \in DOMAIN box[s] : box[s][k] \in Replies}
  BY <1>5, TagSets
<1>10. ASSUME From(s, "Completion") = 0 PROVE None(box[0], Ends(s))
  <2> DEFINE D == {k \in DOMAIN box[0] : box[0][k].tag = "Completion" /\ box[0][k].src = s}
  <2>1. Cardinality(D) = 0
    BY <1>2, <1>10
  <2>2. IsFiniteSet(D)
    <3>1. DOMAIN box[0] = 1..Len(box[0]) /\ Len(box[0]) \in Int /\ D \subseteq DOMAIN box[0]
      BY <1>1
    <3>2. IsFiniteSet(1..Len(box[0]))
      BY <3>1, FS_Interval
    <3> QED
      BY <3>1, <3>2, FS_Subset
  <2>3. D = {}
    <3> HIDE DEF D
    <3> QED
      BY <2>1, <2>2, FS_EmptySet
  <2> QED
    BY <2>3 DEF None, Ends
<1>11. From(s, "SolverState") = Cardinality({k \in DOMAIN box[0] : box[0][k] \in States(s)})
  BY <1>2, <1>6
<1>12. From(s, "AnotherNodeRequest") = Cardinality({k \in DOMAIN box[0] : box[0][k] \in Requests(s)})
  BY <1>2, <1>7
<1>13. To(s, {"NotificationId"}) = Cardinality({k \in DOMAIN box[s] : box[s][k] \in Answers})
  BY <1>3, <1>8
<1>14. To(s, {"NoNodes", "Node"}) = Cardinality({k \in DOMAIN box[s] : box[s][k] \in Replies})
  BY <1>3, <1>9
<1> QED
  BY <1>10, <1>11, <1>12, <1>13, <1>14

\* The invariant says that reports and requests have one answer each.
LEMMA ConversationHolds ==
    ASSUME IInv
    PROVE  Conversation
<1> SUFFICES ASSUME NEW s \in Running
             PROVE  /\ From(s, "SolverState") + To(s, {"NotificationId"}) = IF sv[s].noticed THEN 1 ELSE 0
                    /\ sv[s].asked => From(s, "AnotherNodeRequest") + To(s, {"NoNodes", "Node"}) = 1
  BY DEF Conversation
<1>1. s \in Solvers /\ ~Gone(sv[s])
  BY DEF Running, Gone
<1>2. Reports(box[0], sv[s], box[s], s) /\ Asks(box[0], sv[s], box[s], s)
  BY <1>1, SolverParts DEF Midway, Talks
<1>3. /\ From(s, "SolverState") = Cardinality({k \in DOMAIN box[0] : box[0][k] \in States(s)})
      /\ From(s, "AnotherNodeRequest") = Cardinality({k \in DOMAIN box[0] : box[0][k] \in Requests(s)})
      /\ To(s, {"NotificationId"}) = Cardinality({k \in DOMAIN box[s] : box[s][k] \in Answers})
      /\ To(s, {"NoNodes", "Node"}) = Cardinality({k \in DOMAIN box[s] : box[s][k] \in Replies})
  BY <1>1, FromIs
<1>4. /\ None(box[0], States(s)) => From(s, "SolverState") = 0
      /\ Single(box[0], States(s)) => From(s, "SolverState") = 1
      /\ Single(box[0], Requests(s)) => From(s, "AnotherNodeRequest") = 1
      /\ None(box[0], Requests(s)) => From(s, "AnotherNodeRequest") = 0
  BY <1>3, CountOf
<1>5. /\ None(box[s], Answers) => To(s, {"NotificationId"}) = 0
      /\ Single(box[s], Answers) => To(s, {"NotificationId"}) = 1
      /\ None(box[s], Replies) => To(s, {"NoNodes", "Node"}) = 0
      /\ Single(box[s], Replies) => To(s, {"NoNodes", "Node"}) = 1
  BY <1>3, CountOf
<1>6. From(s, "SolverState") + To(s, {"NotificationId"}) = IF sv[s].noticed THEN 1 ELSE 0
  BY <1>2, <1>4, <1>5 DEF Reports, One
<1>7. sv[s].asked => From(s, "AnotherNodeRequest") + To(s, {"NoNodes", "Node"}) = 1
  BY <1>2, <1>4, <1>5 DEF Asks, One
<1> QED
  BY <1>6, <1>7

\* The greatest of some positions.
LEMMA MaxIs ==
    ASSUME NEW n \in Nat, NEW T, T \subseteq 1..n, T # {}
    PROVE  Max(T) \in T
<1> DEFINE D == {n - x : x \in T}
<1>1. D \subseteq Nat /\ D # {}
  <2>1. \A x \in T : n - x \in Nat
    OBVIOUS
  <2> QED
    BY <2>1
<1>2. PICK d \in D : \A e \in D : d <= e
  BY <1>1, LeastNat
<1>3. PICK x \in T : d = n - x
  BY <1>2
<1>4. \A y \in T : x >= y
  <2>1. \A y \in T : n - x <= n - y
    BY <1>2, <1>3
  <2>2. x \in 1..n /\ \A y \in T : y \in 1..n
    OBVIOUS
  <2> QED
    BY <2>1, <2>2
<1> QED
  BY <1>3, <1>4 DEF Max

\* The invariant says that both sides agree on the node.
LEMMA AgreeOnNodeHolds ==
    ASSUME IInv
    PROVE  AgreeOnNode
<1> SUFFICES ASSUME NEW s \in Running, From(s, "Completion") = 0
             PROVE  LET sent == {k \in DOMAIN box[s] : box[s][k].tag = "Node"}
                        has  == IF sent # {} THEN box[s][Max(sent)].val
                                ELSE IF sv[s].new # NoNode THEN sv[s].new ELSE sv[s].cur
                    IN lc.cur[s].id = has.id /\ lc.cur[s].leaves = has.leaves
  BY DEF AgreeOnNode
<1> DEFINE sent == {k \in DOMAIN box[s] : box[s][k].tag = "Node"}
<1>1. s \in Solvers /\ ~Gone(sv[s])
  BY DEF Running, Gone
<1>2. box[s] \in Seq(ToSolver) /\ Agrees(lc.cur[s], box[0], sv[s], box[s], s)
  BY <1>1, SolverParts DEF Midway, Talks
<1>3. None(box[0], Ends(s))
  BY <1>1, FromIs
<1>4. \A k \in DOMAIN box[s] : box[s][k] \in NewNodes <=> k \in sent
  BY <1>2, TagSets
<1>5. sent # {} => Max(sent) \in sent
  <2>1. Len(box[s]) \in Nat /\ sent \subseteq 1..Len(box[s])
    BY <1>2
  <2> HIDE DEF sent
  <2> QED
    BY <2>1, MaxIs
<1>6. sent \subseteq DOMAIN box[s]
  OBVIOUS
<1> HIDE DEF sent
<1>7. sent # {} => Same(lc.cur[s], box[s][Max(sent)].val)
  BY <1>2, <1>3, <1>4, <1>5, <1>6 DEF Agrees
<1>8. sent = {} => Same(lc.cur[s], Has(sv[s]))
  BY <1>2, <1>3, <1>4 DEF Agrees, None
<1>9. LET has == IF sent # {} THEN box[s][Max(sent)].val
                 ELSE IF sv[s].new # NoNode THEN sv[s].new ELSE sv[s].cur
      IN lc.cur[s].id = has.id /\ lc.cur[s].leaves = has.leaves
  BY <1>7, <1>8 DEF Same, Has
<1> QED
  BY <1>9 DEF sent

\* With synchronous notification, a solution by which a running solver prunes
\* is never lost: the load coordinator has as good a one, or one is on its way
\* to it, or saveIfImprovedSolutionWasFound keeps it to be sent.
THEOREM SolutionIsKept == Spec => []SolutionKept
BY Invariant, SolutionKeptHolds, PTL

\* Every solver state that sendSolverState has sent and every request for a
\* node has one answer in the queues, or is still to be answered, and the
\* solver knows which it is owed: the assert in processTagNotificationId never
\* fails.
THEOREM ConversationKept == Spec => []Conversation
BY Invariant, ConversationHolds, PTL

\* Unless a completion is on its way, the current node that the load
\* coordinator keeps for a solver is the last one sent to it, or the one it
\* has got, with the same leaves: what it returns to the pool or saves is what
\* the solver really has.
THEOREM AgreementKept == Spec => []AgreeOnNode
BY Invariant, AgreeOnNodeHolds, PTL
=============================================================================
