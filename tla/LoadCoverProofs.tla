-------------------------- MODULE LoadCoverProofs --------------------------
(***************************************************************************)
(* What is proved of the nodes of the parallel branch and bound, for any   *)
(* number of solvers and any leaves: while every report is waited for, no  *)
(* leaf is lost.  LoadTreeProofs defines the cover, and proves that every  *)
(* step of the load coordinator keeps it; here are the steps of the        *)
(* solvers, and what follows of checkpoints, deleted nodes and the answer. *)
(***************************************************************************)
EXTENDS LoadTreeProofs

-----------------------------------------------------------------------------
(* The messages a solver handles.                                          *)

\* What the solver v and the messages r hold of the bounds and the end.
Base(c, v, r) ==
    /\ Fits(c, v.cur) /\ Fits(c, v.new) /\ \A k \in DOMAIN r : r[k] \in NewNodes => Fits(c, r[k].val)
    /\ Dismissed(v, r) => AllSolved(c)
\* Each leaf of its node is open, solved or given away.
Searched(c, q, v, r, s) ==
    v.new = NoNode /\ None(r, NewNodes) =>
        \A l \in v.cur.leaves : l \in v.open \/ v.own <= Value[l] \/ Seen(c, q, Len(q) + 1, s, l)
\* SCIP stops.
Quits(v) == v.open = {} \/ v.new # NoNode \/ v.term # "no"

\* The parts of what holds of a solver.
LEMMA WorksAre ==
    ASSUME NEW c, NEW q, NEW v, NEW r, NEW s
    PROVE  Works(c, q, v, r, s) <=> /\ Base(c, v, r) /\ (v.pc # "idle" => Searched(c, q, v, r, s))
                                    /\ v.pc = "complete" => Quits(v)
<1>1. Works(c, q, v, r, s) => Base(c, v, r)
  BY DEF Works, Base, AllSolved
<1>2. Works(c, q, v, r, s) => (v.pc # "idle" => Searched(c, q, v, r, s))
  BY DEF Works, Searched
<1>3. Works(c, q, v, r, s) => (v.pc = "complete" => Quits(v))
  BY DEF Works, Quits
<1>4. ASSUME Base(c, v, r), v.pc # "idle" => Searched(c, q, v, r, s), v.pc = "complete" => Quits(v)
      PROVE  Works(c, q, v, r, s)
  BY <1>4 DEF Works, Base, Searched, Quits, AllSolved
<1> QED
  BY <1>1, <1>2, <1>3, <1>4

\* A step of a solver may dismiss it, never the reverse; so for its new node.
Firmer(v, w) == (v.term # "no" => w.term # "no") /\ (v.new # NoNode => w.new # NoNode)

\* What a handler makes of the termination mode and of the new node.
LEMMA TermReceived ==
    ASSUME NEW v \in SolverSet, NEW m \in ToSolver
    PROVE  /\ Received(v, m).term = "normal" => v.term = "normal" \/ m.tag = "TerminateRequest"
           /\ Firmer(v, Received(v, m))
<1> DEFINE w == Received(v, m)
<1>0. m.tag \in {"Node", "Solution", "IncumbentValue", "NodeReceived", "RampUp", "NoNodes",
                 "NotificationId", "TerminateRequest", "InterruptRequest"}
  BY DEF ToSolver
<1>1. CASE m.tag = "Node"
  <2>1. m.val # NoNode
    BY <1>1, NodeTypes DEF ToSolver
  <2>2. w = [v EXCEPT !.cur = m.val, !.asked = FALSE] \/ w = [v EXCEPT !.new = m.val, !.asked = FALSE]
    BY <1>1 DEF Received
  <2> HIDE DEF w
  <2> QED
    BY <2>1, <2>2 DEF SolverSet, Firmer, w
<1>2. CASE m.tag = "TerminateRequest"
  <2>1. w = [v EXCEPT !.term = "normal"]
    BY <1>2 DEF Received
  <2> HIDE DEF w
  <2> QED
    BY <1>2, <2>1 DEF SolverSet, Firmer, w
<1>3. CASE m.tag = "InterruptRequest"
  <2>1. w = [v EXCEPT !.term = "interrupted"]
    BY <1>3 DEF Received
  <2> HIDE DEF w
  <2> QED
    BY <2>1 DEF SolverSet, Firmer, w
<1>4. CASE m.tag \in {"Solution", "IncumbentValue", "NodeReceived", "RampUp", "NoNodes", "NotificationId"}
  <2>1. \/ w = v \/ w = [v EXCEPT !.pend = m.val] \/ w = [v EXCEPT !.inc = Lower(v.inc, m.val)]
        \/ w = [v EXCEPT !.rampUp = TRUE] \/ w = [v EXCEPT !.asked = FALSE] \/ w = [v EXCEPT !.noticed = FALSE]
    BY <1>4 DEF Received
  <2> HIDE DEF w
  <2>2. w.term = v.term /\ w.new = v.new
    BY <2>1 DEF SolverSet
  <2> QED
    BY <2>2 DEF Firmer, w
<1> QED
  BY <1>0, <1>1, <1>2, <1>3, <1>4

\* A message is handled: the bounds still fit.
LEMMA BaseReceived ==
    ASSUME NEW c, NEW v \in SolverSet, NEW r \in Seq(ToSolver), r # <<>>, Base(c, v, r)
    PROVE  Base(c, Received(v, Head(r)), Tail(r))
<1> DEFINE m == Head(r)
           w == Received(v, m)
           t == Tail(r)
<1>1. /\ m \in ToSolver /\ t \in Seq(ToSolver) /\ Len(t) = Len(r) - 1 /\ Len(r) \in Nat \ {0}
      /\ m = r[1] /\ \A k \in 1..(Len(r) - 1) : t[k] = r[k + 1]
  BY HeadAndTail
<1>2. 1 \in DOMAIN r /\ \A k \in DOMAIN t : k + 1 \in DOMAIN r /\ t[k] = r[k + 1]
  BY <1>1
<1>3. /\ m.tag = "Node" /\ v.cur = NoNode => w.cur = m.val /\ w.new = v.new
      /\ m.tag = "Node" /\ v.cur # NoNode => w.cur = v.cur /\ w.new = m.val
      /\ m.tag # "Node" => w.cur = v.cur /\ w.new = v.new
  BY <1>1, ReceivedIs
<1>4. w.term = "normal" => v.term = "normal" \/ m.tag = "TerminateRequest"
  BY <1>1, TermReceived
<1>5. m.tag = "Node" => m \in NewNodes
  BY <1>1 DEF NewNodes
<1> HIDE DEF m, w, t
<1>6. m.tag = "Node" => Fits(c, m.val)
  BY <1>1, <1>2, <1>5 DEF Base
<1>7. Fits(c, w.cur) /\ Fits(c, w.new)
  BY <1>3, <1>6 DEF Base
<1>8. \A k \in DOMAIN t : t[k] \in NewNodes => Fits(c, t[k].val)
  BY <1>2 DEF Base
<1>9. Dismissed(w, t) => Dismissed(v, r)
  BY <1>1, <1>2, <1>4 DEF Dismissed
<1>10. Base(c, w, t)
  BY <1>7, <1>8, <1>9 DEF Base
<1> QED
  BY <1>10 DEF w, m, t

\* A message is handled in the search: no leaf is overlooked.
LEMMA SearchedReceived ==
    ASSUME NEW c, NEW q, NEW v \in SolverSet, v.cur # NoNode, NEW r \in Seq(ToSolver), r # <<>>, NEW s,
           Searched(c, q, v, r, s)
    PROVE  Received(v, Head(r)).cur # NoNode /\ Searched(c, q, Received(v, Head(r)), Tail(r), s)
<1> DEFINE m == Head(r)
           w == Received(v, m)
<1>1. m \in ToSolver
  BY HeadAndTail
<1>2. None(r, NewNodes) <=> m \notin NewNodes /\ None(Tail(r), NewNodes)
  BY ShorterQueue
<1>3. /\ w.open = v.open /\ w.own = v.own /\ w.cur = v.cur
      /\ m.tag = "Node" => w.new = m.val
      /\ m.tag # "Node" => w.new = v.new
  BY <1>1, ReceivedIs
<1>4. m \in NewNodes <=> m.tag = "Node"
  BY <1>1, TagSets
<1>5. m.tag = "Node" => m.val # NoNode
  BY <1>1, NodeTypes DEF ToSolver
<1> HIDE DEF m, w
<1>6. w.cur # NoNode /\ Searched(c, q, w, Tail(r), s)
  BY <1>2, <1>3, <1>4, <1>5 DEF Searched
<1> QED
  BY <1>6 DEF w, m

\* What holds of the solver w, with the messages t left, when v had r.
Stage(c, q, v, r, s, w, t) ==
    /\ Base(c, w, t) /\ Firmer(v, w)
    /\ v.cur # NoNode /\ Searched(c, q, v, r, s) => w.cur # NoNode /\ Searched(c, q, w, t, s)

\* What a handler keeps holds after each message.
LEMMA ReceivedOn ==
    ASSUME NEW v \in SolverSet, NEW T, NEW p \in Seq(ToSolver), <<v, 0>> \in T,
           \A k \in 1..Len(p), w \in SolverSet : <<w, k - 1>> \in T => <<Received(w, p[k]), k>> \in T
    PROVE  <<HasReceived(v, p), Len(p)>> \in T
<1> DEFINE F == [x \in SolverSet \X ToSolver |-> Received(x[1], x[2])]
           Row(f) == f = [k \in 0..Len(p) |-> IF k = 0 THEN v ELSE Received(f[k - 1], p[k])]
<1>2. F \in [SolverSet \X ToSolver -> SolverSet]
  <2>1. \A u \in SolverSet, m \in ToSolver : Received(u, m) \in SolverSet
    BY ReceivedIs
  <2> QED
    BY <2>1
<1> HIDE DEF F
<1>3. PICK f \in [0..Len(p) -> SolverSet] : IsRow(f, F, v, p, Len(p))
  BY <1>2, RowExists
<1>4. Len(p) \in Nat /\ \A k \in 1..Len(p) : p[k] \in ToSolver /\ k - 1 \in 0..Len(p) /\ k \in 0..Len(p)
  OBVIOUS
<1>5. \A k \in 0..Len(p) : f[k] = IF k = 0 THEN v ELSE Received(f[k - 1], p[k])
  <2>1. ASSUME NEW k \in 0..Len(p), k # 0 PROVE F[<<f[k - 1], p[k]>>] = Received(f[k - 1], p[k])
    <3>1. f[k - 1] \in SolverSet /\ p[k] \in ToSolver
      BY <1>3, <1>4, <2>1
    <3> QED
      BY <3>1 DEF F
  <2> QED
    BY <1>3, <2>1 DEF IsRow
<1>6. Row(f)
  BY <1>3, <1>5
<1> DEFINE z == CHOOSE g : Row(g)
<1>7. Row(z)
  BY <1>6, Zenon
<1>8. HasReceived(v, p) = z[Len(p)]
  BY Zenon DEF Applied, HasReceived
<1> HIDE DEF z
<1>9. \A k \in 0..Len(p) : z[k] = IF k = 0 THEN v ELSE Received(z[k - 1], p[k])
  BY <1>7, Zenon
<1> DEFINE ok == {k \in 0..Len(p) : z[k] \in SolverSet /\ <<z[k], k>> \in T}
<1>10. 0 \in ok
  BY <1>4, <1>9
<1>11. ASSUME NEW k \in 1..Len(p), k - 1 \in ok PROVE k \in ok
  <2>1. z[k] = Received(z[k - 1], p[k]) /\ p[k] \in ToSolver /\ k \in 0..Len(p)
    BY <1>4, <1>9
  <2>2. z[k - 1] \in SolverSet /\ <<z[k - 1], k - 1>> \in T
    BY <1>11
  <2>3. z[k] \in SolverSet
    BY <2>1, <2>2, ReceivedIs
  <2>4. <<z[k], k>> \in T
    BY <2>1, <2>2
  <2> QED
    BY <2>1, <2>3, <2>4
<1>12. Len(p) \in ok
  <2>1. \A k \in 0..Len(p) : k \in ok
    <3> HIDE DEF ok
    <3> QED
      BY <1>4, <1>10, <1>11, UpwardClosed
  <2>2. Len(p) \in 0..Len(p)
    BY <1>4
  <2> QED
    BY <2>1, <2>2
<1> QED
  BY <1>8, <1>12

\* One message of those of a stage is handled.
LEMMA StageReceived ==
    ASSUME NEW c, NEW q, NEW v, NEW r, NEW s, NEW w \in SolverSet, NEW t \in Seq(ToSolver), t # <<>>,
           Stage(c, q, v, r, s, w, t)
    PROVE  Stage(c, q, v, r, s, Received(w, Head(t)), Tail(t))
<1> DEFINE u == Received(w, Head(t))
<1>1. Base(c, u, Tail(t))
  BY BaseReceived DEF Stage
<1>2. Head(t) \in ToSolver
  BY HeadAndTail
<1>3. Firmer(w, u)
  BY <1>2, TermReceived
<1>4. w.cur # NoNode /\ Searched(c, q, w, t, s) => u.cur # NoNode /\ Searched(c, q, u, Tail(t), s)
  BY SearchedReceived
<1> HIDE DEF u
<1>5. Stage(c, q, v, r, s, u, Tail(t))
  BY <1>1, <1>3, <1>4 DEF Stage, Firmer
<1> QED
  BY <1>5 DEF u

\* The first messages are handled.
LEMMA StageReached ==
    ASSUME NEW c, NEW q, NEW v \in SolverSet, NEW r \in Seq(ToSolver), NEW s, Base(c, v, r),
           NEW p \in Seq(ToSolver), Len(p) <= Len(r), \A i \in 1..Len(p) : p[i] = r[i]
    PROVE  Stage(c, q, v, r, s, HasReceived(v, p), Suffix(r, Len(p)))
<1> DEFINE T == {x \in SolverSet \X Nat : Stage(c, q, v, r, s, x[1], Suffix(r, x[2]))}
<1>1. Len(p) \in Nat /\ Len(r) \in Nat
  OBVIOUS
<1>2. <<v, 0>> \in T
  <2>1. Suffix(r, 0) = r
    BY <1>1, SuffixIs
  <2>2. Stage(c, q, v, r, s, v, Suffix(r, 0))
    BY <2>1 DEF Stage, Firmer
  <2> QED
    BY <2>2
<1>3. ASSUME NEW k \in 1..Len(p), NEW w \in SolverSet, <<w, k - 1>> \in T
      PROVE  <<Received(w, p[k]), k>> \in T
  <2>1. k \in 1..Len(r) /\ k - 1 \in 0..Len(r) /\ p[k] = r[k] /\ p[k] \in ToSolver /\ k \in Nat
    BY <1>1
  <2>2. Stage(c, q, v, r, s, w, Suffix(r, k - 1))
    BY <1>3
  <2>3. /\ Suffix(r, k - 1) # <<>> /\ Head(Suffix(r, k - 1)) = r[k] /\ Tail(Suffix(r, k - 1)) = Suffix(r, k)
    BY <2>1, SuffixStep
  <2>4. Suffix(r, k - 1) \in Seq(ToSolver)
    BY <2>1, SuffixIs
  <2>5. Stage(c, q, v, r, s, Received(w, p[k]), Suffix(r, k))
    BY <2>1, <2>2, <2>3, <2>4, StageReceived
  <2>6. Received(w, p[k]) \in SolverSet
    BY <2>1, ReceivedIs
  <2> QED
    BY <2>1, <2>5, <2>6
<1>4. <<HasReceived(v, p), Len(p)>> \in T
  <2> HIDE DEF T
  <2> QED
    BY <1>2, <1>3, ReceivedOn
<1> QED
  BY <1>4

\* The first k messages of a solver in the model are handled.
LEMMA UptoStage ==
    ASSUME IInv, NEW s \in Solvers, ~Gone(sv[s]), NEW k \in 0..Len(box[s]), NEW c, NEW q, Base(c, sv[s], box[s])
    PROVE  Stage(c, q, sv[s], box[s], s, Upto(s, k), Suffix(box[s], k))
<1> DEFINE p == SubSeq(box[s], 1, k)
<1>1. box[s] \in Seq(ToSolver) /\ sv[s] \in SolverSet
  BY SolverParts
<1>2. p \in Seq(ToSolver) /\ Len(p) = k /\ \A i \in 1..k : p[i] = box[s][i]
  BY <1>1, PartOfQueue
<1>3. Upto(s, k) = HasReceived(sv[s], p)
  BY Zenon DEF Upto, HasReceived
<1> HIDE DEF p
<1>4. Len(p) <= Len(box[s]) /\ \A i \in 1..Len(p) : p[i] = box[s][i]
  BY <1>1, <1>2
<1>5. Stage(c, q, sv[s], box[s], s, HasReceived(sv[s], p), Suffix(box[s], Len(p)))
  BY <1>1, <1>2, <1>4, StageReached
<1> QED
  BY <1>2, <1>3, <1>5

\* All messages are handled.
LEMMA AllStage ==
    ASSUME NEW c, NEW q, NEW v \in SolverSet, NEW r \in Seq(ToSolver), NEW s, Base(c, v, r)
    PROVE  Stage(c, q, v, r, s, HasReceived(v, r), <<>>)
<1>1. Len(r) <= Len(r) /\ Len(r) \in 0..Len(r)
  OBVIOUS
<1>2. Stage(c, q, v, r, s, HasReceived(v, r), Suffix(r, Len(r)))
  BY <1>1, StageReached
<1>3. Suffix(r, Len(r)) = <<>>
  BY <1>1, SuffixIs
<1> QED
  BY <1>2, <1>3

-----------------------------------------------------------------------------
(* The steps of the solvers.                                               *)

\* Every report is waited for, and the load coordinator has not ended its loop.
Live == sync /\ lc.pc \in {"run", "check"}

\* The messages of s are no matter of the nodes of the others.
LEMMA QuietOthers ==
    ASSUME NEW s, NEW p \in Seq(ToCoord), \A k \in DOMAIN p : p[k].src = s, NEW t, t # s
    PROVE  Quiet(p, t)
<1>1. \A k \in DOMAIN p : p[k] \notin Gifts(t) /\ p[k] \notin Requests(t) /\ p[k] \notin Ends(t)
  BY DEF Gifts, Requests, Ends
<1> QED
  BY <1>1 DEF Quiet, None

\* A step of a solver, when what holds of it afterwards is shown.
LEMMA BecomesCovers ==
    ASSUME IInv, CInv, Live, NEW s \in Solvers, NEW v \in SolverSet, NEW r \in Seq(ToSolver), NEW ms \in Seq(ToCoord),
           \A k \in DOMAIN ms : ms[k].src = s,
           NEW b, b = [box EXCEPT ![s] = r], Becomes(s, v, b, ms), Part(lc, box[0] \o ms, v, r, s)
    PROVE  CInv'
<1> DEFINE z == Posted(box, s, r, ms)
<1>1. /\ SvTyped /\ Typed(lc, box) /\ sv \in [Solvers -> SolverSet] /\ Cover(lc, box)
      /\ lc.pc \in {"run", "check"}
  BY DEF IInv, CoordOk, SvTyped, CInv, Live, Outcome
<1>2. UNCHANGED <<lc, sync>> /\ sv' = [sv EXCEPT ![s] = v] /\ box' = z
  BY DEF Becomes, Posted
<1>3. /\ z[0] = box[0] \o ms
      /\ z[s] = r /\ \A t \in Solvers \ {s} : z[t] = box[t]
  BY <1>1, PostedIs
<1> HIDE DEF z
<1>4. sv'[s] = v /\ \A t \in Solvers \ {s} : sv'[t] = sv[t]
  BY <1>1, <1>2
<1>5. box[0] \in Seq(ToCoord)
  BY <1>1 DEF Typed
<1>6. ASSUME NEW t \in Solvers PROVE Part(lc, z[0], sv'[t], z[t], t)
  <2>1. CASE t = s
    BY <1>3, <1>4, <2>1
  <2>2. CASE t # s
    <3>1. Quiet(ms, t)
      BY <2>2, QuietOthers
    <3>2. Part(lc, box[0], sv[t], box[t], t)
      BY <1>1 DEF Cover
    <3>3. Part(lc, box[0] \o ms, sv[t], box[t], t)
      BY <1>5, <3>1, <3>2, PartPosted
    <3> QED
      BY <1>3, <1>4, <2>2, <3>3
  <2> QED
    BY <2>1, <2>2
<1>7. TreeOk(lc)
  BY <1>1 DEF Cover
<1>8. Cover(lc, box)'
  BY <1>2, <1>6, <1>7 DEF Cover
<1>9. lc'.pc \in {"run", "check"}
  BY <1>1, <1>2
<1> QED
  BY <1>8, <1>9 DEF CInv, Outcome

\* What holds of a solver before its step.
LEMMA WorkParts ==
    ASSUME IInv, CInv, Live, NEW s \in Solvers, ~Gone(sv[s])
    PROVE  /\ TreeOk(lc) /\ Line(lc, box[0], s) /\ Base(lc, sv[s], box[s])
           /\ sv[s].pc # "idle" => Searched(lc, box[0], sv[s], box[s], s)
           /\ sv[s].pc = "complete" => Quits(sv[s])
           /\ Awaits(sv[s])
<1>1. TreeOk(lc) /\ Part(lc, box[0], sv[s], box[s], s)
  BY DEF CInv, Live, Outcome, Cover
<1>2. Line(lc, box[0], s) /\ Works(lc, box[0], sv[s], box[s], s) /\ Awaits(sv[s])
  BY <1>1 DEF Part
<1> QED
  BY <1>1, <1>2, WorksAre

\* A step of a solver whose messages are not about its node.
LEMMA QuietCovers ==
    ASSUME IInv, CInv, Live, NEW s \in Solvers, ~Gone(sv[s]), NEW v \in SolverSet, NEW r \in Seq(ToSolver),
           NEW ms \in Seq(ToCoord), \A k \in DOMAIN ms : ms[k].src = s, Quiet(ms, s),
           NEW b, b = [box EXCEPT ![s] = r], Becomes(s, v, b, ms),
           ~Gone(v) => Works(lc, box[0], v, r, s) /\ Awaits(v)
    PROVE  CInv'
<1>1. box[0] \in Seq(ToCoord) /\ Line(lc, box[0], s)
  BY SolverParts, WorkParts
<1>2. Line(lc, box[0] \o ms, s)
  BY <1>1, LinePosted
<1>3. Works(lc, box[0], v, r, s) => Works(lc, box[0] \o ms, v, r, s)
  BY <1>1, WorksPosted
<1>4. Part(lc, box[0] \o ms, v, r, s)
  BY <1>2, <1>3 DEF Part
<1> QED
  BY <1>4, BecomesCovers

\* w differs from v in what is not about the search.
Likewise(v, w) ==
    w.cur = v.cur /\ w.new = v.new /\ w.open = v.open /\ w.own = v.own /\ w.term = v.term

\* So it holds of it too.
LEMMA LikeSearched ==
    ASSUME NEW v, NEW w, Likewise(v, w), NEW c, NEW q, NEW r, NEW s
    PROVE  /\ Base(c, v, r) => Base(c, w, r)
           /\ Searched(c, q, v, r, s) => Searched(c, q, w, r, s)
           /\ Quits(v) => Quits(w)
<1>1. Base(c, v, r) => Base(c, w, r)
  BY DEF Likewise, Base, Dismissed
<1>2. Searched(c, q, v, r, s) => Searched(c, q, w, r, s)
  BY DEF Likewise, Searched
<1>3. Quits(v) => Quits(w)
  BY DEF Likewise, Quits
<1> QED
  BY <1>1, <1>2, <1>3

\* A solver that goes on with its search.
LEMMA AtWorks ==
    ASSUME NEW c, NEW q, NEW v \in SolverSet, NEW r, NEW s, NEW x \in Pcs, x # "await",
           Base(c, v, r), x # "idle" => Searched(c, q, v, r, s), x = "complete" => Quits(v)
    PROVE  Works(c, q, At(v, x), r, s) /\ Awaits(At(v, x))
<1> DEFINE w == At(v, x)
<1>1. w.pc = x /\ Likewise(v, w)
  BY AtIs DEF Likewise, Alongside
<1> HIDE DEF w
<1>2. Base(c, w, r) /\ (x # "idle" => Searched(c, q, w, r, s)) /\ (x = "complete" => Quits(w))
  BY <1>1, LikeSearched
<1>3. Works(c, q, w, r, s) /\ Awaits(w)
  BY <1>1, <1>2, WorksAre DEF Awaits
<1> QED
  BY <1>3 DEF w

\* No messages.
LEMMA QuietNothing ==
    ASSUME NEW s
    PROVE  Quiet(<<>>, s) /\ <<>> \in Seq(ToCoord) /\ \A k \in DOMAIN <<>> : <<>>[k].src = s
<1>1. \A T : None(<<>>, T)
  BY NoMessage
<1> QED
  BY <1>1 DEF Quiet

\* A solver that waits for a message and goes on.
LEMMA WaitCovers ==
    ASSUME IInv, CInv, Live, NEW s \in Solvers, ~Gone(sv[s]), sv[s].pc # "idle", NEW k \in 0..Len(box[s]),
           NEW x \in {"ask", "report"}, Becomes(s, At(Upto(s, k), x), Rest(s, k), <<>>)
    PROVE  CInv'
<1> DEFINE v == Upto(s, k)
           r == Suffix(box[s], k)
<1>1. Base(lc, sv[s], box[s]) /\ Searched(lc, box[0], sv[s], box[s], s)
  BY WorkParts
<1>2. sv[s].cur # NoNode
  BY SolverParts DEF PcOk
<1>3. Stage(lc, box[0], sv[s], box[s], s, v, r)
  BY <1>1, UptoStage
<1>4. Midway(lc, box[0], v, r, s) /\ Rest(s, k) = [box EXCEPT ![s] = r] /\ r \in Seq(ToSolver)
  BY UptoIs
<1>5. Becomes(s, At(v, x), Rest(s, k), <<>>)
  OBVIOUS
<1> HIDE DEF v, r
<1>6. v \in SolverSet
  BY <1>4 DEF Midway
<1>7. x \in Pcs /\ x \notin {"await", "complete"}
  BY DEF Pcs
<1>8. Works(lc, box[0], At(v, x), r, s) /\ Awaits(At(v, x))
  BY <1>1, <1>2, <1>3, <1>6, <1>7, AtWorks DEF Stage
<1>9. At(v, x) \in SolverSet
  BY <1>6, <1>7, AtIs
<1> QED
  BY <1>4, <1>5, <1>8, <1>9, QuietNothing, QuietCovers

\* waitNotificationIdMessage.
LEMMA WaitNotificationIdCovers ==
    ASSUME IInv, CInv, Live, NEW s \in Solvers, WaitNotificationId(s)
    PROVE  CInv'
<1> DEFINE k == Answer(s, "NotificationId")
<1>1. /\ sv[s].pc = "waitid" /\ \E j \in DOMAIN box[s] : box[s][j].tag = "NotificationId"
      /\ Becomes(s, At(Upto(s, k), "ask"), Rest(s, k), <<>>)
  BY Zenon DEF WaitNotificationId, Answered, At
<1>2. ~Gone(sv[s])
  BY <1>1 DEF Gone
<1>3. box[s] \in Seq(ToSolver)
  BY <1>2, SolverParts
<1>4. k \in 0..Len(box[s])
  BY <1>1, <1>3, AnswerIs
<1> HIDE DEF k
<1> QED
  BY <1>1, <1>2, <1>4, WaitCovers

\* The wait of sendParaNode.
LEMMA WaitNodeReceivedCovers ==
    ASSUME IInv, CInv, Live, NEW s \in Solvers, WaitNodeReceived(s)
    PROVE  CInv'
<1> DEFINE k == Answer(s, "NodeReceived")
<1>1. /\ sv[s].pc = "waitack" /\ \E j \in DOMAIN box[s] : box[s][j].tag = "NodeReceived"
      /\ Becomes(s, At(Upto(s, k), "report"), Rest(s, k), <<>>)
  BY Zenon DEF WaitNodeReceived, Answered, At
<1>2. ~Gone(sv[s])
  BY <1>1 DEF Gone
<1>3. box[s] \in Seq(ToSolver)
  BY <1>2, SolverParts
<1>4. k \in 0..Len(box[s])
  BY <1>1, <1>3, AnswerIs
<1> HIDE DEF k
<1> QED
  BY <1>1, <1>2, <1>4, WaitCovers

\* A message about something else is no matter of the node.
LEMMA QuietSent ==
    ASSUME NEW s \in Solvers, NEW m \in ToCoord, m.src = s,
           m.tag \in {"Solution", "SolverState", "Terminated"} \/ (m.tag = "Completion" /\ m.val = "another")
    PROVE  <<m>> \in Seq(ToCoord) /\ Quiet(<<m>>, s) /\ \A k \in DOMAIN <<m>> : <<m>>[k].src = s
<1>1. m \notin Gifts(s) /\ m \notin Requests(s) /\ m \notin Ends(s)
  BY DEF Gifts, Requests, Ends
<1>2. \A T : None(<<m>>, T) <=> m \notin T
  BY OneMessage
<1>3. <<m>> \in Seq(ToCoord) /\ \A k \in DOMAIN <<m>> : <<m>>[k].src = s
  BY SilentSent
<1> QED
  BY <1>1, <1>2, <1>3 DEF Quiet

\* sendSolverState.
LEMMA ReportCovers ==
    ASSUME IInv, CInv, Live, NEW s \in Solvers, Report(s)
    PROVE  CInv'
<1> DEFINE v == sv[s]
           m == Msg("SolverState", s, [bound |-> DualBound(v), best |-> v.best])
           y == Noticed(v)
           x == IF sync \/ ~v.rampUp THEN "waitid" ELSE "ask"
<1>1. /\ v.pc = "report" /\ Becomes(s, [v EXCEPT !.noticed = TRUE, !.pc = x], box, <<m>>)
  BY Zenon DEF Report
<1>2. ~Gone(v) /\ v.pc # "idle"
  BY <1>1 DEF Gone
<1>3. v \in SolverSet /\ box[s] \in Seq(ToSolver)
  BY <1>2, SolverParts
<1>4. DualBound(v) \in Nat /\ v.best \in Vals
  BY <1>3, DualBoundIs, SolverFields
<1>5. m \in ToCoord /\ m.src = s /\ m.tag = "SolverState"
  BY <1>4 DEF ToCoord, Msg
<1>6. y \in SolverSet /\ Likewise(v, y)
  BY <1>3 DEF Noticed, SolverSet, Likewise
<1>7. x \in Pcs /\ x \notin {"idle", "await", "complete"}
  BY DEF Pcs
<1>8. Becomes(s, At(y, x), box, <<m>>)
  <2> HIDE DEF x, m
  <2>1. [v EXCEPT !.noticed = TRUE, !.pc = x] = At(y, x)
    BY DEF At, Noticed
  <2> QED
    BY <1>1, <2>1, Zenon
<1>9. Base(lc, v, box[s]) /\ Searched(lc, box[0], v, box[s], s)
  BY <1>2, WorkParts
<1>10. box = [box EXCEPT ![s] = box[s]]
  BY DEF IInv, CoordOk, Typed
<1>11. <<m>> \in Seq(ToCoord) /\ Quiet(<<m>>, s) /\ \A k \in DOMAIN <<m>> : <<m>>[k].src = s
  BY <1>5, QuietSent
<1> HIDE DEF x, y, m
<1>12. Base(lc, y, box[s]) /\ Searched(lc, box[0], y, box[s], s)
  BY <1>6, <1>9, LikeSearched
<1>13. Works(lc, box[0], At(y, x), box[s], s) /\ Awaits(At(y, x))
  BY <1>6, <1>7, <1>12, AtWorks
<1>14. At(y, x) \in SolverSet
  BY <1>6, <1>7, AtIs
<1> QED
  BY <1>2, <1>3, <1>8, <1>10, <1>11, <1>13, <1>14, QuietCovers

\* ~ParaSolver.
LEMMA ExitCovers ==
    ASSUME IInv, CInv, Live, NEW s \in Solvers, Exit(s)
    PROVE  CInv'
<1> DEFINE u == At(NewSolver, "gone")
           m == Msg("Terminated", s, IF Drained(s).term = "interrupted" THEN 1 ELSE 0)
<1>1. Becomes(s, u, Emptied(s), <<m>>)
  BY DEF Exit, At
<1>2. u \in SolverSet /\ Gone(u)
  BY NewSolverIs, AtIs DEF Pcs, Gone
<1>3. m \in ToCoord /\ m.src = s /\ m.tag = "Terminated"
  BY DEF ToCoord, Msg
<1>4. <<m>> \in Seq(ToCoord) /\ Quiet(<<m>>, s) /\ \A k \in DOMAIN <<m>> : <<m>>[k].src = s
  BY <1>3, QuietSent
<1>5. box[0] \in Seq(ToCoord) /\ <<>> \in Seq(ToSolver) /\ Emptied(s) = [box EXCEPT ![s] = <<>>]
  BY CoordParts DEF IInv, Emptied
<1> HIDE DEF m, u
<1>6. Line(lc, box[0], s)
  BY DEF CInv, Live, Outcome, Cover, Part
<1>7. Line(lc, box[0] \o <<m>>, s)
  BY <1>4, <1>5, <1>6, LinePosted
<1>8. Part(lc, box[0] \o <<m>>, u, <<>>, s)
  BY <1>2, <1>7 DEF Part
<1> QED
  BY <1>1, <1>2, <1>4, <1>5, <1>8, BecomesCovers

\* A solver that ends without a message.
LEMMA LeavesCovers ==
    ASSUME IInv, CInv, Live, NEW s \in Solvers, ~Gone(sv[s]), NEW v \in SolverSet, NEW r \in Seq(ToSolver),
           NEW b, b = [box EXCEPT ![s] = r], Becomes(s, At(v, "exit"), b, <<>>)
    PROVE  CInv'
<1>1. At(v, "exit") \in SolverSet /\ Gone(At(v, "exit"))
  BY AtIs DEF Pcs, Gone
<1> QED
  BY <1>1, QuietNothing, QuietCovers

\* What is announced is no matter of the node.
LEMMA QuietAnnouncement ==
    ASSUME NEW s \in Solvers, NEW v \in SolverSet
    PROVE  /\ Announcement(s, v) \in Seq(ToCoord) /\ Quiet(Announcement(s, v), s)
           /\ \A k \in DOMAIN Announcement(s, v) : Announcement(s, v)[k].src = s
<1> DEFINE m == Msg("Solution", s, v.loc)
<1>1. m \in ToCoord /\ m.src = s /\ m.tag = "Solution"
  BY SolverFields DEF ToCoord, Msg
<1>2. Announcement(s, v) = <<m>> \/ Announcement(s, v) = <<>>
  BY Zenon DEF Announcement
<1> HIDE DEF m
<1>3. <<m>> \in Seq(ToCoord) /\ Quiet(<<m>>, s) /\ \A k \in DOMAIN <<m>> : <<m>>[k].src = s
  BY <1>1, QuietSent
<1>4. <<>> \in Seq(ToCoord) /\ Quiet(<<>>, s) /\ \A k \in DOMAIN <<>> : <<>>[k].src = s
  BY QuietNothing
<1> QED
  BY <1>2, <1>3, <1>4, Zenon

\* Two lots of such messages are such messages.
LEMMA QuietJoined ==
    ASSUME NEW s \in Solvers, NEW p \in Seq(ToCoord), NEW a \in Seq(ToCoord), Quiet(p, s), Quiet(a, s),
           \A k \in DOMAIN p : p[k].src = s, \A k \in DOMAIN a : a[k].src = s
    PROVE  /\ p \o a \in Seq(ToCoord) /\ Quiet(p \o a, s)
           /\ \A k \in DOMAIN (p \o a) : (p \o a)[k].src = s
<1> DEFINE z == p \o a
           T == {m \in ToCoord : m.src # s}
<1>1. \A U : None(z, U) <=> None(p, U) /\ None(a, U)
  BY JoinedQueue
<1>2. z \in Seq(ToCoord)
  BY JoinedQueue
<1>3. None(p, T) /\ None(a, T)
  BY DEF None
<1> HIDE DEF z
<1>4. None(z, T)
  BY <1>1, <1>3, Zenon
<1>5. \A k \in DOMAIN z : z[k].src = s
  BY <1>2, <1>4 DEF None
<1>6. Quiet(z, s)
  BY <1>1, Zenon DEF Quiet
<1> QED
  BY <1>2, <1>5, <1>6 DEF z

\* A solver goes on with its search, having sent messages about something else.
LEMMA GoesOnCovers ==
    ASSUME IInv, CInv, Live, NEW s \in Solvers, ~Gone(sv[s]), NEW v \in SolverSet, NEW r \in Seq(ToSolver),
           NEW ms \in Seq(ToCoord), \A k \in DOMAIN ms : ms[k].src = s, Quiet(ms, s),
           Base(lc, v, r), Searched(lc, box[0], v, r, s),
           NEW b, b = [box EXCEPT ![s] = r], NEW x \in Pcs, x # "await", x = "complete" => Quits(v),
           Becomes(s, At(v, x), b, ms)
    PROVE  CInv'
<1>1. Works(lc, box[0], At(v, x), r, s) /\ Awaits(At(v, x))
  BY AtWorks
<1>2. At(v, x) \in SolverSet
  BY AtIs
<1> QED
  BY <1>1, <1>2, QuietCovers

\* The end of solve.
LEMMA EndedCovers ==
    ASSUME IInv, CInv, Live, NEW s \in Solvers, ~Gone(sv[s]), NEW v \in SolverSet, NEW r \in Seq(ToSolver),
           NEW ms \in Seq(ToCoord), \A k \in DOMAIN ms : ms[k].src = s, Quiet(ms, s),
           Base(lc, v, r), Searched(lc, box[0], v, r, s), Quits(v),
           NEW b, b = [box EXCEPT ![s] = r], Ended(s, v, b, ms)
    PROVE  CInv'
<1> DEFINE w == Improved(v, v.own)
           y == Announced(w)
           a == Announcement(s, w)
<1>1. \/ Becomes(s, At(v, "finish"), b, ms)
      \/ Becomes(s, At(y, "complete"), b, ms \o a)
      \/ Becomes(s, At(v, "complete"), b, ms)
  BY Zenon DEF Ended, At
<1>2. "finish" \in Pcs /\ "complete" \in Pcs
  BY DEF Pcs
<1>3. w \in SolverSet /\ Likewise(v, w)
  <2>1. v.own \in Vals
    BY SolverFields
  <2> QED
    BY <2>1, ImprovedIs DEF Likewise, Alongside
<1> HIDE DEF w
<1>4. y \in SolverSet /\ Likewise(w, y)
  BY <1>3, AnnouncedIs DEF Likewise, Alongside
<1>5. a \in Seq(ToCoord) /\ Quiet(a, s) /\ \A k \in DOMAIN a : a[k].src = s
  BY <1>3, QuietAnnouncement
<1> HIDE DEF y, a
<1>6. Base(lc, y, r) /\ Searched(lc, box[0], y, r, s) /\ Quits(y)
  <2>1. Base(lc, w, r) /\ Searched(lc, box[0], w, r, s) /\ Quits(w)
    BY <1>3, LikeSearched
  <2> QED
    BY <1>4, <2>1, LikeSearched
<1>7. /\ ms \o a \in Seq(ToCoord) /\ Quiet(ms \o a, s)
      /\ \A k \in DOMAIN (ms \o a) : (ms \o a)[k].src = s
  BY <1>5, QuietJoined
<1>8. Becomes(s, At(v, "finish"), b, ms) => CInv'
  BY <1>2, GoesOnCovers
<1>9. Becomes(s, At(v, "complete"), b, ms) => CInv'
  BY <1>2, GoesOnCovers
<1>10. Becomes(s, At(y, "complete"), b, ms \o a) => CInv'
  BY <1>2, <1>4, <1>6, <1>7, GoesOnCovers
<1> QED
  BY <1>1, <1>8, <1>9, <1>10

\* The callback.
LEMMA CallbackCovers ==
    ASSUME IInv, CInv, Live, NEW s \in Solvers, ~Gone(sv[s]), NEW v \in SolverSet, v.cur # NoNode,
           Base(lc, v, box[s]), Searched(lc, box[0], v, box[s], s), Midway(lc, box[0], v, box[s], s),
           Callback(s, v)
    PROVE  CInv'
<1> DEFINE r == HasReceived(v, box[s])
           y == Announced(r)
           w == Pending(y)
           a == Announcement(s, r)
<1>1. \/ (w.new # NoNode \/ w.term # "no" \/ w.open = {}) /\ Ended(s, w, Emptied(s), a)
      \/ Becomes(s, At(w, "report"), Emptied(s), a)
  BY Zenon DEF Callback, HasReceived, At
<1>2. lc \in CoordSet /\ box[s] \in Seq(ToSolver)
  BY SolverParts
<1>3. r \in SolverSet
  BY <1>2, AllReceived DEF Midway
<1>4. Base(lc, r, <<>>) /\ Searched(lc, box[0], r, <<>>, s)
  BY <1>2, AllStage DEF Stage
<1> HIDE DEF r
<1>5. y \in SolverSet /\ Likewise(r, y)
  BY <1>3, AnnouncedIs DEF Likewise, Alongside
<1>6. a \in Seq(ToCoord) /\ Quiet(a, s) /\ \A k \in DOMAIN a : a[k].src = s
  BY <1>3, QuietAnnouncement
<1> HIDE DEF y, a
<1>7. w \in SolverSet /\ Likewise(y, w)
  BY <1>5, PendingIs DEF Likewise
<1> HIDE DEF w
<1>8. Base(lc, w, <<>>) /\ Searched(lc, box[0], w, <<>>, s)
  BY <1>4, <1>5, <1>7, LikeSearched
<1>9. Emptied(s) = [box EXCEPT ![s] = <<>>] /\ <<>> \in Seq(ToSolver)
  BY DEF Emptied
<1>10. "report" \in Pcs /\ "report" # "await" /\ "report" # "complete"
  BY DEF Pcs
<1>11. ASSUME w.new # NoNode \/ w.term # "no" \/ w.open = {}, Ended(s, w, Emptied(s), a) PROVE CInv'
  <2>1. Quits(w)
    BY <1>11 DEF Quits
  <2> QED
    BY <1>6, <1>7, <1>8, <1>9, <1>11, <2>1, EndedCovers
<1>12. ASSUME Becomes(s, At(w, "report"), Emptied(s), a) PROVE CInv'
  BY <1>6, <1>7, <1>8, <1>9, <1>10, <1>12, GoesOnCovers
<1> QED
  BY <1>1, <1>11, <1>12

\* An event of SCIP.
LEMMA EventCovers ==
    ASSUME IInv, CInv, Live, NEW s \in Solvers, Event(s)
    PROVE  CInv'
<1>1. sv[s].pc \in {"solve", "report", "ask"} /\ Callback(s, sv[s])
  BY DEF Event, SolvingPcs
<1>2. ~Gone(sv[s]) /\ sv[s].pc # "idle"
  BY <1>1 DEF Gone
<1>3. sv[s] \in SolverSet /\ sv[s].cur # NoNode /\ Midway(lc, box[0], sv[s], box[s], s)
  BY <1>2, SolverParts DEF PcOk
<1>4. Base(lc, sv[s], box[s]) /\ Searched(lc, box[0], sv[s], box[s], s)
  BY <1>2, WorkParts
<1> QED
  BY <1>1, <1>2, <1>3, <1>4, CallbackCovers

\* The bound by which a leaf is cut off is a solution of the solver's own or
\* one the load coordinator knows.
LEMMA CutOff ==
    ASSUME NEW c \in CoordSet, NEW v \in SolverSet, Knows(c, v), NEW l \in Leaves, ~(Value[l] < Cut(v))
    PROVE  v.own <= Value[l] \/ Solved(c, l)
<1>1. v.inc \in Vals /\ v.own \in Vals /\ c.inc \in Vals
  BY SolverFields, CoordFields
<1>2. Value[l] \in Nat /\ Value[l] < Inf
  BY ValueAssumption, BoundAssumption DEF Inf
<1>3. v.inc \in Int /\ v.own \in Int /\ c.inc \in Int
  BY <1>1, ValsIs
<1>4. Cut(v) = v.inc \/ Cut(v) = v.own
  BY <1>1, LowerIs DEF Cut
<1>5. CASE Cut(v) = v.inc
  <2>1. v.inc <= Value[l] /\ v.inc < Inf
    BY <1>2, <1>3, <1>5 DEF Inf
  <2>2. c.inc <= v.inc
    BY <2>1 DEF Knows
  <2>3. c.inc <= Value[l]
    BY <1>2, <1>3, <2>1, <2>2
  <2> QED
    BY <2>3 DEF Solved
<1>6. CASE Cut(v) = v.own
  BY <1>2, <1>3, <1>6
<1> QED
  BY <1>4, <1>5, <1>6

\* The solver when it has found a solution in leaf l.
Explored(v, l) == IF Value[l] < Cut(v) THEN Improved(Found(v, Value[l]), Value[l]) ELSE v

\* What it holds then.
LEMMA ExploredIs ==
    ASSUME NEW v \in SolverSet, NEW l \in Leaves
    PROVE  /\ Explored(v, l) \in SolverSet /\ Explored(v, l).cur = v.cur /\ Explored(v, l).new = v.new
           /\ Alongside(v, Explored(v, l)) /\ Explored(v, l).open = v.open /\ Explored(v, l).term = v.term
           /\ Explored(v, l).own <= v.own
           /\ Value[l] < Cut(v) => Explored(v, l).own = Value[l]
<1>1. v.inc \in Vals /\ v.own \in Vals /\ Value[l] \in Vals
  BY SolverFields, ValsIs
<1>2. Cut(v) <= v.own /\ Cut(v) \in Vals
  BY <1>1, LowerIs DEF Cut
<1>3. v.own \in Int /\ Value[l] \in Int /\ Cut(v) \in Int
  BY <1>1, <1>2, ValsIs
<1>4. CASE Value[l] < Cut(v)
  <2> DEFINE u == Found(v, Value[l])
  <2>1. /\ u \in SolverSet /\ u.cur = v.cur /\ u.new = v.new /\ u.own = Value[l]
        /\ u.open = v.open /\ u.term = v.term /\ Alongside(v, u)
    BY <1>1 DEF Found, SolverSet, Alongside
  <2> HIDE DEF u
  <2>2. Explored(v, l) = Improved(u, Value[l])
    BY <1>4 DEF Explored, u
  <2>3. /\ Improved(u, Value[l]) \in SolverSet /\ Alongside(u, Improved(u, Value[l]))
        /\ Improved(u, Value[l]).own = u.own /\ Improved(u, Value[l]).open = u.open
        /\ Improved(u, Value[l]).term = u.term
    BY <1>1, <2>1, ImprovedIs
  <2> QED
    BY <1>2, <1>3, <1>4, <2>1, <2>2, <2>3 DEF Alongside
<1>5. CASE ~(Value[l] < Cut(v))
  BY <1>3, <1>5 DEF Explored, Alongside
<1> QED
  BY <1>4, <1>5

\* Its search is as it should be.
LEMMA ExploredSearched ==
    ASSUME NEW c \in CoordSet, NEW q, NEW v \in SolverSet, Knows(c, v), NEW r, NEW s, NEW l \in Leaves,
           Base(c, v, r), Searched(c, q, v, r, s)
    PROVE  LET u == Without(Explored(v, l), {l}) IN Base(c, u, r) /\ Searched(c, q, u, r, s)
<1> DEFINE w == Explored(v, l)
           u == Without(w, {l})
<1>1. /\ w \in SolverSet /\ w.cur = v.cur /\ w.new = v.new /\ w.open = v.open /\ w.term = v.term
      /\ w.own <= v.own /\ (Value[l] < Cut(v) => w.own = Value[l])
  BY ExploredIs
<1>2. /\ u.cur = v.cur /\ u.new = v.new /\ u.open = v.open \ {l} /\ u.term = v.term /\ u.own = w.own
  BY <1>1 DEF Without, SolverSet
<1>3. w.own \in Int /\ v.own \in Int
  BY <1>1, SolverFields, ValsIs
<1> HIDE DEF w, u
<1>4. Base(c, u, r)
  BY <1>2 DEF Base, Dismissed
<1>5. ASSUME u.new = NoNode, None(r, NewNodes), NEW k \in u.cur.leaves
      PROVE  k \in u.open \/ u.own <= Value[k] \/ Seen(c, q, Len(q) + 1, s, k)
  <2>1. k \in v.open \/ v.own <= Value[k] \/ Seen(c, q, Len(q) + 1, s, k)
    BY <1>2, <1>5 DEF Searched
  <2>2. k \in Leaves
    BY <1>2, <1>5, SolverFields, NodeTypes
  <2>3. Value[k] \in Int
    BY <2>2, ValueAssumption
  <2>4. CASE k \in v.open
    <3>1. k # l => k \in u.open
      BY <1>2, <2>4
    <3>2. Value[l] < Cut(v) => u.own <= Value[l]
      BY <1>1, <1>2, <1>3
    <3>3. ASSUME ~(Value[l] < Cut(v)), k = l PROVE u.own <= Value[k] \/ Seen(c, q, Len(q) + 1, s, k)
      <4>1. v.own <= Value[l] \/ Solved(c, l)
        BY <3>3, CutOff
      <4>2. v.own <= Value[k] => u.own <= Value[k]
        BY <1>1, <1>2, <1>3, <2>3
      <4> QED
        BY <3>3, <4>1, <4>2 DEF Seen
    <3> QED
      BY <3>1, <3>2, <3>3
  <2>5. CASE v.own <= Value[k]
    BY <1>1, <1>2, <1>3, <2>3, <2>5
  <2> QED
    BY <2>1, <2>4, <2>5
<1>6. Searched(c, q, u, r, s)
  BY <1>5 DEF Searched
<1> QED
  BY <1>4, <1>6 DEF u, w

\* SCIP evaluates a leaf.
LEMMA ExploreCovers ==
    ASSUME IInv, CInv, Live, NEW s \in Solvers, NEW l \in Leaves, Explore(s, l)
    PROVE  CInv'
<1> DEFINE v == sv[s]
           w == Explored(v, l)
           u == Without(w, {l})
<1>1. v.pc \in {"solve", "report", "ask"} /\ Callback(s, u)
  BY Zenon DEF Explore, SolvingPcs, Found, Without, Explored
<1>2. ~Gone(v) /\ v.pc # "idle"
  BY <1>1 DEF Gone
<1>3. v \in SolverSet /\ v.cur # NoNode /\ Knows(lc, v) /\ lc \in CoordSet
  BY <1>2, SolverParts DEF PcOk, Midway
<1>4. Base(lc, v, box[s]) /\ Searched(lc, box[0], v, box[s], s)
  BY <1>2, WorkParts
<1>5. Base(lc, u, box[s]) /\ Searched(lc, box[0], u, box[s], s)
  BY <1>3, <1>4, ExploredSearched
<1>6. w \in SolverSet /\ w.cur = v.cur /\ Alongside(v, w)
  BY <1>3, ExploredIs
<1>7. u \in SolverSet /\ Alongside(w, u)
  BY <1>6, FewerLeft
<1>8. u.cur # NoNode
  BY <1>3, <1>6, <1>7 DEF Alongside
<1> HIDE DEF u, w
<1>9. Midway(lc, box[0], u, box[s], s)
  <2>1. Midway(lc, box[0], w, box[s], s)
    BY <1>2, <1>6, SolverParts, MidwayFields
  <2> QED
    BY <1>7, <2>1, MidwayFields
<1> QED
  BY <1>1, <1>2, <1>5, <1>7, <1>8, <1>9, CallbackCovers

\* The solver's own solution has arrived or is on its way.
LEMMA OwnSeen ==
    ASSUME NEW c \in CoordSet, NEW q \in Seq(ToCoord), NEW v \in SolverSet, Keeps(c, q, v), NEW s,
           NEW l \in Leaves, v.own <= Value[l]
    PROVE  Seen(c, q, Len(q) + 1, s, l)
<1>1. v.own \in Int /\ c.inc \in Int /\ Value[l] \in Int /\ Value[l] < Inf /\ Inf \in Int
  BY SolverFields, CoordFields, ValsIs, BoundAssumption, ValueAssumption DEF Inf
<1>2. Arrives(c, q, v.own)
  BY <1>1 DEF Keeps
<1>3. CASE c.inc <= v.own
  BY <1>1, <1>3 DEF Seen, Solved
<1>4. CASE \E k \in DOMAIN q : q[k].tag = "Solution" /\ q[k].val <= v.own
  <2>1. PICK k \in DOMAIN q : q[k].tag = "Solution" /\ q[k].val <= v.own
    BY <1>4
  <2>2. q[k] \in ToCoord /\ k < Len(q) + 1
    BY <2>1
  <2>3. q[k].val \in Int
    BY <2>1, <2>2, ValsIs DEF ToCoord
  <2>4. q[k].val <= Value[l]
    BY <1>1, <2>1, <2>3
  <2>5. Brings(q, Len(q) + 1, s, l)
    BY <2>1, <2>2, <2>4 DEF Brings
  <2> QED
    BY <2>5 DEF Seen
<1> QED
  BY <1>2, <1>3, <1>4 DEF Arrives

\* What is to hold of the queue when s puts m about its node in it.
MaySend(c, q, m, s) ==
    /\ m \in Gifts(s) => /\ c.cur[s] # NoNode /\ \A l \in m.val.leaves : m.val.bound <= Value[l]
                         /\ None(q, Ends(s)) /\ None(q, Requests(s))
    /\ m \in Requests(s) => /\ None(q, Requests(s)) /\ None(q, Normals(s))
                            /\ \A l \in c.cur[s].leaves : m.val <= Value[l] \/ Seen(c, q, Len(q) + 1, s, l)
    /\ m \in Normals(s) => /\ None(q, Requests(s))
                           /\ \A l \in c.cur[s].leaves : Seen(c, q, Len(q) + 1, s, l)

\* Then what has to hold of the queue does.
LEMMA LineSent ==
    ASSUME NEW c, NEW q \in Seq(ToCoord), NEW m \in ToCoord, NEW s, MaySend(c, q, m, s), Line(c, q, s)
    PROVE  Line(c, q \o <<m>>, s)
<1> DEFINE z == q \o <<m>>
           n == Len(q) + 1
<1>1. /\ z \in Seq(ToCoord) /\ <<m>> \in Seq(ToCoord) /\ DOMAIN q = 1..Len(q) /\ DOMAIN z = 1..n
      /\ n \in Nat /\ Len(q) \in Nat /\ n > Len(q)
      /\ \A k \in DOMAIN q : z[k] = q[k] /\ k \in DOMAIN z /\ k < n
      /\ \A k \in DOMAIN z : k \in DOMAIN q \/ k = n
      /\ z[n] = m
  OBVIOUS
<1>2. ASSUME NEW k \in DOMAIN z, NEW l, Seen(c, q, k, s, l) PROVE Seen(c, z, k, s, l)
  <2>1. k \in Int /\ k <= k
    BY <1>1
  <2> QED
    BY <1>1, <1>2, <2>1, SeenFurther
<1>3. /\ \A T : None(z, T) <=> None(q, T) /\ m \notin T
      /\ \A T : Single(z, T) <=> One(q, T, <<m>>, T)
      /\ \A T : Single(<<m>>, T) <=> m \in T
      /\ \A T : None(<<m>>, T) <=> m \notin T
  <2>1. \A T : None(<<m>>, T) <=> m \notin T
    BY OneMessage
  <2>2. \A T : Single(<<m>>, T) <=> m \in T
    BY OneMessage
  <2>3. \A T : None(z, T) <=> None(q, T) /\ None(<<m>>, T)
    BY <1>1, JoinedQueue
  <2>4. \A T : Single(z, T) <=> One(q, T, <<m>>, T)
    BY <1>1, JoinedQueue
  <2> HIDE DEF z
  <2> QED
    BY <2>1, <2>2, <2>3, <2>4
<1>4. \A x : ~(x \in Requests(s) /\ x \in Normals(s)) /\ (x \in Gifts(s) => x \notin Requests(s) /\ x \notin Normals(s))
  BY DEF Requests, Normals, Gifts
<1> HIDE DEF z, n
<1>5. ASSUME m \in Gifts(s), NEW l \in m.val.leaves PROVE m.val.bound <= Value[l] /\ c.cur[s] # NoNode
  BY <1>5 DEF MaySend
<1>6. ASSUME NEW k \in DOMAIN z, z[k] \in Gifts(s)
      PROVE  c.cur[s] # NoNode /\ \A l \in z[k].val.leaves : z[k].val.bound <= Value[l]
  BY <1>1, <1>6 DEF Line, MaySend
<1>7. ASSUME NEW j \in DOMAIN z, NEW k \in DOMAIN z, z[k] \in Gifts(s), z[j] \in Ends(s) \cup Requests(s)
      PROVE  k < j
  <2>1. CASE k \in DOMAIN q /\ j \in DOMAIN q
    BY <1>1, <1>7, <2>1 DEF Line
  <2>2. CASE k \in DOMAIN q /\ j = n
    BY <1>1, <2>2
  <2>3. CASE k = n /\ j \in DOMAIN q
    BY <1>1, <1>7, <2>3 DEF MaySend, None
  <2>4. CASE k = n /\ j = n
    BY <1>1, <1>7, <2>4 DEF Gifts, Ends, Requests
  <2> QED
    BY <1>1, <2>1, <2>2, <2>3, <2>4
<1>8. None(z, Requests(s)) \/ None(z, Normals(s))
  BY <1>3, <1>4 DEF Line, MaySend
<1>9. None(z, Requests(s)) \/ Single(z, Requests(s))
  BY <1>3 DEF Line, MaySend, One
<1>10. ASSUME NEW k \in DOMAIN z, z[k] \in Requests(s), NEW l \in c.cur[s].leaves
       PROVE  z[k].val <= Value[l] \/ Seen(c, z, k, s, l)
  <2>1. CASE k \in DOMAIN q
    <3>1. q[k].val <= Value[l] \/ Seen(c, q, k, s, l)
      BY <1>1, <1>10, <2>1 DEF Line
    <3> QED
      BY <1>1, <1>2, <2>1, <3>1
  <2>2. CASE k = n
    <3>1. m.val <= Value[l] \/ Seen(c, q, n, s, l)
      BY <1>1, <1>10, <2>2 DEF MaySend, n
    <3> QED
      BY <1>1, <1>2, <2>2, <3>1
  <2> QED
    BY <1>1, <2>1, <2>2
<1>11. ASSUME NEW k \in DOMAIN z, z[k] \in Normals(s), NEW l \in c.cur[s].leaves
       PROVE  Seen(c, z, k, s, l)
  <2>1. CASE k \in DOMAIN q
    <3>1. Seen(c, q, k, s, l)
      BY <1>1, <1>11, <2>1 DEF Line
    <3> QED
      BY <1>1, <1>2, <2>1, <3>1
  <2>2. CASE k = n
    <3>1. Seen(c, q, n, s, l)
      BY <1>1, <1>11, <2>2 DEF MaySend, n
    <3> QED
      BY <1>1, <1>2, <2>2, <3>1
  <2> QED
    BY <1>1, <2>1, <2>2
<1>12. Line(c, z, s)
  BY <1>6, <1>7, <1>8, <1>9, <1>10, <1>11 DEF Line
<1> QED
  BY <1>12 DEF z

\* A solver that has no request on its way.
LEMMA NotAsked ==
    ASSUME IInv, NEW s \in Solvers, ~Gone(sv[s]), NEW v, NEW r, Midway(lc, box[0], v, r, s), v.cur # NoNode, ~v.asked
    PROVE  /\ None(box[0], Requests(s)) /\ None(box[0], Ends(s)) /\ None(box[0], Normals(s)) /\ None(r, NewNodes)
           /\ lc.cur[s] # NoNode
           /\ v.new = NoNode => lc.cur[s].leaves = v.cur.leaves
<1>1. /\ v \in SolverSet /\ r \in Seq(ToSolver) /\ Talks(lc.cur[s], box[0], v, r, s) /\ lc.cur[s] \in MaybeNode
  BY SolverParts DEF Midway
<1>2. None(box[0], Ends(s)) /\ lc.cur[s] # NoNode
  BY <1>1, HasNode
<1>3. None(box[0], Requests(s)) /\ None(r, NewNodes)
  BY <1>1 DEF Talks, Asks
<1>4. \A m \in Normals(s) : m \in Ends(s)
  BY DEF Normals, Ends
<1>5. None(box[0], Normals(s))
  BY <1>2, <1>4 DEF None
<1>6. Same(lc.cur[s], Has(v))
  BY <1>1, <1>2, <1>3 DEF Talks, Agrees
<1> QED
  BY <1>2, <1>3, <1>5, <1>6 DEF Has, Same

\* The bound of some leaves is one of each of them.
LEMMA BoundOfIs ==
    ASSUME NEW ls \in SUBSET Leaves, NEW l \in ls
    PROVE  BoundOf(ls) <= Value[l]
<1> DEFINE T == {Bound[k] : k \in ls} \cup {Inf}
<1>1. T \subseteq Nat /\ T # {} /\ Bound[l] \in T
  BY BoundAssumption DEF Inf
<1> HIDE DEF T
<1>2. Least(T) \in T /\ Least(T) \in Nat /\ Least(T) <= Bound[l]
  BY <1>1, LeastIs
<1>3. Bound[l] <= Value[l] /\ Bound[l] \in Nat /\ Value[l] \in Nat
  BY BoundAssumption, ValueAssumption
<1>4. Least(T) <= Value[l]
  BY <1>2, <1>3
<1> QED
  BY <1>4 DEF BoundOf, T

\* A step of a solver that sends a message about its node.
LEMMA SendsCovers ==
    ASSUME IInv, CInv, Live, NEW s \in Solvers, NEW v \in SolverSet, NEW r \in Seq(ToSolver),
           NEW m \in ToCoord, m.src = s, Line(lc, box[0], s), MaySend(lc, box[0], m, s),
           NEW b, b = [box EXCEPT ![s] = r], Becomes(s, v, b, <<m>>),
           ~Gone(v) => Works(lc, box[0] \o <<m>>, v, r, s) /\ Awaits(v)
    PROVE  CInv'
<1>1. <<m>> \in Seq(ToCoord) /\ \A k \in DOMAIN <<m>> : <<m>>[k].src = s
  BY SilentSent
<1>2. box[0] \in Seq(ToCoord)
  BY CoordParts DEF IInv
<1>3. Line(lc, box[0] \o <<m>>, s)
  BY <1>2, LineSent
<1>4. Part(lc, box[0] \o <<m>>, v, r, s)
  BY <1>3 DEF Part
<1> QED
  BY <1>1, <1>4, BecomesCovers

\* The dual bound the solver tells is one of every leaf it has left.
LEMMA DualBoundFits ==
    ASSUME NEW c, NEW v \in SolverSet, Fits(c, v.cur), NEW l \in v.open, l \in v.cur.leaves
    PROVE  DualBound(v) <= Value[l] \/ Solved(c, l)
<1>1. CASE v.open = v.cur.leaves
  BY <1>1 DEF DualBound, Fits
<1>2. CASE v.open # v.cur.leaves
  <2>1. v.open \in SUBSET Leaves
    BY SolverFields
  <2>2. BoundOf(v.open) <= Value[l]
    BY <2>1, BoundOfIs
  <2> QED
    BY <1>2, <2>2 DEF DualBound
<1> QED
  BY <1>1, <1>2

\* sendAnotherNodeRequest, by a solver that holds no new node.
LEMMA AskCovers ==
    ASSUME IInv, CInv, Live, ~Reasks, NEW s \in Solvers, Ask(s)
    PROVE  CInv'
<1> DEFINE v == sv[s]
           m == Msg("AnotherNodeRequest", s, DualBound(v))
           u == Asked(v)
           q == box[0]
           r == box[s]
<1>1. /\ v.pc \in {"report", "ask"} /\ ~v.asked /\ v.new = NoNode
      /\ Becomes(s, [v EXCEPT !.asked = TRUE, !.pc = "solve"], box, <<m>>)
  BY DEF Ask
<1>2. ~Gone(v) /\ v.pc # "idle"
  BY <1>1 DEF Gone
<1>3. /\ v \in SolverSet /\ Midway(lc, q, v, r, s) /\ v.cur # NoNode /\ r \in Seq(ToSolver)
      /\ q \in Seq(ToCoord) /\ lc \in CoordSet /\ Keeps(lc, q, v)
  BY <1>2, SolverParts DEF PcOk, Live
<1>4. DualBound(v) \in Nat
  BY <1>3, DualBoundIs
<1>5. m \in ToCoord /\ m.src = s /\ m.tag = "AnotherNodeRequest" /\ m.val = DualBound(v)
  BY <1>4 DEF ToCoord, Msg
<1>6. m \notin Gifts(s) /\ m \notin Normals(s)
  BY <1>5 DEF Gifts, Normals
<1>7. u \in SolverSet /\ Likewise(v, u)
  BY <1>3 DEF Asked, SolverSet, Likewise
<1>8. Becomes(s, At(u, "solve"), box, <<m>>)
  BY <1>1 DEF At, Asked
<1>9. box = [box EXCEPT ![s] = r]
  BY DEF IInv, CoordOk, Typed
<1>10. Line(lc, q, s) /\ Base(lc, v, r) /\ Searched(lc, q, v, r, s)
  BY <1>2, WorkParts
<1>11. /\ None(q, Requests(s)) /\ None(q, Normals(s)) /\ None(r, NewNodes)
       /\ lc.cur[s].leaves = v.cur.leaves
  BY <1>1, <1>2, <1>3, NotAsked
<1> HIDE DEF m, u
<1>12. ASSUME NEW l \in lc.cur[s].leaves PROVE m.val <= Value[l] \/ Seen(lc, q, Len(q) + 1, s, l)
  <2>1. l \in v.cur.leaves /\ l \in Leaves
    BY <1>3, <1>11, <1>12, SolverFields, NodeTypes
  <2>2. l \in v.open \/ v.own <= Value[l] \/ Seen(lc, q, Len(q) + 1, s, l)
    BY <1>1, <1>10, <1>11, <2>1 DEF Searched
  <2>3. CASE l \in v.open
    <3>1. DualBound(v) <= Value[l] \/ Solved(lc, l)
      BY <1>3, <1>10, <2>1, <2>3, DualBoundFits DEF Base
    <3> QED
      BY <1>5, <3>1 DEF Seen
  <2>4. CASE v.own <= Value[l]
    BY <1>3, <2>1, <2>4, OwnSeen
  <2> QED
    BY <2>2, <2>3, <2>4
<1>13. MaySend(lc, q, m, s)
  BY <1>6, <1>11, <1>12 DEF MaySend
<1>14. "solve" \in Pcs
  BY DEF Pcs
<1>15. Works(lc, q, At(u, "solve"), r, s) /\ Awaits(At(u, "solve"))
  <2>1. Base(lc, u, r) /\ Searched(lc, q, u, r, s)
    BY <1>7, <1>10, LikeSearched
  <2> QED
    BY <1>7, <1>14, <2>1, AtWorks
<1>16. Works(lc, q \o <<m>>, At(u, "solve"), r, s)
  <2>1. <<m>> \in Seq(ToCoord)
    BY <1>5, SilentSent
  <2> QED
    BY <1>3, <1>15, <2>1, WorksPosted
<1>17. At(u, "solve") \in SolverSet
  BY <1>7, <1>14, AtIs
<1> QED
  BY <1>3, <1>5, <1>8, <1>9, <1>10, <1>13, <1>15, <1>16, <1>17, SendsCovers

\* sendParaNode.
LEMMA GiveCovers ==
    ASSUME IInv, CInv, Live, NEW s \in Solvers, NEW ls \in SUBSET Leaves, Give(s, ls)
    PROVE  CInv'
<1> DEFINE v == sv[s]
           m == Msg("Node", s, [leaves |-> ls, bound |-> BoundOf(ls)])
           u == Without(v, ls)
           q == box[0]
           r == box[s]
           z == q \o <<m>>
<1>1. /\ v.pc \in {"report", "ask"} /\ ~v.asked /\ ls # {}
      /\ Becomes(s, [v EXCEPT !.open = @ \ ls, !.pc = "waitack"], box, <<m>>)
  BY DEF Give
<1>2. ~Gone(v) /\ v.pc # "idle"
  BY <1>1 DEF Gone
<1>3. /\ v \in SolverSet /\ Midway(lc, q, v, r, s) /\ v.cur # NoNode /\ r \in Seq(ToSolver)
      /\ q \in Seq(ToCoord) /\ lc \in CoordSet
  BY <1>2, SolverParts DEF PcOk
<1>4. BoundOf(ls) \in Nat
  BY <1>3, DualBoundIs
<1>5. m \in ToCoord /\ m.src = s /\ m.tag = "Node" /\ m.val.leaves = ls /\ m.val.bound = BoundOf(ls)
  BY <1>1, <1>4 DEF ToCoord, Msg
<1>6. m \in Gifts(s) /\ m \notin Requests(s) /\ m \notin Normals(s)
  BY <1>5 DEF Gifts, Requests, Normals
<1>7. u \in SolverSet /\ u.cur = v.cur /\ u.new = v.new /\ u.open = v.open \ ls /\ u.term = v.term /\ u.own = v.own
  BY <1>3 DEF Without, SolverSet
<1>8. Becomes(s, At(u, "waitack"), box, <<m>>)
  BY <1>1 DEF At, Without
<1>9. box = [box EXCEPT ![s] = r]
  BY DEF IInv, CoordOk, Typed
<1>10. Line(lc, q, s) /\ Base(lc, v, r) /\ Searched(lc, q, v, r, s)
  BY <1>2, WorkParts
<1>11. None(q, Requests(s)) /\ None(q, Ends(s)) /\ lc.cur[s] # NoNode
  BY <1>1, <1>2, <1>3, NotAsked
<1>12. \A l \in ls : BoundOf(ls) <= Value[l]
  BY BoundOfIs
<1> HIDE DEF m, u
<1>13. MaySend(lc, q, m, s)
  BY <1>5, <1>6, <1>11, <1>12 DEF MaySend
<1>14. /\ <<m>> \in Seq(ToCoord) /\ z \in Seq(ToCoord) /\ z[Len(q) + 1] = m /\ Len(q) + 1 \in DOMAIN z
       /\ Len(q) + 1 < Len(z) + 1 /\ Len(q) + 1 <= Len(z) + 1 /\ Len(q) + 1 \in Int /\ Len(z) + 1 \in Int
  BY <1>3, <1>5
<1>15. ASSUME u.new = NoNode, None(r, NewNodes), NEW l \in u.cur.leaves
       PROVE  l \in u.open \/ u.own <= Value[l] \/ Seen(lc, z, Len(z) + 1, s, l)
  <2>1. l \in v.open \/ v.own <= Value[l] \/ Seen(lc, q, Len(q) + 1, s, l)
    BY <1>7, <1>10, <1>15 DEF Searched
  <2>2. CASE l \in ls
    <3> HIDE DEF z
    <3>1. Brings(z, Len(z) + 1, s, l)
      BY <1>5, <1>6, <1>14, <2>2 DEF Brings
    <3> QED
      BY <3>1 DEF Seen
  <2>3. Seen(lc, q, Len(q) + 1, s, l) => Seen(lc, z, Len(z) + 1, s, l)
    BY <1>3, <1>14, SeenFurther
  <2> QED
    BY <1>7, <2>1, <2>2, <2>3
<1>16. Base(lc, u, r) /\ Searched(lc, z, u, r, s)
  <2>1. Base(lc, u, r)
    BY <1>7, <1>10 DEF Base, Dismissed
  <2> QED
    BY <1>15, <2>1 DEF Searched
<1>17. "waitack" \in Pcs
  BY DEF Pcs
<1>18. Works(lc, z, At(u, "waitack"), r, s) /\ Awaits(At(u, "waitack"))
  BY <1>7, <1>16, <1>17, AtWorks
<1>19. At(u, "waitack") \in SolverSet
  BY <1>7, <1>17, AtIs
<1> QED
  BY <1>3, <1>5, <1>8, <1>9, <1>10, <1>13, <1>18, <1>19, SendsCovers

\* A solver that starts with a node.
LEMMA StartedWorks ==
    ASSUME NEW c, NEW q, NEW v \in SolverSet, NEW r, NEW s, NEW x, Base(c, v, r)
    PROVE  /\ Started(v, x) \in SolverSet
           /\ Works(c, q, Started(v, x), r, s) /\ Awaits(Started(v, x))
<1> DEFINE w == Pending(v)
           o == IF x /\ w.best < w.inc THEN w.best ELSE Inf
           u == Started(v, x)
<1>1. w \in SolverSet /\ Likewise(v, w)
  BY PendingIs DEF Likewise
<1>2. u = [w EXCEPT !.pc = "report", !.open = w.cur.leaves, !.own = o]
  BY DEF Started
<1> HIDE DEF w
<1>3. w.cur \in MaybeNode /\ w.best \in Vals
  BY <1>1, SolverFields
<1>4. w.cur.leaves \subseteq Leaves
  BY <1>3, NodeTypes
<1>5. o \in Vals
  BY <1>3, ValsIs DEF Inf
<1> HIDE DEF o, u
<1>6. /\ u \in SolverSet /\ u.cur = w.cur /\ u.new = w.new /\ u.term = w.term /\ u.open = w.cur.leaves
      /\ u.pc = "report"
  BY <1>1, <1>2, <1>4, <1>5 DEF SolverSet
<1>7. Base(c, w, r)
  BY <1>1, LikeSearched
<1>8. Base(c, u, r)
  BY <1>6, <1>7 DEF Base, Dismissed
<1>9. Searched(c, q, u, r, s)
  BY <1>6 DEF Searched
<1>10. Works(c, q, u, r, s) /\ Awaits(u)
  BY <1>6, <1>8, <1>9, WorksAre DEF Awaits
<1> QED
  BY <1>6, <1>10 DEF u

\* receiveNewNodeAndReactivate.
LEMMA IdleCovers ==
    ASSUME IInv, CInv, Live, NEW s \in Solvers, Idle(s)
    PROVE  CInv'
<1>1. sv[s].pc = "idle" /\ ~Gone(sv[s])
  BY DEF Idle, Gone
<1>2. PICK k \in DOMAIN box[s], x \in BOOLEAN :
        Becomes(s, IF Upto(s, k).cur # NoNode THEN Started(Upto(s, k), x) ELSE At(Upto(s, k), "exit"),
                Rest(s, k), <<>>)
  BY Zenon DEF Idle, At
<1>3. box[s] \in Seq(ToSolver) /\ Base(lc, sv[s], box[s])
  BY <1>1, SolverParts, WorkParts
<1>4. k \in 0..Len(box[s])
  BY <1>3
<1> DEFINE v == Upto(s, k)
           r == Suffix(box[s], k)
<1>5. Midway(lc, box[0], v, r, s) /\ Rest(s, k) = [box EXCEPT ![s] = r] /\ r \in Seq(ToSolver)
  BY <1>1, <1>4, UptoIs
<1>6. Stage(lc, box[0], sv[s], box[s], s, v, r)
  BY <1>1, <1>3, <1>4, UptoStage
<1>7. Becomes(s, IF v.cur # NoNode THEN Started(v, x) ELSE At(v, "exit"), Rest(s, k), <<>>)
  BY <1>2
<1> HIDE DEF v, r
<1>8. v \in SolverSet /\ Base(lc, v, r)
  BY <1>5, <1>6 DEF Midway, Stage
<1>9. CASE v.cur # NoNode
  <2>1. Becomes(s, Started(v, x), Rest(s, k), <<>>)
    BY <1>7, <1>9
  <2>2. Started(v, x) \in SolverSet /\ Works(lc, box[0], Started(v, x), r, s) /\ Awaits(Started(v, x))
    BY <1>8, StartedWorks
  <2> DEFINE u == Started(v, x)
  <2> HIDE DEF u
  <2>3. Becomes(s, u, Rest(s, k), <<>>) /\ u \in SolverSet /\ Works(lc, box[0], u, r, s) /\ Awaits(u)
    BY <2>1, <2>2, Zenon DEF u
  <2> QED
    BY <1>1, <1>5, <2>3, QuietNothing, QuietCovers
<1>10. CASE v.cur = NoNode
  <2>1. Becomes(s, At(v, "exit"), Rest(s, k), <<>>)
    BY <1>7, <1>10
  <2> QED
    BY <1>1, <1>5, <1>8, <2>1, LeavesCovers
<1> QED
  BY <1>9, <1>10

\* What is to hold when a solver tells its node to be solved.
MayConclude(c, v, state) ==
    /\ state \in {"normal", "another", "interrupt"}
    /\ state = "normal" => v.new = NoNode /\ ~v.asked /\ (v.open = {} \/ AllSolved(c))

\* Then the load coordinator may be told.
LEMMA EndMaySend ==
    ASSUME IInv, Live, NEW s \in Solvers, ~Gone(sv[s]), NEW v, NEW r, Settled(lc, box[0], v, r, s),
           Searched(lc, box[0], v, r, s), NEW state, MayConclude(lc, v, state)
    PROVE  MaySend(lc, box[0], EndMsg(s, state), s)
<1> DEFINE m == EndMsg(s, state)
           q == box[0]
<1>1. m.tag = "Completion" /\ m.val = state
  BY DEF EndMsg, Msg
<1>2. m \notin Gifts(s) /\ m \notin Requests(s) /\ (m \in Normals(s) => state = "normal")
  BY <1>1 DEF Gifts, Requests, Normals
<1>3. /\ v \in SolverSet /\ Midway(lc, q, v, r, s) /\ v.cur # NoNode /\ Keeps(lc, q, v)
  BY DEF Settled, Midway, Live
<1>4. lc \in CoordSet /\ q \in Seq(ToCoord)
  BY SolverParts
<1> HIDE DEF m, q
<1>5. ASSUME state = "normal"
      PROVE  None(q, Requests(s)) /\ \A l \in lc.cur[s].leaves : Seen(lc, q, Len(q) + 1, s, l)
  <2>1. v.new = NoNode /\ ~v.asked /\ (v.open = {} \/ AllSolved(lc))
    BY <1>5 DEF MayConclude
  <2>2. None(q, Requests(s)) /\ None(r, NewNodes) /\ lc.cur[s].leaves = v.cur.leaves
    BY <1>3, <2>1, NotAsked DEF q
  <2>3. ASSUME NEW l \in lc.cur[s].leaves PROVE Seen(lc, q, Len(q) + 1, s, l)
    <3>1. l \in v.cur.leaves /\ l \in Leaves
      BY <1>3, <2>2, <2>3, SolverFields, NodeTypes
    <3>2. l \in v.open \/ v.own <= Value[l] \/ Seen(lc, q, Len(q) + 1, s, l)
      BY <2>1, <2>2, <3>1 DEF Searched, q
    <3>3. v.own <= Value[l] => Seen(lc, q, Len(q) + 1, s, l)
      BY <1>3, <1>4, <3>1, OwnSeen
    <3>4. AllSolved(lc) => Seen(lc, q, Len(q) + 1, s, l)
      BY <3>1 DEF AllSolved, Seen
    <3> QED
      BY <2>1, <3>2, <3>3, <3>4
  <2> QED
    BY <2>2, <2>3
<1>6. MaySend(lc, q, m, s)
  BY <1>2, <1>5 DEF MaySend
<1> QED
  BY <1>6 DEF m, q

\* sendCompletionOfCalculation, and what follows.
LEMMA CompletedByCovers ==
    ASSUME IInv, CInv, Live, NEW s \in Solvers, ~Gone(sv[s]), NEW v, NEW r, Settled(lc, box[0], v, r, s),
           Base(lc, v, r), Searched(lc, box[0], v, r, s),
           NEW state, MayConclude(lc, v, state), NEW b, b = [box EXCEPT ![s] = r], CompletedBy(s, v, b, state)
    PROVE  CInv'
<1> DEFINE w == Ending(v)
           m == EndMsg(s, state)
           q == box[0]
<1>1. /\ v.term # "no" => Becomes(s, At(w, "exit"), b, <<m>>)
      /\ v.term = "no" /\ v.new = NoNode => Becomes(s, At(w, "idle"), b, <<m>>)
      /\ v.term = "no" /\ v.new # NoNode => \E x \in BOOLEAN : Becomes(s, Started(w, x), b, <<m>>)
  BY Zenon DEF CompletedBy, At, Ending, EndMsg
<1>2. v \in SolverSet /\ r \in Seq(ToSolver)
  BY DEF Settled, Midway
<1>3. w \in SolverSet /\ w.cur = v.new /\ w.new = NoNode /\ w.term = v.term
  BY <1>2, EndingIs
<1>4. m \in ToCoord /\ m.src = s
  BY EndMsgIs DEF MayConclude
<1>5. MaySend(lc, q, m, s)
  BY EndMaySend
<1>6. Line(lc, q, s) /\ q \in Seq(ToCoord)
  BY WorkParts, SolverParts
<1>7. <<m>> \in Seq(ToCoord)
  BY <1>4, SilentSent
<1> HIDE DEF w, m
<1>8. Base(lc, w, r)
  <2>1. NoNode.leaves = {}
    BY NodeTypes
  <2> QED
    BY <1>3, <2>1 DEF Base, Fits, Dismissed
<1>9. ASSUME v.term # "no" PROVE CInv'
  <2>1. At(w, "exit") \in SolverSet /\ Gone(At(w, "exit"))
    BY <1>3, AtIs DEF Pcs, Gone
  <2> QED
    BY <1>1, <1>2, <1>4, <1>5, <1>6, <1>9, <2>1, SendsCovers
<1>10. ASSUME v.term = "no", v.new = NoNode PROVE CInv'
  <2>1. "idle" \in Pcs
    BY DEF Pcs
  <2>2. At(w, "idle") \in SolverSet
    BY <1>3, <2>1, AtIs
  <2>3. Works(lc, q, At(w, "idle"), r, s) /\ Awaits(At(w, "idle"))
    BY <1>3, <1>8, <2>1, AtWorks
  <2>4. Works(lc, q \o <<m>>, At(w, "idle"), r, s)
    BY <1>6, <1>7, <2>3, WorksPosted
  <2> QED
    BY <1>1, <1>2, <1>4, <1>5, <1>6, <1>10, <2>2, <2>3, <2>4, SendsCovers
<1>11. ASSUME v.term = "no", v.new # NoNode PROVE CInv'
  <2>1. PICK x \in BOOLEAN : Becomes(s, Started(w, x), b, <<m>>)
    BY <1>1, <1>11
  <2> DEFINE u == Started(w, x)
  <2>2. u \in SolverSet /\ Works(lc, q, u, r, s) /\ Awaits(u)
    BY <1>3, <1>8, StartedWorks
  <2>3. Becomes(s, u, b, <<m>>)
    BY <2>1
  <2> HIDE DEF u
  <2>4. Works(lc, q \o <<m>>, u, r, s)
    BY <1>6, <1>7, <2>2, WorksPosted
  <2> QED
    BY <1>2, <1>4, <1>5, <1>6, <2>2, <2>3, <2>4, SendsCovers
<1> QED
  BY <1>9, <1>10, <1>11

\* A solver at the end of its node, having handled all its messages.
LEMMA DrainedStage ==
    ASSUME IInv, CInv, Live, NEW s \in Solvers, ~Gone(sv[s])
    PROVE  Stage(lc, box[0], sv[s], box[s], s, Drained(s), <<>>)
<1>1. box[s] \in Seq(ToSolver) /\ Base(lc, sv[s], box[s])
  BY SolverParts, WorkParts
<1>2. Len(box[s]) \in 0..Len(box[s])
  BY <1>1
<1>3. Suffix(box[s], Len(box[s])) = <<>>
  BY <1>1, <1>2, SuffixIs
<1>4. Stage(lc, box[0], sv[s], box[s], s, Upto(s, Len(box[s])), Suffix(box[s], Len(box[s])))
  BY <1>1, <1>2, UptoStage
<1> QED
  BY <1>3, <1>4 DEF Drained

\* iReceiveMessages and sendCompletionOfCalculation.
LEMMA CompleteCovers ==
    ASSUME IInv, CInv, Live, NEW s \in Solvers, Complete(s)
    PROVE  CInv'
<1> DEFINE v == Drained(s)
           state == IF v.term = "interrupted" THEN "interrupt"
                    ELSE IF v.new # NoNode THEN "another" ELSE "normal"
<1>1. /\ sv[s].pc = "complete"
      /\ IF v.term # "interrupted" /\ v.new = NoNode /\ v.asked
         THEN Becomes(s, At(v, "await"), Emptied(s), <<>>)
         ELSE CompletedBy(s, v, Emptied(s), state)
  BY Zenon DEF Complete, At
<1>2. ~Gone(sv[s]) /\ sv[s].pc # "idle"
  BY <1>1 DEF Gone
<1>3. Settled(lc, box[0], sv[s], box[s], s) /\ Searched(lc, box[0], sv[s], box[s], s) /\ Quits(sv[s])
  BY <1>1, <1>2, Working, WorkParts
<1>4. /\ Midway(lc, box[0], v, <<>>, s) /\ Passive(sv[s], v)
      /\ Emptied(s) = [box EXCEPT ![s] = <<>>] /\ <<>> \in Seq(ToSolver)
  BY <1>2, DrainedIs
<1>5. Stage(lc, box[0], sv[s], box[s], s, v, <<>>)
  BY <1>2, DrainedStage
<1>6. /\ state \in {"normal", "another", "interrupt"}
      /\ state = "normal" => v.new = NoNode /\ v.term # "interrupted"
  OBVIOUS
<1> HIDE DEF v, state
<1>7. Settled(lc, box[0], v, <<>>, s)
  BY <1>3, <1>4, PassiveSettled DEF Settled, Passive
<1>8. v \in SolverSet /\ v.open = sv[s].open
  BY <1>4 DEF Midway, Passive
<1>9. Base(lc, v, <<>>) /\ Searched(lc, box[0], v, <<>>, s)
  BY <1>3, <1>5 DEF Stage, Settled
<1>10. Quits(v)
  BY <1>3, <1>5, <1>8 DEF Quits, Stage, Firmer
<1>11. ASSUME v.new = NoNode, v.term # "interrupted" PROVE v.open = {} \/ (v.term = "normal" /\ AllSolved(lc))
  <2>1. v.term \in {"no", "normal", "interrupted"}
    BY <1>8, SolverFields
  <2>2. v.open = {} \/ v.term = "normal"
    BY <1>10, <1>11, <2>1 DEF Quits
  <2>3. v.term = "normal" => AllSolved(lc)
    BY <1>9 DEF Base, Dismissed
  <2> QED
    BY <2>2, <2>3
<1>12. CASE v.term # "interrupted" /\ v.new = NoNode /\ v.asked
  <2> DEFINE u == At(v, "await")
  <2>1. Becomes(s, u, Emptied(s), <<>>)
    BY <1>1, <1>12
  <2>2. /\ u \in SolverSet /\ u.pc = "await" /\ Likewise(v, u)
    BY <1>8, AtIs DEF Pcs, Likewise, Alongside
  <2> HIDE DEF u
  <2>3. Base(lc, u, <<>>) /\ Searched(lc, box[0], u, <<>>, s)
    BY <1>9, <2>2, LikeSearched
  <2>4. Works(lc, box[0], u, <<>>, s)
    BY <2>2, <2>3, WorksAre
  <2>5. Awaits(u)
    BY <1>11, <1>12, <2>2 DEF Awaits, Likewise
  <2> QED
    BY <1>2, <1>4, <2>1, <2>2, <2>4, <2>5, QuietNothing, QuietCovers
<1>13. CASE ~(v.term # "interrupted" /\ v.new = NoNode /\ v.asked)
  <2>1. MayConclude(lc, v, state)
    BY <1>6, <1>11, <1>13 DEF MayConclude
  <2>2. CompletedBy(s, v, Emptied(s), state)
    BY <1>1, <1>13
  <2> QED
    BY <1>2, <1>4, <1>7, <1>9, <2>1, <2>2, CompletedByCovers
<1> QED
  BY <1>12, <1>13

\* The loop that waits for the answer to the request.
LEMMA AwaitCovers ==
    ASSUME IInv, CInv, Live, NEW s \in Solvers, Await(s)
    PROVE  CInv'
<1>1. sv[s].pc = "await" /\ ~Gone(sv[s]) /\ sv[s].pc # "idle"
  BY DEF Await, Gone
<1>2. PICK k \in DOMAIN box[s] :
        /\ Upto(s, k).new # NoNode \/ ~Upto(s, k).asked
        /\ CompletedBy(s, Upto(s, k), Rest(s, k), IF Upto(s, k).new # NoNode THEN "another" ELSE "normal")
  BY Zenon DEF Await
<1>3. /\ box[s] \in Seq(ToSolver) /\ Settled(lc, box[0], sv[s], box[s], s)
  BY <1>1, SolverParts, Working
<1>4. /\ Base(lc, sv[s], box[s]) /\ Searched(lc, box[0], sv[s], box[s], s)
      /\ sv[s].open = {} \/ sv[s].term = "normal"
  BY <1>1, WorkParts DEF Awaits
<1>5. k \in 0..Len(box[s])
  BY <1>3
<1> DEFINE v == Upto(s, k)
           r == Suffix(box[s], k)
           state == IF v.new # NoNode THEN "another" ELSE "normal"
<1>6. /\ Midway(lc, box[0], v, r, s) /\ Passive(sv[s], v) /\ Rest(s, k) = [box EXCEPT ![s] = r]
  BY <1>1, <1>5, UptoIs
<1>7. Stage(lc, box[0], sv[s], box[s], s, v, r)
  BY <1>1, <1>4, <1>5, UptoStage
<1>8. state \in {"normal", "another", "interrupt"} /\ (state = "another" <=> v.new # NoNode)
  OBVIOUS
<1>9. (v.new # NoNode \/ ~v.asked) /\ CompletedBy(s, v, Rest(s, k), state)
  BY <1>2
<1> HIDE DEF v, r, state
<1>10. Settled(lc, box[0], v, r, s)
  BY <1>3, <1>6, PassiveSettled DEF Settled, Passive
<1>11. Base(lc, v, r) /\ Searched(lc, box[0], v, r, s)
  BY <1>3, <1>4, <1>7 DEF Stage, Settled
<1>12. v.open = {} \/ AllSolved(lc)
  BY <1>4, <1>6 DEF Passive, Base, Dismissed
<1>13. MayConclude(lc, v, state)
  BY <1>8, <1>9, <1>12 DEF MayConclude
<1> QED
  BY <1>1, <1>6, <1>9, <1>10, <1>11, <1>13, CompletedByCovers

\* The end of solve is never waited for.
LEMMA NoFinish ==
    ASSUME IInv, Live, NEW s \in Solvers
    PROVE  ~Finish(s)
<1>1. ASSUME Finish(s) PROVE FALSE
  <2>1. sv[s].pc = "finish"
    BY <1>1 DEF Finish, Answered
  <2>2. ~Gone(sv[s])
    BY <2>1 DEF Gone
  <2> QED
    BY <2>1, <2>2, SolverParts DEF Live, Paced
<1> QED
  BY <1>1

\* Where the load coordinator is at its end, the solvers change nothing of it.
LEMMA EndStays ==
    ASSUME CInv, ~Live, UNCHANGED <<lc, sync>>
    PROVE  CInv'
<1>1. ASSUME sync' PROVE Outcome(lc, box)'
  <2>1. sync /\ lc.pc \notin {"run", "check"} /\ Outcome(lc, box)
    BY <1>1 DEF Live, CInv
  <2> QED
    BY <2>1 DEF Outcome, AllSolved, Solved
<1> QED
  BY <1>1 DEF CInv

\* No step of a solver changes the load coordinator.
LEMMA SolveLeaves ==
    ASSUME NEW s \in Solvers, Solve(s)
    PROVE  UNCHANGED <<lc, sync>>
<1>1. \A v, b, ms : Becomes(s, v, b, ms) => UNCHANGED <<lc, sync>>
  BY DEF Becomes
<1>2. \A v, b, ms : Ended(s, v, b, ms) => UNCHANGED <<lc, sync>>
  BY <1>1, Zenon DEF Ended
<1>3. \A v : Callback(s, v) => UNCHANGED <<lc, sync>>
  BY <1>1, <1>2, Zenon DEF Callback
<1>4. \A v, b, x : CompletedBy(s, v, b, x) => UNCHANGED <<lc, sync>>
  BY <1>1, Zenon DEF CompletedBy
<1>5. Idle(s) => UNCHANGED <<lc, sync>>
  BY <1>1, Zenon DEF Idle
<1>6. Event(s) => UNCHANGED <<lc, sync>>
  BY <1>3, Zenon DEF Event
<1>7. WaitNotificationId(s) => UNCHANGED <<lc, sync>>
  BY <1>1, Zenon DEF WaitNotificationId
<1>8. WaitNodeReceived(s) => UNCHANGED <<lc, sync>>
  BY <1>1, Zenon DEF WaitNodeReceived
<1>9. Finish(s) => UNCHANGED <<lc, sync>>
  BY <1>2, Zenon DEF Finish
<1>10. Complete(s) => UNCHANGED <<lc, sync>>
  BY <1>1, <1>4, Zenon DEF Complete
<1>11. Await(s) => UNCHANGED <<lc, sync>>
  BY <1>4, Zenon DEF Await
<1>12. Exit(s) => UNCHANGED <<lc, sync>>
  BY <1>1, Zenon DEF Exit
<1>13. \A l \in Leaves : Explore(s, l) => UNCHANGED <<lc, sync>>
  BY <1>3, Zenon DEF Explore
<1>14. Report(s) => UNCHANGED <<lc, sync>>
  BY <1>1, Zenon DEF Report
<1>15. Ask(s) => UNCHANGED <<lc, sync>>
  BY <1>1, Zenon DEF Ask
<1>16. \A ls \in SUBSET Leaves : Give(s, ls) => UNCHANGED <<lc, sync>>
  BY <1>1, Zenon DEF Give
<1> QED
  BY <1>5, <1>6, <1>7, <1>8, <1>9, <1>10, <1>11, <1>12, <1>13, <1>14, <1>15, <1>16, Zenon DEF Solve

\* Every step of a solver keeps the cover.
LEMMA SolveCovers ==
    ASSUME IInv, CInv, ~Reasks, NEW s \in Solvers, Solve(s)
    PROVE  CInv'
<1>1. CASE ~Live
  BY <1>1, SolveLeaves, EndStays
<1>2. CASE Live
  <2>1. CASE Idle(s)
    BY <1>2, <2>1, IdleCovers
  <2>2. CASE Event(s)
    BY <1>2, <2>2, EventCovers
  <2>3. CASE WaitNotificationId(s)
    BY <1>2, <2>3, WaitNotificationIdCovers
  <2>4. CASE WaitNodeReceived(s)
    BY <1>2, <2>4, WaitNodeReceivedCovers
  <2>5. CASE Finish(s)
    BY <1>2, <2>5, NoFinish
  <2>6. CASE Complete(s)
    BY <1>2, <2>6, CompleteCovers
  <2>7. CASE Await(s)
    BY <1>2, <2>7, AwaitCovers
  <2>8. CASE Exit(s)
    BY <1>2, <2>8, ExitCovers
  <2>9. ASSUME NEW l \in Leaves, Explore(s, l) PROVE CInv'
    BY <1>2, <2>9, ExploreCovers
  <2>10. CASE Report(s)
    BY <1>2, <2>10, ReportCovers
  <2>11. CASE Ask(s)
    BY <1>2, <2>11, AskCovers
  <2>12. ASSUME NEW ls \in SUBSET Leaves, Give(s, ls) PROVE CInv'
    BY <1>2, <2>12, GiveCovers
  <2> QED
    BY <2>1, <2>2, <2>3, <2>4, <2>5, <2>6, <2>7, <2>8, <2>9, <2>10, <2>11, <2>12 DEF Solve
<1> QED
  BY <1>1, <1>2

-----------------------------------------------------------------------------
(* The begin, and every step.                                              *)

\* A solver that has not begun, with at most nodes in its queue.
LEMMA NewPart ==
    ASSUME NEW c, NEW s \in Solvers, NEW r, \A k \in DOMAIN r : r[k] \in NewNodes /\ Fits(c, r[k].val)
    PROVE  Part(c, <<>>, NewSolver, r, s)
<1> DEFINE v == NewSolver
<1>1. v.pc = "idle" /\ v.cur = NoNode /\ v.new = NoNode /\ v.term = "no"
  BY DEF NewSolver
<1> HIDE DEF v
<1>2. \A T : None(<<>>, T)
  BY NoMessage
<1>3. Line(c, <<>>, s)
  BY <1>2, LineClean
<1>4. Fits(c, NoNode)
  BY NodeTypes DEF Fits
<1>5. ~Dismissed(v, r)
  BY <1>1 DEF Dismissed, NewNodes
<1>6. Works(c, <<>>, v, r, s)
  BY <1>1, <1>4, <1>5 DEF Works
<1> QED
  BY <1>1, <1>3, <1>6 DEF Part, Awaits, v

\* The tree that is the root at solver 1.
LEMMA RootTree ==
    ASSUME NEW c \in CoordSet, c.pool = <<>>, c.cur[1] = Root,
           \A s \in Solvers \ {1} : c.cur[s] = NoNode
    PROVE  TreeOk(c) /\ Fits(c, Root)
<1>1. 1 \in Solvers
  BY SolversFinite
<1>2. Root \in NodeSet /\ Root.bound = 0 /\ Root.anc = 0 /\ Root.leaves = Leaves /\ Root.id # 0
  BY ValueAssumption DEF Root, Node, NodeSet
<1>3. Root # NoNode
  BY <1>2, NodeTypes
<1>4. Root \in Nodes(c) /\ \A n \in Nodes(c) : n = Root
  BY <1>1, <1>3, NodesAre
<1>5. Sorted(c.pool) /\ Distinct(c.pool)
  BY DEF Sorted, Distinct
<1>6. Apart(c.pool, c.cur)
  <2>1. \A i \in DOMAIN c.pool, s \in Solvers : c.pool[i].id # c.cur[s].id
    OBVIOUS
  <2>2. \A s \in Solvers : c.cur[s] # NoNode => s = 1
    OBVIOUS
  <2>3. ASSUME NEW s \in Solvers, NEW t \in Solvers, c.cur[s] # NoNode /\ c.cur[s].id = c.cur[t].id
        PROVE  s = t
    <3>1. s = 1 /\ c.cur[t].id = Root.id
      BY <2>2, <2>3
    <3>2. c.cur[t] # NoNode
      BY <1>2, <3>1, NodeTypes
    <3> QED
      BY <2>2, <3>1, <3>2
  <2> QED
    BY <1>5, <2>1, <2>3 DEF Apart
<1>7. Fits(c, Root)
  <2>1. \A l \in Leaves : 0 <= Value[l]
    BY ValueAssumption
  <2> QED
    BY <1>2, <2>1 DEF Fits
<1>8. Covers(c)
  BY <1>2, <1>4 DEF Covers, Handed
<1> QED
  BY <1>4, <1>5, <1>6, <1>7, <1>8 DEF TreeOk

\* It holds at the begin, when the root node has been sent.
LEMMA InitCovers ==
    ASSUME Init
    PROVE  CInv
<1> DEFINE c == [pc |-> "run", pool |-> <<>>, cur |-> [s \in Solvers |-> NoNode],
                 sbound |-> [s \in Solvers |-> 0], inc |-> Inf,
                 phase |-> "rampUp", intr |-> FALSE, nterm |-> 0, hard |-> FALSE, cmp |-> FALSE]
           b == [r \in 0..N |-> <<>>]
           st == Activated([lc |-> c, box |-> b], 1, Root)
<1>1. sv = [s \in Solvers |-> NewSolver] /\ lc = st.lc /\ box = st.box
  BY DEF Init
<1>2. c \in CoordSet /\ c.pc = "run" /\ c.pool = <<>> /\ \A s \in Solvers : c.cur[s] = NoNode
  <2>1. NoNode \in MaybeNode /\ Inf \in Vals
    BY ValsIs DEF MaybeNode, Inf
  <2> QED
    BY <2>1 DEF CoordSet
<1>3. Typed(c, b) /\ b[0] = <<>> /\ \A s \in Solvers : b[s] = <<>>
  <2>1. Table(b) /\ b[0] = <<>> /\ \A s \in Solvers : b[s] = <<>>
    BY NAssumption DEF Table, Solvers
  <2>2. <<>> \in Seq(ToCoord) /\ <<>> \in Seq(ToSolver)
    OBVIOUS
  <2> HIDE DEF b, c
  <2> QED
    BY <1>2, <2>1, <2>2, SentTyped
<1>4. Root \in NodeSet /\ 1 \in Solvers
  BY SolversFinite, ValueAssumption DEF Root, Node, NodeSet
<1> HIDE DEF c, b
<1>5. PICK d \in CoordSet : Sends(c, b, 1, Root, d)
  BY <1>2, <1>4, ActivatedIs
<1> DEFINE z == SentTo(b, {1}, NodeMsg(Root))
<1>6. /\ st = [lc |-> d, box |-> z] /\ d.pc = "run" /\ d.pool = <<>> /\ d.cur[1] = Root
      /\ \A s \in Solvers \ {1} : d.cur[s] = NoNode
  BY <1>2, <1>5 DEF Sends
<1>7. lc = d /\ box = z
  BY <1>1, <1>6
<1>8. Mailed(b, z, {1}, NodeMsg(Root))
  BY <1>3, <1>4, SentToIs
<1> HIDE DEF st, z
<1>9. TreeOk(d) /\ Fits(d, Root)
  BY <1>6, RootTree
<1>10. NodeMsg(Root) \in NewNodes /\ NodeMsg(Root).val = Root
  BY <1>4, NodeMsgIs DEF NodeMsg, Msg
<1>11. z[0] = <<>>
  BY <1>3, <1>8 DEF Mailed
<1>12. ASSUME NEW s \in Solvers PROVE Part(d, <<>>, sv[s], z[s], s)
  <2>1. z[s] = <<NodeMsg(Root)>> \/ z[s] = <<>>
    <3>1. z[s] = IF s \in {1} THEN Append(b[s], NodeMsg(Root)) ELSE b[s]
      BY <1>8 DEF Mailed
    <3>2. Append(<<>>, NodeMsg(Root)) = <<NodeMsg(Root)>> /\ b[s] = <<>>
      BY <1>3
    <3> QED
      BY <3>1, <3>2
  <2>2. \A k \in DOMAIN z[s] : z[s][k] = NodeMsg(Root)
    BY <2>1
  <2>3. \A k \in DOMAIN z[s] : z[s][k] \in NewNodes /\ Fits(d, z[s][k].val)
    BY <1>9, <1>10, <2>2
  <2>4. sv[s] = NewSolver
    BY <1>1
  <2> QED
    BY <2>3, <2>4, NewPart
<1>13. Cover(d, z)
  BY <1>9, <1>11, <1>12 DEF Cover
<1> QED
  BY <1>6, <1>7, <1>13 DEF CInv, Outcome

\* Every step keeps it, if no solver that holds a new node asks for another.
LEMMA NextCovers ==
    ASSUME IInv, CInv, ~Reasks, [Next]_vars
    PROVE  CInv'
<1>1. CASE Handle
  BY <1>1, HandleCovers
<1>2. CASE Close
  BY <1>2, CloseCovers
<1>3. ASSUME NEW past \in BOOLEAN, NEW past2 \in BOOLEAN, NEW ramp \in BOOLEAN, Check(past, past2, ramp)
      PROVE  CInv'
  BY <1>3, CheckCovers
<1>4. ASSUME NEW s \in Solvers, Solve(s) PROVE CInv'
  BY <1>4, SolveCovers
<1>5. CASE UNCHANGED vars
  <2>1. UNCHANGED <<sv, sync>> /\ lc' = lc /\ box' = box
    BY <1>5 DEF vars
  <2>2. sync => Outcome(lc', box')
    BY <2>1 DEF CInv, Outcome, Cover, Part, Works, Awaits, Dismissed, Line, Seen, Brings
  <2> QED
    BY <2>1, <2>2, CoordCovers
<1> QED
  BY <1>1, <1>2, <1>3, <1>4, <1>5 DEF Next, LoadCoordinator

\* If no solver that holds a new node asks for another, then, with every report
\* waited for, each leaf that the incumbent does not solve is in a node with no
\* ancestor, no solver has dropped a leaf that the load coordinator does not
\* know of, and the run ends with all leaves solved or because of the time
\* limit: for any number of solvers and any leaves, in every state.
THEOREM CoverInvariant == ASSUME ~Reasks PROVE Spec => [](IInv /\ CInv)
<1>1. Init => IInv /\ CInv
  BY InitOk, InitCovers
<1>2. (IInv /\ CInv) /\ [Next]_vars => (IInv /\ CInv)'
  BY NextKeeps, NextCovers
<1> QED
  BY <1>1, <1>2, PTL DEF Spec

-----------------------------------------------------------------------------
(* What follows from it.                                                   *)

\* The best value in a set of leaves.
LEMMA BestInIs ==
    ASSUME NEW ls \in SUBSET Leaves
    PROVE  /\ BestIn(ls) \in Vals
           /\ \A l \in ls : BestIn(ls) <= Value[l]
           /\ BestIn(ls) = Inf \/ \E l \in ls : BestIn(ls) = Value[l]
<1> DEFINE T == {Value[l] : l \in ls} \cup {Inf}
<1>1. T \subseteq Nat /\ T # {}
  BY ValueAssumption DEF Inf
<1>2. BestIn(ls) = Least(T)
  BY DEF BestIn
<1>3. Least(T) \in T /\ \A y \in T : Least(T) <= y
  BY <1>1, LeastIs
<1>4. \A l \in ls : Value[l] \in T
  OBVIOUS
<1>5. \A y \in T : y = Inf \/ \E l \in ls : y = Value[l]
  OBVIOUS
<1>6. T \subseteq Vals
  BY ValsIs
<1> HIDE DEF T
<1> QED
  BY <1>2, <1>3, <1>4, <1>5, <1>6

\* The best solution is that of a leaf, and every incumbent is no better.
LEMMA OptIs ==
    /\ Opt \in Int /\ \E l \in Leaves : Value[l] = Opt
    /\ \A x \in Vals : Opt <= x
<1>1. /\ Opt \in Vals /\ \A l \in Leaves : Opt <= Value[l]
      /\ Opt = Inf \/ \E l \in Leaves : Opt = Value[l]
  BY BestInIs DEF Opt
<1>2. Opt \in Int /\ Opt <= Inf
  BY <1>1, ValsIs DEF Inf
<1>3. Opt # Inf
  <2>1. PICK l : l \in Leaves
    BY ValueAssumption
  <2>2. Opt <= Value[l] /\ Value[l] < Inf /\ Value[l] \in Int
    BY <1>1, <2>1, BoundAssumption, ValueAssumption
  <2> QED
    BY <1>2, <2>2 DEF Inf
<1>4. \A x \in Vals : x = Inf \/ \E l \in Leaves : x = Value[l]
  BY DEF Vals
<1> QED
  BY <1>1, <1>2, <1>3, <1>4

\* The cover says that a checkpoint saves a best leaf.
LEMMA CheckpointCoversHolds ==
    ASSUME IInv, CInv
    PROVE  CheckpointCovers
<1> SUFFICES ASSUME sync, lc.pc \in {"run", "check"}, lc.inc # Opt
             PROVE  \E n \in Nodes(lc) : n.anc = 0 /\ BestIn(n.leaves) = Opt
  BY DEF CheckpointCovers
<1>1. lc \in CoordSet /\ TreeOk(lc)
  BY DEF IInv, CoordOk, Typed, CInv, Outcome, Cover
<1>2. PICK l \in Leaves : Value[l] = Opt
  BY OptIs
<1>3. ~Solved(lc, l)
  <2>1. lc.inc \in Vals
    BY <1>1 DEF CoordSet
  <2>2. lc.inc \in Int /\ Opt <= lc.inc /\ Opt \in Int
    BY <2>1, ValsIs, OptIs
  <2> QED
    BY <1>2, <2>2 DEF Solved
<1>4. PICK n \in Nodes(lc) : n.anc = 0 /\ l \in n.leaves
  BY <1>1, <1>3 DEF TreeOk, Covers, Handed
<1>5. n.leaves \in SUBSET Leaves
  BY <1>1, NodesAre DEF NodeSet
<1>6. BestIn(n.leaves) \in Vals /\ BestIn(n.leaves) <= Opt
  BY <1>2, <1>4, <1>5, BestInIs
<1>7. BestIn(n.leaves) = Opt
  BY <1>6, OptIs, ValsIs
<1> QED
  BY <1>4, <1>7

\* It says that the bounds of the nodes in the pool are right.
LEMMA NoneBetterKilledHolds ==
    ASSUME IInv, CInv
    PROVE  NoneBetterKilled
<1> SUFFICES ASSUME sync, lc.pc \in {"run", "check"}, NEW k \in DOMAIN lc.pool, lc.pool[k].bound >= lc.inc
             PROVE  BestIn(lc.pool[k].leaves) >= lc.inc
  BY DEF NoneBetterKilled
<1>1. lc \in CoordSet /\ TreeOk(lc)
  BY DEF IInv, CoordOk, Typed, CInv, Outcome, Cover
<1> DEFINE n == lc.pool[k]
<1>2. n \in Nodes(lc) /\ n \in NodeSet
  BY <1>1, NodesAre
<1>3. n.bound \in Int /\ n.leaves \in SUBSET Leaves /\ lc.inc \in Vals /\ n.bound >= lc.inc
  BY <1>1, <1>2 DEF NodeSet, CoordSet
<1>4. Fits(lc, n)
  BY <1>1, <1>2 DEF TreeOk
<1> HIDE DEF n
<1>5. ASSUME NEW l \in n.leaves PROVE Value[l] >= lc.inc
  <2>1. Value[l] \in Int /\ lc.inc \in Int
    BY <1>3, ValsIs
  <2> QED
    BY <1>3, <1>4, <2>1 DEF Fits, Solved
<1>6. Inf >= lc.inc /\ lc.inc \in Int
  BY <1>3, ValsIs DEF Inf
<1>7. BestIn(n.leaves) = Inf \/ \E l \in n.leaves : BestIn(n.leaves) = Value[l]
  BY <1>3, BestInIs
<1>8. BestIn(n.leaves) >= lc.inc
  BY <1>5, <1>6, <1>7
<1> QED
  BY <1>8 DEF n

\* It says that a run that is done has the best solution.
LEMMA SyncedAnswerHolds ==
    ASSUME IInv, CInv
    PROVE  SyncedAnswerIsOptimal
<1> SUFFICES ASSUME sync, lc.pc = "done", ~lc.hard
             PROVE  lc.inc = Opt
  BY DEF SyncedAnswerIsOptimal, AnswerIsOptimal
<1>1. AllSolved(lc)
  BY DEF CInv, Outcome
<1>2. lc.inc \in Vals
  BY DEF IInv, CoordOk, Typed, CoordSet
<1>3. PICK l \in Leaves : Value[l] = Opt
  BY OptIs
<1>4. lc.inc <= Opt
  BY <1>1, <1>3 DEF AllSolved, Solved
<1>5. lc.inc \in Int /\ Opt \in Int /\ Opt <= lc.inc
  BY <1>2, OptIs, ValsIs
<1> QED
  BY <1>4, <1>5

\* While every report is waited for, a checkpoint holds a node with a best leaf
\* and no ancestor until the best solution has arrived: nothing that solvers
\* gave away, that processTagAnotherNodeRequest exchanged, that an interrupted
\* solver returned or that ~ParaNode orphaned is lost.
THEOREM CheckpointIsComplete == ASSUME ~Reasks PROVE Spec => []CheckpointCovers
<1>1. IInv /\ CInv => CheckpointCovers
  BY CheckpointCoversHolds
<1> QED
  BY <1>1, CoverInvariant, PTL

\* While every report is waited for, removeBoundedNodes and the other deletions
\* by bound kill no node with a better solution than the incumbent.
THEOREM NoBetterNodeKilled == ASSUME ~Reasks PROVE Spec => []NoneBetterKilled
<1>1. IInv /\ CInv => NoneBetterKilled
  BY NoneBetterKilledHolds
<1> QED
  BY <1>1, CoverInvariant, PTL

\* While every report is waited for, a run that the time limit does not end has
\* found the best solution.
THEOREM SyncedRunIsOptimal == ASSUME ~Reasks PROVE Spec => []SyncedAnswerIsOptimal
<1>1. IInv /\ CInv => SyncedAnswerIsOptimal
  BY SyncedAnswerHolds
<1> QED
  BY <1>1, CoverInvariant, PTL
=============================================================================
