-------------------------- MODULE LoadCoordination --------------------------
(***************************************************************************)
(* The parallel branch and bound of UG: the load coordinator, rank 0, with *)
(* its pool of nodes (ug/paraLoadCoordinator.cpp, paraSolverPool.cpp), the *)
(* solvers, ranks 1..N (ug/paraSolver.cpp, ug_scip/scipParaSolver.cpp and  *)
(* the callback ug_scip/scipParaObjCommPointHdlr.cpp), and the message     *)
(* queues between their threads (ug/paraCommPth.cpp).                      *)
(*                                                                         *)
(* A node is a set of leaves, each with its dual bound and the value of its *)
(* best solution; a solver evaluates leaves in any order.  Modelled is the normal ramp-up   *)
(* (RampUpPhaseProcess = 0); racing, merging, the deterministic mode and   *)
(* the files of a checkpoint are not.  When a solver reports, asks for     *)
(* another node or gives a node away depends on times and node counts: it  *)
(* may whenever the code's conditions on messages and bounds allow it.     *)
(***************************************************************************)
EXTENDS Integers, Sequences, FiniteSets, SequencesExt

CONSTANTS N,           \* the number of solvers
          Leaves,
          Value,       \* the value of the best solution in a leaf
          Bound,       \* the dual bound of a leaf
          SyncModes,   \* whether NotificationSynchronization = 0
          MayTimeOut,  \* whether the time limit may be passed
          Reasks       \* whether a solver that holds a new node asks for another

ASSUME NAssumption     == N \in Nat \ {0}
ASSUME ValueAssumption == Value \in [Leaves -> Nat \ {0}] /\ Leaves # {}

Solvers == 1..N
Inf     == 100         \* bound: DBL_MAX, larger than every value
ASSUME SyncAssumption  == SyncModes \in (SUBSET BOOLEAN) \ {{}}
ASSUME BoundAssumption == \A l \in Leaves : Bound[l] \in Nat /\ Bound[l] <= Value[l] /\ Value[l] < Inf

VARIABLES lc,    \* the load coordinator
          sv,    \* the solvers
          box,   \* the queue of messages of each rank
          late,  \* the time limit is passed
          sync   \* NotificationSynchronization = 0: every report is waited for

vars == <<lc, sv, box, late, sync>>

Least(S)  == CHOOSE x \in S : \A y \in S : x <= y
Most(a, b) == IF a >= b THEN a ELSE b
Lower(a, b) == IF a <= b THEN a ELSE b
BestIn(ls)  == Least({Value[l] : l \in ls} \cup {Inf})
BoundOf(ls) == Least({Bound[l] : l \in ls} \cup {Inf})

Node(id, ls, b, anc) == [id |-> id, leaves |-> ls, bound |-> b, anc |-> anc]
NoNode == Node(0, {}, 0, 0)

\* What Op makes of x with the elements of q, one after the other.
Applied(Op(_, _), x, q) ==
    LET upto[k \in 0..Len(q)] == IF k = 0 THEN x ELSE Op(upto[k - 1], q[k])
    IN upto[Len(q)]

Msg(tag, src, val) == [tag |-> tag, src |-> src, val |-> val]
SentTo(b, rs, m) == [r \in DOMAIN b |-> IF r \in rs THEN Append(b[r], m) ELSE b[r]]

-----------------------------------------------------------------------------
(* The load coordinator.  A handler maps the record [lc, box] to another.  *)

Active(c)   == {s \in Solvers : c.cur[s] # NoNode}
Nodes(c)    == ToSet(c.pool) \cup {c.cur[s] : s \in Active(c)}

FreshId(c)  == Least({k \in 1..(Cardinality(Nodes(c)) + 1) : \A n \in Nodes(c) : n.id # k})

ToSolvers(st, rs, tag, val) == [st EXCEPT !.box = SentTo(@, rs, Msg(tag, 0, val))]

\* The pool is sorted by the bounds; of equal ones the first comes first.
Inserted(pool, n) ==
    LET k == Cardinality({j \in DOMAIN pool : pool[j].bound <= n.bound})
    IN InsertAt(pool, k + 1, n)

\* Mutant of Orphaned: the descendants of a deleted node are forgotten.
OrphanedForgotten(n, x) == n

\* ~ParaNode: the deleted node's ancestor adopts its descendants.
Orphaned(n, x) == IF n.anc = x.id THEN [n EXCEPT !.anc = x.anc] ELSE n

\* The node x, no longer in the pool nor at a solver, is deleted.
Freed(c, x) == [c EXCEPT !.pool = [k \in DOMAIN @ |-> Orphaned(@[k], x)],
                         !.cur  = [s \in Solvers |-> Orphaned(@[s], x)]]

\* The node at position k of the pool is deleted.
Deleted(c, k) == Freed([c EXCEPT !.pool = RemoveAt(@, k)], c.pool[k])

\* So are all behind the first k, one after the other.
DeletedBehind(c, k) == Applied(Deleted, c, [j \in 1..(Len(c.pool) - k) |-> k + 1])

\* removeBoundedNodes: in the sorted pool the nodes that are worse than the
\* incumbent come last.
Pruned(c) ==
    DeletedBehind(c, Cardinality({j \in DOMAIN c.pool : c.pool[j].bound <= c.inc}))

\* Node n is sent to solver s, which becomes active.
Activated(st, s, n) ==
    ToSolvers([st EXCEPT !.lc.cur[s] = n, !.lc.sbound[s] = n.bound], {s}, "Node", n)

\* sendParaNodesToIdleSolvers: the best node goes to the idle solver of lowest
\* rank; nodes that cannot be better than the incumbent are deleted.
OneNodeSent(st, k) ==
    LET c == st.lc
        idle == Solvers \ Active(c)
    IN IF idle = {} \/ c.pool = <<>> \/ c.phase = "termination" THEN st
       ELSE IF Head(c.pool).bound < c.inc
            THEN Activated([st EXCEPT !.lc.pool = Tail(@)], Least(idle), Head(c.pool))
            ELSE [st EXCEPT !.lc = DeletedBehind(c, 0)]

NodesSent(st) == Applied(OneNodeSent, st, [k \in 1..N |-> k])

\* processTagNode.
NodeTaken(st, m) ==
    LET c == st.lc
        n == Node(FreshId(c), m.val.leaves, m.val.bound, c.cur[m.src].id)
    IN ToSolvers(IF m.val.bound < c.inc THEN NodesSent([st EXCEPT !.lc.pool = Inserted(@, n)]) ELSE st,
                 {m.src}, "NodeReceived", 0)

\* Mutant of SolutionTaken: solutions are taken only after the ramp-up.
SolutionTakenLate(st, m) ==
    IF m.val < st.lc.inc /\ st.lc.phase # "rampUp"
    THEN LET s == ToSolvers(st, Solvers \ {m.src}, "IncumbentValue", m.val)
         IN [s EXCEPT !.lc = Pruned([@ EXCEPT !.inc = m.val])]
    ELSE st

\* processTagSolution: a better solution is the incumbent, and its value goes
\* to all other solvers.
SolutionTaken(st, m) ==
    IF m.val < st.lc.inc
    THEN LET s == ToSolvers(st, Solvers \ {m.src}, "IncumbentValue", m.val)
         IN [s EXCEPT !.lc = Pruned([@ EXCEPT !.inc = m.val])]
    ELSE st

\* processTagSolverState: the sender gets the incumbent if it is better than
\* its own, then the answer to the report.
StateTaken(st, m) ==
    LET c  == [st.lc EXCEPT !.sbound[m.src] = Most(@, m.val.bound)]
        s1 == [st EXCEPT !.lc = c]
        s2 == IF c.inc < m.val.best THEN ToSolvers(s1, {m.src}, "Solution", c.inc) ELSE s1
    IN ToSolvers(s2, {m.src}, "NotificationId", 0)

\* processTagCompletionOfCalculation, with the termination state the solver
\* sends next and the load coordinator waits for.
Completed(st, m) ==
    LET c == st.lc
        x == c.cur[m.src]
        out == [c EXCEPT !.cur[m.src] = NoNode, !.sbound[m.src] = 0]
        done == CASE m.val = "normal"    -> Freed(out, x)
                  [] m.val = "another"   -> c
                  [] m.val = "interrupt" -> [out EXCEPT !.pool = Inserted(@, x)]
    IN NodesSent([st EXCEPT !.lc = done])

\* Mutant of MayReplace: a node that gave away a part may be sent back.
MayReplaceAny(c, s) == c.pool # <<>>

\* The sender's node may be exchanged: it has given nothing away that is
\* still unsolved.
MayReplace(c, s) == c.pool # <<>> /\ \A n \in Nodes(c) : n.anc # c.cur[s].id

\* processTagAnotherNodeRequest, in any running phase.
AnotherNodeRequested(st, m) ==
    LET c == st.lc
        none(d) == ToSolvers([st EXCEPT !.lc = d], {m.src}, "NoNodes", 0)
    IN IF ~MayReplace(c, m.src) THEN none(c)
       ELSE IF Head(c.pool).bound >= c.inc THEN none(DeletedBehind(c, 0))
       ELSE IF c.sbound[m.src] <= Head(c.pool).bound
       THEN none([c EXCEPT !.pool = Inserted(Tail(@), Head(@))])
       ELSE LET solving == [c.cur[m.src] EXCEPT !.bound = m.val]
            IN Activated([st EXCEPT !.lc.pool = Inserted(Tail(@), solving)], m.src, Head(c.pool))

\* processTagTerminated: the solver is not made inactive.
SolverTerminated(st, m) ==
    [st EXCEPT !.lc.nterm = @ + 1, !.lc.cmp = @ \/ m.val = 1]

Handled(st, m) ==
    CASE m.tag = "Node"        -> NodeTaken(st, m)
      [] m.tag = "Solution"    -> SolutionTaken(st, m)
      [] m.tag = "SolverState" -> StateTaken(st, m)
      [] m.tag = "Completion"  -> Completed(st, m)
      [] m.tag = "AnotherNodeRequest" -> AnotherNodeRequested(st, m)
      [] m.tag = "Terminated"  -> SolverTerminated(st, m)

\* The end of the loop of run: past the time limit, solvers are interrupted;
\* else idle ones get nodes.  The ramp-up may end when no solver is idle.
PhaseChecked(st, past, ramp) ==
    IF st.lc.phase = "termination" THEN st
    ELSE IF past
    THEN ToSolvers([st EXCEPT !.lc.phase = "termination", !.lc.intr = TRUE],
                   IF st.lc.intr THEN {} ELSE Solvers, "InterruptRequest", 0)
    ELSE NodesSent(IF ramp THEN ToSolvers([st EXCEPT !.lc.phase = "normal"], Solvers, "RampUp", 0)
                           ELSE st)
MayRampUp(c) == c.phase = "rampUp" /\ Active(c) = Solvers /\ c.pool # <<>>

\* The loop is left: without any solver terminated and with one that must be,
\* the destructor terminates all and waits for them.
Left(st) ==
    IF st.lc.nterm = 0 /\ (Active(st.lc) # {} \/ st.lc.intr)
    THEN ToSolvers([st EXCEPT !.lc.pc = "closing", !.lc.phase = "termination"],
                   Solvers, "TerminateRequest", 0)
    ELSE [st EXCEPT !.lc.pc = "done"]

\* The begin of the loop of run.
LoopHead(st, past) ==
    LET c == st.lc
        s == IF Active(c) = {} /\ c.pool = <<>> /\ c.phase # "termination"
             THEN ToSolvers([st EXCEPT !.lc.phase = "termination"], Solvers, "TerminateRequest", 0)
             ELSE st
    IN IF Active(c) # {} THEN st
       ELSE IF c.pool = <<>> /\ c.phase = "termination" /\ c.nterm = N THEN Left(st)
       ELSE IF past THEN Left([s EXCEPT !.lc.hard = TRUE]) ELSE s

\* One message is handled.
Handle ==
    LET st == Handled([lc |-> lc, box |-> [box EXCEPT ![0] = Tail(@)]], Head(box[0]))
    IN /\ lc.pc = "run" /\ box[0] # <<>>
       /\ UNCHANGED <<sv, late, sync>>
       /\ lc' = [st.lc EXCEPT !.pc = "check"]
       /\ box' = st.box

\* The end of the loop of run and its next begin; the time limit may pass
\* before each.
Check(past, past2, ramp) ==
    LET st == PhaseChecked([lc |-> [lc EXCEPT !.pc = "run"], box |-> box], past, ramp)
        t  == LoopHead(st, past2)
    IN /\ lc.pc = "check"
       /\ UNCHANGED <<sv, sync>>
       /\ late => past
       /\ past => past2
       /\ past2 => MayTimeOut
       /\ ramp => ~past /\ MayRampUp(lc)
       /\ lc' = t.lc /\ box' = t.box /\ late' = past2

\* The loop of the destructor.
Close ==
    LET st == Handled([lc |-> lc, box |-> [box EXCEPT ![0] = Tail(@)]], Head(box[0]))
    IN /\ lc.pc = "closing" /\ box[0] # <<>>
       /\ UNCHANGED <<sv, late, sync>>
       /\ lc' = [st.lc EXCEPT !.pc = IF st.lc.nterm = N THEN "done" ELSE @]
       /\ box' = st.box

-----------------------------------------------------------------------------
(* The solvers.  Their record: cur, new: currentNode and newNode; open: the *)
(* leaves not yet evaluated; own: the best solution SCIP holds; inc, best:  *)
(* globalBestIncumbentValue and ...Solution; loc: localIncumbentSolution;   *)
(* pend: pendingSolution; asked: anotherNodeIsRequested; noticed:           *)
(* notificationProcessed; term: terminationMode; rampUp: rampUpIsDone.      *)

\* Mutant of Received: the answer NoNodes does not end the request.
ReceivedNoAnswer(v, m) ==
    CASE m.tag = "Node" -> IF v.cur = NoNode THEN [v EXCEPT !.cur = m.val, !.asked = FALSE]
                           ELSE [v EXCEPT !.new = m.val, !.asked = FALSE]
      [] m.tag = "RampUp"           -> [v EXCEPT !.rampUp = TRUE]
      [] m.tag = "Solution"         -> IF m.val <= v.inc THEN [v EXCEPT !.pend = m.val] ELSE v
      [] m.tag = "IncumbentValue"   -> [v EXCEPT !.inc = Lower(@, m.val)]
      [] m.tag = "NotificationId"   -> [v EXCEPT !.noticed = FALSE]
      [] m.tag = "TerminateRequest" -> [v EXCEPT !.term = "normal"]
      [] m.tag = "InterruptRequest" -> [v EXCEPT !.term = "interrupted"]
      [] OTHER -> v

NewSolver == [pc |-> "idle", cur |-> NoNode, new |-> NoNode, open |-> {}, own |-> Inf,
              inc |-> Inf, best |-> Inf, loc |-> Inf, pend |-> Inf, asked |-> FALSE,
              noticed |-> FALSE, term |-> "no", rampUp |-> FALSE]

\* The message handlers.
Received(v, m) ==
    CASE m.tag = "Node" -> IF v.cur = NoNode THEN [v EXCEPT !.cur = m.val, !.asked = FALSE]
                           ELSE [v EXCEPT !.new = m.val, !.asked = FALSE]
      [] m.tag = "NodeReceived"     -> v
      [] m.tag = "RampUp"           -> [v EXCEPT !.rampUp = TRUE]
      [] m.tag = "Solution"         -> IF m.val <= v.inc THEN [v EXCEPT !.pend = m.val] ELSE v
      [] m.tag = "IncumbentValue"   -> [v EXCEPT !.inc = Lower(@, m.val)]
      [] m.tag = "NoNodes"          -> [v EXCEPT !.asked = FALSE]
      [] m.tag = "NotificationId"   -> [v EXCEPT !.noticed = FALSE]
      [] m.tag = "TerminateRequest" -> [v EXCEPT !.term = "normal"]
      [] m.tag = "InterruptRequest" -> [v EXCEPT !.term = "interrupted"]

\* The solver, and the queues, when the first k messages are handled.
Upto(s, k) == Applied(Received, sv[s], SubSeq(box[s], 1, k))
Rest(s, k) == [box EXCEPT ![s] = SubSeq(@, k + 1, Len(@))]

\* iReceiveMessages: all that has come is handled.
Drained(s) == Upto(s, Len(box[s]))
Emptied(s) == [box EXCEPT ![s] = <<>>]

\* Solver s becomes v, and b, with the messages ms of s at the end, the queues.
Becomes(s, v, b, ms) ==
    /\ UNCHANGED <<lc, late, sync>>
    /\ sv' = [sv EXCEPT ![s] = v]
    /\ box' = [b EXCEPT ![0] = @ \o ms]

\* updatePendingSolution.
Pending(v) ==
    IF v.pend = Inf THEN v
    ELSE IF v.pend <= v.best
    THEN [v EXCEPT !.best = v.pend, !.inc = Lower(@, v.pend), !.pend = Inf]
    ELSE [v EXCEPT !.pend = Inf]

\* saveIfImprovedSolutionWasFound: a solution no better than the one saved
\* before makes both be forgotten.
Improved(v, x) ==
    IF x >= v.inc THEN v
    ELSE [v EXCEPT !.loc = IF x < v.loc THEN x ELSE Inf]

\* sendLocalSolution: what the solver is after it, and what it sends.
Announces(v) == v.loc < v.best /\ ~v.noticed
Announced(v) == IF v.noticed THEN v
                ELSE [v EXCEPT !.best = Lower(@, v.loc), !.loc = Inf]
Announcement(s, v) == IF Announces(v) THEN <<Msg("Solution", s, v.loc)>> ELSE <<>>

\* createSubproblem, updatePendingSolution and tryNewSolution; whether SCIP
\* accepts the solution, as x says, depends on the subproblem.  One that is no
\* better than the objective limit inc tells SCIP nothing.
Started(v, x) ==
    LET w == Pending(v)
    IN [w EXCEPT !.pc = "report", !.open = w.cur.leaves,
                 !.own = IF x /\ w.best < w.inc THEN w.best ELSE Inf]

\* receiveNewNodeAndReactivate: what is received while the solver waits is
\* handled in one step, as nothing else happens at the solver; so in the other
\* waits below.
Idle(s) ==
    LET ended(k) == Upto(s, k).cur # NoNode \/ Upto(s, k).term # "no"
    IN /\ sv[s].pc = "idle"
       /\ \E k \in DOMAIN box[s] :
            /\ ended(k) /\ \A j \in 1..(k - 1) : ~ended(j)
            /\ \E v \in {Upto(s, k)}, x \in BOOLEAN :
                 Becomes(s, IF v.cur # NoNode THEN Started(v, x) ELSE [v EXCEPT !.pc = "exit"],
                         Rest(s, k), <<>>)

SolvingPcs == {"solve", "report", "ask"}
Cut(v)     == Lower(v.inc, v.own)

\* The end of scipParaSolver's solve, the last report being answered: the best
\* solution is saved and sent "when sub-MIP is solved".
Ended(s, v, b, ms) ==
    LET optimal == v.open = {} /\ v.own < v.inc
        w == Improved(v, v.own)
    IN IF v.noticed THEN Becomes(s, [v EXCEPT !.pc = "finish"], b, ms)
       ELSE IF optimal
       THEN Becomes(s, [Announced(w) EXCEPT !.pc = "complete"], b, ms \o Announcement(s, w))
       ELSE Becomes(s, [v EXCEPT !.pc = "complete"], b, ms)

\* The callback: solutions found are saved before, here messages are received,
\* the saved solution is sent.  A new node or the end makes SCIP stop.
Callback(s, v) ==
    \E r \in {Applied(Received, v, box[s])} : \E w \in {Pending(Announced(r))} :
       IF w.new # NoNode \/ w.term # "no" \/ w.open = {}
       THEN Ended(s, w, Emptied(s), Announcement(s, r))
       ELSE Becomes(s, [w EXCEPT !.pc = "report"], Emptied(s), Announcement(s, r))

\* SCIP evaluates leaf l.
Explore(s, l) ==
    LET v == sv[s]
        w == IF Value[l] < Cut(v) THEN Improved([v EXCEPT !.own = Value[l]], Value[l]) ELSE v
    IN /\ v.pc \in SolvingPcs /\ l \in v.open
       /\ Callback(s, [w EXCEPT !.open = @ \ {l}])

\* An event of SCIP after which as many leaves are left, when something is new
\* or its search is over.
Event(s) ==
    /\ sv[s].pc \in SolvingPcs
    /\ box[s] # <<>> \/ sv[s].new # NoNode \/ sv[s].term # "no" \/ sv[s].open = {}
    /\ Callback(s, sv[s])

\* The dual bound of SCIP: the one the node came with until a leaf is done.
DualBound(v) == IF v.open = v.cur.leaves THEN v.cur.bound ELSE BoundOf(v.open)

\* sendSolverState, and the wait for its answer.
Report(s) ==
    LET v == sv[s] IN
    /\ v.pc = "report" /\ ~v.noticed
    /\ Becomes(s, [v EXCEPT !.noticed = TRUE, !.pc = IF sync \/ ~v.rampUp THEN "waitid" ELSE "ask"],
               box, <<Msg("SolverState", s, [bound |-> DualBound(v), best |-> v.best])>>)

\* sendAnotherNodeRequest.  While few nodes are solved, two unless
\* NStopSolvingMode is changed: then the node asked for may have come already.
Ask(s) ==
    LET v == sv[s] IN
    /\ v.pc \in {"report", "ask"} /\ ~v.asked
    /\ v.new = NoNode \/ Reasks
    /\ Becomes(s, [v EXCEPT !.asked = TRUE, !.pc = "solve"], box,
               <<Msg("AnotherNodeRequest", s, DualBound(v))>>)

\* checkRootNodeSolvabilityAndSendParaNode and sendParaNode: the focus node,
\* a proper part of the subproblem, is given away.
Give(s, ls) ==
    LET v == sv[s] IN
    /\ v.pc \in {"report", "ask"} /\ ~v.asked
    /\ ls # {} /\ ls \subseteq v.open /\ ls # v.cur.leaves
    /\ Becomes(s, [v EXCEPT !.open = @ \ ls, !.pc = "waitack"], box,
               <<Msg("Node", s, [leaves |-> ls, bound |-> BoundOf(ls)])>>)

\* The waits for a message: waitNotificationIdMessage in the callback and at
\* the end of solve, and the wait of sendParaNode.
Answered(s, pc, tag) ==
    sv[s].pc = pc /\ \E k \in DOMAIN box[s] : box[s][k].tag = tag
Answer(s, tag) == Least({k \in DOMAIN box[s] : box[s][k].tag = tag})

WaitNotificationId(s) ==
    LET k == Answer(s, "NotificationId") IN
    /\ Answered(s, "waitid", "NotificationId")
    /\ Becomes(s, [Upto(s, k) EXCEPT !.pc = "ask"], Rest(s, k), <<>>)

WaitNodeReceived(s) ==
    LET k == Answer(s, "NodeReceived") IN
    /\ Answered(s, "waitack", "NodeReceived")
    /\ Becomes(s, [Upto(s, k) EXCEPT !.pc = "report"], Rest(s, k), <<>>)

Finish(s) ==
    LET k == Answer(s, "NotificationId") IN
    /\ Answered(s, "finish", "NotificationId")
    /\ \E v \in {Upto(s, k)} : Ended(s, v, Rest(s, k), <<>>)

\* The completion is sent; the new node is the current one, if there is one.
CompletedBy(s, v, b, state) ==
    LET w == [v EXCEPT !.cur = v.new, !.new = NoNode, !.open = {}, !.own = Inf]
        m == <<Msg("Completion", s, state)>>
    IN IF v.term # "no" THEN Becomes(s, [w EXCEPT !.pc = "exit"], b, m)
       ELSE IF v.new = NoNode THEN Becomes(s, [w EXCEPT !.pc = "idle"], b, m)
       ELSE \E x \in BOOLEAN : Becomes(s, Started(w, x), b, m)

\* Mutant of Complete: the answer to a request is not waited for.
CompleteAtOnce(s) ==
    LET v == Drained(s) IN
    /\ sv[s].pc = "complete"
    /\ CompletedBy(s, v, Emptied(s), IF v.term = "interrupted" THEN "interrupt"
                                     ELSE IF v.new # NoNode THEN "another" ELSE "normal")

\* iReceiveMessages and sendCompletionOfCalculation.
Complete(s) ==
    /\ sv[s].pc = "complete"
    /\ \E v \in {Drained(s)} :
       IF v.term # "interrupted" /\ v.new = NoNode /\ v.asked
       THEN Becomes(s, [v EXCEPT !.pc = "await"], Emptied(s), <<>>)
       ELSE CompletedBy(s, v, Emptied(s), IF v.term = "interrupted" THEN "interrupt"
                                          ELSE IF v.new # NoNode THEN "another" ELSE "normal")

\* Its loop that waits for the answer to the request for another node; an
\* interrupt that comes in the loop does not change the state reported.
Await(s) ==
    LET ended(k) == Upto(s, k).new # NoNode \/ ~Upto(s, k).asked
    IN /\ sv[s].pc = "await"
       /\ \E k \in DOMAIN box[s] :
            /\ ended(k) /\ \A j \in 1..(k - 1) : ~ended(j)
            /\ \E v \in {Upto(s, k)} :
                 CompletedBy(s, v, Rest(s, k), IF v.new # NoNode THEN "another" ELSE "normal")

\* ~ParaSolver.
Exit(s) ==
    /\ sv[s].pc = "exit"
    /\ LET v == Drained(s) IN
       Becomes(s, [NewSolver EXCEPT !.pc = "gone"], Emptied(s),
               <<Msg("Terminated", s, IF v.term = "interrupted" THEN 1 ELSE 0)>>)

-----------------------------------------------------------------------------

Root == Node(1, Leaves, 0, 0)

\* The root node has been sent to the first solver.
Init ==
    LET c == [pc |-> "run", pool |-> <<>>, cur |-> [s \in Solvers |-> NoNode],
              sbound |-> [s \in Solvers |-> 0], inc |-> Inf,
              phase |-> "rampUp", intr |-> FALSE, nterm |-> 0, hard |-> FALSE, cmp |-> FALSE]
        st == Activated([lc |-> c, box |-> [r \in 0..N |-> <<>>]], 1, Root)
    IN /\ lc = st.lc /\ box = st.box
       /\ sv = [s \in Solvers |-> NewSolver]
       /\ late = FALSE /\ sync \in SyncModes

Solve(s) ==
    \/ Idle(s) \/ Event(s) \/ WaitNotificationId(s) \/ WaitNodeReceived(s)
    \/ Finish(s) \/ Complete(s) \/ Await(s) \/ Exit(s)
    \/ \E l \in Leaves : Explore(s, l)
    \/ Report(s) \/ Ask(s) \/ \E ls \in SUBSET Leaves : Give(s, ls)

LoadCoordinator ==
    Handle \/ Close \/ \E past, past2, ramp \in BOOLEAN : Check(past, past2, ramp)

Next == LoadCoordinator \/ \E s \in Solvers : Solve(s)

\* Every process goes on while it can.  SCIP is never kept from going on with
\* its search by the messages its callback exchanges between two nodes.
Spec == /\ Init /\ [][Next]_vars
        /\ WF_vars(LoadCoordinator)
        /\ \A s \in Solvers : WF_vars(Solve(s)) /\ SF_vars(\E l \in Leaves : Explore(s, l))

-----------------------------------------------------------------------------
(* Properties.                                                             *)

Opt      == BestIn(Leaves)
Count(q, P(_)) == Cardinality({k \in DOMAIN q : P(q[k])})
From(s, tag)   == Count(box[0], LAMBDA m : m.tag = tag /\ m.src = s)
To(s, tags)    == Count(box[s], LAMBDA m : m.tag \in tags)
Running  == {s \in Solvers : sv[s].pc \notin {"exit", "gone"}}

\* Until the best solution has arrived at the load coordinator, a node that a
\* checkpoint saves, one with no ancestor, holds a best leaf, if every report
\* is waited for: a run restarted from the checkpoint finds it, whatever was
\* given away, exchanged, interrupted or is in a queue.
CheckpointCovers ==
    sync /\ lc.pc \in {"run", "check"} /\ lc.inc # Opt =>
        \E n \in Nodes(lc) : n.anc = 0 /\ BestIn(n.leaves) = Opt

\* A node that its bound lets the load coordinator delete holds nothing better
\* than the incumbent ("Optimal solution going to be killed" otherwise), if
\* every report is waited for.
NoneBetterKilled ==
    sync /\ lc.pc \in {"run", "check"} =>
        \A k \in DOMAIN lc.pool : lc.pool[k].bound >= lc.inc => BestIn(lc.pool[k].leaves) >= lc.inc

\* A run that neither the time limit nor an interrupted solver ended has found
\* the best solution (NotificationSynchronization is an option of timing).
AnswerIsOptimal == lc.pc = "done" /\ ~lc.hard /\ ~lc.cmp => lc.inc = Opt

\* It has if every report is waited for.
SyncedAnswerIsOptimal == sync => AnswerIsOptimal

\* A solution by which SCIP prunes is known to the load coordinator, on its
\* way to it, or kept to be sent, if every report is waited for.
SolutionKept ==
    \A s \in Running :
        sync /\ sv[s].own < Inf =>
            \/ lc.inc <= sv[s].own \/ sv[s].loc <= sv[s].own
            \/ \E k \in DOMAIN box[0] : box[0][k].tag = "Solution" /\ box[0][k].val <= sv[s].own

\* Each report and each request has one answer, and the solver knows when it
\* is owed one (assert(notificationProcessed) of the handler of the answer).
Conversation ==
    \A s \in Running :
        /\ From(s, "SolverState") + To(s, {"NotificationId"}) = IF sv[s].noticed THEN 1 ELSE 0
        /\ sv[s].asked =>
              From(s, "AnotherNodeRequest") + To(s, {"NoNodes", "Node"}) = 1

\* The node the load coordinator believes a solver to have is the last one
\* the solver has got or will get, but for a completion it has not seen.
AgreeOnNode ==
    \A s \in Running :
        LET sent == {k \in DOMAIN box[s] : box[s][k].tag = "Node"}
            has  == IF sent # {} THEN box[s][Max(sent)].val
                    ELSE IF sv[s].new # NoNode THEN sv[s].new ELSE sv[s].cur
        IN From(s, "Completion") = 0 =>
              lc.cur[s].id = has.id /\ lc.cur[s].leaves = has.leaves

\* The load coordinator's run ends (the queues, requests and answers lead to no
\* state in which all wait), unless a solver has gone while the load coordinator
\* takes it for active.  When its completion is still queued this passes, and the
\* run ends as well; a solver that sent none is waited for forever.
Stranded == \E s \in Active(lc) : sv[s].pc = "gone"
Returns  == <>(lc.pc = "done" \/ Stranded)
=============================================================================
