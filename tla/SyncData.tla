------------------------------ MODULE SyncData ------------------------------
(***************************************************************************)
(* What the concurrent solvers exchange through one slot of the            *)
(* synchronization store: the sorted array of the best solutions           *)
(* (SCIPsyncdataGetSolutionBuffer in scip/src/scip/syncstore.c), the store *)
(* of bound changes (scip/src/scip/boundstore.c), and the callbacks of     *)
(* scip/src/scip/concsolver_scip.c that fill and read the slot.            *)
(*                                                                         *)
(* The solvers write one after the other, in any order, under the slot's   *)
(* lock; the deterministic mode rests on the result not depending on that  *)
(* order.  When all have written they read, and the slot is reset for      *)
(* another number.                                                         *)
(***************************************************************************)
EXTENDS Integers, Sequences, FiniteSets

CONSTANTS Solvers,         \* the idx of each solver
          Vars,            \* variable indices
          MaxNSols,        \* concurrent/sync/maxnsols: the length of the solution
                           \* arrays, and what a solver shares at most
          MaxCandSols,     \* concurrent/sync/nbestsols
          SolLists,        \* the new solutions a solver may have: objectives, best first
          BoundLists       \* the bound changes a solver may have collected, in order

LOWER == "lower"
UPPER == "upper"
BoundTypes == {LOWER, UPPER}
INFINITY == 9     \* bound: larger than any value in BoundLists

Bound(v, t, b) == [varidx |-> v, boundtype |-> t, newbound |-> b]
BoundChanges   == [varidx : Vars, boundtype : BoundTypes, newbound : Int]

\* Solvers have different ids; a solver's solutions are sorted.
ASSUME SolversAssumption ==
    /\ IsFiniteSet(Solvers) /\ Solvers \subseteq Nat
    /\ MaxNSols \in Nat /\ MaxCandSols \in Nat
ASSUME SolListsAssumption ==
    \A q \in SolLists : q \in Seq(Int) /\ \A j, k \in DOMAIN q : j <= k => q[j] <= q[k]
ASSUME BoundListsAssumption ==
    IsFiniteSet(Vars) /\ \A q \in BoundLists : q \in Seq(BoundChanges)

VARIABLES
    nsols, entry,     \* nsols; solobj[p] and solsource[p] together
    sols, values,     \* the buffer at sols[p]; what each buffer holds
    bndchg, nbndchg,  \* the stored bound changes
    bndpos,           \* 1 + the index in bndchg of a variable's bound, or 0
    mysols, mybounds, \* what each solver has to share
    lb, ub,           \* the global bounds each solver knows
    received,         \* the solutions each solver's SCIP was given
    written, read     \* the solvers that have written, and read

solutions == <<nsols, entry, sols, values>>
bounds    == <<bndchg, nbndchg, bndpos>>
local     == <<mysols, mybounds, lb, ub, received>>
vars      == <<solutions, bounds, local, written, read>>

Positions == 0..(MaxNSols - 1)
NoEntry   == [obj |-> 0, source |-> -1]
NoBounds  == [v \in Vars |-> [t \in BoundTypes |-> 0]]
Lengths   == 0..(Cardinality(Vars \X BoundTypes) - 1)

-----------------------------------------------------------------------------
(* SCIPsyncdataGetSolutionBuffer.                                          *)

\* Mutant of InsertPos: equally good solutions keep the order of their arrival.
InsertPosNoTies(d, obj, owner) ==
    CHOOSE pos \in 0..d.nsols :
        /\ pos < d.nsols => d.entry[pos].obj < obj
        /\ \A p \in 0..(pos-1) : ~(d.entry[p].obj < obj)

\* The first position whose solution is better, or as good and of a solver
\* with a larger id; nsols if there is none.
InsertPos(d, obj, owner) ==
    LET stops(p) == \/ d.entry[p].obj < obj
                    \/ d.entry[p].obj = obj /\ owner < d.entry[p].source
    IN CHOOSE pos \in 0..d.nsols : /\ pos < d.nsols => stops(pos)
                                   /\ \A p \in 0..(pos-1) : ~stops(p)

\* The array with free room: what is at pos and behind moves up.
Inserted(d, pos, e) ==
    [d EXCEPT !.nsols = @ + 1,
              !.entry = [p \in Positions |-> IF p < pos THEN @[p] ELSE IF p = pos THEN e
                                             ELSE IF p <= d.nsols THEN @[p-1] ELSE @[p]],
              !.sols  = [p \in Positions |-> IF p < pos THEN @[p]
                                             ELSE IF p = pos THEN @[d.nsols]
                                             ELSE IF p <= d.nsols THEN @[p-1] ELSE @[p]]]

\* Mutant of Replaced: the buffers are not moved along.
ReplacedBuffersStay(d, pos, e) ==
    IF pos = 0 THEN d
    ELSE [d EXCEPT !.entry = [p \in Positions |-> IF p < pos - 1 THEN @[p+1]
                                                  ELSE IF p = pos - 1 THEN e ELSE @[p]]]

\* The full array: the worst solution, at position 0, is dropped, and its
\* buffer moves to the new position.
Replaced(d, pos, e) ==
    IF pos = 0 THEN d
    ELSE [d EXCEPT !.entry = [p \in Positions |-> IF p < pos - 1 THEN @[p+1]
                                                  ELSE IF p = pos - 1 THEN e ELSE @[p]],
                   !.sols  = [p \in Positions |-> IF p < pos - 1 THEN @[p+1]
                                                  ELSE IF p = pos - 1 THEN @[0] ELSE @[p]]]

\* The loop of concsolverScipSyncWrite over the solver's best solutions: the
\* solution's values go to the buffer it was given; without a buffer, or with
\* enough solutions shared, the loop ends.
ShareSol(i, w, obj) ==
    LET pos  == InsertPos(w.d, obj, i)
        e    == [obj |-> obj, source |-> i]
        full == w.d.nsols >= MaxNSols
        d    == IF full THEN Replaced(w.d, pos, e) ELSE Inserted(w.d, pos, e)
        at   == IF full THEN pos - 1 ELSE pos
    IN IF w.ended THEN w
       ELSE IF at < 0 THEN [w EXCEPT !.ended = TRUE]
       ELSE [d |-> [d EXCEPT !.values[d.sols[at]] = e],
             shared |-> w.shared + 1,
             ended  |-> w.shared + 1 = MaxNSols]

Least(a, b) == IF a <= b THEN a ELSE b

\* The loop's state after each of the candidates.
SolsShared(d, i) ==
    LET after[k \in 0..Least(MaxCandSols, Len(mysols[i]))] ==
            IF k = 0 THEN [d |-> d, shared |-> 0, ended |-> FALSE]
            ELSE ShareSol(i, after[k - 1], mysols[i][k])
    IN after

SolsWritten(d, i) == SolsShared(d, i)[Least(MaxCandSols, Len(mysols[i]))].d

-----------------------------------------------------------------------------
(* SCIPboundstoreAdd and SCIPboundstoreMerge.                              *)

\* Mutant of Tighter: the sense of upper bounds is mixed up.
TighterAlwaysLarger(t, a, b) == a > b

Tighter(t, a, b) == IF t = LOWER THEN a > b ELSE a < b

\* A bound of the variable and side that is stored already is overwritten by a
\* better one.
BoundAdded(s, chg) ==
    LET pos == s.bndpos[chg.varidx][chg.boundtype]
    IN IF pos = 0
       THEN [bndchg  |-> [s.bndchg EXCEPT ![s.nbndchg] = chg],
             nbndchg |-> s.nbndchg + 1,
             bndpos  |-> [s.bndpos EXCEPT ![chg.varidx][chg.boundtype] = s.nbndchg + 1]]
       ELSE IF Tighter(chg.boundtype, chg.newbound, s.bndchg[pos-1].newbound)
       THEN [s EXCEPT !.bndchg[pos-1].newbound = chg.newbound]
       ELSE s

MergedUpTo(s, chgs) ==
    LET after[k \in 0..Len(chgs)] ==
            IF k = 0 THEN s ELSE BoundAdded(after[k - 1], chgs[k])
    IN after

BoundsMerged(s, chgs) == MergedUpTo(s, chgs)[Len(chgs)]

EmptyStore == [bndchg |-> [k \in Lengths |-> Bound(CHOOSE v \in Vars : TRUE, LOWER, 0)],
               nbndchg |-> 0, bndpos |-> NoBounds]

\* Mutant of ClearedPositions: the positions survive the reset of the slot.
ClearedPositionsKept(pos) == pos

\* SCIPboundstoreClear: clearing the positions is enough.
ClearedPositions(pos) == NoBounds

-----------------------------------------------------------------------------
(* The slot.                                                               *)

Init ==
    /\ nsols = 0 /\ entry = [p \in Positions |-> NoEntry]
    /\ sols = [p \in Positions |-> p] /\ values = [p \in Positions |-> NoEntry]
    /\ bndchg = EmptyStore.bndchg /\ nbndchg = 0 /\ bndpos = NoBounds
    /\ mysols \in [Solvers -> SolLists]
    /\ mybounds = [i \in Solvers |-> <<>>]
    /\ lb = [i \in Solvers |-> [v \in Vars |-> -INFINITY]]
    /\ ub = [i \in Solvers |-> [v \in Vars |-> INFINITY]]
    /\ received = [i \in Solvers |-> {}]
    /\ written = {} /\ read = {}

\* A bound that is no better than what the solver knows.
NotBetter(i, chg) == IF chg.boundtype = LOWER THEN lb[i][chg.varidx] >= chg.newbound
                     ELSE ub[i][chg.varidx] <= chg.newbound

\* Solver i tightens global bounds: the event handler globalbnd adds them, in
\* this order, to its own bound store, until the next synchronization.
FindBounds(i, chgs) ==
    /\ i \notin written /\ mybounds[i] = <<>> /\ chgs # <<>>
    /\ \A k \in DOMAIN chgs : ~NotBetter(i, chgs[k])
    /\ mybounds' = [mybounds EXCEPT ![i] = chgs]
    /\ UNCHANGED <<solutions, bounds, mysols, lb, ub, received, written, read>>

\* The solver's own bound store, which the event handler filled.
OwnStore(i) == BoundsMerged(EmptyStore, mybounds[i])

\* The bounds a solver knows itself: those it has found are its own bounds.
OwnBound(i, v, t, known) ==
    LET s == OwnStore(i) IN
    IF s.bndpos[v][t] = 0 THEN known
    ELSE IF Tighter(t, s.bndchg[s.bndpos[v][t] - 1].newbound, known)
         THEN s.bndchg[s.bndpos[v][t] - 1].newbound ELSE known

\* concsolverScipSyncWrite, the status being SCIP_STATUS_UNKNOWN.
SyncWrite(i) ==
    LET own == OwnStore(i)
        d   == SolsWritten([nsols |-> nsols, entry |-> entry, sols |-> sols, values |-> values], i)
        s   == BoundsMerged([bndchg |-> bndchg, nbndchg |-> nbndchg, bndpos |-> bndpos],
                            [k \in 1..own.nbndchg |-> own.bndchg[k-1]])
    IN /\ i \notin written
       /\ nsols' = d.nsols /\ entry' = d.entry /\ sols' = d.sols /\ values' = d.values
       /\ bndchg' = s.bndchg /\ nbndchg' = s.nbndchg /\ bndpos' = s.bndpos
       /\ lb' = [lb EXCEPT ![i] = [v \in Vars |-> OwnBound(i, v, LOWER, @[v])]]
       /\ ub' = [ub EXCEPT ![i] = [v \in Vars |-> OwnBound(i, v, UPPER, @[v])]]
       /\ written' = written \cup {i}
       /\ UNCHANGED <<mysols, mybounds, received, read>>

\* The loop over the bound changes in concsolverScipSyncRead: the first one
\* that is not better makes the function return.
PassedUpTo(i) ==
    LET stops == {k \in 0..(nbndchg-1) : NotBetter(i, bndchg[k])}
    IN {k \in 0..(nbndchg-1) : \A q \in stops : k < q}

\* Mutant of SolsRead: the solver's own solutions are added, too.
SolsReadOwnToo(i) == {values[sols[p]] : p \in 0..(nsols-1)}

\* The loop over the solutions: those of the other solvers are added.
SolsRead(i) == {values[sols[p]] : p \in {q \in 0..(nsols-1) : entry[q].source # i}}

\* concsolverScipSyncRead; the propagator then tightens the solver's bounds.
SyncRead(i) ==
    LET chgs == {bndchg[k] : k \in PassedUpTo(i)}
        value(v, t, known) == IF \E c \in chgs : c.varidx = v /\ c.boundtype = t
                              THEN (CHOOSE c \in chgs : c.varidx = v /\ c.boundtype = t).newbound
                              ELSE known
    IN /\ written = Solvers /\ i \notin read
       /\ received' = [received EXCEPT ![i] = SolsRead(i)]
       /\ lb' = [lb EXCEPT ![i] = [v \in Vars |-> value(v, LOWER, @[v])]]
       /\ ub' = [ub EXCEPT ![i] = [v \in Vars |-> value(v, UPPER, @[v])]]
       /\ read' = read \cup {i}
       /\ UNCHANGED <<solutions, bounds, mysols, mybounds, written>>

\* SCIPsyncstoreStartSync of the first solver that writes another number to
\* the slot.  The entries, the buffers' order and the stored changes stay.
Reset ==
    /\ written = Solvers /\ read = Solvers
    /\ nsols' = 0 /\ nbndchg' = 0
    /\ bndpos' = IF nbndchg > 0 THEN ClearedPositions(bndpos) ELSE bndpos
    /\ mysols' \in [Solvers -> SolLists]
    /\ mybounds' = [i \in Solvers |-> <<>>]
    /\ received' = [i \in Solvers |-> {}]
    /\ written' = {} /\ read' = {}
    /\ UNCHANGED <<entry, sols, values, bndchg, lb, ub>>

Next ==
    \/ \E i \in Solvers : SyncWrite(i) \/ SyncRead(i) \/ \E chgs \in BoundLists : FindBounds(i, chgs)
    \/ Reset

Spec == Init /\ [][Next]_vars

-----------------------------------------------------------------------------
(* Properties.                                                             *)

\* No two positions share a buffer, and the buffer of a position holds the
\* solution the position describes, although only pointers are swapped.
BuffersMatch ==
    /\ \A p, q \in Positions : p # q => sols[p] # sols[q]
    /\ \A p \in 0..(nsols - 1) : values[sols[p]] = entry[p]

\* Reference: the solutions a solver offers, and their order in the array,
\* the worst first, of equally good ones the solver with the smaller id first.
Offers(i) == {<<mysols[i][k], i, k>> :
                 k \in 1..Least(Least(MaxCandSols, MaxNSols), Len(mysols[i]))}
Before(a, b) == \/ a[1] > b[1]
                \/ a[1] = b[1] /\ a[2] < b[2]
                \/ a[1] = b[1] /\ a[2] = b[2] /\ a[3] < b[3]

\* Whatever the order in which the solvers write, the array holds the
\* MaxNSols best of all solutions offered, in a fixed order: a solver that
\* stops early because one of its solutions found no room loses nothing.
SolutionsAreBest ==
    LET all  == UNION {Offers(i) : i \in written}
        rank(a) == Cardinality({b \in all : Before(b, a)})
        first == Cardinality(all) - Least(MaxNSols, Cardinality(all))
    IN /\ nsols = Least(MaxNSols, Cardinality(all))
       /\ \A a \in all : rank(a) >= first =>
            entry[rank(a) - first].obj = a[1] /\ entry[rank(a) - first].source = a[2]

\* A solver that has read is given the solutions of the others that are among
\* the best of all, with their own values, and none of its own.
OthersReceived ==
    LET all  == UNION {Offers(i) : i \in Solvers}
        rank(a) == Cardinality({b \in all : Before(b, a)})
        best == {a \in all : rank(a) >= Cardinality(all) - Least(MaxNSols, Cardinality(all))}
    IN \A i \in read :
          received[i] = {[obj |-> a[1], source |-> a[2]] : a \in {b \in best : b[2] # i}}

\* The bound changes a solver has found.
Found(i) == {mybounds[i][k] : k \in DOMAIN mybounds[i]}

\* The slot's store holds, for each variable and side some solver has a
\* change for, exactly one change: the tightest of all, whatever the order of
\* the merges; and nothing is left of the number written before.
BoundsAreTightest ==
    \A v \in Vars, t \in BoundTypes :
        LET offered == {chg \in UNION {Found(i) : i \in written} :
                            chg.varidx = v /\ chg.boundtype = t}
            stored  == {k \in 0..(nbndchg - 1) : bndchg[k].varidx = v /\ bndchg[k].boundtype = t}
        IN IF offered = {} THEN stored = {} /\ bndpos[v][t] = 0
           ELSE /\ stored = {bndpos[v][t] - 1}
                /\ LET b == bndchg[bndpos[v][t] - 1].newbound
                   IN /\ \E chg \in offered : chg.newbound = b
                      /\ \A chg \in offered : IF t = LOWER THEN chg.newbound <= b
                                               ELSE chg.newbound >= b
=============================================================================
