----------------------------- MODULE ConsArrays -----------------------------
(***************************************************************************)
(* The constraint arrays of a constraint handler of SCIP (cons.c).  Each   *)
(* array keeps its useful constraints in front of its obsolete ones, the   *)
(* array of the propagation also those marked for it in front of both, and *)
(* every change is a constant number of moves.  While a callback of the    *)
(* handler works on an array, changes are only noted in updateconss; they  *)
(* are carried out, from the last to the first, when the last callback has *)
(* returned.  The enforcement of a solution that was enforced before       *)
(* considers only the useful constraints behind lastnusefulenfoconss, the  *)
(* one counter of the LP, the relaxation and the pseudo solution.          *)
(***************************************************************************)
EXTENDS Naturals, Sequences, FiniteSets

CONSTANTS
  Conss,       \* the constraints of the handler
  Flags,       \* what the flags check, enforce and propagate may be
  Ageing,      \* constraints/obsoleteage > 0 and the constraints are dynamic
  Reenables,   \* a caller may enable what it asked to disable, and vice versa,
               \* while the first request still waits
  Solutions,   \* the solutions enforced: "lp", "relax", "pseudo"
  MaxCalls,    \* callbacks of the handler inside each other
  MaxRequests  \* bound: requests that wait

ASSUME ConsArraysAssumption ==
  /\ Flags \subseteq [check : SUBSET Conss, enforce : SUBSET Conss,
                      propagate : SUBSET Conss]
  /\ Ageing \in BOOLEAN
  /\ Reenables \in BOOLEAN
  /\ Solutions \subseteq {"lp", "relax", "pseudo"}
  /\ MaxCalls \in Nat
  /\ MaxRequests \in Nat

VARIABLES
  h,       \* the handler's arrays and the flags of its constraints
  upd,     \* the update... flags of the constraints
  queue,   \* updateconss
  calls,   \* the callbacks being executed; its length is delayupdatecount
  seen     \* history: the constraints enforced on each current solution

vars == <<h, upd, queue, calls, seen>>

Array == [list : Seq(Conss), useful : Nat]

MarkedArray == [list : Seq(Conss), useful : Nat, marked : Nat]

Handler ==
  [active : SUBSET Conss, enabled : SUBSET Conss, propenabled : SUBSET Conss,
   obsolete : SUBSET Conss,
   flags : Flags,
   old : SUBSET Conss,        \* consExceedsObsoleteage
   marked : SUBSET Conss,     \* markpropagate
   check : Array, enfo : Array, prop : MarkedArray,
   last : Nat,                \* lastnusefulenfoconss
   counted : SUBSET Solutions,    \* whose lastenfo... counters are the current
                                  \* ones, and lastenfo...result does not ask
                                  \* for another enforcement of everything
   unsettled : SUBSET Solutions]  \* history: of those counted, the ones that new
                                  \* constraints may be hidden from

Kinds == {"activate", "deactivate", "enable", "disable", "propenable",
          "propdisable", "obsolete", "mark", "unmark"}

EmptyArray == [list |-> <<>>, useful |-> 0]

Init ==
  /\ \E f \in Flags :
       h = [active |-> {}, enabled |-> {}, propenabled |-> f.propagate,
            obsolete |-> {}, flags |-> f, old |-> {}, marked |-> Conss,
            check |-> EmptyArray, enfo |-> EmptyArray,
            prop |-> [list |-> <<>>, useful |-> 0, marked |-> 0],
            last |-> 0, counted |-> {}, unsettled |-> {}]
  /\ upd = [k \in Kinds |-> {}]
  /\ queue = <<>>
  /\ calls = <<>>
  /\ seen = [s \in Solutions |-> {}]

-----------------------------------------------------------------------------
(* Moves in an array.  Positions count from 1.                             *)

Pos(a, c) == CHOOSE i \in DOMAIN a.list : a.list[i] = c

Switched(a, i, j) ==
  [a EXCEPT !.list = [@ EXCEPT ![i] = a.list[j], ![j] = a.list[i]]]

\* Switch with the last useful constraint, which becomes the first obsolete.
ToObsolete(a, c) == [Switched(a, Pos(a, c), a.useful) EXCEPT !.useful = @ - 1]

\* Switch with the first obsolete constraint, which becomes the last useful.
ToUseful(a, c) == [Switched(a, Pos(a, c), a.useful + 1) EXCEPT !.useful = @ + 1]

Added(a, c, obsolete) ==
  IF obsolete \/ a.useful = Len(a.list)
  THEN [a EXCEPT !.list = Append(@, c),
                 !.useful = IF obsolete THEN @ ELSE @ + 1]
  ELSE [a EXCEPT !.list = Append([@ EXCEPT ![a.useful + 1] = c],
                                 @[a.useful + 1]),
                 !.useful = @ + 1]

\* The last useful constraint fills the gap of a useful one, and the last one
\* of the array the gap this leaves.
Deleted(a, c, obsolete) ==
  LET p == Pos(a, c)
      gap == IF obsolete THEN p ELSE a.useful
      filled == IF obsolete THEN a.list
                ELSE [a.list EXCEPT ![p] = a.list[a.useful]]
      closed == [filled EXCEPT ![gap] = filled[Len(filled)]]
  IN  [a EXCEPT !.list = SubSeq(closed, 1, Len(closed) - 1),
                !.useful = IF obsolete THEN @ ELSE @ - 1]

ToMarked(a, c) ==
  [Switched(a, Pos(a, c), a.marked + 1) EXCEPT !.marked = @ + 1]

ToUnmarked(a, c) ==
  [Switched(a, Pos(a, c), a.marked) EXCEPT !.marked = @ - 1]

-----------------------------------------------------------------------------
(* conshdlr...: the changes of a handler g.                                *)

MarkConsPropagate(g, c) ==
  IF c \notin g.enabled \/ c \in g.marked THEN g
  ELSE [g EXCEPT
         !.marked = @ \union {c},
         !.prop = IF c \notin g.flags.propagate \intersect g.propenabled THEN @
                  ELSE ToMarked(IF c \in g.obsolete THEN ToUseful(@, c) ELSE @, c)]

\* Mutant of UnmarkConsPropagate: an obsolete constraint stays among the useful ones.
UnmarkedInPlace(g, c) ==
  IF c \notin g.enabled \intersect g.marked THEN g
  ELSE [g EXCEPT
         !.marked = @ \ {c},
         !.prop = IF c \notin g.flags.propagate \intersect g.propenabled THEN @
                  ELSE ToUnmarked(@, c)]

UnmarkConsPropagate(g, c) ==
  IF c \notin g.enabled \intersect g.marked THEN g
  ELSE LET unmarked == ToUnmarked(g.prop, c)
       IN  [g EXCEPT
             !.marked = @ \ {c},
             !.prop = IF c \notin g.flags.propagate \intersect g.propenabled THEN @
                      ELSE IF c \in g.obsolete THEN ToObsolete(unmarked, c)
                           ELSE unmarked]

AddPropcons(g, c) ==
  LET added == [g EXCEPT !.prop = Added(@, c, c \in g.obsolete)]
  IN  IF c \in g.marked
      THEN MarkConsPropagate([added EXCEPT !.marked = @ \ {c}], c)
      ELSE added

DelPropcons(g, c) ==
  LET unmarked == UnmarkConsPropagate(g, c)
  IN  [unmarked EXCEPT !.prop = Deleted(@, c, c \in g.obsolete)]

\* An obsolete constraint would be overlooked by an enforcement of the new
\* constraints only: reset the counters.
AddEnfocons(g, c) ==
  [g EXCEPT !.enfo = Added(@, c, c \in g.obsolete),
            !.counted = IF c \in g.obsolete THEN {} ELSE @,
            !.unsettled = IF c \in g.obsolete THEN {} ELSE @]

\* Mutant of LastAfterDel: the counter is not adjusted.
LastAfterDelKept(g, p) == g.last

\* The constraint that fills the gap may be a new one.  unsettled notes that the
\* deleted one was itself behind lastnusefulenfoconss, and not the first there.
LastAfterDel(g, p) ==
  LET last == IF p <= g.last THEN g.last - 1 ELSE g.last
  IN  IF g.enfo.useful > last THEN p - 1 ELSE last

DelEnfocons(g, c) ==
  LET p == Pos(g.enfo, c)
      obsolete == c \in g.obsolete
  IN  [g EXCEPT !.enfo = Deleted(@, c, obsolete),
                !.last = IF obsolete THEN @ ELSE LastAfterDel(g, p),
                !.unsettled = IF ~obsolete /\ p > g.last + 1 THEN g.counted ELSE @]

\* unsettled notes that a new constraint is moved before lastnusefulenfoconss.
EnfoObsolete(g, c) ==
  LET p == Pos(g.enfo, c)
  IN  [g EXCEPT !.enfo = ToObsolete(@, c),
                !.last = IF p <= g.last THEN @ - 1 ELSE @,
                !.counted = IF p <= g.last THEN @ ELSE {},
                !.unsettled = IF p > g.last THEN {}
                              ELSE IF g.last < g.enfo.useful THEN g.counted ELSE @]

EnableCons(g, c) ==
  LET on == [g EXCEPT !.enabled = @ \union {c}]
      enforced == IF c \in g.flags.enforce THEN AddEnfocons(on, c) ELSE on
  IN  IF c \in g.flags.propagate \intersect g.propenabled
      THEN AddPropcons(enforced, c) ELSE enforced

DisableCons(g, c) ==
  LET unenforced == IF c \in g.flags.enforce THEN DelEnfocons(g, c) ELSE g
      unpropagated == IF c \in g.flags.propagate \intersect g.propenabled
                      THEN DelPropcons(unenforced, c) ELSE unenforced
  IN  [unpropagated EXCEPT !.enabled = @ \ {c}]

ActivateCons(g, c) ==
  LET on == [g EXCEPT !.active = @ \union {c}]
  IN  EnableCons(IF c \in g.flags.check
                 THEN [on EXCEPT !.check = Added(@, c, c \in g.obsolete)]
                 ELSE on, c)

\* Mutant of DeactivateCons: the constraint is not disabled first.
DeactivateEnabledCons(g, c) ==
  [g EXCEPT !.active = @ \ {c},
            !.check = IF c \in g.flags.check
                      THEN Deleted(@, c, c \in g.obsolete) ELSE @]

DeactivateCons(g, c) ==
  LET off == IF c \in g.enabled THEN DisableCons(g, c) ELSE g
      unchecked == IF c \in g.flags.check
                   THEN [off EXCEPT !.check = Deleted(@, c, c \in g.obsolete)]
                   ELSE off
  IN  [unchecked EXCEPT !.active = @ \ {c}]

EnableConsPropagation(g, c) ==
  LET on == [g EXCEPT !.propenabled = @ \union {c}]
  IN  IF c \in g.enabled \intersect g.flags.propagate THEN AddPropcons(on, c) ELSE on

DisableConsPropagation(g, c) ==
  LET off == IF c \in g.enabled \intersect g.flags.propagate
             THEN DelPropcons(g, c) ELSE g
  IN  [off EXCEPT !.propenabled = @ \ {c}]

\* A marked constraint stays in the first part of the array of the propagation.
InSecondPart(g, c) ==
  c \in (g.enabled \intersect g.flags.propagate \intersect g.propenabled) \ g.marked

MarkConsObsolete(g, c) ==
  LET old == [g EXCEPT !.obsolete = @ \union {c}]
      checked == IF c \in g.active \intersect g.flags.check
                 THEN [old EXCEPT !.check = ToObsolete(@, c)] ELSE old
      enforced == IF c \in g.enabled \intersect g.flags.enforce
                  THEN EnfoObsolete(checked, c) ELSE checked
  IN  IF InSecondPart(g, c)
      THEN [enforced EXCEPT !.prop = ToObsolete(@, c)] ELSE enforced

MarkConsUseful(g, c) ==
  [g EXCEPT
     !.obsolete = @ \ {c},
     !.check = IF c \in g.active \intersect g.flags.check THEN ToUseful(@, c) ELSE @,
     !.enfo = IF c \in g.enabled \intersect g.flags.enforce THEN ToUseful(@, c) ELSE @,
     !.prop = IF InSecondPart(g, c) THEN ToUseful(@, c) ELSE @]

-----------------------------------------------------------------------------
(* SCIPcons...: requests, carried out at once or noted.                    *)

\* What was enforced on a solution is kept while the solution counts as enforced.
KeepSeen == seen' = [s \in Solutions |-> IF s \in h'.counted THEN seen[s] ELSE {}]

Delayed == calls # <<>>   \* conshdlrAreUpdatesDelayed

\* conshdlrProcessUpdates is at work; nothing else happens meanwhile.
Processing == ~Delayed /\ queue # <<>>

Waits(c) == \E i \in DOMAIN queue : queue[i] = c   \* cons->update

\* conshdlrAddUpdateCons, with the flags the request sets and clears.
Note(c, set, cleared) ==
  /\ Cardinality({r \in Kinds \X Conss : r[2] \in upd[r[1]]}) < MaxRequests
  /\ queue' = IF Waits(c) THEN queue ELSE Append(queue, c)
  /\ upd' = [k \in Kinds |-> IF k = set THEN upd[k] \union {c}
                             ELSE IF k = cleared THEN upd[k] \ {c} ELSE upd[k]]

Request(c, set, cleared, done) ==
  /\ ~Processing
  /\ \/ ~Delayed /\ h' = done /\ UNCHANGED <<upd, queue>>
     \/ Delayed /\ Note(c, set, cleared) /\ UNCHANGED h
  /\ KeepSeen
  /\ UNCHANGED calls

Activate(c) ==
  /\ c \notin h.active \union upd["activate"]
  /\ Request(c, "activate", "none", ActivateCons(h, c))

Deactivate(c) ==
  /\ c \in h.active \ upd["deactivate"]
  /\ Request(c, "deactivate", "none", DeactivateCons(h, c))

Enable(c) ==
  /\ c \in h.active \ (upd["deactivate"] \union upd["enable"])
  /\ c \notin h.enabled \/ c \in upd["disable"]
  /\ c \in upd["disable"] => Reenables
  /\ Request(c, "enable", "none", EnableCons(h, c))

Disable(c) ==
  /\ c \notin upd["disable"]
  /\ c \in h.enabled \union upd["enable"]
  /\ c \in upd["enable"] => Reenables
  /\ Request(c, "disable", "none", DisableCons(h, c))

EnablePropagation(c) ==
  /\ c \in h.flags.propagate
  /\ c \notin upd["propenable"]
  /\ c \notin h.propenabled \/ c \in upd["propdisable"]
  /\ Request(c, "propenable", "propdisable", EnableConsPropagation(h, c))

\* Mutant of DisablePropagation: an earlier request to enable is not withdrawn.
DisablePropagationToo(c) ==
  /\ c \in h.flags.propagate
  /\ c \notin upd["propdisable"]
  /\ c \in h.propenabled \union upd["propenable"]
  /\ Request(c, "propdisable", "none", DisableConsPropagation(h, c))

DisablePropagation(c) ==
  /\ c \in h.flags.propagate
  /\ c \notin upd["propdisable"]
  /\ c \in h.propenabled \union upd["propenable"]
  /\ Request(c, "propdisable", "propenable", DisableConsPropagation(h, c))

\* Mutant of MarkPropagate: carried out at once, also during a callback.
MarkPropagateAtOnce(c) ==
  /\ c \in h.flags.propagate \ h.marked
  /\ ~Processing
  /\ h' = MarkConsPropagate(h, c)
  /\ KeepSeen
  /\ UNCHANGED <<upd, queue, calls>>

MarkPropagate(c) ==
  /\ c \in h.flags.propagate
  /\ c \notin upd["mark"]
  /\ c \notin h.marked \/ c \in upd["unmark"]
  /\ Request(c, "mark", "unmark", MarkConsPropagate(h, c))

UnmarkPropagate(c) ==
  /\ c \in h.flags.propagate
  /\ c \notin upd["unmark"]
  /\ c \in h.marked \union upd["mark"]
  /\ Request(c, "unmark", "mark", UnmarkConsPropagate(h, c))

\* The age passes the limit.
AddAge(c) ==
  /\ Ageing /\ ~Processing
  /\ c \in h.active \ h.old
  /\ LET aged == [h EXCEPT !.old = @ \union {c}]
     IN  IF c \in h.obsolete
         THEN h' = aged /\ UNCHANGED <<upd, queue>>
         ELSE \/ ~Delayed /\ h' = MarkConsObsolete(aged, c) /\ UNCHANGED <<upd, queue>>
              \/ Delayed /\ h' = aged /\ Note(c, "obsolete", "none")
  /\ KeepSeen
  /\ UNCHANGED calls

ResetAge(c) ==
  /\ ~Processing
  /\ c \in h.active \intersect h.old
  /\ LET fresh == [h EXCEPT !.old = @ \ {c}]
     IN  IF c \notin h.obsolete
         THEN h' = fresh /\ UNCHANGED <<upd, queue>>
         ELSE \/ ~Delayed /\ h' = MarkConsUseful(fresh, c) /\ UNCHANGED <<upd, queue>>
              \/ Delayed /\ h' = fresh /\ Note(c, "obsolete", "none")
  /\ KeepSeen
  /\ UNCHANGED calls

-----------------------------------------------------------------------------
(* conshdlrProcessUpdates: one pass of its loop, for the last constraint.  *)

SwitchedOnOff(g, c) ==
  IF c \in upd["activate"] THEN ActivateCons(g, c)
  ELSE IF c \in upd["deactivate"]
  THEN LET off == DeactivateCons(g, c)
       IN  [off EXCEPT !.obsolete = IF c \in g.old THEN @ \union {c} ELSE @ \ {c}]
  ELSE IF c \in upd["enable"] THEN EnableCons(g, c)
  ELSE IF c \in upd["disable"] THEN DisableCons(g, c)
  ELSE g

PropagationSwitched(g, c) ==
  IF c \in upd["propenable"] \ g.propenabled THEN EnableConsPropagation(g, c)
  ELSE IF c \in upd["propdisable"] \intersect g.propenabled
  THEN DisableConsPropagation(g, c)
  ELSE g

\* Mutant of Aged: each request switches, whatever the age is by now.
AgedByRequest(g, c) ==
  IF c \notin upd["obsolete"] THEN g
  ELSE IF c \in g.obsolete THEN MarkConsUseful(g, c)
  ELSE MarkConsObsolete(g, c)

Aged(g, c) ==
  IF c \in (upd["obsolete"] \intersect g.old) \ g.obsolete
  THEN MarkConsObsolete(g, c)
  ELSE IF c \in (upd["obsolete"] \intersect g.obsolete) \ g.old
  THEN MarkConsUseful(g, c)
  ELSE g

MarkSwitched(g, c) ==
  IF c \in upd["mark"] THEN MarkConsPropagate(g, c)
  ELSE IF c \in upd["unmark"] THEN UnmarkConsPropagate(g, c)
  ELSE g

ProcessUpdate ==
  /\ Processing
  /\ LET c == queue[Len(queue)]
         switched == PropagationSwitched(SwitchedOnOff(h, c), c)
     IN  /\ h' = MarkSwitched(Aged(switched, c), c)
         /\ upd' = [k \in Kinds |-> upd[k] \ {c}]
  /\ queue' = SubSeq(queue, 1, Len(queue) - 1)
  /\ KeepSeen
  /\ UNCHANGED calls

-----------------------------------------------------------------------------
(* Callbacks of the handler.                                               *)

Members(a, from, to) == {a.list[i] : i \in from .. to}

\* The other solutions that count as enforced while new constraints wait.
HiddenFrom(s) == IF h.last < h.enfo.useful THEN h.counted \ {s} ELSE {}

\* SCIPconshdlrEnforceLPSol, ...EnforceRelaxSol, ...EnforcePseudoSol up to the
\* callback.  On a solution that was enforced before only the new useful
\* constraints are passed, unless the enforcement of a pseudo solution is forced.
\* Without any constraint to pass, a handler with the flag needscons is not
\* called.  unsettled notes that new constraints pass for enforced on the other
\* solutions, too: they share lastnusefulenfoconss.
Enforce(s) ==
  /\ ~Processing /\ ~Delayed
  /\ \E again \in BOOLEAN :
       /\ again => s \in h.counted
       /\ s \in h.counted /\ s # "pseudo" => again
       /\ IF again THEN h.last < h.enfo.useful ELSE h.enfo.list # <<>>
       /\ seen' = [seen EXCEPT ![s] =
                     IF again THEN @ \union Members(h.enfo, h.last + 1, h.enfo.useful)
                     ELSE Members(h.enfo, 1, Len(h.enfo.list))]
       /\ h' = [h EXCEPT
                  !.last = h.enfo.useful,
                  !.counted = @ \union {s},
                  !.unsettled = IF again THEN @ \union HiddenFrom(s)
                                ELSE (@ \ {s}) \union HiddenFrom(s)]
  /\ calls' = <<s>>
  /\ UNCHANGED <<upd, queue>>

\* Any callback but an enforcement during which updates are delayed, the
\* propagation in probing mode within an enforcement for one.
Call ==
  /\ ~Processing
  /\ Len(calls) < MaxCalls
  /\ calls' = Append(calls, "other")
  /\ UNCHANGED <<h, upd, queue, seen>>

\* The solutions of these kinds do not count as enforced.
Forget(kinds) ==
  /\ h' = [h EXCEPT !.counted = @ \ kinds, !.unsettled = @ \ kinds]
  /\ KeepSeen

\* The callback returns, an enforcement with SCIP_CONSADDED (or SCIP_SOLVELP, of
\* a relaxation or pseudo solution) or not.
Return ==
  /\ Delayed
  /\ \E again \in SUBSET ({calls[Len(calls)]} \ {"other"}) :
       Forget(again)
  /\ calls' = SubSeq(calls, 1, Len(calls) - 1)
  /\ UNCHANGED <<upd, queue>>

\* The LP or the relaxation is solved again, or the domains or the node change:
\* the counters are no longer current.
NewSolution ==
  /\ ~Processing /\ ~Delayed
  /\ \E new \in {Solutions} \union {{s} : s \in Solutions \ {"pseudo"}} :
       Forget(new)
  /\ UNCHANGED <<upd, queue, calls>>

Next ==
  \/ \E c \in Conss :
       \/ Activate(c)
       \/ Deactivate(c)
       \/ Enable(c)
       \/ Disable(c)
       \/ EnablePropagation(c)
       \/ DisablePropagation(c)
       \/ MarkPropagate(c)
       \/ UnmarkPropagate(c)
       \/ AddAge(c)
       \/ ResetAge(c)
  \/ ProcessUpdate
  \/ \E s \in Solutions : Enforce(s)
  \/ Call
  \/ Return
  \/ NewSolution

Spec == Init /\ [][Next]_vars

-----------------------------------------------------------------------------
(* Properties.                                                             *)

\* The lists hold each member once, the useful ones in front.
Parted(a, members, obsolete) ==
  /\ a.list \in Seq(Conss)
  /\ a.useful \in 0 .. Len(a.list)
  /\ \A i, j \in DOMAIN a.list : a.list[i] = a.list[j] => i = j
  /\ \A c \in Conss : c \in members <=> \E i \in DOMAIN a.list : a.list[i] = c
  /\ \A i \in DOMAIN a.list : i <= a.useful <=> a.list[i] \notin obsolete

\* The type of every variable; only active constraints are enabled.
TypeOK ==
  /\ h \in Handler
  /\ h.enabled \subseteq h.active
  /\ upd \in [Kinds -> SUBSET Conss]
  /\ queue \in Seq(Conss)
  /\ calls \in Seq(Solutions \union {"other"})
  /\ seen \in [Solutions -> SUBSET Conss]

\* What checkConssArrays tests between any two changes (its test of the
\* propagation array allows a marked obsolete constraint in the first part
\* only): an array holds its constraints once, useful before obsolete.
CheckParted == Parted(h.check, h.active \intersect h.flags.check, h.obsolete)

EnfoParted == Parted(h.enfo, h.enabled \intersect h.flags.enforce, h.obsolete)

InProp == h.enabled \intersect h.flags.propagate \intersect h.propenabled

PropParted ==
  /\ Parted(h.prop, InProp, h.obsolete \ h.marked)
  /\ h.prop.marked \in 0 .. h.prop.useful
  /\ \A i \in DOMAIN h.prop.list :
       i <= h.prop.marked <=> h.prop.list[i] \in h.marked

ArraysParted == CheckParted /\ EnfoParted /\ PropParted

\* What is to be enabled as well as disabled: SCIPconsEnable and SCIPconsDisable
\* let both requests wait for a constraint.  Its removal settles them.
Contradicted == (upd["enable"] \intersect upd["disable"]) \ upd["deactivate"]

UpdatesAgreeBut(excepted) ==
  /\ \A i \in DOMAIN queue : \E k \in Kinds : queue[i] \in upd[k]
  /\ \A k \in Kinds : \A c \in upd[k] : Waits(c)
  /\ upd["activate"] \intersect
       (h.active \union upd["deactivate"] \union upd["enable"]
          \union upd["disable"] \union upd["obsolete"]) = {}
  /\ upd["deactivate"] \subseteq h.active
  /\ (upd["enable"] \ upd["deactivate"]) \intersect
       (h.enabled \union upd["disable"]) \subseteq excepted
  /\ upd["disable"] \ upd["deactivate"] \subseteq h.enabled \union excepted
  /\ upd["propenable"] \intersect upd["propdisable"] = {}

\* The assertions at the head of the loop of conshdlrProcessUpdates: the
\* requests noted for one constraint during a callback never contradict each
\* other or the state they are to change.
UpdatesAgree == UpdatesAgreeBut({})

\* The loop of conshdlrProcessUpdates does not serve a contradicted constraint.
ServesSettled == ProcessUpdate => queue[Len(queue)] \notin Contradicted

\* While a callback works on the arrays nobody moves a constraint in them, in
\* however many callbacks inside each other it is.
ArraysStill ==
  [][Delayed => UNCHANGED <<h.check, h.enfo, h.prop>>]_vars

\* Of a solution that counts as enforced: the next enforcement passes what is
\* behind lastnusefulenfoconss, and nothing else.
Overlooked(s) ==
  {h.enfo.list[i] : i \in DOMAIN h.enfo.list \ (h.last + 1 .. h.enfo.useful)} \ seen[s]

\* "All constraints that were not yet enforced on the new LP solution must be
\* useful constraints ... the new constraints are the last constraints of the
\* useful ones": whatever is added, removed, ages or is marked, the next
\* enforcement of the same solution misses no constraint.  This is so unless a
\* new constraint is removed before it is enforced (other than the first of
\* them), a constraint grows obsolete while new ones wait, or new ones that wait
\* are enforced on a solution of another kind.
NoneOverlooked ==
  queue = <<>> => \A s \in h.counted \ h.unsettled : Overlooked(s) = {}

\* The same without the exceptions, as the comments in SCIPconshdlrEnforceLPSol
\* and conshdlrDelEnfocons say.
NoneEverOverlooked == queue = <<>> => \A s \in h.counted : Overlooked(s) = {}

\* Delayed or not, requests take effect as if there were no delay.
States == INSTANCE ConsStates WITH
  active <- (h.active \union upd["activate"]) \ upd["deactivate"],
  enabled <- (h.enabled \union upd["activate"] \union upd["enable"])
               \ (upd["deactivate"] \union upd["disable"]),
  propenabled <- (h.propenabled \union upd["propenable"]) \ upd["propdisable"],
  obsolete <- (h.obsolete \ upd["obsolete"]) \union (h.old \intersect upd["obsolete"])

\* The handler with its arrays and delays implements ConsStates: a request takes
\* effect when it is made, and carrying out what was noted during a callback, in
\* whatever order, changes nothing of that effect.
ImplementsConsStates ==
  States!Spec /\ [][Processing => UNCHANGED States!vars]_vars
=============================================================================
