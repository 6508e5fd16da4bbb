----------------------------- MODULE EventQueue -----------------------------
(***************************************************************************)
(* The event queue and the event filters of SCIP (scip/event.c), for the   *)
(* lower bounds of variables: a change of a bound (scip/var.c) is an event *)
(* that the LP and the event handlers of the variable hear of, at once or, *)
(* while the tree switches to another node, when the queue is processed.   *)
(* Later changes of a bound are merged into the event that waits.          *)
(*                                                                         *)
(* A handler that is called may change bounds, and may catch and drop      *)
(* events, also of the filter that is being processed: filters put off     *)
(* additions and deletions till then.  Positions start with 1, 0 is the    *)
(* code's -1 and Used its -2.                                              *)
(***************************************************************************)
EXTENDS Integers, Sequences, FiniteSets

CONSTANTS Vars,
          InLP,        \* the variables with status COLUMN or LOOSE
          Bounds,      \* the values of a lower bound
          Handlers,    \* pairs of an event handler and its event data
          VarOf,       \* the variable of a handler
          CatchTypes,  \* the event types it catches
          MaxChanges,  \* bound: changes of a lower bound
          MaxEdits     \* bound: calls that catch or drop events

Types == {"tightened", "relaxed"}    \* SCIP_EVENTTYPE_LBTIGHTENED, LBRELAXED

ASSUME VarsAssumption     == /\ InLP \subseteq Vars /\ Bounds \subseteq Int
                             /\ \E b \in Bounds : \A c \in Bounds : b <= c
ASSUME HandlersAssumption == /\ VarOf \in [Handlers -> Vars]
                             /\ CatchTypes \in [Handlers -> (SUBSET Types) \ {{}}]
ASSUME MaxAssumption      == MaxChanges \in Nat /\ MaxEdits \in Nat

Used == -1

VARIABLES lb,       \* locdom.lb of the variables
          lp,       \* the lower bounds the LP reckons with
          events,   \* the queue
          index,    \* eventqueueindexlb of the variables
          delay,    \* delayevents
          at,       \* the next event in SCIPeventqueueProcess, 0: not running
          filter,   \* the event filters of the variables
          stack,    \* the calls of SCIPeventfilterProcess, the innermost last
          pos,      \* the position of a handler's entry, 0: nothing caught
          view,     \* the bound a handler knows, from its catching and events
          sure,     \* whether no event was pending when it caught
          changes, edits

queue == <<events, index, delay, at>>
handlers == <<pos, view, sure>>
vars == <<lb, lp, events, index, delay, at, filter, stack, pos, view, sure, changes, edits>>

Event(v, old, new) ==
    [var |-> v, type |-> IF new > old THEN "tightened" ELSE "relaxed", old |-> old, new |-> new]

-----------------------------------------------------------------------------
(* Filters: eventtypes, eventhdlrs, nextpos, firstfreepos, firstdeletedpos, *)
(* eventmask, delayedeventmask and delayupdates.                            *)

NewFilter == [types |-> <<>>, hdlr |-> <<>>, next |-> <<>>, free |-> 0, del |-> 0,
              mask |-> {}, dmask |-> {}, delayed |-> FALSE]

Appended(f, h) == [f EXCEPT !.types = Append(@, CatchTypes[h]), !.hdlr = Append(@, h),
                            !.next = Append(@, Used)]

\* Mutant of Added: a free slot is used though updates are delayed.
AddedInFree(f, h) ==
    IF f.free = 0
    THEN [Appended(f, h) EXCEPT !.mask = @ \cup CatchTypes[h]]
    ELSE [f EXCEPT !.types[f.free] = CatchTypes[h], !.hdlr[f.free] = h, !.next[f.free] = Used,
                   !.free = f.next[f.free], !.mask = @ \cup CatchTypes[h]]

\* SCIPeventfilterAdd.
Added(f, h) ==
    IF f.delayed
    THEN [Appended(f, h) EXCEPT !.dmask = @ \cup CatchTypes[h]]
    ELSE IF f.free = 0
    THEN [Appended(f, h) EXCEPT !.mask = @ \cup CatchTypes[h]]
    ELSE [f EXCEPT !.types[f.free] = CatchTypes[h], !.hdlr[f.free] = h, !.next[f.free] = Used,
                   !.free = f.next[f.free], !.mask = @ \cup CatchTypes[h]]

AddedAt(f) == IF f.delayed \/ f.free = 0 THEN Len(f.types) + 1 ELSE f.free

\* Mutant of Freed: the rest of the free list is lost.
FreedLast(f, k) == [f EXCEPT !.types[k] = {}, !.next[k] = 0, !.free = k]

\* The slot k is disabled and put into the free list.
Freed(f, k) == [f EXCEPT !.types[k] = {}, !.next[k] = f.free, !.free = k]

\* SCIPeventfilterDel.
Deleted(f, k) == IF f.delayed THEN [f EXCEPT !.next[k] = f.del, !.del = k] ELSE Freed(f, k)

\* The list of positions that starts with k.
ListFrom(f, k) ==
    LET from[n \in 0..Len(f.next)] ==
            IF n = 0 THEN <<>>
            ELSE LET l == from[n - 1]
                     m == IF l = <<>> THEN k ELSE f.next[l[Len(l)]]
                 IN IF m \in DOMAIN f.next THEN Append(l, m) ELSE l
    IN from[Len(f.next)]
InList(f, k) == {ListFrom(f, k)[j] : j \in DOMAIN ListFrom(f, k)}

\* eventfilterProcessUpdates: the deleted entries go to the free list.
FreedDeleted(f) ==
    LET l == ListFrom(f, f.del)
        freed[j \in 0..Len(l)] == IF j = 0 THEN f ELSE Freed(freed[j - 1], l[j])
    IN freed[Len(l)]

Updated(f) ==
    LET freed == FreedDeleted(f)
    IN [f EXCEPT !.types = freed.types, !.next = freed.next, !.free = freed.free, !.del = 0,
                 !.mask = @ \cup f.dmask, !.dmask = {}, !.delayed = FALSE]

\* The end of SCIPeventfilterProcess.
Ended(f, type, processed) ==
    Updated([f EXCEPT !.mask = IF processed THEN @ ELSE @ \ {type}])

-----------------------------------------------------------------------------
(* Changes of bounds.                                                       *)

\* The solver, between the calls of this module, or the handler called last.
MayAct == (stack = <<>> /\ at = 0) \/ (stack # <<>> /\ stack[Len(stack)].hdlr)

\* SCIPeventProcess: the LP, and the event filter unless it lets nobody know.
\* A frame is the event, the next position, the length at the begin, whether a
\* handler was called (processed) and whether it may act.
Processed(e) ==
    /\ lp' = IF e.type \in Types /\ e.var \in InLP THEN [lp EXCEPT ![e.var] = @ + (e.new - e.old)] ELSE lp
    /\ IF e.type \in filter[e.var].mask
       THEN /\ filter' = [filter EXCEPT ![e.var].delayed = TRUE]
            /\ stack' = Append(stack, [event |-> e, next |-> 1, len |-> Len(filter[e.var].types),
                                       processed |-> FALSE, hdlr |-> FALSE])
       ELSE UNCHANGED <<filter, stack>>

\* Mutant of Merged: only the last change is kept.
MergedLast(e, b) == Event(e.var, e.new, b)

\* The event e in the queue when the bound changes again, to b.
Merged(e, b) ==
    [e EXCEPT !.new = b, !.type = IF b < e.old THEN "relaxed"
                                  ELSE IF b > e.old THEN "tightened" ELSE "disabled"]

\* Mutant of Queued: the position of a disabled event is kept.
QueuedKept(v, old, b) ==
    /\ IF index[v] # 0
       THEN /\ events' = [events EXCEPT ![index[v]] = Merged(@, b)]
            /\ UNCHANGED index
       ELSE /\ events' = Append(events, Event(v, old, b))
            /\ index' = [index EXCEPT ![v] = Len(events) + 1]
    /\ UNCHANGED <<lp, filter, stack>>

\* SCIPeventqueueAdd while events are delayed.
Queued(v, old, b) ==
    /\ IF index[v] # 0
       THEN /\ events' = [events EXCEPT ![index[v]] = Merged(@, b)]
            /\ index' = IF b = events[index[v]].old THEN [index EXCEPT ![v] = 0] ELSE index
       ELSE /\ events' = Append(events, Event(v, old, b))
            /\ index' = [index EXCEPT ![v] = Len(events) + 1]
    /\ UNCHANGED <<lp, filter, stack>>

\* The events the variable is tracked for.
Tracked(v) == v \in InLP \/ filter[v].mask # {}

\* varProcessChgLbLocal.  A bound is not changed while a filter of its variable
\* is processed at once (assert(!eventfilter->delayupdates)).
ChangeLb(v, b) ==
    /\ MayAct /\ changes < MaxChanges /\ b # lb[v]
    /\ ~delay => ~filter[v].delayed
    /\ lb' = [lb EXCEPT ![v] = b]
    /\ changes' = changes + 1
    /\ IF ~Tracked(v) THEN UNCHANGED <<queue, lp, filter, stack>>
       ELSE IF delay THEN Queued(v, lb[v], b) /\ UNCHANGED <<delay, at>>
       ELSE Processed(Event(v, lb[v], b)) /\ UNCHANGED queue
    /\ UNCHANGED <<handlers, edits>>

\* SCIPcatchVarEvent.
Catch(h) ==
    LET v == VarOf[h] IN
    /\ MayAct /\ edits < MaxEdits /\ pos[h] = 0
    /\ filter' = [filter EXCEPT ![v] = Added(@, h)]
    /\ pos' = [pos EXCEPT ![h] = AddedAt(filter[v])]
    /\ view' = [view EXCEPT ![h] = lb[v]]
    /\ sure' = [sure EXCEPT ![h] = index[v] = 0]
    /\ edits' = edits + 1
    /\ UNCHANGED <<lb, lp, queue, stack, changes>>

\* SCIPdropVarEvent.
Drop(h) ==
    /\ MayAct /\ edits < MaxEdits /\ pos[h] # 0
    /\ filter' = [filter EXCEPT ![VarOf[h]] = Deleted(@, pos[h])]
    /\ pos' = [pos EXCEPT ![h] = 0]
    /\ edits' = edits + 1
    /\ UNCHANGED <<lb, lp, queue, stack, view, sure, changes>>

-----------------------------------------------------------------------------
(* The processing.                                                          *)

Top == stack[Len(stack)]

\* The positions at which the innermost loop still has to call a handler.
ToCall(fr) == {k \in fr.next..fr.len : fr.event.type \in filter[fr.event.var].types[k]}

\* The next handler is called.
CallHandler ==
    /\ stack # <<>> /\ ToCall(Top) # {}
    /\ LET k == CHOOSE j \in ToCall(Top) : \A i \in ToCall(Top) : j <= i
           h == filter[Top.event.var].hdlr[k]
       IN /\ stack' = [stack EXCEPT ![Len(stack)] =
                          [@ EXCEPT !.next = k + 1, !.processed = TRUE, !.hdlr = TRUE]]
          /\ view' = IF pos[h] = k THEN [view EXCEPT ![h] = Top.event.new] ELSE view
    /\ UNCHANGED <<lb, lp, queue, filter, pos, sure, changes, edits>>

\* The end of SCIPeventfilterProcess.
EndFilter ==
    /\ stack # <<>> /\ ToCall(Top) = {}
    /\ filter' = [filter EXCEPT ![Top.event.var] = Ended(@, Top.event.type, Top.processed)]
    /\ stack' = SubSeq(stack, 1, Len(stack) - 1)
    /\ UNCHANGED <<lb, lp, queue, handlers, changes, edits>>

\* SCIPeventqueueDelay.
Delay ==
    /\ stack = <<>> /\ ~delay
    /\ delay' = TRUE
    /\ UNCHANGED <<lb, lp, events, index, at, filter, stack, handlers, changes, edits>>

\* SCIPeventqueueProcess begins.
BeginQueue ==
    /\ stack = <<>> /\ delay /\ at = 0
    /\ at' = 1
    /\ UNCHANGED <<lb, lp, events, index, delay, filter, stack, handlers, changes, edits>>

\* The next event is unmarked and processed.
NextEvent ==
    /\ stack = <<>> /\ at \in DOMAIN events
    /\ LET e == events[at]
       IN /\ index' = IF e.type \in Types THEN [index EXCEPT ![e.var] = 0] ELSE index
          /\ Processed(e)
    /\ at' = at + 1
    /\ UNCHANGED <<lb, events, delay, handlers, changes, edits>>

\* SCIPeventqueueProcess ends.
EndQueue ==
    /\ stack = <<>> /\ at > Len(events)
    /\ events' = <<>> /\ delay' = FALSE /\ at' = 0
    /\ UNCHANGED <<lb, lp, index, filter, stack, handlers, changes, edits>>

-----------------------------------------------------------------------------

Least == CHOOSE b \in Bounds : \A c \in Bounds : b <= c

Init ==
    /\ lb = [v \in Vars |-> Least] /\ lp = [v \in Vars |-> Least]
    /\ events = <<>> /\ index = [v \in Vars |-> 0] /\ delay = FALSE /\ at = 0
    /\ filter = [v \in Vars |-> NewFilter] /\ stack = <<>>
    /\ pos = [h \in Handlers |-> 0] /\ view = [h \in Handlers |-> Least]
    /\ sure = [h \in Handlers |-> FALSE] /\ changes = 0 /\ edits = 0

Next ==
    \/ \E v \in Vars, b \in Bounds : ChangeLb(v, b)
    \/ \E h \in Handlers : Catch(h) \/ Drop(h)
    \/ CallHandler \/ EndFilter \/ Delay \/ BeginQueue \/ NextEvent \/ EndQueue

Spec == Init /\ [][Next]_vars

-----------------------------------------------------------------------------
(* Properties.                                                              *)

\* A variable's index is that of its only event that waits, one with the bound
\* the variable has and the type that goes with it: merging keeps every change.
QueueCurrent ==
    /\ \A v \in Vars : index[v] # 0 =>
          /\ index[v] \in DOMAIN events /\ at <= index[v]
          /\ LET e == events[index[v]]
             IN e = Event(v, e.old, lb[v]) /\ e.old # lb[v]
    /\ \A k \in DOMAIN events : k >= at /\ events[k].type \in Types => index[events[k].var] = k

\* What is to change when the events that wait are processed.
Before(v) == IF index[v] # 0 THEN events[index[v]].old ELSE lb[v]

\* The LP, which hears of differences only, reckons with the bound up to the
\* event that waits.
LPCurrent == \A v \in InLP : lp[v] = Before(v)

\* A handler that has caught both types while no event waited has heard of
\* every change in order: what it knows is what the next event changes.
ViewCurrent ==
    \A h \in Handlers : pos[h] # 0 /\ sure[h] /\ CatchTypes[h] = Types =>
        LET v == VarOf[h]
            calls == {k \in DOMAIN stack : stack[k].event.var = v /\ pos[h] \in ToCall(stack[k])}
        IN view[h] = IF calls # {} THEN stack[CHOOSE k \in calls : TRUE].event.old ELSE Before(v)

\* Each slot belongs to one handler that has caught, is in the list of deleted
\* entries while its filter is processed, or is disabled and in the free list.
SlotsAccounted ==
    /\ \A h \in Handlers : pos[h] # 0 =>
          /\ pos[h] \in DOMAIN filter[VarOf[h]].types
          /\ filter[VarOf[h]].hdlr[pos[h]] = h /\ filter[VarOf[h]].next[pos[h]] = Used
          /\ filter[VarOf[h]].types[pos[h]] = CatchTypes[h]
    /\ \A v \in Vars : LET f == filter[v] IN
          /\ InList(f, f.free) = {k \in DOMAIN f.types : f.types[k] = {}}
          /\ InList(f, f.del) = {k \in DOMAIN f.types :
                                   f.types[k] # {} /\ \A h \in Handlers : VarOf[h] = v => pos[h] # k}
          /\ f.del # 0 => f.delayed
=============================================================================
