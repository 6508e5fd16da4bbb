-------------------------- MODULE EventQueueProofs --------------------------
(***************************************************************************)
(* What is proved of the event queue, for any set of variables, bounds and *)
(* handlers, and any number of changes and edits.                          *)
(***************************************************************************)
EXTENDS EventQueue, SequenceTheorems, FiniteSetTheorems, WellFoundedInduction, TLAPS

-----------------------------------------------------------------------------
(* The inductive invariant.                                                *)

Waiting == [var : Vars, type : Types \cup {"disabled"}, old : Int, new : Int]

QueueTypes ==
    /\ lb \in [Vars -> Int] /\ lp \in [Vars -> Int]
    /\ events \in Seq(Waiting)
    /\ index \in [Vars -> Nat]
    /\ delay \in BOOLEAN /\ at \in Nat
    /\ ~delay => events = <<>> /\ at = 0

\* What matters of a filter: it keeps the masks of types somebody may catch.
FilterOk(f) ==
    /\ {"mask", "dmask", "delayed", "types", "hdlr", "next", "free", "del"} \subseteq DOMAIN f
    /\ f.mask \subseteq Types /\ f.dmask \subseteq Types

FiltersOk == DOMAIN filter = Vars /\ \A v \in Vars : FilterOk(filter[v])

\* A sequence, whatever its members are.
OfItsMembers(s) == s \in Seq({s[k] : k \in DOMAIN s})

\* What matters of a frame: a handler that acts was called, and no event
\* waits for a variable whose event is processed till a handler is called.
FrameOk(fr, i) ==
    /\ {"event", "next", "len", "processed", "hdlr"} \subseteq DOMAIN fr
    /\ fr.event.var \in Vars
    /\ fr.hdlr => fr.processed
    /\ ~fr.processed => i[fr.event.var] = 0

StackOk ==
    /\ OfItsMembers(stack)
    /\ \A k \in DOMAIN stack : FrameOk(stack[k], index)
    /\ delay => Len(stack) <= 1

\* The variable of an event that waits is still tracked: the next change of
\* its bound is not missed.
WaitingTracked == \A v \in Vars : index[v] # 0 => Tracked(v)

\* The next event is one of the queue, or the first that will be added.
AtInRange == at <= Len(events) + 1

IInv ==
    /\ AtInRange /\ QueueTypes /\ FiltersOk /\ StackOk
    /\ WaitingTracked /\ QueueCurrent /\ LPCurrent

-----------------------------------------------------------------------------
(* Filters.                                                                *)

LEMMA AddedOk ==
    ASSUME NEW f, FilterOk(f), NEW h \in Handlers
    PROVE  FilterOk(Added(f, h)) /\ f.mask \subseteq Added(f, h).mask
<1>1. CatchTypes[h] \subseteq Types
  BY HandlersAssumption
<1>. QED
  BY <1>1, Zenon DEF FilterOk, Added, Appended

LEMMA DeletedOk ==
    ASSUME NEW f, FilterOk(f), NEW k
    PROVE  FilterOk(Deleted(f, k)) /\ Deleted(f, k).mask = f.mask
BY Zenon DEF FilterOk, Deleted, Freed

LEMMA EndedOk ==
    ASSUME NEW f, FilterOk(f), NEW type, NEW processed
    PROVE  FilterOk(Ended(f, type, processed))
           /\ (processed => f.mask \subseteq Ended(f, type, processed).mask)
<1>. DEFINE g == [f EXCEPT !.mask = IF processed THEN @ ELSE @ \ {type}]
<1>1. FilterOk(g) /\ g.mask = IF processed THEN f.mask ELSE f.mask \ {type}
  BY Zenon DEF FilterOk
<1>. HIDE DEF g
<1>2. FilterOk(Updated(g)) /\ Updated(g).mask = g.mask \cup g.dmask
  BY <1>1, Zenon DEF FilterOk, Updated
<1>. QED
  BY <1>1, <1>2 DEF Ended, g
-----------------------------------------------------------------------------
(* Sequences of members of any kind.                                       *)

LEMMA Pushed ==
    ASSUME NEW s, OfItsMembers(s), NEW e
    PROVE  LET t == Append(s, e)
           IN /\ OfItsMembers(t)
              /\ Len(s) \in Nat /\ Len(t) = Len(s) + 1
              /\ DOMAIN s = 1..Len(s) /\ DOMAIN t = 1..Len(s) + 1
              /\ \A k \in 1..Len(s) : t[k] = s[k]
              /\ t[Len(s) + 1] = e
<1>. DEFINE t == Append(s, e)
            S == {s[k] : k \in DOMAIN s}
<1>1. s \in Seq(S \cup {e})
  <2>1. /\ s \in Seq(S) /\ DOMAIN s = 1..Len(s) /\ Len(s) \in Nat
    BY LenProperties DEF OfItsMembers
  <2>. HIDE DEF S
  <2>2. \A k \in 1..Len(s) : s[k] \in S \cup {e}
    BY <2>1, ElementOfSeq
  <2>3. s = [k \in 1..Len(s) |-> s[k]]
    BY <2>1
  <2>. QED
    BY <2>1, <2>2, <2>3, IsASeq
<1>2. /\ t \in Seq(S \cup {e}) /\ Len(t) = Len(s) + 1
      /\ \A k \in 1..Len(s) : t[k] = s[k]
      /\ t[Len(s) + 1] = e
      /\ Len(s) \in Nat /\ DOMAIN s = 1..Len(s) /\ DOMAIN t = 1..Len(s) + 1
  BY <1>1, AppendProperties, LenProperties
<1>. HIDE DEF t
<1>3. OfItsMembers(t)
  <2>1. t = [k \in 1..Len(t) |-> t[k]]
    BY <1>2
  <2>. QED
    BY <1>2, <2>1, IsASeq DEF OfItsMembers
<1>. QED
  BY <1>2, <1>3 DEF t

LEMMA Popped ==
    ASSUME NEW s, OfItsMembers(s), s # <<>>
    PROVE  LET t == SubSeq(s, 1, Len(s) - 1)
           IN /\ OfItsMembers(t)
              /\ Len(s) \in Nat \ {0} /\ Len(t) = Len(s) - 1
              /\ DOMAIN s = 1..Len(s) /\ DOMAIN t = 1..Len(s) - 1
              /\ \A k \in 1..Len(s) - 1 : t[k] = s[k]
<1>. DEFINE t == SubSeq(s, 1, Len(s) - 1)
            S == {s[k] : k \in DOMAIN s}
<1>1. s \in Seq(S) /\ Len(s) \in Nat \ {0} /\ DOMAIN s = 1..Len(s)
  BY LenProperties, EmptySeq DEF OfItsMembers
<1>2. \A k \in 1..Len(s) - 1 : s[k] \in S
  BY <1>1
<1>. HIDE DEF S
<1>3. t \in Seq(S) /\ Len(t) = Len(s) - 1 /\ \A k \in 1..Len(s) - 1 : t[k] = s[k]
  BY <1>1, <1>2, SubSeqProperties
<1>. HIDE DEF t
<1>4. DOMAIN t = 1..Len(s) - 1 /\ OfItsMembers(t)
  <2>1. DOMAIN t = 1..Len(t)
    BY <1>3, LenProperties
  <2>2. t = [k \in 1..Len(t) |-> t[k]]
    BY <1>3, <2>1
  <2>. QED
    BY <1>1, <1>3, <2>1, <2>2, IsASeq DEF OfItsMembers
<1>. QED
  BY <1>1, <1>3, <1>4 DEF t

LEMMA Replaced ==
    ASSUME NEW s, OfItsMembers(s), NEW n, NEW e
    PROVE  LET t == [s EXCEPT ![n] = e]
           IN /\ OfItsMembers(t) /\ Len(t) = Len(s) /\ DOMAIN t = DOMAIN s
              /\ \A k \in DOMAIN s : t[k] = IF k = n THEN e ELSE s[k]
<1>. DEFINE t == [s EXCEPT ![n] = e]
<1>1. Len(s) \in Nat /\ DOMAIN s = 1..Len(s) /\ s = [k \in DOMAIN s |-> s[k]]
  BY LenProperties DEF OfItsMembers
<1>2. DOMAIN t = 1..Len(s) /\ \A k \in DOMAIN s : t[k] = IF k = n THEN e ELSE s[k]
  BY <1>1
<1>3. t = [k \in 1..Len(s) |-> t[k]]
  BY <1>1
<1>. HIDE DEF t
<1>4. t \in Seq({t[k] : k \in DOMAIN t})
  BY <1>1, <1>2, <1>3, IsASeq
<1>5. Len(t) = Len(s)
  BY <1>1, <1>2, <1>4, LenProperties
<1>. QED
  BY <1>1, <1>2, <1>4, <1>5 DEF OfItsMembers, t
-----------------------------------------------------------------------------
(* Every step keeps the invariant.                                         *)

\* The start of the processing of an event: the masks stay, and the frame that
\* is added is that of an event that does not wait.
LEMMA ProcessedOk ==
    ASSUME IInv, NEW e, e.var \in Vars, Processed(e), UNCHANGED delay,
           delay => stack = <<>>, NEW i, i[e.var] = 0,
           \A k \in DOMAIN stack : FrameOk(stack[k], i)
    PROVE  /\ FiltersOk' /\ \A v \in Vars : filter'[v].mask = filter[v].mask
           /\ OfItsMembers(stack') /\ \A k \in DOMAIN stack' : FrameOk(stack'[k], i)
           /\ delay' => Len(stack') <= 1
<1>1. CASE e.type \in filter[e.var].mask
  <2>. DEFINE fr == [event |-> e, next |-> 1, len |-> Len(filter[e.var].types),
                     processed |-> FALSE, hdlr |-> FALSE]
  <2>1. /\ filter' = [filter EXCEPT ![e.var].delayed = TRUE]
        /\ stack' = Append(stack, fr)
    BY <1>1 DEF Processed
  <2>2. FrameOk(fr, i)
    BY DEF FrameOk
  <2>. HIDE DEF fr
  <2>3. /\ OfItsMembers(stack') /\ Len(stack) \in Nat /\ Len(stack') = Len(stack) + 1
        /\ DOMAIN stack = 1..Len(stack) /\ DOMAIN stack' = 1..Len(stack) + 1
        /\ \A k \in 1..Len(stack) : stack'[k] = stack[k]
        /\ stack'[Len(stack) + 1] = fr
    BY <2>1, Pushed DEF IInv, StackOk
  <2>4. \A k \in DOMAIN stack' : FrameOk(stack'[k], i)
    <3>1. ASSUME NEW k \in DOMAIN stack'
          PROVE  FrameOk(stack'[k], i)
      <4>1. k \in DOMAIN stack \/ k = Len(stack) + 1
        BY <2>3, <3>1
      <4>. QED
        BY <2>2, <2>3, <4>1
    <3>. QED
      BY <3>1
  <2>5. delay' => Len(stack') <= 1
    <3>1. delay => Len(stack) = 0
      BY EmptySeq
    <3>. QED
      BY <2>3, <3>1
  <2>6. FiltersOk' /\ \A v \in Vars : filter'[v].mask = filter[v].mask
    <3>. DEFINE f == filter[e.var]
                g == [f EXCEPT !.delayed = TRUE]
    <3>1. FilterOk(f) /\ DOMAIN filter = Vars
      BY DEF IInv, FiltersOk
    <3>2. FilterOk(g) /\ g.mask = f.mask
      BY <3>1, Zenon DEF FilterOk
    <3>3. filter' = [filter EXCEPT ![e.var] = g]
      BY <2>1
    <3>. HIDE DEF f, g
    <3>4. /\ DOMAIN filter' = Vars
          /\ \A v \in Vars : filter'[v] = IF v = e.var THEN g ELSE filter[v]
      BY <3>1, <3>3
    <3>. QED
      BY <3>2, <3>4 DEF IInv, FiltersOk, f
  <2>. QED
    BY <2>3, <2>4, <2>5, <2>6
<1>2. CASE e.type \notin filter[e.var].mask
  <2>1. UNCHANGED <<filter, stack>>
    BY <1>2 DEF Processed
  <2>. QED
    BY <2>1 DEF IInv, FiltersOk, StackOk
<1>. QED
  BY <1>1, <1>2

\* When nothing is delayed nothing waits.
LEMMA NothingWaits ==
    ASSUME IInv, ~delay
    PROVE  events = <<>> /\ at = 0 /\ \A v \in Vars : index[v] = 0
<1>1. events = <<>> /\ at = 0 /\ DOMAIN events = {}
  BY DEF IInv, QueueTypes
<1>. QED
  BY <1>1 DEF IInv, QueueCurrent

\* A change of a bound nobody is told of.
LEMMA UntrackedInv ==
    ASSUME IInv, NEW v \in Vars, NEW b \in Int, lb' = [lb EXCEPT ![v] = b],
           ~Tracked(v), UNCHANGED <<lp, queue, filter, stack>>
    PROVE  IInv'
<1>1. index[v] = 0 /\ v \notin InLP
  BY DEF IInv, WaitingTracked, Tracked
<1>2. QueueTypes'
  BY DEF IInv, QueueTypes, queue
<1>3. FiltersOk' /\ StackOk' /\ WaitingTracked'
  BY DEF IInv, FiltersOk, StackOk, WaitingTracked, Tracked, queue
<1>4. \A w \in Vars \ {v} : lb'[w] = lb[w]
  BY DEF IInv, QueueTypes
<1>5. QueueCurrent'
  <2>1. UNCHANGED <<events, index, at>>
    BY DEF queue
  <2>2. ASSUME NEW w \in Vars, index[w] # 0
        PROVE  /\ index[w] \in DOMAIN events /\ at <= index[w]
               /\ LET e == events[index[w]]
                  IN e = Event(w, e.old, lb'[w]) /\ e.old # lb'[w]
    BY <1>1, <1>4, <2>2 DEF IInv, QueueCurrent
  <2>3. \A k \in DOMAIN events : k >= at /\ events[k].type \in Types => index[events[k].var] = k
    BY DEF IInv, QueueCurrent
  <2>. QED
    BY <2>1, <2>2, <2>3 DEF QueueCurrent
<1>6. LPCurrent'
  BY <1>1, <1>4, VarsAssumption DEF IInv, LPCurrent, Before, queue
<1>7. AtInRange'
  BY DEF IInv, AtInRange, queue
<1>. QED
  BY <1>2, <1>3, <1>5, <1>6, <1>7 DEF IInv
\* Whoever acts while events are delayed was called by the queue, if at all.
LEMMA ActorsWereCalled ==
    ASSUME IInv, MayAct, delay
    PROVE  \A k \in DOMAIN stack : \A i : FrameOk(stack[k], i)
<1>1. ASSUME stack # <<>>
      PROVE  Len(stack) = 1 /\ DOMAIN stack = {1}
  <2>1. Len(stack) \in Nat \ {0} /\ DOMAIN stack = 1..Len(stack) /\ Len(stack) <= 1
    BY <1>1, LenProperties, EmptySeq DEF IInv, StackOk, OfItsMembers
  <2>. QED
    BY <2>1
<1>2. ASSUME stack = <<>>
      PROVE  DOMAIN stack = {}
  BY <1>2
<1>. QED
  BY <1>1, <1>2 DEF MayAct, IInv, StackOk, FrameOk

LEMMA EventsWait ==
    ASSUME IInv
    PROVE  \A j \in DOMAIN events : events[j] \in Waiting /\ events[j].var \in Vars
<1>1. events \in Seq(Waiting) /\ DOMAIN events = 1..Len(events)
  BY LenProperties DEF IInv, QueueTypes
<1>2. \A j \in 1..Len(events) : events[j] \in Waiting
  BY <1>1, ElementOfSeq
<1>. QED
  BY <1>1, <1>2 DEF Waiting

\* A change that is merged into the event that waits, or queued.
LEMMA MergedInv ==
    ASSUME IInv, NEW v \in Vars, NEW b \in Int, b # lb[v], lb' = [lb EXCEPT ![v] = b],
           MayAct, delay, Queued(v, lb[v], b), index[v] # 0, UNCHANGED <<delay, at>>
    PROVE  IInv'
<1>. DEFINE k == index[v]
            e == events[k]
            m == Merged(e, b)
<1>0. /\ UNCHANGED <<lp, filter, stack, delay, at>>
      /\ events' = [events EXCEPT ![k] = m]
      /\ index' = IF b = e.old THEN [index EXCEPT ![v] = 0] ELSE index
  BY DEF Queued
<1>1. /\ k \in DOMAIN events /\ at <= k /\ e = Event(v, e.old, lb[v]) /\ e.old # lb[v]
      /\ events \in Seq(Waiting) /\ DOMAIN events = 1..Len(events) /\ Len(events) \in Nat
      /\ index \in [Vars -> Nat] /\ lb \in [Vars -> Int] /\ at \in Nat
  BY LenProperties DEF IInv, QueueTypes, QueueCurrent
<1>2. e \in Waiting /\ e.var = v
  <2>1. e \in Waiting
    BY <1>1, ElementOfSeq
  <2>. QED
    BY <1>1, <2>1 DEF Event
<1>3. /\ m \in Waiting /\ m.var = v /\ m.old = e.old
      /\ b = e.old => m.type = "disabled"
      /\ b # e.old => m = Event(v, e.old, b)
  <2>. HIDE DEF e
  <2>1. /\ m \in Waiting /\ m.var = v /\ m.old = e.old /\ m.new = b /\ e.old \in Int
        /\ m.type = IF b < e.old THEN "relaxed" ELSE IF b > e.old THEN "tightened" ELSE "disabled"
    BY <1>2 DEF Merged, Waiting, Types
  <2>. HIDE DEF m
  <2>2. b # e.old => m = Event(v, e.old, b)
    BY <2>1 DEF Waiting, Event
  <2>. QED
    BY <2>1, <2>2
<1>. HIDE DEF m
<1>4. /\ events' \in Seq(Waiting) /\ DOMAIN events' = DOMAIN events
      /\ events'[k] = m /\ \A j \in DOMAIN events \ {k} : events'[j] = events[j]
  BY <1>0, <1>1, <1>3, ExceptSeq, LenProperties
<1>5. /\ index' \in [Vars -> Nat] /\ \A w \in Vars \ {v} : index'[w] = index[w]
      /\ index'[v] = IF b = e.old THEN 0 ELSE k
      /\ lb' \in [Vars -> Int] /\ lb'[v] = b /\ \A w \in Vars \ {v} : lb'[w] = lb[w]
  BY <1>0, <1>1
<1>6. ASSUME NEW w \in Vars \ {v}, index[w] # 0
      PROVE  index[w] \in DOMAIN events \ {k}
  <2>1. /\ index[w] \in DOMAIN events
        /\ events[index[w]] = Event(w, events[index[w]].old, lb[w])
    BY <1>6 DEF IInv, QueueCurrent
  <2>2. events[index[w]].var = w
    BY <2>1 DEF Event
  <2>. QED
    BY <1>2, <2>1, <2>2
<1>. HIDE DEF e
<1>7. QueueTypes'
  BY <1>0, <1>4, <1>5 DEF IInv, QueueTypes
<1>8. FiltersOk'
  BY <1>0 DEF IInv, FiltersOk
<1>9. StackOk'
  BY <1>0, ActorsWereCalled DEF IInv, StackOk
<1>10. WaitingTracked'
  BY <1>0, <1>5 DEF IInv, WaitingTracked, Tracked
<1>11. QueueCurrent'
  <2>1. ASSUME NEW w \in Vars, index'[w] # 0
        PROVE  /\ index'[w] \in DOMAIN events' /\ at <= index'[w]
               /\ LET d == events'[index'[w]]
                  IN d = Event(w, d.old, lb'[w]) /\ d.old # lb'[w]
    <3>1. CASE w = v
      BY <1>1, <1>3, <1>4, <1>5, <2>1, <3>1
    <3>2. CASE w # v
      <4>1. index'[w] = index[w] /\ lb'[w] = lb[w] /\ index[w] \in DOMAIN events \ {k}
        BY <1>5, <1>6, <2>1, <3>2
      <4>. QED
        BY <1>4, <2>1, <4>1 DEF IInv, QueueCurrent
    <3>. QED
      BY <3>1, <3>2
  <2>2. ASSUME NEW j \in DOMAIN events', j >= at, events'[j].type \in Types
        PROVE  index'[events'[j].var] = j
    <3>1. CASE j = k
      BY <1>3, <1>4, <1>5, <2>2, <3>1 DEF Types
    <3>2. CASE j # k
      <4>1. j \in DOMAIN events \ {k} /\ events'[j] = events[j] /\ events[j].var \in Vars
        BY <1>1, <1>4, <2>2, <3>2, EventsWait
      <4>2. index[events[j].var] = j
        BY <2>2, <4>1 DEF IInv, QueueCurrent
      <4>. QED
        BY <1>5, <3>2, <4>1, <4>2
    <3>. QED
      BY <3>1, <3>2
  <2>. QED
    BY <1>0, <2>1, <2>2 DEF QueueCurrent
<1>12. LPCurrent'
  <2>1. ASSUME NEW w \in InLP
        PROVE  lp[w] = Before(w)'
    <3>0. w \in Vars
      BY VarsAssumption
    <3>1. CASE w = v
      BY <1>1, <1>3, <1>4, <1>5, <3>1 DEF IInv, LPCurrent, Before, e
    <3>2. CASE w # v
      BY <1>1, <1>4, <1>5, <1>6, <3>0, <3>2 DEF IInv, LPCurrent, Before
    <3>. QED
      BY <3>1, <3>2
  <2>. QED
    BY <1>0, <2>1 DEF LPCurrent
<1>13. AtInRange'
  <2>1. Len(events') = Len(events)
    BY <1>1, <1>4, LenProperties
  <2>. QED
    BY <1>0, <2>1 DEF IInv, AtInRange
<1>. QED
  BY <1>7, <1>8, <1>9, <1>10, <1>11, <1>12, <1>13 DEF IInv

LEMMA AppendedInv ==
    ASSUME IInv, NEW v \in Vars, NEW b \in Int, b # lb[v], lb' = [lb EXCEPT ![v] = b],
           MayAct, delay, Queued(v, lb[v], b), index[v] = 0, Tracked(v), UNCHANGED <<delay, at>>
    PROVE  IInv'
<1>. DEFINE n == Len(events) + 1
            m == Event(v, lb[v], b)
<1>0. /\ UNCHANGED <<lp, filter, stack, delay, at>>
      /\ events' = Append(events, m)
      /\ index' = [index EXCEPT ![v] = n]
  BY DEF Queued
<1>1. /\ events \in Seq(Waiting) /\ DOMAIN events = 1..Len(events) /\ Len(events) \in Nat
      /\ index \in [Vars -> Nat] /\ lb \in [Vars -> Int] /\ at \in Nat
  BY LenProperties DEF IInv, QueueTypes
<1>2. m \in Waiting /\ m.var = v /\ m.old = lb[v]
  BY <1>1 DEF Waiting, Event, Types
<1>4. /\ events' \in Seq(Waiting) /\ DOMAIN events' = 1..n
      /\ events'[n] = m /\ \A j \in DOMAIN events : events'[j] = events[j]
  <2>. HIDE DEF m
  <2>. QED
    BY <1>0, <1>1, <1>2, AppendProperties, LenProperties
<1>5. /\ index' \in [Vars -> Nat] /\ \A w \in Vars \ {v} : index'[w] = index[w]
      /\ index'[v] = n
      /\ lb' \in [Vars -> Int] /\ lb'[v] = b /\ \A w \in Vars \ {v} : lb'[w] = lb[w]
  BY <1>0, <1>1
<1>6. \A w \in Vars : index[w] # 0 => index[w] \in DOMAIN events
  BY DEF IInv, QueueCurrent
<1>3. at <= n
  BY <1>1 DEF IInv, AtInRange
<1>7. QueueTypes'
  BY <1>0, <1>4, <1>5 DEF IInv, QueueTypes
<1>8. FiltersOk'
  BY <1>0 DEF IInv, FiltersOk
<1>9. StackOk'
  BY <1>0, ActorsWereCalled DEF IInv, StackOk
<1>10. WaitingTracked'
  BY <1>0, <1>5 DEF IInv, WaitingTracked, Tracked
<1>11. QueueCurrent'
  <2>1. ASSUME NEW w \in Vars, index'[w] # 0
        PROVE  /\ index'[w] \in DOMAIN events' /\ at <= index'[w]
               /\ LET d == events'[index'[w]]
                  IN d = Event(w, d.old, lb'[w]) /\ d.old # lb'[w]
    <3>1. CASE w = v
      BY <1>1, <1>2, <1>4, <1>5, <1>3, <3>1
    <3>2. CASE w # v
      <4>1. index'[w] = index[w] /\ lb'[w] = lb[w] /\ index[w] \in DOMAIN events
        BY <1>5, <1>6, <2>1, <3>2
      <4>2. index[w] \in DOMAIN events'
        BY <1>1, <1>4, <4>1
      <4>. QED
        BY <1>4, <2>1, <4>1, <4>2 DEF IInv, QueueCurrent
    <3>. QED
      BY <3>1, <3>2
  <2>2. ASSUME NEW j \in DOMAIN events', j >= at, events'[j].type \in Types
        PROVE  index'[events'[j].var] = j
    <3>1. CASE j = n
      BY <1>2, <1>4, <1>5, <3>1
    <3>2. CASE j # n
      <4>1. j \in DOMAIN events /\ events'[j] = events[j] /\ events[j].var \in Vars
        BY <1>1, <1>4, <2>2, <3>2, EventsWait
      <4>2. index[events[j].var] = j /\ j # 0
        BY <1>1, <2>2, <4>1 DEF IInv, QueueCurrent
      <4>. QED
        BY <1>5, <4>1, <4>2
    <3>. QED
      BY <3>1, <3>2
  <2>. QED
    BY <1>0, <2>1, <2>2 DEF QueueCurrent
<1>12. LPCurrent'
  <2>1. ASSUME NEW w \in InLP
        PROVE  lp[w] = Before(w)'
    <3>0. w \in Vars
      BY VarsAssumption
    <3>1. CASE w = v
      <4>1. lp[v] = lb[v]
        BY <3>1 DEF IInv, LPCurrent, Before
      <4>. QED
        BY <1>1, <1>2, <1>4, <1>5, <3>1, <4>1 DEF Before
    <3>2. CASE w # v
      BY <1>1, <1>4, <1>5, <1>6, <3>0, <3>2 DEF IInv, LPCurrent, Before
    <3>. QED
      BY <3>1, <3>2
  <2>. QED
    BY <1>0, <2>1 DEF LPCurrent
<1>13. AtInRange'
  <2>1. Len(events') = Len(events) + 1
    BY <1>1, <1>4, LenProperties
  <2>. QED
    BY <1>0, <1>1, <2>1 DEF IInv, AtInRange
<1>. QED
  BY <1>7, <1>8, <1>9, <1>10, <1>11, <1>12, <1>13 DEF IInv
\* A change that is processed at once.
LEMMA ChangedAtOnceInv ==
    ASSUME IInv, NEW v \in Vars, NEW b \in Int, lb' = [lb EXCEPT ![v] = b],
           ~delay, Tracked(v), Processed(Event(v, lb[v], b)), UNCHANGED queue
    PROVE  IInv'
<1>. DEFINE e == Event(v, lb[v], b)
<1>1. events = <<>> /\ at = 0 /\ \A w \in Vars : index[w] = 0
  BY NothingWaits
<1>2. e.var = v /\ e.old = lb[v] /\ e.new = b /\ e.type \in Types
  BY DEF Event, Types
<1>3. lp' = IF v \in InLP THEN [lp EXCEPT ![v] = @ + (b - lb[v])] ELSE lp
  BY <1>2 DEF Processed
<1>. HIDE DEF e
<1>4. UNCHANGED <<events, index, delay, at>>
  BY DEF queue
<1>5. /\ FiltersOk' /\ \A w \in Vars : filter'[w].mask = filter[w].mask
      /\ OfItsMembers(stack') /\ \A k \in DOMAIN stack' : FrameOk(stack'[k], index)
      /\ delay' => Len(stack') <= 1
  BY <1>1, <1>2, <1>4, ProcessedOk DEF IInv, StackOk, e
<1>6. /\ lb \in [Vars -> Int] /\ lp \in [Vars -> Int]
      /\ lb'[v] = b /\ \A w \in Vars \ {v} : lb'[w] = lb[w]
  BY DEF IInv, QueueTypes
<1>7. QueueTypes'
  BY <1>3, <1>4, <1>6 DEF IInv, QueueTypes
<1>8. StackOk'
  BY <1>4, <1>5 DEF StackOk
<1>9. WaitingTracked'
  BY <1>1, <1>4 DEF WaitingTracked
<1>10. QueueCurrent'
  <2>1. DOMAIN events = {}
    BY <1>1
  <2>. QED
    BY <1>1, <1>4, <2>1 DEF QueueCurrent
<1>11. LPCurrent'
  <2>1. ASSUME NEW w \in InLP
        PROVE  lp'[w] = lb'[w]
    <3>1. w \in Vars /\ lp[w] = lb[w]
      BY <1>1, VarsAssumption DEF IInv, LPCurrent, Before
    <3>2. CASE w = v
      BY <1>3, <1>6, <3>1, <3>2
    <3>3. CASE w # v
      BY <1>3, <1>6, <3>1, <3>3
    <3>. QED
      BY <3>2, <3>3
  <2>. QED
    BY <1>1, <1>4, <2>1, VarsAssumption DEF LPCurrent, Before
<1>12. AtInRange'
  BY <1>4 DEF IInv, AtInRange
<1>. QED
  BY <1>5, <1>7, <1>8, <1>9, <1>10, <1>11, <1>12 DEF IInv

LEMMA ChangeLbInv ==
    ASSUME IInv, NEW v \in Vars, NEW b \in Bounds, ChangeLb(v, b)
    PROVE  IInv'
<1>1. b \in Int /\ b # lb[v] /\ MayAct /\ lb' = [lb EXCEPT ![v] = b]
  BY VarsAssumption DEF ChangeLb
<1>2. CASE ~Tracked(v)
  BY <1>1, <1>2, UntrackedInv DEF ChangeLb
<1>3. CASE Tracked(v) /\ delay
  <2>1. Queued(v, lb[v], b) /\ UNCHANGED <<delay, at>>
    BY <1>3 DEF ChangeLb
  <2>. QED
    BY <1>1, <1>3, <2>1, MergedInv, AppendedInv
<1>4. CASE Tracked(v) /\ ~delay
  BY <1>1, <1>4, ChangedAtOnceInv DEF ChangeLb
<1>. QED
  BY <1>2, <1>3, <1>4

\* A step that touches one filter only and takes no type from its mask, unless
\* nothing waits for its variable.
LEMMA FilterStepInv ==
    ASSUME IInv, NEW v \in Vars, NEW f, filter' = [filter EXCEPT ![v] = f], FilterOk(f),
           filter[v].mask \subseteq f.mask \/ index[v] = 0,
           UNCHANGED <<lb, lp, events, index, delay, at>>, StackOk'
    PROVE  IInv'
<1>1. /\ DOMAIN filter' = Vars
      /\ \A w \in Vars : filter'[w] = IF w = v THEN f ELSE filter[w]
  BY DEF IInv, FiltersOk
<1>2. FiltersOk'
  BY <1>1 DEF IInv, FiltersOk
<1>3. WaitingTracked'
  <2>1. ASSUME NEW w \in Vars, index[w] # 0
        PROVE  Tracked(w)'
    BY <1>1, <2>1 DEF IInv, WaitingTracked, Tracked
  <2>. QED
    BY <2>1 DEF WaitingTracked
<1>4. QueueTypes' /\ QueueCurrent' /\ LPCurrent' /\ AtInRange'
  BY DEF IInv, QueueTypes, QueueCurrent, LPCurrent, Before, AtInRange
<1>. QED
  BY <1>2, <1>3, <1>4 DEF IInv

LEMMA CatchInv ==
    ASSUME IInv, NEW h \in Handlers, Catch(h)
    PROVE  IInv'
<1>. DEFINE v == VarOf[h]
            f == Added(filter[v], h)
<1>1. /\ filter' = [filter EXCEPT ![v] = f]
      /\ UNCHANGED <<lb, lp, events, index, delay, at, stack>>
  BY DEF Catch, queue
<1>2. v \in Vars
  BY HandlersAssumption
<1>3. FilterOk(f) /\ filter[v].mask \subseteq f.mask
  BY <1>2, AddedOk DEF IInv, FiltersOk
<1>4. StackOk'
  BY <1>1 DEF IInv, StackOk
<1>. HIDE DEF f, v
<1>. QED
  BY <1>1, <1>2, <1>3, <1>4, FilterStepInv

LEMMA DropInv ==
    ASSUME IInv, NEW h \in Handlers, Drop(h)
    PROVE  IInv'
<1>. DEFINE v == VarOf[h]
            f == Deleted(filter[v], pos[h])
<1>1. /\ filter' = [filter EXCEPT ![v] = f]
      /\ UNCHANGED <<lb, lp, events, index, delay, at, stack>>
  BY DEF Drop, queue
<1>2. v \in Vars
  BY HandlersAssumption
<1>3. FilterOk(f) /\ filter[v].mask = f.mask
  BY <1>2, DeletedOk DEF IInv, FiltersOk
<1>4. StackOk'
  BY <1>1 DEF IInv, StackOk
<1>. HIDE DEF f, v
<1>. QED
  BY <1>1, <1>2, <1>3, <1>4, FilterStepInv

LEMMA CallHandlerInv ==
    ASSUME IInv, CallHandler
    PROVE  IInv'
<1>. DEFINE n == Len(stack)
            k == CHOOSE j \in ToCall(Top) : \A i \in ToCall(Top) : j <= i
            fr == [Top EXCEPT !.next = k + 1, !.processed = TRUE, !.hdlr = TRUE]
<1>1. /\ stack # <<>> /\ stack' = [stack EXCEPT ![n] = fr]
      /\ UNCHANGED <<lb, lp, events, index, delay, at, filter>>
  BY DEF CallHandler, queue, Top
<1>2. n \in DOMAIN stack
  BY <1>1, LenProperties, EmptySeq DEF IInv, StackOk, OfItsMembers
<1>. HIDE DEF k
<1>3. FrameOk(fr, index)
  <2>1. FrameOk(Top, index)
    BY <1>2 DEF IInv, StackOk, Top
  <2>. QED
    BY <2>1, Zenon DEF FrameOk
<1>. HIDE DEF fr
<1>4. /\ OfItsMembers(stack') /\ Len(stack') = Len(stack) /\ DOMAIN stack' = DOMAIN stack
      /\ \A j \in DOMAIN stack : stack'[j] = IF j = n THEN fr ELSE stack[j]
  BY <1>1, Replaced DEF IInv, StackOk
<1>5. StackOk'
  BY <1>1, <1>3, <1>4 DEF IInv, StackOk
<1>6. /\ QueueTypes' /\ QueueCurrent' /\ LPCurrent' /\ AtInRange'
      /\ FiltersOk' /\ WaitingTracked'
  BY <1>1 DEF IInv, QueueTypes, QueueCurrent, LPCurrent, Before, AtInRange,
              FiltersOk, WaitingTracked, Tracked
<1>. QED
  BY <1>5, <1>6 DEF IInv

LEMMA EndFilterInv ==
    ASSUME IInv, EndFilter
    PROVE  IInv'
<1>. DEFINE v == Top.event.var
            f == Ended(filter[v], Top.event.type, Top.processed)
<1>1. /\ stack # <<>> /\ stack' = SubSeq(stack, 1, Len(stack) - 1)
      /\ filter' = [filter EXCEPT ![v] = f]
      /\ UNCHANGED <<lb, lp, events, index, delay, at>>
  BY DEF EndFilter, queue
<1>2. /\ OfItsMembers(stack')
      /\ Len(stack) \in Nat \ {0} /\ Len(stack') = Len(stack) - 1
      /\ DOMAIN stack = 1..Len(stack) /\ DOMAIN stack' = 1..Len(stack) - 1
      /\ \A k \in 1..Len(stack) - 1 : stack'[k] = stack[k]
  BY <1>1, Popped DEF IInv, StackOk
<1>3. FrameOk(Top, index)
  BY <1>2 DEF IInv, StackOk, Top
<1>4. v \in Vars /\ (Top.processed \/ index[v] = 0)
  BY <1>3 DEF FrameOk
<1>. HIDE DEF v
<1>5. FilterOk(f) /\ (Top.processed => filter[v].mask \subseteq f.mask)
  BY <1>4, EndedOk DEF IInv, FiltersOk
<1>. HIDE DEF f
<1>6. StackOk'
  <2>1. \A k \in DOMAIN stack' : k \in DOMAIN stack /\ stack'[k] = stack[k]
    BY <1>2
  <2>. QED
    BY <1>1, <1>2, <2>1 DEF IInv, StackOk
<1>. QED
  BY <1>1, <1>4, <1>5, <1>6, FilterStepInv

LEMMA DelayInv ==
    ASSUME IInv, Delay
    PROVE  IInv'
<1>1. Len(stack) = 0
  BY EmptySeq DEF Delay
<1>. QED
  BY <1>1 DEF Delay, IInv, QueueTypes, FiltersOk, StackOk, WaitingTracked, Tracked,
              QueueCurrent, LPCurrent, Before, AtInRange

LEMMA BeginQueueInv ==
    ASSUME IInv, BeginQueue
    PROVE  IInv'
<1>1. /\ at = 0 /\ at' = 1 /\ delay
      /\ UNCHANGED <<lb, lp, events, index, delay, filter, stack>>
  BY DEF BeginQueue
<1>2. /\ DOMAIN events = 1..Len(events) /\ Len(events) \in Nat
      /\ \A v \in Vars : index[v] \in Nat
  BY LenProperties DEF IInv, QueueTypes
<1>3. QueueTypes' /\ AtInRange'
  BY <1>1, <1>2 DEF IInv, QueueTypes, AtInRange
<1>4. QueueCurrent'
  <2>1. \A v \in Vars : index[v] # 0 => 1 <= index[v]
    BY <1>2
  <2>2. \A k \in DOMAIN events : k >= 0
    BY <1>2
  <2>. QED
    BY <1>1, <2>1, <2>2 DEF IInv, QueueCurrent
<1>5. FiltersOk' /\ StackOk' /\ WaitingTracked' /\ LPCurrent'
  BY <1>1 DEF IInv, FiltersOk, StackOk, WaitingTracked, Tracked, LPCurrent, Before
<1>. QED
  BY <1>3, <1>4, <1>5 DEF IInv

LEMMA NextEventInv ==
    ASSUME IInv, NextEvent
    PROVE  IInv'
<1>. DEFINE e == events[at]
<1>0. /\ stack = <<>> /\ at \in DOMAIN events /\ at' = at + 1
      /\ index' = IF e.type \in Types THEN [index EXCEPT ![e.var] = 0] ELSE index
      /\ Processed(e) /\ UNCHANGED <<lb, events, delay>>
  BY DEF NextEvent
<1>1. /\ DOMAIN events = 1..Len(events) /\ Len(events) \in Nat /\ at \in 1..Len(events)
      /\ index \in [Vars -> Nat] /\ lb \in [Vars -> Int] /\ lp \in [Vars -> Int]
  BY <1>0, LenProperties DEF IInv, QueueTypes
<1>2. e \in Waiting /\ e.var \in Vars
  BY <1>0, EventsWait
<1>3. delay
  BY <1>0, NothingWaits
<1>4. ASSUME e.type \in Types
      PROVE  index[e.var] = at /\ e = Event(e.var, e.old, lb[e.var])
  <2>1. index[e.var] = at
    BY <1>0, <1>1, <1>4 DEF IInv, QueueCurrent
  <2>2. /\ index[e.var] # 0 => LET d == events[index[e.var]]
                               IN d = Event(e.var, d.old, lb[e.var])
    BY <1>2 DEF IInv, QueueCurrent
  <2>. QED
    BY <1>1, <2>1, <2>2
<1>5. ASSUME NEW w \in Vars, index'[w] # 0
      PROVE  index'[w] = index[w] /\ index[w] # at
  <2>1. CASE e.type \in Types
    <3>1. w # e.var /\ index'[w] = index[w]
      BY <1>0, <1>1, <1>5, <2>1
    <3>2. index[w] # at
      <4>1. SUFFICES ASSUME index[w] = at
                     PROVE  FALSE
        OBVIOUS
      <4>2. e = Event(w, e.old, lb[w])
        BY <1>5, <3>1, <4>1 DEF IInv, QueueCurrent
      <4>3. e.var = w
        BY <4>2 DEF Event
      <4>. QED
        BY <3>1, <4>3
    <3>. QED
      BY <3>1, <3>2
  <2>2. CASE e.type \notin Types
    <3>1. index'[w] = index[w]
      BY <1>0, <2>2
    <3>2. index[w] # at
      <4>1. SUFFICES ASSUME index[w] = at
                     PROVE  FALSE
        OBVIOUS
      <4>2. e = Event(w, e.old, lb[w])
        BY <1>5, <3>1, <4>1 DEF IInv, QueueCurrent
      <4>3. e.type \in Types
        BY <4>2 DEF Event, Types
      <4>. QED
        BY <2>2, <4>3
    <3>. QED
      BY <3>1, <3>2
  <2>. QED
    BY <2>1, <2>2
<1>6. index' \in [Vars -> Nat]
  BY <1>0, <1>1
<1>7. lp' = IF e.type \in Types /\ e.var \in InLP
            THEN [lp EXCEPT ![e.var] = @ + (e.new - e.old)] ELSE lp
  BY <1>0 DEF Processed
<1>8. e.old \in Int /\ e.new \in Int
  BY <1>2 DEF Waiting
<1>. HIDE DEF e
<1>9. /\ FiltersOk' /\ \A w \in Vars : filter'[w].mask = filter[w].mask
      /\ StackOk'
  <2>1. CASE e.type \in Types
    <3>1. index'[e.var] = 0
      BY <1>0, <1>1, <1>2, <2>1
    <3>2. \A k \in DOMAIN stack : FrameOk(stack[k], index')
      <4>1. DOMAIN stack = {}
        BY <1>0
      <4>. QED
        BY <4>1
    <3>. QED
      BY <1>0, <1>2, <3>1, <3>2, ProcessedOk DEF StackOk
  <2>2. CASE e.type \notin Types
    <3>1. e.type \notin filter[e.var].mask
      BY <1>2, <2>2 DEF IInv, FiltersOk, FilterOk
    <3>2. UNCHANGED <<filter, stack>>
      BY <1>0, <3>1 DEF Processed
    <3>. QED
      BY <1>0, <2>2, <3>2 DEF IInv, FiltersOk, StackOk
  <2>. QED
    BY <2>1, <2>2
<1>10. QueueTypes' /\ AtInRange'
  BY <1>0, <1>1, <1>3, <1>6, <1>7, <1>8, SMTT(60) DEF IInv, QueueTypes, AtInRange
<1>11. WaitingTracked'
  BY <1>5, <1>9 DEF IInv, WaitingTracked, Tracked
<1>12. QueueCurrent'
  <2>1. ASSUME NEW w \in Vars, index'[w] # 0
        PROVE  /\ index'[w] \in DOMAIN events /\ at + 1 <= index'[w]
               /\ LET d == events[index'[w]]
                  IN d = Event(w, d.old, lb[w]) /\ d.old # lb[w]
    <3>1. index'[w] = index[w] /\ index[w] # at
      BY <1>5, <2>1
    <3>. QED
      BY <1>1, <2>1, <3>1 DEF IInv, QueueCurrent
  <2>2. ASSUME NEW j \in DOMAIN events, j >= at + 1, events[j].type \in Types
        PROVE  index'[events[j].var] = j
    <3>1. index[events[j].var] = j /\ events[j].var \in Vars /\ j # at
      BY <1>1, <2>2, EventsWait DEF IInv, QueueCurrent
    <3>2. e.type \in Types => events[j].var # e.var
      BY <1>4, <3>1 DEF e
    <3>. QED
      BY <1>0, <1>1, <3>1, <3>2
  <2>. QED
    BY <1>0, <2>1, <2>2 DEF QueueCurrent
<1>13. LPCurrent'
  <2>1. ASSUME NEW w \in InLP
        PROVE  lp'[w] = Before(w)'
    <3>1. w \in Vars /\ lp[w] = Before(w)
      BY VarsAssumption DEF IInv, LPCurrent
    <3>2. CASE e.type \in Types /\ e.var = w
      <4>1. lp[w] = e.old /\ index'[w] = 0
        BY <1>0, <1>1, <1>4, <3>1, <3>2 DEF Before, e
      <4>2. e.new = lb[w]
        BY <1>4, <3>2 DEF Event
      <4>3. lp'[w] = e.new
        BY <1>1, <1>7, <1>8, <3>1, <3>2, <4>1
      <4>. QED
        BY <1>0, <4>1, <4>2, <4>3 DEF Before
    <3>3. CASE ~(e.type \in Types /\ e.var = w)
      <4>1. lp'[w] = lp[w] /\ index'[w] = index[w]
        BY <1>0, <1>1, <1>2, <1>7, <3>1, <3>3
      <4>. QED
        BY <1>0, <3>1, <4>1 DEF Before
    <3>. QED
      BY <3>2, <3>3
  <2>. QED
    BY <2>1 DEF LPCurrent
<1>. QED
  BY <1>9, <1>10, <1>11, <1>12, <1>13 DEF IInv

LEMMA EndQueueInv ==
    ASSUME IInv, EndQueue
    PROVE  IInv'
<1>1. /\ stack = <<>> /\ at > Len(events) /\ events' = <<>> /\ ~delay' /\ at' = 0
      /\ UNCHANGED <<lb, lp, index, filter, stack>>
  BY DEF EndQueue
<1>2. DOMAIN events = 1..Len(events) /\ Len(events) \in Nat /\ at \in Nat
  BY LenProperties DEF IInv, QueueTypes
<1>3. \A v \in Vars : index[v] = 0
  BY <1>1, <1>2 DEF IInv, QueueCurrent
<1>4. <<>> \in Seq(Waiting) /\ DOMAIN <<>> = {} /\ Len(<<>>) = 0
  BY EmptySeq
<1>5. QueueTypes' /\ AtInRange'
  <2>1. delay' = FALSE
    BY DEF EndQueue
  <2>2. events' \in Seq(Waiting)
    BY <1>1, EmptySeq
  <2>3. Len(events') = 0
    BY <1>1, EmptySeq
  <2>4. AtInRange'
    BY <1>1, <2>3 DEF AtInRange
  <2>. QED
    BY <1>1, <2>1, <2>2, <2>4 DEF IInv, QueueTypes
<1>6. QueueCurrent' /\ LPCurrent' /\ WaitingTracked'
  BY <1>1, <1>3, <1>4, VarsAssumption DEF IInv, QueueCurrent, LPCurrent, Before, WaitingTracked
<1>7. FiltersOk' /\ StackOk'
  BY <1>1 DEF IInv, FiltersOk, StackOk
<1>. QED
  BY <1>5, <1>6, <1>7 DEF IInv

LEMMA IInvInit ==
    ASSUME Init
    PROVE  IInv
<1>1. Least \in Int
  BY VarsAssumption DEF Least
<1>2. <<>> \in Seq(Waiting) /\ DOMAIN <<>> = {} /\ Len(<<>>) = 0
  BY EmptySeq
<1>3. FilterOk(NewFilter)
  BY DEF FilterOk, NewFilter
<1>4. OfItsMembers(stack)
  BY EmptySeq DEF Init, OfItsMembers
<1>. HIDE DEF NewFilter, Least
<1>5. QueueTypes /\ AtInRange
  <2>1. /\ lb \in [Vars -> Int] /\ lp \in [Vars -> Int] /\ index \in [Vars -> Nat]
    BY <1>1 DEF Init
  <2>2. events = <<>> /\ delay = FALSE /\ at = 0
    BY DEF Init
  <2>3. events \in Seq(Waiting)
    BY <2>2, EmptySeq
  <2>4. Len(events) = 0
    BY <2>2, EmptySeq
  <2>5. AtInRange
    BY <2>2, <2>4 DEF AtInRange
  <2>. QED
    BY <2>1, <2>2, <2>3, <2>5 DEF QueueTypes
<1>6. FiltersOk /\ StackOk
  BY <1>2, <1>3, <1>4 DEF Init, FiltersOk, StackOk
<1>7. WaitingTracked /\ QueueCurrent /\ LPCurrent
  BY <1>2, VarsAssumption DEF Init, WaitingTracked, QueueCurrent, LPCurrent, Before
<1>. QED
  BY <1>5, <1>6, <1>7 DEF IInv

LEMMA IInvNext ==
    ASSUME IInv, [Next]_vars
    PROVE  IInv'
<1>1. CASE UNCHANGED vars
  BY <1>1 DEF vars, queue, IInv, QueueTypes, FiltersOk, StackOk, WaitingTracked, Tracked,
              QueueCurrent, LPCurrent, Before, AtInRange
<1>2. CASE \E v \in Vars, b \in Bounds : ChangeLb(v, b)
  BY <1>2, ChangeLbInv
<1>3. CASE \E h \in Handlers : Catch(h) \/ Drop(h)
  BY <1>3, CatchInv, DropInv
<1>4. CASE CallHandler \/ EndFilter \/ Delay \/ BeginQueue \/ NextEvent \/ EndQueue
  BY <1>4, CallHandlerInv, EndFilterInv, DelayInv, BeginQueueInv, NextEventInv, EndQueueInv
<1>. QED
  BY <1>1, <1>2, <1>3, <1>4 DEF Next

LEMMA AlwaysIInv == Spec => []IInv
BY IInvInit, IInvNext, PTL DEF Spec

-----------------------------------------------------------------------------
(* The invariants.                                                         *)

\* However often a bound changes and changes back while SCIPeventqueueAdd merges
\* events, and while the queue is processed and its handlers change bounds: the
\* one event that waits for a variable carries its bound, and a disabled one is
\* never the one the variable points to.
THEOREM EventsAreCurrent == Spec => []QueueCurrent
BY AlwaysIInv, PTL DEF IInv

\* The LP hears of differences only; they add up to the bound the variable has,
\* up to the event that waits, whoever changes bounds in which callback.
THEOREM LPIsCurrent == Spec => []LPCurrent
BY AlwaysIInv, PTL DEF IInv

\* No change of a bound goes unnoticed between an event and its processing: while
\* an event waits, the variable is in the LP or somebody's mask keeps it tracked,
\* although a filter that calls nobody gives up a type.
THEOREM WaitingStayTracked == Spec => []WaitingTracked
BY AlwaysIInv, PTL DEF IInv

-----------------------------------------------------------------------------
(* The lists of positions in a filter.  There is no induction over an       *)
(* arbitrary predicate; the least counterexample stands for it.             *)

\* Every non-empty set of natural numbers has a least element.
LEMMA LeastNat ==
    ASSUME NEW T, T \subseteq Nat, T # {}
    PROVE  \E x \in T : \A y \in T : x <= y
<1>1. PICK x \in T : \A y \in T : ~(<<y, x>> \in OpToRel(<, Nat))
  BY NatLessThanWellFounded, WFMin
<1>2. \A y \in T : ~(<<y, x>> \in OpToRel(<, Nat)) => ~(y < x)
  BY Zenon DEF OpToRel
<1>3. \A y \in T : ~(y < x)
  BY <1>1, <1>2, Zenon
<1> QED
  BY <1>3

\* From k, the links lead through the positions q[1], ..., q[m], which are
\* different and make up S, to 0.
IsList(next, k, S, q, m) ==
    /\ m \in Nat
    /\ \A i \in 1..m : q[i] \in S
    /\ \A x \in S : \E i \in 1..m : q[i] = x
    /\ \A i, j \in 1..m : q[i] = q[j] => i = j
    /\ k = IF m = 0 THEN 0 ELSE q[1]
    /\ \A i \in 1..m : next[q[i]] = IF i = m THEN 0 ELSE q[i + 1]

\* The list from k has the positions S.
HasList(next, k, S) == \E q, m : IsList(next, k, S, q, m)

LEMMA ListKept ==
    ASSUME NEW next, NEW k, NEW S, HasList(next, k, S),
           NEW next2, \A x \in S : next2[x] = next[x]
    PROVE  HasList(next2, k, S)
<1>1. PICK q, m : IsList(next, k, S, q, m)
  BY DEF HasList
<1>2. IsList(next2, k, S, q, m)
  BY <1>1 DEF IsList
<1> QED
  BY <1>2 DEF HasList

LEMMA ListStart ==
    ASSUME NEW next, NEW k, NEW S, HasList(next, k, S), 0 \notin S
    PROVE  /\ k = 0 <=> S = {}
           /\ k # 0 => k \in S
<1>1. PICK q, m : IsList(next, k, S, q, m)
  BY DEF HasList
<1>2. CASE m = 0
  <2>1. \A x \in S : FALSE
    BY <1>1, <1>2 DEF IsList
  <2> QED
    BY <1>1, <1>2, <2>1 DEF IsList
<1>3. CASE m # 0
  BY <1>1, <1>3 DEF IsList
<1> QED
  BY <1>2, <1>3

LEMMA EmptyList ==
    ASSUME NEW next
    PROVE  HasList(next, 0, {})
<1>1. IsList(next, 0, {}, <<>>, 0)
  BY DEF IsList
<1> QED
  BY <1>1 DEF HasList

\* A position is put in front.
LEMMA ListPushed ==
    ASSUME NEW next, NEW k, NEW S, HasList(next, k, S), NEW x, x \notin S,
           NEW next2, next2[x] = k, \A y \in S : next2[y] = next[y]
    PROVE  HasList(next2, x, S \cup {x})
<1>1. PICK q, m : IsList(next, k, S, q, m)
  BY DEF HasList
<1> DEFINE p == [i \in 1..(m + 1) |-> IF i = 1 THEN x ELSE q[i - 1]]
<1>2. m \in Nat /\ \A i \in 1..(m + 1) : i = 1 \/ i - 1 \in 1..m
  BY <1>1 DEF IsList
<1>3. p[1] = x /\ \A i \in 1..m : p[i + 1] = q[i] /\ i + 1 \in 1..(m + 1)
  BY <1>2
<1>4. \A i \in 1..(m + 1) : i # 1 => p[i] = q[i - 1]
  BY <1>2
<1> HIDE DEF p
<1>5. \A i \in 1..(m + 1) : p[i] \in S \cup {x}
  BY <1>1, <1>2, <1>3, <1>4 DEF IsList
<1>6. \A y \in S \cup {x} : \E i \in 1..(m + 1) : p[i] = y
  <2> TAKE y \in S \cup {x}
  <2>1. CASE y = x
    BY <1>2, <1>3, <2>1
  <2>2. CASE y \in S
    <3>1. PICK i \in 1..m : q[i] = y
      BY <1>1, <2>2 DEF IsList
    <3> QED
      BY <1>3, <3>1
  <2> QED
    BY <2>1, <2>2
<1>7. ASSUME NEW i \in 1..(m + 1), NEW j \in 1..(m + 1), p[i] = p[j]
      PROVE  i = j
  <2>1. CASE i = 1 \/ j = 1
    BY <1>1, <1>2, <1>3, <1>4, <1>7, <2>1 DEF IsList
  <2>2. CASE i # 1 /\ j # 1
    <3>1. i - 1 \in 1..m /\ j - 1 \in 1..m /\ q[i - 1] = q[j - 1]
      BY <1>2, <1>4, <1>7, <2>2
    <3>2. i - 1 = j - 1
      BY <1>1, <3>1 DEF IsList
    <3> QED
      BY <3>2
  <2> QED
    BY <2>1, <2>2
<1>8. ASSUME NEW i \in 1..(m + 1)
      PROVE  next2[p[i]] = IF i = m + 1 THEN 0 ELSE p[i + 1]
  <2>1. CASE i = 1
    <3>1. CASE m = 0
      BY <1>1, <1>3, <2>1, <3>1 DEF IsList
    <3>2. CASE m # 0
      <4>1. 1 \in 1..m /\ p[1 + 1] = q[1]
        BY <1>2, <1>3, <3>2
      <4> QED
        BY <1>1, <1>2, <1>3, <2>1, <3>2, <4>1 DEF IsList
    <3> QED
      BY <3>1, <3>2
  <2>2. CASE i # 1
    <3> DEFINE j == i - 1
    <3>1. j \in 1..m /\ p[i] = q[j] /\ i = j + 1
      BY <1>2, <1>4, <2>2
    <3>2. next2[q[j]] = next[q[j]] /\ next[q[j]] = IF j = m THEN 0 ELSE q[j + 1]
      BY <1>1, <3>1 DEF IsList
    <3>3. j # m => j + 1 \in 1..m /\ p[(j + 1) + 1] = q[j + 1]
      BY <1>2, <1>3, <3>1
    <3> HIDE DEF j
    <3> QED
      BY <1>2, <3>1, <3>2, <3>3
  <2> QED
    BY <2>1, <2>2
<1>9. IsList(next2, x, S \cup {x}, p, m + 1)
  BY <1>2, <1>3, <1>5, <1>6, <1>7, <1>8 DEF IsList
<1> QED
  BY <1>9 DEF HasList

\* The first position is taken away.
LEMMA ListPopped ==
    ASSUME NEW next, NEW k, NEW S, HasList(next, k, S), 0 \notin S, k # 0,
           NEW next2, \A y \in S \ {k} : next2[y] = next[y]
    PROVE  HasList(next2, next[k], S \ {k})
<1>1. PICK q, m : IsList(next, k, S, q, m)
  BY DEF HasList
<1> DEFINE p == [i \in 1..(m - 1) |-> q[i + 1]]
<1>2. m \in Nat \ {0} /\ q[1] = k /\ 1 \in 1..m
  BY <1>1 DEF IsList
<1>3. \A i \in 1..(m - 1) : p[i] = q[i + 1] /\ i \in 1..m /\ i + 1 \in 1..m /\ i + 1 # 1
  BY <1>2
<1> HIDE DEF p
<1>4. \A i \in 1..(m - 1) : p[i] \in S \ {k}
  BY <1>1, <1>2, <1>3 DEF IsList
<1>5. ASSUME NEW y \in S \ {k}
      PROVE  \E i \in 1..(m - 1) : p[i] = y
  <2>1. PICK i \in 1..m : q[i] = y
    BY <1>1, <1>5 DEF IsList
  <2>2. i # 1
    BY <1>2, <1>5, <2>1
  <2>3. i - 1 \in 1..(m - 1) /\ (i - 1) + 1 = i
    BY <1>2, <2>1, <2>2
  <2> QED
    BY <1>3, <2>1, <2>3
<1>6. ASSUME NEW i \in 1..(m - 1), NEW j \in 1..(m - 1), p[i] = p[j]
      PROVE  i = j
  <2>1. i + 1 = j + 1
    BY <1>1, <1>3, <1>6 DEF IsList
  <2> QED
    BY <2>1
<1>7. next[k] = IF m - 1 = 0 THEN 0 ELSE p[1]
  <2>1. next[k] = IF 1 = m THEN 0 ELSE q[1 + 1]
    BY <1>1, <1>2 DEF IsList
  <2>2. m # 1 => 1 \in 1..(m - 1)
    BY <1>2
  <2> QED
    BY <1>2, <1>3, <2>1, <2>2
<1>8. ASSUME NEW i \in 1..(m - 1)
      PROVE  next2[p[i]] = IF i = m - 1 THEN 0 ELSE p[i + 1]
  <2>1. next2[p[i]] = next[q[i + 1]]
    BY <1>3, <1>4
  <2>2. next[q[i + 1]] = IF i + 1 = m THEN 0 ELSE q[(i + 1) + 1]
    BY <1>1, <1>3 DEF IsList
  <2>3. i # m - 1 => i + 1 \in 1..(m - 1)
    BY <1>2
  <2> QED
    BY <1>2, <1>3, <2>1, <2>2, <2>3
<1>9. IsList(next2, next[k], S \ {k}, p, m - 1)
  BY <1>2, <1>4, <1>5, <1>6, <1>7, <1>8 DEF IsList
<1> QED
  BY <1>9 DEF HasList

\* One more position of a list, and n of them.
Extended(f, k, l) ==
    LET m == IF l = <<>> THEN k ELSE f.next[l[Len(l)]]
    IN IF m \in DOMAIN f.next THEN Append(l, m) ELSE l
IsWalk(w, f, k, n) == w = [j \in 0..n |-> IF j = 0 THEN <<>> ELSE Extended(f, k, w[j - 1])]

LEMMA WalkExists ==
    ASSUME NEW f, NEW k, NEW n \in Nat
    PROVE  \E w : IsWalk(w, f, k, n)
<1> DEFINE bad == {m \in Nat : ~\E w : IsWalk(w, f, k, m)}
<1> SUFFICES ASSUME bad # {} PROVE FALSE
  OBVIOUS
<1>1. PICK m \in bad : \A j \in bad : m <= j
  BY LeastNat
<1>2. m # 0
  <2>1. IsWalk([j \in 0..0 |-> <<>>], f, k, 0)
    BY DEF IsWalk
  <2> QED
    BY <2>1
<1>3. PICK g : IsWalk(g, f, k, m - 1)
  BY <1>1, <1>2
<1> DEFINE w == [j \in 0..m |-> IF j = 0 THEN <<>> ELSE Extended(f, k, g[j - 1])]
<1>4. \A j \in 0..(m - 1) : w[j] = g[j]
  <2>1. \A j \in 0..(m - 1) : g[j] = IF j = 0 THEN <<>> ELSE Extended(f, k, g[j - 1])
    BY <1>3, Zenon DEF IsWalk
  <2>2. \A j \in 0..(m - 1) : j \in 0..m
    BY <1>1
  <2> QED
    BY <2>1, <2>2, Zenon
<1>5. ASSUME NEW j \in 0..m, j # 0
      PROVE  w[j - 1] = g[j - 1]
  <2>1. j - 1 \in 0..(m - 1)
    BY <1>5
  <2> QED
    BY <1>4, <2>1
<1>6. w = [j \in 0..m |-> IF j = 0 THEN <<>> ELSE Extended(f, k, w[j - 1])]
  BY <1>5, Zenon
<1> QED
  BY <1>1, <1>6, Zenon DEF IsWalk

\* The first m members of q as a sequence.
Lists(l, q, m) == l \in Seq(Int) /\ Len(l) = m /\ \A i \in 1..m : l[i] = q[i]

\* ListFrom goes along a list, from the first position to the last.
LEMMA ListFromIs ==
    ASSUME NEW f, f.next \in Seq(Int), NEW k, NEW S, NEW q, NEW m, IsList(f.next, k, S, q, m),
           S \subseteq DOMAIN f.next
    PROVE  Lists(ListFrom(f, k), q, m)
<1> DEFINE n == Len(f.next)
           Is(l, j) == /\ l \in Seq(Int) /\ Len(l) = (IF j < m THEN j ELSE m)
                       /\ \A i \in 1..(IF j < m THEN j ELSE m) : l[i] = q[i]
<1>0. n \in Nat /\ DOMAIN f.next = 1..n /\ S \subseteq 1..n
  BY LenProperties
<1> HIDE DEF n
<1>1. PICK w : IsWalk(w, f, k, n)
  BY <1>0, WalkExists
<1>2. \A j \in 0..n : w[j] = IF j = 0 THEN <<>> ELSE Extended(f, k, w[j - 1])
  BY <1>1, Zenon DEF IsWalk
<1>3. m \in Nat /\ m <= n
  <2>1. m \in Nat /\ \A i \in 1..m : q[i] \in 1..n
    BY <1>0 DEF IsList
  <2> DEFINE p == [i \in 1..m |-> q[i]]
  <2>2. p \in Injection(1..m, 1..n)
    BY <2>1 DEF IsList, Injection, IsInjective
  <2>3. IsFiniteSet(1..m) /\ Cardinality(1..m) = m
    BY <2>1, FS_Interval
  <2>4. IsFiniteSet(1..n) /\ Cardinality(1..n) = n
    BY <1>0, FS_Interval
  <2> HIDE DEF p
  <2>5. Cardinality(1..m) <= Cardinality(1..n)
    BY <2>2, <2>4, FS_Injection
  <2> QED
    BY <1>0, <2>1, <2>3, <2>4, <2>5
<1>4. ASSUME NEW j \in 1..n, Is(w[j - 1], j - 1)
      PROVE  Is(w[j], j)
  <2> DEFINE l == w[j - 1]
             x == IF l = <<>> THEN k ELSE f.next[l[Len(l)]]
  <2>1. w[j] = Extended(f, k, l) /\ j - 1 \in Nat /\ DOMAIN f.next = 1..n
    BY <1>0, <1>2
  <2>2. w[j] = IF x \in 1..n THEN Append(l, x) ELSE l
    BY <2>1 DEF Extended
  <2>3. CASE j <= m
    <3>0. l \in Seq(Int) /\ Len(l) = j - 1 /\ \A i \in 1..(j - 1) : l[i] = q[i]
      <4>1. j - 1 < m
        BY <1>3, <2>3
      <4> HIDE DEF l
      <4> QED
        BY <1>4, <4>1 DEF l
    <3>1. /\ l \in Seq(Int) /\ Len(l) = j - 1 /\ \A i \in 1..(j - 1) : l[i] = q[i]
          /\ q[j] \in 1..n /\ \A i \in 1..m : q[i] \in S
      <4>1. j \in 1..m /\ \A i \in 1..m : q[i] \in S
        BY <1>3, <2>3 DEF IsList
      <4> QED
        BY <1>0, <3>0, <4>1
    <3>2. x = q[j]
      <4>1. CASE j = 1
        <5>1. l = <<>>
          BY <3>1, <4>1, EmptySeq
        <5> QED
          BY <1>3, <2>3, <4>1, <5>1 DEF IsList
      <4>2. CASE j # 1
        <5>1. l # <<>> /\ j - 1 \in 1..m /\ l[Len(l)] = q[j - 1] /\ j - 1 # m /\ (j - 1) + 1 = j
          BY <1>3, <2>3, <3>1, <4>2, EmptySeq
        <5>2. f.next[q[j - 1]] = q[(j - 1) + 1]
          BY <5>1 DEF IsList
        <5> QED
          BY <5>1, <5>2
      <4> QED
        BY <4>1, <4>2
    <3> HIDE DEF x, l
    <3>3. w[j] = Append(l, q[j])
      BY <2>2, <3>1, <3>2
    <3>4. /\ w[j] \in Seq(Int) /\ Len(w[j]) = j
          /\ \A i \in 1..(j - 1) : w[j][i] = q[i] /\ w[j][j] = q[j]
      BY <3>1, <3>3, AppendProperties
    <3>5. w[j][j] = q[j]
      BY <3>1, <3>3, AppendProperties
    <3>6. \A i \in 1..j : w[j][i] = q[i]
      BY <3>4, <3>5
    <3> QED
      BY <1>3, <2>3, <3>4, <3>6
  <2>4. CASE ~(j <= m)
    <3>1. l \in Seq(Int) /\ Len(l) = m /\ \A i \in 1..m : l[i] = q[i]
      BY <1>3, <1>4, <2>4
    <3>2. x = 0
      <4>1. CASE m = 0
        <5>1. l = <<>>
          BY <3>1, <4>1, EmptySeq
        <5> QED
          BY <4>1, <5>1 DEF IsList
      <4>2. CASE m # 0
        <5>1. l # <<>> /\ m \in 1..m /\ l[Len(l)] = q[m]
          BY <1>3, <3>1, <4>2, EmptySeq
        <5> QED
          BY <5>1 DEF IsList
      <4> QED
        BY <4>1, <4>2
    <3> HIDE DEF x, l
    <3>3. w[j] = l
      BY <2>2, <3>2
    <3> QED
      BY <1>3, <2>4, <3>1, <3>3
  <2> QED
    BY <2>3, <2>4
<1>5. Is(w[0], 0)
  <2>1. w[0] = <<>>
    BY <1>0, <1>2
  <2> QED
    BY <1>3, <2>1, EmptySeq
<1> DEFINE bad == {j \in 0..n : ~Is(w[j], j)}
<1>6. Is(w[n], n)
  <2> SUFFICES ASSUME bad # {} PROVE FALSE
    BY <1>0
  <2>1. bad \subseteq Nat
    OBVIOUS
  <2>2. PICK j \in bad : \A i \in bad : j <= i
    <3> HIDE DEF bad
    <3> QED
      BY <2>1, LeastNat
  <2> HIDE DEF Is
  <2>3. j # 0
    BY <1>5, <2>2
  <2>4. j \in 1..n /\ j - 1 \in 0..n /\ j - 1 \notin bad
    BY <1>0, <2>2, <2>3
  <2> QED
    BY <1>4, <2>2, <2>4
<1>7. w[n] = ListFrom(f, k)
  <2> DEFINE rec(g) == g = [j \in 0..n |-> IF j = 0 THEN <<>> ELSE Extended(f, k, g[j - 1])]
             from == CHOOSE g : rec(g)
  <2>1. rec(w)
    BY <1>1, Zenon DEF IsWalk
  <2>2. rec(from)
    BY <2>1, Zenon
  <2>3. ListFrom(f, k) = from[n]
    BY Zenon DEF ListFrom, Extended, n
  <2>4. \A j \in 0..n : from[j] = IF j = 0 THEN <<>> ELSE Extended(f, k, from[j - 1])
    BY <2>2, Zenon
  <2> HIDE DEF from
  <2> DEFINE odd == {j \in 0..n : from[j] # w[j]}
  <2> SUFFICES ASSUME odd # {} PROVE FALSE
    BY <1>0, <2>3
  <2>5. PICK j \in odd : \A i \in odd : j <= i
    <3>1. odd \subseteq Nat
      OBVIOUS
    <3> HIDE DEF odd
    <3> QED
      BY <3>1, LeastNat
  <2>6. j # 0
    BY <1>2, <2>4, <2>5
  <2>7. j - 1 \in 0..n /\ j - 1 \notin odd
    BY <1>0, <2>5, <2>6
  <2> QED
    BY <1>2, <2>4, <2>5, <2>6, <2>7
<1> QED
  BY <1>0, <1>3, <1>6, <1>7 DEF Lists

\* The positions of a list are those that ListFrom finds.
LEMMA InListIs ==
    ASSUME NEW f, f.next \in Seq(Int), NEW k, NEW S, HasList(f.next, k, S), S \subseteq DOMAIN f.next
    PROVE  InList(f, k) = S
<1>1. PICK q, m : IsList(f.next, k, S, q, m)
  BY DEF HasList
<1>2. Lists(ListFrom(f, k), q, m)
  BY <1>1, ListFromIs
<1>3. DOMAIN ListFrom(f, k) = 1..m
  BY <1>2, LenProperties DEF Lists
<1>4. {ListFrom(f, k)[i] : i \in DOMAIN ListFrom(f, k)} = {q[i] : i \in 1..m}
  BY <1>2, <1>3 DEF Lists
<1>5. {q[i] : i \in 1..m} = S
  <2>1. /\ \A i \in 1..m : q[i] \in S
        /\ \A x \in S : \E i \in 1..m : q[i] = x
    BY <1>1, Zenon DEF IsList
  <2> QED
    BY <2>1, Zenon
<1> QED
  BY <1>4, <1>5 DEF InList

-----------------------------------------------------------------------------
(* Slots.                                                                  *)

\* Each slot has types, a handler of the variable and a link.
FilterShape(f, v) ==
    /\ f.types \in Seq(SUBSET Types)
    /\ f.hdlr \in Seq({h \in Handlers : VarOf[h] = v})
    /\ f.next \in Seq(Int)
    /\ Len(f.types) = Len(f.next) /\ Len(f.hdlr) = Len(f.next)

\* With T the positions of the handlers that have caught: the free list has
\* the disabled slots, the list of deleted entries those nobody holds.
FreeSlots(f) == {k \in DOMAIN f.types : f.types[k] = {}}
LostSlots(f, T) == {k \in DOMAIN f.types : f.types[k] # {} /\ k \notin T}
ListsOk(f, T) ==
    /\ HasList(f.next, f.free, FreeSlots(f))
    /\ HasList(f.next, f.del, LostSlots(f, T))
    /\ f.del # 0 => f.delayed
    /\ \A k \in T : k \in DOMAIN f.types /\ f.types[k] # {} /\ f.next[k] = Used

Fields == {"mask", "dmask", "delayed", "types", "hdlr", "next", "free", "del"}

LEMMA AppendedFields ==
    ASSUME NEW f, Fields \subseteq DOMAIN f, NEW h \in Handlers, f.delayed \/ f.free = 0
    PROVE  LET g == Added(f, h)
           IN /\ Fields \subseteq DOMAIN g
              /\ g.types = Append(f.types, CatchTypes[h]) /\ g.hdlr = Append(f.hdlr, h)
              /\ g.next = Append(f.next, Used)
              /\ g.free = f.free /\ g.del = f.del /\ g.delayed = f.delayed
              /\ IF f.delayed THEN g.mask = f.mask /\ g.dmask = f.dmask \cup CatchTypes[h]
                 ELSE g.mask = f.mask \cup CatchTypes[h] /\ g.dmask = f.dmask
BY Zenon DEF Fields, Added, Appended

LEMMA ReusedFields ==
    ASSUME NEW f, Fields \subseteq DOMAIN f, NEW h \in Handlers, ~f.delayed, f.free # 0
    PROVE  LET g == Added(f, h)
           IN /\ Fields \subseteq DOMAIN g
              /\ g.types = [f.types EXCEPT ![f.free] = CatchTypes[h]]
              /\ g.hdlr = [f.hdlr EXCEPT ![f.free] = h]
              /\ g.next = [f.next EXCEPT ![f.free] = Used]
              /\ g.free = f.next[f.free] /\ g.del = f.del /\ g.delayed = f.delayed
              /\ g.mask = f.mask \cup CatchTypes[h] /\ g.dmask = f.dmask
BY Zenon DEF Fields, Added, Appended

LEMMA FreedFields ==
    ASSUME NEW f, Fields \subseteq DOMAIN f, NEW k
    PROVE  LET g == Freed(f, k)
           IN /\ Fields \subseteq DOMAIN g
              /\ g.types = [f.types EXCEPT ![k] = {}]
              /\ g.next = [f.next EXCEPT ![k] = f.free]
              /\ g.hdlr = f.hdlr /\ g.del = f.del /\ g.delayed = f.delayed
              /\ g.mask = f.mask /\ g.dmask = f.dmask
BY Zenon DEF Fields, Freed

LEMMA FreedIsFirst ==
    ASSUME NEW f, Fields \subseteq DOMAIN f, NEW k
    PROVE  Freed(f, k).free = k
BY Zenon DEF Fields, Freed

LEMMA PutOffFields ==
    ASSUME NEW f, Fields \subseteq DOMAIN f, NEW k, f.delayed
    PROVE  LET g == Deleted(f, k)
           IN /\ Fields \subseteq DOMAIN g
              /\ g.next = [f.next EXCEPT ![k] = f.del]
              /\ g.types = f.types /\ g.free = f.free
              /\ g.hdlr = f.hdlr /\ g.delayed = f.delayed
              /\ g.mask = f.mask /\ g.dmask = f.dmask
BY Zenon DEF Fields, Deleted

LEMMA PutOffIsFirst ==
    ASSUME NEW f, Fields \subseteq DOMAIN f, NEW k, f.delayed
    PROVE  Deleted(f, k).del = k
BY Zenon DEF Fields, Deleted

\* A type may be given up.
Masked(f, m) == [f EXCEPT !.mask = m]

LEMMA MaskedFields ==
    ASSUME NEW f, Fields \subseteq DOMAIN f, NEW m
    PROVE  LET e == Masked(f, m)
           IN /\ Fields \subseteq DOMAIN e
              /\ e.types = f.types /\ e.hdlr = f.hdlr /\ e.next = f.next
              /\ e.free = f.free /\ e.del = f.del /\ e.dmask = f.dmask
BY Zenon DEF Fields, Masked

LEMMA MaskedIs ==
    ASSUME NEW f, Fields \subseteq DOMAIN f, NEW m
    PROVE  Masked(f, m).mask = m
BY Zenon DEF Fields, Masked

LEMMA UpdatedFields ==
    ASSUME NEW f, Fields \subseteq DOMAIN f
    PROVE  LET d == FreedDeleted(f)
               g == Updated(f)
           IN /\ g.types = d.types /\ g.next = d.next /\ g.free = d.free
              /\ g.hdlr = f.hdlr /\ g.del = 0
              /\ g.delayed = FALSE /\ g.dmask = {}
              /\ g.mask = f.mask \cup f.dmask
BY Zenon DEF Fields, Updated

\* What the end of the processing does to the masks.
LEMMA EndedMasks ==
    ASSUME NEW f, Fields \subseteq DOMAIN f, NEW type, NEW processed
    PROVE  LET g == Ended(f, type, processed)
           IN /\ g.delayed = FALSE /\ g.dmask = {}
              /\ (f.mask \ {type}) \cup f.dmask \subseteq g.mask
              /\ processed => f.mask \subseteq g.mask
<1> DEFINE m == IF processed THEN f.mask ELSE f.mask \ {type}
           e == Masked(f, m)
           g == Ended(f, type, processed)
<1>1. Fields \subseteq DOMAIN e /\ e.dmask = f.dmask /\ e.mask = m
  BY MaskedFields, MaskedIs, Zenon
<1>2. g = Updated(e)
  BY DEF Ended, Masked
<1> HIDE DEF e
<1>3. Updated(e).delayed = FALSE /\ Updated(e).dmask = {} /\ Updated(e).mask = e.mask \cup e.dmask
  BY <1>1, UpdatedFields, Zenon
<1> HIDE DEF g
<1>4. g.delayed = FALSE /\ g.dmask = {} /\ g.mask = m \cup f.dmask
  BY <1>1, <1>2, <1>3
<1> QED
  BY <1>4 DEF g

\* The positions of a filter, and what a list of its slots starts with.
LEMMA Positions ==
    ASSUME NEW f, NEW v, FilterShape(f, v)
    PROVE  /\ Len(f.next) \in Nat
           /\ DOMAIN f.next = 1..Len(f.next) /\ DOMAIN f.types = 1..Len(f.next)
           /\ DOMAIN f.hdlr = 1..Len(f.next)
           /\ \A k \in 1..Len(f.next) : f.types[k] \in SUBSET Types
           /\ \A k \in 1..Len(f.next) : f.hdlr[k] \in {h \in Handlers : VarOf[h] = v}
<1>1. Len(f.next) \in Nat /\ DOMAIN f.next = 1..Len(f.next)
  BY LenProperties DEF FilterShape
<1>2. DOMAIN f.types = 1..Len(f.next)
  BY LenProperties DEF FilterShape
<1>3. DOMAIN f.hdlr = 1..Len(f.next)
  BY LenProperties DEF FilterShape
<1>4. \A k \in 1..Len(f.types) : f.types[k] \in SUBSET Types
  BY ElementOfSeq DEF FilterShape
<1>5. \A k \in 1..Len(f.hdlr) : f.hdlr[k] \in {h \in Handlers : VarOf[h] = v}
  <2>1. f.hdlr \in Seq({h \in Handlers : VarOf[h] = v})
    BY DEF FilterShape
  <2> QED
    BY <2>1, ElementOfSeq
<1> QED
  BY <1>1, <1>2, <1>3, <1>4, <1>5 DEF FilterShape

\* What the handlers that have caught notice of a step of a filter.
SlotsKept(f, g, T) ==
    \A k \in T : g.types[k] = f.types[k] /\ g.hdlr[k] = f.hdlr[k]

\* g is f with the handler h at the position p, which nobody of T has.
AddsAt(f, g, v, T, h, p) ==
    /\ FilterShape(g, v) /\ ListsOk(g, T \cup {p}) /\ p \notin T
    /\ g.hdlr[p] = h /\ g.types[p] = CatchTypes[h] /\ SlotsKept(f, g, T)

\* A new slot at the end.
LEMMA AppendedSlots ==
    ASSUME NEW f, NEW v, NEW T, Fields \subseteq DOMAIN f, FilterShape(f, v), ListsOk(f, T),
           NEW h \in Handlers, VarOf[h] = v, f.delayed \/ f.free = 0
    PROVE  LET g == Added(f, h)
               p == Len(f.types) + 1
           IN /\ AddsAt(f, g, v, T, h, p)
              /\ Len(g.types) = Len(f.types) + 1
<1> DEFINE n == Len(f.next)
           C == CatchTypes[h]
           g == Added(f, h)
<1>1. /\ g.types = Append(f.types, C) /\ g.hdlr = Append(f.hdlr, h)
      /\ g.next = Append(f.next, Used)
      /\ g.free = f.free /\ g.del = f.del /\ g.delayed = f.delayed
  BY AppendedFields
<1>2. /\ n \in Nat /\ DOMAIN f.next = 1..n /\ DOMAIN f.types = 1..n /\ DOMAIN f.hdlr = 1..n
      /\ Len(f.types) = n /\ Len(f.hdlr) = n
  BY Positions DEF FilterShape
<1>3. C \in SUBSET Types /\ C # {}
  BY HandlersAssumption
<1> HIDE DEF C, g, n
<1>4. /\ g.types \in Seq(SUBSET Types) /\ Len(g.types) = n + 1
      /\ \A k \in 1..n : g.types[k] = f.types[k] /\ g.types[n + 1] = C
  BY <1>1, <1>2, <1>3, AppendProperties DEF FilterShape
<1>5. g.types[n + 1] = C
  BY <1>1, <1>2, <1>3, AppendProperties DEF FilterShape
<1>6. /\ g.hdlr \in Seq({i \in Handlers : VarOf[i] = v}) /\ Len(g.hdlr) = n + 1
      /\ \A k \in 1..n : g.hdlr[k] = f.hdlr[k]
      /\ g.hdlr[n + 1] = h
  <2> DEFINE S == {i \in Handlers : VarOf[i] = v}
  <2>1. h \in S /\ f.hdlr \in Seq(S)
    BY DEF FilterShape
  <2> HIDE DEF S
  <2>2. /\ g.hdlr \in Seq(S) /\ Len(g.hdlr) = n + 1
        /\ \A k \in 1..n : g.hdlr[k] = f.hdlr[k]
        /\ g.hdlr[n + 1] = h
    BY <1>1, <1>2, <2>1, AppendProperties
  <2> QED
    BY <2>2 DEF S
<1>7. /\ g.next \in Seq(Int) /\ Len(g.next) = n + 1
      /\ \A k \in 1..n : g.next[k] = f.next[k]
      /\ g.next[n + 1] = Used
  <2>1. f.next \in Seq(Int) /\ Used \in Int
    BY DEF FilterShape, Used
  <2> QED
    BY <1>1, <2>1, AppendProperties DEF n
<1>8. FilterShape(g, v)
  BY <1>4, <1>6, <1>7 DEF FilterShape
<1>9. \A k \in T : k \in 1..n
  BY <1>2 DEF ListsOk
<1>10. n + 1 \notin T
  BY <1>2, <1>9
<1>11. DOMAIN g.types = 1..(n + 1)
  BY <1>4, LenProperties
<1>12. FreeSlots(g) = FreeSlots(f)
  BY <1>2, <1>3, <1>4, <1>5, <1>11 DEF FreeSlots
<1>13. LostSlots(g, T \cup {n + 1}) = LostSlots(f, T)
  BY <1>2, <1>3, <1>4, <1>5, <1>11 DEF LostSlots
<1>14. HasList(g.next, g.free, FreeSlots(g))
  <2>1. \A x \in FreeSlots(f) : g.next[x] = f.next[x]
    BY <1>2, <1>7 DEF FreeSlots
  <2>2. HasList(f.next, f.free, FreeSlots(f))
    BY DEF ListsOk
  <2>3. HasList(g.next, f.free, FreeSlots(f))
    BY <2>1, <2>2, ListKept
  <2> QED
    BY <1>1, <1>12, <2>3
<1>15. HasList(g.next, g.del, LostSlots(g, T \cup {n + 1}))
  <2>1. \A x \in LostSlots(f, T) : g.next[x] = f.next[x]
    BY <1>2, <1>7 DEF LostSlots
  <2>2. HasList(f.next, f.del, LostSlots(f, T))
    BY DEF ListsOk
  <2>3. HasList(g.next, f.del, LostSlots(f, T))
    BY <2>1, <2>2, ListKept
  <2> QED
    BY <1>1, <1>13, <2>3
<1>16. ASSUME NEW k \in T \cup {n + 1}
       PROVE  k \in DOMAIN g.types /\ g.types[k] # {} /\ g.next[k] = Used
  <2>1. CASE k \in T
    <3>1. k \in 1..n /\ f.types[k] # {} /\ f.next[k] = Used
      BY <1>9, <2>1 DEF ListsOk
    <3>2. g.types[k] = f.types[k] /\ g.next[k] = f.next[k]
      BY <1>4, <1>7, <3>1
    <3>3. k \in DOMAIN g.types
      BY <1>2, <1>11, <3>1
    <3> QED
      BY <3>1, <3>2, <3>3
  <2>2. CASE k = n + 1
    BY <1>2, <1>3, <1>5, <1>7, <1>11, <2>2
  <2> QED
    BY <2>1, <2>2
<1>17. ListsOk(g, T \cup {n + 1})
  BY <1>1, <1>14, <1>15, <1>16 DEF ListsOk
<1>18. SlotsKept(f, g, T)
  BY <1>4, <1>6, <1>9 DEF SlotsKept
<1> QED
  BY <1>2, <1>4, <1>5, <1>6, <1>8, <1>10, <1>17, <1>18 DEF g, C, AddsAt

\* The first free slot is used.
LEMMA ReusedSlots ==
    ASSUME NEW f, NEW v, NEW T, Fields \subseteq DOMAIN f, FilterShape(f, v), ListsOk(f, T),
           NEW h \in Handlers, VarOf[h] = v, ~f.delayed, f.free # 0
    PROVE  LET g == Added(f, h)
               p == f.free
           IN /\ AddsAt(f, g, v, T, h, p)
              /\ Len(g.types) = Len(f.types) /\ p \in Nat \ {0}
<1> DEFINE n == Len(f.next)
           C == CatchTypes[h]
           g == Added(f, h)
           p == f.free
<1>1. /\ g.types = [f.types EXCEPT ![p] = C] /\ g.hdlr = [f.hdlr EXCEPT ![p] = h]
      /\ g.next = [f.next EXCEPT ![p] = Used]
      /\ g.free = f.next[p] /\ g.del = f.del /\ g.delayed = f.delayed
  BY ReusedFields
<1>2. /\ n \in Nat /\ DOMAIN f.next = 1..n /\ DOMAIN f.types = 1..n /\ DOMAIN f.hdlr = 1..n
      /\ Len(f.types) = n /\ Len(f.hdlr) = n
  BY Positions DEF FilterShape
<1>3. C \in SUBSET Types /\ C # {}
  BY HandlersAssumption
<1>4. p \in FreeSlots(f) /\ 0 \notin FreeSlots(f)
  <2>1. 0 \notin FreeSlots(f)
    BY <1>2 DEF FreeSlots
  <2> QED
    BY <2>1, ListStart DEF ListsOk
<1> HIDE DEF C, g, n, p
<1>5. p \in 1..n /\ f.types[p] = {}
  BY <1>2, <1>4 DEF FreeSlots
<1>6. /\ g.types \in Seq(SUBSET Types) /\ Len(g.types) = n /\ DOMAIN g.types = 1..n
      /\ \A k \in 1..n : g.types[k] = IF k = p THEN C ELSE f.types[k]
  <2>1. f.types \in Seq(SUBSET Types)
    BY DEF FilterShape
  <2>2. g.types \in Seq(SUBSET Types) /\ Len(g.types) = n
    BY <1>1, <1>2, <1>3, <1>5, <2>1, ExceptSeq
  <2> QED
    BY <1>1, <1>2, <2>2
<1>7. /\ g.hdlr \in Seq({i \in Handlers : VarOf[i] = v}) /\ Len(g.hdlr) = n
      /\ \A k \in 1..n : g.hdlr[k] = IF k = p THEN h ELSE f.hdlr[k]
  <2> DEFINE S == {i \in Handlers : VarOf[i] = v}
  <2>1. h \in S /\ f.hdlr \in Seq(S)
    BY DEF FilterShape
  <2> HIDE DEF S
  <2>2. g.hdlr \in Seq(S) /\ Len(g.hdlr) = n
    BY <1>1, <1>2, <1>5, <2>1, ExceptSeq
  <2> QED
    BY <1>1, <1>2, <2>2 DEF S
<1>8. /\ g.next \in Seq(Int) /\ Len(g.next) = n
      /\ \A k \in 1..n : g.next[k] = IF k = p THEN Used ELSE f.next[k]
  <2>1. f.next \in Seq(Int) /\ Used \in Int /\ Len(f.next) = n
    BY DEF FilterShape, Used, n
  <2>2. g.next \in Seq(Int) /\ Len(g.next) = n
    BY <1>1, <1>5, <2>1, ExceptSeq
  <2> QED
    BY <1>1, <1>2, <2>2
<1>9. FilterShape(g, v)
  BY <1>6, <1>7, <1>8 DEF FilterShape
<1>10. p \notin T /\ \A k \in T : k \in 1..n /\ k # p
  BY <1>2, <1>5 DEF ListsOk
<1>11. FreeSlots(g) = FreeSlots(f) \ {p}
  BY <1>2, <1>3, <1>6 DEF FreeSlots
<1>12. LostSlots(g, T \cup {p}) = LostSlots(f, T)
  BY <1>2, <1>5, <1>6 DEF LostSlots
<1>13. HasList(g.next, g.free, FreeSlots(g))
  <2>1. \A x \in FreeSlots(f) \ {p} : g.next[x] = f.next[x]
    BY <1>2, <1>8 DEF FreeSlots
  <2>2. HasList(f.next, p, FreeSlots(f)) /\ p # 0
    BY DEF ListsOk, p
  <2>3. HasList(g.next, f.next[p], FreeSlots(f) \ {p})
    BY <1>4, <2>1, <2>2, ListPopped
  <2> QED
    BY <1>1, <1>11, <2>3
<1>14. HasList(g.next, g.del, LostSlots(g, T \cup {p}))
  <2>1. \A x \in LostSlots(f, T) : g.next[x] = f.next[x]
    BY <1>2, <1>5, <1>8 DEF LostSlots
  <2>2. HasList(f.next, f.del, LostSlots(f, T))
    BY DEF ListsOk
  <2>3. HasList(g.next, f.del, LostSlots(f, T))
    BY <2>1, <2>2, ListKept
  <2> QED
    BY <1>1, <1>12, <2>3
<1>15. ASSUME NEW k \in T \cup {p}
       PROVE  k \in DOMAIN g.types /\ g.types[k] # {} /\ g.next[k] = Used
  <2>1. CASE k \in T
    BY <1>2, <1>6, <1>8, <1>10, <2>1 DEF ListsOk
  <2>2. CASE k = p
    BY <1>3, <1>5, <1>6, <1>8, <2>2
  <2> QED
    BY <2>1, <2>2
<1>16. ListsOk(g, T \cup {p})
  BY <1>1, <1>13, <1>14, <1>15 DEF ListsOk
<1>17. SlotsKept(f, g, T)
  BY <1>6, <1>7, <1>10 DEF SlotsKept
<1> QED
  BY <1>2, <1>5, <1>6, <1>7, <1>9, <1>10, <1>16, <1>17 DEF g, C, p, AddsAt

\* SCIPeventfilterAdd.
LEMMA AddedSlots ==
    ASSUME NEW f, NEW v, NEW T, Fields \subseteq DOMAIN f, FilterShape(f, v), ListsOk(f, T),
           NEW h \in Handlers, VarOf[h] = v
    PROVE  LET g == Added(f, h)
               p == AddedAt(f)
           IN /\ AddsAt(f, g, v, T, h, p)
              /\ Len(f.types) \in Nat /\ Len(g.types) \in Nat
              /\ Len(f.types) <= Len(g.types) /\ p \in Nat \ {0}
<1>1. Len(f.types) \in Nat
  BY Positions DEF FilterShape
<1> DEFINE g == Added(f, h)
           p == AddedAt(f)
<1>2. CASE f.delayed \/ f.free = 0
  <2>1. p = Len(f.types) + 1
    BY <1>2 DEF AddedAt
  <2> HIDE DEF p
  <2>2. /\ AddsAt(f, g, v, T, h, p)
        /\ Len(g.types) = Len(f.types) + 1
    BY <1>2, <2>1, AppendedSlots, Zenon
  <2> HIDE DEF g
  <2> QED
    BY <1>1, <2>1, <2>2 DEF g, p
<1>3. CASE ~(f.delayed \/ f.free = 0)
  <2>1. p = f.free
    BY <1>3 DEF AddedAt
  <2> HIDE DEF p
  <2>2. /\ AddsAt(f, g, v, T, h, p)
        /\ Len(g.types) = Len(f.types) /\ p \in Nat \ {0}
    <3>1. ~f.delayed /\ f.free # 0
      BY <1>3
    <3> QED
      BY <2>1, <3>1, ReusedSlots, Zenon
  <2> HIDE DEF g
  <2> QED
    BY <1>1, <2>1, <2>2 DEF g, p
<1> QED
  BY <1>2, <1>3

\* A slot somebody holds, or held, is put into the free list.
LEMMA FreedSlots ==
    ASSUME NEW f, NEW v, Fields \subseteq DOMAIN f, FilterShape(f, v),
           HasList(f.next, f.free, FreeSlots(f)), NEW k \in DOMAIN f.types, f.types[k] # {}
    PROVE  LET g == Freed(f, k)
           IN /\ Fields \subseteq DOMAIN g /\ FilterShape(g, v)
              /\ HasList(g.next, g.free, FreeSlots(g))
              /\ Len(g.next) = Len(f.next) /\ g.types[k] = {}
              /\ \A x \in DOMAIN f.types : x # k => g.types[x] = f.types[x] /\ g.next[x] = f.next[x]
<1> DEFINE n == Len(f.next)
           g == Freed(f, k)
<1>1. /\ Fields \subseteq DOMAIN g
      /\ g.types = [f.types EXCEPT ![k] = {}]
      /\ g.next = [f.next EXCEPT ![k] = f.free] /\ g.hdlr = f.hdlr
      /\ g.free = k
  <2>1. /\ Fields \subseteq DOMAIN g
        /\ g.types = [f.types EXCEPT ![k] = {}]
        /\ g.next = [f.next EXCEPT ![k] = f.free] /\ g.hdlr = f.hdlr
    BY FreedFields, Zenon
  <2>2. g.free = k
    BY FreedIsFirst, Zenon
  <2> QED
    BY <2>1, <2>2
<1>2. /\ n \in Nat /\ DOMAIN f.next = 1..n /\ DOMAIN f.types = 1..n
      /\ Len(f.types) = n /\ Len(f.hdlr) = n
  BY Positions DEF FilterShape
<1>3. f.free \in Int
  <2>1. 0 \notin FreeSlots(f) /\ \A x \in FreeSlots(f) : x \in Nat
    BY <1>2 DEF FreeSlots
  <2>2. f.free # 0 => f.free \in FreeSlots(f)
    BY <2>1, ListStart
  <2> QED
    BY <2>1, <2>2
<1> HIDE DEF g, n
<1>4. /\ g.types \in Seq(SUBSET Types) /\ Len(g.types) = n /\ DOMAIN g.types = 1..n
      /\ \A x \in 1..n : g.types[x] = IF x = k THEN {} ELSE f.types[x]
  <2>1. f.types \in Seq(SUBSET Types) /\ {} \in SUBSET Types
    BY DEF FilterShape
  <2>2. g.types \in Seq(SUBSET Types) /\ Len(g.types) = n
    BY <1>1, <1>2, <2>1, ExceptSeq
  <2> QED
    BY <1>1, <1>2, <2>2
<1>5. /\ g.next \in Seq(Int) /\ Len(g.next) = n
      /\ \A x \in 1..n : g.next[x] = IF x = k THEN f.free ELSE f.next[x]
  <2>1. f.next \in Seq(Int) /\ Len(f.next) = n
    BY DEF FilterShape, n
  <2>2. g.next \in Seq(Int) /\ Len(g.next) = n
    BY <1>1, <1>2, <1>3, <2>1, ExceptSeq
  <2> QED
    BY <1>1, <1>2, <2>2
<1>6. FilterShape(g, v)
  BY <1>1, <1>2, <1>4, <1>5 DEF FilterShape
<1>7. FreeSlots(g) = FreeSlots(f) \cup {k} /\ k \notin FreeSlots(f)
  BY <1>2, <1>4 DEF FreeSlots
<1>8. HasList(g.next, k, FreeSlots(f) \cup {k})
  <2>1. \A x \in FreeSlots(f) : g.next[x] = f.next[x]
    BY <1>2, <1>5, <1>7 DEF FreeSlots
  <2>2. g.next[k] = f.free
    BY <1>2, <1>5
  <2> QED
    BY <1>7, <2>1, <2>2, ListPushed
<1> QED
  BY <1>1, <1>2, <1>4, <1>5, <1>6, <1>7, <1>8 DEF g, n

\* SCIPeventfilterDel.
LEMMA DeletedSlots ==
    ASSUME NEW f, NEW v, NEW T, Fields \subseteq DOMAIN f, FilterShape(f, v), ListsOk(f, T),
           NEW k \in T
    PROVE  LET g == Deleted(f, k)
           IN /\ FilterShape(g, v) /\ ListsOk(g, T \ {k}) /\ SlotsKept(f, g, T \ {k})
              /\ Len(g.types) = Len(f.types)
              /\ g.delayed = f.delayed /\ g.mask = f.mask /\ g.dmask = f.dmask
<1> DEFINE n == Len(f.next)
           g == Deleted(f, k)
<1>1. /\ n \in Nat /\ DOMAIN f.next = 1..n /\ DOMAIN f.types = 1..n
      /\ Len(f.types) = n /\ Len(f.hdlr) = n
  BY Positions DEF FilterShape
<1>2. /\ k \in 1..n /\ f.types[k] # {} /\ \A x \in T : x \in 1..n
      /\ k \notin FreeSlots(f) /\ k \notin LostSlots(f, T) /\ 0 \notin LostSlots(f, T)
  BY <1>1 DEF ListsOk, FreeSlots, LostSlots
<1>3. CASE f.delayed
  <2>1. /\ g.next = [f.next EXCEPT ![k] = f.del] /\ g.del = k
        /\ g.types = f.types /\ g.free = f.free
        /\ g.hdlr = f.hdlr /\ g.delayed = f.delayed
        /\ g.mask = f.mask /\ g.dmask = f.dmask
    BY <1>3, PutOffFields, PutOffIsFirst, Zenon
  <2>2. f.del \in Int
    <3>1. f.del # 0 => f.del \in LostSlots(f, T)
      BY <1>2, ListStart DEF ListsOk
    <3>2. \A x \in LostSlots(f, T) : x \in Nat
      BY <1>1 DEF LostSlots
    <3> QED
      BY <3>1, <3>2
  <2> HIDE DEF g, n
  <2>3. /\ g.next \in Seq(Int) /\ Len(g.next) = n
        /\ \A x \in 1..n : g.next[x] = IF x = k THEN f.del ELSE f.next[x]
    <3>1. f.next \in Seq(Int) /\ Len(f.next) = n
      BY DEF FilterShape, n
    <3>2. g.next \in Seq(Int) /\ Len(g.next) = n
      BY <1>2, <2>1, <2>2, <3>1, ExceptSeq
    <3> QED
      BY <1>1, <2>1, <3>2
  <2>4. FilterShape(g, v)
    BY <1>1, <2>1, <2>3 DEF FilterShape
  <2>5. FreeSlots(g) = FreeSlots(f) /\ LostSlots(g, T \ {k}) = LostSlots(f, T) \cup {k}
    BY <1>1, <1>2, <2>1 DEF FreeSlots, LostSlots
  <2>6. HasList(g.next, g.free, FreeSlots(g))
    <3>1. \A x \in FreeSlots(f) : g.next[x] = f.next[x]
      BY <1>1, <1>2, <2>3 DEF FreeSlots
    <3>2. HasList(f.next, f.free, FreeSlots(f))
      BY DEF ListsOk
    <3>3. HasList(g.next, f.free, FreeSlots(f))
      BY <3>1, <3>2, ListKept
    <3> QED
      BY <2>1, <2>5, <3>3
  <2>7. HasList(g.next, g.del, LostSlots(g, T \ {k}))
    <3>1. \A x \in LostSlots(f, T) : g.next[x] = f.next[x]
      BY <1>1, <1>2, <2>3 DEF LostSlots
    <3>2. HasList(f.next, f.del, LostSlots(f, T)) /\ g.next[k] = f.del
      BY <1>2, <2>3 DEF ListsOk
    <3>3. HasList(g.next, k, LostSlots(f, T) \cup {k})
      BY <1>2, <3>1, <3>2, ListPushed
    <3> QED
      BY <2>1, <2>5, <3>3
  <2>8. ASSUME NEW x \in T \ {k}
        PROVE  x \in DOMAIN g.types /\ g.types[x] # {} /\ g.next[x] = Used
    BY <1>2, <2>1, <2>3 DEF ListsOk
  <2>9. ListsOk(g, T \ {k})
    BY <1>3, <2>1, <2>6, <2>7, <2>8 DEF ListsOk
  <2>10. SlotsKept(f, g, T \ {k})
    BY <2>1 DEF SlotsKept
  <2> QED
    BY <2>1, <2>4, <2>9, <2>10 DEF g
<1>4. CASE ~f.delayed
  <2>1. g = Freed(f, k) /\ f.del = 0
    BY <1>4 DEF Deleted, ListsOk
  <2>2. /\ g.hdlr = f.hdlr /\ g.del = f.del /\ g.delayed = f.delayed
        /\ g.mask = f.mask /\ g.dmask = f.dmask
    <3> DEFINE d == Freed(f, k)
    <3>1. /\ d.hdlr = f.hdlr /\ d.del = f.del /\ d.delayed = f.delayed
          /\ d.mask = f.mask /\ d.dmask = f.dmask
      BY FreedFields, Zenon
    <3>2. g = d
      BY <2>1
    <3> HIDE DEF d, g
    <3> QED
      BY <3>1, <3>2
  <2>3. HasList(f.next, f.free, FreeSlots(f)) /\ HasList(f.next, f.del, LostSlots(f, T))
    BY DEF ListsOk
  <2>4. LostSlots(f, T) = {}
    BY <1>2, <2>1, <2>3, ListStart
  <2> HIDE DEF g
  <2>5. /\ FilterShape(g, v) /\ HasList(g.next, g.free, FreeSlots(g))
        /\ Len(g.next) = n /\ g.types[k] = {}
        /\ \A x \in 1..n : x # k => g.types[x] = f.types[x] /\ g.next[x] = f.next[x]
    BY <1>1, <1>2, <2>1, <2>3, FreedSlots
  <2> HIDE DEF n
  <2>6. DOMAIN g.types = 1..n /\ Len(g.types) = n
    BY <2>5, Positions DEF FilterShape
  <2>7. LostSlots(g, T \ {k}) = {}
    BY <1>1, <1>2, <2>4, <2>5, <2>6 DEF LostSlots
  <2>8. HasList(g.next, g.del, LostSlots(g, T \ {k}))
    BY <2>1, <2>2, <2>7, EmptyList
  <2>9. ASSUME NEW x \in T \ {k}
        PROVE  x \in DOMAIN g.types /\ g.types[x] # {} /\ g.next[x] = Used
    BY <1>2, <2>5, <2>6 DEF ListsOk
  <2>10. ListsOk(g, T \ {k})
    BY <2>1, <2>2, <2>5, <2>8, <2>9 DEF ListsOk
  <2>11. SlotsKept(f, g, T \ {k})
    BY <1>2, <2>2, <2>5 DEF SlotsKept
  <2> QED
    BY <1>1, <2>2, <2>5, <2>6, <2>10, <2>11 DEF g
<1> QED
  BY <1>3, <1>4

\* The deleted entries are put into the free list, one after the other.
IsFreeing(r, f, l, n) == r = [j \in 0..n |-> IF j = 0 THEN f ELSE Freed(r[j - 1], l[j])]

LEMMA FreeingExists ==
    ASSUME NEW f, NEW l, NEW n \in Nat
    PROVE  \E r : IsFreeing(r, f, l, n)
<1> DEFINE bad == {m \in Nat : ~\E r : IsFreeing(r, f, l, m)}
<1> SUFFICES ASSUME bad # {} PROVE FALSE
  OBVIOUS
<1>1. PICK m \in bad : \A j \in bad : m <= j
  BY LeastNat
<1>2. m # 0
  <2>1. IsFreeing([j \in 0..0 |-> f], f, l, 0)
    BY DEF IsFreeing
  <2> QED
    BY <2>1
<1>3. PICK g : IsFreeing(g, f, l, m - 1)
  BY <1>1, <1>2
<1> DEFINE r == [j \in 0..m |-> IF j = 0 THEN f ELSE Freed(g[j - 1], l[j])]
<1>4. \A j \in 0..(m - 1) : r[j] = g[j]
  <2>1. \A j \in 0..(m - 1) : g[j] = IF j = 0 THEN f ELSE Freed(g[j - 1], l[j])
    BY <1>3, Zenon DEF IsFreeing
  <2>2. \A j \in 0..(m - 1) : j \in 0..m
    BY <1>1
  <2> QED
    BY <2>1, <2>2, Zenon
<1>5. ASSUME NEW j \in 0..m, j # 0
      PROVE  r[j - 1] = g[j - 1]
  <2>1. j - 1 \in 0..(m - 1)
    BY <1>5
  <2> QED
    BY <1>4, <2>1
<1>6. r = [j \in 0..m |-> IF j = 0 THEN f ELSE Freed(r[j - 1], l[j])]
  BY <1>5, Zenon
<1> QED
  BY <1>1, <1>6, Zenon DEF IsFreeing

\* What FreedDeleted is: the last of a row of filters.
LEMMA FreeingIs ==
    ASSUME NEW f, NEW n \in Nat, Len(ListFrom(f, f.del)) = n
    PROVE  \E r : /\ r[0] = f /\ r[n] = FreedDeleted(f)
                  /\ \A j \in 1..n : r[j] = Freed(r[j - 1], ListFrom(f, f.del)[j])
<1> DEFINE l == ListFrom(f, f.del)
           r == CHOOSE g : IsFreeing(g, f, l, Len(l))
<1>1. IsFreeing(r, f, l, Len(l))
  BY FreeingExists
<1>2. FreedDeleted(f) = r[Len(l)]
  BY Zenon DEF FreedDeleted, IsFreeing
<1> HIDE DEF r, l
<1>3. \A j \in 0..n : r[j] = IF j = 0 THEN f ELSE Freed(r[j - 1], l[j])
  BY <1>1, Zenon DEF IsFreeing, l
<1>4. \A j \in 1..n : r[j] = Freed(r[j - 1], l[j])
  <2>1. \A j \in 1..n : j \in 0..n /\ j # 0
    OBVIOUS
  <2> QED
    BY <1>3, <2>1, Zenon
<1>5. r[0] = f
  <2>1. 0 \in 0..n
    OBVIOUS
  <2> QED
    BY <1>3, <2>1, Zenon
<1> QED
  BY <1>2, <1>4, <1>5, Zenon DEF l

\* The slots are emptied and are free; the others stay as they are.
LEMMA FreedDeletedSlots ==
    ASSUME NEW f, NEW v, NEW T, Fields \subseteq DOMAIN f, FilterShape(f, v),
           HasList(f.next, f.free, FreeSlots(f)), HasList(f.next, f.del, LostSlots(f, T))
    PROVE  LET g == FreedDeleted(f)
           IN /\ FilterShape(g, v) /\ HasList(g.next, g.free, FreeSlots(g))
              /\ Len(g.next) = Len(f.next)
              /\ \A x \in DOMAIN f.types :
                    /\ g.types[x] = IF x \in LostSlots(f, T) THEN {} ELSE f.types[x]
                    /\ x \notin LostSlots(f, T) => g.next[x] = f.next[x]
<1> DEFINE N == Len(f.next)
           D == LostSlots(f, T)
           l == ListFrom(f, f.del)
<1>1. /\ N \in Nat /\ DOMAIN f.next = 1..N /\ DOMAIN f.types = 1..N
      /\ D \subseteq DOMAIN f.next
  BY Positions DEF LostSlots
<1>2. PICK q, m : IsList(f.next, f.del, D, q, m)
  BY DEF HasList
<1>3. /\ m \in Nat /\ Len(l) = m /\ \A i \in 1..m : l[i] = q[i] /\ q[i] \in D
  <2>1. Lists(l, q, m)
    BY <1>1, <1>2, ListFromIs DEF FilterShape
  <2> QED
    BY <1>2, <2>1 DEF Lists, IsList
<1>4. PICK r : /\ r[0] = f /\ r[m] = FreedDeleted(f)
               /\ \A j \in 1..m : r[j] = Freed(r[j - 1], l[j])
  BY <1>3, FreeingIs
<1> DEFINE Is(g, j) ==
      /\ Fields \subseteq DOMAIN g /\ FilterShape(g, v) /\ HasList(g.next, g.free, FreeSlots(g))
      /\ Len(g.next) = N
      /\ \A x \in 1..N :
            /\ g.types[x] = IF \E i \in 1..j : q[i] = x THEN {} ELSE f.types[x]
            /\ (~\E i \in 1..j : q[i] = x) => g.next[x] = f.next[x]
<1>5. Is(r[0], 0)
  BY <1>4
<1>6. ASSUME NEW j \in 1..m, Is(r[j - 1], j - 1)
      PROVE  Is(r[j], j)
  <2> DEFINE g == r[j - 1]
             k == q[j]
             h == Freed(g, k)
  <2>1. r[j] = h
    BY <1>3, <1>4
  <2>2. k \in 1..N /\ f.types[k] # {}
    BY <1>1, <1>3 DEF LostSlots
  <2>3. ~\E i \in 1..(j - 1) : q[i] = k
    BY <1>2, <1>3 DEF IsList
  <2> HIDE DEF g, k, N
  <2>4. /\ Fields \subseteq DOMAIN g /\ FilterShape(g, v) /\ HasList(g.next, g.free, FreeSlots(g))
        /\ Len(g.next) = N
        /\ \A x \in 1..N :
            /\ g.types[x] = IF \E i \in 1..(j - 1) : q[i] = x THEN {} ELSE f.types[x]
            /\ (~\E i \in 1..(j - 1) : q[i] = x) => g.next[x] = f.next[x]
    BY <1>6 DEF g
  <2>5. DOMAIN g.types = 1..N
    BY <2>4, Positions
  <2>6. g.types[k] # {}
    BY <2>2, <2>3, <2>4
  <2>7. /\ Fields \subseteq DOMAIN h /\ FilterShape(h, v) /\ HasList(h.next, h.free, FreeSlots(h))
        /\ Len(h.next) = N /\ h.types[k] = {}
        /\ \A x \in 1..N : x # k => h.types[x] = g.types[x] /\ h.next[x] = g.next[x]
    BY <2>2, <2>4, <2>5, <2>6, FreedSlots
  <2> HIDE DEF h
  <2>8. ASSUME NEW x \in 1..N
        PROVE  /\ h.types[x] = IF \E i \in 1..j : q[i] = x THEN {} ELSE f.types[x]
               /\ (~\E i \in 1..j : q[i] = x) => h.next[x] = f.next[x]
    <3>1. CASE x = k
      <4>1. j \in 1..j /\ q[j] = x
        BY <3>1 DEF k
      <4> QED
        BY <2>7, <3>1, <4>1
    <3>2. CASE x # k
      <4>1. (\E i \in 1..j : q[i] = x) <=> (\E i \in 1..(j - 1) : q[i] = x)
        <5>1. \A i \in 1..j : i # j => i \in 1..(j - 1)
          OBVIOUS
        <5>2. \A i \in 1..(j - 1) : i \in 1..j
          OBVIOUS
        <5> QED
          BY <3>2, <5>1, <5>2 DEF k
      <4> QED
        BY <2>4, <2>7, <3>2, <4>1
    <3> QED
      BY <3>1, <3>2
  <2> QED
    BY <2>1, <2>7, <2>8
<1> DEFINE bad == {j \in 0..m : ~Is(r[j], j)}
<1>7. Is(r[m], m)
  <2> HIDE DEF Is
  <2> SUFFICES ASSUME bad # {} PROVE FALSE
    BY <1>3
  <2>1. PICK j \in bad : \A i \in bad : j <= i
    <3>1. bad \subseteq Nat
      OBVIOUS
    <3> HIDE DEF bad
    <3> QED
      BY <3>1, LeastNat
  <2>2. j # 0
    BY <1>5, <2>1
  <2>3. j \in 1..m /\ j - 1 \in 0..m /\ j - 1 \notin bad
    BY <1>3, <2>1, <2>2
  <2> QED
    BY <1>6, <2>1, <2>3
<1>8. \A x \in 1..N : (\E i \in 1..m : q[i] = x) <=> x \in D
  BY <1>2 DEF IsList
<1> HIDE DEF D
<1> QED
  BY <1>1, <1>4, <1>7, <1>8 DEF D

\* The end of SCIPeventfilterProcess.
LEMMA EndedSlots ==
    ASSUME NEW f, NEW v, NEW T, Fields \subseteq DOMAIN f, FilterShape(f, v), ListsOk(f, T),
           NEW type, NEW processed
    PROVE  LET g == Ended(f, type, processed)
           IN /\ FilterShape(g, v) /\ ListsOk(g, T) /\ SlotsKept(f, g, T)
              /\ Len(g.types) = Len(f.types)
<1> DEFINE m == IF processed THEN f.mask ELSE f.mask \ {type}
           e == Masked(f, m)
           d == FreedDeleted(e)
           g == Ended(f, type, processed)
<1>1. /\ Fields \subseteq DOMAIN e
      /\ e.types = f.types /\ e.hdlr = f.hdlr /\ e.next = f.next
      /\ e.free = f.free /\ e.del = f.del
  <2> HIDE DEF m
  <2> QED
    BY MaskedFields, Zenon
<1>2. /\ g.types = d.types /\ g.next = d.next /\ g.free = d.free
      /\ g.hdlr = f.hdlr /\ g.del = 0 /\ g.delayed = FALSE
  <2>1. g = Updated(e)
    BY DEF Ended, Masked
  <2> HIDE DEF e
  <2> DEFINE u == Updated(e)
  <2>2. /\ u.types = d.types /\ u.next = d.next /\ u.free = d.free
        /\ u.hdlr = e.hdlr /\ u.del = 0 /\ u.delayed = FALSE
    BY <1>1, UpdatedFields, Zenon
  <2>3. g = u
    BY <2>1
  <2> HIDE DEF g, u, d
  <2> QED
    BY <1>1, <2>2, <2>3
<1> HIDE DEF e, g
<1>3. FilterShape(e, v) /\ FreeSlots(e) = FreeSlots(f) /\ LostSlots(e, T) = LostSlots(f, T)
  BY <1>1 DEF FilterShape, FreeSlots, LostSlots
<1>4. HasList(e.next, e.free, FreeSlots(e)) /\ HasList(e.next, e.del, LostSlots(e, T))
  BY <1>1, <1>3 DEF ListsOk
<1>5. /\ FilterShape(d, v) /\ HasList(d.next, d.free, FreeSlots(d))
      /\ Len(d.next) = Len(e.next)
      /\ \A x \in DOMAIN e.types :
            /\ d.types[x] = IF x \in LostSlots(e, T) THEN {} ELSE e.types[x]
            /\ x \notin LostSlots(e, T) => d.next[x] = e.next[x]
  BY <1>1, <1>3, <1>4, FreedDeletedSlots
<1> HIDE DEF d
<1> DEFINE n == Len(f.next)
<1>6. /\ n \in Nat /\ DOMAIN f.types = 1..n /\ Len(f.types) = n
      /\ DOMAIN d.types = 1..n /\ Len(d.types) = n
  BY <1>1, <1>5, Positions DEF FilterShape
<1> HIDE DEF n
<1>7. FilterShape(g, v)
  BY <1>1, <1>2, <1>5, <1>6 DEF FilterShape, n
<1>8. FreeSlots(g) = FreeSlots(d)
  BY <1>2 DEF FreeSlots
<1>9. \A k \in T : k \in 1..n /\ k \notin LostSlots(f, T) /\ f.types[k] # {} /\ f.next[k] = Used
  BY <1>6 DEF ListsOk, LostSlots
<1>10. LostSlots(g, T) = {}
  BY <1>1, <1>2, <1>3, <1>5, <1>6 DEF LostSlots
<1>11. ListsOk(g, T)
  <2>1. HasList(g.next, g.free, FreeSlots(g))
    BY <1>2, <1>5, <1>8
  <2>2. HasList(g.next, g.del, LostSlots(g, T)) /\ g.del = 0
    BY <1>2, <1>10, EmptyList
  <2>3. ASSUME NEW k \in T
        PROVE  k \in DOMAIN g.types /\ g.types[k] # {} /\ g.next[k] = Used
    BY <1>1, <1>2, <1>3, <1>5, <1>6, <1>9
  <2> QED
    BY <2>1, <2>2, <2>3 DEF ListsOk
<1>12. SlotsKept(f, g, T)
  BY <1>1, <1>2, <1>3, <1>5, <1>6, <1>9 DEF SlotsKept
<1> QED
  BY <1>2, <1>6, <1>7, <1>11, <1>12 DEF g

-----------------------------------------------------------------------------
(* Every step keeps the slots.                                             *)

\* The positions of the handlers of a variable that have caught.
Taken(v) == {pos[h] : h \in {g \in Handlers : VarOf[g] = v /\ pos[g] # 0}}
HoldsSlot(f, h, p) == f.hdlr[p] = h /\ f.types[p] = CatchTypes[h]

SlotsOf(v) ==
    /\ FilterShape(filter[v], v) /\ ListsOk(filter[v], Taken(v))
    /\ \A h \in Handlers : VarOf[h] = v /\ pos[h] # 0 => HoldsSlot(filter[v], h, pos[h])

SlotInv == pos \in [Handlers -> Nat] /\ \A v \in Vars : SlotsOf(v)

LEMMA FieldsOf ==
    ASSUME IInv, NEW v \in Vars
    PROVE  Fields \subseteq DOMAIN filter[v]
BY DEF IInv, FiltersOk, FilterOk, Fields

\* The slots of a variable after a step.
LEMMA SlotsThen ==
    ASSUME NEW v, NEW f, filter'[v] = f, FilterShape(f, v), NEW T, Taken(v)' = T, ListsOk(f, T),
           \A h \in Handlers : VarOf[h] = v /\ pos'[h] # 0 => HoldsSlot(f, h, pos'[h])
    PROVE  SlotsOf(v)'
<1>1. FilterShape(filter'[v], v) /\ ListsOk(filter'[v], Taken(v)')
  OBVIOUS
<1>2. \A h \in Handlers : VarOf[h] = v /\ pos'[h] # 0 => HoldsSlot(filter'[v], h, pos'[h])
  OBVIOUS
<1> QED
  BY <1>1, <1>2 DEF SlotsOf, FilterShape, ListsOk, FreeSlots, LostSlots, HasList, IsList, HoldsSlot

\* A step that leaves a filter and the positions of its handlers alone.
LEMMA SlotsStay ==
    ASSUME NEW v, SlotsOf(v), filter'[v] = filter[v],
           \A h \in Handlers : VarOf[h] = v => pos'[h] = pos[h]
    PROVE  SlotsOf(v)'
<1>1. Taken(v)' = Taken(v)
  BY DEF Taken
<1>2. FilterShape(filter[v], v) /\ ListsOk(filter[v], Taken(v))
  BY DEF SlotsOf
<1>3. \A h \in Handlers : VarOf[h] = v /\ pos'[h] # 0 => HoldsSlot(filter[v], h, pos'[h])
  BY DEF SlotsOf
<1> QED
  BY <1>1, <1>2, <1>3, SlotsThen

\* A step that changes one filter, and positions of its handlers only.
LEMMA SlotStep ==
    ASSUME IInv, SlotInv, NEW v \in Vars, NEW f, filter' = [filter EXCEPT ![v] = f],
           pos' \in [Handlers -> Nat],
           \A h \in Handlers : VarOf[h] # v => pos'[h] = pos[h],
           NEW T, Taken(v)' = T, FilterShape(f, v), ListsOk(f, T),
           \A h \in Handlers : VarOf[h] = v /\ pos'[h] # 0 => HoldsSlot(f, h, pos'[h])
    PROVE  SlotInv'
<1>1. \A w \in Vars : filter'[w] = IF w = v THEN f ELSE filter[w]
  BY DEF IInv, FiltersOk
<1>2. SlotsOf(v)'
  <2>1. filter'[v] = f
    BY <1>1
  <2> QED
    BY <2>1, SlotsThen
<1>3. ASSUME NEW w \in Vars, w # v
      PROVE  SlotsOf(w)'
  <2>1. filter'[w] = filter[w] /\ SlotsOf(w)
    BY <1>1, <1>3 DEF SlotInv
  <2>2. \A h \in Handlers : VarOf[h] = w => pos'[h] = pos[h]
    BY <1>3
  <2> QED
    BY <2>1, <2>2, SlotsStay
<1> QED
  BY <1>2, <1>3 DEF SlotInv

LEMMA SlotsUnchanged ==
    ASSUME SlotInv, UNCHANGED <<filter, pos>>
    PROVE  SlotInv'
<1>1. ASSUME NEW v \in Vars
      PROVE  SlotsOf(v)'
  BY SlotsStay DEF SlotInv
<1> QED
  BY <1>1 DEF SlotInv

LEMMA ProcessedSlots ==
    ASSUME IInv, SlotInv, NEW e, e.var \in Vars, Processed(e), UNCHANGED pos
    PROVE  SlotInv'
<1>1. CASE UNCHANGED filter
  BY <1>1, SlotsUnchanged
<1>2. CASE filter' = [filter EXCEPT ![e.var].delayed = TRUE]
  <2> DEFINE v == e.var
             f == filter[v]
             g == [f EXCEPT !.delayed = TRUE]
  <2>1. filter' = [filter EXCEPT ![v] = g]
    BY <1>2
  <2>2. /\ g.types = f.types /\ g.hdlr = f.hdlr /\ g.next = f.next
        /\ g.free = f.free /\ g.del = f.del /\ g.delayed = TRUE
    <3>1. Fields \subseteq DOMAIN f
      BY FieldsOf
    <3> HIDE DEF f
    <3> QED
      BY <3>1, Zenon DEF Fields
  <2> HIDE DEF g
  <2>3. FilterShape(f, v) /\ ListsOk(f, Taken(v))
    BY DEF SlotInv, SlotsOf
  <2>4. Taken(v)' = Taken(v)
    BY DEF Taken
  <2>5. \A h \in Handlers : VarOf[h] = v /\ pos[h] # 0 =>
            HoldsSlot(f, h, pos[h])
    BY DEF SlotInv, SlotsOf
  <2>6. pos \in [Handlers -> Nat]
    BY DEF SlotInv
  <2> HIDE DEF f, v
  <2>7. FilterShape(g, v) /\ ListsOk(g, Taken(v))
    BY <2>2, <2>3 DEF FilterShape, ListsOk, FreeSlots, LostSlots
  <2>8. v \in Vars
    BY DEF v
  <2>9. \A h \in Handlers : VarOf[h] = v /\ pos'[h] # 0 => HoldsSlot(g, h, pos'[h])
    BY <2>2, <2>5 DEF HoldsSlot
  <2> HIDE DEF Taken
  <2> QED
    BY <2>1, <2>4, <2>6, <2>7, <2>8, <2>9, SlotStep
<1> QED
  BY <1>1, <1>2 DEF Processed

LEMMA CatchSlots ==
    ASSUME IInv, SlotInv, NEW h \in Handlers, Catch(h)
    PROVE  SlotInv'
<1> DEFINE v == VarOf[h]
           f == filter[v]
           g == Added(f, h)
           p == AddedAt(f)
           T == Taken(v)
<1>1. /\ filter' = [filter EXCEPT ![v] = g] /\ pos' = [pos EXCEPT ![h] = p] /\ pos[h] = 0
  BY DEF Catch
<1>2. v \in Vars /\ pos \in [Handlers -> Nat]
  BY HandlersAssumption DEF SlotInv
<1>3. FilterShape(f, v) /\ ListsOk(f, T) /\ Fields \subseteq DOMAIN f
  BY <1>2, FieldsOf DEF SlotInv, SlotsOf
<1> HIDE DEF f, g, p, T
<1>4. /\ FilterShape(g, v) /\ ListsOk(g, T \cup {p}) /\ p \notin T
      /\ g.hdlr[p] = h /\ g.types[p] = CatchTypes[h] /\ SlotsKept(f, g, T)
      /\ p \in Nat \ {0}
  <2>1. AddsAt(f, g, v, T, h, p) /\ p \in Nat \ {0}
    BY <1>3, AddedSlots DEF g, p
  <2> QED
    BY <2>1 DEF AddsAt
<1>5. Taken(v)' = T \cup {p}
  BY <1>1, <1>2, <1>4 DEF Taken, T
<1>6. /\ pos' \in [Handlers -> Nat] /\ pos'[h] = p
      /\ \A i \in Handlers \ {h} : pos'[i] = pos[i]
  BY <1>1, <1>2, <1>4
<1>7. ASSUME NEW i \in Handlers, VarOf[i] = v, pos'[i] # 0
      PROVE  HoldsSlot(g, i, pos'[i])
  <2>1. CASE i = h
    BY <1>4, <1>6, <2>1 DEF HoldsSlot
  <2>2. CASE i # h
    <3>1. pos'[i] = pos[i] /\ pos[i] \in T
      BY <1>6, <1>7, <2>2 DEF T, Taken
    <3>2. HoldsSlot(f, i, pos[i])
      BY <1>2, <1>7, <3>1 DEF SlotInv, SlotsOf, f
    <3> QED
      BY <1>4, <3>1, <3>2 DEF SlotsKept, HoldsSlot
  <2> QED
    BY <2>1, <2>2
<1>8. \A i \in Handlers : VarOf[i] # v => pos'[i] = pos[i]
  BY <1>6
<1> HIDE DEF v
<1> QED
  BY <1>1, <1>2, <1>4, <1>5, <1>6, <1>7, <1>8, SlotStep

\* Different handlers of a variable have different positions.
LEMMA OwnPosition ==
    ASSUME SlotInv, NEW h \in Handlers, NEW i \in Handlers, VarOf[i] = VarOf[h],
           pos[h] # 0, pos[i] = pos[h]
    PROVE  i = h
BY HandlersAssumption DEF SlotInv, SlotsOf, HoldsSlot

LEMMA DropSlots ==
    ASSUME IInv, SlotInv, NEW h \in Handlers, Drop(h)
    PROVE  SlotInv'
<1> DEFINE v == VarOf[h]
           f == filter[v]
           p == pos[h]
           g == Deleted(f, p)
           T == Taken(v)
<1>1. /\ filter' = [filter EXCEPT ![v] = g] /\ pos' = [pos EXCEPT ![h] = 0] /\ p # 0
  BY DEF Drop
<1>2. v \in Vars /\ pos \in [Handlers -> Nat]
  BY HandlersAssumption DEF SlotInv
<1>3. FilterShape(f, v) /\ ListsOk(f, T) /\ Fields \subseteq DOMAIN f /\ p \in T
  BY <1>1, <1>2, FieldsOf DEF SlotInv, SlotsOf, Taken
<1> HIDE DEF f, g, T
<1>4. FilterShape(g, v) /\ ListsOk(g, T \ {p}) /\ SlotsKept(f, g, T \ {p})
  BY <1>3, DeletedSlots DEF g
<1>6. /\ pos' \in [Handlers -> Nat] /\ pos'[h] = 0
      /\ \A i \in Handlers \ {h} : pos'[i] = pos[i]
  BY <1>1, <1>2
<1>5. Taken(v)' = T \ {p}
  <2>1. \A i \in Handlers : VarOf[i] = v /\ pos[i] = p => i = h
    BY <1>1, OwnPosition
  <2> QED
    BY <1>6, <2>1 DEF Taken, T
<1>7. ASSUME NEW i \in Handlers, VarOf[i] = v, pos'[i] # 0
      PROVE  HoldsSlot(g, i, pos'[i])
  <2>1. i # h /\ pos'[i] = pos[i]
    BY <1>6, <1>7
  <2>2. pos[i] \in T \ {p}
    BY <1>1, <1>7, <2>1, OwnPosition DEF T, Taken
  <2>3. HoldsSlot(f, i, pos[i])
    BY <1>2, <1>7, <2>1 DEF SlotInv, SlotsOf, f
  <2> QED
    BY <1>4, <2>1, <2>2, <2>3 DEF SlotsKept, HoldsSlot
<1>8. \A i \in Handlers : VarOf[i] # v => pos'[i] = pos[i]
  BY <1>6
<1> HIDE DEF v, p
<1> QED
  BY <1>1, <1>2, <1>4, <1>5, <1>6, <1>7, <1>8, SlotStep

\* The innermost call of SCIPeventfilterProcess.
LEMMA TopIs ==
    ASSUME IInv, stack # <<>>
    PROVE  /\ Len(stack) \in Nat \ {0} /\ DOMAIN stack = 1..Len(stack)
           /\ Len(stack) \in DOMAIN stack /\ FrameOk(Top, index) /\ Top.event.var \in Vars
<1>1. Len(stack) \in Nat \ {0} /\ DOMAIN stack = 1..Len(stack)
  BY LenProperties, EmptySeq DEF IInv, StackOk, OfItsMembers
<1>2. FrameOk(Top, index)
  BY <1>1 DEF IInv, StackOk, Top
<1> QED
  BY <1>1, <1>2 DEF FrameOk

LEMMA EndFilterSlots ==
    ASSUME IInv, SlotInv, EndFilter
    PROVE  SlotInv'
<1>0. PICK v : v = Top.event.var
  OBVIOUS
<1> DEFINE f == filter[v]
           type == Top.event.type
           processed == Top.processed
           g == Ended(f, type, processed)
           T == Taken(v)
<1>1. filter' = [filter EXCEPT ![v] = g] /\ UNCHANGED pos
  BY <1>0 DEF EndFilter, handlers
<1>2. v \in Vars /\ pos \in [Handlers -> Nat]
  BY <1>0, TopIs DEF SlotInv, EndFilter
<1>3. FilterShape(f, v) /\ ListsOk(f, T) /\ Fields \subseteq DOMAIN f
  BY <1>2, FieldsOf DEF SlotInv, SlotsOf
<1> HIDE DEF f, g, T, type, processed
<1>4. FilterShape(g, v) /\ ListsOk(g, T) /\ SlotsKept(f, g, T)
  BY <1>3, EndedSlots DEF g
<1>5. Taken(v)' = T
  BY <1>1 DEF Taken, T
<1>6. ASSUME NEW i \in Handlers, VarOf[i] = v, pos'[i] # 0
      PROVE  HoldsSlot(g, i, pos'[i])
  <2>1. pos'[i] = pos[i] /\ pos[i] \in T
    BY <1>1, <1>6 DEF T, Taken
  <2>2. HoldsSlot(f, i, pos[i])
    BY <1>2, <1>6, <2>1 DEF SlotInv, SlotsOf, f
  <2> QED
    BY <1>4, <2>1, <2>2 DEF SlotsKept, HoldsSlot
<1> QED
  BY <1>1, <1>2, <1>4, <1>5, <1>6, SlotStep

LEMMA SlotInvInit ==
    ASSUME Init
    PROVE  SlotInv
<1> DEFINE f == NewFilter
<1>1. /\ f.types = <<>> /\ f.hdlr = <<>> /\ f.next = <<>> /\ f.free = 0 /\ f.del = 0
  BY DEF NewFilter
<1> HIDE DEF f
<1>2. /\ \A S : <<>> \in Seq(S)
      /\ DOMAIN <<>> = {} /\ Len(<<>>) = 0
  BY EmptySeq
<1>3. \A v : FilterShape(f, v)
  BY <1>1, <1>2 DEF FilterShape
<1>4. ListsOk(f, {})
  <2>1. FreeSlots(f) = {} /\ LostSlots(f, {}) = {}
    BY <1>1, <1>2 DEF FreeSlots, LostSlots
  <2>2. HasList(f.next, 0, {})
    BY EmptyList
  <2> QED
    BY <1>1, <2>1, <2>2 DEF ListsOk
<1>5. pos \in [Handlers -> Nat] /\ \A h \in Handlers : pos[h] = 0
  BY DEF Init
<1>6. ASSUME NEW v \in Vars
      PROVE  SlotsOf(v)
  <2>1. filter[v] = f
    BY DEF Init, f
  <2>2. Taken(v) = {}
    BY <1>5 DEF Taken
  <2> QED
    BY <1>3, <1>4, <1>5, <2>1, <2>2 DEF SlotsOf
<1> QED
  BY <1>5, <1>6 DEF SlotInv

LEMMA SlotInvNext ==
    ASSUME IInv, SlotInv, [Next]_vars
    PROVE  SlotInv'
<1>1. CASE UNCHANGED vars
  BY <1>1, SlotsUnchanged DEF vars
<1>2. ASSUME NEW v \in Vars, NEW b \in Bounds, ChangeLb(v, b)
      PROVE  SlotInv'
  <2>1. UNCHANGED pos
    BY <1>2 DEF ChangeLb, handlers
  <2>2. CASE Processed(Event(v, lb[v], b))
    <3>1. PICK e : e = Event(v, lb[v], b)
      OBVIOUS
    <3>2. e.var = v
      BY <3>1 DEF Event
    <3> QED
      BY <2>1, <2>2, <3>1, <3>2, ProcessedSlots
  <2>3. CASE UNCHANGED filter
    BY <2>1, <2>3, SlotsUnchanged
  <2> QED
    BY <1>2, <2>2, <2>3 DEF ChangeLb, Queued
<1>3. ASSUME NEW h \in Handlers, Catch(h) \/ Drop(h)
      PROVE  SlotInv'
  BY <1>3, CatchSlots, DropSlots
<1>4. CASE CallHandler \/ Delay \/ BeginQueue \/ EndQueue
  <2>1. UNCHANGED <<filter, pos>>
    BY <1>4 DEF CallHandler, Delay, BeginQueue, EndQueue, handlers
  <2> QED
    BY <2>1, SlotsUnchanged
<1>5. CASE EndFilter
  BY <1>5, EndFilterSlots
<1>6. CASE NextEvent
  <2>1. PICK e : e = events[at]
    OBVIOUS
  <2>2. e.var \in Vars /\ Processed(e) /\ UNCHANGED pos
    BY <1>6, <2>1, EventsWait DEF NextEvent, handlers
  <2> QED
    BY <2>2, ProcessedSlots
<1> QED
  BY <1>1, <1>2, <1>3, <1>4, <1>5, <1>6 DEF Next

\* What the inductive invariant says of a filter and its handlers.
LEMMA SlotsAre ==
    ASSUME SlotInv
    PROVE  SlotsAccounted
<1>1. ASSUME NEW v \in Vars
      PROVE  LET f == filter[v]
             IN /\ InList(f, f.free) = FreeSlots(f)
                /\ InList(f, f.del) = LostSlots(f, Taken(v))
                /\ f.del # 0 => f.delayed
  <2> DEFINE f == filter[v]
  <2>1. FilterShape(f, v) /\ ListsOk(f, Taken(v))
    BY DEF SlotInv, SlotsOf
  <2> HIDE DEF f
  <2>2. f.next \in Seq(Int) /\ DOMAIN f.types = DOMAIN f.next
    BY <2>1, Positions DEF FilterShape
  <2>3. FreeSlots(f) \subseteq DOMAIN f.next /\ LostSlots(f, Taken(v)) \subseteq DOMAIN f.next
    BY <2>2 DEF FreeSlots, LostSlots
  <2>4. /\ HasList(f.next, f.free, FreeSlots(f)) /\ HasList(f.next, f.del, LostSlots(f, Taken(v)))
        /\ f.del # 0 => f.delayed
    BY <2>1 DEF ListsOk
  <2>5. InList(f, f.free) = FreeSlots(f)
    BY <2>2, <2>3, <2>4, InListIs
  <2>6. InList(f, f.del) = LostSlots(f, Taken(v))
    BY <2>2, <2>3, <2>4, InListIs
  <2> QED
    BY <2>4, <2>5, <2>6 DEF f
<1>2. ASSUME NEW v \in Vars
      PROVE  LostSlots(filter[v], Taken(v)) =
                {k \in DOMAIN filter[v].types : filter[v].types[k] # {}
                     /\ \A h \in Handlers : VarOf[h] = v => pos[h] # k}
  <2>1. 0 \notin DOMAIN filter[v].types
    <3>1. FilterShape(filter[v], v)
      BY DEF SlotInv, SlotsOf
    <3> QED
      BY <3>1, Positions
  <2> QED
    BY <2>1 DEF LostSlots, Taken
<1>3. ASSUME NEW h \in Handlers, pos[h] # 0
      PROVE  /\ pos[h] \in DOMAIN filter[VarOf[h]].types
             /\ filter[VarOf[h]].hdlr[pos[h]] = h /\ filter[VarOf[h]].next[pos[h]] = Used
             /\ filter[VarOf[h]].types[pos[h]] = CatchTypes[h]
  <2>1. SlotsOf(VarOf[h])
    BY HandlersAssumption DEF SlotInv
  <2>2. pos[h] \in Taken(VarOf[h])
    BY <1>3 DEF Taken
  <2> QED
    BY <1>3, <2>1, <2>2 DEF SlotsOf, ListsOk, HoldsSlot
<1> QED
  BY <1>1, <1>2, <1>3 DEF SlotsAccounted, FreeSlots

LEMMA AlwaysSlotInv == Spec => [](IInv /\ SlotInv)
BY IInvInit, IInvNext, SlotInvInit, SlotInvNext, PTL DEF Spec

\* However handlers catch and drop, also while a filter is processed and its
\* updates wait: a slot has one owner, waits in the list of deleted entries or
\* is disabled and in the free list; SCIPeventfilterAdd hands out no slot twice
\* and eventfilterProcessUpdates loses none.
THEOREM NoSlotIsLost == Spec => []SlotsAccounted
BY AlwaysSlotInv, SlotsAre, PTL

-----------------------------------------------------------------------------
(* What the handlers have heard.                                           *)

\* The call k of SCIPeventfilterProcess has still to call the handler h.
Pending(h, k) == /\ stack[k].event.var = VarOf[h]
                 /\ stack[k].next <= pos[h] /\ pos[h] <= stack[k].len

\* A call for a variable: its event has the bound from which the next change
\* goes on, its type is in the mask, and somebody was called before another
\* call began within it.
CallOk(fr, k) ==
    LET f == filter[fr.event.var] IN
    /\ fr.event.type \in f.mask /\ f.delayed
    /\ fr.event.new = Before(fr.event.var)
    /\ fr.next \in Nat \ {0} /\ fr.len \in Nat /\ fr.len <= Len(f.types)
    /\ ~fr.processed => fr.next = 1 /\ fr.len = Len(f.types) /\ k = Len(stack)

CallsOk ==
    /\ \A k \in DOMAIN stack : CallOk(stack[k], k)
    /\ \A j, k \in DOMAIN stack : stack[j].event.var = stack[k].event.var => j = k

\* The updates of a filter are put off while it is processed, and then only.
\* What a handler catches is in a mask.
MasksOk(v) ==
    /\ filter[v].delayed => \E k \in DOMAIN stack : stack[k].event.var = v
    /\ ~filter[v].delayed => filter[v].dmask = {}
    /\ \A h \in Handlers : VarOf[h] = v /\ pos[h] # 0 =>
          CatchTypes[h] \subseteq filter[v].mask \cup filter[v].dmask

Follows(h) == pos[h] # 0 /\ sure[h] /\ CatchTypes[h] = Types
Heard(h) ==
    /\ \A k \in DOMAIN stack : Pending(h, k) => view[h] = stack[k].event.old
    /\ (\A k \in DOMAIN stack : ~Pending(h, k)) => view[h] = Before(VarOf[h])

ViewInv ==
    /\ sure \in [Handlers -> BOOLEAN] /\ DOMAIN view = Handlers
    /\ CallsOk /\ \A v \in Vars : MasksOk(v)
    /\ \A h \in Handlers : Follows(h) => Heard(h)

LEMMA StackIs ==
    ASSUME IInv
    PROVE  /\ Len(stack) \in Nat /\ DOMAIN stack = 1..Len(stack)
           /\ \A k \in DOMAIN stack : FrameOk(stack[k], index) /\ stack[k].event.var \in Vars
BY LenProperties DEF IInv, StackOk, OfItsMembers, FrameOk

\* Nobody acts while a call has called nobody.
LEMMA ActorsWereAllCalled ==
    ASSUME IInv, ViewInv, MayAct
    PROVE  \A k \in DOMAIN stack : stack[k].processed
<1>1. CASE stack = <<>>
  BY <1>1, EmptySeq
<1>2. CASE stack # <<>>
  <2>1. stack[Len(stack)].hdlr /\ FrameOk(Top, index)
    BY <1>2, TopIs DEF MayAct
  <2>2. stack[Len(stack)].processed
    BY <2>1 DEF FrameOk, Top
  <2> QED
    BY <2>2 DEF ViewInv, CallsOk, CallOk
<1> QED
  BY <1>1, <1>2

\* A step that changes neither filters nor calls nor what is to change.
LEMMA ViewStays ==
    ASSUME ViewInv, IInv, UNCHANGED <<filter, stack, handlers>>,
           \A v \in Vars : Before(v)' = Before(v)
    PROVE  ViewInv'
<1>1. UNCHANGED <<pos, view, sure>>
  BY DEF handlers
<1>2. CallsOk'
  <2>1. ASSUME NEW k \in DOMAIN stack
        PROVE  CallOk(stack[k], k)'
    <3>1. Before(stack[k].event.var)' = Before(stack[k].event.var)
      BY StackIs
    <3>2. CallOk(stack[k], k)
      BY DEF ViewInv, CallsOk
    <3> QED
      BY <3>1, <3>2 DEF CallOk
  <2> QED
    BY <2>1 DEF ViewInv, CallsOk
<1>3. ASSUME NEW h \in Handlers
      PROVE  (Follows(h) => Heard(h))'
  <2>1. Before(VarOf[h])' = Before(VarOf[h])
    BY HandlersAssumption
  <2>2. Follows(h) => Heard(h)
    BY DEF ViewInv
  <2> HIDE DEF Before
  <2> QED
    BY <1>1, <2>1, <2>2 DEF Follows, Heard, Pending
<1>4. ASSUME NEW v \in Vars
      PROVE  MasksOk(v)'
  BY <1>1 DEF ViewInv, MasksOk
<1> QED
  BY <1>1, <1>2, <1>3, <1>4 DEF ViewInv

LEMMA HeldSlot ==
    ASSUME SlotInv, NEW h \in Handlers, pos[h] # 0
    PROVE  LET f == filter[VarOf[h]]
           IN /\ Len(f.types) \in Nat /\ DOMAIN f.types = 1..Len(f.types)
              /\ pos[h] \in 1..Len(f.types)
              /\ f.types[pos[h]] = CatchTypes[h] /\ f.hdlr[pos[h]] = h
              /\ pos[h] \in Taken(VarOf[h])
<1> DEFINE f == filter[VarOf[h]]
<1>1. VarOf[h] \in Vars
  BY HandlersAssumption
<1>2. /\ FilterShape(f, VarOf[h]) /\ ListsOk(f, Taken(VarOf[h]))
      /\ HoldsSlot(f, h, pos[h])
  BY <1>1 DEF SlotInv, SlotsOf
<1>3. pos[h] \in Taken(VarOf[h])
  BY DEF Taken
<1> HIDE DEF f
<1>4. Len(f.types) \in Nat /\ DOMAIN f.types = 1..Len(f.types)
  BY <1>2, Positions DEF FilterShape
<1> QED
  BY <1>2, <1>3, <1>4 DEF ListsOk, HoldsSlot, f

\* A call begins, or nobody is called: whoever follows the bound is in the mask.
LEMMA ProcessedView ==
    ASSUME IInv, SlotInv, ViewInv, NEW e, NEW v \in Vars, e.var = v, e.type \in Types,
           Processed(e), UNCHANGED handlers, ~filter[v].delayed,
           \A k \in DOMAIN stack : stack[k].processed,
           e.old = Before(v), Before(v)' = e.new,
           \A w \in Vars : w # v => Before(w)' = Before(w)
    PROVE  ViewInv'
<1> DEFINE f == filter[v]
<1>6. PICK n : n = Len(stack)
  OBVIOUS
<1>0. UNCHANGED <<pos, view, sure>>
  BY DEF handlers
<1>1. n \in Nat /\ DOMAIN stack = 1..n /\ \A k \in DOMAIN stack : stack[k].event.var \in Vars
  BY <1>6, StackIs
<1>2. \A k \in DOMAIN stack : stack[k].event.var # v
  BY DEF ViewInv, CallsOk, CallOk
<1>3. f.dmask = {} /\ \A h \in Handlers : VarOf[h] = v /\ pos[h] # 0 => CatchTypes[h] \subseteq f.mask
  BY DEF ViewInv, MasksOk
<1>4. CASE e.type \in f.mask
  <2> DEFINE fr == [event |-> e, next |-> 1, len |-> Len(f.types), processed |-> FALSE, hdlr |-> FALSE]
             g == [f EXCEPT !.delayed = TRUE]
  <2>1. stack' = Append(stack, fr) /\ filter' = [filter EXCEPT ![v] = g]
    BY <1>4 DEF Processed
  <2>2. /\ fr.event = e /\ fr.next = 1 /\ fr.len = Len(f.types) /\ fr.processed = FALSE
    OBVIOUS
  <2>3. /\ g.types = f.types /\ g.mask = f.mask /\ g.dmask = f.dmask /\ g.delayed = TRUE
    <3>1. Fields \subseteq DOMAIN f
      BY FieldsOf
    <3> HIDE DEF f
    <3> QED
      BY <3>1, Zenon DEF Fields
  <2>4. Len(f.types) \in Nat
    <3>1. FilterShape(f, v)
      BY DEF SlotInv, SlotsOf
    <3> QED
      BY <3>1, LenProperties DEF FilterShape
  <2> HIDE DEF fr, g
  <2>5. \A w \in Vars : filter'[w] = IF w = v THEN g ELSE filter[w]
    BY <2>1 DEF IInv, FiltersOk
  <2>6. /\ Len(stack') = n + 1 /\ DOMAIN stack' = 1..(n + 1) /\ stack'[n + 1] = fr
        /\ \A k \in 1..n : stack'[k] = stack[k]
    BY <1>6, <2>1, Pushed DEF IInv, StackOk
  <2> HIDE DEF f
  <2>7. ASSUME NEW k \in 1..(n + 1)
        PROVE  CallOk(stack[k], k)'
    <3>1. CASE k \in 1..n
      <4>1. CallOk(stack[k], k) /\ stack'[k] = stack[k] /\ stack[k].event.var \in Vars \ {v}
        BY <1>1, <1>2, <2>6, <3>1 DEF ViewInv, CallsOk
      <4>2. PICK w \in Vars \ {v} : stack[k].event.var = w
        BY <4>1
      <4>3. filter'[w] = filter[w] /\ Before(w)' = Before(w) /\ stack[k].processed
        BY <1>1, <2>5, <3>1
      <4> QED
        BY <4>1, <4>2, <4>3 DEF CallOk, Before
    <3>2. CASE k = n + 1
      <4>1. stack'[k] = fr
        BY <2>6, <3>2
      <4>2. fr.event.new = e.new /\ fr.event.var = v /\ filter'[v] = g
        BY <2>2, <2>5
      <4> QED
        BY <1>4, <2>2, <2>3, <2>4, <2>6, <3>2, <4>1, <4>2 DEF CallOk, Before
    <3> QED
      BY <1>1, <3>1, <3>2
  <2>8. ASSUME NEW j \in 1..(n + 1), NEW k \in 1..(n + 1),
               stack'[j].event.var = stack'[k].event.var
        PROVE  j = k
    BY <1>1, <1>2, <2>2, <2>6, <2>8 DEF ViewInv, CallsOk
  <2>9. CallsOk'
    BY <2>6, <2>7, <2>8 DEF CallsOk
  <2>10. ASSUME NEW w \in Vars
         PROVE  MasksOk(w)'
    <3>1. MasksOk(w)
      BY DEF ViewInv
    <3>2. CASE w = v
      <4>1. n + 1 \in DOMAIN stack' /\ stack'[n + 1].event.var = v
        BY <1>1, <2>2, <2>6
      <4>2. filter'[w] = g /\ filter[w] = f
        BY <2>5, <3>2 DEF f
      <4> QED
        BY <1>0, <2>3, <3>1, <3>2, <4>1, <4>2 DEF MasksOk
    <3>3. CASE w # v
      <4>1. \A k \in DOMAIN stack : k \in DOMAIN stack' /\ stack'[k] = stack[k]
        BY <1>1, <2>6
      <4>2. filter'[w] = filter[w]
        BY <2>5, <3>3
      <4> QED
        BY <1>0, <3>1, <4>1, <4>2 DEF MasksOk
    <3> QED
      BY <3>2, <3>3
  <2>11. ASSUME NEW h \in Handlers, Follows(h)'
         PROVE  Heard(h)'
    <3>1. pos[h] # 0 /\ Follows(h) /\ Heard(h) /\ VarOf[h] \in Vars
      BY <1>0, <2>11, HandlersAssumption DEF Follows, ViewInv
    <3>2. CASE VarOf[h] = v
      <4>1. pos[h] \in 1..Len(f.types)
        BY <3>1, <3>2, HeldSlot DEF f
      <4>2. Pending(h, n + 1)' /\ stack'[n + 1].event = e /\ n + 1 \in DOMAIN stack'
        BY <1>0, <1>1, <2>2, <2>4, <2>6, <3>2, <4>1 DEF Pending
      <4>3. \A k \in DOMAIN stack' : Pending(h, k)' => k = n + 1
        BY <1>1, <1>2, <2>6, <3>2 DEF Pending
      <4>4. view[h] = e.old
        <5>1. \A k \in DOMAIN stack : ~Pending(h, k)
          BY <1>2, <3>2 DEF Pending
        <5> QED
          BY <3>1, <3>2, <5>1 DEF Heard
      <4> QED
        BY <1>0, <4>2, <4>3, <4>4 DEF Heard
    <3>3. CASE VarOf[h] # v
      <4>1. ~Pending(h, n + 1)'
        BY <2>2, <2>6, <3>3 DEF Pending
      <4>2. \A k \in DOMAIN stack : /\ Pending(h, k)' <=> Pending(h, k)
                                    /\ k \in DOMAIN stack' /\ stack'[k] = stack[k]
        BY <1>0, <1>1, <2>6 DEF Pending
      <4>3. \A k \in DOMAIN stack' : k = n + 1 \/ k \in DOMAIN stack
        BY <1>1, <2>6
      <4>4. Before(VarOf[h])' = Before(VarOf[h])
        BY <3>1, <3>3
      <4> QED
        BY <1>0, <3>1, <4>1, <4>2, <4>3, <4>4 DEF Heard
    <3> QED
      BY <3>2, <3>3
  <2> QED
    BY <1>0, <2>9, <2>10, <2>11 DEF ViewInv
<1>5. CASE e.type \notin f.mask
  <2>1. UNCHANGED <<filter, stack>>
    BY <1>5 DEF Processed
  <2>2. CallsOk'
    <3>1. ASSUME NEW k \in DOMAIN stack
          PROVE  CallOk(stack[k], k)'
      <4>1. PICK w \in Vars \ {v} : stack[k].event.var = w
        BY <1>1, <1>2
      <4>2. CallOk(stack[k], k) /\ Before(w)' = Before(w)
        BY DEF ViewInv, CallsOk
      <4> QED
        BY <2>1, <4>1, <4>2 DEF CallOk, Before
    <3> QED
      BY <2>1, <3>1 DEF ViewInv, CallsOk
  <2>3. ASSUME NEW w \in Vars
        PROVE  MasksOk(w)'
    BY <1>0, <2>1 DEF ViewInv, MasksOk
  <2>4. ASSUME NEW h \in Handlers, Follows(h)'
        PROVE  Heard(h)'
    <3>1. pos[h] # 0 /\ Follows(h) /\ Heard(h) /\ VarOf[h] \in Vars
      BY <1>0, <2>4, HandlersAssumption DEF Follows, ViewInv
    <3>2. VarOf[h] # v
      BY <1>3, <1>5, <3>1 DEF Follows
    <3>3. Before(VarOf[h])' = Before(VarOf[h])
      BY <3>1, <3>2
    <3>4. \A k : Pending(h, k)' <=> Pending(h, k)
      BY <1>0, <2>1 DEF Pending
    <3> HIDE DEF Before, Pending
    <3> QED
      BY <1>0, <2>1, <3>1, <3>3, <3>4 DEF Heard
  <2> QED
    BY <1>0, <2>2, <2>3, <2>4 DEF ViewInv
<1> QED
  BY <1>4, <1>5

\* Merging changes, or queueing the first, leaves the bound from which the
\* event that waits changes.
LEMMA QueuedBefore ==
    ASSUME IInv, NEW v \in Vars, NEW b \in Int, b # lb[v], lb' = [lb EXCEPT ![v] = b],
           Queued(v, lb[v], b)
    PROVE  \A w \in Vars : Before(w)' = Before(w)
<1>1. /\ events \in Seq(Waiting) /\ DOMAIN events = 1..Len(events) /\ Len(events) \in Nat
      /\ index \in [Vars -> Nat] /\ lb \in [Vars -> Int]
  BY LenProperties DEF IInv, QueueTypes
<1>2. \A w \in Vars : index[w] # 0 => index[w] \in DOMAIN events
  BY DEF IInv, QueueCurrent
<1>3. lb'[v] = b /\ \A w \in Vars \ {v} : lb'[w] = lb[w]
  BY <1>1
<1>4. CASE index[v] # 0
  <2>1. PICK k : k = index[v]
    OBVIOUS
  <2> DEFINE e == events[k]
             m == Merged(e, b)
  <2>2. /\ events' = [events EXCEPT ![k] = m]
        /\ index' = IF b = e.old THEN [index EXCEPT ![v] = 0] ELSE index
    BY <1>4, <2>1 DEF Queued
  <2>3. e \in Waiting /\ k \in DOMAIN events
    BY <1>2, <1>4, <2>1, EventsWait
  <2>4. m.old = e.old
    <3> HIDE DEF e
    <3> QED
      BY <2>3 DEF Merged, Waiting
  <2> HIDE DEF m
  <2>5. \A j \in DOMAIN events : events'[j].old = events[j].old
    <3>1. \A j \in DOMAIN events : events'[j] = IF j = k THEN m ELSE events[j]
      BY <1>1, <2>2
    <3> QED
      BY <2>4, <3>1
  <2>6. ASSUME NEW w \in Vars
        PROVE  Before(w)' = Before(w)
    <3>1. CASE w = v
      <4>1. CASE b = e.old
        BY <1>1, <1>3, <1>4, <2>1, <2>2, <3>1, <4>1 DEF Before
      <4>2. CASE b # e.old
        BY <1>1, <1>2, <1>4, <2>1, <2>2, <2>5, <3>1, <4>2 DEF Before
      <4> QED
        BY <4>1, <4>2
    <3>2. CASE w # v
      <4>1. index'[w] = index[w] /\ lb'[w] = lb[w]
        BY <1>1, <1>3, <2>2, <3>2
      <4> QED
        BY <1>2, <2>5, <4>1 DEF Before
    <3> QED
      BY <3>1, <3>2
  <2> QED
    BY <2>6
<1>5. CASE index[v] = 0
  <2>1. PICK n : n = Len(events) + 1
    OBVIOUS
  <2>2. PICK m : m = Event(v, lb[v], b)
    OBVIOUS
  <2>3. /\ events' = Append(events, m) /\ index' = [index EXCEPT ![v] = n]
    BY <1>5, <2>1, <2>2 DEF Queued
  <2>4. m.old = lb[v] /\ m \in Waiting
    BY <1>1, <2>2 DEF Event, Waiting, Types
  <2>5. events'[n] = m /\ \A j \in DOMAIN events : events'[j] = events[j]
    BY <1>1, <2>1, <2>3, <2>4, AppendProperties
  <2>6. ASSUME NEW w \in Vars
        PROVE  Before(w)' = Before(w)
    <3>1. CASE w = v
      BY <1>1, <1>5, <2>1, <2>3, <2>4, <2>5, <3>1 DEF Before
    <3>2. CASE w # v
      <4>1. index'[w] = index[w] /\ lb'[w] = lb[w]
        BY <1>1, <1>3, <2>3, <3>2
      <4> QED
        BY <1>2, <2>5, <4>1 DEF Before
    <3> QED
      BY <3>1, <3>2
  <2> QED
    BY <2>6
<1> QED
  BY <1>4, <1>5

LEMMA UntrackedView ==
    ASSUME IInv, SlotInv, ViewInv, NEW v \in Vars, NEW b, lb' = [lb EXCEPT ![v] = b],
           ~Tracked(v), UNCHANGED <<queue, filter, stack, handlers>>
    PROVE  ViewInv'
<1>1. UNCHANGED <<events, index, filter, stack, pos, view, sure>>
  BY DEF queue, handlers
<1>2. filter[v].mask = {}
  BY DEF Tracked
<1>3. \A k \in DOMAIN stack : stack[k].event.var # v
  BY <1>2 DEF ViewInv, CallsOk, CallOk
<1>4. \A h \in Handlers : VarOf[h] = v => pos[h] = 0
  <2>1. ~filter[v].delayed /\ filter[v].dmask = {}
    BY <1>3 DEF ViewInv, MasksOk
  <2>2. \A h \in Handlers : CatchTypes[h] # {}
    BY HandlersAssumption
  <2> QED
    BY <1>2, <2>1, <2>2 DEF ViewInv, MasksOk
<1>5. \A w \in Vars : w # v => Before(w)' = Before(w)
  <2>1. \A w \in Vars : w # v => lb'[w] = lb[w]
    BY DEF IInv, QueueTypes
  <2> QED
    BY <1>1, <2>1 DEF Before
<1>6. CallsOk'
  <2>1. ASSUME NEW k \in DOMAIN stack
        PROVE  CallOk(stack[k], k)'
    <3>1. PICK w \in Vars \ {v} : stack[k].event.var = w
      BY <1>3, StackIs
    <3>2. CallOk(stack[k], k) /\ Before(w)' = Before(w)
      BY <1>5 DEF ViewInv, CallsOk
    <3> QED
      BY <1>1, <3>1, <3>2 DEF CallOk, Before
  <2> QED
    BY <1>1, <2>1 DEF ViewInv, CallsOk
<1>7. ASSUME NEW w \in Vars
      PROVE  MasksOk(w)'
  BY <1>1 DEF ViewInv, MasksOk
<1>8. ASSUME NEW h \in Handlers, Follows(h)'
      PROVE  Heard(h)'
  <2>1. Follows(h) /\ Heard(h) /\ VarOf[h] \in Vars
    BY <1>1, <1>8, HandlersAssumption DEF Follows, ViewInv
  <2>2. VarOf[h] # v
    BY <1>4, <2>1 DEF Follows
  <2>3. Before(VarOf[h])' = Before(VarOf[h])
    BY <1>5, <2>1, <2>2
  <2>4. \A k : Pending(h, k)' <=> Pending(h, k)
    BY <1>1 DEF Pending
  <2> QED
    BY <1>1, <2>1, <2>3, <2>4 DEF Heard
<1> QED
  BY <1>1, <1>6, <1>7, <1>8 DEF ViewInv

LEMMA ChangeLbView ==
    ASSUME IInv, SlotInv, ViewInv, NEW v \in Vars, NEW b \in Bounds, ChangeLb(v, b)
    PROVE  ViewInv'
<1>1. /\ b \in Int /\ b # lb[v] /\ MayAct /\ lb' = [lb EXCEPT ![v] = b]
      /\ UNCHANGED handlers
  BY VarsAssumption DEF ChangeLb
<1>2. CASE ~Tracked(v)
  <2>1. UNCHANGED <<queue, filter, stack>>
    BY <1>2 DEF ChangeLb
  <2> QED
    BY <1>1, <1>2, <2>1, UntrackedView
<1>3. CASE Tracked(v) /\ delay
  <2>1. Queued(v, lb[v], b)
    BY <1>3 DEF ChangeLb
  <2>2. UNCHANGED <<filter, stack>>
    BY <2>1 DEF Queued
  <2> QED
    BY <1>1, <2>1, <2>2, QueuedBefore, ViewStays
<1>4. CASE Tracked(v) /\ ~delay
  <2>1. Processed(Event(v, lb[v], b)) /\ UNCHANGED queue /\ ~filter[v].delayed
    BY <1>4 DEF ChangeLb
  <2>2. \A w \in Vars : index[w] = 0 /\ index'[w] = 0
    BY <1>4, <2>1, NothingWaits DEF queue
  <2>3. lb'[v] = b /\ \A w \in Vars : w # v => lb'[w] = lb[w]
    BY <1>1 DEF IInv, QueueTypes
  <2>4. \A w \in Vars : Before(w) = lb[w] /\ Before(w)' = lb'[w]
    BY <2>2 DEF Before
  <2>5. PICK e : e = Event(v, lb[v], b)
    OBVIOUS
  <2>6. e.var = v /\ e.old = lb[v] /\ e.new = b /\ e.type \in Types
    BY <2>5 DEF Event, Types
  <2>7. \A k \in DOMAIN stack : stack[k].processed
    BY <1>1, ActorsWereAllCalled
  <2>8. e.old = Before(v) /\ Before(v)' = e.new
    BY <2>3, <2>4, <2>6
  <2>9. \A w \in Vars : w # v => Before(w)' = Before(w)
    BY <2>3, <2>4
  <2>10. Processed(e)
    BY <2>1, <2>5
  <2> HIDE DEF Before
  <2> QED
    BY <1>1, <2>1, <2>6, <2>7, <2>8, <2>9, <2>10, ProcessedView
<1> QED
  BY <1>2, <1>3, <1>4

LEMMA NextEventView ==
    ASSUME IInv, SlotInv, ViewInv, NextEvent
    PROVE  ViewInv'
<1>1. PICK e : e = events[at]
  OBVIOUS
<1>2. PICK v : v = e.var
  OBVIOUS
<1>3. /\ stack = <<>> /\ at \in DOMAIN events
      /\ index' = IF e.type \in Types THEN [index EXCEPT ![v] = 0] ELSE index
      /\ Processed(e) /\ UNCHANGED <<lb, events, handlers>>
  BY <1>1, <1>2 DEF NextEvent
<1>4. /\ e \in Waiting /\ v \in Vars /\ index \in [Vars -> Nat]
      /\ DOMAIN events = 1..Len(events) /\ Len(events) \in Nat /\ at \in Nat
  BY <1>1, <1>2, <1>3, EventsWait, LenProperties DEF IInv, QueueTypes
<1>5. DOMAIN stack = {}
  BY <1>3
<1>6. ~filter[v].delayed
  BY <1>4, <1>5 DEF ViewInv, MasksOk
<1>7. \A w \in Vars : w # v => Before(w)' = Before(w)
  <2>1. \A w \in Vars : w # v => index'[w] = index[w]
    BY <1>3, <1>4
  <2> QED
    BY <1>3, <2>1 DEF Before
<1>8. CASE e.type \in Types
  <2>1. index[v] = at /\ at # 0
    BY <1>1, <1>2, <1>3, <1>4, <1>8 DEF IInv, QueueCurrent
  <2>2. e = Event(v, e.old, lb[v])
    BY <1>1, <1>4, <2>1 DEF IInv, QueueCurrent
  <2>3. e.new = lb[v]
    BY <2>2 DEF Event
  <2>4. e.old = Before(v) /\ Before(v)' = e.new
    BY <1>1, <1>3, <1>4, <1>8, <2>1, <2>3 DEF Before
  <2>5. \A k \in DOMAIN stack : stack[k].processed
    BY <1>5
  <2>6. e.var = v /\ UNCHANGED handlers /\ Processed(e)
    BY <1>2, <1>3
  <2> HIDE DEF Before
  <2> QED
    BY <1>4, <1>6, <1>7, <1>8, <2>4, <2>5, <2>6, ProcessedView
<1>9. CASE e.type \notin Types
  <2>1. e.type \notin filter[e.var].mask
    BY <1>2, <1>4, <1>9 DEF IInv, FiltersOk, FilterOk
  <2>2. UNCHANGED <<filter, stack>>
    BY <1>3, <2>1 DEF Processed
  <2>3. index' = index
    BY <1>3, <1>9
  <2>4. \A w \in Vars : Before(w)' = Before(w)
    BY <1>3, <2>3 DEF Before
  <2> QED
    BY <1>3, <2>2, <2>4, ViewStays
<1> QED
  BY <1>8, <1>9

\* Nobody hears of anything while handlers catch and drop.
LEMMA BeforeStays ==
    ASSUME UNCHANGED <<lb, events, index>>
    PROVE  \A w : Before(w)' = Before(w)
BY DEF Before

LEMMA AddedMasks ==
    ASSUME NEW f, Fields \subseteq DOMAIN f, NEW h \in Handlers
    PROVE  LET g == Added(f, h)
           IN /\ g.delayed = f.delayed /\ f.mask \subseteq g.mask
              /\ f.mask \cup f.dmask \subseteq g.mask \cup g.dmask
              /\ CatchTypes[h] \subseteq g.mask \cup g.dmask
              /\ ~f.delayed => g.dmask = f.dmask
<1> DEFINE g == Added(f, h)
           C == CatchTypes[h]
<1>1. CASE f.delayed \/ f.free = 0
  <2>1. /\ g.delayed = f.delayed
        /\ IF f.delayed THEN g.mask = f.mask /\ g.dmask = f.dmask \cup C
           ELSE g.mask = f.mask \cup C /\ g.dmask = f.dmask
    BY <1>1, AppendedFields, Zenon
  <2> HIDE DEF g, C
  <2> QED
    BY <2>1 DEF g, C
<1>2. CASE ~f.delayed /\ f.free # 0
  <2>1. g.delayed = f.delayed /\ g.mask = f.mask \cup C /\ g.dmask = f.dmask
    BY <1>2, ReusedFields, Zenon
  <2> HIDE DEF g, C
  <2> QED
    BY <2>1 DEF g, C
<1> QED
  BY <1>1, <1>2

LEMMA CatchView ==
    ASSUME IInv, SlotInv, ViewInv, NEW h \in Handlers, Catch(h)
    PROVE  ViewInv'
<1>1. PICK v \in Vars : v = VarOf[h]
  BY HandlersAssumption
<1> DEFINE f == filter[v]
           g == Added(f, h)
           p == AddedAt(f)
           C == CatchTypes[h]
<1>2. /\ MayAct /\ pos[h] = 0 /\ filter' = [filter EXCEPT ![v] = g] /\ pos' = [pos EXCEPT ![h] = p]
      /\ view' = [view EXCEPT ![h] = lb[v]] /\ sure' = [sure EXCEPT ![h] = index[v] = 0]
      /\ UNCHANGED <<lb, events, index, stack>>
  BY <1>1 DEF Catch, queue
<1>3. FilterShape(f, v) /\ ListsOk(f, Taken(v)) /\ Fields \subseteq DOMAIN f
  BY FieldsOf DEF SlotInv, SlotsOf
<1>4. /\ g.delayed = f.delayed /\ f.mask \subseteq g.mask
      /\ f.mask \cup f.dmask \subseteq g.mask \cup g.dmask
      /\ C \subseteq g.mask \cup g.dmask
      /\ ~f.delayed => g.dmask = f.dmask
  BY <1>3, AddedMasks
<1>5. /\ Len(f.types) \in Nat /\ Len(g.types) \in Nat /\ Len(f.types) <= Len(g.types)
      /\ p \in Nat \ {0} /\ (f.delayed => p = Len(f.types) + 1)
  <2>1. f.delayed => p = Len(f.types) + 1
    BY DEF AddedAt
  <2> HIDE DEF f, p, g
  <2>2. /\ Len(f.types) \in Nat /\ Len(g.types) \in Nat /\ Len(f.types) <= Len(g.types)
        /\ p \in Nat \ {0}
    BY <1>1, <1>3, AddedSlots DEF g, p
  <2> QED
    BY <2>1, <2>2
<1>6. \A w \in Vars : filter'[w] = IF w = v THEN g ELSE filter[w]
  BY <1>2 DEF IInv, FiltersOk
<1>7. /\ pos \in [Handlers -> Nat] /\ pos' \in [Handlers -> Nat] /\ pos'[h] = p
      /\ \A i \in Handlers \ {h} : pos'[i] = pos[i] /\ view'[i] = view[i] /\ sure'[i] = sure[i]
      /\ view'[h] = lb[v] /\ sure'[h] = (index[v] = 0)
      /\ sure' \in [Handlers -> BOOLEAN] /\ DOMAIN view' = Handlers
  <2>1. pos \in [Handlers -> Nat] /\ sure \in [Handlers -> BOOLEAN] /\ DOMAIN view = Handlers
    BY DEF SlotInv, ViewInv
  <2>2. /\ pos' \in [Handlers -> Nat] /\ pos'[h] = p
        /\ \A i \in Handlers \ {h} : pos'[i] = pos[i]
    <3> HIDE DEF p
    <3>1. p \in Nat
      BY <1>5
    <3> QED
      BY <1>2, <2>1, <3>1
  <2>3. /\ view'[h] = lb[v] /\ DOMAIN view' = Handlers
        /\ \A i \in Handlers \ {h} : view'[i] = view[i]
    BY <1>2, <2>1
  <2>4. /\ sure' \in [Handlers -> BOOLEAN] /\ sure'[h] = (index[v] = 0)
        /\ \A i \in Handlers \ {h} : sure'[i] = sure[i]
    <3>1. PICK b \in BOOLEAN : b = (index[v] = 0)
      OBVIOUS
    <3>2. sure' = [sure EXCEPT ![h] = b]
      BY <1>2, <3>1, Zenon
    <3>3. /\ sure' \in [Handlers -> BOOLEAN] /\ sure'[h] = b
          /\ \A i \in Handlers \ {h} : sure'[i] = sure[i]
      BY <2>1, <3>2
    <3> QED
      BY <3>1, <3>3
  <2> HIDE DEF p
  <2> QED
    BY <2>1, <2>2, <2>3, <2>4
<1>8. \A w : Before(w)' = Before(w)
  BY <1>2, BeforeStays
<1>9. \A k \in DOMAIN stack : stack[k].processed
  BY <1>2, ActorsWereAllCalled
<1> HIDE DEF f, g, p, C
<1>10. CallsOk'
  <2>1. ASSUME NEW k \in DOMAIN stack
        PROVE  CallOk(stack[k], k)'
    <3>1. PICK w \in Vars : stack[k].event.var = w
      BY StackIs
    <3>2. CallOk(stack[k], k) /\ stack[k].processed
      BY <1>9 DEF ViewInv, CallsOk
    <3>3. CASE w = v
      BY <1>2, <1>4, <1>5, <1>6, <3>1, <3>2, <3>3 DEF CallOk, Before, f
    <3>4. CASE w # v
      BY <1>2, <1>6, <3>1, <3>2, <3>4 DEF CallOk, Before
    <3> QED
      BY <3>3, <3>4
  <2> QED
    BY <1>2, <2>1 DEF ViewInv, CallsOk
<1>11. ASSUME NEW w \in Vars
       PROVE  MasksOk(w)'
  <2>1. MasksOk(w)
    BY DEF ViewInv
  <2>2. CASE w = v
    <3>1. filter[w] = f /\ filter'[w] = g
      BY <1>6, <2>2 DEF f
    <3>2. ASSUME NEW i \in Handlers, VarOf[i] = w, pos'[i] # 0
          PROVE  CatchTypes[i] \subseteq g.mask \cup g.dmask
      <4>1. CASE i = h
        BY <1>4, <4>1 DEF C
      <4>2. CASE i # h
        <5>1. CatchTypes[i] \subseteq f.mask \cup f.dmask
          BY <1>7, <2>1, <3>1, <3>2, <4>2 DEF MasksOk
        <5> QED
          BY <1>4, <5>1
      <4> QED
        BY <4>1, <4>2
    <3> QED
      BY <1>2, <1>4, <2>1, <3>1, <3>2 DEF MasksOk
  <2>3. CASE w # v
    <3>1. filter'[w] = filter[w]
      BY <1>6, <2>3
    <3>2. \A i \in Handlers : VarOf[i] = w => pos'[i] = pos[i]
      BY <1>1, <1>7, <2>3
    <3> QED
      BY <1>2, <2>1, <3>1, <3>2 DEF MasksOk
  <2> QED
    BY <2>2, <2>3
<1>12. ASSUME NEW i \in Handlers, Follows(i)'
       PROVE  Heard(i)'
  <2>1. CASE i = h
    <3>1. index[v] = 0 /\ view'[i] = lb[v]
      BY <1>7, <1>12, <2>1 DEF Follows
    <3>2. \A k \in DOMAIN stack : ~Pending(i, k)'
      <4>1. ASSUME NEW k \in DOMAIN stack, stack[k].event.var = v
            PROVE  stack[k].len < p
        <5>1. CallOk(stack[k], k)
          BY DEF ViewInv, CallsOk
        <5>2. filter[stack[k].event.var] = f
          BY <4>1 DEF f
        <5>3. f.delayed /\ stack[k].len \in Nat /\ stack[k].len <= Len(f.types)
          BY <5>1, <5>2 DEF CallOk
        <5>4. p = Len(f.types) + 1
          BY <1>5, <5>3
        <5>5. PICK m, n : m = Len(f.types) /\ n = stack[k].len
          OBVIOUS
        <5>6. m \in Nat /\ n \in Nat /\ n <= m /\ p = m + 1
          BY <5>3, <5>4, <5>5
        <5>7. n < p
          BY <5>6
        <5> QED
          BY <5>5, <5>7
      <4>2. \A k \in DOMAIN stack : CallOk(stack[k], k)
        BY DEF ViewInv, CallsOk
      <4>3. \A k \in DOMAIN stack : stack[k].len \in Nat
        BY <4>2 DEF CallOk
      <4> QED
        BY <1>1, <1>2, <1>5, <1>7, <2>1, <4>1, <4>3 DEF Pending
    <3>3. Before(VarOf[i])' = lb[v]
      BY <1>1, <1>2, <2>1, <3>1 DEF Before
    <3> QED
      BY <1>2, <3>1, <3>2, <3>3 DEF Heard
  <2>2. CASE i # h
    <3>1. pos'[i] = pos[i] /\ view'[i] = view[i] /\ sure'[i] = sure[i]
      BY <1>7, <2>2
    <3>2. Heard(i)
      BY <1>12, <3>1 DEF Follows, ViewInv
    <3>3. \A k : Pending(i, k)' <=> Pending(i, k)
      BY <1>2, <3>1 DEF Pending
    <3> QED
      BY <1>2, <1>8, <3>1, <3>2, <3>3 DEF Heard
  <2> QED
    BY <2>1, <2>2
<1> QED
  BY <1>7, <1>10, <1>11, <1>12 DEF ViewInv

LEMMA DropView ==
    ASSUME IInv, SlotInv, ViewInv, NEW h \in Handlers, Drop(h)
    PROVE  ViewInv'
<1>1. PICK v \in Vars : v = VarOf[h]
  BY HandlersAssumption
<1> DEFINE f == filter[v]
           p == pos[h]
           g == Deleted(f, p)
<1>2. /\ MayAct /\ p # 0 /\ filter' = [filter EXCEPT ![v] = g] /\ pos' = [pos EXCEPT ![h] = 0]
      /\ UNCHANGED <<lb, events, index, stack, view, sure>>
  BY <1>1 DEF Drop, queue
<1>3. FilterShape(f, v) /\ ListsOk(f, Taken(v)) /\ Fields \subseteq DOMAIN f /\ p \in Taken(v)
  BY <1>1, <1>2, FieldsOf DEF SlotInv, SlotsOf, Taken
<1>4. /\ Len(g.types) = Len(f.types)
      /\ g.delayed = f.delayed /\ g.mask = f.mask /\ g.dmask = f.dmask
  <2> HIDE DEF f, p
  <2> QED
    BY <1>3, DeletedSlots
<1> HIDE DEF f, g, p
<1>5. \A w \in Vars : filter'[w] = IF w = v THEN g ELSE filter[w]
  BY <1>2 DEF IInv, FiltersOk
<1>6. \A i \in Handlers : pos'[i] = IF i = h THEN 0 ELSE pos[i]
  BY <1>2 DEF SlotInv
<1>7. \A w : Before(w)' = Before(w)
  BY <1>2, BeforeStays
<1>8. \A k \in DOMAIN stack : stack[k].processed
  BY <1>2, ActorsWereAllCalled
<1>9. CallsOk'
  <2>1. ASSUME NEW k \in DOMAIN stack
        PROVE  CallOk(stack[k], k)'
    <3>1. PICK w \in Vars : stack[k].event.var = w
      BY StackIs
    <3>2. CallOk(stack[k], k) /\ stack[k].processed
      BY <1>8 DEF ViewInv, CallsOk
    <3>3. CASE w = v
      BY <1>2, <1>4, <1>5, <3>1, <3>2, <3>3 DEF CallOk, Before, f
    <3>4. CASE w # v
      BY <1>2, <1>5, <3>1, <3>2, <3>4 DEF CallOk, Before
    <3> QED
      BY <3>3, <3>4
  <2> QED
    BY <1>2, <2>1 DEF ViewInv, CallsOk
<1>10. ASSUME NEW w \in Vars
       PROVE  MasksOk(w)'
  <2>1. MasksOk(w)
    BY DEF ViewInv
  <2>2. /\ filter'[w].delayed = filter[w].delayed /\ filter'[w].mask = filter[w].mask
        /\ filter'[w].dmask = filter[w].dmask
    BY <1>4, <1>5 DEF f
  <2> QED
    BY <1>2, <1>6, <2>1, <2>2 DEF MasksOk
<1>11. ASSUME NEW i \in Handlers, Follows(i)'
       PROVE  Heard(i)'
  <2>1. i # h /\ pos'[i] = pos[i]
    BY <1>6, <1>11 DEF Follows
  <2>2. Heard(i)
    BY <1>2, <1>11, <2>1 DEF Follows, ViewInv
  <2>3. \A k : Pending(i, k)' <=> Pending(i, k)
    BY <1>2, <2>1 DEF Pending
  <2> QED
    BY <1>2, <1>7, <2>2, <2>3 DEF Heard
<1> QED
  BY <1>2, <1>9, <1>10, <1>11 DEF ViewInv

\* What is known of the innermost call.
LEMMA TopCall ==
    ASSUME IInv, SlotInv, ViewInv, stack # <<>>, NEW n, n = Len(stack), NEW fr, fr = Top,
           NEW v, v = fr.event.var, NEW f, f = filter[v]
    PROVE  /\ n \in Nat \ {0} /\ DOMAIN stack = 1..n /\ stack[n] = fr
           /\ v \in Vars /\ FilterShape(f, v)
           /\ CallOk(fr, n) /\ fr.event.type \in Types
           /\ fr.next \in Nat \ {0} /\ fr.len \in Nat /\ fr.len <= Len(f.types)
           /\ {"event", "next", "len", "processed", "hdlr"} \subseteq DOMAIN fr
           /\ \A k \in 1..n : stack[k].event.var = v => k = n
<1>1. /\ n \in Nat \ {0} /\ DOMAIN stack = 1..n /\ stack[n] = fr /\ v \in Vars
      /\ FrameOk(fr, index)
  BY TopIs DEF Top
<1>2. CallOk(fr, n) /\ \A k \in 1..n : stack[k].event.var = v => k = n
  BY <1>1 DEF ViewInv, CallsOk
<1>3. fr.event.type \in Types
  BY <1>1, <1>2 DEF CallOk, IInv, FiltersOk, FilterOk
<1>4. FilterShape(f, v)
  BY <1>1 DEF SlotInv, SlotsOf
<1> QED
  BY <1>1, <1>2, <1>3, <1>4 DEF CallOk, FrameOk

\* A handler that follows the bound of the innermost call's variable is called,
\* if it is there that the loop still has to go.
LEMMA PendingIsCalled ==
    ASSUME IInv, SlotInv, ViewInv, stack # <<>>, NEW h \in Handlers, Follows(h)
    PROVE  Pending(h, Len(stack)) => VarOf[h] = Top.event.var /\ pos[h] \in ToCall(Top)
<1>1. PICK n, fr : n = Len(stack) /\ fr = Top
  OBVIOUS
<1>2. PICK v, f : v = fr.event.var /\ f = filter[v]
  OBVIOUS
<1>3. /\ stack[n] = fr /\ fr.event.type \in Types
      /\ fr.next \in Nat /\ fr.len \in Nat
  BY <1>1, <1>2, TopCall
<1>4. ASSUME Pending(h, n)
      PROVE  VarOf[h] = v /\ pos[h] \in ToCall(fr)
  <2>1. VarOf[h] = v /\ fr.next <= pos[h] /\ pos[h] <= fr.len
    BY <1>2, <1>3, <1>4 DEF Pending
  <2>2. f.types[pos[h]] = Types /\ pos[h] \in Nat
    BY <1>2, <2>1, HeldSlot DEF Follows, SlotInv
  <2> QED
    BY <1>2, <1>3, <2>1, <2>2 DEF ToCall
<1> QED
  BY <1>1, <1>2, <1>4

LEMMA CallHandlerView ==
    ASSUME IInv, SlotInv, ViewInv, CallHandler
    PROVE  ViewInv'
<1>1. PICK n, fr : n = Len(stack) /\ fr = Top
  OBVIOUS
<1>2. PICK v, f : v = fr.event.var /\ f = filter[v]
  OBVIOUS
<1>3. PICK k : k = CHOOSE j \in ToCall(fr) : \A i \in ToCall(fr) : j <= i
  OBVIOUS
<1>4. PICK c : c = f.hdlr[k]
  OBVIOUS
<1>5. PICK fr2 : fr2 = [fr EXCEPT !.next = k + 1, !.processed = TRUE, !.hdlr = TRUE]
  OBVIOUS
<1>6. /\ stack # <<>> /\ ToCall(fr) # {} /\ stack' = [stack EXCEPT ![n] = fr2]
      /\ view' = IF pos[c] = k THEN [view EXCEPT ![c] = fr.event.new] ELSE view
      /\ UNCHANGED <<lb, events, index, filter, pos, sure>>
  BY <1>1, <1>2, <1>3, <1>4, <1>5 DEF CallHandler, queue, Top
<1>7. /\ n \in Nat \ {0} /\ DOMAIN stack = 1..n /\ stack[n] = fr
      /\ v \in Vars /\ FilterShape(f, v)
      /\ CallOk(fr, n) /\ fr.event.type \in Types
      /\ fr.next \in Nat \ {0} /\ fr.len \in Nat /\ fr.len <= Len(f.types)
      /\ {"event", "next", "len", "processed", "hdlr"} \subseteq DOMAIN fr
      /\ \A j \in 1..n : stack[j].event.var = v => j = n
  BY <1>1, <1>2, <1>6, TopCall
<1>8. k \in ToCall(fr) /\ \A i \in ToCall(fr) : k <= i
  <2>1. ToCall(fr) \subseteq Nat
    BY <1>7 DEF ToCall
  <2>2. \E j \in ToCall(fr) : \A i \in ToCall(fr) : j <= i
    BY <1>6, <2>1, LeastNat
  <2> QED
    BY <1>3, <2>2
<1>9. k \in Nat /\ fr.next <= k /\ k <= fr.len
  BY <1>7, <1>8 DEF ToCall
<1>10. c \in Handlers /\ VarOf[c] = v
  <2>1. k \in 1..Len(f.next)
    BY <1>7, <1>9, Positions DEF FilterShape
  <2> QED
    BY <1>4, <1>7, <2>1, Positions
<1>11. /\ fr2.event = fr.event /\ fr2.next = k + 1 /\ fr2.len = fr.len /\ fr2.processed = TRUE
  BY <1>5, <1>7, Zenon
<1>12. /\ Len(stack') = n /\ DOMAIN stack' = 1..n
       /\ \A j \in 1..n : stack'[j] = IF j = n THEN fr2 ELSE stack[j]
  BY <1>1, <1>6, <1>7, Replaced DEF IInv, StackOk
<1>13. \A w : Before(w)' = Before(w)
  BY <1>6, BeforeStays
<1>14. DOMAIN view = Handlers /\ sure \in [Handlers -> BOOLEAN] /\ pos \in [Handlers -> Nat]
  BY DEF ViewInv, SlotInv
<1>15. DOMAIN view' = Handlers /\ \A h \in Handlers : view'[h] =
           IF h = c /\ pos[c] = k THEN fr.event.new ELSE view[h]
  BY <1>6, <1>14
<1>16. CallsOk'
  <2>1. ASSUME NEW j \in 1..n
        PROVE  CallOk(stack[j], j)'
    <3>1. PICK w : stack[j].event.var = w
      OBVIOUS
    <3>2. CallOk(stack[j], j)
      BY <1>7 DEF ViewInv, CallsOk
    <3>3. Before(w)' = Before(w)
      BY <1>13
    <3>4. CASE j = n
      <4>1. stack'[j] = fr2 /\ stack[j] = fr /\ w = v
        BY <1>2, <1>7, <1>12, <3>1, <3>4
      <4> QED
        BY <1>6, <1>9, <1>11, <3>1, <3>2, <3>3, <4>1 DEF CallOk, Before
    <3>5. CASE j # n
      BY <1>1, <1>6, <1>12, <3>1, <3>2, <3>3, <3>5 DEF CallOk, Before
    <3> QED
      BY <3>4, <3>5
  <2>2. \A j \in 1..n : stack'[j].event.var = stack[j].event.var
    BY <1>7, <1>11, <1>12
  <2>3. \A i, j \in 1..n : stack'[i].event.var = stack'[j].event.var => i = j
    BY <1>7, <2>2 DEF ViewInv, CallsOk
  <2> QED
    BY <1>12, <2>1, <2>3 DEF CallsOk
<1>17. ASSUME NEW w \in Vars
       PROVE  MasksOk(w)'
  <2>1. MasksOk(w)
    BY DEF ViewInv
  <2>2. \A j \in 1..n : stack'[j].event.var = stack[j].event.var
    BY <1>7, <1>11, <1>12
  <2> QED
    BY <1>6, <1>7, <1>12, <2>1, <2>2 DEF MasksOk
<1>18. ASSUME NEW h \in Handlers, Follows(h)'
       PROVE  Heard(h)'
  <2>1. Follows(h) /\ Heard(h)
    BY <1>6, <1>18 DEF Follows, ViewInv
  <2>2. \A j \in 1..n : j # n => (Pending(h, j)' <=> Pending(h, j))
    BY <1>6, <1>12 DEF Pending
  <2>3. Pending(h, n)' <=> VarOf[h] = v /\ k + 1 <= pos[h] /\ pos[h] <= fr.len
    BY <1>2, <1>6, <1>7, <1>11, <1>12 DEF Pending
  <2>4. Pending(h, n) <=> VarOf[h] = v /\ fr.next <= pos[h] /\ pos[h] <= fr.len
    BY <1>2, <1>7 DEF Pending
  <2>5. pos[h] \in Nat
    BY <1>14
  <2>6. \A j \in 1..n : stack'[j].event = stack[j].event
    BY <1>7, <1>11, <1>12
  <2>7. CASE Pending(h, n) /\ pos[h] = k
    <3>1. VarOf[h] = v
      BY <2>4, <2>7
    <3>2. c = h
      BY <1>2, <1>4, <2>1, <2>7, <3>1, HeldSlot DEF Follows
    <3>3. view'[h] = fr.event.new
      BY <1>15, <2>7, <3>2
    <3>4. fr.event.new = Before(v)
      BY <1>2, <1>7 DEF CallOk
    <3>5. \A j \in 1..n : ~Pending(h, j)'
      <4>1. ~Pending(h, n)'
        BY <1>9, <2>3, <2>7
      <4>2. \A j \in 1..n : j # n => ~Pending(h, j)
        BY <1>7, <3>1 DEF Pending
      <4> QED
        BY <2>2, <4>1, <4>2
    <3>6. Before(VarOf[h])' = Before(v)
      BY <1>13, <3>1
    <3> QED
      BY <1>12, <3>3, <3>4, <3>5, <3>6 DEF Heard
  <2>8. CASE ~(Pending(h, n) /\ pos[h] = k)
    <3>1. Pending(h, n)' <=> Pending(h, n)
      <4>1. Pending(h, n) => k <= pos[h]
        BY <1>1, <1>8, <2>1, <1>6, PendingIsCalled
      <4> QED
        BY <1>7, <1>9, <2>3, <2>4, <2>5, <2>8, <4>1
    <3>2. view'[h] = view[h]
      BY <1>9, <1>10, <1>15, <2>4, <2>8
    <3>3. \A j \in 1..n : Pending(h, j)' <=> Pending(h, j)
      BY <2>2, <3>1
    <3>4. Before(VarOf[h])' = Before(VarOf[h])
      BY <1>13
    <3> HIDE DEF Pending, Before
    <3> QED
      BY <1>7, <1>12, <2>1, <2>6, <3>2, <3>3, <3>4 DEF Heard
  <2> QED
    BY <2>7, <2>8
<1> QED
  BY <1>6, <1>14, <1>15, <1>16, <1>17, <1>18 DEF ViewInv

LEMMA EndFilterView ==
    ASSUME IInv, SlotInv, ViewInv, EndFilter
    PROVE  ViewInv'
<1>1. PICK n, fr : n = Len(stack) /\ fr = Top
  OBVIOUS
<1>2. PICK v, f : v = fr.event.var /\ f = filter[v]
  OBVIOUS
<1>3. PICK g : g = Ended(f, fr.event.type, fr.processed)
  OBVIOUS
<1>4. /\ stack # <<>> /\ ToCall(fr) = {} /\ stack' = SubSeq(stack, 1, n - 1)
      /\ filter' = [filter EXCEPT ![v] = g]
      /\ UNCHANGED <<lb, events, index, pos, view, sure>>
  BY <1>1, <1>2, <1>3 DEF EndFilter, queue, handlers
<1>5. /\ n \in Nat \ {0} /\ DOMAIN stack = 1..n /\ stack[n] = fr
      /\ v \in Vars /\ FilterShape(f, v)
      /\ CallOk(fr, n) /\ fr.event.type \in Types
      /\ fr.next \in Nat \ {0} /\ fr.len \in Nat /\ fr.len <= Len(f.types)
      /\ \A j \in 1..n : stack[j].event.var = v => j = n
  BY <1>1, <1>2, <1>4, TopCall
<1>6. /\ Len(stack') = n - 1 /\ DOMAIN stack' = 1..(n - 1)
      /\ \A j \in 1..(n - 1) : stack'[j] = stack[j]
  BY <1>1, <1>4, Popped DEF IInv, StackOk
<1>7. /\ g.delayed = FALSE /\ g.dmask = {}
      /\ (f.mask \ {fr.event.type}) \cup f.dmask \subseteq g.mask
      /\ fr.processed => f.mask \subseteq g.mask
  <2>1. Fields \subseteq DOMAIN f
    BY <1>2, <1>5, FieldsOf
  <2>2. PICK type, processed : type = fr.event.type /\ processed = fr.processed
    OBVIOUS
  <2>3. g = Ended(f, type, processed)
    BY <1>3, <2>2
  <2>4. /\ g.delayed = FALSE /\ g.dmask = {}
        /\ (f.mask \ {type}) \cup f.dmask \subseteq g.mask
        /\ processed => f.mask \subseteq g.mask
    BY <2>1, <2>3, EndedMasks, Zenon
  <2> QED
    BY <2>2, <2>4
<1>8. \A w \in Vars : filter'[w] = IF w = v THEN g ELSE filter[w]
  BY <1>4 DEF IInv, FiltersOk
<1>9. \A w : Before(w)' = Before(w)
  BY <1>4, BeforeStays
<1>10. CallsOk'
  <2>1. ASSUME NEW j \in 1..(n - 1)
        PROVE  CallOk(stack[j], j)'
    <3>1. PICK w : stack[j].event.var = w
      OBVIOUS
    <3>2. j \in 1..n /\ j # n
      BY <1>5
    <3>3. CallOk(stack[j], j) /\ w # v /\ w \in Vars
      BY <1>5, <3>1, <3>2, StackIs DEF ViewInv, CallsOk
    <3>4. Before(w)' = Before(w)
      BY <1>9
    <3>5. stack[j].processed
      BY <1>1, <3>2, <3>3 DEF CallOk
    <3>6. stack'[j] = stack[j] /\ filter'[w] = filter[w]
      BY <1>6, <1>8, <3>3
    <3> QED
      BY <3>1, <3>3, <3>4, <3>5, <3>6 DEF CallOk, Before
  <2>2. \A i, j \in 1..(n - 1) : stack'[i].event.var = stack'[j].event.var => i = j
    <3>1. \A i \in 1..(n - 1) : i \in 1..n /\ stack'[i] = stack[i]
      BY <1>5, <1>6
    <3>2. \A i, j \in 1..n : stack[i].event.var = stack[j].event.var => i = j
      BY <1>5 DEF ViewInv, CallsOk
    <3> QED
      BY <3>1, <3>2
  <2> QED
    BY <1>6, <2>1, <2>2 DEF CallsOk
<1>11. ASSUME NEW w \in Vars
       PROVE  MasksOk(w)'
  <2>1. MasksOk(w)
    BY DEF ViewInv
  <2>2. CASE w = v
    <3>1. ASSUME NEW h \in Handlers, VarOf[h] = w, pos[h] # 0
          PROVE  CatchTypes[h] \subseteq g.mask
      <4>1. CatchTypes[h] \subseteq f.mask \cup f.dmask
        BY <1>2, <2>1, <2>2, <3>1 DEF MasksOk
      <4>2. CASE fr.processed
        BY <1>7, <4>1, <4>2
      <4>3. CASE ~fr.processed
        <5>1. fr.next = 1 /\ fr.len = Len(f.types)
          BY <1>2, <1>5, <4>3 DEF CallOk
        <5>2. pos[h] \in 1..Len(f.types) /\ f.types[pos[h]] = CatchTypes[h]
          BY <1>2, <2>2, <3>1, HeldSlot
        <5>3. fr.event.type \notin CatchTypes[h]
          BY <1>2, <1>4, <5>1, <5>2 DEF ToCall
        <5> QED
          BY <1>7, <4>1, <5>3
      <4> QED
        BY <4>2, <4>3
    <3>2. filter'[w] = g
      BY <1>8, <2>2
    <3> QED
      BY <1>4, <1>7, <3>1, <3>2 DEF MasksOk
  <2>3. CASE w # v
    <3>1. filter'[w] = filter[w]
      BY <1>8, <2>3
    <3>2. ASSUME NEW j \in 1..n, stack[j].event.var = w
          PROVE  j \in 1..(n - 1) /\ stack'[j].event.var = w
      <4>1. j # n
        BY <1>2, <1>5, <2>3, <3>2
      <4> QED
        BY <1>5, <1>6, <3>2, <4>1
    <3> QED
      BY <1>4, <1>5, <1>6, <2>1, <3>1, <3>2 DEF MasksOk
  <2> QED
    BY <2>2, <2>3
<1>12. ASSUME NEW h \in Handlers, Follows(h)'
       PROVE  Heard(h)'
  <2>1. Follows(h) /\ Heard(h)
    BY <1>4, <1>12 DEF Follows, ViewInv
  <2>2. ~Pending(h, n)
    BY <1>1, <1>4, <2>1, PendingIsCalled
  <2>3. \A j \in 1..(n - 1) : /\ Pending(h, j)' <=> Pending(h, j)
                              /\ stack'[j] = stack[j] /\ j \in 1..n
    BY <1>4, <1>5, <1>6 DEF Pending
  <2>4. \A j \in 1..n : j = n \/ j \in 1..(n - 1)
    BY <1>5
  <2>5. Before(VarOf[h])' = Before(VarOf[h])
    BY <1>9
  <2> HIDE DEF Pending, Before
  <2> QED
    BY <1>4, <1>5, <1>6, <2>1, <2>2, <2>3, <2>4, <2>5 DEF Heard
<1> QED
  BY <1>4, <1>10, <1>11, <1>12 DEF ViewInv

LEMMA ViewInvInit ==
    ASSUME Init
    PROVE  ViewInv
<1>1. DOMAIN stack = {}
  BY DEF Init
<1>2. \A h \in Handlers : pos[h] = 0
  BY DEF Init
<1>3. ASSUME NEW v \in Vars
      PROVE  MasksOk(v)
  <2>1. filter[v] = NewFilter
    BY DEF Init
  <2>2. NewFilter.delayed = FALSE /\ NewFilter.dmask = {}
    BY DEF NewFilter
  <2> HIDE DEF NewFilter
  <2> QED
    BY <1>2, <2>1, <2>2 DEF MasksOk
<1>4. sure \in [Handlers -> BOOLEAN] /\ DOMAIN view = Handlers
  BY DEF Init
<1> QED
  BY <1>1, <1>2, <1>3, <1>4 DEF ViewInv, CallsOk, Follows

LEMMA ViewInvNext ==
    ASSUME IInv, SlotInv, ViewInv, [Next]_vars
    PROVE  ViewInv'
<1>1. CASE UNCHANGED vars
  BY <1>1, BeforeStays, ViewStays DEF vars, handlers
<1>2. CASE \E v \in Vars, b \in Bounds : ChangeLb(v, b)
  BY <1>2, ChangeLbView
<1>3. CASE \E h \in Handlers : Catch(h) \/ Drop(h)
  BY <1>3, CatchView, DropView
<1>4. CASE Delay \/ BeginQueue
  <2>1. UNCHANGED <<lb, events, index, filter, stack, handlers>>
    BY <1>4 DEF Delay, BeginQueue
  <2> QED
    BY <2>1, BeforeStays, ViewStays
<1>5. CASE EndQueue
  <2>1. at > Len(events) /\ UNCHANGED <<lb, index, filter, stack, handlers>>
    BY <1>5 DEF EndQueue
  <2>2. DOMAIN events = 1..Len(events) /\ Len(events) \in Nat /\ at \in Nat
    BY LenProperties DEF IInv, QueueTypes
  <2>3. \A v \in Vars : index[v] = 0
    BY <2>1, <2>2 DEF IInv, QueueCurrent
  <2>4. \A v \in Vars : Before(v)' = Before(v)
    BY <2>1, <2>3 DEF Before
  <2> QED
    BY <2>1, <2>4, ViewStays
<1>6. CASE CallHandler \/ EndFilter \/ NextEvent
  BY <1>6, CallHandlerView, EndFilterView, NextEventView
<1> QED
  BY <1>1, <1>2, <1>3, <1>4, <1>5, <1>6 DEF Next

LEMMA AlwaysViewInv == Spec => [](IInv /\ SlotInv /\ ViewInv)
BY IInvInit, IInvNext, SlotInvInit, SlotInvNext, ViewInvInit, ViewInvNext, PTL DEF Spec

\* What the inductive invariant says of a handler that follows a bound.
LEMMA ViewIs ==
    ASSUME IInv, SlotInv, ViewInv
    PROVE  ViewCurrent
<1>1. ASSUME NEW h \in Handlers, pos[h] # 0, sure[h], CatchTypes[h] = Types,
             NEW v, v = VarOf[h],
             NEW C, C = {k \in DOMAIN stack : stack[k].event.var = v /\ pos[h] \in ToCall(stack[k])}
      PROVE  view[h] = IF C # {} THEN stack[CHOOSE k \in C : TRUE].event.old ELSE Before(v)
  <2>1. Heard(h)
    BY <1>1 DEF Follows, ViewInv
  <2>2. ASSUME NEW k \in DOMAIN stack
        PROVE  k \in C <=> Pending(h, k)
    <3>1. CallOk(stack[k], k)
      BY DEF ViewInv, CallsOk
    <3>2. stack[k].next \in Nat /\ stack[k].len \in Nat
      BY <3>1 DEF CallOk
    <3>3. ASSUME stack[k].event.var = v
          PROVE  pos[h] \in ToCall(stack[k]) <=> pos[h] \in stack[k].next..stack[k].len
      <4>1. stack[k].event.type \in Types
        BY <3>1, StackIs DEF CallOk, IInv, FiltersOk, FilterOk
      <4>2. filter[stack[k].event.var].types[pos[h]] = Types
        BY <1>1, <3>3, HeldSlot
      <4> QED
        BY <4>1, <4>2 DEF ToCall
    <3>4. pos[h] \in Nat
      BY DEF SlotInv
    <3>5. pos[h] \in stack[k].next..stack[k].len <=> stack[k].next <= pos[h] /\ pos[h] <= stack[k].len
      BY <3>2, <3>4
    <3> QED
      BY <1>1, <3>3, <3>5 DEF Pending
  <2>3. C \subseteq DOMAIN stack
    BY <1>1
  <2>4. CASE C # {}
    <3>1. PICK k : k = CHOOSE j \in C : TRUE
      OBVIOUS
    <3>2. k \in C
      BY <2>4, <3>1
    <3> QED
      BY <2>1, <2>2, <2>3, <2>4, <3>1, <3>2 DEF Heard
  <2>5. CASE C = {}
    BY <1>1, <2>1, <2>2, <2>5 DEF Heard
  <2> QED
    BY <2>4, <2>5
<1>2. ASSUME NEW h \in Handlers, pos[h] # 0 /\ sure[h] /\ CatchTypes[h] = Types
      PROVE  LET v == VarOf[h]
                 calls == {k \in DOMAIN stack : stack[k].event.var = v /\ pos[h] \in ToCall(stack[k])}
             IN view[h] = IF calls # {} THEN stack[CHOOSE k \in calls : TRUE].event.old ELSE Before(v)
  <2>1. PICK v : v = VarOf[h]
    OBVIOUS
  <2>2. PICK C : C = {k \in DOMAIN stack : stack[k].event.var = v /\ pos[h] \in ToCall(stack[k])}
    OBVIOUS
  <2>3. view[h] = IF C # {} THEN stack[CHOOSE k \in C : TRUE].event.old ELSE Before(v)
    BY <1>1, <1>2, <2>1, <2>2
  <2> QED
    BY <2>1, <2>2, <2>3
<1> QED
  BY <1>2, Zenon DEF ViewCurrent

\* A handler that caught both types while no event waited knows, whatever the
\* handlers before it did, the bound from which the event it is about to be
\* called for changes: no change is missed, told twice or told out of order.
THEOREM HandlersHearEverything == Spec => []ViewCurrent
BY AlwaysViewInv, ViewIs, PTL
=============================================================================
