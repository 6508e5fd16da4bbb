----------------------- MODULE ConcurrentSolveProofs -----------------------
(***************************************************************************)
(* What is proved of the synchronization store and of a concurrent solve,  *)
(* for any number of solvers and any maxnsyncdelay.                        *)
(*                                                                         *)
(* First what holds for a ring of any length, the code's included: the     *)
(* types, and that the winner of a complete number is the best of its      *)
(* writers.  The argument is local to a slot: its lock is held from        *)
(* StartSync to FinishSync (WritingHolds), so it holds the writer's number *)
(* throughout, and nobody writes to a number twice (WrittenBefore).        *)
(*                                                                         *)
(* Then what depends on the length.  The code's ring has 2 * MaxDelay + 2  *)
(* slots (CodeNSyncdata), and the run SyncStoreCodeRing shows that this is *)
(* too short.  It is too short by one slot only, and in one way only: a    *)
(* number that somebody has not read beyond lies at most 2 * MaxDelay + 2  *)
(* below the number being started (Delays, ReadWritten), so another number *)
(* in the same slot differs from it by less than the length of the ring,   *)
(* or it is the very number that somebody read last.  As long as the slots *)
(* read last are kept (LastReadKept), every number that is needed is in    *)
(* its slot (NumbersKept), and what the slot records about its writers is  *)
(* what the solvers' own counters say (WritersKnown).  A ring of one slot  *)
(* more keeps the slots read last, and so does the code's ring when nobody *)
(* begins to write with maxnsyncdelay numbers unread (PromptReaders).      *)
(*                                                                         *)
(* Then the solve: as long as each thread of the pool takes one job, and   *)
(* the slots read last are kept, the first call finds a winner.  Till then *)
(* it is a behaviour of the store, for a job starts a solver that has not  *)
(* solved yet.  Every thread took a job (a count), so every solver is      *)
(* done.  One that is done has left a status in the number it wrote last   *)
(* (EndsRecorded); the smallest of these numbers all have written, so it   *)
(* stopped the store.                                                      *)
(***************************************************************************)
EXTENDS ConcurrentSolve, FiniteSetTheorems, WellFoundedInduction, TLAPS

-----------------------------------------------------------------------------
(* Arithmetic of the ring.                                                 *)

\* Quotient and remainder.
LEMMA DivMod ==
    ASSUME NEW N \in Nat \ {0}, NEW a \in Int
    PROVE  a = N * (a \div N) + (a % N) /\ a \div N \in Int /\ a % N \in 0..(N - 1)
OBVIOUS

\* Different multiples of N are at least N apart.
LEMMA MultiplesApart ==
    ASSUME NEW N \in Nat \ {0}, NEW u \in Int, NEW v \in Int, u - v >= 1
    PROVE  N * u - N * v >= N
<1>1. ASSUME NEW z \in Int, z >= 1 PROVE N * z >= N
  BY <1>1
<1>2. N * (u - v) >= N
  BY <1>1
<1>3. N * (u - v) = N * u - N * v
  OBVIOUS
<1> QED
  BY <1>2, <1>3

\* A number belongs to one of the slots.
LEMMA SlotType == ASSUME NEW q \in Int PROVE SlotOf(q) \in Slots
BY SyncStoreAssumption, DivMod DEF SlotOf, Slots

\* Two numbers of the same slot that differ by less than the length of the
\* ring are the same.
LEMMA SameSlot ==
    ASSUME NEW a \in Int, NEW b \in Int, SlotOf(a) = SlotOf(b),
           a - b < NSyncdata, b - a < NSyncdata
    PROVE  a = b
<1> DEFINE N == NSyncdata
           x == a \div N
           y == b \div N
<1>1. /\ N \in Nat \ {0} /\ x \in Int /\ y \in Int
      /\ a = N * x + (a % N) /\ b = N * y + (b % N) /\ a % N \in Int /\ a % N = b % N
  BY SyncStoreAssumption, DivMod DEF SlotOf
<1>2. CASE x = y
  BY <1>1, <1>2
<1> HIDE DEF x, y
<1>3. CASE x - y >= 1
  BY <1>1, <1>3, MultiplesApart
<1>4. CASE y - x >= 1
  BY <1>1, <1>4, MultiplesApart
<1> QED
  BY <1>1, <1>2, <1>3, <1>4

\* The number fields of a solver are numbers.
LEMMA Numbers ==
    ASSUME TypeOK, NEW i \in Solvers
    PROVE  /\ nsyncs[i] \in Nat
           /\ readnum[i] \in Int /\ readnum[i] >= -1
           /\ MaxDelay \in Nat
BY SyncStoreAssumption DEF TypeOK, NONE

-----------------------------------------------------------------------------
(* A ring of any length: types.                                            *)

\* A solver that reads has a slot to read.
InReading(i) == pc[i] \in {"ensure", "unlocked", "asleep", "read"}
TypeInv == TypeOK /\ \A i \in Solvers : InReading(i) => target[i] \in Slots

\* What a slot holds after solver i has written status st to it.
Written(d, st, i) == [SetStatus(d, st, i) EXCEPT !.syncedcount = @ + 1, !.wrote[i] = st]
LEMMA WrittenSlot ==
    ASSUME NEW d \in SyncData, NEW i \in Solvers, NEW st \in StatusCodes,
           NEW f, f = Written(d, st, i)
    PROVE  /\ f \in SyncData
           /\ f.syncnum = d.syncnum
           /\ f.syncedcount = d.syncedcount + 1
           /\ f.wrote = [d.wrote EXCEPT ![i] = st]
           /\ f.status = IF Replaces(d, st, i) THEN st ELSE d.status
           /\ f.winner = IF Replaces(d, st, i) THEN i ELSE d.winner
<1> DEFINE e == SetStatus(d, st, i)
           c == e.syncedcount + 1
           w == [e.wrote EXCEPT ![i] = st]
<1>1. /\ d.syncnum \in Nat \cup {NONE} /\ d.syncedcount \in Nat /\ d.status \in StatusCodes
      /\ d.winner \in Nat /\ d.wrote \in [Solvers -> StatusCodes \cup {NONE}] /\ i \in Nat
  BY SyncStoreAssumption DEF SyncData
<1>2. /\ e \in SyncData /\ e.syncnum = d.syncnum /\ e.syncedcount = d.syncedcount
      /\ e.wrote = d.wrote
      /\ e.status = IF Replaces(d, st, i) THEN st ELSE d.status
      /\ e.winner = IF Replaces(d, st, i) THEN i ELSE d.winner
  BY <1>1 DEF SetStatus, SyncData
<1>3. f = [e EXCEPT !.syncedcount = c, !.wrote = w]
  BY <1>2 DEF Written, SyncData
<1>4. c = d.syncedcount + 1 /\ c \in Nat /\ w = [d.wrote EXCEPT ![i] = st]
  BY <1>1, <1>2
<1>5. w \in [Solvers -> StatusCodes \cup {NONE}]
  BY <1>1, <1>4
<1> HIDE DEF e, c, w
<1>6. /\ f.syncnum = e.syncnum /\ f.syncedcount = c /\ f.wrote = w
      /\ f.status = e.status /\ f.winner = e.winner
  BY <1>2, <1>3 DEF SyncData
<1>7. f \in SyncData
  BY <1>2, <1>3, <1>4, <1>5 DEF SyncData
<1> QED
  BY <1>2, <1>4, <1>6, <1>7

\* What StartSync leaves in the slot.
LEMMA StartWrites ==
    ASSUME TypeOK, NEW j \in Solvers, StartSync(j), NEW s, s = SlotOf(nsyncs[j])
    PROVE  /\ s \in Slots /\ syncdata[s] \in SyncData /\ syncdata'[s] \in SyncData
           /\ syncdata'[s] = IF syncdata[s].syncnum # nsyncs[j] THEN Fresh(nsyncs[j]) ELSE syncdata[s]
           /\ syncdata'[s].syncnum = nsyncs[j]
           /\ \A r \in Slots \ {s} : syncdata'[r] = syncdata[r]
<1>1. s \in Slots /\ nsyncs[j] \in Nat /\ syncdata \in [Slots -> SyncData]
  BY Numbers, SlotType DEF TypeOK
<1>2. Fresh(nsyncs[j]) \in SyncData /\ Fresh(nsyncs[j]).syncnum = nsyncs[j]
  BY <1>1 DEF Fresh, SyncData, StatusCodes, UNKNOWN
<1> QED
  BY <1>1, <1>2 DEF StartSync

\* What FinishSync leaves in the slot.
LEMMA FinishWrites ==
    ASSUME TypeOK, NEW j \in Solvers, FinishSync(j), NEW s, s = SlotOf(nsyncs[j])
    PROVE  /\ s \in Slots /\ syncdata[s] \in SyncData /\ syncdata'[s] \in SyncData
           /\ syncdata'[s].syncnum = syncdata[s].syncnum
           /\ syncdata'[s].syncedcount = syncdata[s].syncedcount + 1
           /\ syncdata'[s].wrote = [syncdata[s].wrote EXCEPT ![j] = status[j]]
           /\ syncdata'[s].status = SetStatus(syncdata[s], status[j], j).status
           /\ syncdata'[s].status = (IF Replaces(syncdata[s], status[j], j) THEN status[j]
                                     ELSE syncdata[s].status)
           /\ syncdata'[s].winner = (IF Replaces(syncdata[s], status[j], j) THEN j
                                     ELSE syncdata[s].winner)
           /\ \A r \in Slots \ {s} : syncdata'[r] = syncdata[r]
<1>1. /\ syncdata \in [Slots -> SyncData] /\ status[j] \in StatusCodes /\ s \in Slots
  BY Numbers, SlotType DEF TypeOK
<1>2. PICK f : f = Written(syncdata[s], status[j], j)
  OBVIOUS
<1>3. syncdata' = [syncdata EXCEPT ![s] = f]
  BY <1>1, <1>2 DEF FinishSync, Written
<1>4. syncdata'[s] = f /\ \A r \in Slots \ {s} : syncdata'[r] = syncdata[r]
  BY <1>1, <1>3
<1>5. SetStatus(syncdata[s], status[j], j).status =
         IF Replaces(syncdata[s], status[j], j) THEN status[j] ELSE syncdata[s].status
  <2>1. syncdata[s] \in SyncData
    BY <1>1
  <2> QED
    BY <2>1 DEF SetStatus, SyncData
<1>6. syncdata[s] \in SyncData
  BY <1>1
<1>7. /\ f \in SyncData
      /\ f.syncnum = syncdata[s].syncnum
      /\ f.syncedcount = syncdata[s].syncedcount + 1
      /\ f.wrote = [syncdata[s].wrote EXCEPT ![j] = status[j]]
      /\ f.status = IF Replaces(syncdata[s], status[j], j) THEN status[j] ELSE syncdata[s].status
      /\ f.winner = IF Replaces(syncdata[s], status[j], j) THEN j ELSE syncdata[s].winner
  BY <1>1, <1>2, <1>6, WrittenSlot
<1> QED
  BY <1>1, <1>4, <1>5, <1>6, <1>7

LEMMA TypeInvInit == Init => TypeInv
<1> SUFFICES ASSUME Init PROVE TypeInv
  OBVIOUS
<1> USE DEF Init
<1>1. Fresh(NONE) \in SyncData
  BY DEF Fresh, SyncData, StatusCodes, UNKNOWN
<1>2. syncdata \in [Slots -> SyncData] /\ lock \in [Slots -> Solvers \cup {NONE}]
  BY <1>1
<1>3. stopped \in BOOLEAN /\ lastsync \in Slots \cup {NONE} /\ cstopped \in [Solvers -> BOOLEAN]
  OBVIOUS
<1>4. pc \in [Solvers -> Points] /\ status \in [Solvers -> StatusCodes]
  BY DEF Points, StatusCodes, UNKNOWN
<1>5. /\ nsyncs \in [Solvers -> Nat] /\ readnum \in [Solvers -> Nat \cup {NONE}]
      /\ csyncdata \in [Solvers -> Slots \cup {NONE}] /\ target \in [Solvers -> Slots \cup {NONE}]
  OBVIOUS
<1>6. \A i \in Solvers : ~InReading(i)
  BY DEF InReading
<1> QED
  BY <1>2, <1>3, <1>4, <1>5, <1>6 DEF TypeInv, TypeOK

\* The number a solver would read next is a number, whatever its slot holds.
LEMMA NextNumType ==
    ASSUME TypeOK, NEW i \in Solvers
    PROVE  NextNum(i) \in Nat
<1>1. CASE csyncdata[i] = NONE
  BY <1>1 DEF NextNum
<1>2. CASE csyncdata[i] # NONE
  <2>1. syncdata[csyncdata[i]] \in SyncData
    BY <1>2 DEF TypeOK
  <2>2. syncdata[csyncdata[i]].syncnum \in Nat \cup {NONE}
    BY <2>1 DEF SyncData
  <2> QED
    BY <1>2, <2>2 DEF NextNum, NONE
<1> QED
  BY <1>1, <1>2

LEMMA TypeInvNext ==
    ASSUME TypeInv, [Next]_vars
    PROVE  TypeInv'
<1> USE DEF TypeInv, InReading, store, Goto
<1>1. CASE Terminated \/ UNCHANGED vars
  BY <1>1 DEF Terminated, vars, solver, TypeOK
<1>2. ASSUME NEW i \in Solvers, SolveStep(i) PROVE TypeInv'
  <2>1. CASE EndSolve(i)
    BY <2>1, SyncStoreAssumption DEF EndSolve, TypeOK, StatusCodes, USERINTERRUPT, UNKNOWN
  <2>2. CASE BeginSync(i) \/ SkipLastSync(i)
    BY <2>2 DEF BeginSync, SkipLastSync, TypeOK, Points
  <2> QED
    BY <1>2, <2>1, <2>2 DEF SolveStep
<1>3. ASSUME NEW i \in Solvers, SyncStep(i) \/ SpuriousWakeup(i) PROVE TypeInv'
  <2>1. CASE StartSync(i)
    <3>1. SlotOf(nsyncs[i]) \in Slots /\ syncdata'[SlotOf(nsyncs[i])] \in SyncData
      BY <2>1, StartWrites
    <3>2. /\ syncdata' = [syncdata EXCEPT ![SlotOf(nsyncs[i])] = syncdata'[SlotOf(nsyncs[i])]]
          /\ lock' = [lock EXCEPT ![SlotOf(nsyncs[i])] = i]
      BY <2>1, <3>1 DEF StartSync, TypeOK
    <3>3. syncdata' \in [Slots -> SyncData] /\ lock' \in [Slots -> Solvers \cup {NONE}]
      BY <3>1, <3>2 DEF TypeOK
    <3> QED
      BY <2>1, <3>3 DEF StartSync, TypeOK, Points
  <2>2. CASE FinishSync(i)
    <3> DEFINE s == SlotOf(nsyncs[i])
    <3>1. s \in Slots /\ syncdata'[s] \in SyncData /\ \A r \in Slots \ {s} : syncdata'[r] = syncdata[r]
      BY <2>2, FinishWrites
    <3>2. syncdata' = [syncdata EXCEPT ![s] = syncdata'[s]]
      BY <2>2, <3>1 DEF FinishSync, TypeOK
    <3>3. syncdata' \in [Slots -> SyncData]
      BY <3>1, <3>2 DEF TypeOK
    <3> HIDE DEF s
    <3>4. cstopped' \in [Solvers -> BOOLEAN] /\ stopped' \in BOOLEAN
      BY <2>2 DEF FinishSync, TypeOK, StopsSolver, StopsStore
    <3>5. lastsync' \in Slots \cup {NONE} /\ lock' \in [Slots -> Solvers \cup {NONE}]
      BY <2>2, <3>1 DEF FinishSync, TypeOK, LastSync, s
    <3>6. nsyncs' \in [Solvers -> Nat] /\ UNCHANGED <<status, csyncdata, target, readnum>>
      BY <2>2 DEF FinishSync, TypeOK
    <3>7. pc' \in [Solvers -> Points] /\ \A k \in Solvers : InReading(k)' => InReading(k)
      BY <2>2 DEF FinishSync, TypeOK, Points
    <3> QED
      BY <3>3, <3>4, <3>5, <3>6, <3>7 DEF TypeOK
  <2>3. CASE LeaveSync(i) \/ EnsureSleep(i) \/ RegisterWait(i) \/ EnsureReturn(i) \/ SpuriousWakeup(i)
    BY <2>3 DEF LeaveSync, EnsureSleep, RegisterWait, EnsureReturn, SpuriousWakeup, TypeOK, Points
  <2>4. CASE GetNextSyncdata(i)
    <3>1. SlotOf(NextNum(i)) \in Slots
      BY NextNumType, SlotType
    <3> QED
      BY <2>4, <3>1 DEF GetNextSyncdata, TypeOK, Points
  <2>5. CASE ReadSyncdata(i)
    <3>1. target[i] \in Slots
      BY <2>5 DEF ReadSyncdata
    <3>2. syncdata[target[i]] \in SyncData
      BY <3>1 DEF TypeOK
    <3>3. syncdata[target[i]].syncnum \in Nat \cup {NONE}
      BY <3>2 DEF SyncData
    <3> QED
      BY <2>5, <3>1, <3>3 DEF ReadSyncdata, TypeOK, Points
  <2> QED
    BY <1>3, <2>1, <2>2, <2>3, <2>4, <2>5 DEF SyncStep
<1> QED
  BY <1>1, <1>2, <1>3 DEF Next

\* All fields keep their types, whatever slots are reused: no solver is ever
\* sent to a slot outside the ring, or to none.
THEOREM StoreTypes == Spec => []TypeOK
<1>1. TypeInv => TypeOK
  BY DEF TypeInv
<1> QED
  BY <1>1, TypeInvInit, TypeInvNext, PTL DEF Spec

-----------------------------------------------------------------------------
(* A ring of any length: the winner.                                       *)

\* Only a solver that starts or ends to write changes a slot, its own.
LEMMA SlotChange ==
    ASSUME TypeOK, Next, NEW s \in Slots, syncdata'[s] # syncdata[s]
    PROVE  \E j \in Solvers : (StartSync(j) \/ FinishSync(j)) /\ s = SlotOf(nsyncs[j])
<1>1. syncdata' # syncdata
  OBVIOUS
<1>2. PICK j \in Solvers : StartSync(j) \/ FinishSync(j)
  BY <1>1 DEF Next, Terminated, vars, store, SolveStep, SyncStep, EndSolve, BeginSync, SkipLastSync,
         LeaveSync, GetNextSyncdata, EnsureSleep, RegisterWait, SpuriousWakeup, EnsureReturn, ReadSyncdata
<1>3. PICK r : r = SlotOf(nsyncs[j])
  OBVIOUS
<1>4. \A t \in Slots \ {r} : syncdata'[t] = syncdata[t]
  <2>1. CASE StartSync(j)
    BY <1>3, <2>1, StartWrites
  <2>2. CASE FinishSync(j)
    BY <1>3, <2>2, FinishWrites
  <2> QED
    BY <1>2, <2>1, <2>2
<1> QED
  BY <1>2, <1>3, <1>4

\* Who writes holds the lock of the slot, which has the writer's number.
WritingHolds ==
    \A i \in Solvers : pc[i] = "write" =>
        lock[SlotOf(nsyncs[i])] = i /\ syncdata[SlotOf(nsyncs[i])].syncnum = nsyncs[i]

\* Who has written to a number has counted on.
WrittenBefore ==
    \A s \in Slots, k \in Solvers :
        syncdata[s].wrote[k] # NONE => syncdata[s].syncnum < nsyncs[k]

\* No status a solver has written to a slot is better than the slot's, and the
\* winner wrote it; this holds after every single write, in whatever order.
BestOf(d) ==
    /\ \A k \in Solvers : ~Better(d.wrote[k], d.status)
    /\ d.status # UNKNOWN => d.winner \in Solvers /\ d.wrote[d.winner] = d.status
    /\ d.status \notin {UNKNOWN, OPTIMAL} =>
          \A k \in Solvers : d.wrote[k] = d.status => d.winner <= k
BestKept == \A s \in Slots : BestOf(syncdata[s])

\* "Better" is a strict order of the statuses, so whoever replaces the status
\* of a slot keeps all the worse ones worse.
LEMMA ReplacingKeepsBest ==
    ASSUME NEW d \in SyncData, BestOf(d), NEW i \in Solvers, d.wrote[i] = NONE,
           NEW st \in StatusCodes, NEW f,
           f.wrote = [d.wrote EXCEPT ![i] = st],
           f.status = (IF Replaces(d, st, i) THEN st ELSE d.status),
           f.winner = (IF Replaces(d, st, i) THEN i ELSE d.winner)
    PROVE  BestOf(f)
<1>1. /\ d.wrote \in [Solvers -> StatusCodes \cup {NONE}] /\ d.status \in StatusCodes
      /\ d.winner \in Nat /\ i \in Nat
  BY SyncStoreAssumption DEF SyncData
<1>3. CASE Replaces(d, st, i)
  <2>1. f.status = st /\ f.winner = i /\ f.wrote[i] = st
    BY <1>1, <1>3
  <2>2. ASSUME NEW k \in Solvers PROVE ~Better(f.wrote[k], st)
    <3>1. CASE k = i
      BY <1>1, <3>1 DEF Better, StatusCodes, OPTIMAL
    <3>2. CASE k # i
      <4>1. f.wrote[k] = d.wrote[k] /\ ~Better(d.wrote[k], d.status)
            /\ d.wrote[k] \in StatusCodes \cup {NONE}
        BY <1>1, <3>2 DEF BestOf
      <4> QED
        BY <1>1, <1>3, <4>1 DEF Replaces, Better, StatusCodes, OPTIMAL, NONE
    <3> QED
      BY <3>1, <3>2
  <2>3. ASSUME st \notin {UNKNOWN, OPTIMAL}, NEW k \in Solvers, f.wrote[k] = st PROVE i <= k
    <3>1. CASE k = i
      BY <1>1, <3>1
    <3>2. CASE k # i
      <4>1. d.wrote[k] = st /\ ~Better(d.wrote[k], d.status) /\ k \in Nat
        BY <1>1, <2>3, <3>2, SyncStoreAssumption DEF BestOf
      <4>2. st = d.status /\ i < d.winner
        BY <1>1, <1>3, <2>3, <4>1 DEF Replaces, Better, StatusCodes, OPTIMAL
      <4>3. d.winner <= k
        BY <2>3, <4>1, <4>2 DEF BestOf
      <4> QED
        BY <1>1, <4>1, <4>2, <4>3
    <3> QED
      BY <3>1, <3>2
  <2> QED
    BY <2>1, <2>2, <2>3, <1>1 DEF BestOf
<1>4. CASE ~Replaces(d, st, i)
  <2>1. f.status = d.status /\ f.winner = d.winner
    BY <1>4
  <2>2. ASSUME NEW k \in Solvers PROVE ~Better(f.wrote[k], d.status)
    <3>1. CASE k = i
      BY <1>1, <1>4, <3>1 DEF Replaces, Better, StatusCodes, OPTIMAL
    <3>2. CASE k # i
      BY <1>1, <3>2 DEF BestOf
    <3> QED
      BY <3>1, <3>2
  <2>3. d.status # UNKNOWN => d.winner # i
    BY <1>1 DEF BestOf, StatusCodes, NONE
  <2>4. ASSUME d.status \notin {UNKNOWN, OPTIMAL}, NEW k \in Solvers, f.wrote[k] = d.status
        PROVE  d.winner <= k
    <3>1. CASE k = i
      <4>1. st = d.status /\ ~(i < d.winner)
        BY <1>1, <1>4, <2>4, <3>1 DEF Replaces, StatusCodes, OPTIMAL
      <4> QED
        BY <1>1, <3>1, <4>1
    <3>2. CASE k # i
      BY <1>1, <2>4, <3>2 DEF BestOf
    <3> QED
      BY <3>1, <3>2
  <2> QED
    BY <1>1, <2>1, <2>2, <2>3, <2>4 DEF BestOf
<1> QED
  BY <1>3, <1>4

BestInv == TypeInv /\ WritingHolds /\ WrittenBefore /\ BestKept

LEMMA BestInvInit == Init => BestInv
BY TypeInvInit DEF Init, BestInv, WritingHolds, WrittenBefore, Fresh, BestKept, BestOf, Better,
                   OPTIMAL, UNKNOWN, NONE

\* The first solver to start a number empties its slot, which nobody writes to.
LEMMA BestInvStart ==
    ASSUME BestInv, NEW i \in Solvers, StartSync(i)
    PROVE  WritingHolds' /\ WrittenBefore' /\ BestKept'
<1> USE DEF BestInv, TypeInv
<1>0. /\ lock \in [Slots -> Solvers \cup {NONE}] /\ pc \in [Solvers -> Points]
      /\ \A k \in Solvers : k # NONE /\ SlotOf(nsyncs[k]) \in Slots
  BY SyncStoreAssumption, Numbers, SlotType DEF TypeOK, NONE
<1>1. PICK s : s = SlotOf(nsyncs[i])
  OBVIOUS
<1>2. /\ s \in Slots
      /\ syncdata'[s] = IF syncdata[s].syncnum # nsyncs[i] THEN Fresh(nsyncs[i]) ELSE syncdata[s]
      /\ syncdata'[s].syncnum = nsyncs[i]
      /\ \A r \in Slots \ {s} : syncdata'[r] = syncdata[r]
  BY <1>1, StartWrites
<1>3. lock[s] = NONE /\ lock' = [lock EXCEPT ![s] = i] /\ nsyncs' = nsyncs
      /\ pc' = [pc EXCEPT ![i] = "write"]
  BY <1>1 DEF StartSync, Goto
<1>4. WritingHolds'
  <2> SUFFICES ASSUME NEW k \in Solvers, pc'[k] = "write"
               PROVE  /\ lock'[SlotOf(nsyncs[k])] = k
                      /\ syncdata'[SlotOf(nsyncs[k])].syncnum = nsyncs[k]
    BY <1>3 DEF WritingHolds, SlotOf
  <2>1. CASE k = i
    BY <1>0, <1>1, <1>2, <1>3, <2>1
  <2>2. CASE k # i
    <3>1. /\ lock[SlotOf(nsyncs[k])] = k /\ syncdata[SlotOf(nsyncs[k])].syncnum = nsyncs[k]
      BY <1>0, <1>3, <2>2 DEF WritingHolds
    <3>2. SlotOf(nsyncs[k]) \in Slots \ {s}
      BY <1>0, <1>3, <3>1
    <3> QED
      BY <1>0, <1>2, <1>3, <3>1, <3>2
  <2> QED
    BY <2>1, <2>2
<1>5. \A r \in Slots : syncdata'[r] = syncdata[r] \/ syncdata'[r] = Fresh(nsyncs[i])
  BY <1>2
<1>6. WrittenBefore'
  BY <1>3, <1>5 DEF WrittenBefore, Fresh
<1>7. BestOf(Fresh(nsyncs[i]))
  BY DEF Fresh, BestOf, Better, OPTIMAL, UNKNOWN, NONE
<1>8. BestKept'
  BY <1>5, <1>7 DEF BestKept, BestOf, Better
<1> QED
  BY <1>4, <1>6, <1>8

\* A solver that ends to write has not written to the number yet.
LEMMA BestInvFinish ==
    ASSUME BestInv, NEW i \in Solvers, FinishSync(i)
    PROVE  WritingHolds' /\ WrittenBefore' /\ BestKept'
<1> USE DEF BestInv, TypeInv
<1>0. /\ lock \in [Slots -> Solvers \cup {NONE}] /\ nsyncs \in [Solvers -> Nat]
      /\ syncdata \in [Slots -> SyncData] /\ status[i] \in StatusCodes
      /\ \A k \in Solvers : SlotOf(nsyncs[k]) \in Slots
  BY Numbers, SlotType DEF TypeOK
<1>1. PICK s : s = SlotOf(nsyncs[i])
  OBVIOUS
<1>2. /\ s \in Slots /\ syncdata[s] \in SyncData
      /\ syncdata'[s].syncnum = syncdata[s].syncnum
      /\ syncdata'[s].wrote = [syncdata[s].wrote EXCEPT ![i] = status[i]]
      /\ syncdata'[s].status = (IF Replaces(syncdata[s], status[i], i) THEN status[i]
                                ELSE syncdata[s].status)
      /\ syncdata'[s].winner = (IF Replaces(syncdata[s], status[i], i) THEN i
                                ELSE syncdata[s].winner)
      /\ \A r \in Slots \ {s} : syncdata'[r] = syncdata[r]
  BY <1>1, FinishWrites
<1>3. /\ lock' = [lock EXCEPT ![s] = NONE] /\ nsyncs' = [nsyncs EXCEPT ![i] = @ + 1]
      /\ \A k \in Solvers : pc'[k] = "write" => pc[k] = "write" /\ k # i
  BY <1>1 DEF FinishSync
<1>4. lock[s] = i /\ syncdata[s].syncnum = nsyncs[i]
  BY <1>1 DEF WritingHolds, FinishSync
<1>5. WritingHolds'
  <2> SUFFICES ASSUME NEW k \in Solvers, pc'[k] = "write"
               PROVE  /\ lock'[SlotOf(nsyncs'[k])] = k
                      /\ syncdata'[SlotOf(nsyncs'[k])].syncnum = nsyncs'[k]
    BY DEF WritingHolds, SlotOf
  <2>1. k # i /\ nsyncs'[k] = nsyncs[k]
    BY <1>0, <1>3
  <2>2. lock[SlotOf(nsyncs[k])] = k /\ syncdata[SlotOf(nsyncs[k])].syncnum = nsyncs[k]
    BY <1>3 DEF WritingHolds
  <2>3. SlotOf(nsyncs[k]) \in Slots \ {s}
    BY <1>0, <1>4, <2>1, <2>2
  <2>4. lock'[SlotOf(nsyncs[k])] = k
    BY <1>0, <1>3, <2>2, <2>3
  <2>5. syncdata'[SlotOf(nsyncs[k])].syncnum = nsyncs[k]
    BY <1>2, <2>2, <2>3
  <2> QED
    BY <2>1, <2>4, <2>5
<1>6. \A k \in Solvers : nsyncs[k] \in Nat /\ nsyncs'[k] = IF k = i THEN nsyncs[k] + 1 ELSE nsyncs[k]
  BY <1>0, <1>3
<1>7. WrittenBefore'
  <2> SUFFICES ASSUME NEW r \in Slots, NEW k \in Solvers, syncdata'[r].wrote[k] # NONE
               PROVE  syncdata'[r].syncnum < nsyncs'[k]
    BY DEF WrittenBefore
  <2>0. syncdata[r].syncnum \in Int
    <3>1. syncdata[r] \in SyncData
      BY <1>0
    <3>2. syncdata[r].syncnum \in Nat \cup {NONE}
      BY <3>1 DEF SyncData
    <3> QED
      BY <3>2 DEF NONE
  <2>1. CASE r = s /\ k = i
    BY <1>2, <1>4, <1>6, <2>1
  <2>2. CASE ~(r = s /\ k = i)
    <3>1. syncdata'[r].wrote[k] = syncdata[r].wrote[k] /\ syncdata'[r].syncnum = syncdata[r].syncnum
      <4>1. CASE r = s
        BY <1>2, <2>2, <4>1 DEF SyncData
      <4>2. CASE r # s
        BY <1>2, <4>2
      <4> QED
        BY <4>1, <4>2
    <3>2. syncdata[r].syncnum < nsyncs[k]
      BY <3>1 DEF WrittenBefore
    <3> QED
      BY <1>6, <2>0, <3>1, <3>2
  <2> QED
    BY <2>1, <2>2
<1>8. syncdata[s].wrote[i] = NONE
  BY <1>2, <1>4, <1>6 DEF WrittenBefore
<1>9. BestOf(syncdata'[s])
  <2>1. BestOf(syncdata[s])
    BY <1>2 DEF BestKept
  <2> QED
    BY <1>0, <1>2, <1>8, <2>1, ReplacingKeepsBest
<1>10. BestKept'
  <2> SUFFICES ASSUME NEW r \in Slots PROVE BestOf(syncdata'[r])
    BY DEF BestKept, BestOf, Better
  <2>1. CASE r = s
    BY <1>9, <2>1
  <2>2. CASE r # s
    BY <1>2, <2>2 DEF BestKept
  <2> QED
    BY <2>1, <2>2
<1> QED
  BY <1>5, <1>7, <1>10

\* All other steps leave the slots, the locks and the counters alone.
LEMMA BestInvNext ==
    ASSUME BestInv, [Next]_vars
    PROVE  BestInv'
<1>1. CASE \E i \in Solvers : StartSync(i) \/ FinishSync(i)
  BY <1>1, BestInvStart, BestInvFinish, TypeInvNext DEF BestInv
<1>2. CASE ~ \E i \in Solvers : StartSync(i) \/ FinishSync(i)
  <2>1. UNCHANGED <<syncdata, lock, nsyncs>>
    BY <1>2 DEF Next, Terminated, vars, store, solver, SolveStep, SyncStep, EndSolve, BeginSync,
         SkipLastSync, LeaveSync, GetNextSyncdata, EnsureSleep, RegisterWait, SpuriousWakeup,
         EnsureReturn, ReadSyncdata
  <2>2. \A k \in Solvers : pc'[k] = "write" => pc[k] = "write"
    BY <1>2 DEF Next, Terminated, vars, solver, SolveStep, SyncStep, EndSolve, BeginSync,
         SkipLastSync, LeaveSync, GetNextSyncdata, EnsureSleep, RegisterWait, SpuriousWakeup,
         EnsureReturn, ReadSyncdata, Goto, BestInv, TypeInv, TypeOK
  <2>3. WritingHolds'
    BY <2>1, <2>2 DEF BestInv, WritingHolds, SlotOf
  <2>4. WrittenBefore' /\ BestKept'
    BY <2>1 DEF BestInv, WrittenBefore, BestKept, BestOf, Better
  <2> QED
    BY <2>3, <2>4, TypeInvNext DEF BestInv
<1> QED
  BY <1>1, <1>2

\* A complete number shows the best status any solver has written to it,
\* whatever the order of the writes, and names a solver that wrote it: what the
\* result of the whole solve is taken from, in a ring of any length.
THEOREM BestSolverWins == Spec => []WinnerIsBest
<1>1. BestInv => WinnerIsBest
  BY DEF BestInv, BestKept, BestOf, WinnerIsBest
<1> QED
  BY <1>1, BestInvInit, BestInvNext, PTL DEF Spec

-----------------------------------------------------------------------------
(* The length of the ring.                                                 *)

\* The ring is as long as the code's, or longer.
CodeRing == NSyncdata >= CodeNSyncdata
LongRing == NSyncdata > CodeNSyncdata

\* Solver k has started, or finished, to write number q.
Started(k, q) == q < nsyncs[k] \/ (q = nsyncs[k] /\ pc[k] = "write")

\* A number is in the slot it belongs to because somebody has started it.
SlotNumbers ==
    \A s \in Slots : syncdata[s].syncnum # NONE =>
        /\ SlotOf(syncdata[s].syncnum) = s
        /\ \E k \in Solvers : Started(k, syncdata[s].syncnum)

\* A started number that some solver has not read beyond is still in its slot.
NumbersKept ==
    \A i, k \in Solvers : \A q \in 0..nsyncs[k] :
        (Started(k, q) /\ readnum[i] <= q) => syncdata[SlotOf(q)].syncnum = q

\* A slot knows who has finished to write its number, and counts them.
WritersKnown ==
    \A s \in Slots : syncdata[s].syncnum # NONE =>
        \A k \in Solvers : syncdata[s].wrote[k] # NONE <=> syncdata[s].syncnum < nsyncs[k]
Writers(d) == {k \in Solvers : d.wrote[k] # NONE}
WritersCounted == \A s \in Slots : syncdata[s].syncedcount = Cardinality(Writers(syncdata[s]))

\* What one solver has read all solvers have written.
ReadWritten == \A i, k \in Solvers : readnum[i] < nsyncs[k]

\* The pointers of a solver lead to the number it read last and the one it is
\* about to read; it reads what all have written.
PointersRight ==
    \A i \in Solvers :
        /\ csyncdata[i] = IF readnum[i] = NONE THEN NONE ELSE SlotOf(readnum[i])
        /\ InReading(i) => target[i] = SlotOf(readnum[i] + 1) /\ readnum[i] + 1 < nsyncs[i]
        /\ pc[i] = "read" => \A k \in Solvers : readnum[i] + 1 < nsyncs[k]

\* No solver lags behind its own writing by more than the delay allows, except
\* that one that has read the end of the solve need not read on.
Delays ==
    \A i \in Solvers :
        /\ nsyncs[i] <= readnum[i] + MaxDelay + 2
        /\ pc[i] \in {"start", "write"} => nsyncs[i] <= readnum[i] + MaxDelay + 1
        /\ pc[i] = "solving" => nsyncs[i] <= readnum[i] + MaxDelay + 1 \/ stopped

\* A complete number that ends the solve has stopped the store.
FinalStops == \A s \in Slots :
    (syncdata[s].syncedcount = NSolvers /\ syncdata[s].status # UNKNOWN) => stopped

Inv == /\ TypeOK /\ SlotNumbers /\ NumbersKept /\ WritersKnown /\ WritersCounted
       /\ ReadWritten /\ PointersRight /\ Delays /\ FinalStops

-----------------------------------------------------------------------------
(* Distances in the ring.                                                  *)

LEMMA CodeNSyncdataIs == CodeNSyncdata = 2 * MaxDelay + 2 /\ CodeNSyncdata \in Nat
BY SyncStoreAssumption DEF CodeNSyncdata

\* The number a solver is about to start, and one that another solver has not
\* read beyond.
LEMMA Distance ==
    ASSUME Inv, NEW i \in Solvers, NEW j \in Solvers, NEW k \in Solvers,
           NEW q \in Nat, Started(k, q), readnum[i] <= q, pc[j] = "start"
    PROVE  /\ q - nsyncs[j] <= MaxDelay
           /\ nsyncs[j] - q <= 2 * MaxDelay + 2
           /\ nsyncs[j] - q = 2 * MaxDelay + 2 => q = readnum[i]
<1> USE DEF Inv
<1>1. /\ nsyncs[i] \in Nat /\ nsyncs[j] \in Nat /\ nsyncs[k] \in Nat /\ MaxDelay \in Nat
      /\ readnum[i] \in Int /\ readnum[j] \in Int /\ readnum[k] \in Int
  BY Numbers
<1>2. q <= readnum[k] + MaxDelay + 1
  BY <1>1 DEF Started, Delays
<1>3. readnum[k] < nsyncs[j] /\ readnum[j] < nsyncs[i]
  BY DEF ReadWritten
<1>4. nsyncs[j] <= readnum[j] + MaxDelay + 1 /\ nsyncs[i] <= readnum[i] + MaxDelay + 2
  BY DEF Delays
<1> QED
  BY <1>1, <1>2, <1>3, <1>4

\* While a solver starts a number, every number of the same slot that was
\* started and not read beyond by all is that very number; in the code's ring
\* it could also be the number somebody read last, which is kept.
LEMMA SlotIsFree ==
    ASSUME CodeRing, Inv, LastReadKept', NEW i \in Solvers, NEW j \in Solvers, NEW k \in Solvers,
           NEW q \in Nat, Started(k, q), readnum[i] <= q,
           StartSync(j), SlotOf(q) = SlotOf(nsyncs[j])
    PROVE  q = nsyncs[j]
<1>1. /\ q - nsyncs[j] <= MaxDelay
      /\ nsyncs[j] - q <= 2 * MaxDelay + 2
      /\ nsyncs[j] - q = 2 * MaxDelay + 2 => q = readnum[i]
  BY Distance DEF StartSync
<1>2. nsyncs[j] \in Nat /\ MaxDelay \in Nat /\ NSyncdata \in Nat /\ NSyncdata >= 2 * MaxDelay + 2
  BY Numbers, CodeNSyncdataIs, SyncStoreAssumption DEF Inv, CodeRing
<1>3. CASE nsyncs[j] - q < NSyncdata
  BY <1>1, <1>2, <1>3, SameSlot
<1>4. CASE ~(nsyncs[j] - q < NSyncdata)
  <2>1. q = readnum[i]
    BY <1>1, <1>2, <1>4
  <2>2. csyncdata[i] = SlotOf(q) /\ csyncdata[i] # NONE /\ UNCHANGED <<csyncdata, readnum>>
    BY <2>1, SlotType DEF Inv, PointersRight, Slots, NONE, StartSync
  <2>3. syncdata'[SlotOf(q)].syncnum = q
    BY <2>1, <2>2 DEF LastReadKept
  <2>4. syncdata'[SlotOf(nsyncs[j])].syncnum = nsyncs[j]
    BY StartWrites DEF Inv
  <2> QED
    BY <2>3, <2>4
<1> QED
  BY <1>3, <1>4

-----------------------------------------------------------------------------
(* Preservation.                                                           *)

\* The parts of the invariant that are about numbers and slots.
RingInv == /\ SlotNumbers /\ NumbersKept /\ WritersKnown /\ WritersCounted
           /\ ReadWritten /\ FinalStops

\* A step that touches neither the slots nor the numbers, and in which nobody
\* begins or ends to write, keeps them right.
LEMMA QuietStep ==
    ASSUME Inv, UNCHANGED <<syncdata, stopped, nsyncs, readnum>>,
           \A k \in Solvers : pc'[k] = "write" <=> pc[k] = "write"
    PROVE  RingInv'
<1> USE DEF Inv
<1>1. \A k \in Solvers : \A q : Started(k, q)' <=> Started(k, q)
  BY DEF Started
<1>2. SlotNumbers'
  BY <1>1 DEF SlotNumbers
<1>3. NumbersKept'
  BY <1>1 DEF NumbersKept
<1>4. WritersKnown' /\ WritersCounted' /\ ReadWritten' /\ FinalStops'
  BY DEF WritersKnown, WritersCounted, Writers, ReadWritten, FinalStops
<1> QED
  BY <1>2, <1>3, <1>4 DEF RingInv

\* The number a solver would read next is the one behind the number it read.
LEMMA NextNumIs ==
    ASSUME Inv, NEW i \in Solvers
    PROVE  NextNum(i) = readnum[i] + 1
<1> USE DEF Inv
<1>1. CASE csyncdata[i] = NONE
  <2>1. readnum[i] = NONE
    BY <1>1, Numbers, SlotType DEF PointersRight, Slots, NONE
  <2> QED
    BY <1>1, <2>1 DEF NextNum, NONE
<1>2. CASE csyncdata[i] # NONE
  <2>1. readnum[i] # NONE /\ csyncdata[i] = SlotOf(readnum[i])
    BY <1>2 DEF PointersRight
  <2>2. readnum[i] \in 0..nsyncs[i] /\ Started(i, readnum[i]) /\ readnum[i] <= readnum[i]
    BY <2>1, Numbers DEF Started, ReadWritten, NONE
  <2>3. syncdata[SlotOf(readnum[i])].syncnum = readnum[i]
    BY <2>2 DEF NumbersKept
  <2> QED
    BY <1>2, <2>1, <2>3 DEF NextNum
<1> QED
  BY <1>1, <1>2

\* The solve goes on, ends or is interrupted: nothing but the status changes.
LEMMA EndSolveInv ==
    ASSUME Inv, TypeOK', NEW i \in Solvers, EndSolve(i)
    PROVE  Inv'
<1> USE DEF Inv, EndSolve, store
<1>1. RingInv'
  BY QuietStep
<1>3. PointersRight' /\ Delays'
  BY DEF PointersRight, InReading, Delays
<1> QED
  BY <1>1, <1>3 DEF RingInv

\* A solver that is not stopped begins a synchronization within the delay.
LEMMA BeginSyncInv ==
    ASSUME Inv, TypeOK', NEW i \in Solvers, BeginSync(i)
    PROVE  Inv'
<1> USE DEF Inv, BeginSync, store, Goto
<1>0. pc \in [Solvers -> Points]
  BY DEF TypeOK
<1>1. RingInv'
  BY <1>0, QuietStep
<1>3. PointersRight'
  BY <1>0 DEF PointersRight, InReading
<1>4. Delays'
  BY <1>0 DEF Delays
<1> QED
  BY <1>1, <1>3, <1>4 DEF RingInv

\* A solver that is stopped ends its job without another synchronization.
LEMMA SkipLastSyncInv ==
    ASSUME Inv, TypeOK', NEW i \in Solvers, SkipLastSync(i)
    PROVE  Inv'
<1> USE DEF Inv, SkipLastSync, store, Goto
<1>0. pc \in [Solvers -> Points]
  BY DEF TypeOK
<1>1. RingInv'
  BY <1>0, QuietStep
<1>3. PointersRight' /\ Delays'
  BY <1>0 DEF PointersRight, InReading, Delays
<1> QED
  BY <1>1, <1>3 DEF RingInv

\* A solver that puts reading off is within the delay; one that has read the
\* end of the solve leaves a store that is stopped.
LEMMA LeaveSyncInv ==
    ASSUME Inv, TypeOK', NEW i \in Solvers, LeaveSync(i)
    PROVE  Inv'
<1> USE DEF Inv, LeaveSync, store, Goto
<1>0. pc \in [Solvers -> Points]
  BY DEF TypeOK
<1>1. RingInv'
  BY <1>0, QuietStep
<1>3. PointersRight'
  BY <1>0 DEF PointersRight, InReading
<1>4. nsyncs[i] <= readnum[i] + MaxDelay + 1 \/ stopped
  <2>1. CASE MayPutOff(i)
    BY <2>1, NextNumIs, Numbers DEF MayPutOff
  <2>2. CASE NextNum(i) = nsyncs[i]
    BY <2>2, NextNumIs, Numbers
  <2>3. CASE csyncdata[i] # NONE /\ syncdata[csyncdata[i]].status # UNKNOWN
    <3> DEFINE s == csyncdata[i]
    <3>1. s = SlotOf(readnum[i]) /\ s \in Slots /\ readnum[i] # NONE
      BY <2>3, Numbers, SlotType DEF PointersRight
    <3>2. readnum[i] \in 0..nsyncs[i] /\ Started(i, readnum[i]) /\ readnum[i] <= readnum[i]
      BY <3>1, Numbers DEF Started, ReadWritten, NONE
    <3>3. syncdata[s].syncnum = readnum[i]
      BY <3>1, <3>2 DEF NumbersKept
    <3>4. \A k \in Solvers : syncdata[s].wrote[k] # NONE
      BY <3>1, <3>3 DEF WritersKnown, ReadWritten
    <3>5. Writers(syncdata[s]) = Solvers
      BY <3>4 DEF Writers
    <3>6. syncdata[s].syncedcount = NSolvers
      BY <3>1, <3>5 DEF WritersCounted, NSolvers
    <3> QED
      BY <2>3, <3>1, <3>6 DEF FinalStops
  <2> QED
    BY <2>1, <2>2, <2>3 DEF NothingToRead
<1>5. Delays'
  BY <1>0, <1>4 DEF Delays
<1> QED
  BY <1>1, <1>3, <1>5 DEF RingInv

\* A solver takes up the number behind the one it read, which it has written.
LEMMA GetNextSyncdataInv ==
    ASSUME Inv, TypeOK', NEW i \in Solvers, GetNextSyncdata(i)
    PROVE  Inv'
<1> USE DEF Inv, GetNextSyncdata, store, Goto
<1>0. pc \in [Solvers -> Points] /\ target \in [Solvers -> Slots \cup {NONE}]
  BY DEF TypeOK
<1>1. RingInv'
  BY <1>0, QuietStep
<1>2. NextNum(i) = readnum[i] + 1 /\ readnum[i] + 1 < nsyncs[i]
  BY NextNumIs, Numbers DEF NothingToRead, ReadWritten
<1>4. PointersRight'
  BY <1>0, <1>2 DEF PointersRight, InReading
<1>5. Delays'
  BY <1>0 DEF Delays
<1> QED
  BY <1>1, <1>4, <1>5 DEF RingInv

\* Going to sleep and waking up.
LEMMA WaitInv ==
    ASSUME Inv, TypeOK', NEW i \in Solvers, EnsureSleep(i) \/ RegisterWait(i) \/ SpuriousWakeup(i)
    PROVE  Inv'
<1> USE DEF Inv, EnsureSleep, RegisterWait, SpuriousWakeup, store, Goto
<1>0. pc \in [Solvers -> Points]
  BY DEF TypeOK
<1>1. RingInv'
  BY <1>0, QuietStep
<1>3. PointersRight'
  BY <1>0 DEF PointersRight, InReading
<1>4. Delays'
  BY <1>0 DEF Delays
<1> QED
  BY <1>1, <1>3, <1>4 DEF RingInv

\* A slot that all solvers have written, by its count, all have written.
LEMMA AllSyncedMeans ==
    ASSUME Inv, NEW s \in Slots, AllSynced(s)
    PROVE  \A k \in Solvers : syncdata[s].wrote[k] # NONE
<1> USE DEF Inv
<1>1. Writers(syncdata[s]) \subseteq Solvers
  BY DEF Writers
<1>2. Cardinality(Writers(syncdata[s])) >= Cardinality(Solvers)
  BY DEF AllSynced, WritersCounted, NSolvers
<1>3. /\ IsFiniteSet(Writers(syncdata[s]))
      /\ Cardinality(Writers(syncdata[s])) <= Cardinality(Solvers)
      /\ Cardinality(Writers(syncdata[s])) = Cardinality(Solvers) =>
            Writers(syncdata[s]) = Solvers
  BY <1>1, SyncStoreAssumption, FS_Subset
<1>4. Cardinality(Writers(syncdata[s])) \in Nat /\ Cardinality(Solvers) \in Nat
  BY <1>3, SyncStoreAssumption, FS_CardinalityType
<1>5. Writers(syncdata[s]) = Solvers
  BY <1>2, <1>3, <1>4
<1> QED
  BY <1>5 DEF Writers

\* A solver goes on to read what all have written.
LEMMA EnsureReturnInv ==
    ASSUME Inv, TypeOK', NEW i \in Solvers, EnsureReturn(i)
    PROVE  Inv'
<1> USE DEF Inv, EnsureReturn, store, Goto
<1>0. pc \in [Solvers -> Points]
  BY DEF TypeOK
<1>1. RingInv'
  BY <1>0, QuietStep
<1>3. target[i] = SlotOf(readnum[i] + 1) /\ readnum[i] + 1 < nsyncs[i]
  BY DEF PointersRight, InReading
<1>4. syncdata[target[i]].syncnum = readnum[i] + 1 /\ target[i] \in Slots
  <2>1. readnum[i] + 1 \in 0..nsyncs[i] /\ Started(i, readnum[i] + 1) /\ readnum[i] <= readnum[i] + 1
    BY <1>3, Numbers DEF Started
  <2> QED
    BY <1>3, <2>1, SlotType DEF NumbersKept
<1>5. \A k \in Solvers : readnum[i] + 1 < nsyncs[k]
  <2>1. readnum[i] + 1 # NONE
    BY Numbers DEF NONE
  <2> QED
    BY <1>4, <2>1, AllSyncedMeans DEF WritersKnown
<1>6. PointersRight'
  BY <1>0, <1>3, <1>5 DEF PointersRight, InReading
<1>7. Delays'
  BY <1>0 DEF Delays
<1> QED
  BY <1>1, <1>6, <1>7 DEF RingInv

\* What a solver reads is the number behind the one it read before.
LEMMA ReadNumberIs ==
    ASSUME Inv, NEW i \in Solvers, InReading(i)
    PROVE  /\ target[i] \in Slots
           /\ syncdata[target[i]].syncnum = readnum[i] + 1
<1> USE DEF Inv
<1>1. target[i] = SlotOf(readnum[i] + 1) /\ readnum[i] + 1 < nsyncs[i]
  BY DEF PointersRight
<1>2. readnum[i] + 1 \in 0..nsyncs[i] /\ Started(i, readnum[i] + 1) /\ readnum[i] <= readnum[i] + 1
  BY <1>1, Numbers DEF Started
<1> QED
  BY <1>1, <1>2, SlotType, Numbers DEF NumbersKept

\* A solver has read what all have written, and one number more.
LEMMA ReadSyncdataInv ==
    ASSUME Inv, TypeOK', NEW i \in Solvers, ReadSyncdata(i)
    PROVE  Inv'
<1> USE DEF Inv, ReadSyncdata, store, Goto
<1>0. /\ pc \in [Solvers -> Points] /\ readnum \in [Solvers -> Nat \cup {NONE}]
      /\ csyncdata \in [Solvers -> Slots \cup {NONE}] /\ target \in [Solvers -> Slots \cup {NONE}]
  BY DEF TypeOK
<1>1. /\ target[i] \in Slots /\ target[i] = SlotOf(readnum[i] + 1)
      /\ syncdata[target[i]].syncnum = readnum[i] + 1
      /\ \A k \in Solvers : readnum[i] + 1 < nsyncs[k]
  BY ReadNumberIs DEF InReading, PointersRight
<1>2. readnum' = [readnum EXCEPT ![i] = readnum[i] + 1] /\ readnum[i] + 1 \in Nat
  BY <1>1, Numbers
<1>3. \A k \in Solvers : \A q : Started(k, q)' <=> Started(k, q)
  BY <1>0 DEF Started
<1>4. SlotNumbers'
  BY <1>3 DEF SlotNumbers
<1>5. NumbersKept'
  <2> SUFFICES ASSUME NEW a \in Solvers, NEW k \in Solvers, NEW q \in 0..nsyncs[k],
                      Started(k, q), readnum'[a] <= q
               PROVE  syncdata[SlotOf(q)].syncnum = q
    BY <1>3 DEF NumbersKept
  <2>1. readnum[a] <= q
    BY <1>0, <1>2, Numbers
  <2> QED
    BY <2>1 DEF NumbersKept
<1>6. WritersKnown' /\ WritersCounted' /\ FinalStops'
  BY DEF WritersKnown, WritersCounted, Writers, FinalStops
<1>7. ReadWritten'
  BY <1>0, <1>1, <1>2 DEF ReadWritten
<1>9. PointersRight'
  BY <1>0, <1>1, <1>2 DEF PointersRight, InReading, NONE
<1>10. Delays'
  <2> SUFFICES ASSUME NEW k \in Solvers
               PROVE  /\ nsyncs[k] <= readnum'[k] + MaxDelay + 2
                      /\ pc'[k] \in {"start", "write"} => nsyncs[k] <= readnum'[k] + MaxDelay + 1
                      /\ pc'[k] = "solving" => nsyncs[k] <= readnum'[k] + MaxDelay + 1 \/ stopped
    BY DEF Delays
  <2>1. CASE k = i
    BY <1>0, <1>2, <2>1, Numbers DEF Delays
  <2>2. CASE k # i
    BY <1>0, <1>2, <2>2 DEF Delays
  <2> QED
    BY <2>1, <2>2
<1> QED
  BY <1>4, <1>5, <1>6, <1>7, <1>9, <1>10

\* The first solver to start a number finds a slot nobody needs any more, the
\* others find the number there.
LEMMA StartSyncInv ==
    ASSUME CodeRing, Inv, LastReadKept', TypeOK', NEW i \in Solvers, StartSync(i)
    PROVE  Inv'
<1> DEFINE m == nsyncs[i]
           s == SlotOf(m)
<1> USE DEF Inv, StartSync, Goto
<1>0. /\ pc \in [Solvers -> Points] /\ syncdata \in [Slots -> SyncData]
      /\ m \in Nat /\ s \in Slots /\ pc[i] = "start"
  BY Numbers, SlotType DEF TypeOK
<1>1. ASSUME syncdata[s].syncnum # m, NEW k \in Solvers
      PROVE  ~Started(k, m) /\ nsyncs[k] <= m
  <2>1. m \in 0..nsyncs[k] /\ readnum[i] <= m => ~Started(k, m)
    BY <1>1 DEF NumbersKept
  <2>2. readnum[i] <= m
    BY Numbers DEF ReadWritten
  <2> QED
    BY <2>1, <2>2, <1>0, Numbers DEF Started
<1>2. /\ syncdata'[s] = IF syncdata[s].syncnum # m THEN Fresh(m) ELSE syncdata[s]
      /\ \A t \in Slots : t # s => syncdata'[t] = syncdata[t]
      /\ syncdata'[s].syncnum = m
  BY <1>0 DEF Fresh
<1>3. \A k \in Solvers : \A q : Started(k, q)' <=> (Started(k, q) \/ (k = i /\ q = m))
  BY <1>0 DEF Started
<1> HIDE DEF m, s
<1>5. SlotNumbers'
  BY <1>0, <1>2, <1>3 DEF SlotNumbers, s
<1>6. NumbersKept'
  <2> SUFFICES ASSUME NEW a \in Solvers, NEW k \in Solvers, NEW q \in 0..nsyncs[k],
                      Started(k, q)', readnum[a] <= q
               PROVE  syncdata'[SlotOf(q)].syncnum = q
    BY DEF NumbersKept
  <2>0. q \in Nat /\ SlotOf(q) \in Slots
    BY Numbers, SlotType
  <2>1. CASE q = m
    BY <1>2, <2>1 DEF s
  <2>2. CASE q # m
    <3>1. Started(k, q)
      BY <1>3, <2>2
    <3>2. SlotOf(q) # s
      BY <2>0, <2>2, <3>1, SlotIsFree DEF m, s
    <3> QED
      BY <1>2, <2>0, <3>1, <3>2 DEF NumbersKept
  <2> QED
    BY <2>1, <2>2
<1>7. WritersKnown'
  <2> SUFFICES ASSUME NEW t \in Slots, syncdata'[t].syncnum # NONE, NEW k \in Solvers
               PROVE  syncdata'[t].wrote[k] # NONE <=> syncdata'[t].syncnum < nsyncs[k]
    BY DEF WritersKnown
  <2>1. CASE t = s /\ syncdata[s].syncnum # m
    <3>1. syncdata'[t].wrote[k] = NONE /\ syncdata'[t].syncnum = m
      BY <1>2, <2>1 DEF Fresh
    <3> QED
      BY <1>0, <1>1, <2>1, <3>1, Numbers
  <2>2. CASE ~(t = s /\ syncdata[s].syncnum # m)
    BY <1>2, <2>2 DEF WritersKnown
  <2> QED
    BY <2>1, <2>2
<1>8. WritersCounted'
  <2> SUFFICES ASSUME NEW t \in Slots
               PROVE  syncdata'[t].syncedcount = Cardinality(Writers(syncdata'[t]))
    BY DEF WritersCounted, Writers
  <2>1. CASE t = s /\ syncdata[s].syncnum # m
    <3>1. Writers(syncdata'[t]) = {} /\ syncdata'[t].syncedcount = 0
      BY <1>2, <2>1 DEF Fresh, Writers
    <3> QED
      BY <3>1, FS_EmptySet
  <2>2. CASE ~(t = s /\ syncdata[s].syncnum # m)
    BY <1>2, <2>2 DEF WritersCounted
  <2> QED
    BY <2>1, <2>2
<1>9. ReadWritten'
  BY DEF ReadWritten
<1>10. PointersRight' /\ Delays'
  BY <1>0 DEF PointersRight, InReading, Delays
<1>11. FinalStops'
  BY <1>2 DEF FinalStops, Fresh
<1> QED
  BY <1>5, <1>6, <1>7, <1>8, <1>9, <1>10, <1>11

\* A solver ends to write: it is one more of the writers of the number in its
\* slot, and if it is the last and the number ends the solve, the store stops.
LEMMA FinishSyncInv ==
    ASSUME Inv, TypeOK', NEW i \in Solvers, FinishSync(i)
    PROVE  Inv'
<1> DEFINE m == nsyncs[i]
           s == SlotOf(m)
           d == SetStatus(syncdata[s], status[i], i)
           all == d.syncedcount + 1 = NSolvers
<1> USE DEF Inv
<1>0. /\ pc \in [Solvers -> Points] /\ syncdata \in [Slots -> SyncData] /\ pc[i] = "write"
      /\ nsyncs \in [Solvers -> Nat] /\ m \in Nat /\ s \in Slots /\ i \in Nat
      /\ status[i] \in StatusCodes
  BY Numbers, SlotType, SyncStoreAssumption DEF TypeOK, FinishSync
<1>1. /\ syncdata' = [syncdata EXCEPT ![s] =
                          [d EXCEPT !.syncedcount = @ + 1, !.wrote[i] = status[i]]]
      /\ cstopped' = [cstopped EXCEPT ![i] = @ \/ StopsSolver(d, i)]
      /\ stopped' = (stopped \/ StopsStore(d, all))
      /\ lastsync' = LastSync(s, all)
      /\ lock' = [lock EXCEPT ![s] = NONE]
      /\ nsyncs' = [nsyncs EXCEPT ![i] = @ + 1]
      /\ pc' = [k \in Solvers |->
                  IF k = i THEN "next"
                  ELSE IF all /\ pc[k] = "asleep" /\ target[k] = s THEN "ensure" ELSE pc[k]]
      /\ UNCHANGED <<status, csyncdata, target, readnum>>
  BY DEF FinishSync
<1>2. syncdata[s].syncnum = m
  <2>1. m \in 0..nsyncs[i] /\ Started(i, m) /\ readnum[i] <= m
    BY <1>0, Numbers DEF Started, ReadWritten
  <2> QED
    BY <2>1 DEF NumbersKept
<1>3. /\ d \in SyncData /\ d.syncnum = m
      /\ d.syncedcount = syncdata[s].syncedcount /\ d.wrote = syncdata[s].wrote
  <2>1. syncdata[s] \in SyncData
    BY <1>0
  <2> QED
    BY <1>0, <1>2, <2>1 DEF SyncData, SetStatus
<1> HIDE DEF m, d, all
<1>4. /\ syncdata'[s] = [d EXCEPT !.syncedcount = @ + 1, !.wrote[i] = status[i]]
      /\ syncdata'[s].syncnum = m
      /\ syncdata'[s].status = d.status
      /\ syncdata'[s].syncedcount = syncdata[s].syncedcount + 1
      /\ syncdata'[s].wrote = [syncdata[s].wrote EXCEPT ![i] = status[i]]
      /\ syncdata[s].wrote \in [Solvers -> StatusCodes \cup {NONE}]
      /\ \A t \in Slots : t # s => syncdata'[t] = syncdata[t]
  BY <1>0, <1>1, <1>3 DEF SyncData
<1>5. \A k \in Solvers : nsyncs'[k] = IF k = i THEN m + 1 ELSE nsyncs[k]
  BY <1>0, <1>1 DEF m
<1> HIDE DEF s
<1>6. \A k \in Solvers : pc'[k] = "write" <=> pc[k] = "write" /\ k # i
  BY <1>0, <1>1
<1>7. \A k \in Solvers : \A q \in Int : Started(k, q)' <=> Started(k, q)
  <2> SUFFICES ASSUME NEW k \in Solvers, NEW q \in Int PROVE Started(k, q)' <=> Started(k, q)
    OBVIOUS
  <2>1. CASE k = i
    <3>1. Started(i, q)' <=> q < m + 1
      BY <1>5, <1>6 DEF Started
    <3>2. Started(i, q) <=> q < m \/ q = m
      BY <1>0 DEF Started, m
    <3> QED
      BY <1>0, <2>1, <3>1, <3>2
  <2>2. CASE k # i
    BY <1>5, <1>6, <2>2 DEF Started
  <2> QED
    BY <2>1, <2>2
<1>7a. \A t \in Slots : syncdata'[t].syncnum = syncdata[t].syncnum /\ syncdata[t].syncnum \in Int
  <2> SUFFICES ASSUME NEW t \in Slots
               PROVE  syncdata'[t].syncnum = syncdata[t].syncnum /\ syncdata[t].syncnum \in Int
    OBVIOUS
  <2>1. syncdata[t] \in SyncData
    BY <1>0
  <2>2. syncdata[t].syncnum \in Nat \cup {NONE}
    BY <2>1 DEF SyncData
  <2>3. syncdata[t].syncnum \in Int
    BY <2>2 DEF NONE
  <2>4. syncdata'[t].syncnum = syncdata[t].syncnum
    BY <1>2, <1>4
  <2> QED
    BY <2>3, <2>4
<1>9. SlotNumbers'
  <2> SUFFICES ASSUME NEW t \in Slots, syncdata'[t].syncnum # NONE
               PROVE  /\ SlotOf(syncdata'[t].syncnum) = t
                      /\ \E k \in Solvers : Started(k, syncdata[t].syncnum)'
    BY <1>2, <1>4 DEF SlotNumbers, Started
  <2>1. syncdata'[t].syncnum = syncdata[t].syncnum /\ syncdata[t].syncnum \in Int
    BY <1>7a
  <2>2. PICK k \in Solvers : Started(k, syncdata[t].syncnum)
    BY <2>1 DEF SlotNumbers
  <2>3. Started(k, syncdata[t].syncnum)'
    <3>1. \A q \in Int : Started(k, q) => Started(k, q)'
      BY <1>7
    <3> QED
      BY <2>1, <2>2, <3>1 DEF Started
  <2> QED
    BY <2>1, <2>3 DEF SlotNumbers
<1>10. NumbersKept'
  <2> SUFFICES ASSUME NEW a \in Solvers, NEW k \in Solvers, NEW q \in 0..nsyncs'[k],
                      Started(k, q)', readnum[a] <= q
               PROVE  syncdata'[SlotOf(q)].syncnum = q
    BY <1>1 DEF NumbersKept
  <2>0. nsyncs[k] \in Nat /\ nsyncs'[k] \in Nat /\ q \in Nat /\ SlotOf(q) \in Slots
    BY <1>0, <1>5, Numbers, SlotType
  <2>1. Started(k, q) /\ q \in 0..nsyncs[k]
    BY <1>7, <2>0 DEF Started
  <2>2. syncdata[SlotOf(q)].syncnum = q
    BY <2>1 DEF NumbersKept
  <2> QED
    BY <1>2, <1>4, <2>0, <2>2
<1>11. WritersKnown'
  <2> SUFFICES ASSUME NEW t \in Slots, syncdata'[t].syncnum # NONE, NEW k \in Solvers
               PROVE  syncdata'[t].wrote[k] # NONE <=> syncdata'[t].syncnum < nsyncs'[k]
    BY DEF WritersKnown
  <2>1. syncdata'[t].syncnum = syncdata[t].syncnum /\ syncdata[t].syncnum \in Int
    BY <1>7a
  <2>2. syncdata[t].wrote[k] # NONE <=> syncdata[t].syncnum < nsyncs[k]
    BY <2>1 DEF WritersKnown
  <2>3. CASE k # i
    BY <1>4, <1>5, <2>1, <2>2, <2>3, ZenonT(60)
  <2>4. CASE k = i /\ t = s
    <3>1. syncdata'[s].wrote[i] = status[i]
      BY <1>4
    <3>2. status[i] # NONE
      BY <1>0 DEF StatusCodes, NONE
    <3>3. syncdata'[t].syncnum = m /\ nsyncs'[k] = m + 1 /\ syncdata'[t].wrote[k] = status[i]
      BY <1>4, <1>5, <2>4, <3>1
    <3> QED
      BY <1>0, <3>2, <3>3
  <2>5. CASE k = i /\ t # s
    <3>1. syncdata[t].syncnum # m
      BY <2>1, <2>5 DEF SlotNumbers, s
    <3> QED
      BY <1>0, <1>4, <1>5, <2>1, <2>2, <2>5, <3>1 DEF m
  <2> QED
    BY <2>3, <2>4, <2>5
<1>12. WritersCounted'
  <2> SUFFICES ASSUME NEW t \in Slots
               PROVE  syncdata'[t].syncedcount = Cardinality(Writers(syncdata'[t]))
    BY DEF WritersCounted, Writers
  <2>1. CASE t # s
    BY <1>4, <2>1 DEF WritersCounted
  <2>2. CASE t = s
    <3>1. syncdata[s].wrote[i] = NONE
      BY <1>0, <1>2 DEF WritersKnown, NONE, m
    <3>2. Writers(syncdata'[s]) = Writers(syncdata[s]) \cup {i}
      BY <1>0, <1>4 DEF Writers, StatusCodes, NONE
    <3>3. i \notin Writers(syncdata[s]) /\ Writers(syncdata[s]) \subseteq Solvers
      BY <3>1 DEF Writers
    <3>4. IsFiniteSet(Writers(syncdata[s]))
      BY <3>3, SyncStoreAssumption, FS_Subset
    <3>5. Cardinality(Writers(syncdata'[s])) = Cardinality(Writers(syncdata[s])) + 1
      BY <3>2, <3>3, <3>4, FS_AddElement
    <3> QED
      BY <1>0, <1>4, <2>2, <3>5 DEF WritersCounted
  <2> QED
    BY <2>1, <2>2
<1>13. ReadWritten'
  BY <1>0, <1>1, <1>5, Numbers DEF ReadWritten, m
<1>14. PointersRight'
  <2> SUFFICES ASSUME NEW k \in Solvers
               PROVE  /\ InReading(k)' => target[k] = SlotOf(readnum[k] + 1)
                                            /\ readnum[k] + 1 < nsyncs'[k]
                      /\ pc'[k] = "read" => \A l \in Solvers : readnum[k] + 1 < nsyncs'[l]
    BY <1>1 DEF PointersRight, SlotOf
  <2>1. InReading(k)' => InReading(k)
    BY <1>0, <1>1 DEF InReading
  <2>2. pc'[k] = "read" => pc[k] = "read"
    BY <1>0, <1>1
  <2>3. \A l \in Solvers : readnum[k] + 1 < nsyncs[l] => readnum[k] + 1 < nsyncs'[l]
    BY <1>0, <1>5, Numbers DEF m
  <2> QED
    BY <2>1, <2>2, <2>3 DEF PointersRight
<1>15. Delays'
  <2> SUFFICES ASSUME NEW k \in Solvers
               PROVE  /\ nsyncs'[k] <= readnum[k] + MaxDelay + 2
                      /\ pc'[k] \in {"start", "write"} => nsyncs'[k] <= readnum[k] + MaxDelay + 1
                      /\ pc'[k] = "solving" =>
                            nsyncs'[k] <= readnum[k] + MaxDelay + 1 \/ stopped'
    BY <1>1 DEF Delays
  <2>1. CASE k = i
    BY <1>0, <1>1, <1>5, <2>1, Numbers DEF Delays, m
  <2>2. CASE k # i
    BY <1>0, <1>1, <1>5, <2>2 DEF Delays
  <2> QED
    BY <2>1, <2>2
<1>16. FinalStops'
  <2> SUFFICES ASSUME NEW t \in Slots, syncdata'[t].syncedcount = NSolvers,
                      syncdata'[t].status # UNKNOWN
               PROVE  stopped'
    BY DEF FinalStops
  <2>1. CASE t = s
    BY <1>1, <1>3, <1>4, <2>1 DEF StopsStore, all
  <2>2. CASE t # s
    BY <1>1, <1>4, <2>2 DEF FinalStops
  <2> QED
    BY <2>1, <2>2
<1> QED
  BY <1>9, <1>10, <1>11, <1>12, <1>13, <1>14, <1>15, <1>16

\* At the beginning no number is started and nobody has read anything.
LEMMA InitInv == Init => Inv
<1> SUFFICES ASSUME Init PROVE Inv
  OBVIOUS
<1> USE DEF Init
<1>2. TypeOK
  BY TypeInvInit DEF TypeInv
<1>3. SlotNumbers /\ WritersKnown /\ FinalStops
  BY DEF SlotNumbers, WritersKnown, FinalStops, Fresh
<1>4. NumbersKept
  BY DEF NumbersKept, Started
<1>5. WritersCounted
  <2>1. \A s \in Slots : Writers(syncdata[s]) = {} /\ syncdata[s].syncedcount = 0
    BY DEF Writers, Fresh
  <2> QED
    BY <2>1, FS_EmptySet DEF WritersCounted
<1>6. ReadWritten /\ PointersRight
  BY DEF ReadWritten, PointersRight, InReading, NONE
<1>7. Delays
  BY SyncStoreAssumption DEF Delays, NONE
<1> QED
  BY <1>2, <1>3, <1>4, <1>5, <1>6, <1>7 DEF Inv

\* A solver that reads has a slot to read, so that the types are kept.
LEMMA TypesKept ==
    ASSUME Inv, [Next]_vars
    PROVE  TypeOK'
<1>1. ASSUME NEW i \in Solvers, InReading(i) PROVE target[i] \in Slots
  BY <1>1, Numbers, SlotType DEF Inv, PointersRight
<1> QED
  BY <1>1, TypeInvNext DEF Inv, TypeInv

\* Every step keeps the invariant, if it keeps the slots read last.
LEMMA NextInv ==
    ASSUME CodeRing, Inv, [Next]_vars, LastReadKept'
    PROVE  Inv'
<1>0. TypeOK'
  BY TypesKept
<1>1. CASE Terminated \/ UNCHANGED vars
  <2>1. UNCHANGED vars
    BY <1>1 DEF Terminated
  <2> QED
    BY <1>0, <2>1 DEF vars, store, solver, Inv, SlotNumbers, NumbersKept, WritersKnown,
                WritersCounted, Writers, ReadWritten, PointersRight, InReading, Delays,
                FinalStops, Started
<1>2. ASSUME NEW i \in Solvers, SolveStep(i) PROVE Inv'
  BY <1>0, <1>2, EndSolveInv, BeginSyncInv, SkipLastSyncInv DEF SolveStep
<1>3. ASSUME NEW i \in Solvers, SyncStep(i) PROVE Inv'
  BY <1>0, <1>3, StartSyncInv, FinishSyncInv, LeaveSyncInv, GetNextSyncdataInv, WaitInv,
     EnsureReturnInv, ReadSyncdataInv DEF SyncStep
<1>4. ASSUME NEW i \in Solvers, SpuriousWakeup(i) PROVE Inv'
  BY <1>0, <1>4, WaitInv
<1> QED
  BY <1>1, <1>2, <1>3, <1>4 DEF Next

\* As long as the slots read last are kept every state satisfies the invariant.
LEMMA AlwaysInv == CodeRing => (Spec /\ []LastReadKept => []Inv)
<1>1. CodeRing /\ Inv /\ [Next]_vars /\ LastReadKept' => Inv'
  BY NextInv
<1>2. CodeRing => CodeRing'
  BY DEF CodeRing
<1> QED
  BY <1>1, <1>2, InitInv, PTL DEF Spec


-----------------------------------------------------------------------------
(* The assertions.                                                         *)

\* As long as the slots read last are kept, the assertion of
\* SCIPsyncstoreGetNextSyncdata holds: the number to be read is in its slot.
THEOREM NextIsThere == CodeRing => (Spec /\ []LastReadKept => []NextExists)
<1>1. Inv => NextExists
  <2> SUFFICES ASSUME Inv, NEW i \in Solvers, ~NothingToRead(i)
               PROVE  syncdata[SlotOf(NextNum(i))].syncnum = NextNum(i)
    BY DEF NextExists
  <2>1. NextNum(i) = readnum[i] + 1 /\ readnum[i] + 1 < nsyncs[i]
    BY NextNumIs, Numbers DEF NothingToRead, Inv, ReadWritten
  <2>2. readnum[i] + 1 \in 0..nsyncs[i] /\ Started(i, readnum[i] + 1) /\ readnum[i] <= readnum[i] + 1
    BY <2>1, Numbers DEF Started, Inv
  <2> QED
    BY <2>1, <2>2 DEF Inv, NumbersKept
<1> QED
  BY <1>1, AlwaysInv, PTL

\* As long as the slots read last are kept, the assertions of
\* SCIPconcsolverSync about the number before hold: it is still in its slot,
\* and all have written it.
THEOREM PreviousIsComplete == CodeRing => (Spec /\ []LastReadKept => []PreviousComplete)
<1>1. Inv => PreviousComplete
  <2> SUFFICES ASSUME Inv, NEW i \in Solvers, pc[i] = "write", nsyncs[i] > 0,
                      syncdata[SlotOf(nsyncs[i])].syncedcount = NSolvers - 1
               PROVE  /\ syncdata[SlotOf(nsyncs[i] - 1)].syncnum = nsyncs[i] - 1
                      /\ syncdata[SlotOf(nsyncs[i] - 1)].syncedcount = NSolvers
    BY DEF PreviousComplete
  <2> DEFINE m == nsyncs[i]
             s == SlotOf(m)
             t == SlotOf(m - 1)
  <2> USE DEF Inv
  <2>1. m \in Nat /\ m > 0 /\ s \in Slots /\ t \in Slots
    BY Numbers, SlotType
  <2>2. syncdata[s].syncnum = m
    <3>1. m \in 0..nsyncs[i] /\ Started(i, m) /\ readnum[i] <= m
      BY <2>1, Numbers DEF Started, ReadWritten
    <3> QED
      BY <3>1 DEF NumbersKept
  <2>3. syncdata[t].syncnum = m - 1
    <3>1. m - 1 \in 0..nsyncs[i] /\ Started(i, m - 1) /\ readnum[i] <= m - 1
      BY <2>1, Numbers DEF Started, ReadWritten
    <3> QED
      BY <3>1 DEF NumbersKept
  <2>4. Writers(syncdata[s]) = Solvers \ {i}
    <3>1. i \notin Writers(syncdata[s]) /\ Writers(syncdata[s]) \subseteq Solvers \ {i}
      BY <2>1, <2>2 DEF Writers, WritersKnown, NONE
    <3>2. IsFiniteSet(Solvers \ {i}) /\ Cardinality(Solvers \ {i}) = NSolvers - 1
      BY SyncStoreAssumption, FS_RemoveElement DEF NSolvers
    <3>3. Cardinality(Writers(syncdata[s])) = NSolvers - 1
      BY <2>1 DEF WritersCounted
    <3> QED
      BY <3>1, <3>2, <3>3, FS_Subset
  <2>5. \A k \in Solvers : m - 1 < nsyncs[k]
    <3> SUFFICES ASSUME NEW k \in Solvers PROVE m - 1 < nsyncs[k]
      OBVIOUS
    <3>1. CASE k = i
      BY <2>1, <3>1
    <3>2. CASE k # i
      <4>1. syncdata[s].wrote[k] # NONE
        BY <2>4, <3>2 DEF Writers
      <4> QED
        BY <2>1, <2>2, <4>1, Numbers DEF WritersKnown, NONE
    <3> QED
      BY <3>1, <3>2
  <2>6. Writers(syncdata[t]) = Solvers
    BY <2>1, <2>3, <2>5 DEF Writers, WritersKnown, NONE
  <2> QED
    BY <2>1, <2>3, <2>6 DEF WritersCounted, NSolvers
<1> QED
  BY <1>1, AlwaysInv, PTL

\* The slot a solver ends to write holds the number the solver writes.
LEMMA FinishesOwnNumber ==
    ASSUME Inv, NEW j \in Solvers, FinishSync(j)
    PROVE  syncdata[SlotOf(nsyncs[j])].syncnum = nsyncs[j]
<1> USE DEF Inv
<1>1. nsyncs[j] \in 0..nsyncs[j] /\ Started(j, nsyncs[j]) /\ readnum[j] <= nsyncs[j]
  BY Numbers DEF Started, ReadWritten, FinishSync
<1> QED
  BY <1>1 DEF NumbersKept

\* Only a solver that starts to write gives a slot another number.
LEMMA NumberChange ==
    ASSUME Inv, Next, NEW s \in Slots, syncdata'[s].syncnum # syncdata[s].syncnum
    PROVE  \E j \in Solvers : StartSync(j) /\ s = SlotOf(nsyncs[j]) /\ syncdata[s].syncnum # nsyncs[j]
<1>1. PICK j \in Solvers : (StartSync(j) \/ FinishSync(j)) /\ s = SlotOf(nsyncs[j])
  BY SlotChange DEF Inv
<1>2. ~FinishSync(j)
  BY <1>1, FinishWrites DEF Inv
<1>3. syncdata[s].syncnum # nsyncs[j]
  BY <1>1, <1>2, StartWrites DEF Inv
<1> QED
  BY <1>1, <1>2, <1>3

-----------------------------------------------------------------------------
(* When the slots read last are kept.                                      *)

\* A slot that holds a number read last is free only for that number.
LEMMA KeptNext ==
    ASSUME Inv, [Next]_vars,
           \A i, j \in Solvers : pc[j] = "start" => nsyncs[j] - readnum[i] < NSyncdata
    PROVE  LastReadKept'
<1> SUFFICES ASSUME NEW i \in Solvers, csyncdata'[i] # NONE
             PROVE  syncdata'[csyncdata'[i]].syncnum = readnum'[i]
  BY DEF LastReadKept
<1>1. CASE ReadSyncdata(i)
  BY <1>1 DEF ReadSyncdata, store, Inv, TypeOK
<1>2. CASE ~ReadSyncdata(i)
  <2>1. csyncdata'[i] = csyncdata[i] /\ readnum'[i] = readnum[i]
    <3>1. ASSUME NEW k \in Solvers, ReadSyncdata(k)
          PROVE  csyncdata'[i] = csyncdata[i] /\ readnum'[i] = readnum[i]
      BY <1>2, <3>1 DEF ReadSyncdata, Inv, TypeOK
    <3>2. CASE ~ \E k \in Solvers : ReadSyncdata(k)
      BY <3>2 DEF Next, Terminated, vars, solver, SolveStep, SyncStep, EndSolve, BeginSync, SkipLastSync,
           StartSync, FinishSync, LeaveSync, GetNextSyncdata, EnsureSleep, RegisterWait, SpuriousWakeup,
           EnsureReturn
    <3> QED
      BY <3>1, <3>2
  <2>2. PICK s : s = csyncdata[i]
    OBVIOUS
  <2>3. readnum[i] \in Nat /\ s = SlotOf(readnum[i]) /\ s \in Slots
    BY <2>1, <2>2, Numbers, SlotType DEF Inv, PointersRight, NONE
  <2>4. syncdata[s].syncnum = readnum[i]
    <3>1. readnum[i] \in 0..nsyncs[i] /\ Started(i, readnum[i]) /\ readnum[i] <= readnum[i]
      BY <2>3, Numbers DEF Started, Inv, ReadWritten
    <3> QED
      BY <2>3, <3>1 DEF Inv, NumbersKept
  <2>5. syncdata'[s].syncnum = syncdata[s].syncnum
    <3> SUFFICES ASSUME syncdata'[s].syncnum # syncdata[s].syncnum PROVE FALSE
      OBVIOUS
    <3>1. Next
      BY DEF vars, store
    <3>2. PICK j \in Solvers : StartSync(j) /\ s = SlotOf(nsyncs[j]) /\ syncdata[s].syncnum # nsyncs[j]
      BY <2>3, <3>1, NumberChange
    <3>3. nsyncs[j] - readnum[i] < NSyncdata
      BY <3>2 DEF StartSync
    <3>4. /\ nsyncs[j] \in Nat /\ Started(i, readnum[i]) /\ readnum[i] <= readnum[i]
          /\ MaxDelay \in Nat /\ pc[j] = "start"
      BY <2>3, <3>2, Numbers DEF Started, Inv, ReadWritten, StartSync
    <3>5. readnum[i] < nsyncs[j]
      BY DEF Inv, ReadWritten
    <3>6. readnum[i] - nsyncs[j] < NSyncdata
      BY <2>3, <3>4, <3>5, SyncStoreAssumption
    <3>7. SlotOf(readnum[i]) = SlotOf(nsyncs[j]) /\ readnum[i] # nsyncs[j]
      BY <2>3, <2>4, <3>2
    <3>8. readnum[i] \in Int /\ nsyncs[j] \in Int
      BY <2>3, <3>4
    <3> QED
      BY <3>3, <3>6, <3>7, <3>8, SameSlot
  <2> QED
    BY <2>1, <2>2, <2>4, <2>5
<1> QED
  BY <1>1, <1>2

\* One slot more than the code has is enough to keep the slots read last: all
\* that is said of such rings below then holds without a premise.
THEOREM LongRingKeeps == LongRing => (Spec => []LastReadKept)
<1>1. ASSUME LongRing, Inv, [Next]_vars
      PROVE  Inv' /\ LastReadKept'
  <2>1. ASSUME NEW i \in Solvers, NEW j \in Solvers, pc[j] = "start"
        PROVE  nsyncs[j] - readnum[i] < NSyncdata
    <3>1. nsyncs[j] <= readnum[j] + MaxDelay + 1 /\ nsyncs[i] <= readnum[i] + MaxDelay + 2
          /\ readnum[j] < nsyncs[i]
      BY <1>1, <2>1 DEF Inv, Delays, ReadWritten
    <3>2. /\ nsyncs[i] \in Nat /\ nsyncs[j] \in Nat /\ readnum[i] \in Int /\ readnum[j] \in Int
          /\ MaxDelay \in Nat /\ NSyncdata \in Nat /\ NSyncdata > 2 * MaxDelay + 2
      BY <1>1, Numbers, CodeNSyncdataIs, SyncStoreAssumption DEF Inv, LongRing
    <3> QED
      BY <3>1, <3>2
  <2>2. LastReadKept'
    BY <1>1, <2>1, KeptNext
  <2>3. CodeRing
    BY <1>1, CodeNSyncdataIs, SyncStoreAssumption DEF CodeRing, LongRing
  <2> QED
    BY <1>1, <2>2, <2>3, NextInv
<1>2. Init => LastReadKept
  BY DEF Init, LastReadKept
<1>3. LongRing => LongRing'
  BY DEF LongRing
<1> QED
  BY <1>1, <1>2, <1>3, InitInv, PTL DEF Spec

\* Nobody lags behind by the whole delay.
PromptDelays ==
    \A i \in Solvers :
        /\ nsyncs[i] <= readnum[i] + MaxDelay + 1
        /\ pc[i] \in {"start", "write"} => nsyncs[i] <= readnum[i] + MaxDelay

LEMMA PromptDelaysNext ==
    ASSUME Inv, PromptDelays, [Next]_vars, PromptReaders'
    PROVE  PromptDelays'
<1>1. /\ pc \in [Solvers -> Points] /\ nsyncs \in [Solvers -> Nat]
      /\ readnum \in [Solvers -> Nat \cup {NONE}]
  BY DEF Inv, TypeOK
<1> SUFFICES ASSUME NEW i \in Solvers
             PROVE  /\ nsyncs'[i] <= readnum'[i] + MaxDelay + 1
                    /\ pc'[i] \in {"start", "write"} => nsyncs'[i] <= readnum'[i] + MaxDelay
  BY DEF PromptDelays
<1>2. /\ nsyncs[i] \in Nat /\ readnum[i] \in Int /\ MaxDelay \in Nat
      /\ nsyncs[i] <= readnum[i] + MaxDelay + 1
      /\ pc[i] \in {"start", "write"} => nsyncs[i] <= readnum[i] + MaxDelay
  BY Numbers DEF Inv, PromptDelays
<1>3. CASE FinishSync(i)
  BY <1>1, <1>2, <1>3 DEF FinishSync
<1>4. CASE ReadSyncdata(i)
  <2>1. readnum'[i] = readnum[i] + 1
    BY <1>1, <1>4, ReadNumberIs DEF ReadSyncdata, InReading
  <2> QED
    BY <1>1, <1>2, <1>4, <2>1 DEF ReadSyncdata, Goto
<1>5. CASE ~FinishSync(i) /\ ~ReadSyncdata(i)
  <2>1. nsyncs'[i] = nsyncs[i] /\ readnum'[i] = readnum[i]
    <3>1. ASSUME NEW k \in Solvers, FinishSync(k) \/ ReadSyncdata(k)
          PROVE  nsyncs'[i] = nsyncs[i] /\ readnum'[i] = readnum[i]
      <4>1. k # i
        BY <1>5, <3>1
      <4>2. CASE FinishSync(k)
        BY <1>1, <4>1, <4>2 DEF FinishSync
      <4>3. CASE ReadSyncdata(k)
        BY <1>1, <4>1, <4>3 DEF ReadSyncdata
      <4> QED
        BY <3>1, <4>2, <4>3
    <3>2. CASE ~ \E k \in Solvers : FinishSync(k) \/ ReadSyncdata(k)
      BY <3>2 DEF Next, Terminated, vars, solver, SolveStep, SyncStep, EndSolve, BeginSync,
           SkipLastSync, StartSync, LeaveSync, GetNextSyncdata, EnsureSleep, RegisterWait,
           SpuriousWakeup, EnsureReturn
    <3> QED
      BY <3>1, <3>2
  <2>2. pc'[i] = "write" => pc[i] \in {"start", "write"}
    <3>1. ASSUME NEW k \in Solvers, SolveStep(k) \/ SpuriousWakeup(k), pc'[i] = "write"
          PROVE  pc[i] = "write"
      BY <1>1, <3>1 DEF SolveStep, EndSolve, BeginSync, SkipLastSync, SpuriousWakeup, Goto
    <3>2. ASSUME NEW k \in Solvers, FinishSync(k), pc'[i] = "write"
          PROVE  pc[i] = "write"
      BY <1>1, <3>2 DEF FinishSync
    <3>3. ASSUME NEW k \in Solvers, SyncStep(k), ~FinishSync(k), pc'[i] = "write"
          PROVE  pc[i] \in {"start", "write"}
      BY <1>1, <3>3 DEF SyncStep, StartSync, LeaveSync, GetNextSyncdata, EnsureSleep, RegisterWait,
             EnsureReturn, ReadSyncdata, Goto
    <3>4. CASE Terminated \/ UNCHANGED vars
      BY <3>4 DEF Terminated, vars, solver
    <3> QED
      BY <3>1, <3>2, <3>3, <3>4 DEF Next
  <2>3. pc'[i] = "start" => nsyncs'[i] - readnum'[i] <= MaxDelay
    BY DEF PromptReaders
  <2> QED
    BY <1>2, <2>1, <2>2, <2>3
<1> QED
  BY <1>3, <1>4, <1>5

\* The code's own ring keeps the slots read last as long as nobody begins to
\* write with maxnsyncdelay numbers unread: a maxnsyncdelay one smaller, with
\* the ring as it is, would do.
THEOREM PromptReadersKeep == CodeRing => (Spec /\ []PromptReaders => []LastReadKept)
<1>1. ASSUME CodeRing, Inv, PromptDelays, [Next]_vars, PromptReaders'
      PROVE  Inv' /\ PromptDelays' /\ LastReadKept'
  <2>1. ASSUME NEW i \in Solvers, NEW j \in Solvers, pc[j] = "start"
        PROVE  nsyncs[j] - readnum[i] < NSyncdata
    <3>1. nsyncs[j] <= readnum[j] + MaxDelay /\ nsyncs[i] <= readnum[i] + MaxDelay + 1
          /\ readnum[j] < nsyncs[i]
      BY <1>1, <2>1 DEF Inv, PromptDelays, ReadWritten
    <3>2. /\ nsyncs[i] \in Nat /\ nsyncs[j] \in Nat /\ readnum[i] \in Int /\ readnum[j] \in Int
          /\ MaxDelay \in Nat /\ NSyncdata \in Nat /\ NSyncdata >= 2 * MaxDelay + 2
      BY <1>1, Numbers, CodeNSyncdataIs, SyncStoreAssumption DEF Inv, CodeRing
    <3> QED
      BY <3>1, <3>2
  <2>2. LastReadKept'
    BY <1>1, <2>1, KeptNext
  <2> QED
    BY <1>1, <2>2, NextInv, PromptDelaysNext
<1>2. Init => LastReadKept /\ PromptDelays
  BY SyncStoreAssumption DEF Init, LastReadKept, PromptDelays, NONE
<1>3. CodeRing => CodeRing'
  BY DEF CodeRing
<1> QED
  BY <1>1, <1>2, <1>3, InitInv, PTL DEF Spec

-----------------------------------------------------------------------------
(* No number is lost.                                                     *)

\* With a ring that is long enough no slot is reused before all solvers have
\* read its number, which getNSyncdata claims of its own, shorter ring.
THEOREM NoUnreadNumberIsLost == LongRing => (Spec => NoUnreadReuse)
<1> DEFINE Kept == \A s \in Slots : LET old == syncdata[s].syncnum
                   IN (old # NONE /\ syncdata'[s].syncnum # old) =>
                        \A i \in Solvers : Takes(i) => readnum[i] >= old
<1>1. CodeRing /\ Inv /\ [Next]_vars /\ LastReadKept' => [Kept]_vars
  <2> SUFFICES ASSUME CodeRing, Inv, Next, LastReadKept', NEW s \in Slots, NEW i \in Solvers,
                      syncdata[s].syncnum # NONE, syncdata'[s].syncnum # syncdata[s].syncnum,
                      ~(readnum[i] >= syncdata[s].syncnum)
               PROVE  FALSE
    OBVIOUS
  <2>1. PICK k \in Solvers : Started(k, syncdata[s].syncnum)
    BY DEF Inv, SlotNumbers
  <2>2. syncdata[s].syncnum \in Nat /\ SlotOf(syncdata[s].syncnum) = s /\ readnum[i] \in Int
    <3>1. syncdata[s] \in SyncData /\ readnum[i] \in Int
      BY Numbers DEF Inv, TypeOK
    <3> QED
      BY <3>1 DEF Inv, SlotNumbers, SyncData
  <2>3. PICK j \in Solvers : StartSync(j) /\ s = SlotOf(nsyncs[j]) /\ syncdata[s].syncnum # nsyncs[j]
    BY NumberChange
  <2>4. readnum[i] <= syncdata[s].syncnum
    BY <2>2
  <2> QED
    BY <2>1, <2>2, <2>3, <2>4, SlotIsFree
<1>2. CodeRing => CodeRing'
  BY DEF CodeRing
<1>3. LongRing => CodeRing
  BY CodeNSyncdataIs, SyncStoreAssumption DEF CodeRing, LongRing
<1> QED
  BY <1>1, <1>2, <1>3, AlwaysInv, LongRingKeeps, PTL DEF Spec, NoUnreadReuse

\* As long as the slots read last are kept, no slot is reset while a solver has
\* still to write its number: who resets it has read it, so all have written it.
THEOREM NoPartialNumberIsLost == CodeRing => (Spec /\ []LastReadKept => NoPartialReuse)
<1> DEFINE Complete == \A s \in Slots : LET old == syncdata[s].syncnum
                       IN (old # NONE /\ syncdata'[s].syncnum # old) =>
                            syncdata[s].syncedcount = NSolvers
<1>1. CodeRing /\ Inv /\ [Next]_vars /\ LastReadKept' => [Complete]_vars
  <2> SUFFICES ASSUME CodeRing, Inv, Next, LastReadKept', NEW s \in Slots,
                      syncdata[s].syncnum # NONE, syncdata'[s].syncnum # syncdata[s].syncnum
               PROVE  syncdata[s].syncedcount = NSolvers
    OBVIOUS
  <2>1. PICK k \in Solvers : Started(k, syncdata[s].syncnum)
    BY DEF Inv, SlotNumbers
  <2>2. syncdata[s].syncnum \in Nat /\ SlotOf(syncdata[s].syncnum) = s
    <3>1. syncdata[s] \in SyncData
      BY DEF Inv, TypeOK
    <3> QED
      BY <3>1 DEF Inv, SlotNumbers, SyncData
  <2>3. PICK j \in Solvers : StartSync(j) /\ s = SlotOf(nsyncs[j]) /\ syncdata[s].syncnum # nsyncs[j]
    BY NumberChange
  <2>4. readnum[j] \in Int /\ readnum[j] > syncdata[s].syncnum
    BY <2>1, <2>2, <2>3, SlotIsFree, Numbers DEF Inv
  <2>5. \A i \in Solvers : nsyncs[i] \in Nat /\ syncdata[s].syncnum < nsyncs[i]
    BY <2>2, <2>4, Numbers DEF Inv, ReadWritten
  <2>6. Writers(syncdata[s]) = Solvers
    BY <2>5 DEF Inv, Writers, WritersKnown, NONE
  <2> QED
    BY <2>6 DEF Inv, WritersCounted, NSolvers
<1>2. CodeRing => CodeRing'
  BY DEF CodeRing
<1> QED
  BY <1>1, <1>2, AlwaysInv, PTL DEF Spec, NoPartialReuse

\* As long as the slots read last are kept, every solver reads the numbers one
\* after the other, each when all solvers have written it: what the
\* deterministic mode of concurrent solving rests on.
THEOREM ReadsAreOrdered == CodeRing => (Spec /\ []LastReadKept => ReadsInOrder)
<1> DEFINE Ordered == \A i \in Solvers : readnum'[i] # readnum[i] =>
                        /\ readnum'[i] = readnum[i] + 1
                        /\ \A k \in Solvers : syncdata[target[i]].wrote[k] # NONE
<1>1. Inv /\ [Next]_vars => [Ordered]_vars
  <2> SUFFICES ASSUME Inv, Next, NEW i \in Solvers, readnum'[i] # readnum[i]
               PROVE  /\ readnum'[i] = readnum[i] + 1
                      /\ \A k \in Solvers : syncdata[target[i]].wrote[k] # NONE
    OBVIOUS
  <2>1. ReadSyncdata(i) /\ readnum'[i] = syncdata[target[i]].syncnum
    <3>1. readnum' # readnum
      OBVIOUS
    <3>2. PICK j \in Solvers : ReadSyncdata(j)
      BY <3>1 DEF Next, Terminated, vars, solver, SolveStep, SyncStep, EndSolve, BeginSync,
             SkipLastSync, StartSync, FinishSync, LeaveSync, GetNextSyncdata, EnsureSleep, RegisterWait,
             SpuriousWakeup, EnsureReturn
    <3> QED
      BY <3>2 DEF ReadSyncdata, Inv, TypeOK
  <2>2. pc[i] = "read" /\ target[i] \in Slots /\ syncdata[target[i]].syncnum = readnum[i] + 1
    BY <2>1, ReadNumberIs DEF ReadSyncdata, InReading
  <2>3. \A k \in Solvers : readnum[i] + 1 < nsyncs[k]
    BY <2>2 DEF Inv, PointersRight
  <2>4. readnum[i] + 1 # NONE
    BY Numbers DEF Inv, NONE
  <2> QED
    BY <2>1, <2>2, <2>3, <2>4 DEF Inv, WritersKnown
<1> QED
  BY <1>1, AlwaysInv, PTL DEF Spec, ReadsInOrder

\* As long as the slots read last are kept, nobody touches the slot that a
\* solver copies from without holding a lock.
THEOREM ReadingIsUndisturbed == CodeRing => (Spec /\ []LastReadKept => ReadUndisturbed)
<1> DEFINE Untouched == \A i \in Solvers : (pc[i] = "read" /\ pc'[i] = "read") =>
                          syncdata'[target[i]] = syncdata[target[i]]
<1>1. CodeRing /\ Inv /\ [Next]_vars /\ LastReadKept' => [Untouched]_vars
  <2> SUFFICES ASSUME CodeRing, Inv, Next, LastReadKept', NEW i \in Solvers, pc[i] = "read",
                      syncdata'[target[i]] # syncdata[target[i]]
               PROVE  FALSE
    OBVIOUS
  <2>1. target[i] \in Slots /\ syncdata[target[i]].syncnum = readnum[i] + 1
    BY ReadNumberIs DEF InReading
  <2>2. /\ target[i] = SlotOf(readnum[i] + 1)
        /\ \A k \in Solvers : readnum[i] + 1 < nsyncs[k]
    BY DEF Inv, PointersRight, InReading
  <2>3. PICK j \in Solvers : (StartSync(j) \/ FinishSync(j)) /\ target[i] = SlotOf(nsyncs[j])
    BY <2>1, SlotChange DEF Inv
  <2>4. readnum[i] + 1 # nsyncs[j] /\ readnum[i] \in Int
    BY <2>2, Numbers DEF Inv
  <2>5. ~FinishSync(j)
    BY <2>1, <2>3, <2>4, FinishesOwnNumber
  <2>6. /\ StartSync(j) /\ Started(i, readnum[i] + 1) /\ readnum[i] <= readnum[i] + 1
        /\ readnum[i] + 1 \in Nat
    BY <2>2, <2>3, <2>4, <2>5, Numbers DEF Started, Inv
  <2> QED
    BY <2>2, <2>3, <2>4, <2>6, SlotIsFree
<1>2. CodeRing => CodeRing'
  BY DEF CodeRing
<1> QED
  BY <1>1, <1>2, AlwaysInv, PTL DEF Spec, ReadUndisturbed

\* As long as the slots read last are kept, the assertions about what is read
\* without a lock never fail in a ring of the code's length.
THEOREM AssertionsAlwaysHold == CodeRing => (Spec /\ []LastReadKept => []AssertionsHold)
BY NextIsThere, PreviousIsComplete, PTL DEF AssertionsHold

\* As long as the slots read last are kept, the reading that the solvers do
\* without a lock is as good as reading one after the other.
THEOREM ReadsAreExact == CodeRing => (Spec /\ []LastReadKept => ReadsExact)
BY ReadsAreOrdered, ReadingIsUndisturbed DEF ReadsExact

-----------------------------------------------------------------------------
(* The end of the solve.                                                   *)

\* What stopped the store is complete, and one of its writers found the status
\* in it: this solver never starts another number.
Witness(e, q) == cstopped[e] /\ nsyncs[e] = q + 1 /\ pc[e] \notin {"start", "write"}
EndKept ==
    stopped => /\ lastsync \in Slots
               /\ syncdata[lastsync].syncnum # NONE
               /\ syncdata[lastsync].syncedcount = NSolvers
               /\ syncdata[lastsync].status # UNKNOWN
               /\ \E e \in Solvers : Witness(e, syncdata[lastsync].syncnum)

\* What is complete all solvers have written.
LEMMA CompleteIsPassed ==
    ASSUME Inv, NEW s \in Slots, syncdata[s].syncnum # NONE, syncdata[s].syncedcount >= NSolvers,
           NEW k \in Solvers
    PROVE  syncdata[s].syncnum < nsyncs[k]
BY AllSyncedMeans DEF AllSynced, Inv, WritersKnown

\* When the store is stopped nobody touches the slot that stopped it: its
\* writers are through, and the witness has not read beyond it.
LEMMA EndUntouched ==
    ASSUME CodeRing, Inv, LastReadKept', EndKept, stopped, Next
    PROVE  syncdata'[lastsync] = syncdata[lastsync]
<1> DEFINE q == syncdata[lastsync].syncnum
<1> SUFFICES ASSUME syncdata'[lastsync] # syncdata[lastsync] PROVE FALSE
  OBVIOUS
<1>1. PICK e \in Solvers : Witness(e, q)
  BY DEF EndKept
<1>2. lastsync \in Slots /\ q \in Nat /\ SlotOf(q) = lastsync /\ readnum[e] \in Int
  <2>1. syncdata[lastsync] \in SyncData /\ readnum[e] \in Int
    BY Numbers DEF EndKept, Inv, TypeOK
  <2> QED
    BY <2>1 DEF EndKept, Inv, SlotNumbers, SyncData, NONE
<1>3. PICK j \in Solvers : (StartSync(j) \/ FinishSync(j)) /\ lastsync = SlotOf(nsyncs[j])
  BY <1>2, SlotChange DEF Inv
<1>4. NSolvers \in Int
  BY SyncStoreAssumption, FS_CardinalityType DEF NSolvers
<1>5. q < nsyncs[j] /\ nsyncs[j] \in Nat
  BY <1>2, <1>4, CompleteIsPassed, Numbers DEF EndKept, Inv
<1>6. ~FinishSync(j)
  BY <1>2, <1>3, <1>5, FinishesOwnNumber
<1>7. Started(e, q) /\ readnum[e] <= q
  BY <1>1, <1>2, Numbers DEF Witness, Started, Inv, ReadWritten
<1>8. q = nsyncs[j]
  BY <1>2, <1>3, <1>6, <1>7, SlotIsFree
<1> QED
  BY <1>5, <1>8

\* The witness stays one.
LEMMA WitnessStays ==
    ASSUME Inv, NEW e \in Solvers, NEW q, Witness(e, q), Next
    PROVE  Witness(e, q)'
<1>1. /\ pc \in [Solvers -> Points] /\ cstopped \in [Solvers -> BOOLEAN]
      /\ nsyncs \in [Solvers -> Nat]
  BY DEF Inv, TypeOK
<1> USE DEF Witness, Goto
<1>2. CASE Terminated
  BY <1>2 DEF Terminated, vars, solver
<1>3. ASSUME NEW i \in Solvers, SolveStep(i)
      PROVE  Witness(e, q)'
  BY <1>1, <1>3 DEF SolveStep, EndSolve, BeginSync, SkipLastSync
<1>4. ASSUME NEW i \in Solvers, SyncStep(i) \/ SpuriousWakeup(i)
      PROVE  Witness(e, q)'
  <2>1. CASE StartSync(i)
    BY <1>1, <2>1 DEF StartSync
  <2>2. CASE FinishSync(i)
    BY <1>1, <2>2 DEF FinishSync
  <2>3. CASE LeaveSync(i)
    BY <1>1, <2>3 DEF LeaveSync
  <2>4. CASE GetNextSyncdata(i) \/ EnsureSleep(i) \/ RegisterWait(i) \/ EnsureReturn(i)
    BY <1>1, <2>4 DEF GetNextSyncdata, EnsureSleep, RegisterWait, EnsureReturn
  <2>5. CASE ReadSyncdata(i) \/ SpuriousWakeup(i)
    BY <1>1, <2>5 DEF ReadSyncdata, SpuriousWakeup
  <2> QED
    BY <1>4, <2>1, <2>2, <2>3, <2>4, <2>5 DEF SyncStep
<1> QED
  BY <1>2, <1>3, <1>4 DEF Next

\* Whoever ends to write the last status of a number changes lastsync; when
\* the store is stopped nobody does, for the witness will never have written.
LEMMA EndKeptNext ==
    ASSUME CodeRing, Inv, LastReadKept', EndKept, [Next]_vars
    PROVE  EndKept'
<1>1. CASE UNCHANGED vars
  BY <1>1 DEF vars, store, solver, EndKept, Witness
<1>2. ASSUME Next, NEW i \in Solvers, NEW s, s = SlotOf(nsyncs[i]), FinishSync(i), ~stopped, stopped'
      PROVE  EndKept'
  <2> DEFINE d == SetStatus(syncdata[s], status[i], i)
  <2>1. /\ syncdata \in [Slots -> SyncData] /\ s \in Slots /\ nsyncs[i] \in Nat
        /\ pc[i] = "write" /\ syncdata[s].syncnum = nsyncs[i]
        /\ pc \in [Solvers -> Points]
        /\ nsyncs \in [Solvers -> Nat] /\ cstopped \in [Solvers -> BOOLEAN]
    <3>1. nsyncs[i] \in Nat /\ s \in Slots
      BY <1>2, SlotType, Numbers DEF Inv
    <3>2. syncdata[s].syncnum = nsyncs[i]
      BY <1>2, FinishesOwnNumber
    <3> QED
      BY <1>2, <3>1, <3>2 DEF Inv, TypeOK, FinishSync
  <2>2. /\ d.syncedcount + 1 = NSolvers /\ d.status # UNKNOWN
        /\ lastsync' = s /\ cstopped'[i] /\ nsyncs'[i] = nsyncs[i] + 1 /\ pc'[i] = "next"
    BY <1>2, <2>1 DEF FinishSync, StopsStore, LastSync, StopsSolver
  <2>3. /\ DOMAIN d = {"syncnum", "syncedcount", "status", "winner", "wrote"}
        /\ d.syncnum = nsyncs[i]
    BY <2>1 DEF SetStatus, SyncData
  <2>4. syncdata'[s] = [d EXCEPT !.syncedcount = @ + 1, !.wrote[i] = status[i]]
    BY <1>2, <2>1 DEF FinishSync
  <2> HIDE DEF d
  <2>5. /\ syncdata'[s].syncnum = nsyncs[i] /\ syncdata'[s].syncedcount = d.syncedcount + 1
        /\ syncdata'[s].status = d.status
    BY <2>3, <2>4
  <2>6. nsyncs[i] # NONE
    BY <2>1 DEF NONE
  <2>7. Witness(i, syncdata[s].syncnum)' /\ NSolvers' = NSolvers
    BY <2>2, <2>5 DEF Witness, NSolvers
  <2> QED
    BY <2>1, <2>2, <2>5, <2>6, <2>7 DEF EndKept, Witness
<1>3. ASSUME Next, stopped
      PROVE  EndKept'
  <2> DEFINE q == syncdata[lastsync].syncnum
  <2>1. PICK e \in Solvers : Witness(e, q)
    BY <1>3 DEF EndKept
  <2>2. syncdata'[lastsync] = syncdata[lastsync]
    BY <1>3, EndUntouched
  <2>3. lastsync' = lastsync
    <3> SUFFICES ASSUME lastsync' # lastsync PROVE FALSE
      OBVIOUS
    <3>1. PICK j \in Solvers : FinishSync(j)
      BY <1>3 DEF Next, Terminated, vars, store, SolveStep, SyncStep, EndSolve, BeginSync,
           SkipLastSync, StartSync, LeaveSync, GetNextSyncdata, EnsureSleep, RegisterWait,
           SpuriousWakeup, EnsureReturn, ReadSyncdata
    <3> DEFINE s == SlotOf(nsyncs[j])
               d == SetStatus(syncdata[s], status[j], j)
    <3>2. d.syncedcount + 1 = NSolvers /\ pc[j] = "write"
      BY <3>1 DEF FinishSync, LastSync
    <3>3. /\ s \in Slots /\ syncdata[s] \in SyncData /\ syncdata[s].syncnum = nsyncs[j]
          /\ nsyncs[j] \in Nat /\ nsyncs[e] \in Nat /\ q \in Int /\ q # NONE
          /\ lastsync \in Slots /\ NSolvers \in Int
      <4>1. NSolvers \in Int
        BY SyncStoreAssumption, FS_CardinalityType DEF NSolvers
      <4>2. lastsync \in Slots /\ q # NONE /\ syncdata[lastsync] \in SyncData
        BY <1>3 DEF EndKept, Inv, TypeOK
      <4> QED
        BY <3>1, <4>1, <4>2, SlotType, Numbers, FinishesOwnNumber DEF Inv, TypeOK, SyncData, NONE
    <3>4. q < nsyncs[j]
      BY <1>3, <3>3, CompleteIsPassed DEF EndKept
    <3>5. syncdata[s].syncedcount + 1 = NSolvers
      BY <3>2, <3>3 DEF SetStatus, SyncData
    <3>6. j # e /\ ~(nsyncs[j] < nsyncs[e]) /\ nsyncs[j] # NONE
      BY <2>1, <3>2, <3>3, <3>4 DEF Witness, NONE
    <3>7. syncdata[s].wrote[e] = NONE /\ syncdata[s].wrote[j] = NONE
      BY <3>3, <3>6 DEF Inv, WritersKnown
    <3>8. Writers(syncdata[s]) \subseteq Solvers \ {j} /\ e \in Solvers \ {j}
          /\ e \notin Writers(syncdata[s])
      BY <3>6, <3>7 DEF Writers
    <3>9. /\ IsFiniteSet(Solvers \ {j}) /\ Cardinality(Solvers \ {j}) = NSolvers - 1
      BY SyncStoreAssumption, FS_RemoveElement DEF NSolvers
    <3>10. Cardinality(Writers(syncdata[s])) < NSolvers - 1
      <4>1. /\ IsFiniteSet(Writers(syncdata[s]))
            /\ Cardinality(Writers(syncdata[s])) <= Cardinality(Solvers \ {j})
            /\ Cardinality(Writers(syncdata[s])) = Cardinality(Solvers \ {j}) =>
                 Writers(syncdata[s]) = Solvers \ {j}
        BY <3>8, <3>9, FS_Subset
      <4>2. Cardinality(Writers(syncdata[s])) \in Nat
        BY <4>1, FS_CardinalityType
      <4> QED
        BY <3>3, <3>8, <3>9, <4>1, <4>2
    <3>11. syncdata[s].syncedcount = Cardinality(Writers(syncdata[s]))
      BY <3>3 DEF Inv, WritersCounted
    <3>12. Cardinality(Writers(syncdata[s])) \in Int
      BY <3>3, <3>11 DEF SyncData
    <3> QED
      BY <3>3, <3>5, <3>10, <3>11, <3>12
  <2>4. Witness(e, q)'
    <3>1. \A r : Witness(e, r) => Witness(e, r)'
      BY <1>3, WitnessStays
    <3> QED
      BY <2>1, <2>2, <2>3, <3>1 DEF Witness
  <2> QED
    BY <1>3, <2>2, <2>3, <2>4 DEF EndKept, Witness, NSolvers
<1>4. ASSUME Next, ~stopped, stopped' PROVE \E i \in Solvers : FinishSync(i)
  BY <1>4 DEF Next, Terminated, vars, store, SolveStep, SyncStep, EndSolve, BeginSync,
       SkipLastSync, StartSync, LeaveSync, GetNextSyncdata, EnsureSleep, RegisterWait,
       SpuriousWakeup, EnsureReturn, ReadSyncdata
<1> QED
  BY <1>1, <1>2, <1>3, <1>4 DEF EndKept

\* As long as the slots read last are kept, the store is stopped by the first
\* number that ends the solve, SCIPsyncstoreGetWinner finds a solver there, and
\* no later number is ever complete: the winner does not change any more.
THEOREM FirstEndStands == CodeRing => (Spec /\ []LastReadKept => []StoppedAtFirstEnd)
<1>1. Init => EndKept
  BY DEF Init, EndKept
<1>2. CodeRing /\ Inv /\ LastReadKept' /\ EndKept /\ [Next]_vars => EndKept'
  BY EndKeptNext
<1>3. Inv /\ BestInv /\ EndKept => StoppedAtFirstEnd
  <2> SUFFICES ASSUME Inv, BestInv, EndKept, stopped
               PROVE  /\ lastsync # NONE
                      /\ syncdata[lastsync].status # UNKNOWN /\ GetWinner \in Solvers
                      /\ \A s \in Slots : syncdata[s].syncnum > syncdata[lastsync].syncnum =>
                             syncdata[s].syncedcount < NSolvers
    BY DEF StoppedAtFirstEnd
  <2> DEFINE q == syncdata[lastsync].syncnum
  <2>1. /\ lastsync \in Slots /\ lastsync # NONE /\ syncdata[lastsync].status # UNKNOWN
        /\ q \in Nat /\ NSolvers \in Int
    <3>1. lastsync \in Slots /\ lastsync # NONE
      BY SyncStoreAssumption DEF EndKept, Slots, NONE
    <3>2. syncdata[lastsync] \in SyncData
      BY <3>1 DEF Inv, TypeOK
    <3> QED
      BY <3>1, <3>2, SyncStoreAssumption, FS_CardinalityType DEF EndKept, NSolvers, SyncData
  <2>2. GetWinner \in Solvers
    BY <2>1 DEF GetWinner, BestInv, BestKept, BestOf
  <2>3. ASSUME NEW s \in Slots, syncdata[s].syncnum > q, ~(syncdata[s].syncedcount < NSolvers)
        PROVE  FALSE
    <3>1. PICK e \in Solvers : Witness(e, q)
      BY DEF EndKept
    <3>2. syncdata[s] \in SyncData
      BY DEF Inv, TypeOK
    <3>3. syncdata[s].syncnum \in Int /\ syncdata[s].syncnum # NONE
          /\ syncdata[s].syncedcount >= NSolvers
      BY <2>1, <2>3, <3>2 DEF SyncData, NONE
    <3>4. syncdata[s].syncnum < nsyncs[e]
      BY <3>3, CompleteIsPassed
    <3> QED
      BY <2>1, <2>3, <3>1, <3>3, <3>4 DEF Witness
  <2> QED
    BY <2>1, <2>2, <2>3
<1>4. CodeRing => CodeRing'
  BY DEF CodeRing
<1> QED
  BY <1>1, <1>2, <1>3, <1>4, BestInvInit, BestInvNext, AlwaysInv, PTL DEF Spec

-----------------------------------------------------------------------------
(* The concurrent solve.                                                   *)

\* The number a solver wrote last shows a status.
Final(i) == nsyncs[i] > 0 /\ syncdata[SlotOf(nsyncs[i] - 1)].status # UNKNOWN

\* A solver that was stopped, or whose solve ended, wrote a number that shows it.
EndsRecorded ==
    \A i \in Solvers :
        /\ cstopped[i] => pc[i] \notin {"start", "write"} /\ Final(i)
        /\ pc[i] \in {"next", "ensure", "unlocked", "asleep", "read"} /\ status[i] # UNKNOWN => Final(i)
        /\ pc[i] = "done" => stopped \/ Final(i)

\* A status other than UNKNOWN that was written is the one its solver has.
StatusesStand ==
    \A s \in Slots, k \in Solvers :
        syncdata[s].wrote[k] \notin {NONE, UNKNOWN} => status[k] = syncdata[s].wrote[k]

\* The threads that took a job.
Ran == {t \in Solvers : ran[t] # 0}
JobsOk ==
    /\ \A t \in Solvers : ran[t] = 0 =>
          pc[t] = "solving" /\ status[t] = UNKNOWN /\ ~cstopped[t] /\ t \notin busy
    /\ \A t \in Solvers : ran[t] # 0 /\ t \notin busy => pc[t] = "done"
    /\ Cardinality(Ran) + queued = submitted

PoolOk ==
    /\ submitted \in Nat /\ queued \in Nat /\ busy \subseteq Solvers
    /\ ran \in [Solvers -> Nat] /\ nsolves \in Nat \ {0}
    /\ returned => AllCollected

StoreInv == Inv /\ BestInv /\ EndKept /\ EndsRecorded /\ StatusesStand

FirstSpread == nsolves = 1 /\ JobsSpread
ConcInv == PoolOk /\ (FirstSpread => StoreInv /\ JobsOk)

-----------------------------------------------------------------------------
(* The solvers and the store.                                              *)

\* What a solver wrote last is still in its slot.
LEMMA LastIsThere ==
    ASSUME Inv, NEW i \in Solvers, nsyncs[i] > 0
    PROVE  syncdata[SlotOf(nsyncs[i] - 1)].syncnum = nsyncs[i] - 1
<1>1. nsyncs[i] - 1 \in 0..nsyncs[i] /\ Started(i, nsyncs[i] - 1) /\ readnum[i] <= nsyncs[i] - 1
  BY Numbers DEF Started, Inv, ReadWritten
<1> QED
  BY <1>1 DEF Inv, NumbersKept

\* A status that was set is never taken back.
LEMMA SetStays ==
    ASSUME NEW d \in SyncData, NEW st \in StatusCodes, NEW i
    PROVE  /\ d.status # UNKNOWN => SetStatus(d, st, i).status # UNKNOWN
           /\ st # UNKNOWN => SetStatus(d, st, i).status # UNKNOWN
           /\ StopsSolver(SetStatus(d, st, i), i) <=> SetStatus(d, st, i).status # UNKNOWN
<1>1. /\ SetStatus(d, st, i).status = IF Replaces(d, st, i) THEN st ELSE d.status
      /\ d.status \in 0..15 /\ st \in 0..15
  BY DEF SetStatus, SyncData, StatusCodes
<1> QED
  BY <1>1 DEF Replaces, StopsSolver, UNKNOWN, OPTIMAL

\* What a solver wrote last keeps its status, as long as it writes nothing else.
LEMMA FinalStays ==
    ASSUME Inv, Inv', Next, NEW i \in Solvers, Final(i), nsyncs'[i] = nsyncs[i]
    PROVE  Final(i)'
<1>1. PICK q : q = nsyncs[i] - 1
  OBVIOUS
<1>2. PICK s : s = SlotOf(q)
  OBVIOUS
<1>3. q \in Nat /\ s \in Slots /\ syncdata[s].status # UNKNOWN
  BY <1>1, <1>2, Numbers, SlotType DEF Final, Inv
<1>4. syncdata[s].syncnum = q /\ syncdata'[s].syncnum = q
  <2>1. syncdata[s].syncnum = q
    BY <1>1, <1>2, LastIsThere DEF Final
  <2>2. q \in 0..nsyncs'[i] /\ q < nsyncs'[i] /\ readnum'[i] <= q
    <3>1. ReadWritten' /\ TypeOK' /\ nsyncs[i] \in Nat
      BY Numbers DEF Inv
    <3>2. readnum'[i] \in Int /\ readnum'[i] < nsyncs'[i]
      BY <3>1 DEF ReadWritten, TypeOK, NONE
    <3> QED
      BY <1>1, <1>3, <3>1, <3>2
  <2>3. NumbersKept'
    BY DEF Inv
  <2>4. syncdata'[s].syncnum = q
    BY <1>2, <2>2, <2>3 DEF NumbersKept, SlotOf, Started
  <2> QED
    BY <2>1, <2>4
<1>5. syncdata'[s].status # UNKNOWN
  <2>1. CASE syncdata'[s] = syncdata[s]
    BY <1>3, <2>1
  <2>2. CASE syncdata'[s] # syncdata[s]
    <3>1. PICK j \in Solvers : (StartSync(j) \/ FinishSync(j)) /\ s = SlotOf(nsyncs[j])
      BY <1>3, <2>2, SlotChange DEF Inv
    <3>2. CASE StartSync(j)
      <4>1. syncdata'[s] = IF syncdata[s].syncnum # nsyncs[j] THEN Fresh(nsyncs[j]) ELSE syncdata[s]
        BY <3>1, <3>2, StartWrites DEF Inv
      <4>2. Fresh(nsyncs[j]).syncnum = nsyncs[j]
        BY DEF Fresh
      <4> QED
        BY <1>4, <2>2, <4>1, <4>2
    <3>3. CASE FinishSync(j)
      <4>1. /\ syncdata[s] \in SyncData /\ status[j] \in StatusCodes
            /\ syncdata'[s].status = SetStatus(syncdata[s], status[j], j).status
        BY <3>1, <3>3, FinishWrites DEF Inv, TypeOK
      <4> QED
        BY <1>3, <4>1, SetStays
    <3> QED
      BY <3>1, <3>2, <3>3
  <2> QED
    BY <2>1, <2>2
<1> QED
  BY <1>1, <1>2, <1>3, <1>5 DEF Final, SlotOf

\* The step of one solver.
StepOf(i) == SolveStep(i) \/ SyncStep(i) \/ SpuriousWakeup(i)

\* It concerns the others only by waking them up, or by stopping the store.
LEMMA OthersStay ==
    ASSUME TypeOK, NEW i \in Solvers, StepOf(i)
    PROVE  /\ \A k \in Solvers \ {i} :
                 /\ nsyncs'[k] = nsyncs[k] /\ cstopped'[k] = cstopped[k] /\ status'[k] = status[k]
                 /\ pc'[k] = pc[k] \/ (pc[k] = "asleep" /\ pc'[k] = "ensure")
           /\ stopped => stopped'
<1> USE DEF TypeOK, store, Goto
<1>1. CASE SolveStep(i)
  BY <1>1 DEF SolveStep, EndSolve, BeginSync, SkipLastSync
<1>2. CASE StartSync(i)
  BY <1>2 DEF StartSync
<1>3. CASE FinishSync(i)
  BY <1>3 DEF FinishSync
<1>4. CASE LeaveSync(i) \/ GetNextSyncdata(i) \/ ReadSyncdata(i)
  BY <1>4 DEF LeaveSync, GetNextSyncdata, ReadSyncdata
<1>5. CASE EnsureSleep(i) \/ RegisterWait(i) \/ EnsureReturn(i) \/ SpuriousWakeup(i)
  BY <1>5 DEF EnsureSleep, RegisterWait, EnsureReturn, SpuriousWakeup
<1> QED
  BY <1>1, <1>2, <1>3, <1>4, <1>5 DEF StepOf, SyncStep

\* What is claimed of one solver.
EndRecorded(i) ==
    /\ cstopped[i] => pc[i] \notin {"start", "write"} /\ Final(i)
    /\ pc[i] \in {"next", "ensure", "unlocked", "asleep", "read"} /\ status[i] # UNKNOWN => Final(i)
    /\ pc[i] = "done" => stopped \/ Final(i)

\* The solver that steps.
LEMMA OwnEndRecorded ==
    ASSUME Inv, Inv', NEW i \in Solvers, StepOf(i), EndRecorded(i)
    PROVE  EndRecorded(i)'
<1>1. /\ pc \in [Solvers -> Points] /\ cstopped \in [Solvers -> BOOLEAN]
      /\ status \in [Solvers -> StatusCodes] /\ nsyncs \in [Solvers -> Nat]
      /\ stopped \in BOOLEAN
  BY DEF Inv, TypeOK
<1>2. Next
  BY DEF StepOf, Next
<1>3. CASE nsyncs'[i] = nsyncs[i]
  <2>1. Final(i) => Final(i)'
    BY <1>2, <1>3, FinalStays
  <2>2. stopped => stopped'
    BY OthersStay DEF Inv
  <2> HIDE DEF Final
  <2> USE <1>1, <2>1, <2>2 DEF EndRecorded, store, Goto
  <2>3. CASE EndSolve(i)
    BY <2>3 DEF EndSolve
  <2>4. CASE BeginSync(i)
    BY <2>4 DEF BeginSync
  <2>5. CASE SkipLastSync(i)
    BY <2>5 DEF SkipLastSync
  <2>6. CASE StartSync(i)
    BY <2>6 DEF StartSync
  <2>7. CASE LeaveSync(i)
    BY <2>7 DEF LeaveSync
  <2>8. CASE GetNextSyncdata(i) \/ ReadSyncdata(i)
    BY <2>8 DEF GetNextSyncdata, ReadSyncdata
  <2>9. CASE EnsureSleep(i) \/ RegisterWait(i) \/ EnsureReturn(i) \/ SpuriousWakeup(i)
    BY <2>9 DEF EnsureSleep, RegisterWait, EnsureReturn, SpuriousWakeup
  <2>10. ~FinishSync(i)
    BY <1>1, <1>3 DEF FinishSync
  <2> QED
    BY <2>3, <2>4, <2>5, <2>6, <2>7, <2>8, <2>9, <2>10 DEF StepOf, SolveStep, SyncStep
<1>4. CASE FinishSync(i)
  <2>1. PICK s : s = SlotOf(nsyncs[i])
    OBVIOUS
  <2>2. PICK d : d = SetStatus(syncdata[s], status[i], i)
    OBVIOUS
  <2>3. syncdata'[s].status = d.status /\ (status[i] # UNKNOWN => d.status # UNKNOWN)
        /\ (StopsSolver(d, i) <=> d.status # UNKNOWN)
    <3>1. syncdata[s] \in SyncData /\ status[i] \in StatusCodes /\ syncdata'[s].status = d.status
      BY <1>1, <1>4, <2>1, <2>2, FinishWrites DEF Inv
    <3> QED
      BY <2>2, <3>1, SetStays
  <2>4. nsyncs'[i] = nsyncs[i] + 1 /\ pc'[i] = "next" /\ status' = status /\ pc[i] = "write"
    BY <1>1, <1>4 DEF FinishSync
  <2>5. cstopped'[i] => d.status # UNKNOWN
    <3>1. ~cstopped[i]
      BY <2>4 DEF EndRecorded
    <3>2. cstopped' = [cstopped EXCEPT ![i] = @ \/ StopsSolver(d, i)]
      BY <1>4, <2>1, <2>2 DEF FinishSync
    <3>3. cstopped'[i] = (cstopped[i] \/ StopsSolver(d, i))
      BY <1>1, <3>2
    <3> QED
      BY <2>3, <3>1, <3>3
  <2>6. d.status # UNKNOWN => Final(i)'
    <3>1. nsyncs'[i] > 0 /\ nsyncs'[i] - 1 = nsyncs[i]
      BY <1>1, <2>4
    <3> QED
      BY <2>1, <2>3, <3>1 DEF Final, SlotOf
  <2> QED
    BY <2>3, <2>4, <2>5, <2>6 DEF EndRecorded
<1>5. nsyncs'[i] # nsyncs[i] => FinishSync(i)
  BY DEF StepOf, SolveStep, SyncStep, EndSolve, BeginSync, SkipLastSync, StartSync, LeaveSync,
         GetNextSyncdata, ReadSyncdata, EnsureSleep, RegisterWait, EnsureReturn, SpuriousWakeup
<1> QED
  BY <1>3, <1>4, <1>5

LEMMA EndsRecordedNext ==
    ASSUME Inv, Inv', EndsRecorded, NEW i \in Solvers, StepOf(i)
    PROVE  EndsRecorded'
<1>1. Next
  BY DEF StepOf, Next
<1>2. ASSUME NEW k \in Solvers
      PROVE  EndRecorded(k)'
  <2>1. EndRecorded(k)
    BY DEF EndsRecorded, EndRecorded
  <2>2. CASE k = i
    BY <2>1, <2>2, OwnEndRecorded
  <2>3. CASE k # i
    <3>1. /\ nsyncs'[k] = nsyncs[k] /\ cstopped'[k] = cstopped[k] /\ status'[k] = status[k]
          /\ pc'[k] = pc[k] \/ (pc[k] = "asleep" /\ pc'[k] = "ensure")
          /\ stopped => stopped'
      BY <2>3, OthersStay DEF Inv
    <3>2. Final(k) => Final(k)'
      BY <1>1, <3>1, FinalStays
    <3> HIDE DEF Final
    <3> QED
      BY <2>1, <3>1, <3>2 DEF EndRecorded
  <2> QED
    BY <2>2, <2>3
<1> QED
  BY <1>2 DEF EndsRecorded, EndRecorded

LEMMA StatusesStandNext ==
    ASSUME Inv, StatusesStand, NEW i \in Solvers, StepOf(i)
    PROVE  StatusesStand'
<1>1. status \in [Solvers -> StatusCodes] /\ syncdata \in [Slots -> SyncData]
  BY DEF Inv, TypeOK
<1> SUFFICES ASSUME NEW s \in Slots, NEW k \in Solvers,
                    syncdata'[s].wrote[k] \notin {NONE, UNKNOWN}
             PROVE  status'[k] = syncdata'[s].wrote[k]
  BY DEF StatusesStand
<1>2. CASE syncdata'[s] = syncdata[s]
  <2>1. status[k] = syncdata[s].wrote[k]
    BY <1>2 DEF StatusesStand
  <2>2. status'[k] = status[k]
    <3>1. CASE EndSolve(i)
      BY <1>1, <1>2, <2>1, <3>1 DEF EndSolve
    <3>2. CASE ~EndSolve(i)
      BY <3>2 DEF StepOf, SolveStep, SyncStep, BeginSync, SkipLastSync, StartSync, FinishSync,
             LeaveSync, GetNextSyncdata, ReadSyncdata, EnsureSleep, RegisterWait, EnsureReturn,
             SpuriousWakeup
    <3> QED
      BY <3>1, <3>2
  <2> QED
    BY <1>2, <2>1, <2>2
<1>3. CASE syncdata'[s] # syncdata[s]
  <2>1. Next
    BY DEF StepOf, Next
  <2>2. PICK j \in Solvers : (StartSync(j) \/ FinishSync(j)) /\ s = SlotOf(nsyncs[j])
    BY <1>3, <2>1, SlotChange DEF Inv
  <2>3. CASE StartSync(j)
    <3>1. syncdata'[s] = Fresh(nsyncs[j])
      BY <1>1, <1>3, <2>2, <2>3 DEF StartSync
    <3> QED
      BY <3>1 DEF Fresh
  <2>4. CASE FinishSync(j)
    <3>1. syncdata'[s].wrote = [syncdata[s].wrote EXCEPT ![j] = status[j]]
      BY <2>2, <2>4, FinishWrites DEF Inv
    <3>2. syncdata[s].wrote \in [Solvers -> StatusCodes \cup {NONE}] /\ status' = status
      BY <1>1, <2>4 DEF SyncData, FinishSync
    <3> QED
      BY <3>1, <3>2 DEF StatusesStand
  <2> QED
    BY <2>2, <2>3, <2>4
<1> QED
  BY <1>2, <1>3

\* Every step of a solver keeps what is known of the store.
LEMMA StepKeepsStore ==
    ASSUME CodeRing, StoreInv, LastReadKept', NEW i \in Solvers, StepOf(i)
    PROVE  StoreInv'
<1>1. Next
  BY DEF StepOf, Next
<1>2. Inv' /\ BestInv' /\ EndKept'
  BY <1>1, NextInv, BestInvNext, EndKeptNext DEF StoreInv
<1>3. EndsRecorded' /\ StatusesStand'
  BY <1>2, EndsRecordedNext, StatusesStandNext DEF StoreInv
<1> QED
  BY <1>2, <1>3 DEF StoreInv

\* One of the solvers has written least.
LEMMA LeastWritten ==
    ASSUME Inv
    PROVE  \E i \in Solvers : \A k \in Solvers : nsyncs[i] <= nsyncs[k]
<1> DEFINE T == {nsyncs[k] : k \in Solvers}
<1>1. nsyncs \in [Solvers -> Nat] /\ \E k : k \in Solvers
  BY SyncStoreAssumption DEF Inv, TypeOK
<1>2. T \subseteq Nat /\ T # {}
  BY <1>1
<1>3. PICK x \in T : \A y \in T : ~(<<y, x>> \in OpToRel(<, Nat))
  <2> HIDE DEF T
  <2> QED
    BY <1>2, NatLessThanWellFounded, WFMin
<1>4. \A y \in T : x <= y
  <2> HIDE DEF T
  <2>1. \A y \in T : ~(<<y, x>> \in OpToRel(<, Nat)) => ~(y < x)
    BY <1>2, Zenon DEF OpToRel
  <2>2. \A y \in T : ~(y < x)
    BY <1>3, <2>1, Zenon
  <2> QED
    BY <1>2, <2>2
<1> QED
  BY <1>4

\* When all solvers are done the store was stopped: the smallest of the numbers
\* they wrote last all have written, and it shows a status.
LEMMA DoneMeansStopped ==
    ASSUME Inv, EndsRecorded, AllDone
    PROVE  stopped
<1> SUFFICES ASSUME ~stopped PROVE FALSE
  OBVIOUS
<1>1. PICK i \in Solvers : \A k \in Solvers : nsyncs[i] <= nsyncs[k]
  BY LeastWritten
<1>2. Final(i)
  BY DEF AllDone, EndsRecorded
<1>3. PICK q : q = nsyncs[i] - 1
  OBVIOUS
<1>4. PICK s : s = SlotOf(q)
  OBVIOUS
<1>5. q \in Nat /\ s \in Slots /\ syncdata[s].status # UNKNOWN /\ syncdata[s].syncnum = q
  BY <1>2, <1>3, <1>4, Numbers, SlotType, LastIsThere DEF Final, Inv
<1>6. \A k \in Solvers : q < nsyncs[k]
  BY <1>1, <1>3, Numbers DEF Inv
<1>7. Writers(syncdata[s]) = Solvers
  BY <1>5, <1>6 DEF Inv, WritersKnown, Writers, NONE
<1>8. syncdata[s].syncedcount = NSolvers
  BY <1>5, <1>7 DEF Inv, WritersCounted, NSolvers
<1> QED
  BY <1>5, <1>8 DEF Inv, FinalStops

-----------------------------------------------------------------------------
(* The jobs.                                                               *)

LEMMA ConcInvInit ==
    ASSUME ConcInit
    PROVE  ConcInv
<1>1. Inv /\ BestInv /\ EndKept
  BY InitInv, BestInvInit DEF ConcInit, Init, EndKept
<1>2. EndsRecorded /\ StatusesStand
  BY DEF ConcInit, Init, EndsRecorded, StatusesStand, Fresh
<1>3. PoolOk
  BY DEF ConcInit, PoolOk
<1>4. JobsOk
  <2>1. Ran = {}
    BY DEF ConcInit, Ran
  <2> QED
    BY <2>1, FS_EmptySet DEF ConcInit, Init, JobsOk
<1> QED
  BY <1>1, <1>2, <1>3, <1>4 DEF ConcInv, StoreInv

LEMMA PoolOkNext ==
    ASSUME PoolOk, [ConcNext]_concvars
    PROVE  PoolOk'
<1> USE DEF PoolOk, AllCollected
<1>1. CASE SubmitJob
  BY <1>1 DEF SubmitJob, call
<1>2. CASE CollectJobs
  BY <1>2 DEF CollectJobs, pool
<1>3. CASE SolveAgain
  BY <1>3 DEF SolveAgain
<1>4. CASE Returned \/ UNCHANGED concvars
  BY <1>4 DEF Returned, concvars, pool, call
<1>5. ASSUME NEW t \in Solvers, StartJob(t) PROVE PoolOk'
  BY <1>5 DEF StartJob, JobWaits, call
<1>6. ASSUME NEW t \in Solvers, RunJob(t) PROVE PoolOk'
  BY <1>6 DEF RunJob, pool, call
<1>7. ASSUME NEW t \in Solvers, EndJob(t) PROVE PoolOk'
  BY <1>7 DEF EndJob, call
<1> QED
  BY <1>1, <1>2, <1>3, <1>4, <1>5, <1>6, <1>7 DEF ConcNext

\* Nobody takes a second job back.
LEMMA SpreadBefore ==
    ASSUME PoolOk, [ConcNext]_concvars, FirstSpread'
    PROVE  FirstSpread /\ ~SolveAgain
<1>1. ~SolveAgain
  BY DEF SolveAgain, PoolOk, FirstSpread
<1>2. nsolves = 1
  BY <1>1 DEF ConcNext, SubmitJob, CollectJobs, Returned, StartJob, RunJob, EndJob, concvars, call,
              FirstSpread
<1>3. \A t \in Solvers : ran[t] <= ran'[t]
  BY <1>1 DEF ConcNext, SubmitJob, CollectJobs, Returned, StartJob, RunJob, EndJob, concvars, pool,
              PoolOk
<1>4. JobsSpread
  <2>1. \A t \in Solvers : ran'[t] <= 1
    BY DEF FirstSpread, JobsSpread
  <2>2. \A t \in Solvers : ran[t] \in Nat /\ ran'[t] \in Nat
    BY PoolOkNext DEF PoolOk
  <2> QED
    BY <1>3, <2>1, <2>2 DEF JobsSpread
<1> QED
  BY <1>1, <1>2, <1>4 DEF FirstSpread

\* A step that leaves the solvers and the store alone.
LEMMA StoreStays ==
    ASSUME StoreInv, UNCHANGED vars
    PROVE  StoreInv'
BY DEF vars, store, solver, StoreInv, Inv, TypeOK, SlotNumbers, NumbersKept, WritersKnown,
       WritersCounted, Writers, ReadWritten, PointersRight, InReading, Delays, FinalStops, Started,
       BestInv, TypeInv, WritingHolds, WrittenBefore, BestKept, BestOf, Better, EndKept, Witness,
       EndsRecorded, Final, StatusesStand

\* A job that starts a solver for the first time changes nothing of it.
LEMMA StartJobSpread ==
    ASSUME PoolOk, StoreInv, JobsOk, NEW t \in Solvers, StartJob(t), JobsSpread'
    PROVE  StoreInv' /\ JobsOk'
<1>1. /\ pc \in [Solvers -> Points] /\ cstopped \in [Solvers -> BOOLEAN]
      /\ status \in [Solvers -> StatusCodes]
  BY DEF StoreInv, Inv, TypeOK
<1>2. ran' = [ran EXCEPT ![t] = @ + 1] /\ ran \in [Solvers -> Nat]
  BY DEF StartJob, PoolOk
<1>3. ran[t] = 0
  BY <1>2 DEF JobsSpread
<1>4. pc[t] = "solving" /\ status[t] = UNKNOWN /\ cstopped[t] = FALSE /\ t \notin busy
  BY <1>1, <1>3 DEF JobsOk
<1>5. pc' = pc /\ cstopped' = cstopped /\ status' = status
  <2>1. ~(status[t] >= OPTIMAL)
    BY <1>4 DEF UNKNOWN, OPTIMAL
  <2> QED
    BY <1>1, <1>4, <2>1 DEF StartJob
<1>6. UNCHANGED vars
  BY <1>5 DEF StartJob, vars, store, solver
<1>7. Ran' = Ran \cup {t} /\ t \notin Ran
  BY <1>2, <1>3 DEF Ran
<1>8. Cardinality(Ran') = Cardinality(Ran) + 1 /\ Cardinality(Ran) \in Nat
  <2>1. IsFiniteSet(Ran)
    BY SyncStoreAssumption, FS_Subset DEF Ran
  <2> QED
    BY <1>7, <2>1, FS_AddElement, FS_CardinalityType
<1>9. JobsOk'
  BY <1>2, <1>3, <1>4, <1>5, <1>8 DEF JobsOk, StartJob, PoolOk
<1> QED
  BY <1>6, <1>9, StoreStays

LEMMA RunJobSpread ==
    ASSUME CodeRing, PoolOk, StoreInv, LastReadKept', JobsOk, NEW t \in Solvers, RunJob(t)
    PROVE  StoreInv' /\ JobsOk'
<1>1. StepOf(t) /\ t \in busy /\ UNCHANGED <<submitted, queued, busy, ran>>
  BY DEF RunJob, StepOf, pool
<1>2. ran[t] # 0
  BY <1>1 DEF JobsOk
<1>3. Ran' = Ran
  BY <1>1 DEF Ran
<1>4. ASSUME NEW k \in Solvers
      PROVE  /\ ran'[k] = 0 => pc'[k] = "solving" /\ status'[k] = UNKNOWN /\ ~cstopped'[k] /\ k \notin busy'
             /\ ran'[k] # 0 /\ k \notin busy' => pc'[k] = "done"
  <2>1. CASE k = t
    BY <1>1, <1>2, <2>1
  <2>2. CASE k # t
    <3>1. /\ cstopped'[k] = cstopped[k] /\ status'[k] = status[k]
          /\ pc'[k] = pc[k] \/ (pc[k] = "asleep" /\ pc'[k] = "ensure")
      BY <1>1, <2>2, OthersStay DEF StoreInv, Inv
    <3> QED
      BY <1>1, <3>1 DEF JobsOk
  <2> QED
    BY <2>1, <2>2
<1>5. JobsOk'
  BY <1>1, <1>3, <1>4 DEF JobsOk
<1> QED
  BY <1>1, <1>5, StepKeepsStore

LEMMA ConcInvNext ==
    ASSUME CodeRing, ConcInv, LastReadKept', [ConcNext]_concvars
    PROVE  ConcInv'
<1>1. PoolOk /\ PoolOk'
  BY PoolOkNext DEF ConcInv
<1>2. ASSUME FirstSpread'
      PROVE  StoreInv' /\ JobsOk'
  <2>1. FirstSpread /\ ~SolveAgain
    BY <1>1, <1>2, SpreadBefore
  <2>2. StoreInv /\ JobsOk /\ JobsSpread'
    BY <1>2, <2>1 DEF ConcInv, FirstSpread
  <2>3. CASE SubmitJob
    <3>1. UNCHANGED vars
      BY <2>3 DEF SubmitJob
    <3>2. JobsOk'
      <4>1. Ran' = Ran /\ UNCHANGED <<pc, status, cstopped, busy, ran>>
        BY <2>3 DEF SubmitJob, Ran, vars, solver
      <4>2. Cardinality(Ran) \in Nat
        BY SyncStoreAssumption, FS_Subset, FS_CardinalityType DEF Ran
      <4> QED
        BY <1>1, <2>2, <2>3, <4>1, <4>2 DEF JobsOk, SubmitJob, PoolOk
    <3> QED
      BY <2>2, <3>1, <3>2, StoreStays
  <2>4. CASE CollectJobs \/ Returned \/ UNCHANGED concvars
    <3>1. UNCHANGED vars /\ UNCHANGED pool
      BY <2>4 DEF CollectJobs, Returned, concvars
    <3>2. JobsOk'
      BY <2>2, <3>1 DEF JobsOk, Ran, vars, solver, pool
    <3> QED
      BY <2>2, <3>1, <3>2, StoreStays
  <2>5. ASSUME NEW t \in Solvers, StartJob(t) PROVE StoreInv' /\ JobsOk'
    BY <1>1, <2>2, <2>5, StartJobSpread
  <2>6. ASSUME NEW t \in Solvers, RunJob(t) PROVE StoreInv' /\ JobsOk'
    BY <1>1, <2>2, <2>6, RunJobSpread
  <2>7. ASSUME NEW t \in Solvers, EndJob(t) PROVE StoreInv' /\ JobsOk'
    <3>1. UNCHANGED vars
      BY <2>7 DEF EndJob
    <3>2. JobsOk'
      BY <2>2, <2>7, <3>1 DEF JobsOk, Ran, EndJob, vars, solver
    <3> QED
      BY <2>2, <3>1, <3>2, StoreStays
  <2> QED
    BY <2>1, <2>3, <2>4, <2>5, <2>6, <2>7 DEF ConcNext
<1> QED
  BY <1>1, <1>2 DEF ConcInv

LEMMA AlwaysConcInv == CodeRing => (ConcSpec /\ []LastReadKept => []ConcInv)
<1>1. CodeRing /\ ConcInv /\ LastReadKept' /\ [ConcNext]_concvars => ConcInv'
  BY ConcInvNext
<1>2. CodeRing => CodeRing'
  BY DEF CodeRing
<1> QED
  BY <1>1, <1>2, ConcInvInit, PTL DEF ConcSpec

-----------------------------------------------------------------------------
(* The result.                                                             *)

\* As long as the slots read last are kept: when the first call of
\* SCIPconcurrentSolve has collected its jobs, and each thread took one, the
\* store has a winner, and the winner's own solver ended with the status of the
\* store, so that copying its solutions and statistics gives the result.
THEOREM FirstCallHasWinner == CodeRing => (ConcSpec /\ []LastReadKept => []WinnerIfSpread)
<1>1. ConcInv => WinnerIfSpread
  <2> SUFFICES ASSUME ConcInv, returned, nsolves = 1, JobsSpread
               PROVE  GetWinner \in Solvers /\ status[GetWinner] = syncdata[lastsync].status
    BY DEF WinnerIfSpread
  <2>1. StoreInv /\ JobsOk /\ AllCollected
    BY DEF ConcInv, FirstSpread, PoolOk
  <2>2. Ran = Solvers
    <3>1. Ran \subseteq Solvers /\ Cardinality(Ran) = Cardinality(Solvers)
      <4>1. Cardinality(Ran) + 0 = Cardinality(Solvers) /\ Ran \subseteq Solvers
        BY <2>1 DEF JobsOk, AllCollected, NSolvers, Ran
      <4>2. Cardinality(Ran) \in Nat
        BY <4>1, SyncStoreAssumption, FS_Subset, FS_CardinalityType
      <4> QED
        BY <4>1, <4>2
    <3> QED
      BY <3>1, SyncStoreAssumption, FS_Subset
  <2>3. AllDone
    BY <2>1, <2>2 DEF JobsOk, AllCollected, AllDone, Ran
  <2>4. stopped
    BY <2>1, <2>3, DoneMeansStopped DEF StoreInv
  <2>5. lastsync \in Slots /\ lastsync # NONE /\ syncdata[lastsync].status # UNKNOWN
    BY <2>1, <2>4, SyncStoreAssumption DEF StoreInv, EndKept, Slots, NONE
  <2>6. PICK w : w = syncdata[lastsync].winner
    OBVIOUS
  <2>7. w \in Solvers /\ syncdata[lastsync].wrote[w] = syncdata[lastsync].status
    BY <2>1, <2>5, <2>6 DEF StoreInv, BestInv, BestKept, BestOf
  <2>8. syncdata[lastsync].status \in StatusCodes
    BY <2>1, <2>5 DEF StoreInv, Inv, TypeOK, SyncData
  <2>9. status[w] = syncdata[lastsync].status
    BY <2>1, <2>5, <2>7, <2>8 DEF StoreInv, StatusesStand, StatusCodes, NONE
  <2>10. GetWinner = w
    BY <2>5, <2>6 DEF GetWinner
  <2> QED
    BY <2>7, <2>9, <2>10
<1> QED
  BY <1>1, AlwaysConcInv, PTL
=============================================================================
