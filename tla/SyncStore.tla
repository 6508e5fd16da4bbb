----------------------------- MODULE SyncStore -----------------------------
(***************************************************************************)
(* The synchronization store of SCIP's concurrent solve: a ring of         *)
(* nsyncdata slots (scip/src/scip/syncstore.c) through which the           *)
(* concurrent solvers exchange what they found, and the loop of            *)
(* SCIPconcsolverSync (scip/src/scip/concsolver.c) that writes to it and   *)
(* reads from it.                                                          *)
(*                                                                         *)
(* Each solver writes synchronization number 0, 1, 2, ... into slot        *)
(* number % nsyncdata and may read a number once all solvers have written  *)
(* it.  A solver may lag behind with reading, to hide the time the others  *)
(* need, but never by more than maxnsyncdelay numbers: that, and the size  *)
(* of the ring, is all that keeps a slot from being reused too early.      *)
(*                                                                         *)
(* What is exchanged (solutions, bounds) is the subject of SyncData; here  *)
(* a slot holds the status, the winner and who has written it.             *)
(***************************************************************************)
EXTENDS Integers, FiniteSets, FiniteSetsExt

CONSTANTS Solvers,        \* the idx of each concurrent solver
          NSyncdata,      \* the length of the array syncdata
          MaxDelay,       \* maxnsyncdelay
          Statuses,       \* the statuses SCIPsolve may end with
          AtomicWait,     \* does waiting on a condition release the lock and wait in one step?
          MaxSyncs        \* bound: no solver starts a synchronization beyond this number

\* SCIP_STATUS
UNKNOWN == 0
USERINTERRUPT == 1
OPTIMAL == 11
StatusCodes == 0..15

\* getNSyncdata
CodeNSyncdata == 2 * (MaxDelay + 1)

ASSUME SyncStoreAssumption ==
    /\ IsFiniteSet(Solvers) /\ Solvers \subseteq Nat /\ Solvers # {}
    /\ NSyncdata \in Nat \ {0}
    /\ MaxDelay \in Nat
    /\ Statuses \subseteq StatusCodes \ {UNKNOWN}
    /\ AtomicWait \in BOOLEAN
    /\ MaxSyncs \in Nat

NONE == -1     \* NULL for a slot, nobody for a lock

VARIABLES
    syncdata,    \* the slots
    lock,        \* who holds the lock of each slot
    stopped,     \* syncstore->stopped
    lastsync,    \* syncstore->lastsync: a slot or NONE
    pc,          \* control point of each solver
    status,      \* SCIPgetStatus of each solver's SCIP
    cstopped,    \* concsolver->stopped
    nsyncs,      \* concsolver->nsyncs
    csyncdata,   \* concsolver->syncdata: the slot read last or NONE
    target,      \* the slot each solver is about to read, or NONE
    readnum      \* history: the number each solver read last

store  == <<syncdata, lock, stopped, lastsync>>
solver == <<pc, status, cstopped, nsyncs, csyncdata, target, readnum>>
vars   == <<store, solver>>

Slots == 0..(NSyncdata - 1)
SlotOf(num) == num % NSyncdata
NSolvers == Cardinality(Solvers)

\* The fields of SCIP_SYNCDATA that matter here; wrote is history: the status
\* each solver wrote to the current number, UNKNOWN included, or NONE.
SyncData == [syncnum : Nat \cup {NONE}, syncedcount : Nat, status : StatusCodes,
             winner : Nat, wrote : [Solvers -> StatusCodes \cup {NONE}]]

\* Mutant of Fresh: no winner instead of solver 0.
FreshNoWinner(num) == [syncnum |-> num, syncedcount |-> 0, status |-> UNKNOWN, winner |-> NONE,
                       wrote |-> [i \in Solvers |-> NONE]]

Fresh(num) == [syncnum |-> num, syncedcount |-> 0, status |-> UNKNOWN, winner |-> 0,
               wrote |-> [i \in Solvers |-> NONE]]

Points == {"solving", "start", "write", "next", "ensure", "unlocked", "asleep", "read", "done"}

TypeOK ==
    /\ syncdata \in [Slots -> SyncData]
    /\ lock \in [Slots -> Solvers \cup {NONE}]
    /\ stopped \in BOOLEAN
    /\ lastsync \in Slots \cup {NONE}
    /\ pc \in [Solvers -> Points]
    /\ status \in [Solvers -> StatusCodes]
    /\ cstopped \in [Solvers -> BOOLEAN]
    /\ nsyncs \in [Solvers -> Nat]
    /\ csyncdata \in [Solvers -> Slots \cup {NONE}]
    /\ target \in [Solvers -> Slots \cup {NONE}]
    /\ readnum \in [Solvers -> Nat \cup {NONE}]

Init ==
    /\ syncdata = [s \in Slots |-> Fresh(NONE)]
    /\ lock = [s \in Slots |-> NONE]
    /\ stopped = FALSE
    /\ lastsync = NONE
    /\ pc = [i \in Solvers |-> "solving"]
    /\ status = [i \in Solvers |-> UNKNOWN]
    /\ cstopped = [i \in Solvers |-> FALSE]
    /\ nsyncs = [i \in Solvers |-> 0]
    /\ csyncdata = [i \in Solvers |-> NONE]
    /\ target = [i \in Solvers |-> NONE]
    /\ readnum = [i \in Solvers |-> NONE]

-----------------------------------------------------------------------------
(* Solving and calling SCIPconcsolverSync.                                 *)

Goto(i, point) == pc' = [pc EXCEPT ![i] = point]

\* SCIPsolve returns: on its own account, or interrupted because the solver or
\* the store was stopped.
EndSolve(i) ==
    /\ pc[i] = "solving" /\ status[i] = UNKNOWN
    /\ \E st \in Statuses \cup (IF cstopped[i] \/ stopped THEN {USERINTERRUPT} ELSE {}) :
          status' = [status EXCEPT ![i] = st]
    /\ UNCHANGED <<store, pc, cstopped, nsyncs, csyncdata, target, readnum>>

\* SCIPconcsolverSync is called, by an event while solving or by execConcsolver
\* after SCIPsolve; neither the solver nor the store is stopped.
BeginSync(i) ==
    /\ pc[i] = "solving"
    /\ ~cstopped[i] /\ ~stopped
    /\ status[i] # UNKNOWN \/ nsyncs[i] < MaxSyncs
    /\ Goto(i, "start")
    /\ UNCHANGED <<store, status, cstopped, nsyncs, csyncdata, target, readnum>>

\* The last call of SCIPconcsolverSync returns at once; the job is finished.
SkipLastSync(i) ==
    /\ pc[i] = "solving" /\ status[i] # UNKNOWN
    /\ cstopped[i] \/ stopped
    /\ Goto(i, "done")
    /\ UNCHANGED <<store, status, cstopped, nsyncs, csyncdata, target, readnum>>

-----------------------------------------------------------------------------
(* Writing.  The lock of the slot is held from StartSync to FinishSync;    *)
(* what others read without the lock they may read in between.             *)

\* SCIPsyncstoreStartSync after the test of the stopped flag, which is read
\* under another lock.
StartSync(i) ==
    LET s == SlotOf(nsyncs[i])
    IN /\ pc[i] = "start"
       /\ lock[s] = NONE
       /\ lock' = [lock EXCEPT ![s] = i]
       /\ syncdata' = [syncdata EXCEPT ![s] =
                          IF @.syncnum # nsyncs[i] THEN Fresh(nsyncs[i]) ELSE @]
       /\ Goto(i, "write")
       /\ UNCHANGED <<stopped, lastsync, status, cstopped, nsyncs, csyncdata, target, readnum>>

\* Mutant of Replaces: a status beyond OPTIMAL replaces any other.
ReplacesByLarger(d, st, i) == st > d.status \/ (st = d.status /\ i < d.winner)

\* SCIPsyncdataSetStatus: the new status replaces the old one.
Replaces(d, st, i) ==
    \/ /\ d.status < OPTIMAL
       /\ st > d.status \/ (st = d.status /\ i < d.winner)
    \/ /\ d.status > OPTIMAL /\ st >= OPTIMAL
       /\ st < d.status \/ (st = d.status /\ i < d.winner)

SetStatus(d, st, i) ==
    IF Replaces(d, st, i) THEN [d EXCEPT !.status = st, !.winner = i] ELSE d

\* Mutant of StopsStore: the first solver that ends stops the store.
StopsStoreAtOnce(d, all) == d.status # UNKNOWN

\* The last solver to write a number that ends the solve stops the store.
StopsStore(d, all) == all /\ d.status # UNKNOWN

\* A solver that finds a status in the slot stops.
StopsSolver(d, i) == d.status # UNKNOWN

LastSync(s, all) == IF all THEN s ELSE lastsync

\* The callback concsolversyncwrite, the solver's own stop and
\* SCIPsyncstoreFinishSync, up to the release of the lock.
FinishSync(i) ==
    LET s   == SlotOf(nsyncs[i])
        d   == SetStatus(syncdata[s], status[i], i)
        all == d.syncedcount + 1 = NSolvers
    IN /\ pc[i] = "write"
       /\ syncdata' = [syncdata EXCEPT ![s] =
                          [d EXCEPT !.syncedcount = @ + 1, !.wrote[i] = status[i]]]
       /\ cstopped' = [cstopped EXCEPT ![i] = @ \/ StopsSolver(d, i)]
       /\ stopped' = (stopped \/ StopsStore(d, all))
       /\ lastsync' = LastSync(s, all)
       /\ lock' = [lock EXCEPT ![s] = NONE]
       /\ nsyncs' = [nsyncs EXCEPT ![i] = @ + 1]
       /\ pc' = [k \in Solvers |->
                   IF k = i THEN "next"
                   ELSE IF all /\ pc[k] = "asleep" /\ target[k] = s THEN "ensure" ELSE pc[k]]
       /\ UNCHANGED <<status, csyncdata, target, readnum>>

-----------------------------------------------------------------------------
(* Reading.                                                                *)

\* The number SCIPsyncstoreGetNextSyncdata would read next: it takes it from
\* the slot read last, without the slot's lock.
NextNum(i) == IF csyncdata[i] = NONE THEN 0 ELSE syncdata[csyncdata[i]].syncnum + 1

\* Mutant of NothingToRead: reading goes on past the end of the solve.
NothingToReadPastEnd(i) == NextNum(i) = nsyncs[i]

\* The solver read what ended the solve, or it has read all it has written.
NothingToRead(i) ==
    \/ csyncdata[i] # NONE /\ syncdata[csyncdata[i]].status # UNKNOWN
    \/ NextNum(i) = nsyncs[i]

\* Mutant of MayPutOff: the delay is bounded one number too late.
MayPutOffOneMore(i) == NextNum(i) >= nsyncs[i] - MaxDelay - 1

\* Reading may be put off when the delay would get too small, unless the
\* number is too old; the delay, a time, is not modelled.
MayPutOff(i) == NextNum(i) >= nsyncs[i] - MaxDelay

\* Back to SCIPsolve, or the end of the job.
LeaveSync(i) ==
    /\ pc[i] = "next"
    /\ NothingToRead(i) \/ MayPutOff(i)
    /\ Goto(i, IF status[i] = UNKNOWN THEN "solving" ELSE "done")
    /\ UNCHANGED <<store, status, cstopped, nsyncs, csyncdata, target, readnum>>

GetNextSyncdata(i) ==
    /\ pc[i] = "next"
    /\ ~NothingToRead(i)
    /\ target' = [target EXCEPT ![i] = SlotOf(NextNum(i))]
    /\ Goto(i, "ensure")
    /\ UNCHANGED <<store, status, cstopped, nsyncs, csyncdata, readnum>>

\* Mutant of AllSynced: one solver may be missing.
AllSyncedButOne(s) == syncdata[s].syncedcount >= NSolvers - 1

AllSynced(s) == syncdata[s].syncedcount >= NSolvers

\* SCIPsyncstoreEnsureAllSynced waits on the condition allsynced: the thread
\* pool of tinycthread has conditions of the system, that of OpenMP releases
\* the lock before it takes a number to wait for ...
EnsureSleep(i) ==
    /\ pc[i] = "ensure"
    /\ lock[target[i]] = NONE
    /\ ~AllSynced(target[i])
    /\ Goto(i, IF AtomicWait THEN "asleep" ELSE "unlocked")
    /\ UNCHANGED <<store, status, cstopped, nsyncs, csyncdata, target, readnum>>

\* ... which it does under the lock of the condition; a broadcast in between
\* goes to the numbers taken before.
RegisterWait(i) ==
    /\ pc[i] = "unlocked"
    /\ Goto(i, "asleep")
    /\ UNCHANGED <<store, status, cstopped, nsyncs, csyncdata, target, readnum>>

SpuriousWakeup(i) ==
    /\ pc[i] = "asleep"
    /\ Goto(i, "ensure")
    /\ UNCHANGED <<store, status, cstopped, nsyncs, csyncdata, target, readnum>>

\* ... or finds the slot complete.
EnsureReturn(i) ==
    /\ pc[i] = "ensure"
    /\ lock[target[i]] = NONE
    /\ AllSynced(target[i])
    /\ Goto(i, "read")
    /\ UNCHANGED <<store, status, cstopped, nsyncs, csyncdata, target, readnum>>

\* The callback concsolversyncread, without any lock.
ReadSyncdata(i) ==
    /\ pc[i] = "read"
    /\ csyncdata' = [csyncdata EXCEPT ![i] = target[i]]
    /\ readnum' = [readnum EXCEPT ![i] = syncdata[target[i]].syncnum]
    /\ target' = [target EXCEPT ![i] = NONE]
    /\ Goto(i, "next")
    /\ UNCHANGED <<store, status, cstopped, nsyncs>>

-----------------------------------------------------------------------------
SyncStep(i) ==
    \/ StartSync(i) \/ FinishSync(i) \/ LeaveSync(i) \/ GetNextSyncdata(i)
    \/ EnsureSleep(i) \/ RegisterWait(i) \/ EnsureReturn(i) \/ ReadSyncdata(i)

SolveStep(i) == EndSolve(i) \/ BeginSync(i) \/ SkipLastSync(i)

AllDone == \A i \in Solvers : pc[i] = "done"
Terminated == AllDone /\ UNCHANGED vars

Next ==
    \/ \E i \in Solvers : SolveStep(i) \/ SyncStep(i) \/ SpuriousWakeup(i)
    \/ Terminated

Spec == Init /\ [][Next]_vars

\* Every thread runs; SCIPsolve ends, and the call of SCIPconcsolverSync that
\* follows it is made.
Fairness ==
    \A i \in Solvers : /\ WF_vars(SyncStep(i))
                       /\ WF_vars(EndSolve(i))
                       /\ WF_vars(status[i] # UNKNOWN /\ (BeginSync(i) \/ SkipLastSync(i)))

FairSpec == Spec /\ Fairness

-----------------------------------------------------------------------------
(* Properties.                                                             *)

\* A solver that still takes part.
Takes(i) == pc[i] # "done" /\ ~cstopped[i]

\* "It cannot ever happen that a synchronization data is reused while still
\* not read by any thread" (getNSyncdata): when a slot gets a new number,
\* every solver that still takes part has read the old one.
NoUnreadReuse ==
    [][\A s \in Slots : LET old == syncdata[s].syncnum
                        IN (old # NONE /\ syncdata'[s].syncnum # old) =>
                             \A i \in Solvers : Takes(i) => readnum[i] >= old]_vars

\* The assertion of SCIPsyncstoreGetNextSyncdata: the number to be read is
\* still, or already, in the ring.
NextExists == \A i \in Solvers :
    (pc[i] = "next" /\ ~NothingToRead(i)) => syncdata[SlotOf(NextNum(i))].syncnum = NextNum(i)

\* The two assertions of SCIPconcsolverSync where the last solver to write a
\* number compares it with the number before, whose slot it reads without its
\* lock: that number is still there, and complete.
PreviousComplete ==
    \A i \in Solvers :
        LET m == nsyncs[i]
            d == syncdata[SlotOf(m)]
            e == syncdata[SlotOf(m - 1)]
        IN (pc[i] = "write" /\ m > 0 /\ d.syncedcount = NSolvers - 1) =>
              e.syncnum = m - 1 /\ e.syncedcount = NSolvers

\* The three assertions hold.
AssertionsHold == NextExists /\ PreviousComplete

\* A slot is never reset while a solver has still to write its number.
NoPartialReuse ==
    [][\A s \in Slots : LET old == syncdata[s].syncnum
                        IN (old # NONE /\ syncdata'[s].syncnum # old) =>
                             syncdata[s].syncedcount = NSolvers]_vars

\* Every solver reads the same numbers, one after the other without a gap,
\* and each only after all solvers have written it: what the deterministic
\* mode rests on.
ReadsInOrder ==
    [][\A i \in Solvers : readnum'[i] # readnum[i] =>
          /\ readnum'[i] = readnum[i] + 1
          /\ \A k \in Solvers : syncdata[target[i]].wrote[k] # NONE]_vars

\* The slot a solver copies from is not touched while it reads.
ReadUndisturbed ==
    [][\A i \in Solvers : (pc[i] = "read" /\ pc'[i] = "read") =>
          syncdata'[target[i]] = syncdata[target[i]]]_vars

\* What is read, all have read alike, and the unlocked reading of it is safe.
ReadsExact == ReadsInOrder /\ ReadUndisturbed

\* The slot each solver read last still holds the number it read there.  The
\* code's ring does not see to it (SyncStoreCodeRing), but nothing else goes
\* wrong in it: with this, a ring of CodeNSyncdata slots keeps what it should.
LastReadKept ==
    \A i \in Solvers : csyncdata[i] # NONE => syncdata[csyncdata[i]].syncnum = readnum[i]

\* Nobody begins to write with maxnsyncdelay numbers, or more, left unread: one
\* less than MayPutOff admits.  Solvers in step with each other keep to it.
PromptReaders ==
    \A i \in Solvers : pc[i] = "start" => nsyncs[i] - readnum[i] <= MaxDelay

\* Closer to SCIP_STATUS_OPTIMAL: first OPTIMAL, then the codes above it in
\* ascending order, then those below it in descending order.
Better(a, b) == \/ a >= OPTIMAL /\ b < OPTIMAL
                \/ a >= OPTIMAL /\ b >= OPTIMAL /\ a < b
                \/ a < OPTIMAL /\ b < OPTIMAL /\ a > b

\* When all solvers have written, the slot shows the best status any of them
\* has written, whatever the order of the writes, and the winner wrote it; of
\* several that wrote it, the winner has the smallest id, unless it is OPTIMAL.
WinnerIsBest ==
    \A s \in Slots : LET d == syncdata[s] IN
        (d.syncedcount = NSolvers /\ d.status # UNKNOWN) =>
            /\ d.winner \in Solvers /\ d.wrote[d.winner] = d.status
            /\ \A k \in Solvers : ~Better(d.wrote[k], d.status)
            /\ d.status # OPTIMAL => \A k \in Solvers : d.wrote[k] = d.status => d.winner <= k

\* SCIPsyncstoreGetWinner.
GetWinner == IF lastsync = NONE \/ syncdata[lastsync].status = UNKNOWN THEN NONE
             ELSE syncdata[lastsync].winner

\* The store is stopped by the first number that ends the solve, which has a
\* winner, and no later number is ever complete.
StoppedAtFirstEnd ==
    stopped => /\ lastsync # NONE
               /\ syncdata[lastsync].status # UNKNOWN /\ GetWinner \in Solvers
               /\ \A s \in Slots : syncdata[s].syncnum > syncdata[lastsync].syncnum =>
                      syncdata[s].syncedcount < NSolvers

\* All solvers come to an end: nobody waits for a number that is never
\* completed because another solver has stopped before writing it.
AllReturn == <>AllDone

\* They do unless a solver went to sleep on a number that was completed
\* between its releasing the lock and its registering: this is the only way to
\* miss the broadcast of SCIPsyncstoreFinishSync.
WakeupMissed == \E i \in Solvers : pc[i] = "asleep" /\ AllSynced(target[i])
AllReturnUnlessMissed == []~WakeupMissed => <>AllDone
=============================================================================
