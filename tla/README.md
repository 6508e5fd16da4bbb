# TLA+ models of the SCIP Optimization Suite 6.0.2

This directory holds formal models of the parts of the suite that have a
protocol. In SCIP: the thread pool behind its task processing interface (TPI),
the synchronization store through which concurrent solvers exchange what they
find, the exchange itself, and the call that ties them together,
`SCIPconcurrentSolve`; the event queue with its filters; the arrays of a
constraint handler under delayed updates. In UG: the load coordinator, its
solvers and the message queues between them. The modules are translated from the
C and C++ sources; TLC checks them on small instances, and TLAPS proves the
invariants of the pool, the store, the exchange, the concurrent solve, the
constraint arrays, the event queue and the load coordination for all sizes.

Paths are relative to the directory that holds `src/`. `PROJECT.json` maps every
definition to the source lines it stands for, and lists the hazards, the
disagreements between code and comments, and the theorems.

- [1. The system](#1-the-system)
- [2. Modules](#2-modules)
- [3. From code to model](#3-from-code-to-model)
- [4. Runs, bounds and fairness](#4-runs-bounds-and-fairness)
- [5. What was found](#5-what-was-found)
- [6. What is proved](#6-what-is-proved)
- [7. What is not modelled](#7-what-is-not-modelled)
- [8. Plan](#8-plan)

## 1. The system

The suite is a collection of programs around the branch-and-bound framework
SCIP. Most of its two million lines are numerical algorithms behind callback
interfaces (plugins, LP solvers, SoPlex, GCG), input formats (ZIMPL, readers)
and test data. The parts with a *protocol* (state shared by threads, processes
or re-entrant callbacks) are few; they are what this project is about.

### Inventory

**Task processing interface, thread pool** (`scip/src/tpi/tpi_tnycthrd.c`).
State: a queue of jobs, a list of jobs being executed, a list of finished jobs,
all singly linked through `nextjob` of the same job struct; flags `queueopen`
and `shutdown`, a counter of working threads and the current job id; one lock,
five conditions. Operations: `SCIPtpiInit`, `SCIPtpiGetNewJobID`,
`SCIPtpiCreateJob`, `SCIPtpiSumbitJob`, `SCIPtpiCollectJobs`, `SCIPtpiExit`, and
the loop of each worker. Hard: lost wakeups, a shutdown that races with
submissions, jobs that change lists without having their `nextjob` reset.
Correct when every accepted job runs once, in the order of submission, a collect
waits for exactly its jobs and yields the smallest code, nothing sleeps for
ever, and the lists describe where the jobs are.

**Task processing interface, OpenMP** (`scip/src/tpi/tpi_openmp.c`). The same
interface on OpenMP tasks; condition variables are built from three counters
and OpenMP locks. Hard: the lock is released before the waiter registers, and
jobs are counted before they are listed.

**TPI stub and tinycthread** (`tpi_none.c`, `scip/src/tinycthread`). The stub
executes a job when it is submitted. tinycthread is a vendored wrapper of the
system's threads.

**Synchronization store** (`scip/src/scip/syncstore.c`, `struct_syncstore.h`)
and the **synchronization loop of a concurrent solver**
(`scip/src/scip/concsolver.c`). State: a ring of slots with a number, a count of
the solvers that have written it, a status and a winner, each with a lock; the
flag `stopped`, the slot of the last complete number; in each solver the count
of numbers written, the slot read last, the flag `stopped`. Operations:
`SCIPsyncstoreStartSync`, `FinishSync`, `EnsureAllSynced`, `GetNextSyncdata`,
`GetWinner`, `SCIPsyncdataSetStatus`, `SCIPconcsolverExec`, `SCIPconcsolverSync`.
Hard: slots are reused, several fields are read without the slot's lock, a
solver may lag behind in reading, solvers stop at different numbers. Correct when
no slot is reused too early, all solvers read the same numbers in the same
order, all of them return, and the winner is the best.

**Exchange of solutions and bounds** (`concsolver_scip.c`, `boundstore.c`,
`event_globalbnd.c`). State: sorted arrays of objectives, sources and buffers in
a slot; a store of bound changes with positions per variable and side. Hard: the
result must not depend on the order of the writes, arrays move together, a reset
leaves old entries behind.

**Concurrent solve** (`concurrent.c`). Submits one job per solver, collects them,
takes over the result of the winner; can be called again. Hard: a job is not
bound to a solver.

**Sync heuristic and sync propagator** (`heur_sync.c`, `prop_sync.c`). Buffers
between the exchange and the branch-and-bound of a solver; filled while the
solver is somewhere in its own loop.

**Event queue and event filters** (`event.c`, called from `var.c`). State: a queue
of events with, in each variable, the index of its waiting event; in each
variable a filter: arrays of types and handlers, a list of free slots, a list of
deleted slots, a mask, a delayed mask. Operations: `SCIPeventqueueAdd`,
`SCIPeventqueueDelay`, `SCIPeventqueueProcess`, `SCIPeventProcess`,
`SCIPeventfilterAdd`, `SCIPeventfilterDel`, `SCIPeventfilterProcess`. Hard:
everything is re-entrant; a handler that is called changes bounds and edits the
filter it is called from. Correct when the LP and each handler hear of every
change in order, merged or not, and no slot is lost.

**Constraint handling framework** (`cons.c`). State: arrays of constraints (to
check, enforce, separate, propagate), each with useful constraints before
obsolete ones, the last also with marked ones before both; positions in the
constraints; counters of the last enforcement; requests that wait while a
callback of the handler runs. Operations: activate, deactivate, enable, disable,
switch the propagation on and off, mark and unmark, age, enforce. Hard: every
change is a constant number of swaps across up to three borders; requests of
one callback meet in the queue; the enforcement skips what it has seen. Correct
when the arrays stay parted, a delayed request has the effect of an immediate one,
and no constraint is skipped that was not enforced.

**Other parts of the SCIP core.** *Tree and node selection* (`tree.c`,
`nodesel.c`): path switching, fork reference counts, a priority queue with a
lower-bound slot. *Primal storage* (`primal.c`, `sol.c`): a sorted array of
solutions, duplicates, cutoff bound. *Solving loop* (`solve.c`, `scip_solve.c`):
the stage machine, restarts. *Stores and pools* (`cutpool.c`, `sepastore.c`,
`pricestore.c`): bounded stores with ageing. *Reoptimization* (`reopt.c`). *LP,
variables, numerics, presolving* (`lp.c`, `var.c`, `presolve.c`).

**UG** (`ug/src/ug`, `ug/src/ug_scip`). A framework for parallel
branch-and-bound: a load coordinator and solvers that exchange some forty kinds
of messages (`paraTagDef.h`) over pthreads, C++11 threads or MPI. State: a pool
of nodes with their genealogy, the current node of each solver, the incumbent, a
queue of messages per process. Hard: answers cross completions, solutions are held
back, nodes are given away while their parts are elsewhere, termination with
messages in flight, checkpoints. Correct when no part of the search and no
solution is lost, also by a restart from a checkpoint, and the run ends.

**Plugins, interfaces, GCG, SoPlex, ZIMPL, applications and examples.**
Numerical algorithms, adapters, parsers and users of the library.

### Interaction of the modelled parts

```
 SCIPconcurrentSolve --submit, collect--> thread pool (TPI)
        |                                    |  job: execConcsolver, with the
        | winner                             v  number of the thread that took it
        |                              SCIPconcsolverExec --> SCIPsolve (callbacks)
        v                                    |  SCIPconcsolverSync, from events
 synchronization store  <---write, read------+
   ring of slots: status, winner, solutions, bounds (SyncData)
```

The solvers share nothing but the store and the pool. A solver writes number n
under the lock of slot `n % nsyncdata`, and reads it, without a lock, once all
have written it.

Within one SCIP everything is sequential but re-entrant: a bound change calls
`SCIPeventqueueAdd`, which calls handlers, which change bounds; a callback of a
constraint handler calls functions that change the constraints of the handler.
The event queue and the constraint arrays are modelled one at a time, each with
an environment that makes every legal call at every point where control is
outside the module or in one of its callbacks.

UG runs one SCIP per solver and talks to it from a callback only:

```
 load coordinator <== Solution, SolverState, Node, AnotherNodeRequest, Completion ==  solver
   node pool       == Node, IncumbentValue, NotificationId, NoNodes, ... ==>  (SCIP)
```

## 2. Modules

| module | what it is |
|---|---|
| `JobPool` | what `tpi.h` promises of a pool, without lists, locks and conditions |
| `TpiPool` | `tpi_tnycthrd.c` down to the pointers of the lists; implements `JobPool` |
| `TpiPoolProofs` | theorems about `TpiPool`: its queue and sleeping workers, its three lists and collects, and the promise of `JobPool` |
| `SyncStore` | the ring of the store, and the loop of `SCIPconcsolverSync` |
| `SyncData` | what one slot carries: solutions and bounds, written and read by several solvers |
| `SyncDataProofs` | theorems about `SyncData` |
| `ConcurrentSolve` | `SCIPconcurrentSolve` over `SyncStore` and the abstract pool, called repeatedly |
| `ConcurrentSolveProofs` | theorems about `SyncStore`, and the one about the winner of the first call |
| `EventQueue` | `event.c` for events of lower bounds: queue, filters, calls of handlers |
| `EventQueueProofs` | theorems about `EventQueue` |
| `ConsStates` | what `cons.h` promises: every request takes effect at once |
| `ConsArrays` | the arrays of `cons.c` with delayed updates; implements `ConsStates` |
| `ConsArraysProofs` | theorems about `ConsArrays` |
| `LoadCoordination` | load coordinator, solvers and message queues of UG |
| `LoadCoordinationProofs` | theorems about `LoadCoordination`: what each solver, the load coordinator and their queues tell together |
| `LoadTreeProofs` | the nodes of all together: the load coordinator's steps lose no leaf |
| `LoadCoverProofs` | nor do the solvers' steps; theorems about checkpoints, deleted nodes and the answer |
| `MC...` | constants of the runs: small sets, symmetry |

`ConcurrentSolve` extends `SyncStore` and uses the pool by its promise: an idle
thread takes the oldest job, collecting waits for all. That the pool keeps the
promise is checked separately (`ImplementsJobPool`), which keeps the composition
small enough to check liveness.

## 3. From code to model

**TpiPool.** All shared fields are accessed under one lock, so each critical
section is one action, named after the function, with the branch it takes: the
worker loop is `WorkerStart`, `WorkerSleep`, `WorkerTake`, `WorkerFinish`,
`WorkerExit`; `threadPoolAddWork` is `SubmitQueueFull`, `SubmitSleep`,
`SubmitRejected`, `SubmitJob`; `SCIPtpiCollectJobs` is `CollectSleep` and
`CollectReturn`; `freeThreadPool` is `ExitClose` to `ExitFree`, with the two
broadcasts after the unlock as steps of their own. A thread that waits on a
condition is at a waiting control point: a signal moves one of them back to the
test of its loop, a broadcast all, and a spurious wakeup may move any at any
time. The three lists are `firstjob`, `lastjob`, `njobs` and the shared
`nextjob`; scans (`CheckJobQueue`) follow `nextjob` exactly as the code does,
and a scan that reaches `NULL` or a freed job sets `fault`. The history variable
`place` says where each job really is; the properties compare the two. The
codes are ordered as in `SCIP_RETCODE`: errors are below `SCIP_OKAY`.

**SyncStore.** `StartSync` takes the slot's lock and resets the slot when it
holds another number; `FinishSync` stands for the write callback (status and
winner by `SCIPsyncdataSetStatus`), the count, the stop of the store, the wakeup
of those that wait, and the unlock. Everything in between is invisible to others
except to those that read without the lock, and those read what `StartSync` left.
The reading side is `GetNextSyncdata` (number and status of the slot read last,
*without* a lock, as in the code), `EnsureSleep`, `EnsureReturn`, `ReadSyncdata`
or `LeaveSync`. Whether a solver goes on reading depends in the code on a
measured delay; the model lets it choose as long as it lags behind by at most
`maxnsyncdelay` numbers. `SCIPsolve` is `EndSolve`: it ends with a status of its
own, or is interrupted when the solver or the store has stopped. History:
`readnum` (number read last) and `wrote` (status each solver wrote to the
number).

**SyncData.** `SyncWrite` is `concsolverScipSyncWrite` for a solver that goes on:
its solutions one by one into the sorted arrays (`InsertPos`, `Inserted`,
`Replaced`), with the pointers of the buffers moved as in
`SCIPsyncdataGetSolutionBuffer`, then the merge of its bound store
(`BoundAdded`). `SyncRead` is `concsolverScipSyncRead`, with its early return.
`Reset` is the reset of the slot for another number: counts and positions only,
old entries stay. `FindBounds` is the event handler `globalbnd`. The bound store
is a function of index with a separate length, so that stale entries exist.
Objectives and bounds are small integers; a solution is its objective and its
source.

**ConcurrentSolve.** `SubmitJob`, `StartJob(t)` (thread t runs the solver with
index t, as `concurrent.c:467` does), `RunJob` (a step of `SyncStore`), `EndJob`,
`CollectJobs`; `SolveAgain` is a second call on the same solvers and store, which
resets the store's flag `stopped` and nothing else.

**EventQueue.** `ChangeLb` is `varProcessChgLbLocal` up to the event:
`SCIPeventqueueAdd` puts it into the queue, merges it, or processes it at once.
`BeginQueue`, `NextEvent` and `EndQueue` are `SCIPeventqueueProcess`.
`SCIPeventfilterProcess` is a frame on `stack` (event, next slot, length when it
began, whether anyone was called), its loop is `CallHandler` and `EndFilter`.
While a handler is being called it may do what the solver may do outside:
`ChangeLb`, `Catch`, `Drop`, and so start another frame. A bound is not changed
immediately while the filter of its variable is being processed: the code
asserts it (`!eventfilter->delayupdates`), SCIP delays events there. Filters are
translated slot by slot: the arrays, the free list threaded through `nextpos`, the
list of deleted slots and both masks. The LP hears of differences
(`lp + new - old`), as the pseudo objective value in `SCIPeventProcess` does.
History: `view`, the bound a handler knows from its catching and its events, and
`sure`, whether no event of its variable waited when it caught. Upper bounds are
the mirror image, objective changes are merged the same way. Arrays are taken to
be large enough; see section 5, point 7.

**ConsArrays.** `h` holds what `struct SCIP_Conshdlr` and the flags of the
constraints hold: lists with the number of useful (and marked) ones; positions
are looked up in the lists. The moves (`Added`, `Deleted`, `ToObsolete`,
`ToUseful`, `ToMarked`, `ToUnmarked`) are the swaps of the code, and the operators
named like `conshdlrEnableCons` call them in the order of the code. Each request is
carried out at once, or noted when a callback runs (`Request`, `Note`:
`conshdlrAddUpdateCons` and the flags `update...`). `Enforce(s)` is
`SCIPconshdlrEnforceLPSol`, `...EnforceRelaxSol` or `...EnforcePseudoSol` up to the
callback, where s is the kind of solution. The three have counters of their own
that say whether the solution was enforced before (`counted`; they also ask for the
last result, which `Return` leaves open), but one and the same
`lastnusefulenfoconss`, up to which constraints are skipped then. `Call` is any
other callback, `Return` the end of either; `ProcessUpdate` is one pass of the loop
of `conshdlrProcessUpdates`, from the last noted constraint to the first.
`NewSolution` is a change of the domains or the node, which makes all solutions new,
or of the LP or the relaxation alone. History: `seen`, the constraints enforced on
each solution, and `unsettled`, the solutions for which the code may overlook a
constraint, in one of three cases (section 5, points 3 and 15).
Requests about propagation concern constraints that have the flag `propagate`.

**LoadCoordination.** A node is a set of leaves; each leaf has a bound and the
value of its best solution, so that "the search is complete" can be stated. The load
coordinator is a record `lc` (pool, current nodes, incumbent, phase), and a
message handler an operator from `[lc, box]` to the same (`NodeTaken`,
`SolutionTaken`, ... for `processTag...`); one action handles one message, whose
answers are sent in the same step. A solver is at a control point between nodes,
in its solve, in the callback, or waiting for an answer; waiting for messages of
some tags takes the first such message from the queue, as `paraCommPth.cpp` does,
and leaves the rest. A solver evaluates its leaves in any order, may report,
ask for another node, or give a leaf away whenever the conditions of the code on
messages and bounds allow it: the times and counts that decide in the code are
left open. The bound that goes with a report, a request or a given part is that of the
leaves it is about; the code sends the larger one of this and the bound of the solver's
current node (`paraSolver.cpp:1539`, 1629), which is the stronger statement, and as true as
long as the bound of the node is. Nodes are deleted one after the other (`Deleted`, `DeletedBehind`), since what
one deletion hands on to an ancestor is seen by the next. Fresh ids are the least unused
ones, so that the state space is finite. `sync` is `NotificationSynchronization = 0`.
`Reasks` says whether a solver that has received its new node in a wait of the callback
may still ask for another before it leaves the callback. The checked runs have `FALSE`:
`sendAnotherNodeRequest` is called while fewer than `NStopSolvingMode` nodes are solved
and at least two (`scipParaObjCommPointHdlr.cpp:649`, 697), and with the default of 3 that
is at one node only, where no earlier request can have been answered. `TRUE` is for larger
values; see section 5, point 12.

## 4. Runs, bounds and fairness

| run | question | result |
|---|---|---|
| `pool_safe` | do lists, wakeups, shutdown and collecting stay right in all interleavings of two clients? | holds |
| `pool_promise` | does the pool implement `JobPool`, and do collect and exit return? | holds |
| `store` | is a ring of `2*maxnsyncdelay + 3` slots long enough, what rests on it, and do solvers that end differently all return, with the best status winning? | holds |
| `ring_of_the_code` | is the ring of `getNSyncdata`, `2*(maxnsyncdelay+1)`, long enough? | violated |
| `omp_lost_wakeup` | do all solvers return with the condition variables of `tpi_openmp.c`? | violated |
| `exchange` | is the content of a slot the best solutions and tightest bounds, in every order? | holds |
| `solve_returns` | does `SCIPconcurrentSolve` return, twice, with a proper winner the first time? | holds when each thread takes one job, and no slot read last is reset |
| `events` | do the queue, the LP, the handlers and the filters agree whatever the handlers do? | holds |
| `cons` | do the arrays stay parted, do delays change nothing, is anything overlooked? | holds, but for three excepted cases |
| `cons_overlooked` | is nothing overlooked in the first of these cases? | violated |
| `ug_one` | is the search with one solver complete, also from a checkpoint, and does it end? | holds when reports are waited for |
| `ug_two` | do two solvers that share the search find the best solution? | holds |

### Bounds

*Pool.* `pool_safe`: three workers, two clients, four jobs, a queue of two, and
symmetry of workers and jobs (safety only). Three workers are needed for a job
to be unlinked from the head, the middle and the tail of the current jobs; four
jobs for a list to be refilled after a collect and for a full queue next to
running jobs; two clients for a submission that sleeps while another client
closes the pool. `Retcodes` are one error and `SCIP_OKAY`. An id is opened
only when the older ones are collected (`OverlapIds = FALSE`), as SCIP does;
`OverlapIds = TRUE` lifts that (section 5, point 5). The safety properties of both
runs are settled for all sizes by the theorems of section 6. A client asks for a new id
only when the last one has a job, which bounds `currentid` by the number of jobs. `pool_promise`: two
workers, one client, three jobs, no symmetry because of liveness; it runs with
`BlockWhenFull`, `pool_safe` without, so both branches of `threadPoolAddWork`
are covered (SCIP itself: `SCIPtpiInit(nsolvers, INT_MAX, FALSE)`,
`syncstore.c:175`).

*Store.* `MaxSyncs` bounds the numbers at which a synchronization starts while
the solve goes on. `store` uses two solvers, `MaxDelay = 1`, five slots and
`MaxSyncs = 8`, so that slots are reused at least once with every lag the delay
allows, and three statuses (a limit, the optimum, infeasibility: one of each
branch of `SCIPsyncdataSetStatus`). `AtomicWait = FALSE` includes every behaviour of an
atomic wait, and those of `tpi_openmp.c`. The safety questions of the store are settled
for all sizes by the theorems of section 6; that every solver returns is not. `ring_of_the_code` needs
`MaxSyncs = 12` to reach the reuse with OPTIMAL as the only status.

*Exchange.* Three solvers, arrays of three solutions, up to four new solutions of a
solver (which then shares three of them), so that arrays overflow and ties occur
within a solver and between solvers; two variables; two lists of bound changes that
improve their own bounds, overlap, and are merged in every order. `Reset` allows any
number of rounds. `INFINITY` exceeds every bound in use. The four properties are
settled for all sizes by the theorems of section 6.

*Concurrent solve.* Two solvers, two calls, `MaxDelay = 1` and the ring of
`getNSyncdata` for it, four slots. Numbers go on in the second call, on slots and
pointers the first one left. `MaxSyncs = 7`: a solver that ended the first call at
number 0 can write numbers up to 6 of its own accord, and one more at its end, so that
every slot the first call left is used again, those still to be read by the other among
them. Two statuses, a limit and the optimum, since a second call needs a solver that is
not done; the order of three is the subject of `store`. That the first call has a
winner is settled for all sizes by the theorem of section 6; that calls return is not.

*Events.* Two variables, one of which is in the LP and one is tracked only while a
handler has caught its events; three values, so that a change can be continued,
turned and undone; a handler of both types and one of a single type on the same
variable, a third on the other; four changes and four edits, enough for an
immediate change inside the processing of a waiting one, and for a slot that is
deleted, freed and used again. The four properties are settled for all sizes by the
theorems of section 6.

*Constraints.* `cons`: two constraints, both of them either checked and enforced or
propagated (the array of the propagation shares no state with the other two but
the flags), LP and pseudo solutions (a relaxation solution is treated as an LP
solution, with one more result that asks for a full enforcement), callbacks nested twice,
three requests that wait at a time, so that requests for one constraint meet with one for the other. Constraints are symmetric.
Arrays in which a part has a first, a last and a moved element need three
constraints; they are what the theorems of section 6 settle, which cover all
properties of the run for any set of constraints. `cons_overlooked` has three
constraints, LP solutions only, no ageing and no nesting.

*UG.* `ug_one`: one solver, three leaves (the one with the best bound is not the
best; a node of two of them gets worse than the third), both settings of
`NotificationSynchronization`, a time limit that may pass at any time. `ug_two`:
two solvers and two leaves, for parts that are given from one solver to another and
for incumbents that are told to the other, without the time limit, which `ug_one`
covers. `Inf` exceeds every value. Deadlock is not checked: the run ends.

### Fairness

`TpiPool!FairSpec`: weak fairness of each worker's steps and of the steps of a
client inside a call; that is a scheduler that runs every runnable thread, and
job functions that return. Nobody is forced to make a call, and spurious wakeups
are never forced, so no liveness property rests on them. Weak fairness is
enough for a lock: a critical section is one action that stays enabled.

`SyncStore!FairSpec`: weak fairness of each solver's steps inside
`SCIPconcsolverSync`, that `SCIPsolve` ends, and that the last synchronization
after it is made, as `SCIPconcsolverExec` and `execConcsolver` do
unconditionally. `BeginSync` while solving is *not* fair: a solver need not reach
another synchronization event.

`ConcurrentSolve!FairConcSpec`: the above for the jobs being executed, plus an
idle thread that takes a waiting job (what `JobPool!Fairness` promises), and a
main thread that submits and collects. A second call is never forced.

`LoadCoordination!Spec`: weak fairness of the load coordinator and of each solver
(each is a thread in a loop that handles the next message or goes on), and strong
fairness of the exploration of a leaf: the search of SCIP goes on between two
messages of its callback, whatever messages come; without it two solvers could
exchange nodes for ever without working on them.

`EventQueue` and `ConsArrays` are sequential code called by an environment; their
properties are safety properties and need no fairness.

Deadlock is checked in every run but those of `LoadCoordination`. A pool that was freed or has a fault, a store
whose solvers are all done, and a call that has returned stutter by an action of
their own (`Terminated`, `Returned`), so any other stop would be reported.

### What the passing properties say

Of the pool: `NoFault` (no scan follows a stale pointer), `PointersExact` (each
list leads from `firstjob` to `lastjob` through exactly its jobs, although
`nextjob` is never reset), `WakeupsSuffice` (while a worker sleeps there are as
many awake workers as jobs, although each job signals once), `NoJobAbandoned`
(the queue is empty when and after `shutdown` is set), `CollectComplete` (a
collect returns only when all its jobs are finished, and takes them all, with the
smallest code), `ImplementsJobPool`, `CollectReturns`, `ExitReturns`.

Of the store: `NoUnreadReuse` (a slot is reset only when all have read, hence
written, its number), `AssertionsHold` (the assertions at `syncstore.c:389` and in
`SCIPconcsolverSync`), `ReadsExact` (all read the same numbers in order, and
what the unlocked reads rest on), `WinnerIsBest`, `StoppedAtFirstEnd`,
`AllReturnUnlessMissed` (with the waiting of `tpi_openmp.c` nothing but the missed
broadcast of section 5, point 2, keeps a solver from returning; with conditions of
the system, `AtomicWait = TRUE`, there is no such moment).

Of the exchange: `BuffersMatch`, `SolutionsAreBest`, `OthersReceived`,
`BoundsAreTightest`: the slot is a function of what was written, not of the
order, and each solver gets exactly the others' share of it.

Of the concurrent solve: `SolveReturns` and `WinnerIfSpread`, both under the
premise that no thread takes a second job (`JobsSpread`), and `SolveReturns` also under
`LastReadKept`: no slot is reset while it is the one a solver read last. Without the
premises the code does not have these properties (next section, points 4 and 16).
`SolveReturns` says that nothing else keeps a call from returning, in particular a
second call, in which solvers find the statuses of the first in slots they have not read.

Of the events: `QueueCurrent` (a waiting event carries the oldest old and the newest
new bound, and each variable knows its own), `LPCurrent` (the sum of the differences
is exact at every moment), `ViewCurrent` (a handler that has caught both types hears
of a chain of changes without a gap, although filters are edited and events merged
under way), `SlotsAccounted` (each slot is used, deleted or free, and in one list).

Of the constraint arrays: `ArraysParted` (what `checkConssArrays` tests in debug
builds), `UpdatesAgree` (the assertions of `conshdlrProcessUpdates`, for callers that
do not enable what they have asked to disable), `ArraysStill` (nothing moves during a
callback), `NoneOverlooked` (the enforcement of a solution skips nothing that was not
enforced on it, but for the excepted cases), `ImplementsConsStates` (a request takes effect when it is made;
carrying it out later changes nothing).

Of UG: `CheckpointCovers` (a run restarted from what a checkpoint saves, the nodes
without an ancestor, finds a best solution, as long as the incumbent is not one),
`NoneBetterKilled` (a node whose bound lets the load coordinator delete it holds
nothing better than the incumbent; `UG_DEBUG_SOLUTION` throws "Optimal solution going
to be killed." otherwise),
`SyncedAnswerIsOptimal` (the answer of a run that was not cut short),
`SolutionKept` (a solution that prunes the search is known to the coordinator, on
its way, or kept), `Conversation` (each report and request has exactly one answer),
`AgreeOnNode` (coordinator and solver mean the same node), `Returns` (the run ends,
unless a solver has terminated without having been made inactive).

## 5. What was found

Three disagreements have a run that shows them.

1. **The ring is one slot too short** (`ring_of_the_code`; `syncstore.c:53`).
   `getNSyncdata` is to make it impossible that a slot "is reused while still not
   read by any thread". A solver may return from the exchange with
   `maxnsyncdelay` unread numbers and start the next; another may be
   `maxnsyncdelay + 2` ahead of what the first has read. With
   `2*(maxnsyncdelay+1)` slots the leader resets a slot the other has still to
   read. One more slot is enough, which is proved, and so is what the code's ring keeps
   as long as nobody's last slot is reset (section 6).
2. **A wait of the OpenMP interface misses a broadcast** (`omp_lost_wakeup`;
   `tpi_openmp.c:294`). The lock is released before the waiter is registered. A
   solver that found a number incomplete can be overtaken by the one that
   completes it, and sleeps for ever.
3. **The enforcement overlooks new constraints** (`cons_overlooked`;
   `cons.c:1058`). When a useful constraint leaves `enfoconss`, the last useful one
   takes its place, and `lastnusefulenfoconss` is set so that this one is not
   skipped; but when the one that left was itself behind the counter, the
   counter grows, and the new constraints before it are skipped by the next
   enforcement of the same solution. `conshdlrMarkConsObsolete` (l. 441) has a
   relative of it: when an enforced constraint grows obsolete, a new one may be
   moved before the counter. Both are excepted in `NoneOverlooked` by the history
   variable `unsettled`, and so is point 15.

The following were met while modelling. Their configurations are easily restored
from the modules as described; no run is kept for them.

4. **A fast thread takes two jobs** (`concurrent.c:467`). A job runs the solver of
   the thread that takes it; when a thread is done before another has started, it
   takes the second job, its solver runs again, the other never does, and no
   number is ever complete. The call ends without a winner, and the assertion at
   l. 518 fails; with `MaxSolves = 1` the state predicate
   `returned => GetWinner \in Solvers` is violated in `ConcurrentSolve`.
5. **Stale `nextjob` pointers** (`tpi_tnycthrd.c:504`). With jobs of two ids in the
   pool, a scan can run along the `nextjob` a job kept from its last list, to `NULL`
   or to freed memory: with `OverlapIds = TRUE`, `NoFault` is violated. With one open
   id at a time, as in SCIP, it holds.
6. **Enabling what was asked to be disabled** (`cons.c:6808`). During a callback
   `SCIPconsEnable` after `SCIPconsDisable` of the same constraint notes both requests,
   and `conshdlrProcessUpdates` fails its assertions, or, without them, enters the
   constraint into the arrays twice; the same the other way round. With
   `Reenables = TRUE`, `UpdatesAgree` is violated.
7. **Arrays move under the loop** (`event.c:2028`). `SCIPeventfilterProcess` keeps a
   pointer to `eventtypes` over the calls of the handlers; additions are put at the
   end so as not to "destroy the validity of the arrays we are currently iterating
   over" (l. 1819), but when the arrays are full, `eventfilterEnsureMem` moves them.
8. **A submission to a full queue is never woken** (`tpi_tnycthrd.c:131`). The
   condition it waits on is signalled only in the mode in which nobody waits on it.
   Latent: SCIP's queue is `INT_MAX` long.
9. **A tie of two `OPTIMAL` goes to the first writer** (`syncstore.c:645`), against
   the comment that ties are broken by the id. For all other statuses `WinnerIsBest`
   includes that the smallest id wins.
10. **The first bound that is not better ends the loop** (`concsolver_scip.c:720`):
    the rest of the bound changes of that number is dropped, where the comment
    speaks of the one change only.
11. **A solution may be lost** (`paraSolver.cpp:1385`, `scipParaSolver.cpp:1234`) when
    reports are not waited for: a solution kept back because a report is open is
    offered again at the end of the solve, is not better than itself, and is
    deleted. With `NotificationSynchronization = 0` this cannot happen
    (`SolutionKept`).
12. **A node may be put back with the bound of another** (`paraLoadCoordinator.cpp:2334`).
    A solver may receive the new node B in the wait of its callback
    (`waitMessageIfNecessary`), which resets `anotherNodeIsRequested`, and then, still in
    the callback, ask for another node with the bound of the node A it is about to leave
    (`scipParaObjCommPointHdlr.cpp:710`). The load coordinator, for which the solver has B
    by now, gives B the bound of A and puts it back into the pool, from which it may be
    deleted although it holds the best solution: what `UG_DEBUG_SOLUTION` throws "Optimal
    solution going to be killed." for (l. 2318, 3499, 3531). It takes two requests in one
    node, hence `NStopSolvingMode > 3` or a `TimeStopSolvingMode > 0`. With `N = 1`, `Reasks = TRUE`,
    `SyncModes = {TRUE}` and four leaves, "a1", "a2", "b", "c" with bounds 1, 4, 2, 2 and values
    3, 4, 2, 3, TLC finds `NoneBetterKilled` violated in 36 steps; with `Reasks = FALSE`
    the instance has no such state.
13. **A solver that terminates by itself** when the time limit passes may leave the
    load coordinator waiting for its completion (`paraLoadCoordinator.cpp:2449`);
    `Returns` excepts this state.
14. The assertions at `cons.c:479` and `cons.c:582` compare `markpropagate` with its
    negation: they say of a marked constraint that it lies outside the marked part.
15. **Solutions of two kinds share one counter** (`cons.c:3255`, 3446, 3657). A
    constraint that is added after the LP solution was enforced, and then enforced on a
    relaxation or a pseudo solution, is before `lastnusefulenfoconss` when the same LP
    solution is enforced again, and is skipped, although the comment at l. 3409 says
    that all constraints "not yet enforced on the new LP solution" are behind it (for
    pseudo solutions l. 3623). It takes an enforcement of both kinds without a change
    of the domains, the node or the LP in between; `enforceConstraints` chooses the kind
    in each of its calls (`solve.c:3435`-3453). With two constraints and the constants of
    `cons`, `NoneEverOverlooked` is violated in five steps: a constraint is added and
    enforced on the LP solution, another is added, and both are enforced on the pseudo
    solution.
16. **A call may hang on a slot that was reset** (`syncstore.c:369`).
    `SCIPsyncstoreGetNextSyncdata` takes number and status of the slot a solver read
    last from the slot itself. *In a second call*, a solver whose last slot shows a
    status of the first call gets `NULL` each time: it reads nothing, never waits, and runs ahead. It
    resets slots that the other has read last or still has to write; the other in turn
    resets the slot of a number the first has written, and each waits for a number that
    is never complete. Two solvers that both ended the first call at number 0 get there
    with numbers up to 6, `MaxDelay = 1` and five slots. *In the first call*, with the
    four slots of the code's ring: solver 0 has read number 0, whose slot solver 1 resets
    to number 4; solver 0 computes its next number from 4, skips what it had to read,
    runs ahead to number 7 and resets the slot of number 3, for which solver 1 waits. This
    is a consequence of point 1. Both are violations of `[]JobsSpread => []<>returned` in
    `ConcurrentSolve`: with the constants of `solve_returns` and five slots, and with
    those constants and `MaxSolves = 1`. With five slots and `MaxSolves = 1` it holds.

Recorded without a verdict, because nothing in the repository says what should
hold: a client that was woken inside `SCIPtpiSumbitJob` or `SCIPtpiCollectJobs` while
another frees the pool uses it after it is freed (`fault = "freedpool"` in the
model; SCIP has one client); a second `SCIPconcurrentSolve` that completes no
number of its own takes over the winner of the first call; a handler that was
dropped while its filter is processed is still called in that round, and one that
catches while an event waits hears of an old bound it never knew; a report about
the old node that is handled after the new one was sent sets the new one's
dual bound at the coordinator (`paraSolverPool.cpp:1525`), which only steers
whom it asks for nodes.

## 6. What is proved

`TpiPoolProofs`, `SyncDataProofs`, `ConcurrentSolveProofs`, `ConsArraysProofs`,
`EventQueueProofs`, `LoadCoordinationProofs`, `LoadTreeProofs` and `LoadCoverProofs` are
checked by TLAPS. The theorems hold for every value of the constants that meets the named assumptions of
the modules: `ConstantsAssumption` (finite sets of workers, clients and jobs, a
natural queue size), `SyncStoreAssumption` (a finite non-empty set of natural
numbers as solvers, at least one slot, status codes other than UNKNOWN as results),
`ConsArraysAssumption` (the flags check, enforce and propagate are sets of
constraints; the set of constraints may be any set), `SolversAssumption`,
`SolListsAssumption` and `BoundListsAssumption` (finite sets of solvers, whose ids are
natural numbers, and of variables; arrays of natural length; lists of solutions that
are sorted, best first), `VarsAssumption` and `HandlersAssumption` (the bounds are
integers with a least one; every handler catches at least one type of event), and
`NAssumption`, `ValueAssumption`, `BoundAssumption`, `SyncAssumption` (at least one
solver; leaves, of any number, with natural bounds not above their values; reports
that are waited for, or not, or both).

**Pool** (any number of workers, clients and jobs, both modes, overlapping ids or
not). The inductive invariant `IInv` is

- `TypeOK`;
- `ThreadsCounted`: `currworkingthreads` is the number of active threads; needed
  because `TypeOK` bounds the counter and a single decrement does not show it
  stays natural;
- `RunningHaveJobs`: a worker that executes has a job, needed where `wjob` is
  unlinked;
- `NoJobAbandoned` and `WakeupsSuffice`, which are inductive with these: a job is
  added only when `shutdown` is not set, and `shutdown` is set only with an empty
  queue; a job added with somebody asleep wakes one more worker, and a worker
  falls asleep only with an empty queue.

Theorems: `TypeCorrect`, `NoJobIsAbandoned`, `NoWakeupIsLost`.

**Lists and promise of the pool** (any number of workers, clients and jobs, both
modes), under `~OverlapIds`: an id is opened only when the older ones are collected,
which is what `SCIPconcurrentSolve` does, the only caller. With overlapping ids the
theorems fail (section 5, point 5). The invariant `PInv` adds to `IInv`

- `ListsHold`: there are sequences `Q`, `C`, `F` of the jobs that are queued, running
  and finished, such that in each list `nextjob` leads from `firstjob` through the
  sequence to `lastjob`. Beyond the ends (`Stale`): the last running job, and `firstjob`
  of an empty list of running jobs, point to the head of the queue or nowhere; the
  last finished job to one that is queued or running, or nowhere. These are why a scan
  that runs on does no harm;
- `WorkersHold`, `ClientsHold`: workers that execute and clients that submit have
  different jobs, the former in `C`, the latter in no list;
- `IdsHold`: all jobs in the lists have an id that is open, of which there is one;
- `ClosedHold`: while a client closes the pool, the queue is not open;
- `NoFault`.

The walks along the lists (`checkJobQueue`, the search of a worker's job, the
collection of the finished jobs) are recursive functions in `TpiPool`. As the theorems for
induction are out of reach, the proofs take a least counterexample (lemma
`LeastNat`, from the well-foundedness of `<`). Theorems: `PointersStayExact`,
`ScansAreSafe`, `CollectsAreComplete`, and `PoolKeepsPromise`, the safety part of the
refinement: the contents of the lists are those of `JobPool`, and every step of the
pool is a step of `JobPool` or changes nothing of it.

**Store** (any number of solvers, any `maxnsyncdelay`, any statuses). Two things hold
for a ring of any length: `StoreTypes`, and `BestSolverWins`, by an invariant (`BestInv`)
about one slot at a time. The slot a solver is writing to holds its number
(`WritingHolds`), because it has the lock; nobody writes to a number twice
(`WrittenBefore`); and the status of a slot is the best of those written so far
(`BestKept`), by induction over the writes, because "better" is a strict order and
`SCIPsyncdataSetStatus` replaces exactly by a better one.

The rest depends on the length. The code's ring, `CodeNSyncdata == 2 * (MaxDelay + 1)`, is
one slot short (section 5, point 1), but in one way only: the slot that is reset too
early is the one somebody read last. `LastReadKept` says that this does not happen:
the slot a solver read last still shows the number it read there. The theorems about the
store are

- under `CodeRing == NSyncdata >= CodeNSyncdata`, the code's ring and longer ones, for
  behaviours with `[]LastReadKept`: `NextIsThere`, `PreviousIsComplete`,
  `NoPartialNumberIsLost`, `ReadsAreOrdered`, `ReadingIsUndisturbed`, `FirstEndStands`,
  and `AssertionsAlwaysHold` and `ReadsAreExact`, which combine them to what the run
  `store` checks;
- `PromptReadersKeep`, under `CodeRing`: `LastReadKept` holds as long as nobody begins to
  write with `maxnsyncdelay` numbers left unread. `SCIPconcsolverSync` admits that many, and
  one less suffices (with a `maxnsyncdelay` of 0 this says nothing);
- under `LongRing == NSyncdata > CodeNSyncdata`: `LongRingKeeps`, that `LastReadKept` always
  holds, so that all of the above needs no premise, and `NoUnreadNumberIsLost`.

The run `ring_of_the_code` shows that a `LongRing` is needed for the last. The inductive
invariant `Inv` adds to `TypeOK`

- `Delays`: no solver is more than `MaxDelay + 1` numbers (in the midst of an
  exchange `MaxDelay + 2`) ahead of its own reading;
- `ReadWritten`: what one has read, all have written; with `Delays` any two
  solvers are less than a ring apart;
- `SlotNumbers`, `NumbersKept`: a number sits in its own slot, and stays there
  until all have read it: a different number in the same slot is at least a
  ring's length away (lemma `SameSlot`, from division with remainder), which by
  `Delays` leaves the number somebody read last, and that one is kept by the premise
  (`SlotIsFree`);
- `WritersKnown`, `WritersCounted`: the slot's count is the number of solvers whose
  own counter is beyond its number;
- `PointersRight`: the slots a solver keeps are those of the numbers it has read
  and will read, and it copies only what is complete;
- `FinalStops`: a complete number with a status has stopped the store, needed
  because a solver that has read the end need not keep up with `Delays`.

`FirstEndStands` adds `EndKept`: when the store is stopped,
the slot `lastsync` holds a complete number with a status, and some solver that wrote
it found the status there. That solver is a witness for the rest of the run: it has
`concsolver->stopped` set, so it starts no other number, so no later number gets
complete, so nobody sets `lastsync` again; and as it has not read beyond the number,
the slot is not reused. `LongRingKeeps` and `PromptReadersKeep` show, step by step, that
`Inv` with a longer ring, or with `PromptDelays` (everybody is one number less ahead of
its own reading than `Delays` says), resets no slot read last.

**Exchange** (any number of solvers and variables, any lengths of arrays and lists, any
order of writes, any number of resets). Two invariants, which share nothing but the
set of solvers that have written.

`SolInv` is about the array of solutions. What the solvers that have written offered
is a set of triples (objective, solver, rank within the solver), with a strict total
order `Before`: by objective, then by the ids of the solvers, then by rank. That the
array is a function of this set, and not of the order of the writes, is

- `ArrayOk`: the pointers `sols` are a permutation of the buffers, and the buffer of
  each position in use holds the solution the position describes;
- `Shows`: position p describes one of the offered solutions, `g[p]`, in strictly
  increasing order of `Before`; an offer that is not shown comes before the array is
  full only if there is none, and comes before each one that is shown (`entry[0]` is
  the worst, as in the code).

The solutions of a solver are inserted one by one in a recursive function; the loop
invariant `LoopOk` is carried along it by a least counterexample. The delicate case is
the early end of the loop, when the array is full and a solution is worse than all of
it: the rest of the solver's solutions, which are not even looked at, are worse too
(`ShutStays`; this is where sortedness is needed). `ShownAreBest` turns `Shows` into the
property as TLC checks it, a statement on ranks: a counting argument, with the images
of `g` and the number of offers that come before a given one.
Theorems: `SolutionBuffersMatch`, `SlotKeepsBest`, `ReadersGetBestOfOthers`.

`BoundInv` is about the store of bound changes: `HoldsTightest` says that it has one entry
for each variable and side that was changed, at which `bndpos` points, and that this entry is
the tightest change. There is room for a new entry because entries in use are of
different variables and sides (`RoomForBound`, a pigeonhole argument; the code
allocates on demand, the model has as many entries as sides). A solver merges its own
store, not what it found; that this comes to the same is `StoredStands`.
Theorem: `SlotKeepsTightest`.

**Concurrent solve** (any number of solvers, any interleaving), under `CodeRing` and for
behaviours with `[]LastReadKept`. The property `WinnerIfSpread` is about a first call in which no thread took a second job. Till it is
known otherwise, each job that starts runs a solver that has not solved yet, so what
happens is a behaviour of `SyncStore`, and its invariants `Inv`, `BestKept` and `EndKept`
hold (`StoreStays`, `RunJobSpread`). In addition

- `EndsRecorded`: a solver that is stopped or whose solve has ended wrote a last number
  that shows a status;
- `StatusesStand`: a status other than UNKNOWN that a solver wrote is still its own;
- `JobsOk`: the threads that took a job and the jobs that wait add up to those
  submitted; a thread without a job has a fresh solver, and an idle one that had a job
  has a solver that is done.

When the call returns all jobs are collected, so every thread has taken one and every
solver is done. The smallest of the numbers they wrote last was written by all
(`LeastWritten`), and shows a status, so it stopped the store (`DoneMeansStopped`), and
the winner is one that wrote it. Theorem: `FirstCallHasWinner`.

**Constraint arrays** (any set of constraints, flags and kinds of solutions, any depth
of callbacks, any number of waiting requests). When a caller enables a constraint it has
asked to disable before the callback returns, or the other way round, both requests are
noted: by the test in `SCIPconsEnable` the second is legal, and it contradicts the first in
the assertions of `conshdlrProcessUpdates` (`Contradicted`). The theorems allow such
callers (`Reenables` may be TRUE). What they need is that the loop of
`conshdlrProcessUpdates` serves no constraint that is contradicted at this moment
(`ServesSettled`); there the code leaves its own assertions, and the arrays are lost
(section 5, point 6). A constraint that waits for both, or is removed while it does, does
no harm: `UpdatesAlwaysAgree` says that the assertions hold for all others, and for all
constraints while none is contradicted. `NothingContradicted`: under `~Reenables` none ever is, and
the premise holds by itself. The inductive invariant `Inv` says

- `ArraysOk`: each array holds the members its flags say, once, in its parts
  (`Parted`, `Front`), and every constraint that is not behind `lastnusefulenfoconss`
  among the useful ones has been enforced on each solution that counts as enforced and is
  not `unsettled` (`EnfoOk`, `KnownOn`);
- `Waiting`: `updateconss` holds exactly the constraints with an `update...` flag,
  each once, which makes the backward loop of `conshdlrProcessUpdates` serve all of
  them;
- `Agree`: the requests do not contradict each other or the handler, but for those
  `Contradicted`. Beyond what `UpdatesAgree` says, only active constraints wait to be enabled or to change sides
  by age, and `obsolete` differs from what the age says only where a change is noted:
  without this a constraint that is deactivated with a noted age could not be shown
  to end on its proper side.

The lemmas follow the code: first the moves (`SwitchedParted`, `ToObsoleteParted`,
`AddedParted`, `DeletedParted`, `ToMarkedParted`, ...), then one lemma for each
`conshdlr...` function over an arbitrary handler in order (`MarkConsPropagateOk` to
`MarkConsUsefulOk`), then one for each action of `Next` (`ActivateInv` to
`NewSolutionInv`; `ProcessedOk` for one pass of the loop). Theorems: `TypeCorrect`,
`ArraysAreParted`, `UpdatesAlwaysAgree`, `NoConstraintOverlooked`, `NothingContradicted`,
`ArraysStayStill`, and, under `~Reenables`, `HandlerImplementsStates`, the whole
refinement (what it means that a constraint is both enabled and disabled, `ConsStates`
does not say): under `Inv` the mapped `obsolete`
is what the ages say (`ObsoleteSoonIsOld`), each request maps to the action of
`ConsStates` with its name, and every other step, `ProcessUpdate` among them, to a
stutter (`ProcessUpdateSoon`).

**Event queue** (any set of variables, bounds and handlers, any number of changes and
of edits of filters). The inductive invariant `IInv` adds to `QueueCurrent` and
`LPCurrent`

- `WaitingTracked`: a variable an event waits for is still tracked. `SCIPeventqueueAdd`
  is not called for a variable nobody tracks, so a change between the first event and
  its processing would be lost without it;
- `StackOk`: an event does not wait for the variable whose filter is being processed
  until one of its handlers has been called. This is why giving up a type at the end of
  `SCIPeventfilterProcess`, which happens only when nobody was called, takes no type
  from a variable an event waits for; and delayed processing does not nest;
- `FiltersOk`, `QueueTypes`, `AtInRange`: what must be known of the masks, the queue and
  the position in it.

Theorems: `EventsAreCurrent`, `LPIsCurrent`, and `WaitingStayTracked`.

`SlotInv` is about the slots of the filters, and rests on no other invariant but the
shape of the stack. `HasList(next, k, S)` says that from `k` the links lead through exactly
the members of S, once each, and then end; pushing, popping and walking such a list are
lemmas (`ListPushed`, `ListPopped`, `ListFromIs`), the last by a least counterexample for
the recursive function `ListFrom`. The invariant says of each filter

- `FilterShape`: the three arrays have one length, and a slot a handler of the variable;
- `ListsOk`: the free list holds the slots without types, the list of deleted entries
  those with types that nobody holds, and deleted entries exist only while updates are
  delayed; so a slot is in one place only;
- `HoldsSlot`: the position a handler keeps is a slot with its own types, which is
  what `SCIPeventfilterDel` relies on when it is given a position.

`ViewInv` is about what handlers hear: for each call of `SCIPeventfilterProcess` on the
stack (`CallOk`) the type is in the mask, the event ends at the bound from which the next
change goes on, and no two calls are for one variable; a filter delays its updates
exactly while it is processed, and what a handler catches is in one of the two masks
(`MasksOk`); a handler knows the old bound of the event if it has still to be called for
it, and else the bound at which the next event starts (`Heard`). Deleted slots stay in
place during the processing and added ones come behind the length noted at its
beginning, which is why an edit in the midst of it neither skips nor repeats anybody.
Theorems: `NoSlotIsLost`, `HandlersHearEverything`.

**Load coordination** (any number of solvers, any set of leaves, values and bounds, any
length of the queues, reports that are waited for or not). `Conversation`,
`AgreeOnNode` and `SolutionKept` are none of them inductive: what the load coordinator and a
solver know of each other is spread over both and the messages between them. The
invariant `IInv` says for each solver

- `Order`: behind the completion of a node there is no request for another and no second
  completion in the queue, and while one of them is there the load coordinator has a
  node for the solver. This is why the handler of a request never gives a node to a solver
  that has none;
- `Reports`, `Asks`: a solver that waits for a notification id has its report or the id in
  exactly one of the two queues, and else there is neither; the same for a request and
  its answer, which is a node or a refusal;
- `Waits`: a solver without a node has asked for none and has at most one on its way, and
  that only when the load coordinator has read its completion;
- `Agrees`: unless the completion is on its way, every node in the queue to the solver is
  the one the load coordinator keeps for it, and if there is none, the solver has it
  (`receivedNode` before the current one). Ids and leaves agree, bounds and ancestors need
  not, as both sides change them on their own;
- `Told`, `Knows`: no solver is told, or keeps, a value better than the incumbent of the
  load coordinator. So a solution that a solver does not send because it knows a better
  one is not missed;
- `Keeps`, `Paced`, with reports that are waited for: what the solver has found is sent, and
  it does nothing else while a report is open.

`SolutionKept` is about reports that are waited for: without them a solution that is kept back
because a report is open may be deleted (section 5). With them the proof shows more than the
property asks: nothing is ever kept back when a step ends.

The proof shows first that every operation of the load coordinator keeps the invariant, as an
operator on the pair of the load coordinator and the queues (`CoordOk`), among them
`SetCur` and `Activated`, the sending of a node, `NodesSent`, and the handlers of the messages;
then the steps of a solver, in particular the handling of all messages that
`iReceiveMessages` finds (`Received`). The loops are recursive functions, which are followed by a
least counterexample. Lemmas about queues (`JoinedQueue`, `OneMessage`) say what
putting a message at the end of a queue or taking its head does to "there is exactly one".
Theorems: `Invariant`, `ConversationKept`, `AgreementKept`, `SolutionIsKept`.

**Nodes of all solvers** (any number of solvers, any set of leaves, values and bounds), with
reports that are waited for, and under `~Reasks`: no solver that already holds a new node
asks for another, as with the default `NStopSolvingMode` (section 3). Without the second assumption the theorems fail, and so does the code
(section 5, point 12); without the first a solution may be lost (point 11).
`CheckpointCovers`, `NoneBetterKilled` and `SyncedAnswerIsOptimal` speak of all nodes
together, so the invariant `CInv` adds to `IInv` what the load coordinator knows of the
tree, and what is on its way. A leaf is *solved* when the incumbent is no worse than it.

- `TreeOk`, of the pool and the nodes at the solvers: the pool is sorted by bounds, which
  is why `removeBoundedNodes` may delete from its end; no two nodes have one number, which
  is why ancestors can be told by it; each bound is below the values of the leaves that are
  not solved (`Fits`); and each leaf that is not solved is in a node with no ancestor
  (`Covers`);
- `Line`, of the messages of one solver: what it gave away comes before its request for
  another node and before the completion; a request and a normal completion never wait
  together, and no two requests. The bound that a request names is below every leaf of the
  node that the load coordinator does not know otherwise (`Seen`: it is solved, a solution or a
  part of the node that comes earlier in the queue brings it, or a descendant of the node
  holds it); of a normal completion this holds of every leaf;
- `Works`, of one solver: the leaves of its node that it no longer has open, and that
  its own solution does not cut off, are `Seen` at the end of its queue; it is told to
  terminate only when all leaves are solved; and it ends its search for a reason;
- `Awaits`: a solver that waits for the answer to its last request has nothing left to
  search.

`Line` is where the handlers meet the queue: when the load coordinator frees the node of a
completion, its leaves are in descendants, which the freed node's ancestor adopts
(`SolvedTree`); when it exchanges a node (`MayReplace`), no descendant is left, so the bound
of the request is right for the whole node (`ExchangedTree`); a node that an interrupted solver
returns still has all its leaves (`ReturnedTree`). What one handler changes for the other
solvers is little: it `Carries` their nodes and the descendants of these on. At the end of
`run`, with an empty pool and no active solver, `Covers` says that all leaves are solved
(`EmptySolved`).

`LoadTreeProofs` has the operations on the tree and the steps of the load coordinator
(`HandleCovers`, `CheckCovers`, `CloseCovers`), `LoadCoverProofs` those of the solvers, by way of
what handling messages does to a solver's knowledge (`UptoStage`). Theorems:
`CoverInvariant`, `CheckpointIsComplete`, `NoBetterNodeKilled`, `SyncedRunIsOptimal`.

**Model-checked only.** Liveness (`CollectReturns`, `ExitReturns`, `AllReturnUnlessMissed`,
`SolveReturns`, `Returns`, the fairness part of `ImplementsJobPool`) is out of this prover's
reach. Every safety property that a passing run checks is stated by a theorem.

## 7. What is not modelled

- *Failing allocations and thread creation* in the pool, the store and the
  solvers: the code returns an error before a protocol starts.
- *Times*: the synchronization frequency and the delay are real numbers adapted at
  every number. The model covers every outcome of the comparison they feed, not
  the adaptation.
- *Reference counting of the store* and the creation of the solvers.
- *Data*: subproblems, variable copies, multi-aggregated variables, real-valued
  tolerances; solutions are objectives, bounds are integers.
- *The job lists of tpi_openmp.c*, where a job is counted before it is listed (l. 249),
  *heur_sync.c*, *prop_sync.c*. `SyncData` models the propagator by its end result
  on the global bounds.
- *Events* that are never merged or delayed, the global filter, and the growth of
  the arrays of a filter.
- *Constraint handlers*: `sepaconss`, which moves like `enfoconss` but has no counters
  the code calls vital, `initconss`, creation and release (`updateinsert`,
  `updatefree`), deletion by age, flags changed at run time, the counters of
  separation and propagation (`cons.c:1056`: "not vital for correctness").
- *UG*: racing ramp-up, collecting mode, merging of nodes, the deterministic mode, the
  files of a checkpoint, and MPI.
- *Tree, node selection, primal storage, stages, cut pool and stores*: sequential
  structures that are next in the plan.
- *LP, presolving, plugins, GCG, SoPlex, ZIMPL*: numerical algorithms and
  parsers; their correctness is not visible in states a model checker can
  enumerate.

## 8. Plan

The modules of the following points exist, in the order in which they matter.

1. `JobPool`, `TpiPool`: the pool and its promise.
2. `SyncStore`: the ring and its unlocked reads, with both kinds of waiting.
3. `SyncData`: the content of a slot.
4. `ConcurrentSolve`: the composition.
5. `LoadCoordination`: nodes, solutions and answers in UG.
6. `ConsStates`, `ConsArrays`: the arrays of a constraint handler and the promise.
7. `EventQueue`: merged events, and filters that are edited during processing.

Left, each with one safety run and, where there is a promise, a run against it:

8. `TpiOmp`: the job lists of `tpi_openmp.c` against `JobPool`.
9. `Racing`: racing ramp-up with its winner, over the messages of
   `LoadCoordination`; collecting mode.
10. `Primal`: sorted solutions, duplicates, cutoff bound; `NodeQueue`: the heap with
    its lower-bound node against a bag of nodes; `TreePath`: fork reference counts;
    `Stages`: the stage machine.
11. `SyncBuffers`: `heur_sync.c` and `prop_sync.c`.

Proofs to add: the promises of these modules, where they have one; and, for requests that cross
(`Reasks`), how far the cover can be kept when the load coordinator takes the bound of a
request only for the node the request is about.
