-------------------------- MODULE ConcurrentSolve --------------------------
(***************************************************************************)
(* SCIPconcurrentSolve (scip/src/scip/concurrent.c): one job for each      *)
(* concurrent solver is submitted to the threads of the pool, the jobs are *)
(* collected, and the solver the synchronization store names as the winner *)
(* hands over its result.                                                  *)
(*                                                                         *)
(* A job is not bound to a solver: it runs the solver whose idx is the     *)
(* number of the thread that happens to take it.  The pool is taken at its *)
(* word (JobPool): an idle thread takes the oldest job, and collecting     *)
(* waits for all of them.  Each job runs its solver through SyncStore.     *)
(***************************************************************************)
EXTENDS SyncStore

CONSTANT MaxSolves      \* bound: calls of SCIPconcurrentSolve

VARIABLES
    submitted,   \* the jobs submitted by this call
    queued,      \* how many of them no thread has taken
    busy,        \* the threads that execute a job
    ran,         \* history: the jobs each thread has taken in this call
    nsolves,     \* history: the calls made
    returned     \* the call has collected its jobs

pool == <<submitted, queued, busy, ran>>
call == <<nsolves, returned>>
concvars == <<vars, pool, call>>

ConcInit ==
    /\ Init
    /\ submitted = 0 /\ queued = 0 /\ busy = {} /\ ran = [t \in Solvers |-> 0]
    /\ nsolves = 1 /\ returned = FALSE

SubmitJob ==
    /\ ~returned
    /\ submitted < NSolvers
    /\ submitted' = submitted + 1
    /\ queued' = queued + 1
    /\ UNCHANGED <<vars, busy, ran, call>>

JobWaits == queued > 0

\* SCIPconcsolverExec resets the stopped flag and calls SCIPsolve, which goes
\* on with a problem that is not solved; a solved one keeps its status.
StartJob(t) ==
    /\ t \notin busy /\ JobWaits
    /\ queued' = queued - 1
    /\ busy' = busy \cup {t}
    /\ ran' = [ran EXCEPT ![t] = @ + 1]
    /\ pc' = [pc EXCEPT ![t] = "solving"]
    /\ cstopped' = [cstopped EXCEPT ![t] = FALSE]
    /\ status' = [status EXCEPT ![t] = IF @ >= OPTIMAL THEN @ ELSE UNKNOWN]
    /\ UNCHANGED <<store, nsyncs, csyncdata, target, readnum, submitted, call>>

RunJob(t) ==
    /\ t \in busy
    /\ SolveStep(t) \/ SyncStep(t) \/ SpuriousWakeup(t)
    /\ UNCHANGED <<pool, call>>

EndJob(t) ==
    /\ t \in busy /\ pc[t] = "done"
    /\ busy' = busy \ {t}
    /\ UNCHANGED <<vars, submitted, queued, ran, call>>

\* Mutant of AllCollected: a job that is running is not waited for.
AllCollectedButRunning == submitted = NSolvers /\ queued = 0

AllCollected == submitted = NSolvers /\ queued = 0 /\ busy = {}

\* SCIPtpiCollectJobs, and the return of SCIPconcurrentSolve.
CollectJobs ==
    /\ ~returned /\ AllCollected
    /\ returned' = TRUE
    /\ UNCHANGED <<vars, pool, nsolves>>

\* SCIPsolveConcurrent is called again, say with a larger limit: the solvers
\* and the store are kept, and only the store's stopped flag is reset.
SolveAgain ==
    /\ returned /\ nsolves < MaxSolves
    /\ \E i \in Solvers : status[i] < OPTIMAL
    /\ stopped' = FALSE
    /\ submitted' = 0 /\ ran' = [t \in Solvers |-> 0]
    /\ nsolves' = nsolves + 1 /\ returned' = FALSE
    /\ UNCHANGED <<syncdata, lock, lastsync, solver, queued, busy>>

Returned == returned /\ UNCHANGED concvars

ConcNext ==
    \/ SubmitJob \/ CollectJobs \/ SolveAgain \/ Returned
    \/ \E t \in Solvers : StartJob(t) \/ RunJob(t) \/ EndJob(t)

ConcSpec == ConcInit /\ [][ConcNext]_concvars

\* The main thread submits and collects, the pool runs its threads (JobPool),
\* and the jobs progress as in SyncStore.
ConcFairness ==
    /\ WF_concvars(SubmitJob) /\ WF_concvars(CollectJobs)
    /\ \A t \in Solvers :
         /\ WF_concvars(StartJob(t)) /\ WF_concvars(EndJob(t))
         /\ WF_concvars(t \in busy /\ SyncStep(t) /\ UNCHANGED <<pool, call>>)
         /\ WF_concvars(t \in busy /\ EndSolve(t) /\ UNCHANGED <<pool, call>>)
         /\ WF_concvars(/\ t \in busy /\ status[t] # UNKNOWN
                        /\ BeginSync(t) \/ SkipLastSync(t)
                        /\ UNCHANGED <<pool, call>>)

FairConcSpec == ConcSpec /\ ConcFairness

-----------------------------------------------------------------------------
(* Properties.                                                             *)

\* No thread takes two jobs of one call, so that every solver runs.
JobsSpread == \A t \in Solvers : ran[t] <= 1

\* When no thread took a second job, the first call finds a winner, and the
\* winner is a solver whose own status ended the solve: its data are the result.
WinnerIfSpread ==
    (returned /\ nsolves = 1 /\ JobsSpread) =>
        /\ GetWinner \in Solvers
        /\ status[GetWinner] = syncdata[lastsync].status

\* As long as no thread takes a second job, and no slot is reset while it is
\* the one somebody read last, every call returns: no solver waits for a number
\* that nobody completes, neither in the first call nor in a second one, which
\* the solvers enter with different numbers read and written, reading on or
\* passing by the slots of the call before (SCIPsyncstoreGetNextSyncdata).
\* Without LastReadKept a call may hang, see the README.
SolveReturns == [](JobsSpread /\ LastReadKept) => []<>returned
=============================================================================
