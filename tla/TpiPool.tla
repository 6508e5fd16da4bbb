------------------------------ MODULE TpiPool ------------------------------
(***************************************************************************)
(* The thread pool behind SCIP's task processing interface, as written in  *)
(* scip/src/tpi/tpi_tnycthrd.c, down to the pointers of its three job      *)
(* lists.                                                                  *)
(*                                                                         *)
(* Everything shared is read and written under poollock, so one critical   *)
(* section is one action.  A call that waits on a condition moves its      *)
(* thread to a waiting control point; being signalled (or waking up        *)
(* spuriously) moves it back to the point where the loop tests its         *)
(* condition again.                                                        *)
(***************************************************************************)
EXTENDS Integers, Sequences, FiniteSets, FiniteSetsExt

CONSTANTS Workers,        \* the threads of the pool
          Clients,        \* the threads that call the SCIPtpi functions
          Jobs,           \* the SCIP_JOB structs that may be allocated
          NULL,           \* the null pointer
          QueueSize,      \* queuesize
          BlockWhenFull,  \* blockwhenfull
          OverlapIds,     \* may a client open a job id before it collected the last one?
          Retcodes        \* the SCIP_RETCODEs a job function may return

SCIP_OKAY == 1

ASSUME ConstantsAssumption ==
    /\ IsFiniteSet(Workers)
    /\ IsFiniteSet(Clients)
    /\ IsFiniteSet(Jobs)
    /\ NULL \notin Jobs
    /\ QueueSize \in Nat
    /\ BlockWhenFull \in BOOLEAN
    /\ OverlapIds \in BOOLEAN
    /\ Retcodes \subseteq Int

VARIABLES
    jobqueue, currentjobs, finishedjobs,  \* SCIP_JOBQUEUE: [first, last, njobs]
    nextjob, jobid, retcode,              \* the fields of each SCIP_JOB
    place,                                \* history: where each job is in its life
    currworkingthreads, currentid,
    shutdown, queueopen,
    wpc, wjob,                            \* control point and newjob of each worker
    cpc, cjob, cid, cret,                 \* control point, job, id and result of each client
    openids,                              \* the ids each client has not collected yet
    fault                                 \* what went wrong in memory, or "none"

listvars   == <<jobqueue, currentjobs, finishedjobs, nextjob>>
jobvars    == <<jobid, retcode, place>>
poolvars   == <<currworkingthreads, currentid, shutdown, queueopen>>
workervars == <<wpc, wjob>>
clientvars == <<cpc, cjob, cid, cret, openids>>
vars == <<listvars, jobvars, poolvars, workervars, clientvars, fault>>

Pointers == Jobs \cup {NULL}
JobQueues == [first : Pointers, last : Pointers, njobs : Int]
Places == {"none", "new", "queued", "running", "finished", "freed", "rejected"}
WorkerPoints == {"start", "top", "wait", "run", "exited"}
ClientPoints == {"idle", "add", "submit", "waitnotfull", "collect", "waitfinished",
                 "drain", "waitempty", "wakeworkers", "wakesubmitters", "join", "done"}

ListTypes ==
    /\ jobqueue \in JobQueues /\ currentjobs \in JobQueues /\ finishedjobs \in JobQueues
    /\ jobqueue.njobs \in Nat
    /\ nextjob \in [Jobs -> Pointers]

JobTypes ==
    /\ jobid \in [Jobs -> Nat]
    /\ retcode \in [Jobs -> Int]
    /\ place \in [Jobs -> Places]

CounterTypes == currworkingthreads \in 0..Cardinality(Workers) /\ currentid \in Nat

FlagTypes == shutdown \in BOOLEAN /\ queueopen \in BOOLEAN

WorkerTypes ==
    /\ wpc \in [Workers -> WorkerPoints]
    /\ wjob \in [Workers -> Pointers]

ClientTypes ==
    /\ cpc \in [Clients -> ClientPoints]
    /\ cjob \in [Clients -> Pointers]
    /\ cid \in [Clients -> Nat]
    /\ cret \in [Clients -> Int]
    /\ openids \in [Clients -> SUBSET Nat]

\* Every variable has its type; a pointer is a job or NULL, and no more
\* threads count themselves as working than the pool created.
TypeOK ==
    /\ ListTypes /\ JobTypes /\ CounterTypes /\ FlagTypes /\ WorkerTypes /\ ClientTypes
    /\ fault \in {"none", "memory", "freedpool"}

-----------------------------------------------------------------------------
(* Walking a list.                                                         *)

EmptyList == [first |-> NULL, last |-> NULL, njobs |-> 0]

\* Steps[k] is the job reached from p after following nextjob k times.
Steps(p) ==
    LET step[k \in 0..Cardinality(Jobs)] ==
            IF k = 0 THEN p
            ELSE IF step[k-1] = NULL THEN NULL ELSE nextjob[step[k-1]]
    IN step

\* The only job of a set of at most one, or NULL.
TheJob(S) == IF S = {} THEN NULL ELSE CHOOSE j \in S : TRUE

\* What checkJobQueue does: it stops at lastjob, whether or not the links
\* starting at firstjob ever reach it.
CheckJobQueue(q, id) ==
    IF q.first = NULL THEN "absent"
    ELSE LET s    == Steps(q.first)
             stop == {k \in DOMAIN s : \/ s[k] \in {NULL, q.last}
                                       \/ place[s[k]] = "freed"
                                       \/ jobid[s[k]] = id}
             job  == s[Min(stop)]
         IN IF job = NULL THEN "memory"
            ELSE IF place[job] = "freed" THEN "memory"
            ELSE IF jobid[job] = id THEN "inqueue" ELSE "absent"

\* Append j at the tail of q, as jobQueueAddJob and the two list updates of
\* threadPoolThreadRetcode do it.
Appended(q, j) ==
    [first |-> IF q.njobs = 0 THEN j ELSE q.first, last |-> j, njobs |-> q.njobs + 1]

\* Mutant of LinkTail: the old tail is not linked to the new job.
LinkTailForgotten(links, q, j) == links

LinkTail(links, q, j) ==
    IF q.njobs = 0 THEN links ELSE [links EXCEPT ![q.last] = j]

-----------------------------------------------------------------------------
(* Condition variables: who waits is known from the control points.        *)

SleepingWorkers == {w \in Workers : wpc[w] = "wait"}

\* Mutant of SignalNotEmpty: nobody is woken.
SignalNobody == wpc' = wpc

\* SCIPtpiSignalCondition(queuenotempty): at most one sleeping worker wakes up.
SignalNotEmpty ==
    IF SleepingWorkers = {} THEN wpc' = wpc
    ELSE \E w \in SleepingWorkers : wpc' = [wpc EXCEPT ![w] = "top"]

\* SCIPtpiBroadcastCondition: everyone at point from goes to point to.
Woken(pc, from, to) == [t \in DOMAIN pc |-> IF pc[t] = from THEN to ELSE pc[t]]

-----------------------------------------------------------------------------
(* The workers: threadPoolThreadRetcode.                                   *)

Init ==
    /\ jobqueue = EmptyList /\ currentjobs = EmptyList /\ finishedjobs = EmptyList
    /\ nextjob = [j \in Jobs |-> NULL]
    /\ jobid = [j \in Jobs |-> 0]
    /\ retcode = [j \in Jobs |-> SCIP_OKAY]
    /\ place = [j \in Jobs |-> "none"]
    /\ currworkingthreads = 0 /\ currentid = 0
    /\ shutdown = FALSE /\ queueopen = TRUE
    /\ wpc = [w \in Workers |-> "start"]
    /\ wjob = [w \in Workers |-> NULL]
    /\ cpc = [c \in Clients |-> "idle"]
    /\ cjob = [c \in Clients |-> NULL]
    /\ cid = [c \in Clients |-> 0]
    /\ cret = [c \in Clients |-> SCIP_OKAY]
    /\ openids = [c \in Clients |-> {}]
    /\ fault = "none"

\* Mutant of WorkerStart: the thread is not counted when it starts.
WorkerStartUncounted(w) ==
    /\ wpc[w] = "start"
    /\ wpc' = [wpc EXCEPT ![w] = "top"]
    /\ UNCHANGED <<listvars, jobvars, poolvars, wjob, clientvars, fault>>

WorkerStart(w) ==
    /\ wpc[w] = "start"
    /\ currworkingthreads' = currworkingthreads + 1
    /\ wpc' = [wpc EXCEPT ![w] = "top"]
    /\ UNCHANGED <<listvars, jobvars, currentid, shutdown, queueopen, wjob, clientvars, fault>>

WorkerSleep(w) ==
    /\ wpc[w] = "top"
    /\ jobqueue.njobs = 0 /\ ~shutdown
    /\ wpc' = [wpc EXCEPT ![w] = "wait"]
    /\ UNCHANGED <<listvars, jobvars, poolvars, wjob, clientvars, fault>>

WorkerExit(w) ==
    /\ wpc[w] = "top"
    /\ shutdown
    /\ currworkingthreads' = currworkingthreads - 1
    /\ wpc' = [wpc EXCEPT ![w] = "exited"]
    /\ UNCHANGED <<listvars, jobvars, currentid, shutdown, queueopen, wjob, clientvars, fault>>

\* Mutant of ClientsAfterTake: queueempty is broadcast while a job is left.
ClientsAfterTakeOffByOne(njobs) ==
    LET submitters == IF BlockWhenFull /\ njobs = QueueSize - 1
                      THEN Woken(cpc, "waitnotfull", "submit") ELSE cpc
    IN IF njobs = 1 THEN Woken(submitters, "waitempty", "drain") ELSE submitters

\* queuenotfull is broadcast only by a pool that blocks when full.
ClientsAfterTake(njobs) ==
    LET submitters == IF BlockWhenFull /\ njobs = QueueSize - 1
                      THEN Woken(cpc, "waitnotfull", "submit") ELSE cpc
    IN IF njobs = 0 THEN Woken(submitters, "waitempty", "drain") ELSE submitters

\* The dequeued job keeps its nextjob: the code does not reset it.
WorkerTake(w) ==
    LET job == jobqueue.first
        n   == jobqueue.njobs - 1
    IN /\ wpc[w] = "top"
       /\ jobqueue.njobs # 0 /\ ~shutdown
       /\ job # NULL
       /\ jobqueue' = IF n = 0 THEN EmptyList
                      ELSE [first |-> nextjob[job], last |-> jobqueue.last, njobs |-> n]
       /\ cpc' = ClientsAfterTake(n)
       /\ nextjob' = LinkTail(nextjob, currentjobs, job)
       /\ currentjobs' = Appended(currentjobs, job)
       /\ place' = [place EXCEPT ![job] = "running"]
       /\ wjob' = [wjob EXCEPT ![w] = job]
       /\ wpc' = [wpc EXCEPT ![w] = "run"]
       /\ UNCHANGED <<finishedjobs, jobid, retcode, poolvars, cjob, cid, cret, openids, fault>>

\* Mutant of Unlinked: lastjob is not moved back to prev.
UnlinkedKeepsLast(q, job, prev) ==
    [first |-> IF prev = NULL THEN nextjob[job] ELSE q.first,
     last  |-> q.last,
     njobs |-> q.njobs - 1]

\* q without job, whose predecessor in q is prev.
Unlinked(q, job, prev) ==
    [first |-> IF prev = NULL THEN nextjob[job] ELSE q.first,
     last  |-> IF q.last = job THEN prev ELSE q.last,
     njobs |-> q.njobs - 1]

\* The job function returned r outside the lock; under the lock the worker
\* finds its job in currentjobs (PointersExact says it is there), unlinks it
\* from prev and appends it to finishedjobs.
WorkerFinish(w, r) ==
    LET job  == wjob[w]
        s    == Steps(currentjobs.first)
        prev == TheJob({p \in Jobs : \E k \in DOMAIN s \ {0} : s[k] = job /\ s[k-1] = p})
        links == IF prev = NULL THEN nextjob ELSE [nextjob EXCEPT ![prev] = nextjob[job]]
    IN /\ wpc[w] = "run"
       /\ \E k \in DOMAIN s : s[k] = job
       /\ retcode' = [retcode EXCEPT ![job] = r]
       /\ currentjobs' = Unlinked(currentjobs, job, prev)
       /\ nextjob' = LinkTail(links, finishedjobs, job)
       /\ finishedjobs' = Appended(finishedjobs, job)
       /\ place' = [place EXCEPT ![job] = "finished"]
       /\ cpc' = Woken(cpc, "waitfinished", "collect")
       /\ wpc' = [wpc EXCEPT ![w] = "top"]
       /\ wjob' = [wjob EXCEPT ![w] = NULL]
       /\ UNCHANGED <<jobqueue, jobid, poolvars, cjob, cid, cret, openids, fault>>

\* C11 and POSIX let a condition wait return without a signal.
WorkerSpuriousWakeup(w) ==
    /\ wpc[w] = "wait"
    /\ wpc' = [wpc EXCEPT ![w] = "top"]
    /\ UNCHANGED <<listvars, jobvars, poolvars, wjob, clientvars, fault>>

-----------------------------------------------------------------------------
(* The clients.                                                            *)

Goto(c, point) == cpc' = [cpc EXCEPT ![c] = point]

\* The pool is not freed: some client may still call it.
Alive == \A c \in Clients : cpc[c] # "done"

\* Mutant of GetNewJobID: the jobs of the last id need not be collected.
GetNewJobIDUncollected(c) ==
    /\ cpc[c] = "idle" /\ Alive
    /\ \E j \in Jobs : place[j] = "none"
    /\ currentid = 0 \/ \E j \in Jobs : jobid[j] = currentid
    /\ currentid' = currentid + 1
    /\ openids' = [openids EXCEPT ![c] = @ \cup {currentid + 1}]
    /\ UNCHANGED <<listvars, jobvars, currworkingthreads, shutdown, queueopen, workervars,
                   cpc, cjob, cid, cret, fault>>

\* SCIPtpiGetNewJobID.  Without OverlapIds a new id is opened only when the
\* jobs of all older ones were collected, as SCIPconcurrentSolve does.  Bound:
\* a client asks for an id only when the last one has a job and one is left.
GetNewJobID(c) ==
    /\ cpc[c] = "idle" /\ Alive
    /\ \E j \in Jobs : place[j] = "none"
    /\ currentid = 0 \/ \E j \in Jobs : jobid[j] = currentid
    /\ OverlapIds \/ \A d \in Clients : openids[d] = {}
    /\ currentid' = currentid + 1
    /\ openids' = [openids EXCEPT ![c] = @ \cup {currentid + 1}]
    /\ UNCHANGED <<listvars, jobvars, currworkingthreads, shutdown, queueopen, workervars,
                   cpc, cjob, cid, cret, fault>>

\* SCIPtpiCreateJob and the call of SCIPtpiSumbitJob, whose assertion wants
\* the job to have the current id.
CreateJob(c, j) ==
    /\ cpc[c] = "idle" /\ Alive
    /\ currentid \in openids[c]
    /\ place[j] = "none"
    /\ place' = [place EXCEPT ![j] = "new"]
    /\ jobid' = [jobid EXCEPT ![j] = currentid]
    /\ nextjob' = [nextjob EXCEPT ![j] = NULL]
    /\ cjob' = [cjob EXCEPT ![c] = j]
    /\ Goto(c, "add")
    /\ UNCHANGED <<jobqueue, currentjobs, finishedjobs, retcode, poolvars, workervars,
                   cid, cret, openids, fault>>

QueueFull == jobqueue.njobs = QueueSize

\* Mutant of QueueTakesJobs: the queue may have been closed during the wait.
QueueTakesJobsUnchecked == ~QueueFull

QueueTakesJobs == queueopen /\ ~shutdown /\ ~QueueFull

\* threadPoolAddWork: a full queue of a pool that blocks turns the job away;
\* the others wait for queuenotfull.
SubmitQueueFull(c) ==
    /\ cpc[c] = "add"
    /\ QueueFull /\ BlockWhenFull
    /\ place' = [place EXCEPT ![cjob[c]] = "rejected"]
    /\ cjob' = [cjob EXCEPT ![c] = NULL]
    /\ Goto(c, "idle")
    /\ UNCHANGED <<listvars, jobid, retcode, poolvars, workervars, cid, cret, openids, fault>>

\* The control points at which the wait loop of threadPoolAddWork is tested:
\* after a wait the first test of the function is not repeated.
AtSubmitTest(c) == \/ cpc[c] = "submit"
                   \/ cpc[c] = "add" /\ ~(QueueFull /\ BlockWhenFull)

SubmitSleep(c) ==
    /\ AtSubmitTest(c)
    /\ QueueFull /\ ~shutdown /\ queueopen
    /\ Goto(c, "waitnotfull")
    /\ UNCHANGED <<listvars, jobvars, poolvars, workervars, cjob, cid, cret, openids, fault>>

\* SCIP_SUBMIT_QUEUECLOSED or SCIP_SUBMIT_SHUTDOWN.
SubmitRejected(c) ==
    /\ AtSubmitTest(c)
    /\ ~(queueopen /\ ~shutdown)
    /\ place' = [place EXCEPT ![cjob[c]] = "rejected"]
    /\ cjob' = [cjob EXCEPT ![c] = NULL]
    /\ Goto(c, "idle")
    /\ UNCHANGED <<listvars, jobid, retcode, poolvars, workervars, cid, cret, openids, fault>>

\* jobQueueAddJob, with its signal to at most one sleeping worker.
SubmitJob(c) ==
    LET job == cjob[c]
    IN /\ AtSubmitTest(c)
       /\ QueueTakesJobs
       /\ nextjob' = LinkTail([nextjob EXCEPT ![job] = NULL], jobqueue, job)
       /\ jobqueue' = Appended(jobqueue, job)
       /\ place' = [place EXCEPT ![job] = "queued"]
       /\ SignalNotEmpty
       /\ cjob' = [cjob EXCEPT ![c] = NULL]
       /\ Goto(c, "idle")
       /\ UNCHANGED <<currentjobs, finishedjobs, jobid, retcode, poolvars, wjob,
                      cid, cret, openids, fault>>

CollectJobs(c, id) ==
    /\ cpc[c] = "idle" /\ Alive
    /\ id \in openids[c]
    /\ cid' = [cid EXCEPT ![c] = id]
    /\ Goto(c, "collect")
    /\ UNCHANGED <<listvars, jobvars, poolvars, workervars, cjob, cret, openids, fault>>

\* Mutant of Scan: jobs that wait in the queue are overlooked.
ScanRunningOnly(id) == CheckJobQueue(currentjobs, id)

\* isJobRunning(currentjobs, jobid) || isJobRunning(jobqueue, jobid)
Scan(id) == IF CheckJobQueue(currentjobs, id) # "absent" THEN CheckJobQueue(currentjobs, id)
            ELSE CheckJobQueue(jobqueue, id)

\* A job of the id is queued or running: wait for jobfinished.  A scan that
\* dereferences NULL or a freed job gets no further.
CollectSleep(c) ==
    /\ cpc[c] = "collect"
    /\ Scan(cid[c]) # "absent"
    /\ fault' = IF Scan(cid[c]) = "memory" THEN "memory" ELSE "none"
    /\ Goto(c, "waitfinished")
    /\ UNCHANGED <<listvars, jobvars, poolvars, workervars, cjob, cid, cret, openids>>

\* Take the finished jobs of the id off finishedjobs, relinking the ones that
\* stay, free them and return the smallest of their codes.  The walk goes on
\* until NULL, past lastjob.
CollectReturn(c) ==
    LET s    == Steps(finishedjobs.first)
        seen == {k \in DOMAIN s : s[k] # NULL}
        gone == {j \in Jobs : jobid[j] = cid[c] /\ \E k \in seen : s[k] = j}
        kept == {k \in seen : s[k] \notin gone}
        firstKept(ks) == TheJob({j \in Jobs : \E k \in ks : s[k] = j /\ \A i \in ks : k <= i})
        lastKept(ks)  == TheJob({j \in Jobs : \E k \in ks : s[k] = j /\ \A i \in ks : i <= k})
    IN /\ cpc[c] = "collect"
       /\ Scan(cid[c]) = "absent"
       /\ finishedjobs' =
            [first |-> firstKept(kept),
             last  |-> IF finishedjobs.last \notin gone THEN finishedjobs.last
                       ELSE lastKept({k \in kept : \E i \in seen : k < i /\ s[i] = finishedjobs.last}),
             njobs |-> finishedjobs.njobs - Cardinality(gone)]
       /\ nextjob' = [j \in Jobs |->
            IF \E k \in kept : s[k] = j
            THEN firstKept({k \in kept : \E i \in kept : i < k /\ s[i] = j})
            ELSE IF j \in gone THEN NULL ELSE nextjob[j]]
       /\ place' = [j \in Jobs |-> IF j \in gone THEN "freed" ELSE place[j]]
       /\ fault' = IF \E k \in seen : place[s[k]] = "freed" THEN "memory" ELSE "none"
       /\ LET codes == {SCIP_OKAY} \cup {retcode[j] : j \in gone}
          IN \E r \in codes : (\A q \in codes : r <= q) /\ cret' = [cret EXCEPT ![c] = r]
       /\ openids' = [openids EXCEPT ![c] = @ \ {cid[c]}]
       /\ retcode' = [j \in Jobs |-> IF j \in gone THEN SCIP_OKAY ELSE retcode[j]]
       /\ cid' = [cid EXCEPT ![c] = 0]
       /\ Goto(c, "idle")
       /\ UNCHANGED <<jobqueue, currentjobs, jobid, poolvars, workervars, cjob>>

ClientSpuriousWakeup(c) ==
    /\ \E sleep \in {<<"waitnotfull", "submit">>, <<"waitfinished", "collect">>,
                     <<"waitempty", "drain">>} :
          /\ cpc[c] = sleep[1]
          /\ Goto(c, sleep[2])
    /\ UNCHANGED <<listvars, jobvars, poolvars, workervars, cjob, cid, cret, openids, fault>>

-----------------------------------------------------------------------------
(* SCIPtpiExit: freeThreadPool(pool, TRUE, TRUE).                          *)

ExitClose(c) ==
    /\ cpc[c] = "idle" /\ Alive
    /\ queueopen /\ ~shutdown
    /\ queueopen' = FALSE
    /\ Goto(c, "drain")
    /\ UNCHANGED <<listvars, jobvars, currworkingthreads, currentid, shutdown, workervars,
                   cjob, cid, cret, openids, fault>>

ExitSleep(c) ==
    /\ cpc[c] = "drain"
    /\ jobqueue.njobs > 0
    /\ Goto(c, "waitempty")
    /\ UNCHANGED <<listvars, jobvars, poolvars, workervars, cjob, cid, cret, openids, fault>>

ExitShutdown(c) ==
    /\ cpc[c] = "drain"
    /\ jobqueue.njobs <= 0
    /\ shutdown' = TRUE
    /\ Goto(c, "wakeworkers")
    /\ UNCHANGED <<listvars, jobvars, currworkingthreads, currentid, queueopen, workervars,
                   cjob, cid, cret, openids, fault>>

\* The two broadcasts come after the lock is released, one by one.
ExitWakeWorkers(c) ==
    /\ cpc[c] = "wakeworkers"
    /\ wpc' = Woken(wpc, "wait", "top")
    /\ Goto(c, "wakesubmitters")
    /\ UNCHANGED <<listvars, jobvars, poolvars, wjob, cjob, cid, cret, openids, fault>>

ExitWakeSubmitters(c) ==
    /\ cpc[c] = "wakesubmitters"
    /\ cpc' = Woken([cpc EXCEPT ![c] = "join"], "waitnotfull", "submit")
    /\ UNCHANGED <<listvars, jobvars, poolvars, workervars, cjob, cid, cret, openids, fault>>

\* All threads are joined and the pool is freed; a client that is inside
\* another call goes on to use it.
ExitFree(c) ==
    /\ cpc[c] = "join"
    /\ \A w \in Workers : wpc[w] = "exited"
    /\ fault' = IF \E d \in Clients \ {c} : cpc[d] # "idle" THEN "freedpool" ELSE "none"
    /\ Goto(c, "done")
    /\ UNCHANGED <<listvars, jobvars, poolvars, workervars, cjob, cid, cret, openids>>

-----------------------------------------------------------------------------
WorkerStep(w) == \/ WorkerStart(w) \/ WorkerSleep(w) \/ WorkerExit(w) \/ WorkerTake(w)
                 \/ \E r \in Retcodes : WorkerFinish(w, r)

SubmitStep(c) == SubmitQueueFull(c) \/ SubmitSleep(c) \/ SubmitRejected(c) \/ SubmitJob(c)
CollectStep(c) == CollectSleep(c) \/ CollectReturn(c)
ExitStep(c) == \/ ExitSleep(c) \/ ExitShutdown(c) \/ ExitWakeWorkers(c)
               \/ ExitWakeSubmitters(c) \/ ExitFree(c)

\* The steps a client takes on its own initiative.
ClientCall(c) == \/ GetNewJobID(c) \/ ExitClose(c)
                 \/ \E j \in Jobs : CreateJob(c, j)
                 \/ \E id \in openids[c] : CollectJobs(c, id)

\* Nothing is left to do once the pool is freed, or after a fault.
Terminated == /\ (fault # "none" \/ ~Alive)
              /\ UNCHANGED vars

Next ==
    \/ /\ fault = "none"
       /\ \/ \E w \in Workers : WorkerStep(w) \/ WorkerSpuriousWakeup(w)
          \/ \E c \in Clients : \/ ClientCall(c) \/ SubmitStep(c) \/ CollectStep(c)
                                \/ ExitStep(c) \/ ClientSpuriousWakeup(c)
    \/ Terminated

Spec == Init /\ [][Next]_vars

\* The scheduler runs every thread that is not waiting, and a job function
\* returns; nobody is forced to make a call, and no wakeup comes for free.
Fairness ==
    /\ \A w \in Workers : WF_vars(fault = "none" /\ WorkerStep(w))
    /\ \A c \in Clients : /\ WF_vars(fault = "none" /\ SubmitStep(c))
                          /\ WF_vars(fault = "none" /\ CollectStep(c))
                          /\ WF_vars(fault = "none" /\ ExitStep(c))

FairSpec == Spec /\ Fairness

-----------------------------------------------------------------------------
(* Properties.                                                             *)

\* currworkingthreads counts the threads that have started and not left.
Active == {w \in Workers : wpc[w] \notin {"start", "exited"}}
ThreadsCounted == currworkingthreads = Cardinality(Active)

\* The jobs from firstjob to lastjob, following nextjob, as a sequence; what
\* lies behind lastjob does not belong to the list.
Contents(q) ==
    IF q.njobs = 0 THEN <<>>
    ELSE LET s == Steps(q.first)
             ends == {k \in DOMAIN s : s[k] = q.last}
         IN IF ends = {} THEN <<>> ELSE [i \in 1..(Min(ends) + 1) |-> s[i - 1]]

Members(q) == {Contents(q)[i] : i \in DOMAIN Contents(q)}

\* No scan of a list follows NULL or a freed job, as long as an id is opened
\* only when all older ones were collected, whatever nextjob a job kept.
NoFault == fault # "memory"

\* The pointers of each list lead from firstjob through exactly the jobs that
\* are queued, running or finished to lastjob, and njobs counts them, although
\* nextjob is never reset when a job changes lists.  checkJobQueue, the search
\* of threadPoolThreadRetcode and the walk of SCIPtpiCollectJobs rely on it.
PointersExact ==
    \A l \in {<<jobqueue, "queued">>, <<currentjobs, "running">>, <<finishedjobs, "finished">>} :
       LET q == l[1]
           members == {j \in Jobs : place[j] = l[2]}
       IN /\ q.njobs = Cardinality(members)
          /\ Len(Contents(q)) = q.njobs
          /\ Members(q) = members

\* No wakeup is lost although jobQueueAddJob signals one thread before it
\* counts the job: while a worker sleeps on queuenotempty, enough workers are
\* awake and on their way to the queue for all jobs in it.
Awake == {w \in Workers : wpc[w] \in {"start", "top"}}
WakeupsSuffice == SleepingWorkers # {} => jobqueue.njobs <= Cardinality(Awake)

\* SCIPtpiExit abandons no job: workers leave on the shutdown flag whatever
\* the queue holds, so the queue must be empty for good when it is set, also
\* against a client that slept in threadPoolAddWork meanwhile.
NoJobAbandoned == shutdown => jobqueue.njobs = 0

\* SCIPtpiCollectJobs returns only when every job submitted under the id was
\* executed and none of them is left in the pool, with the smallest code.
CollectComplete ==
    [][\A c \in Clients : (cpc[c] = "collect" /\ cpc'[c] = "idle") =>
          LET jobs == {j \in Jobs : jobid[j] = cid[c] /\ place[j] \notin {"new", "rejected"}}
          IN /\ \A j \in jobs : place[j] \in {"finished", "freed"} /\ place'[j] = "freed"
             /\ cret'[c] <= SCIP_OKAY
             /\ \A j \in jobs : place[j] = "finished" => cret'[c] <= retcode[j]]_vars

\* The pool implements JobPool: the lists seen from firstjob to lastjob are
\* what is pending, running and ended.
InPlace(p) == {j \in Jobs : place[j] = p}
Abs == INSTANCE JobPool WITH
    NumWorkers <- Cardinality(Workers), OKAY <- SCIP_OKAY,
    pending <- Contents(jobqueue), running <- Members(currentjobs),
    ended <- Members(finishedjobs), taken <- InPlace("freed"),
    batch <- [j \in Jobs |-> IF place[j] \in {"none", "new", "rejected"} THEN 0 ELSE jobid[j]],
    code <- retcode, answer <- cret, open <- queueopen, stopped <- shutdown
ImplementsJobPool == Abs!Spec

\* A client that collects an id gets its answer: the jobfinished broadcasts
\* wake it often enough, whatever else it has to share them with.
CollectReturns == \A c \in Clients : cpc[c] \in {"collect", "waitfinished"} ~> cpc[c] = "idle"

\* SCIPtpiExit comes to an end: all workers see the shutdown flag and leave.
ExitReturns == \A c \in Clients : cpc[c] = "drain" ~> cpc[c] = "done"
=============================================================================
