--------------------------- MODULE TpiPoolProofs ---------------------------
(***************************************************************************)
(* What is proved of the thread pool for any number of workers, clients    *)
(* and jobs and any queue size: first of its threads and their waiting;    *)
(* then of the pointers of its job lists, and that it keeps the promise    *)
(* JobPool, when one job id is open at a time.                             *)
(***************************************************************************)
EXTENDS TpiPool, FiniteSetTheorems, SequenceTheorems, WellFoundedInduction, TLAPS

\* A worker that executes a job has one.
RunningHaveJobs == \A w \in Workers : wpc[w] = "run" => wjob[w] \in Jobs

\* The inductive invariant.
IInv == /\ TypeOK
        /\ ThreadsCounted
        /\ RunningHaveJobs
        /\ NoJobAbandoned
        /\ WakeupsSuffice

\* Appending a job to a list yields a list.
LEMMA AppendedType ==
    ASSUME NEW q \in JobQueues, NEW j \in Pointers
    PROVE  Appended(q, j) \in JobQueues
BY DEF Appended, JobQueues

\* Linking the tail of a list keeps the links well typed.
LEMMA LinkTailType ==
    ASSUME NEW links \in [Jobs -> Pointers], NEW q \in JobQueues, NEW j \in Pointers
    PROVE  LinkTail(links, q, j) \in [Jobs -> Pointers]
BY DEF LinkTail

\* TheJob yields a job or NULL.
LEMMA TheJobType ==
    ASSUME NEW S \in SUBSET Jobs
    PROVE  TheJob(S) \in Pointers
BY DEF TheJob, Pointers

\* Waking threads up moves them between control points only.
LEMMA WokenType ==
    ASSUME NEW T, NEW P, NEW pc \in [T -> P], NEW from, NEW to \in P
    PROVE  /\ Woken(pc, from, to) \in [T -> P]
           /\ \A t \in T : Woken(pc, from, to)[t] = IF pc[t] = from THEN to ELSE pc[t]
BY DEF Woken

\* The initial state satisfies the invariant.
LEMMA InitIInv == Init => IInv
<1> SUFFICES ASSUME Init PROVE IInv
  OBVIOUS
<1> USE ConstantsAssumption DEF Init
<1>1. TypeOK
  <2>1. Cardinality(Workers) \in Nat
    BY FS_CardinalityType
  <2>2. ListTypes
    BY DEF ListTypes, JobQueues, Pointers, EmptyList
  <2>3. JobTypes
    BY DEF JobTypes, Places, SCIP_OKAY
  <2>4. CounterTypes
    BY <2>1 DEF CounterTypes
  <2>7. FlagTypes
    BY DEF FlagTypes
  <2>5. WorkerTypes
    BY DEF WorkerTypes, WorkerPoints, Pointers
  <2>6. ClientTypes
    BY DEF ClientTypes, ClientPoints, Pointers, SCIP_OKAY
  <2> QED
    BY <2>2, <2>3, <2>4, <2>5, <2>6, <2>7 DEF TypeOK
<1>2. ThreadsCounted
  <2>1. Active = {}
    BY DEF Active
  <2> QED
    BY <2>1, FS_EmptySet DEF ThreadsCounted
<1>3. SleepingWorkers = {}
  BY DEF SleepingWorkers
<1> QED
  BY <1>1, <1>2, <1>3 DEF IInv, RunningHaveJobs, NoJobAbandoned, WakeupsSuffice


(***************************************************************************)
(* Preservation.  Each lemma is about one action; the parts of the         *)
(* invariant that the action leaves alone follow from its UNCHANGED.       *)
(***************************************************************************)

\* A thread starts: it is counted, and it is awake before and after.
LEMMA WorkerStartIInv ==
    ASSUME IInv, NEW w \in Workers, WorkerStart(w)
    PROVE  IInv'
<1> USE DEF IInv, WorkerStart, listvars, jobvars, clientvars
<1>1. /\ Active' = Active \cup {w} /\ w \notin Active
      /\ Awake' = Awake /\ SleepingWorkers' = SleepingWorkers
  BY DEF Active, Awake, SleepingWorkers, TypeOK, WorkerTypes
<1>2. IsFiniteSet(Active') /\ Active' \subseteq Workers /\ IsFiniteSet(Active)
  BY ConstantsAssumption, FS_Subset DEF Active
<1>3. ThreadsCounted' /\ currworkingthreads' \in 0..Cardinality(Workers)
  <2>1. Cardinality(Active') = Cardinality(Active) + 1
    BY <1>1, <1>2, FS_AddElement
  <2>2. Cardinality(Active') <= Cardinality(Workers) /\ Cardinality(Active') \in Nat
    BY <1>2, ConstantsAssumption, FS_Subset, FS_CardinalityType
  <2>3. Cardinality(Workers) \in Nat
    BY ConstantsAssumption, FS_CardinalityType
  <2> QED
    BY <2>1, <2>2, <2>3 DEF ThreadsCounted
<1>4. TypeOK'
  <2>1. CounterTypes'
    BY <1>3 DEF CounterTypes, TypeOK
  <2>2. WorkerTypes'
    BY DEF WorkerTypes, WorkerPoints, TypeOK
  <2> QED
    BY <2>1, <2>2 DEF TypeOK, ListTypes, JobTypes, FlagTypes, ClientTypes
<1>5. RunningHaveJobs'
  BY DEF RunningHaveJobs, TypeOK, WorkerTypes
<1> QED
  BY <1>1, <1>3, <1>4, <1>5 DEF NoJobAbandoned, WakeupsSuffice

\* An idle worker goes to sleep only over an empty queue.
LEMMA WorkerSleepIInv ==
    ASSUME IInv, NEW w \in Workers, WorkerSleep(w)
    PROVE  IInv'
<1> USE DEF IInv, WorkerSleep, listvars, jobvars, poolvars, clientvars
<1>1. Active' = Active
  BY DEF Active, TypeOK, WorkerTypes
<1>2. TypeOK'
  BY DEF TypeOK, ListTypes, JobTypes, CounterTypes, FlagTypes, WorkerTypes, ClientTypes,
         WorkerPoints
<1>3. RunningHaveJobs'
  BY DEF RunningHaveJobs, TypeOK, WorkerTypes
<1>4. WakeupsSuffice'
  <2>1. Cardinality(Awake') \in Nat
    BY ConstantsAssumption, FS_Subset, FS_CardinalityType DEF Awake
  <2> QED
    BY <2>1 DEF WakeupsSuffice
<1> QED
  BY <1>1, <1>2, <1>3, <1>4 DEF ThreadsCounted, NoJobAbandoned

\* A worker leaves only after the shutdown, when the queue is empty.
LEMMA WorkerExitIInv ==
    ASSUME IInv, NEW w \in Workers, WorkerExit(w)
    PROVE  IInv'
<1> USE DEF IInv, WorkerExit, listvars, jobvars, clientvars
<1>1. Active' = Active \ {w} /\ w \in Active
  BY DEF Active, TypeOK, WorkerTypes
<1>2. IsFiniteSet(Active)
  BY ConstantsAssumption, FS_Subset DEF Active
<1>3. /\ Cardinality(Active') = Cardinality(Active) - 1
      /\ Cardinality(Active') \in Nat
      /\ Cardinality(Active) \in Nat
  BY <1>1, <1>2, FS_RemoveElement, FS_CardinalityType
<1>4. CounterTypes'
  <2>1. Cardinality(Workers) \in Nat
    BY ConstantsAssumption, FS_CardinalityType
  <2> QED
    BY <1>3, <2>1 DEF CounterTypes, ThreadsCounted, TypeOK
<1>5. WorkerTypes'
  BY DEF WorkerTypes, WorkerPoints, TypeOK
<1>6. TypeOK'
  BY <1>4, <1>5 DEF TypeOK, ListTypes, JobTypes, FlagTypes, ClientTypes
<1>7. ThreadsCounted'
  BY <1>3 DEF ThreadsCounted
<1>8. RunningHaveJobs'
  BY DEF RunningHaveJobs, TypeOK, WorkerTypes
<1>9. WakeupsSuffice'
  <2>1. Cardinality(Awake') \in Nat
    BY ConstantsAssumption, FS_Subset, FS_CardinalityType DEF Awake
  <2>2. jobqueue' = jobqueue /\ jobqueue.njobs = 0
    BY DEF NoJobAbandoned
  <2> QED
    BY <2>1, <2>2 DEF WakeupsSuffice
<1> QED
  BY <1>6, <1>7, <1>8, <1>9 DEF NoJobAbandoned

\* The clients that a dequeue may wake up stay at client points.
LEMMA ClientsAfterTakeType ==
    ASSUME TypeOK, NEW n
    PROVE  ClientsAfterTake(n) \in [Clients -> ClientPoints]
<1>1. cpc \in [Clients -> ClientPoints] /\ "submit" \in ClientPoints /\ "drain" \in ClientPoints
  BY DEF TypeOK, ClientTypes, ClientPoints
<1>2. Woken(cpc, "waitnotfull", "submit") \in [Clients -> ClientPoints]
  BY <1>1, WokenType
<1>3. /\ Woken(cpc, "waitempty", "drain") \in [Clients -> ClientPoints]
      /\ Woken(Woken(cpc, "waitnotfull", "submit"), "waitempty", "drain")
            \in [Clients -> ClientPoints]
  BY <1>1, <1>2, WokenType
<1> QED
  BY <1>1, <1>2, <1>3 DEF ClientsAfterTake

\* The queue and one of the awake workers lose one each.
LEMMA WorkerTakeIInv ==
    ASSUME IInv, NEW w \in Workers, WorkerTake(w)
    PROVE  IInv'
<1> DEFINE job == jobqueue.first
<1> USE DEF IInv
<1>1. /\ job \in Jobs /\ wpc[w] = "top" /\ ~shutdown
      /\ wpc' = [wpc EXCEPT ![w] = "run"] /\ wjob' = [wjob EXCEPT ![w] = job]
      /\ cpc' = ClientsAfterTake(jobqueue.njobs - 1)
      /\ nextjob' = LinkTail(nextjob, currentjobs, job)
      /\ currentjobs' = Appended(currentjobs, job)
      /\ place' = [place EXCEPT ![job] = "running"]
      /\ UNCHANGED <<finishedjobs, jobid, retcode, poolvars, cjob, cid, cret, openids, fault>>
  BY DEF WorkerTake, TypeOK, ListTypes, JobQueues, Pointers
<1>2. /\ jobqueue' \in JobQueues
      /\ jobqueue'.njobs = jobqueue.njobs - 1
      /\ jobqueue.njobs \in Nat \ {0}
  BY <1>1 DEF WorkerTake, TypeOK, ListTypes, JobQueues, Pointers, EmptyList
<1>3. TypeOK'
  <2>1. ListTypes'
    <3>1. nextjob' \in [Jobs -> Pointers]
      BY <1>1, LinkTailType DEF TypeOK, ListTypes, Pointers
    <3>2. currentjobs' \in JobQueues
      BY <1>1, AppendedType DEF TypeOK, ListTypes, Pointers
    <3>3. jobqueue'.njobs \in Nat
      BY <1>2
    <3> QED
      BY <1>1, <1>2, <3>1, <3>2, <3>3 DEF TypeOK, ListTypes
  <2>2. JobTypes'
    BY <1>1 DEF TypeOK, JobTypes, Places
  <2>3. WorkerTypes'
    BY <1>1 DEF TypeOK, WorkerTypes, WorkerPoints, Pointers
  <2>4. ClientTypes'
    BY <1>1, ClientsAfterTakeType DEF TypeOK, ClientTypes
  <2> QED
    BY <1>1, <2>1, <2>2, <2>3, <2>4 DEF TypeOK, CounterTypes, FlagTypes, poolvars
<1>4. Active' = Active
  BY <1>1 DEF Active, TypeOK, WorkerTypes
<1>5. RunningHaveJobs'
  BY <1>1 DEF RunningHaveJobs, TypeOK, WorkerTypes
<1>6. WakeupsSuffice'
  <2>1. Awake' = Awake \ {w} /\ w \in Awake /\ SleepingWorkers' = SleepingWorkers
    BY <1>1 DEF Awake, SleepingWorkers, TypeOK, WorkerTypes
  <2>2. IsFiniteSet(Awake)
    BY ConstantsAssumption, FS_Subset DEF Awake
  <2>3. Cardinality(Awake') = Cardinality(Awake) - 1 /\ Cardinality(Awake) \in Nat
    BY <2>1, <2>2, FS_RemoveElement, FS_CardinalityType
  <2> QED
    BY <1>2, <2>1, <2>3 DEF WakeupsSuffice
<1>7. UNCHANGED poolvars /\ ~shutdown'
  BY <1>1 DEF poolvars
<1> QED
  BY <1>3, <1>4, <1>5, <1>6, <1>7 DEF ThreadsCounted, NoJobAbandoned, poolvars

\* Waking up only adds awake workers.
LEMMA MoreAwake ==
    ASSUME IInv, jobqueue'.njobs = jobqueue.njobs,
           Awake \subseteq Awake', SleepingWorkers' \subseteq SleepingWorkers
    PROVE  WakeupsSuffice'
<1>1. IsFiniteSet(Awake')
  BY ConstantsAssumption, FS_Subset DEF Awake
<1>2. Cardinality(Awake) <= Cardinality(Awake') /\ Cardinality(Awake) \in Nat
      /\ Cardinality(Awake') \in Nat
  BY <1>1, FS_Subset, FS_CardinalityType
<1>3. jobqueue.njobs \in Int
  BY DEF IInv, TypeOK, ListTypes, JobQueues
<1> QED
  BY <1>2, <1>3 DEF IInv, WakeupsSuffice

\* The finished job moves between lists; the worker is awake again.
LEMMA WorkerFinishIInv ==
    ASSUME IInv, NEW w \in Workers, NEW r \in Retcodes, WorkerFinish(w, r)
    PROVE  IInv'
<1> DEFINE job  == wjob[w]
           s    == Steps(currentjobs.first)
           prev == TheJob({p \in Jobs : \E k \in DOMAIN s \ {0} : s[k] = job /\ s[k-1] = p})
           links == IF prev = NULL THEN nextjob ELSE [nextjob EXCEPT ![prev] = nextjob[job]]
<1>1. /\ wpc[w] = "run"
      /\ retcode' = [retcode EXCEPT ![job] = r]
      /\ currentjobs' = Unlinked(currentjobs, job, prev)
      /\ nextjob' = LinkTail(links, finishedjobs, job)
      /\ finishedjobs' = Appended(finishedjobs, job)
      /\ place' = [place EXCEPT ![job] = "finished"]
      /\ cpc' = Woken(cpc, "waitfinished", "collect")
      /\ wpc' = [wpc EXCEPT ![w] = "top"] /\ wjob' = [wjob EXCEPT ![w] = NULL]
      /\ UNCHANGED <<jobqueue, jobid, poolvars, cjob, cid, cret, openids, fault>>
  BY DEF WorkerFinish
<1>2. prev \in Pointers
  BY TheJobType
<1> HIDE DEF prev
<1>3. job \in Jobs /\ nextjob[job] \in Pointers /\ job \in Pointers
  BY <1>1 DEF IInv, RunningHaveJobs, TypeOK, ListTypes, Pointers
<1>4. links \in [Jobs -> Pointers]
  BY <1>3 DEF IInv, TypeOK, ListTypes
<1>5. Unlinked(currentjobs, job, prev) \in JobQueues
  BY <1>2, <1>3 DEF Unlinked, JobQueues, IInv, TypeOK, ListTypes
<1>6. TypeOK'
  <2>1. ListTypes'
    BY <1>1, <1>3, <1>4, <1>5, AppendedType, LinkTailType DEF IInv, TypeOK, ListTypes
  <2>2. JobTypes'
    BY <1>1, ConstantsAssumption DEF IInv, TypeOK, JobTypes, Places
  <2>3. WorkerTypes'
    BY <1>1 DEF IInv, TypeOK, WorkerTypes, WorkerPoints, Pointers
  <2>4. ClientTypes'
    <3>1. cpc \in [Clients -> ClientPoints] /\ "collect" \in ClientPoints
      BY DEF IInv, TypeOK, ClientTypes, ClientPoints
    <3>2. cpc' \in [Clients -> ClientPoints]
      BY <1>1, <3>1, WokenType
    <3> QED
      BY <1>1, <3>2 DEF IInv, TypeOK, ClientTypes
  <2>5. CounterTypes' /\ FlagTypes'
    BY <1>1 DEF IInv, TypeOK, CounterTypes, FlagTypes, poolvars
  <2> QED
    BY <1>1, <2>1, <2>2, <2>3, <2>4, <2>5 DEF IInv, TypeOK
<1>7. Active' = Active /\ Awake \subseteq Awake' /\ SleepingWorkers' \subseteq SleepingWorkers
  BY <1>1 DEF IInv, TypeOK, WorkerTypes, Active, Awake, SleepingWorkers
<1>8. WakeupsSuffice'
  BY <1>1, <1>7, MoreAwake
<1>9. RunningHaveJobs'
  BY <1>1 DEF IInv, RunningHaveJobs, TypeOK, WorkerTypes
<1> QED
  BY <1>1, <1>6, <1>7, <1>8, <1>9
  DEF IInv, ThreadsCounted, NoJobAbandoned, poolvars

\* A spurious wakeup makes a worker look at the queue once more.
LEMMA WorkerSpuriousWakeupIInv ==
    ASSUME IInv, NEW w \in Workers, WorkerSpuriousWakeup(w)
    PROVE  IInv'
<1> USE DEF WorkerSpuriousWakeup, listvars, jobvars, poolvars, clientvars
<1>1. Active' = Active /\ Awake \subseteq Awake' /\ SleepingWorkers' \subseteq SleepingWorkers
  BY DEF IInv, TypeOK, WorkerTypes, Active, Awake, SleepingWorkers
<1>2. TypeOK'
  BY DEF IInv, TypeOK, ListTypes, JobTypes, CounterTypes, FlagTypes, WorkerTypes, ClientTypes,
         WorkerPoints
<1>3. RunningHaveJobs'
  BY DEF IInv, RunningHaveJobs, TypeOK, WorkerTypes
<1>4. WakeupsSuffice'
  BY <1>1, MoreAwake
<1> QED
  BY <1>1, <1>2, <1>3, <1>4 DEF IInv, ThreadsCounted, NoJobAbandoned

\* What a client does without touching the queue or a worker.
LEMMA ClientOnlyIInv ==
    ASSUME IInv, TypeOK',
           UNCHANGED <<jobqueue, currworkingthreads, shutdown, workervars>>
    PROVE  IInv'
BY DEF IInv, ThreadsCounted, Active, RunningHaveJobs, NoJobAbandoned,
       WakeupsSuffice, Awake, SleepingWorkers, workervars

\* A job enters the open queue and, if workers sleep, one of them wakes up:
\* both sides of WakeupsSuffice grow by one.
LEMMA SubmitJobIInv ==
    ASSUME IInv, NEW c \in Clients, SubmitJob(c)
    PROVE  IInv'
<1> DEFINE job == cjob[c]
<1>1. /\ ~shutdown
      /\ nextjob' = LinkTail([nextjob EXCEPT ![job] = NULL], jobqueue, job)
      /\ jobqueue' = Appended(jobqueue, job)
      /\ place' = [place EXCEPT ![job] = "queued"]
      /\ SignalNotEmpty
      /\ cjob' = [cjob EXCEPT ![c] = NULL]
      /\ cpc' = [cpc EXCEPT ![c] = "idle"]
      /\ UNCHANGED <<currentjobs, finishedjobs, jobid, retcode, poolvars, wjob,
                     cid, cret, openids, fault>>
  BY DEF SubmitJob, QueueTakesJobs, Goto
<1>2. job \in Pointers
  BY DEF IInv, TypeOK, ClientTypes
<1>3. jobqueue'.njobs = jobqueue.njobs + 1 /\ jobqueue.njobs \in Nat
  BY <1>1 DEF Appended, IInv, TypeOK, ListTypes, JobQueues
<1>4. Active' = Active /\ WakeupsSuffice' /\ WorkerTypes' /\ RunningHaveJobs'
  <2>1. CASE SleepingWorkers = {}
    <3>1. wpc' = wpc
      BY <1>1, <2>1 DEF SignalNotEmpty
    <3>2. SleepingWorkers' = {}
      BY <2>1, <3>1 DEF SleepingWorkers
    <3> QED
      BY <3>1, <3>2, <1>1
      DEF WakeupsSuffice, Active, IInv, TypeOK, WorkerTypes, RunningHaveJobs
  <2>2. CASE SleepingWorkers # {}
    <3>1. PICK w \in SleepingWorkers : wpc' = [wpc EXCEPT ![w] = "top"]
      BY <1>1, <2>2 DEF SignalNotEmpty
    <3>2. /\ w \in Workers /\ wpc[w] = "wait" /\ w \notin Awake
          /\ Awake' = Awake \cup {w} /\ Active' = Active
      BY <3>1 DEF SleepingWorkers, Awake, Active, IInv, TypeOK, WorkerTypes
    <3>3. IsFiniteSet(Awake)
      BY ConstantsAssumption, FS_Subset DEF Awake
    <3>4. Cardinality(Awake') = Cardinality(Awake) + 1 /\ Cardinality(Awake) \in Nat
      BY <3>2, <3>3, FS_AddElement, FS_CardinalityType
    <3>5. WakeupsSuffice'
      BY <1>3, <2>2, <3>4 DEF IInv, WakeupsSuffice
    <3>6. WorkerTypes' /\ RunningHaveJobs'
      BY <1>1, <3>1, <3>2 DEF IInv, TypeOK, WorkerTypes, WorkerPoints, RunningHaveJobs
    <3> QED
      BY <3>2, <3>5, <3>6
  <2> QED
    BY <2>1, <2>2
<1>5. TypeOK'
  <2>1. ListTypes'
    <3>1. [nextjob EXCEPT ![job] = NULL] \in [Jobs -> Pointers]
      BY DEF IInv, TypeOK, ListTypes, Pointers
    <3>2. nextjob' \in [Jobs -> Pointers]
      BY <1>1, <1>2, <3>1, LinkTailType DEF IInv, TypeOK, ListTypes
    <3>3. jobqueue' \in JobQueues
      BY <1>1, <1>2, AppendedType DEF IInv, TypeOK, ListTypes
    <3>4. jobqueue'.njobs \in Nat
      BY <1>3
    <3> QED
      BY <1>1, <3>2, <3>3, <3>4 DEF IInv, TypeOK, ListTypes
  <2>2. JobTypes'
    BY <1>1 DEF IInv, TypeOK, JobTypes, Places
  <2>3. ClientTypes'
    BY <1>1 DEF IInv, TypeOK, ClientTypes, ClientPoints, Pointers
  <2> QED
    BY <1>1, <1>4, <2>1, <2>2, <2>3 DEF IInv, TypeOK, CounterTypes, FlagTypes, poolvars
<1> QED
  BY <1>1, <1>4, <1>5 DEF IInv, ThreadsCounted, NoJobAbandoned, poolvars

\* Closing the queue.
LEMMA ExitCloseIInv ==
    ASSUME IInv, NEW c \in Clients, ExitClose(c)
    PROVE  IInv'
<1> USE DEF ExitClose, Goto, listvars, jobvars, workervars
<1>1. queueopen' \in BOOLEAN
  OBVIOUS
<1>2. FlagTypes'
  BY <1>1 DEF IInv, TypeOK, FlagTypes
<1>3. ClientTypes'
  BY DEF IInv, TypeOK, ClientTypes, ClientPoints
<1>4. TypeOK'
  BY <1>2, <1>3 DEF IInv, TypeOK, ListTypes, JobTypes, CounterTypes, WorkerTypes
<1> QED
  BY <1>4, ClientOnlyIInv

\* The shutdown flag is raised over an empty queue.
LEMMA ExitShutdownIInv ==
    ASSUME IInv, NEW c \in Clients, ExitShutdown(c)
    PROVE  IInv'
<1> USE DEF ExitShutdown, Goto, listvars, jobvars, workervars
<1>1. FlagTypes'
  BY DEF IInv, TypeOK, FlagTypes
<1>2. ClientTypes'
  BY DEF IInv, TypeOK, ClientTypes, ClientPoints
<1>3. TypeOK'
  BY <1>1, <1>2 DEF IInv, TypeOK, ListTypes, JobTypes, CounterTypes, WorkerTypes
<1>4. jobqueue' = jobqueue /\ jobqueue.njobs = 0
  BY DEF IInv, TypeOK, ListTypes, JobQueues
<1> QED
  BY <1>3, <1>4 DEF IInv, ThreadsCounted, Active, RunningHaveJobs, NoJobAbandoned,
                     WakeupsSuffice, Awake, SleepingWorkers

\* The broadcast leaves nobody asleep.
LEMMA ExitWakeWorkersIInv ==
    ASSUME IInv, NEW c \in Clients, ExitWakeWorkers(c)
    PROVE  IInv'
<1>1. /\ wpc' = Woken(wpc, "wait", "top")
      /\ cpc' = [cpc EXCEPT ![c] = "wakesubmitters"]
      /\ UNCHANGED <<listvars, jobvars, poolvars, wjob, cjob, cid, cret, openids, fault>>
  BY DEF ExitWakeWorkers, Goto
<1>2. wpc \in [Workers -> WorkerPoints] /\ "top" \in WorkerPoints
  BY DEF IInv, TypeOK, WorkerTypes, WorkerPoints
<1>3. /\ wpc' \in [Workers -> WorkerPoints]
      /\ \A w \in Workers : wpc'[w] = IF wpc[w] = "wait" THEN "top" ELSE wpc[w]
  <2>1. wpc' = [w \in Workers |-> IF wpc[w] = "wait" THEN "top" ELSE wpc[w]]
    BY <1>1, <1>2 DEF Woken
  <2> QED
    BY <1>2, <2>1
<1>4. SleepingWorkers' = {} /\ Active' = Active
  BY <1>3 DEF SleepingWorkers, Active
<1>5. ClientTypes'
  BY <1>1 DEF IInv, TypeOK, ClientTypes, ClientPoints
<1>6. TypeOK'
  BY <1>1, <1>3, <1>5 DEF IInv, TypeOK, ListTypes, JobTypes, CounterTypes, FlagTypes,
                          WorkerTypes, listvars, jobvars, poolvars
<1>7. RunningHaveJobs'
  BY <1>1, <1>3 DEF IInv, RunningHaveJobs
<1> QED
  BY <1>1, <1>4, <1>6, <1>7 DEF IInv, ThreadsCounted, NoJobAbandoned, WakeupsSuffice,
                                listvars, poolvars

\* Opening an id, creating a job and giving up a submission.
LEMMA SubmissionType ==
    ASSUME TypeOK, NEW c \in Clients,
           \/ GetNewJobID(c) \/ SubmitQueueFull(c) \/ SubmitSleep(c) \/ SubmitRejected(c)
           \/ \E j \in Jobs : CreateJob(c, j)
    PROVE  TypeOK'
<1> USE DEF TypeOK, ListTypes, JobTypes, CounterTypes, FlagTypes, WorkerTypes, ClientTypes,
            Goto, listvars, jobvars, poolvars, workervars
<1>1. CASE GetNewJobID(c)
  BY <1>1 DEF GetNewJobID
<1>2. CASE SubmitQueueFull(c)
  BY <1>2 DEF SubmitQueueFull, Places, ClientPoints, Pointers
<1>3. CASE SubmitSleep(c)
  BY <1>3 DEF SubmitSleep, ClientPoints
<1>4. CASE SubmitRejected(c)
  BY <1>4 DEF SubmitRejected, Places, ClientPoints, Pointers
<1>5. CASE \E j \in Jobs : CreateJob(c, j)
  BY <1>5 DEF CreateJob, Places, ClientPoints, Pointers
<1> QED
  BY <1>1, <1>2, <1>3, <1>4, <1>5

\* Waiting for jobs, for room or for an empty queue, and waking up.
LEMMA WaitingType ==
    ASSUME TypeOK, NEW c \in Clients,
           \/ CollectSleep(c) \/ ExitSleep(c) \/ ExitFree(c) \/ ClientSpuriousWakeup(c)
           \/ ExitWakeSubmitters(c) \/ \E id \in openids[c] : CollectJobs(c, id)
    PROVE  TypeOK'
<1> USE DEF TypeOK, ListTypes, JobTypes, CounterTypes, FlagTypes, WorkerTypes, ClientTypes,
            listvars, jobvars, poolvars, workervars
<1>1. CASE CollectSleep(c)
  BY <1>1 DEF CollectSleep, Goto, ClientPoints
<1>2. CASE ExitSleep(c)
  BY <1>2 DEF ExitSleep, Goto, ClientPoints
<1>3. CASE ExitFree(c)
  BY <1>3 DEF ExitFree, Goto, ClientPoints
<1>4. CASE ClientSpuriousWakeup(c)
  BY <1>4 DEF ClientSpuriousWakeup, Goto, ClientPoints
<1>5. CASE ExitWakeSubmitters(c)
  <2>1. [cpc EXCEPT ![c] = "join"] \in [Clients -> ClientPoints] /\ "submit" \in ClientPoints
    BY DEF ClientPoints
  <2>2. cpc' \in [Clients -> ClientPoints]
    BY <1>5, <2>1, WokenType DEF ExitWakeSubmitters
  <2> QED
    BY <1>5, <2>2 DEF ExitWakeSubmitters
<1>6. CASE \E id \in openids[c] : CollectJobs(c, id)
  BY <1>6 DEF CollectJobs, Goto, ClientPoints
<1> QED
  BY <1>1, <1>2, <1>3, <1>4, <1>5, <1>6

\* Collecting keeps the finished list and the links well typed.
LEMMA CollectReturnType ==
    ASSUME TypeOK, NEW c \in Clients, CollectReturn(c)
    PROVE  TypeOK'
<1> DEFINE s    == Steps(finishedjobs.first)
           seen == {k \in DOMAIN s : s[k] # NULL}
           gone == {j \in Jobs : jobid[j] = cid[c] /\ \E k \in seen : s[k] = j}
           kept == {k \in seen : s[k] \notin gone}
           firstKept(ks) == TheJob({j \in Jobs : \E k \in ks : s[k] = j /\ \A i \in ks : k <= i})
           lastKept(ks)  == TheJob({j \in Jobs : \E k \in ks : s[k] = j /\ \A i \in ks : i <= k})
           before == {k \in kept : \E i \in seen : k < i /\ s[i] = finishedjobs.last}
           next(j) == {k \in kept : \E i \in kept : i < k /\ s[i] = j}
<1>1. \A ks : firstKept(ks) \in Pointers /\ lastKept(ks) \in Pointers
  BY TheJobType
<1>2. Cardinality(gone) \in Nat
  BY ConstantsAssumption, FS_Subset, FS_CardinalityType
<1>3. finishedjobs' = [first |-> firstKept(kept),
                       last  |-> IF finishedjobs.last \notin gone THEN finishedjobs.last
                                 ELSE lastKept(before),
                       njobs |-> finishedjobs.njobs - Cardinality(gone)]
  BY DEF CollectReturn
<1>4. nextjob' = [j \in Jobs |-> IF \E k \in kept : s[k] = j THEN firstKept(next(j))
                                 ELSE IF j \in gone THEN NULL ELSE nextjob[j]]
  BY DEF CollectReturn
<1>5. /\ place' = [j \in Jobs |-> IF j \in gone THEN "freed" ELSE place[j]]
      /\ retcode' = [j \in Jobs |-> IF j \in gone THEN SCIP_OKAY ELSE retcode[j]]
      /\ \E r \in {SCIP_OKAY} \cup {retcode[j] : j \in gone} : cret' = [cret EXCEPT ![c] = r]
      /\ fault' \in {"none", "memory"}
      /\ openids' = [openids EXCEPT ![c] = @ \ {cid[c]}]
      /\ cid' = [cid EXCEPT ![c] = 0]
      /\ cpc' = [cpc EXCEPT ![c] = "idle"]
      /\ UNCHANGED <<jobqueue, currentjobs, jobid, poolvars, workervars, cjob>>
  BY DEF CollectReturn, Goto
<1>6. gone \subseteq Jobs
  OBVIOUS
<1> HIDE DEF s, seen, gone, kept, firstKept, lastKept, before, next
<1>7. finishedjobs' \in JobQueues
  BY <1>1, <1>2, <1>3 DEF TypeOK, ListTypes, JobQueues
<1>8. nextjob' \in [Jobs -> Pointers]
  BY <1>1, <1>4 DEF TypeOK, ListTypes, Pointers
<1>9. JobTypes'
  BY <1>5 DEF TypeOK, JobTypes, Places, SCIP_OKAY
<1>10. ClientTypes'
  BY <1>5, <1>6 DEF TypeOK, ClientTypes, ClientPoints, JobTypes, SCIP_OKAY
<1> QED
  BY <1>5, <1>7, <1>8, <1>9, <1>10
  DEF TypeOK, ListTypes, CounterTypes, FlagTypes, WorkerTypes, poolvars, workervars

\* Every step preserves the invariant.
LEMMA NextIInv == IInv /\ [Next]_vars => IInv'
<1> SUFFICES ASSUME IInv, [Next]_vars PROVE IInv'
  OBVIOUS
<1>1. CASE \E w \in Workers : WorkerStep(w) \/ WorkerSpuriousWakeup(w)
  BY <1>1, WorkerStartIInv, WorkerSleepIInv, WorkerExitIInv, WorkerTakeIInv, WorkerFinishIInv,
     WorkerSpuriousWakeupIInv DEF WorkerStep
<1>2. CASE \E c \in Clients : \/ ClientCall(c) \/ SubmitStep(c) \/ CollectStep(c)
                              \/ ExitStep(c) \/ ClientSpuriousWakeup(c)
  <2> PICK c \in Clients : \/ ClientCall(c) \/ SubmitStep(c) \/ CollectStep(c)
                           \/ ExitStep(c) \/ ClientSpuriousWakeup(c)
    BY <1>2
  <2>1. CASE \/ GetNewJobID(c) \/ SubmitQueueFull(c) \/ SubmitSleep(c) \/ SubmitRejected(c)
             \/ \E j \in Jobs : CreateJob(c, j)
    <3>1. TypeOK'
      BY <2>1, SubmissionType DEF IInv
    <3>2. UNCHANGED <<jobqueue, currworkingthreads, shutdown, workervars>>
      BY <2>1 DEF GetNewJobID, SubmitQueueFull, SubmitSleep, SubmitRejected, CreateJob,
                  listvars, poolvars
    <3> QED
      BY <3>1, <3>2, ClientOnlyIInv
  <2>2. CASE \/ CollectSleep(c) \/ ExitSleep(c) \/ ExitFree(c) \/ ClientSpuriousWakeup(c)
             \/ ExitWakeSubmitters(c) \/ \E id \in openids[c] : CollectJobs(c, id)
    <3>1. TypeOK'
      BY <2>2, WaitingType DEF IInv
    <3>2. UNCHANGED <<jobqueue, currworkingthreads, shutdown, workervars>>
      BY <2>2 DEF CollectSleep, ExitSleep, ExitFree, ClientSpuriousWakeup, ExitWakeSubmitters,
                  CollectJobs, listvars, poolvars
    <3> QED
      BY <3>1, <3>2, ClientOnlyIInv
  <2>3. CASE CollectReturn(c)
    <3>1. TypeOK'
      BY <2>3, CollectReturnType DEF IInv
    <3>2. UNCHANGED <<jobqueue, currworkingthreads, shutdown, workervars>>
      BY <2>3 DEF CollectReturn, poolvars
    <3> QED
      BY <3>1, <3>2, ClientOnlyIInv
  <2>4. CASE SubmitJob(c)
    BY <2>4, SubmitJobIInv
  <2>5. CASE ExitClose(c) \/ ExitShutdown(c) \/ ExitWakeWorkers(c)
    BY <2>5, ExitCloseIInv, ExitShutdownIInv, ExitWakeWorkersIInv
  <2> QED
    BY <2>1, <2>2, <2>3, <2>4, <2>5 DEF ClientCall, SubmitStep, CollectStep, ExitStep
<1>3. CASE UNCHANGED vars
  <2>1. TypeOK'
    BY <1>3 DEF vars, listvars, jobvars, poolvars, workervars, clientvars, IInv, TypeOK, ListTypes,
                JobTypes, CounterTypes, FlagTypes, WorkerTypes, ClientTypes
  <2> QED
    BY <1>3, <2>1, ClientOnlyIInv DEF vars, listvars, poolvars
<1> QED
  BY <1>1, <1>2, <1>3 DEF Next, Terminated

\* The inductive invariant holds in every reachable state.
LEMMA InvariantHolds == Spec => []IInv
BY InitIInv, NextIInv, PTL DEF Spec

-----------------------------------------------------------------------------
\* Type correctness of the pool: no pointer of a list is ever anything but a
\* job or NULL, and the pool never counts more working threads than it has.
THEOREM TypeCorrect == Spec => []TypeOK
<1>1. Spec => []IInv
  BY InvariantHolds
<1>2. IInv => TypeOK
  BY DEF IInv
<1> QED
  BY <1>1, <1>2, PTL

\* SCIPtpiExit (freeThreadPool) never abandons a queued job, for any number of
\* workers and clients and whatever the size of the queue.
THEOREM NoJobIsAbandoned == Spec => []NoJobAbandoned
<1>1. Spec => []IInv
  BY InvariantHolds
<1>2. IInv => NoJobAbandoned
  BY DEF IInv
<1> QED
  BY <1>1, <1>2, PTL

\* jobQueueAddJob may signal a single worker: no job waits in the queue
\* without a worker on its way to it as long as some worker sleeps.
THEOREM NoWakeupIsLost == Spec => []WakeupsSuffice
<1>1. Spec => []IInv
  BY InvariantHolds
<1>2. IInv => WakeupsSuffice
  BY DEF IInv
<1> QED
  BY <1>1, <1>2, PTL

-----------------------------------------------------------------------------
(* The inductive invariant.                                                *)

\* With these links, the pointers of q lead through the different jobs S, from
\* the first to the last; where the last one points is another matter.
IsList(links, q, S) ==
    /\ S \in Seq(Jobs)
    /\ \A i, k \in 1..Len(S) : S[i] = S[k] => i = k
    /\ q.njobs = Len(S)
    /\ S # <<>> => q.first = S[1] /\ q.last = S[Len(S)]
    /\ \A k \in 1..(Len(S) - 1) : links[S[k]] = S[k + 1]

ListIs(q, S) == IsList(nextjob, q, S)

\* The jobs in place p are the members of S.
In(x, S) == \E k \in 1..Len(S) : S[k] = x
Holds(S, p) == \A j \in Jobs : place[j] = p <=> In(j, S)

\* NULL or the head of the queue.
ToQueue(x, Q) == x = NULL \/ (Q # <<>> /\ x = Q[1])

\* The stale pointers: the last job that was taken points to the head of the
\* queue or nowhere, and so does firstjob of currentjobs when the list is
\* empty; the last job that was finished points to one that is not.
Stale(Q, C, F) ==
    /\ IF Q = <<>> THEN jobqueue.first = NULL ELSE nextjob[Q[Len(Q)]] = NULL
    /\ ToQueue(IF C = <<>> THEN currentjobs.first ELSE nextjob[C[Len(C)]], Q)
    /\ IF F = <<>> THEN finishedjobs.first = NULL
       ELSE LET x == nextjob[F[Len(F)]]
            IN x = NULL \/ (x \in Jobs /\ place[x] \in {"queued", "running"})

Lists(Q, C, F) ==
    /\ ListIs(jobqueue, Q) /\ ListIs(currentjobs, C) /\ ListIs(finishedjobs, F)
    /\ Holds(Q, "queued") /\ Holds(C, "running") /\ Holds(F, "finished")
    /\ Stale(Q, C, F)

ListsHold == \E Q, C, F : Lists(Q, C, F)

\* Every running job has one worker, and every worker that executes has one.
WorkersHold ==
    /\ \A w \in Workers : wpc[w] = "run" => place[wjob[w]] = "running"
    /\ \A w, v \in Workers : wpc[w] = "run" /\ wpc[v] = "run" /\ wjob[w] = wjob[v] => w = v
    /\ \A j \in Jobs : place[j] = "running" => \E w \in Workers : wpc[w] = "run" /\ wjob[w] = j

\* Every new job has one client, which is about to submit it.
Submits(c) == cpc[c] \in {"add", "submit", "waitnotfull"}
ClientsHold ==
    /\ \A c \in Clients : Submits(c) => /\ cjob[c] \in Jobs /\ place[cjob[c]] = "new"
                                        /\ jobid[cjob[c]] \in openids[c]
    /\ \A c, d \in Clients : Submits(c) /\ Submits(d) /\ cjob[c] = cjob[d] => c = d
    /\ \A j \in Jobs : place[j] = "new" => \E c \in Clients : Submits(c) /\ cjob[c] = j

\* There is one open id at a time, and all jobs in the pool have it.
IdsHold ==
    /\ \A c \in Clients : openids[c] \subseteq 1..currentid
    /\ \A c, d \in Clients : \A a \in openids[c], b \in openids[d] : a = b /\ c = d
    /\ \A j \in Jobs : place[j] \in {"queued", "running", "finished"} =>
                          \E c \in Clients : jobid[j] \in openids[c]
    /\ \A c \in Clients : cpc[c] \in {"collect", "waitfinished"} => cid[c] \in openids[c]
    /\ \A j \in Jobs : IF place[j] = "none" THEN jobid[j] = 0 ELSE jobid[j] \in 1..currentid
    /\ \A i \in 1..(currentid - 1) : \E j \in Jobs : jobid[j] = i
    /\ currentid <= Cardinality(Jobs)

\* Whoever drains the queue has closed it.
ClosedHold == \A c \in Clients : cpc[c] \in {"drain", "waitempty"} => ~queueopen

PInv == /\ IInv /\ ListsHold /\ WorkersHold /\ ClientsHold /\ IdsHold /\ ClosedHold /\ NoFault

-----------------------------------------------------------------------------
(* Walking a list.  There is no induction over an arbitrary predicate; the *)
(* least counterexample stands for it.                                     *)

\* Every non-empty set of natural numbers has a least element.
LEMMA LeastNat ==
    ASSUME NEW T, T \subseteq Nat, T # {}
    PROVE  \E x \in T : \A y \in T : x <= y
<1>1. PICK x \in T : \A y \in T : ~(<<y, x>> \in OpToRel(<, Nat))
  BY NatLessThanWellFounded, WFMin
<1>2. \A y \in T : ~(<<y, x>> \in OpToRel(<, Nat)) => ~(y < x)
  BY Zenon DEF OpToRel
<1>3. \A y \in T : ~(y < x)
  BY <1>1, <1>2, Zenon
<1> QED
  BY <1>3

\* A step along the links, and n of them from p.
Link(j) == IF j = NULL THEN NULL ELSE nextjob[j]
IsWalk(f, p, n) == f = [k \in 0..n |-> IF k = 0 THEN p ELSE Link(f[k - 1])]

\* A walk of any length exists.
LEMMA WalkExists ==
    ASSUME NEW p, NEW n \in Nat
    PROVE  \E f : IsWalk(f, p, n)
<1> DEFINE bad == {m \in Nat : ~\E f : IsWalk(f, p, m)}
<1> SUFFICES ASSUME bad # {} PROVE FALSE
  OBVIOUS
<1>1. PICK m \in bad : \A k \in bad : m <= k
  BY LeastNat
<1>2. m # 0
  <2>1. IsWalk([k \in 0..0 |-> p], p, 0)
    BY DEF IsWalk
  <2> QED
    BY <2>1
<1>3. PICK g : IsWalk(g, p, m - 1)
  BY <1>1, <1>2
<1> DEFINE f == [k \in 0..m |-> IF k = 0 THEN p ELSE Link(g[k - 1])]
<1>4. \A k \in 0..(m - 1) : f[k] = g[k]
  BY <1>1, <1>2, <1>3 DEF IsWalk
<1>5. \A k \in 0..m : (IF k = 0 THEN p ELSE Link(g[k - 1])) = (IF k = 0 THEN p ELSE Link(f[k - 1]))
  <2> TAKE k \in 0..m
  <2>1. CASE k = 0
    BY <2>1
  <2>2. CASE k # 0
    <3>1. k - 1 \in 0..(m - 1)
      BY <2>2
    <3> QED
      BY <1>4, <2>2, <3>1
  <2> QED
    BY <2>1, <2>2
<1>6. f = [k \in 0..m |-> IF k = 0 THEN p ELSE Link(f[k - 1])]
  BY <1>5, Zenon
<1> QED
  BY <1>1, <1>6 DEF IsWalk

\* Steps(p) is the walk of as many steps as there are jobs.
LEMMA StepsAre ==
    ASSUME NEW p
    PROVE  /\ Cardinality(Jobs) \in Nat
           /\ DOMAIN Steps(p) = 0..Cardinality(Jobs)
           /\ Steps(p)[0] = p
           /\ \A k \in 1..Cardinality(Jobs) : Steps(p)[k] = Link(Steps(p)[k - 1])
<1>1. Cardinality(Jobs) \in Nat
  BY ConstantsAssumption, FS_CardinalityType
<1>2. IsWalk(Steps(p), p, Cardinality(Jobs))
  <2>1. PICK f : IsWalk(f, p, Cardinality(Jobs))
    BY <1>1, WalkExists
  <2> QED
    BY <2>1 DEF IsWalk, Steps, Link
<1> DEFINE s == Steps(p)
<1>3. s = [k \in 0..Cardinality(Jobs) |-> IF k = 0 THEN p ELSE Link(s[k - 1])]
  BY <1>2 DEF IsWalk
<1> HIDE DEF s
<1>4. /\ DOMAIN s = 0..Cardinality(Jobs)
      /\ \A k \in 0..Cardinality(Jobs) : s[k] = IF k = 0 THEN p ELSE Link(s[k - 1])
  BY <1>3, Zenon
<1>5. \A k \in 1..Cardinality(Jobs) : s[k] = Link(s[k - 1])
  BY <1>1, <1>4
<1> QED
  BY <1>1, <1>4, <1>5 DEF s

\* A walk that enters a set which no link leaves stays there.
LEMMA WalkStays ==
    ASSUME NEW p, NEW m \in 0..Cardinality(Jobs), NEW T,
           Steps(p)[m] \in T, \A j \in T : Link(j) \in T
    PROVE  \A k \in m..Cardinality(Jobs) : Steps(p)[k] \in T
<1> DEFINE N == Cardinality(Jobs)
           bad == {k \in m..N : Steps(p)[k] \notin T}
<1> SUFFICES ASSUME bad # {} PROVE FALSE
  OBVIOUS
<1>1. N \in Nat /\ m \in Nat /\ \A k \in 1..N : Steps(p)[k] = Link(Steps(p)[k - 1])
  BY StepsAre
<1> HIDE DEF N
<1>2. PICK k \in bad : \A i \in bad : k <= i
  <2>1. bad \subseteq Nat
    BY <1>1
  <2> HIDE DEF bad
  <2> QED
    BY <2>1, LeastNat
<1>3. k # m
  BY <1>2
<1>4. k - 1 \in m..N /\ k - 1 \notin bad /\ k \in 1..N
  BY <1>1, <1>2, <1>3
<1>5. Steps(p)[k - 1] \in T
  BY <1>4
<1> QED
  BY <1>1, <1>2, <1>4, <1>5

\* The members of a list are as many as njobs says, and at most all jobs.
LEMMA ListLength ==
    ASSUME NEW q, NEW S, ListIs(q, S)
    PROVE  /\ Len(S) \in Nat /\ Len(S) <= Cardinality(Jobs)
           /\ \A k \in 1..Len(S) : S[k] \in Jobs
           /\ Cardinality({S[k] : k \in 1..Len(S)}) = Len(S)
<1> DEFINE n == Len(S)
           M == {S[k] : k \in 1..Len(S)}
<1>1. S \in Seq(Jobs) /\ n \in Nat /\ S \in [1..n -> Jobs]
  BY LenProperties DEF ListIs, IsList
<1>2. \A k \in 1..n : S[k] \in Jobs
  BY <1>1
<1>3. S \in Injection(1..n, Jobs) /\ S \in Injection(1..n, M) /\ S \in Surjection(1..n, M)
  BY <1>1 DEF ListIs, IsList, Injection, Surjection, IsInjective
<1>4. IsFiniteSet(1..n) /\ Cardinality(1..n) = n
  BY <1>1, FS_Interval
<1>5. Cardinality(1..n) <= Cardinality(Jobs)
  BY <1>3, ConstantsAssumption, FS_Injection
<1>6. Cardinality(M) = Cardinality(1..n)
  BY <1>3, <1>4, FS_Surjection
<1> QED
  BY <1>1, <1>2, <1>4, <1>5, <1>6

\* A walk from firstjob goes along the list.
LEMMA AlongList ==
    ASSUME NEW q, NEW S, ListIs(q, S)
    PROVE  \A k \in 1..Len(S) : Steps(q.first)[k - 1] = S[k]
<1> DEFINE n == Len(S)
           N == Cardinality(Jobs)
           s == Steps(q.first)
           bad == {k \in 1..n : s[k - 1] # S[k]}
<1> SUFFICES ASSUME bad # {} PROVE FALSE
  OBVIOUS
<1>1. /\ n \in Nat /\ N \in Nat /\ n <= N /\ s[0] = q.first
      /\ \A k \in 1..N : s[k] = Link(s[k - 1])
      /\ \A k \in 1..n : S[k] \in Jobs
  BY ListLength, StepsAre
<1>2. \A k \in 1..(n - 1) : nextjob[S[k]] = S[k + 1]
  BY DEF ListIs, IsList
<1>3. n > 0 => q.first = S[1]
  BY EmptySeq DEF ListIs, IsList
<1> HIDE DEF N, n, s
<1>4. PICK k \in bad : \A i \in bad : k <= i
  <2>1. bad \subseteq Nat
    BY <1>1
  <2> HIDE DEF bad
  <2> QED
    BY <2>1, LeastNat
<1>5. k # 1
  BY <1>1, <1>3, <1>4
<1>6. k - 1 \in 1..n /\ k - 1 \notin bad /\ k - 1 \in 1..(n - 1) /\ k - 1 \in 1..N
  BY <1>1, <1>4, <1>5
<1>7. s[k - 2] = S[k - 1]
  BY <1>6
<1>8. s[k - 1] = Link(s[k - 2])
  <2>1. s[k - 1] = Link(s[(k - 1) - 1])
    BY <1>1, <1>6
  <2>2. (k - 1) - 1 = k - 2
    BY <1>1, <1>4
  <2> QED
    BY <2>1, <2>2
<1>9. Link(S[k - 1]) = nextjob[S[k - 1]]
  BY <1>1, <1>6, ConstantsAssumption DEF Link
<1>10. nextjob[S[k - 1]] = S[k]
  <2>1. nextjob[S[k - 1]] = S[(k - 1) + 1] /\ (k - 1) + 1 = k
    BY <1>1, <1>2, <1>4, <1>6
  <2> QED
    BY <2>1
<1> QED
  BY <1>4, <1>7, <1>8, <1>9, <1>10

\* What is read of a list from firstjob to lastjob.
LEMMA ContentsIs ==
    ASSUME NEW q, NEW S, ListIs(q, S)
    PROVE  Contents(q) = S /\ Members(q) = {S[k] : k \in 1..Len(S)}
<1> DEFINE n == Len(S)
           s == Steps(q.first)
           ends == {k \in DOMAIN s : s[k] = q.last}
<1>1. /\ n \in Nat /\ n <= Cardinality(Jobs) /\ Cardinality(Jobs) \in Nat
      /\ DOMAIN s = 0..Cardinality(Jobs)
      /\ \A k \in 1..n : s[k - 1] = S[k]
  BY ListLength, StepsAre, AlongList
<1>2. S \in Seq(Jobs) /\ DOMAIN S = 1..n /\ S = [k \in 1..n |-> S[k]]
  BY LenProperties DEF ListIs, IsList
<1>3. ASSUME S = <<>> PROVE Contents(q) = S
  BY <1>1, <1>3 DEF ListIs, IsList, Contents
<1>4. ASSUME S # <<>> PROVE Contents(q) = S
  <2>1. n > 0 /\ q.njobs = n /\ q.last = S[n]
    BY <1>2, <1>4, EmptySeq DEF ListIs, IsList
  <2> HIDE DEF s
  <2>2. n - 1 \in ends
    BY <1>1, <2>1
  <2>3. \A k \in ends : n - 1 <= k
    <3> SUFFICES ASSUME NEW k \in ends, k < n - 1 PROVE FALSE
      BY <1>1, <2>2
    <3>1. k + 1 \in 1..n /\ k \in Nat
      BY <1>1
    <3>2. s[(k + 1) - 1] = S[k + 1] /\ (k + 1) - 1 = k
      BY <1>1, <3>1
    <3>3. S[k + 1] = S[n]
      BY <2>1, <3>2
    <3> QED
      BY <1>1, <2>1, <3>1, <3>3 DEF ListIs, IsList
  <2>4. Min(ends) = n - 1
    <3>1. \A x \in ends : x \in Int
      BY <1>1
    <3> HIDE DEF ends
    <3> QED
      BY <1>1, <2>2, <2>3, <3>1 DEF Min
  <2>5. Contents(q) = [i \in 1..(Min(ends) + 1) |-> s[i - 1]]
    BY <1>1, <2>1, <2>2 DEF Contents, s
  <2>6. Contents(q) = [i \in 1..n |-> s[i - 1]]
    BY <1>1, <2>4, <2>5
  <2>7. [i \in 1..n |-> s[i - 1]] = [i \in 1..n |-> S[i]]
    BY <1>1
  <2>8. S = [i \in 1..n |-> S[i]]
    BY <1>2
  <2> QED
    BY <2>6, <2>7, <2>8
<1>5. Contents(q) = S
  BY <1>3, <1>4
<1>6. DOMAIN Contents(q) = 1..n
  BY <1>2, <1>5
<1>7. Members(q) = {S[k] : k \in 1..n}
  <2> DEFINE c == Contents(q)
  <2>1. c = S /\ DOMAIN c = 1..n /\ Members(q) = {c[k] : k \in DOMAIN c}
    BY <1>5, <1>6 DEF Members
  <2> HIDE DEF c
  <2> QED
    BY <2>1
<1> QED
  BY <1>5, <1>7

-----------------------------------------------------------------------------
(* Operations on one list.                                                 *)

\* A list is as good under other links that agree on its jobs.
LEMMA LinksAside ==
    ASSUME NEW links, NEW other, NEW q, NEW S, IsList(links, q, S),
           \A k \in 1..Len(S) : other[S[k]] = links[S[k]]
    PROVE  IsList(other, q, S)
<1>1. Len(S) \in Nat
  BY LenProperties DEF IsList
<1>2. \A k \in 1..(Len(S) - 1) : k \in 1..Len(S)
  BY <1>1
<1> QED
  BY <1>2 DEF IsList

\* The first and the last job of a list that is not empty.
LEMMA ListEnds ==
    ASSUME NEW links, NEW q, NEW S, IsList(links, q, S)
    PROVE  /\ Len(S) \in Nat /\ q.njobs = Len(S)
           /\ \A k \in 1..Len(S) : S[k] \in Jobs /\ In(S[k], S)
           /\ S = <<>> <=> Len(S) = 0
           /\ S # <<>> => /\ 1 \in 1..Len(S) /\ Len(S) \in 1..Len(S)
                          /\ q.first = S[1] /\ q.last = S[Len(S)]
<1>1. S \in Seq(Jobs) /\ Len(S) \in Nat /\ S \in [1..Len(S) -> Jobs]
  BY LenProperties DEF IsList
<1>2. S = <<>> <=> Len(S) = 0
  BY <1>1, EmptySeq
<1> QED
  BY <1>1, <1>2 DEF IsList, In

\* A job at the tail of a list: only the link of the old tail changes.
LEMMA AppendList ==
    ASSUME NEW links \in [Jobs -> Pointers], NEW q, NEW S, IsList(links, q, S),
           NEW j \in Jobs, ~In(j, S)
    PROVE  /\ IsList(LinkTail(links, q, j), Appended(q, j), Append(S, j))
           /\ \A x : In(x, Append(S, j)) <=> In(x, S) \/ x = j
           /\ Append(S, j) # <<>>
           /\ Append(S, j)[Len(Append(S, j))] = j
           /\ S # <<>> => Append(S, j)[1] = S[1]
           /\ S = <<>> => Append(S, j)[1] = j
           /\ \A i \in Jobs : S = <<>> \/ i # S[Len(S)] => LinkTail(links, q, j)[i] = links[i]
<1> DEFINE n == Len(S)
           T == Append(S, j)
           new == LinkTail(links, q, j)
<1>1. /\ n \in Nat /\ q.njobs = n
      /\ S = <<>> <=> n = 0
      /\ \A k \in 1..n : S[k] \in Jobs
      /\ S # <<>> => q.first = S[1] /\ q.last = S[n]
  BY ListEnds
<1>2. S \in Seq(Jobs) /\ (\A i, k \in 1..n : S[i] = S[k] => i = k)
      /\ \A k \in 1..(n - 1) : links[S[k]] = S[k + 1]
  BY DEF IsList
<1>3. /\ T \in Seq(Jobs) /\ Len(T) = n + 1 /\ T[n + 1] = j
      /\ \A k \in 1..n : T[k] = S[k]
  BY <1>2, AppendProperties
<1>4. \A k \in 1..n : S[k] # j
  BY DEF In
<1>5. \A k \in 1..(n + 1) : k \in 1..n \/ k = n + 1
  BY <1>1
<1>6. \A x : In(x, T) <=> In(x, S) \/ x = j
  BY <1>1, <1>3, <1>5 DEF In
<1>7. \A i, k \in 1..(n + 1) : T[i] = T[k] => i = k
  BY <1>2, <1>3, <1>4, <1>5
<1>8. T # <<>>
  <2> HIDE DEF T
  <2> QED
    BY <1>1, <1>3, EmptySeq
<1>9. \A i \in Jobs : S = <<>> \/ i # S[n] => new[i] = links[i]
  BY <1>1 DEF LinkTail
<1>10. S # <<>> => new[S[n]] = j
  BY <1>1 DEF LinkTail
<1>11. \A k \in 1..n : new[T[k]] = T[k + 1]
  <2> TAKE k \in 1..n
  <2>1. CASE k = n
    BY <1>1, <1>3, <1>10, <2>1
  <2>2. CASE k # n
    <3>1. k \in 1..(n - 1) /\ k + 1 \in 1..n /\ n \in 1..n
      BY <1>1, <2>2
    <3>2. S[k] # S[n] /\ S[k] \in Jobs
      BY <1>1, <1>2, <2>2, <3>1
    <3>3. new[S[k]] = links[S[k]]
      BY <1>9, <3>2
    <3> QED
      BY <1>2, <1>3, <3>1, <3>3
  <2> QED
    BY <2>1, <2>2
<1>12. S # <<>> => T[1] = S[1]
  BY <1>1, <1>3
<1>13. S = <<>> => T[1] = j
  BY <1>1, <1>3
<1>14. /\ Appended(q, j).njobs = n + 1 /\ Appended(q, j).last = j
       /\ Appended(q, j).first = T[1]
  BY <1>1, <1>12, <1>13 DEF Appended
<1>15. IsList(new, Appended(q, j), T)
  <2>1. (n + 1) - 1 = n
    BY <1>1
  <2> HIDE DEF T, new, n
  <2>2. \A k \in 1..(Len(T) - 1) : new[T[k]] = T[k + 1]
    BY <1>3, <1>11, <2>1
  <2> QED
    BY <1>3, <1>7, <1>14, <2>2 DEF IsList
<1> QED
  BY <1>3, <1>6, <1>8, <1>9, <1>12, <1>13, <1>15

\* The first job of a list is taken.
LEMMA TailList ==
    ASSUME NEW links \in [Jobs -> Pointers], NEW q, NEW S, IsList(links, q, S), S # <<>>
    PROVE  /\ IsList(links, IF q.njobs - 1 = 0 THEN EmptyList
                            ELSE [first |-> links[q.first], last |-> q.last,
                                  njobs |-> q.njobs - 1], Tail(S))
           /\ \A x : In(x, Tail(S)) <=> In(x, S) /\ x # S[1]
           /\ Tail(S) = <<>> <=> Len(S) = 1
           /\ Tail(S) # <<>> => /\ Tail(S)[Len(Tail(S))] = S[Len(S)]
                                /\ Tail(S)[1] = links[S[1]]
<1> DEFINE n == Len(S)
           T == Tail(S)
           r == IF q.njobs - 1 = 0 THEN EmptyList
                ELSE [first |-> links[q.first], last |-> q.last, njobs |-> q.njobs - 1]
<1>1. /\ n \in Nat /\ q.njobs = n /\ n # 0
      /\ q.first = S[1] /\ q.last = S[n] /\ 1 \in 1..n
  BY ListEnds
<1>2. S \in Seq(Jobs) /\ (\A i, k \in 1..n : S[i] = S[k] => i = k)
      /\ \A k \in 1..(n - 1) : links[S[k]] = S[k + 1]
  BY DEF IsList
<1>3. T \in Seq(Jobs) /\ Len(T) = n - 1 /\ \A k \in 1..(n - 1) : T[k] = S[k + 1]
  BY <1>2, HeadTailProperties
<1>4. T = <<>> <=> n = 1
  <2> HIDE DEF T
  <2> QED
    BY <1>1, <1>3, EmptySeq
<1>5. T # <<>> => T[n - 1] = S[n] /\ T[1] = links[S[1]]
  BY <1>1, <1>2, <1>3, <1>4
<1>6. \A k \in 1..n : k = 1 \/ \E i \in 1..(n - 1) : k = i + 1
  <2> TAKE k \in 1..n
  <2>1. k # 1 => k - 1 \in 1..(n - 1) /\ k = (k - 1) + 1
    BY <1>1
  <2> QED
    BY <2>1
<1>7. \A i \in 1..(n - 1) : i + 1 \in 1..n /\ i + 1 # 1
  BY <1>1
<1>8. \A x : In(x, T) <=> In(x, S) /\ x # S[1]
  <2> TAKE x
  <2>1. In(x, T) <=> \E i \in 1..(n - 1) : S[i + 1] = x
    BY <1>3 DEF In
  <2>2. In(x, T) => In(x, S) /\ x # S[1]
    BY <1>1, <1>2, <1>7, <2>1 DEF In
  <2>3. In(x, S) /\ x # S[1] => In(x, T)
    BY <1>6, <2>1 DEF In
  <2> QED
    BY <2>2, <2>3
<1>9. \A i, k \in 1..(n - 1) : T[i] = T[k] => i = k
  BY <1>1, <1>2, <1>3, <1>7
<1>10. \A k \in 1..((n - 1) - 1) : links[T[k]] = T[k + 1]
  <2> TAKE k \in 1..((n - 1) - 1)
  <2>1. k \in 1..(n - 1) /\ k + 1 \in 1..(n - 1)
    BY <1>1
  <2> QED
    BY <1>2, <1>3, <2>1
<1>11. r.njobs = n - 1 /\ (T # <<>> => r.first = T[1] /\ r.last = T[n - 1])
  BY <1>1, <1>4, <1>5 DEF EmptyList
<1>12. IsList(links, r, T)
  <2> HIDE DEF T, r, n
  <2> QED
    BY <1>3, <1>9, <1>10, <1>11 DEF IsList
<1> QED
  BY <1>3, <1>4, <1>5, <1>8, <1>12

\* S without its m-th job.
Without(S, m) == [k \in 1..(Len(S) - 1) |-> IF k < m THEN S[k] ELSE S[k + 1]]

\* The links and the list after job was unlinked from its predecessor prev.
Bypassed(links, job, prev) ==
    IF prev = NULL THEN links ELSE [links EXCEPT ![prev] = links[job]]
Shortened(links, q, job, prev) ==
    [first |-> IF prev = NULL THEN links[job] ELSE q.first,
     last  |-> IF q.last = job THEN prev ELSE q.last,
     njobs |-> q.njobs - 1]

\* The m-th job of a list is unlinked, its predecessor is linked to its
\* successor: nextjob of the others keeps its value.
LEMMA UnlinkList ==
    ASSUME NEW links \in [Jobs -> Pointers], NEW q, NEW S, IsList(links, q, S),
           NEW m \in 1..Len(S), NEW prev, prev = IF m = 1 THEN NULL ELSE S[m - 1]
    PROVE  LET T == Without(S, m)
               new == Bypassed(links, S[m], prev)
               r == Shortened(links, q, S[m], prev)
           IN /\ IsList(new, r, T)
              /\ \A x : In(x, T) <=> In(x, S) /\ x # S[m]
              /\ \A i \in Jobs : i # prev => new[i] = links[i]
              /\ new[S[m]] = links[S[m]]
              /\ IF T = <<>> THEN r.first = links[S[Len(S)]]
                 ELSE new[T[Len(T)]] = links[S[Len(S)]]
<1> DEFINE n == Len(S)
           T == Without(S, m)
           new == IF prev = NULL THEN links ELSE [links EXCEPT ![prev] = links[S[m]]]
           r == [first |-> IF prev = NULL THEN links[S[m]] ELSE q.first,
                 last  |-> IF q.last = S[m] THEN prev ELSE q.last,
                 njobs |-> q.njobs - 1]
<1>1. /\ n \in Nat /\ m \in 1..n /\ S # <<>> /\ q.njobs = n
      /\ q.first = S[1] /\ q.last = S[n] /\ 1 \in 1..n /\ n \in 1..n
      /\ \A k \in 1..n : S[k] \in Jobs
  BY ListEnds
<1>2. (\A i, k \in 1..n : S[i] = S[k] => i = k)
      /\ \A k \in 1..(n - 1) : links[S[k]] = S[k + 1]
  BY DEF IsList
<1>3. NULL \notin Jobs
  BY ConstantsAssumption
<1>4. /\ prev = NULL <=> m = 1
      /\ m # 1 => m - 1 \in 1..n /\ prev = S[m - 1] /\ prev \in Jobs
  BY <1>1, <1>3
<1>5. /\ \A i \in Jobs : i # prev => new[i] = links[i]
      /\ m # 1 => new[prev] = links[S[m]]
  BY <1>4
<1>6. new[S[m]] = links[S[m]]
  <2>1. S[m] # prev
    BY <1>1, <1>2, <1>3, <1>4
  <2> QED
    BY <1>1, <1>5, <2>1
<1>7. /\ T \in Seq(Jobs) /\ Len(T) = n - 1
      /\ \A k \in 1..(n - 1) : T[k] = IF k < m THEN S[k] ELSE S[k + 1]
  <2>1. T = [k \in 1..(n - 1) |-> IF k < m THEN S[k] ELSE S[k + 1]] /\ n - 1 \in Nat
    BY <1>1 DEF Without
  <2>2. \A k \in 1..(n - 1) : (IF k < m THEN S[k] ELSE S[k + 1]) \in Jobs
    BY <1>1
  <2>3. T \in [1..(n - 1) -> Jobs]
    BY <2>1, <2>2
  <2>4. T \in Seq(Jobs)
    <3> HIDE DEF T, n
    <3> QED
      BY <2>1, <2>3
  <2> QED
    BY <2>1, <2>3, <2>4, LenProperties
<1>8. \A x : In(x, T) <=> In(x, S) /\ x # S[m]
  <2> TAKE x
  <2>1. In(x, T) <=> \E k \in 1..(n - 1) : T[k] = x
    BY <1>7 DEF In
  <2>2. In(x, T) => In(x, S) /\ x # S[m]
    <3> SUFFICES ASSUME NEW k \in 1..(n - 1), T[k] = x PROVE In(x, S) /\ x # S[m]
      BY <2>1
    <3>1. k \in 1..n /\ k + 1 \in 1..n
      BY <1>1
    <3>2. CASE k < m
      BY <1>1, <1>2, <1>7, <3>1, <3>2 DEF In
    <3>3. CASE ~(k < m)
      <4>1. k + 1 # m /\ T[k] = S[k + 1]
        BY <1>1, <1>7, <3>3
      <4> QED
        BY <1>1, <1>2, <3>1, <4>1 DEF In
    <3> QED
      BY <3>2, <3>3
  <2>3. In(x, S) /\ x # S[m] => In(x, T)
    <3> SUFFICES ASSUME NEW i \in 1..n, S[i] = x, i # m PROVE \E k \in 1..(n - 1) : T[k] = x
      BY <2>1 DEF In
    <3>1. CASE i < m
      <4>1. i \in 1..(n - 1) /\ T[i] = S[i]
        BY <1>1, <1>7, <3>1
      <4> QED
        BY <4>1
    <3>2. CASE ~(i < m)
      <4>1. i - 1 \in 1..(n - 1) /\ ~(i - 1 < m) /\ (i - 1) + 1 = i
        BY <1>1, <3>2
      <4>2. T[i - 1] = S[i]
        BY <1>7, <4>1
      <4> QED
        BY <4>1, <4>2
    <3> QED
      BY <3>1, <3>2
  <2> QED
    BY <2>2, <2>3
<1>9. \A i, k \in 1..(n - 1) : T[i] = T[k] => i = k
  <2> DEFINE at(k) == IF k < m THEN k ELSE k + 1
  <2>1. \A k \in 1..(n - 1) : at(k) \in 1..n /\ T[k] = S[at(k)]
    BY <1>1, <1>7
  <2>2. \A i, k \in 1..(n - 1) : at(i) = at(k) => i = k
    BY <1>1
  <2> HIDE DEF at
  <2> QED
    BY <1>2, <2>1, <2>2
<1>10. \A k \in 1..((n - 1) - 1) : new[T[k]] = T[k + 1]
  <2> TAKE k \in 1..((n - 1) - 1)
  <2>1. /\ k \in 1..(n - 1) /\ k + 1 \in 1..(n - 1) /\ k \in 1..n /\ k + 1 \in 1..n
        /\ (k + 1) + 1 \in 1..n
    BY <1>1
  <2>2. CASE k + 1 < m
    <3>1. T[k] = S[k] /\ T[k + 1] = S[k + 1] /\ k # m - 1
      BY <1>1, <1>7, <2>1, <2>2
    <3>2. S[k] # prev
      BY <1>1, <1>2, <1>3, <1>4, <2>1, <3>1
    <3> QED
      BY <1>1, <1>2, <1>5, <2>1, <3>1, <3>2
  <2>3. CASE k + 1 = m
    <3>1. T[k] = S[k] /\ T[k + 1] = S[(k + 1) + 1] /\ m # 1 /\ prev = S[k]
      BY <1>1, <1>4, <1>7, <2>1, <2>3
    <3>2. links[S[k + 1]] = S[(k + 1) + 1]
      BY <1>2, <2>1
    <3> QED
      BY <1>5, <2>3, <3>1, <3>2
  <2>4. CASE k + 1 > m
    <3>1. T[k] = S[k + 1] /\ T[k + 1] = S[(k + 1) + 1] /\ k + 1 # m - 1
      BY <1>1, <1>7, <2>1, <2>4
    <3>2. S[k + 1] # prev
      BY <1>1, <1>2, <1>3, <1>4, <2>1, <3>1
    <3> QED
      BY <1>1, <1>2, <1>5, <2>1, <3>1, <3>2
  <2> QED
    BY <1>1, <2>1, <2>2, <2>3, <2>4
<1>11. T = <<>> <=> n = 1
  <2> HIDE DEF T, n
  <2> QED
    BY <1>1, <1>7, EmptySeq
<1>12. r.njobs = n - 1 /\ (T # <<>> => r.first = T[1] /\ r.last = T[n - 1])
  <2>1. r.njobs = n - 1
    BY <1>1
  <2>2. ASSUME n # 1 PROVE r.first = T[1]
    <3>1. 1 \in 1..(n - 1)
      <4> HIDE DEF n
      <4> QED
        BY <1>1, <2>2
    <3>2. CASE m = 1
      BY <1>1, <1>2, <1>4, <1>7, <3>1, <3>2
    <3>3. CASE m # 1
      BY <1>1, <1>4, <1>7, <3>1, <3>3
    <3> QED
      BY <3>2, <3>3
  <2>3. ASSUME n # 1 PROVE r.last = T[n - 1]
    <3>1. n - 1 \in 1..(n - 1) /\ (n - 1) + 1 = n
      <4> HIDE DEF n
      <4> QED
        BY <1>1, <2>3
    <3>2. CASE m = n
      BY <1>1, <1>4, <1>7, <2>3, <3>1, <3>2
    <3>3. CASE m # n
      <4>1. S[m] # S[n] /\ ~(n - 1 < m)
        BY <1>1, <1>2, <3>3
      <4> QED
        BY <1>1, <1>7, <3>1, <4>1
    <3> QED
      BY <3>2, <3>3
  <2> QED
    BY <1>11, <2>1, <2>2, <2>3
<1>13. ASSUME T = <<>> PROVE r.first = links[S[n]]
  <2>1. n = 1
    BY <1>11, <1>13
  <2>2. m = 1 /\ prev = NULL
    BY <1>1, <1>4, <2>1
  <2>3. r.first = links[S[m]]
    BY <2>2
  <2> QED
    BY <2>1, <2>2, <2>3
<1>14. ASSUME T # <<>> PROVE new[T[n - 1]] = links[S[n]]
  <2>1. n - 1 \in 1..(n - 1) /\ (n - 1) + 1 = n /\ n # 1
    <3> HIDE DEF n, T
    <3> QED
      BY <1>1, <1>11, <1>14
  <2>2. CASE m = n
    BY <1>1, <1>4, <1>5, <1>7, <2>1, <2>2
  <2>3. CASE m # n
    <3>1. T[n - 1] = S[n]
      BY <1>1, <1>7, <2>1, <2>3
    <3>2. S[n] # prev
      BY <1>1, <1>2, <1>3, <1>4, <2>1
    <3> QED
      BY <1>1, <1>5, <3>1, <3>2
  <2> QED
    BY <2>2, <2>3
<1>15. IsList(new, r, T)
  <2> HIDE DEF T, r, n, new
  <2> QED
    BY <1>7, <1>9, <1>10, <1>12 DEF IsList
<1> HIDE DEF T, r, n, new
<1>16. IF T = <<>> THEN r.first = links[S[n]] ELSE new[T[Len(T)]] = links[S[n]]
  BY <1>7, <1>13, <1>14
<1>17. /\ IsList(new, r, T) /\ (\A x : In(x, T) <=> In(x, S) /\ x # S[m])
       /\ (\A i \in Jobs : i # prev => new[i] = links[i]) /\ new[S[m]] = links[S[m]]
       /\ IF T = <<>> THEN r.first = links[S[n]] ELSE new[T[Len(T)]] = links[S[n]]
  BY <1>5, <1>6, <1>8, <1>15, <1>16
<1> QED
  BY <1>17 DEF T, r, n, new, Bypassed, Shortened

\* The lists hold exactly the jobs in their places.
LEMMA ListsAreExact ==
    ASSUME ListsHold
    PROVE  PointersExact
<1>1. PICK Q, C, F : Lists(Q, C, F)
  BY DEF ListsHold
<1>2. ASSUME NEW q, NEW S, NEW p, ListIs(q, S), Holds(S, p)
      PROVE  LET members == {j \in Jobs : place[j] = p}
             IN /\ q.njobs = Cardinality(members)
                /\ Len(Contents(q)) = q.njobs
                /\ Members(q) = members
  <2>1. /\ \A k \in 1..Len(S) : S[k] \in Jobs
        /\ Cardinality({S[k] : k \in 1..Len(S)}) = Len(S) /\ q.njobs = Len(S)
    BY <1>2, ListLength DEF ListIs, IsList
  <2>2. {j \in Jobs : place[j] = p} = {S[k] : k \in 1..Len(S)}
    <3>1. \A j \in Jobs : place[j] = p <=> \E k \in 1..Len(S) : S[k] = j
      BY <1>2 DEF Holds, In
    <3>2. \A x : x \in {S[k] : k \in 1..Len(S)} <=> \E k \in 1..Len(S) : S[k] = x
      OBVIOUS
    <3>3. \A x : x \in {j \in Jobs : place[j] = p} <=> x \in {S[k] : k \in 1..Len(S)}
      BY <2>1, <3>1, <3>2, Zenon
    <3> QED
      BY <3>3
  <2>3. Contents(q) = S /\ Members(q) = {S[k] : k \in 1..Len(S)}
    BY <1>2, ContentsIs
  <2> QED
    BY <2>1, <2>2, <2>3
<1>3. PointersExact <=>
        \A l \in {<<jobqueue, "queued">>, <<currentjobs, "running">>, <<finishedjobs, "finished">>} :
          LET members == {j \in Jobs : place[j] = l[2]}
          IN /\ l[1].njobs = Cardinality(members)
             /\ Len(Contents(l[1])) = l[1].njobs
             /\ Members(l[1]) = members
  BY DEF PointersExact
<1>4. /\ ListIs(jobqueue, Q) /\ Holds(Q, "queued") /\ ListIs(currentjobs, C) /\ Holds(C, "running")
      /\ ListIs(finishedjobs, F) /\ Holds(F, "finished")
  BY <1>1 DEF Lists
<1> QED
  BY <1>2, <1>3, <1>4

-----------------------------------------------------------------------------
(* The initial states, and what leaves parts of the invariant alone.       *)

\* The pool starts with empty lists and no job.
LEMMA InitPInv == Init => PInv
<1> SUFFICES ASSUME Init PROVE PInv
  OBVIOUS
<1>1. IInv
  BY InitIInv
<1> USE DEF Init
<1>2. ListsHold
  <2>1. <<>> \in Seq(Jobs) /\ Len(<<>>) = 0
    BY EmptySeq
  <2>2. ListIs(jobqueue, <<>>) /\ ListIs(currentjobs, <<>>) /\ ListIs(finishedjobs, <<>>)
    BY <2>1 DEF ListIs, IsList, EmptyList
  <2>3. Holds(<<>>, "queued") /\ Holds(<<>>, "running") /\ Holds(<<>>, "finished")
    BY <2>1 DEF Holds, In
  <2>4. Stale(<<>>, <<>>, <<>>)
    BY DEF Stale, ToQueue, EmptyList
  <2>5. Lists(<<>>, <<>>, <<>>)
    BY <2>2, <2>3, <2>4 DEF Lists
  <2> QED
    BY <2>5 DEF ListsHold
<1>3. WorkersHold /\ ClientsHold /\ ClosedHold /\ NoFault
  BY DEF WorkersHold, ClientsHold, Submits, ClosedHold, NoFault
<1>4. IdsHold
  <2>1. Cardinality(Jobs) \in Nat
    BY ConstantsAssumption, FS_CardinalityType
  <2> QED
    BY <2>1 DEF IdsHold
<1> QED
  BY <1>1, <1>2, <1>3, <1>4 DEF PInv

Pooled == {"queued", "running", "finished"}

\* Whatever leaves the jobs in the pool where they are leaves the lists alone.
LEMMA ListsStay ==
    ASSUME NEW Q, NEW C, NEW F, Lists(Q, C, F),
           UNCHANGED <<jobqueue, currentjobs, finishedjobs>>,
           \A j \in Jobs : place[j] \in Pooled => nextjob'[j] = nextjob[j],
           \A j \in Jobs : place[j] \in Pooled \/ place'[j] \in Pooled => place'[j] = place[j]
    PROVE  Lists(Q, C, F)'
<1>1. IsList(nextjob, jobqueue, Q) /\ IsList(nextjob, currentjobs, C) /\ IsList(nextjob, finishedjobs, F)
  BY DEF Lists, ListIs
<1>2. Holds(Q, "queued") /\ Holds(C, "running") /\ Holds(F, "finished") /\ Stale(Q, C, F)
  BY DEF Lists
<1>3. ASSUME NEW q, NEW S, IsList(nextjob, q, S), NEW p \in Pooled, Holds(S, p)
      PROVE  /\ IsList(nextjob', q, S)
             /\ \A j \in Jobs : place'[j] = p <=> In(j, S)
             /\ S # <<>> => nextjob'[S[Len(S)]] = nextjob[S[Len(S)]]
  <2>1. \A k \in 1..Len(S) : nextjob'[S[k]] = nextjob[S[k]]
    BY <1>3, ListEnds DEF Holds
  <2>2. IsList(nextjob', q, S)
    BY <1>3, <2>1, LinksAside
  <2>3. \A j \in Jobs : place'[j] = p <=> In(j, S)
    BY <1>3 DEF Holds
  <2>4. S # <<>> => nextjob'[S[Len(S)]] = nextjob[S[Len(S)]]
    BY <1>3, <2>1, ListEnds
  <2> QED
    BY <2>2, <2>3, <2>4
<1>4. \A p \in {"queued", "running", "finished"} : p \in Pooled
  BY DEF Pooled
<1>5. ListIs(jobqueue, Q)' /\ ListIs(currentjobs, C)' /\ ListIs(finishedjobs, F)'
  BY <1>1, <1>2, <1>3, <1>4 DEF ListIs
<1>6. Holds(Q, "queued")' /\ Holds(C, "running")' /\ Holds(F, "finished")'
  BY <1>1, <1>2, <1>3, <1>4 DEF Holds
<1>7. Stale(Q, C, F)'
  <2>1. /\ Q # <<>> => nextjob'[Q[Len(Q)]] = nextjob[Q[Len(Q)]]
        /\ C # <<>> => nextjob'[C[Len(C)]] = nextjob[C[Len(C)]]
        /\ F # <<>> => nextjob'[F[Len(F)]] = nextjob[F[Len(F)]]
    BY <1>1, <1>2, <1>3, <1>4
  <2>2. \A x \in Jobs : place[x] \in {"queued", "running"} => place'[x] = place[x]
    BY DEF Pooled
  <2> QED
    BY <1>2, <2>1, <2>2 DEF Stale, ToQueue
<1> QED
  BY <1>5, <1>6, <1>7 DEF Lists

\* The lists hold as before when no list, no link of a job in a list and no place in a list changes.
LEMMA ListsSame ==
    ASSUME ListsHold, UNCHANGED <<jobqueue, currentjobs, finishedjobs>>,
           \A j \in Jobs : place[j] \in Pooled => nextjob'[j] = nextjob[j],
           \A j \in Jobs : place[j] \in Pooled \/ place'[j] \in Pooled => place'[j] = place[j]
    PROVE  ListsHold'
<1>1. PICK Q, C, F : Lists(Q, C, F)
  BY DEF ListsHold
<1>2. Lists(Q, C, F)'
  BY <1>1, ListsStay
<1> QED
  BY <1>2 DEF ListsHold

\* The jobs of the workers hold as before when nobody starts or ends a job.
LEMMA WorkersSame ==
    ASSUME IInv, WorkersHold,
           \A w \in Workers : wpc'[w] = "run" <=> wpc[w] = "run",
           \A w \in Workers : wpc[w] = "run" => wjob'[w] = wjob[w],
           \A j \in Jobs : place'[j] = "running" <=> place[j] = "running"
    PROVE  WorkersHold'
<1>1. \A w \in Workers : wpc[w] = "run" => wjob[w] \in Jobs
  BY DEF IInv, RunningHaveJobs
<1> QED
  BY <1>1 DEF WorkersHold

\* The jobs of the clients hold as before when no job is made and none is entered.
LEMMA ClientsSame ==
    ASSUME ClientsHold, UNCHANGED <<cjob, jobid, openids>>,
           \A c \in Clients : Submits(c)' <=> Submits(c),
           \A j \in Jobs : place'[j] = "new" <=> place[j] = "new"
    PROVE  ClientsHold'
<1>1. \A c \in Clients : Submits(c)' => cjob'[c] = cjob[c] /\ Submits(c)
  OBVIOUS
<1>2. \A c \in Clients : Submits(c)' => /\ cjob'[c] \in Jobs /\ place'[cjob'[c]] = "new"
                                        /\ jobid'[cjob'[c]] \in openids'[c]
  BY DEF ClientsHold
<1>3. \A c, d \in Clients : Submits(c)' /\ Submits(d)' /\ cjob'[c] = cjob'[d] => c = d
  BY DEF ClientsHold
<1>4. \A j \in Jobs : place'[j] = "new" => \E c \in Clients : Submits(c)' /\ cjob'[c] = j
  BY DEF ClientsHold
<1> QED
  BY <1>2, <1>3, <1>4 DEF ClientsHold

Collects(c) == cpc[c] \in {"collect", "waitfinished"}
Closes(c) == cpc[c] \in {"drain", "waitempty"}

\* Where a client is matters in three ways only.
Whereabouts == \A c \in Clients : /\ Submits(c)' <=> Submits(c)
                                  /\ Collects(c)' => cid'[c] \in openids[c]
                                  /\ Closes(c)' => ~queueopen'

\* The ids hold as before when no id is given and no job enters a list.
LEMMA IdsSame ==
    ASSUME IdsHold, UNCHANGED <<jobid, openids, currentid>>, Whereabouts,
           \A j \in Jobs : place'[j] \in Pooled => place[j] \in Pooled,
           \A j \in Jobs : place'[j] = "none" <=> place[j] = "none"
    PROVE  IdsHold'
<1>1. \A c \in Clients : cpc'[c] \in {"collect", "waitfinished"} => cid'[c] \in openids'[c]
  BY DEF Whereabouts, Collects
<1>2. \A j \in Jobs : place'[j] \in {"queued", "running", "finished"} =>
                          \E c \in Clients : jobid'[j] \in openids'[c]
  BY DEF IdsHold, Pooled
<1>3. \A j \in Jobs : IF place'[j] = "none" THEN jobid'[j] = 0 ELSE jobid'[j] \in 1..currentid'
  BY DEF IdsHold
<1> QED
  BY <1>1, <1>2, <1>3 DEF IdsHold

\* Whether the pool is closed is seen from the whereabouts of the jobs and clients.
LEMMA ClosedWhere == Whereabouts => ClosedHold'
BY DEF ClosedHold, Closes, Whereabouts

\* A step that leaves the jobs alone.
LEMMA QuietPInv ==
    ASSUME PInv, IInv', Whereabouts, fault' # "memory",
           UNCHANGED <<listvars, jobid, place, wjob, cjob, openids, currentid>>,
           \A w \in Workers : wpc'[w] = "run" <=> wpc[w] = "run"
    PROVE  PInv'
<1> USE DEF PInv, listvars
<1>1. ListsHold'
  BY ListsSame
<1>2. WorkersHold'
  BY WorkersSame
<1>3. ClientsHold'
  BY ClientsSame DEF Whereabouts
<1>4. IdsHold'
  BY IdsSame
<1>5. ClosedHold' /\ NoFault'
  BY ClosedWhere DEF NoFault
<1> QED
  BY <1>1, <1>2, <1>3, <1>4, <1>5

-----------------------------------------------------------------------------
(* The steps of the workers.                                               *)

\* The facts about one state that the steps below start from.
LEMMA ListFacts ==
    ASSUME TypeOK, NEW Q, NEW C, NEW F, Lists(Q, C, F)
    PROVE  /\ IsList(nextjob, jobqueue, Q) /\ IsList(nextjob, currentjobs, C)
           /\ IsList(nextjob, finishedjobs, F)
           /\ nextjob \in [Jobs -> Pointers]
           /\ \A j \in Jobs : /\ In(j, Q) <=> place[j] = "queued"
                              /\ In(j, C) <=> place[j] = "running"
                              /\ In(j, F) <=> place[j] = "finished"
           /\ \A k \in 1..Len(Q) : Q[k] \in Jobs /\ place[Q[k]] = "queued"
           /\ \A k \in 1..Len(C) : C[k] \in Jobs /\ place[C[k]] = "running"
           /\ \A k \in 1..Len(F) : F[k] \in Jobs /\ place[F[k]] = "finished"
<1>1. IsList(nextjob, jobqueue, Q) /\ IsList(nextjob, currentjobs, C)
      /\ IsList(nextjob, finishedjobs, F)
  BY DEF Lists, ListIs
<1>2. nextjob \in [Jobs -> Pointers]
  BY DEF TypeOK, ListTypes
<1>3. \A j \in Jobs : /\ In(j, Q) <=> place[j] = "queued"
                      /\ In(j, C) <=> place[j] = "running"
                      /\ In(j, F) <=> place[j] = "finished"
  BY DEF Lists, Holds
<1>4. /\ \A k \in 1..Len(Q) : Q[k] \in Jobs /\ In(Q[k], Q)
      /\ \A k \in 1..Len(C) : C[k] \in Jobs /\ In(C[k], C)
      /\ \A k \in 1..Len(F) : F[k] \in Jobs /\ In(F[k], F)
  BY <1>1, ListEnds
<1> QED
  BY <1>1, <1>2, <1>3, <1>4

\* A worker takes the head of the queue to the tail of currentjobs.
LEMMA WorkerTakeLists ==
    ASSUME TypeOK, NEW w \in Workers, WorkerTake(w),
           NEW Q, NEW C, NEW F, Lists(Q, C, F)
    PROVE  /\ Q # <<>> /\ jobqueue.first = Q[1] /\ Q[1] \in Jobs /\ place[Q[1]] = "queued"
           /\ Lists(Tail(Q), Append(C, Q[1]), F)'
<1> DEFINE job == jobqueue.first
           n == jobqueue.njobs - 1
           new == LinkTail(nextjob, currentjobs, job)
           head == IF n = 0 THEN EmptyList
                   ELSE [first |-> nextjob[job], last |-> jobqueue.last, njobs |-> n]
<1>0. PICK R, D : R = Tail(Q) /\ D = Append(C, Q[1])
  OBVIOUS
<1>1. /\ jobqueue.njobs # 0
      /\ jobqueue' = head
      /\ nextjob' = new
      /\ currentjobs' = Appended(currentjobs, job)
      /\ place' = [place EXCEPT ![job] = "running"]
      /\ UNCHANGED finishedjobs
  BY DEF WorkerTake
<1>2. /\ IsList(nextjob, jobqueue, Q) /\ IsList(nextjob, currentjobs, C)
      /\ IsList(nextjob, finishedjobs, F)
      /\ nextjob \in [Jobs -> Pointers]
      /\ \A j \in Jobs : /\ In(j, Q) <=> place[j] = "queued"
                         /\ In(j, C) <=> place[j] = "running"
                         /\ In(j, F) <=> place[j] = "finished"
      /\ \A k \in 1..Len(Q) : Q[k] \in Jobs /\ place[Q[k]] = "queued"
      /\ \A k \in 1..Len(C) : C[k] \in Jobs /\ place[C[k]] = "running"
      /\ \A k \in 1..Len(F) : F[k] \in Jobs /\ place[F[k]] = "finished"
  BY ListFacts
<1>3. /\ Q # <<>> /\ Len(Q) \in Nat /\ 1 \in 1..Len(Q) /\ Len(Q) \in 1..Len(Q)
      /\ job = Q[1] /\ jobqueue.njobs = Len(Q)
  BY <1>1, <1>2, ListEnds
<1>4. job \in Jobs /\ place[job] = "queued" /\ ~In(job, C)
  BY <1>2, <1>3
<1>5. /\ IsList(nextjob, head, R)
      /\ \A x : In(x, R) <=> In(x, Q) /\ x # Q[1]
      /\ R = <<>> <=> Len(Q) = 1
      /\ R # <<>> => R[Len(R)] = Q[Len(Q)] /\ R[1] = nextjob[Q[1]]
  BY <1>0, <1>2, <1>3, TailList, SMTT(60)
<1>6. /\ IsList(new, Appended(currentjobs, job), D)
      /\ \A x : In(x, D) <=> In(x, C) \/ x = job
      /\ D # <<>> /\ D[Len(D)] = job
      /\ \A i \in Jobs : C = <<>> \/ i # C[Len(C)] => new[i] = nextjob[i]
  BY <1>0, <1>2, <1>3, <1>4, AppendList
<1>7. \A i \in Jobs : place[i] # "running" => new[i] = nextjob[i]
  <2>1. C # <<>> => Len(C) \in 1..Len(C)
    BY <1>2, ListEnds
  <2> QED
    BY <1>2, <1>6, <2>1
<1> HIDE DEF new, head
<1>8. IsList(new, head, R) /\ IsList(new, finishedjobs, F)
  <2>1. \A k \in 1..Len(R) : R[k] \in Jobs /\ In(R[k], R)
    BY <1>5, ListEnds
  <2>2. \A k \in 1..Len(R) : new[R[k]] = nextjob[R[k]]
    BY <1>2, <1>5, <1>7, <2>1
  <2>3. \A k \in 1..Len(F) : new[F[k]] = nextjob[F[k]]
    BY <1>2, <1>7
  <2> QED
    BY <1>2, <1>5, <2>2, <2>3, LinksAside
<1>9. \A j \in Jobs : place'[j] = IF j = job THEN "running" ELSE place[j]
  BY <1>1, <1>4 DEF TypeOK, JobTypes
<1>10. \A j \in Jobs : /\ place'[j] = "queued" <=> In(j, R)
                       /\ place'[j] = "running" <=> In(j, D)
                       /\ place'[j] = "finished" <=> In(j, F)
  BY <1>2, <1>3, <1>4, <1>5, <1>6, <1>9
<1>11. Stale(Q, C, F)
  BY DEF Lists
<1>12. IF R = <<>> THEN head.first = NULL ELSE new[R[Len(R)]] = NULL
  <2>1. R = <<>> => head = EmptyList
    BY <1>3, <1>5 DEF head
  <2>2. R # <<>> => new[R[Len(R)]] = nextjob[Q[Len(Q)]]
    BY <1>2, <1>3, <1>5, <1>7
  <2>3. nextjob[Q[Len(Q)]] = NULL
    BY <1>3, <1>11 DEF Stale
  <2> QED
    BY <2>1, <2>2, <2>3 DEF EmptyList
<1>13. ToQueue(new[D[Len(D)]], R)
  <2>1. new[D[Len(D)]] = nextjob[Q[1]]
    BY <1>3, <1>4, <1>6, <1>7
  <2>2. R = <<>> => nextjob[Q[1]] = NULL
    BY <1>3, <1>5, <1>11 DEF Stale
  <2> QED
    BY <1>5, <2>1, <2>2 DEF ToQueue
<1>14. IF F = <<>> THEN finishedjobs'.first = NULL
       ELSE LET x == new[F[Len(F)]]
            IN x = NULL \/ (x \in Jobs /\ place'[x] \in {"queued", "running"})
  <2>1. F # <<>> => Len(F) \in 1..Len(F)
    BY <1>2, ListEnds
  <2>2. F # <<>> => new[F[Len(F)]] = nextjob[F[Len(F)]]
    BY <1>2, <1>7, <2>1
  <2> QED
    BY <1>1, <1>9, <1>11, <2>2 DEF Stale
<1>15. Lists(R, D, F)'
  <2>1. Stale(R, D, F)'
    BY <1>1, <1>6, <1>12, <1>13, <1>14 DEF Stale, ToQueue
  <2>2. Holds(R, "queued")' /\ Holds(D, "running")' /\ Holds(F, "finished")'
    BY <1>10 DEF Holds
  <2>3. ListIs(jobqueue, R)' /\ ListIs(currentjobs, D)' /\ ListIs(finishedjobs, F)'
    BY <1>1, <1>6, <1>8 DEF ListIs
  <2> QED
    BY <2>1, <2>2, <2>3 DEF Lists
<1> QED
  <2>1. Lists(Tail(Q), Append(C, Q[1]), F)'
    BY <1>0, <1>15
  <2> QED
    BY <1>3, <1>4, <2>1

\* Beyond the last job of currentjobs the walk is in the queue or at its end.
LEMMA BeyondRunning ==
    ASSUME TypeOK, NEW Q, NEW C, NEW F, Lists(Q, C, F), C # <<>>
    PROVE  /\ Len(C) \in 1..Cardinality(Jobs)
           /\ \A k \in Len(C)..Cardinality(Jobs) :
                 ~\E j \in Jobs : place[j] = "running" /\ Steps(currentjobs.first)[k] = j
<1> DEFINE s == Steps(currentjobs.first)
           n == Len(C)
           N == Cardinality(Jobs)
           T == {NULL} \cup {Q[k] : k \in 1..Len(Q)}
<1>1. /\ IsList(nextjob, jobqueue, Q) /\ IsList(nextjob, currentjobs, C)
      /\ \A k \in 1..Len(Q) : Q[k] \in Jobs /\ place[Q[k]] = "queued"
      /\ \A k \in 1..n : C[k] \in Jobs
  BY ListFacts
<1>2. n \in Nat /\ n >= 1 /\ n <= N /\ N \in Nat /\ n \in 1..n
  <2>1. n \in Nat /\ n <= N /\ N \in Nat
    BY <1>1, ListLength, StepsAre DEF ListIs
  <2>2. 1 \in 1..n /\ n \in 1..n
    BY <1>1, ListEnds
  <2> QED
    BY <2>1, <2>2
<1>3. Stale(Q, C, F)
  BY DEF Lists
<1>4. Len(Q) \in Nat /\ (Q # <<>> => 1 \in 1..Len(Q)) /\ (Q = <<>> <=> Len(Q) = 0)
      /\ \A k \in 1..(Len(Q) - 1) : nextjob[Q[k]] = Q[k + 1]
  BY <1>1, ListEnds DEF IsList
<1>5. \A j \in T : Link(j) \in T
  <2> TAKE j \in T
  <2>1. CASE j = NULL
    BY <2>1 DEF Link
  <2>2. CASE j # NULL
    <3>1. PICK k \in 1..Len(Q) : j = Q[k]
      BY <2>2
    <3>2. Link(j) = nextjob[Q[k]]
      BY <2>2, <3>1 DEF Link
    <3>3. CASE k = Len(Q)
      <4>1. nextjob[Q[Len(Q)]] = NULL
        BY <1>3, <1>4, <3>3 DEF Stale
      <4> QED
        BY <3>2, <3>3, <4>1
    <3>4. CASE k # Len(Q)
      <4>1. k \in 1..(Len(Q) - 1) /\ k + 1 \in 1..Len(Q)
        BY <1>4, <3>4
      <4>2. nextjob[Q[k]] = Q[k + 1]
        BY <1>4, <4>1
      <4> QED
        BY <3>2, <4>1, <4>2
    <3> QED
      BY <3>3, <3>4
  <2> QED
    BY <2>1, <2>2
<1>6. s[n] \in T
  <2>1. s[n - 1] = C[n]
    BY <1>1, <1>2, AlongList DEF ListIs
  <2>2. s[n] = Link(s[n - 1])
    BY <1>2, StepsAre
  <2>3. C[n] # NULL
    BY <1>1, <1>2, ConstantsAssumption
  <2>4. s[n] = nextjob[C[n]]
    BY <2>1, <2>2, <2>3 DEF Link
  <2>5. ToQueue(nextjob[C[n]], Q)
    BY <1>3 DEF Stale
  <2> QED
    BY <1>4, <2>4, <2>5 DEF ToQueue
<1>7. \A k \in n..N : s[k] \in T
  <2> HIDE DEF T
  <2>1. n \in 0..N
    BY <1>2
  <2> QED
    BY <1>5, <1>6, <2>1, WalkStays
<1>8. \A j \in T : ~(j \in Jobs /\ place[j] = "running")
  BY <1>1, ConstantsAssumption
<1> HIDE DEF T
<1> QED
  BY <1>2, <1>7, <1>8

\* The search of a worker for its job finds its place in currentjobs, and the
\* predecessor it has there.
LEMMA SearchFinds ==
    ASSUME TypeOK, NEW Q, NEW C, NEW F, Lists(Q, C, F), NEW m \in 1..Len(C)
    PROVE  LET s == Steps(currentjobs.first)
           IN TheJob({p \in Jobs : \E k \in DOMAIN s \ {0} : s[k] = C[m] /\ s[k - 1] = p})
                = IF m = 1 THEN NULL ELSE C[m - 1]
<1> DEFINE s == Steps(currentjobs.first)
           n == Len(C)
           N == Cardinality(Jobs)
           found == {p \in Jobs : \E k \in DOMAIN s \ {0} : s[k] = C[m] /\ s[k - 1] = p}
<1>1. /\ IsList(nextjob, currentjobs, C)
      /\ \A k \in 1..n : C[k] \in Jobs /\ place[C[k]] = "running"
  BY ListFacts
<1>2. n \in Nat /\ m \in Nat /\ m >= 1 /\ m <= n /\ C # <<>>
      /\ \A i, k \in 1..n : C[i] = C[k] => i = k
  BY <1>1, ListEnds DEF IsList
<1>3. n <= N /\ N \in Nat /\ DOMAIN s = 0..N
  BY <1>1, ListLength, StepsAre DEF ListIs
<1>4. \A k \in 1..n : s[k - 1] = C[k]
  BY <1>1, AlongList DEF ListIs
<1>5. \A k \in n..N : s[k] # C[m]
  BY <1>1, <1>2, BeyondRunning
<1> HIDE DEF s, n, N
<1>6. \A k \in DOMAIN s \ {0} : s[k] = C[m] => k = m - 1
  <2> SUFFICES ASSUME NEW k \in DOMAIN s \ {0}, s[k] = C[m] PROVE k = m - 1
    OBVIOUS
  <2>1. k \in 1..N /\ k < n
    BY <1>2, <1>3, <1>5
  <2>2. k + 1 \in 1..n /\ (k + 1) - 1 = k
    BY <1>2, <2>1
  <2>3. s[k] = C[k + 1]
    BY <1>4, <2>2
  <2>4. k + 1 = m
    BY <1>2, <2>2, <2>3 DEF n
  <2> QED
    BY <1>2, <2>1, <2>4
<1>7. CASE m = 1
  <2>1. \A k \in DOMAIN s \ {0} : s[k] # C[m]
    BY <1>6, <1>7
  <2>2. found = {}
    BY <2>1
  <2> QED
    BY <1>7, <2>2 DEF TheJob, s
<1>8. CASE m # 1
  <2>1. m - 1 \in DOMAIN s \ {0} /\ m - 1 \in 1..n /\ m \in 1..n
    BY <1>2, <1>3, <1>8
  <2>2. s[m - 1] = C[m] /\ s[(m - 1) - 1] = C[m - 1] /\ C[m - 1] \in Jobs
    BY <1>1, <1>4, <2>1 DEF n
  <2>3. \A p \in Jobs : p \in found <=> p = C[m - 1]
    BY <1>6, <2>1, <2>2
  <2>4. found = {C[m - 1]}
    BY <2>2, <2>3
  <2> HIDE DEF found
  <2>5. TheJob(found) = C[m - 1]
    BY <2>4 DEF TheJob
  <2> QED
    BY <1>8, <2>5 DEF found, s
<1> QED
  BY <1>7, <1>8

\* A worker moves its job from currentjobs to the tail of finishedjobs.
LEMMA WorkerFinishLists ==
    ASSUME TypeOK, NEW w \in Workers, NEW r, WorkerFinish(w, r),
           wjob[w] \in Jobs, place[wjob[w]] = "running",
           NEW Q, NEW C, NEW F, Lists(Q, C, F)
    PROVE  \E D, G : Lists(Q, D, G)'
<1> DEFINE job == wjob[w]
           s == Steps(currentjobs.first)
           prev == TheJob({p \in Jobs : \E k \in DOMAIN s \ {0} : s[k] = job /\ s[k - 1] = p})
           links == IF prev = NULL THEN nextjob ELSE [nextjob EXCEPT ![prev] = nextjob[job]]
           new == LinkTail(links, finishedjobs, job)
           rest == Unlinked(currentjobs, job, prev)
<1>1. /\ currentjobs' = rest
      /\ nextjob' = new
      /\ finishedjobs' = Appended(finishedjobs, job)
      /\ place' = [place EXCEPT ![job] = "finished"]
      /\ UNCHANGED jobqueue
  BY DEF WorkerFinish
<1>2. /\ IsList(nextjob, jobqueue, Q) /\ IsList(nextjob, currentjobs, C)
      /\ IsList(nextjob, finishedjobs, F)
      /\ nextjob \in [Jobs -> Pointers]
      /\ \A j \in Jobs : /\ In(j, Q) <=> place[j] = "queued"
                         /\ In(j, C) <=> place[j] = "running"
                         /\ In(j, F) <=> place[j] = "finished"
      /\ \A k \in 1..Len(Q) : Q[k] \in Jobs /\ place[Q[k]] = "queued"
      /\ \A k \in 1..Len(C) : C[k] \in Jobs /\ place[C[k]] = "running"
      /\ \A k \in 1..Len(F) : F[k] \in Jobs /\ place[F[k]] = "finished"
  BY ListFacts
<1>3. PICK m \in 1..Len(C) : C[m] = job
  BY <1>2 DEF In
<1>4. prev = IF m = 1 THEN NULL ELSE C[m - 1]
  BY <1>3, SearchFinds
<1> HIDE DEF prev
<1>5. C # <<>> /\ Len(C) \in Nat /\ Len(C) \in 1..Len(C) /\ currentjobs.last = C[Len(C)]
  BY <1>2, <1>3, ListEnds
<1>6. PICK D, G : D = Without(C, m) /\ G = Append(F, job)
  OBVIOUS
<1>7. /\ IsList(links, rest, D)
      /\ \A x : In(x, D) <=> In(x, C) /\ x # job
      /\ \A i \in Jobs : i # prev => links[i] = nextjob[i]
      /\ links[job] = nextjob[job]
      /\ IF D = <<>> THEN rest.first = nextjob[C[Len(C)]]
         ELSE links[D[Len(D)]] = nextjob[C[Len(C)]]
  <2>1. links = Bypassed(nextjob, job, prev) /\ rest = Shortened(nextjob, currentjobs, job, prev)
    BY DEF Unlinked, Bypassed, Shortened
  <2>2. LET T == Without(C, m)
            after == Bypassed(nextjob, C[m], prev)
            q == Shortened(nextjob, currentjobs, C[m], prev)
        IN /\ IsList(after, q, T)
           /\ \A x : In(x, T) <=> In(x, C) /\ x # C[m]
           /\ \A i \in Jobs : i # prev => after[i] = nextjob[i]
           /\ after[C[m]] = nextjob[C[m]]
           /\ IF T = <<>> THEN q.first = nextjob[C[Len(C)]]
              ELSE after[T[Len(T)]] = nextjob[C[Len(C)]]
    BY <1>2, <1>4, UnlinkList
  <2> HIDE DEF job, rest, links
  <2> QED
    BY <1>3, <1>6, <2>1, <2>2
<1>8. links \in [Jobs -> Pointers]
  BY <1>2
<1>9. prev = NULL \/ (prev \in Jobs /\ place[prev] = "running")
  <2>1. m # 1 => m - 1 \in 1..Len(C)
    BY <1>5
  <2> QED
    BY <1>2, <1>4, <2>1
<1>10. \A i \in Jobs : place[i] # "running" => links[i] = nextjob[i]
  BY <1>7, <1>9
<1> HIDE DEF links, rest
<1>11. IsList(links, finishedjobs, F)
  BY <1>2, <1>10, LinksAside
<1>12. ~In(job, F)
  BY <1>2
<1>13. /\ IsList(new, Appended(finishedjobs, job), G)
       /\ \A x : In(x, G) <=> In(x, F) \/ x = job
       /\ G # <<>> /\ G[Len(G)] = job
       /\ \A i \in Jobs : F = <<>> \/ i # F[Len(F)] => new[i] = links[i]
  BY <1>6, <1>8, <1>11, <1>12, AppendList
<1>14. \A i \in Jobs : place[i] # "finished" => new[i] = links[i]
  <2>1. F # <<>> => Len(F) \in 1..Len(F)
    BY <1>2, ListEnds
  <2> QED
    BY <1>2, <1>13, <2>1
<1> HIDE DEF new
<1>15. \A k \in 1..Len(D) : D[k] \in Jobs /\ place[D[k]] = "running"
  BY <1>2, <1>7, ListEnds
<1>16. IsList(new, rest, D) /\ IsList(new, jobqueue, Q)
  <2>1. \A k \in 1..Len(D) : new[D[k]] = links[D[k]]
    BY <1>14, <1>15
  <2>2. \A k \in 1..Len(Q) : new[Q[k]] = nextjob[Q[k]]
    BY <1>2, <1>10, <1>14
  <2> QED
    BY <1>2, <1>7, <2>1, <2>2, LinksAside
<1>17. \A j \in Jobs : place'[j] = IF j = job THEN "finished" ELSE place[j]
  BY <1>1 DEF TypeOK, JobTypes
<1>18. \A j \in Jobs : /\ place'[j] = "queued" <=> In(j, Q)
                       /\ place'[j] = "running" <=> In(j, D)
                       /\ place'[j] = "finished" <=> In(j, G)
  BY <1>2, <1>7, <1>13, <1>17
<1>19. Stale(Q, C, F)
  BY DEF Lists
<1>20. IF Q = <<>> THEN jobqueue.first = NULL ELSE new[Q[Len(Q)]] = NULL
  <2>1. Q # <<>> => Len(Q) \in 1..Len(Q)
    BY <1>2, ListEnds
  <2>2. Q # <<>> => new[Q[Len(Q)]] = nextjob[Q[Len(Q)]]
    BY <1>2, <1>10, <1>14, <2>1
  <2> QED
    BY <1>19, <2>2 DEF Stale
<1>21. ToQueue(IF D = <<>> THEN rest.first ELSE new[D[Len(D)]], Q)
  <2>1. D # <<>> => Len(D) \in 1..Len(D)
    BY <1>7, ListEnds
  <2>2. D # <<>> => new[D[Len(D)]] = links[D[Len(D)]]
    BY <1>14, <1>15, <2>1
  <2>3. ToQueue(nextjob[C[Len(C)]], Q)
    BY <1>5, <1>19 DEF Stale
  <2> QED
    BY <1>7, <2>2, <2>3
<1>22. new[job] = NULL \/ (new[job] \in Jobs /\ place'[new[job]] \in {"queued", "running"})
  <2>1. new[job] = nextjob[job]
    BY <1>7, <1>14
  <2>2. CASE m = Len(C)
    <3>1. ToQueue(nextjob[job], Q)
      BY <1>3, <1>5, <1>19, <2>2 DEF Stale
    <3>2. Q # <<>> => Q[1] \in Jobs /\ place[Q[1]] = "queued"
      BY <1>2, ListEnds
    <3> QED
      BY <1>17, <2>1, <3>1, <3>2 DEF ToQueue
  <2>3. CASE m # Len(C)
    <3>1. m \in 1..(Len(C) - 1) /\ m + 1 \in 1..Len(C) /\ m + 1 # m
      BY <1>5, <2>3
    <3>2. nextjob[job] = C[m + 1] /\ C[m + 1] # C[m]
      BY <1>2, <1>3, <3>1 DEF IsList
    <3> QED
      BY <1>2, <1>3, <1>17, <2>1, <3>1, <3>2
  <2> QED
    BY <2>2, <2>3
<1>23. Lists(Q, D, G)'
  <2>1. Stale(Q, D, G)'
    BY <1>1, <1>13, <1>20, <1>21, <1>22 DEF Stale, ToQueue
  <2>2. Holds(Q, "queued")' /\ Holds(D, "running")' /\ Holds(G, "finished")'
    BY <1>18 DEF Holds
  <2>3. ListIs(jobqueue, Q)' /\ ListIs(currentjobs, D)' /\ ListIs(finishedjobs, G)'
    BY <1>1, <1>13, <1>16 DEF ListIs
  <2> QED
    BY <2>1, <2>2, <2>3 DEF Lists
<1> QED
  BY <1>23

-----------------------------------------------------------------------------
(* Preservation of the invariant, one step after the other.                *)

\* Clients that stay where they are, or are woken up from one wait or two.
LEMMA WokenWhere ==
    ASSUME PInv, UNCHANGED <<cid, queueopen>>,
           \A c \in Clients : \/ cpc'[c] = cpc[c]
                              \/ cpc[c] = "waitnotfull" /\ cpc'[c] = "submit"
                              \/ cpc[c] = "waitfinished" /\ cpc'[c] = "collect"
                              \/ cpc[c] = "waitempty" /\ cpc'[c] = "drain"
    PROVE  Whereabouts
BY DEF PInv, Whereabouts, IdsHold, ClosedHold, Submits, Collects, Closes

\* Clients that a worker lets go on after it took a job are where they were.
LEMMA TakeWhere ==
    ASSUME PInv, NEW n, cpc' = ClientsAfterTake(n), UNCHANGED <<cid, queueopen>>
    PROVE  Whereabouts
<1>1. cpc \in [Clients -> ClientPoints] /\ "submit" \in ClientPoints /\ "drain" \in ClientPoints
  BY DEF PInv, IInv, TypeOK, ClientTypes, ClientPoints
<1>2. PICK f : f = Woken(cpc, "waitnotfull", "submit")
  OBVIOUS
<1>3. /\ f \in [Clients -> ClientPoints]
      /\ \A c \in Clients : f[c] = IF cpc[c] = "waitnotfull" THEN "submit" ELSE cpc[c]
  BY <1>1, <1>2, WokenType
<1>4. /\ \A c \in Clients : Woken(f, "waitempty", "drain")[c]
                                = IF f[c] = "waitempty" THEN "drain" ELSE f[c]
      /\ \A c \in Clients : Woken(cpc, "waitempty", "drain")[c]
                                = IF cpc[c] = "waitempty" THEN "drain" ELSE cpc[c]
  BY <1>1, <1>3 DEF Woken
<1>5. cpc' \in {f, cpc, Woken(f, "waitempty", "drain"), Woken(cpc, "waitempty", "drain")}
  BY <1>2 DEF ClientsAfterTake
<1>6. \A c \in Clients : \/ cpc'[c] = cpc[c]
                         \/ cpc[c] = "waitnotfull" /\ cpc'[c] = "submit"
                         \/ cpc[c] = "waitempty" /\ cpc'[c] = "drain"
  <2>1. CASE cpc' = f
    BY <1>3, <2>1
  <2>2. CASE cpc' = cpc
    BY <2>2
  <2>3. CASE cpc' = Woken(f, "waitempty", "drain")
    BY <1>3, <1>4, <2>3
  <2>4. CASE cpc' = Woken(cpc, "waitempty", "drain")
    BY <1>4, <2>4
  <2> QED
    BY <1>5, <2>1, <2>2, <2>3, <2>4
<1> QED
  BY <1>6, WokenWhere

\* Taking the first job of the queue keeps the invariant.
LEMMA WorkerTakePInv ==
    ASSUME PInv, NEW w \in Workers, WorkerTake(w)
    PROVE  PInv'
<1>1. /\ TypeOK /\ IInv' /\ wpc[w] = "top"
      /\ wpc' = [wpc EXCEPT ![w] = "run"] /\ wjob' = [wjob EXCEPT ![w] = jobqueue.first]
      /\ cpc' = ClientsAfterTake(jobqueue.njobs - 1)
      /\ place' = [place EXCEPT ![jobqueue.first] = "running"]
      /\ UNCHANGED <<jobid, poolvars, cjob, cid, openids, fault>>
  BY WorkerTakeIInv DEF WorkerTake, PInv, IInv
<1>2. PICK Q, C, F : Lists(Q, C, F)
  BY DEF PInv, ListsHold
<1>3. /\ jobqueue.first = Q[1] /\ Q[1] \in Jobs /\ place[Q[1]] = "queued"
      /\ Lists(Tail(Q), Append(C, Q[1]), F)'
  BY <1>1, <1>2, WorkerTakeLists
<1>4. PICK job : job = Q[1] /\ job = jobqueue.first
  BY <1>3
<1>5. /\ \A j \in Jobs : place'[j] = IF j = job THEN "running" ELSE place[j]
      /\ \A v \in Workers : wpc'[v] = IF v = w THEN "run" ELSE wpc[v]
      /\ \A v \in Workers : wjob'[v] = IF v = w THEN job ELSE wjob[v]
  BY <1>1, <1>4 DEF TypeOK, JobTypes, WorkerTypes
<1>6. ListsHold'
  BY <1>3 DEF ListsHold
<1>7. WorkersHold'
  <2>1. \A v \in Workers : wpc[v] = "run" => wjob[v] # job /\ wjob[v] \in Jobs
    BY <1>3, <1>4 DEF PInv, WorkersHold, IInv, RunningHaveJobs
  <2>2. \A v \in Workers : wpc'[v] = "run" => place'[wjob'[v]] = "running"
    BY <1>3, <1>4, <1>5, <2>1 DEF PInv, WorkersHold
  <2>3. \A u, v \in Workers : wpc'[u] = "run" /\ wpc'[v] = "run" /\ wjob'[u] = wjob'[v] => u = v
    BY <1>5, <2>1 DEF PInv, WorkersHold
  <2>4. \A j \in Jobs : place'[j] = "running" => \E v \in Workers : wpc'[v] = "run" /\ wjob'[v] = j
    BY <1>1, <1>5 DEF PInv, WorkersHold
  <2> QED
    BY <2>2, <2>3, <2>4 DEF WorkersHold
<1>8. Whereabouts
  BY <1>1, TakeWhere DEF poolvars
<1>9. ClientsHold'
  <2>1. \A j \in Jobs : place'[j] = "new" <=> place[j] = "new"
    BY <1>3, <1>4, <1>5
  <2> QED
    BY <1>1, <1>8, <2>1, ClientsSame DEF PInv, Whereabouts
<1>10. IdsHold'
  <2>1. /\ \A j \in Jobs : place'[j] \in Pooled => place[j] \in Pooled
        /\ \A j \in Jobs : place'[j] = "none" <=> place[j] = "none"
    BY <1>3, <1>4, <1>5 DEF Pooled
  <2> QED
    BY <1>1, <1>8, <2>1, IdsSame DEF PInv, poolvars
<1> QED
  BY <1>1, <1>6, <1>7, <1>8, <1>9, <1>10, ClosedWhere DEF PInv, NoFault

\* Moving a job from the list of running jobs to that of the finished ones keeps it.
LEMMA WorkerFinishPInv ==
    ASSUME PInv, NEW w \in Workers, NEW r \in Retcodes, WorkerFinish(w, r)
    PROVE  PInv'
<1> DEFINE job == wjob[w]
<1>1. /\ TypeOK /\ IInv' /\ wpc[w] = "run"
      /\ wpc' = [wpc EXCEPT ![w] = "top"] /\ wjob' = [wjob EXCEPT ![w] = NULL]
      /\ cpc' = Woken(cpc, "waitfinished", "collect")
      /\ place' = [place EXCEPT ![job] = "finished"]
      /\ UNCHANGED <<jobid, poolvars, cjob, cid, openids, fault>>
  BY WorkerFinishIInv DEF WorkerFinish, PInv, IInv
<1>2. job \in Jobs /\ place[job] = "running"
  BY <1>1 DEF PInv, IInv, RunningHaveJobs, WorkersHold
<1>3. ListsHold'
  <2>1. PICK Q, C, F : Lists(Q, C, F)
    BY DEF PInv, ListsHold
  <2>2. PICK D, G : Lists(Q, D, G)'
    BY <1>1, <1>2, <2>1, WorkerFinishLists
  <2> QED
    BY <2>2 DEF ListsHold
<1>4. /\ \A j \in Jobs : place'[j] = IF j = job THEN "finished" ELSE place[j]
      /\ \A v \in Workers : wpc'[v] = IF v = w THEN "top" ELSE wpc[v]
      /\ \A v \in Workers : v # w => wjob'[v] = wjob[v]
  BY <1>1, <1>2 DEF TypeOK, JobTypes, WorkerTypes
<1>5. WorkersHold'
  <2>1. \A v \in Workers : wpc'[v] = "run" => /\ v # w /\ wpc[v] = "run" /\ wjob'[v] = wjob[v]
                                              /\ wjob[v] # job /\ wjob[v] \in Jobs
    BY <1>1, <1>4 DEF PInv, WorkersHold, IInv, RunningHaveJobs
  <2>2. \A v \in Workers : wpc'[v] = "run" => place'[wjob'[v]] = "running"
    BY <1>4, <2>1 DEF PInv, WorkersHold
  <2>3. \A u, v \in Workers : wpc'[u] = "run" /\ wpc'[v] = "run" /\ wjob'[u] = wjob'[v] => u = v
    BY <2>1 DEF PInv, WorkersHold
  <2>4. \A j \in Jobs : place'[j] = "running" => \E v \in Workers : wpc'[v] = "run" /\ wjob'[v] = j
    BY <1>4 DEF PInv, WorkersHold
  <2> QED
    BY <2>2, <2>3, <2>4 DEF WorkersHold
<1>6. Whereabouts
  <2>1. cpc \in [Clients -> ClientPoints] /\ "collect" \in ClientPoints
    BY <1>1 DEF TypeOK, ClientTypes, ClientPoints
  <2>2. \A c \in Clients : cpc'[c] = IF cpc[c] = "waitfinished" THEN "collect" ELSE cpc[c]
    BY <1>1, <2>1 DEF Woken
  <2> QED
    BY <1>1, <2>2, WokenWhere DEF poolvars
<1>7. ClientsHold'
  <2>1. \A j \in Jobs : place'[j] = "new" <=> place[j] = "new"
    BY <1>2, <1>4
  <2> QED
    BY <1>1, <1>6, <2>1, ClientsSame DEF PInv, Whereabouts
<1>8. IdsHold'
  <2>1. /\ \A j \in Jobs : place'[j] \in Pooled => place[j] \in Pooled
        /\ \A j \in Jobs : place'[j] = "none" <=> place[j] = "none"
    BY <1>2, <1>4 DEF Pooled
  <2> QED
    BY <1>1, <1>6, <2>1, IdsSame DEF PInv, poolvars
<1> QED
  BY <1>1, <1>3, <1>5, <1>6, <1>7, <1>8, ClosedWhere DEF PInv, NoFault

\* The other steps of the workers.
LEMMA WorkerQuietPInv ==
    ASSUME PInv, NEW w \in Workers,
           WorkerStart(w) \/ WorkerSleep(w) \/ WorkerExit(w) \/ WorkerSpuriousWakeup(w)
    PROVE  PInv'
<1>1. IInv'
  BY WorkerStartIInv, WorkerSleepIInv, WorkerExitIInv, WorkerSpuriousWakeupIInv DEF PInv
<1>2. /\ UNCHANGED <<listvars, jobvars, currentid, queueopen, wjob, clientvars, fault>>
      /\ \E p \in {"top", "wait", "exited"} : wpc' = [wpc EXCEPT ![w] = p]
      /\ wpc[w] # "run"
  BY DEF WorkerStart, WorkerSleep, WorkerExit, WorkerSpuriousWakeup, poolvars
<1>3. \A v \in Workers : wpc'[v] = "run" <=> wpc[v] = "run"
  BY <1>2 DEF PInv, IInv, TypeOK, WorkerTypes
<1>4. Whereabouts
  BY <1>2, WokenWhere DEF clientvars
<1> QED
  BY <1>1, <1>2, <1>3, <1>4, QuietPInv DEF jobvars, clientvars, PInv, NoFault

\* The ids of the jobs in the pool while a client collects: there is only one.
LEMMA OnlyOneId ==
    ASSUME PInv, NEW c \in Clients, cpc[c] = "collect"
    PROVE  /\ cid[c] \in openids[c] /\ cid[c] \in 1..currentid
           /\ \A d \in Clients : \A i \in openids[d] : i = cid[c] /\ d = c
           /\ \A j \in Jobs : place[j] \in Pooled => jobid[j] = cid[c]
           /\ \A j \in Jobs : place[j] # "new"
<1>1. cid[c] \in openids[c]
  BY DEF PInv, IdsHold
<1>2. \A d \in Clients : \A i \in openids[d] : i = cid[c] /\ d = c
  BY <1>1 DEF PInv, IdsHold
<1>3. \A j \in Jobs : place[j] \in Pooled => jobid[j] = cid[c]
  BY <1>2 DEF PInv, IdsHold, Pooled
<1>4. \A j \in Jobs : place[j] # "new"
  <2> SUFFICES ASSUME NEW j \in Jobs, place[j] = "new" PROVE FALSE
    OBVIOUS
  <2>1. PICK d \in Clients : Submits(d) /\ cjob[d] = j
    BY DEF PInv, ClientsHold
  <2>2. d = c
    BY <1>2, <2>1 DEF PInv, ClientsHold
  <2> QED
    BY <2>1, <2>2 DEF Submits
<1>5. cid[c] \in 1..currentid
  BY <1>1 DEF PInv, IdsHold
<1> QED
  BY <1>1, <1>2, <1>3, <1>4, <1>5

\* isJobRunning stops at the first job it looks at, or has none to look at.
LEMMA ScanOne ==
    ASSUME NEW q, NEW id, q.first = NULL \/ (q.first \in Jobs /\ place[q.first] # "freed"
                                             /\ jobid[q.first] = id)
    PROVE  CheckJobQueue(q, id) = IF q.first = NULL THEN "absent" ELSE "inqueue"
<1>1. CASE q.first = NULL
  BY <1>1 DEF CheckJobQueue
<1>2. CASE q.first # NULL
  <2> DEFINE s == Steps(q.first)
             stop == {k \in DOMAIN s : \/ s[k] \in {NULL, q.last}
                                       \/ place[s[k]] = "freed"
                                       \/ jobid[s[k]] = id}
  <2>1. s[0] = q.first /\ DOMAIN s = 0..Cardinality(Jobs) /\ Cardinality(Jobs) \in Nat
    BY StepsAre
  <2>2. 0 \in stop /\ \A k \in stop : k \in Nat
    BY <1>2, <2>1
  <2>3. Min(stop) = 0
    <3> HIDE DEF stop
    <3> QED
      BY <2>2 DEF Min
  <2>4. CheckJobQueue(q, id) =
          LET job == s[Min(stop)]
          IN IF job = NULL THEN "memory"
             ELSE IF place[job] = "freed" THEN "memory"
             ELSE IF jobid[job] = id THEN "inqueue" ELSE "absent"
    BY <1>2 DEF CheckJobQueue
  <2> HIDE DEF s, stop
  <2> QED
    BY <1>2, <2>1, <2>3, <2>4
<1> QED
  BY <1>1, <1>2

\* Both scans of SCIPtpiCollectJobs are safe, and they find nothing only when
\* nothing is queued or running.
LEMMA ScanFacts ==
    ASSUME PInv, NEW c \in Clients, cpc[c] = "collect",
           NEW Q, NEW C, NEW F, Lists(Q, C, F)
    PROVE  /\ Scan(cid[c]) # "memory"
           /\ Scan(cid[c]) = "absent" => Q = <<>> /\ C = <<>>
<1>1. /\ IsList(nextjob, jobqueue, Q) /\ IsList(nextjob, currentjobs, C)
      /\ \A k \in 1..Len(Q) : Q[k] \in Jobs /\ place[Q[k]] = "queued"
      /\ \A k \in 1..Len(C) : C[k] \in Jobs /\ place[C[k]] = "running"
  BY ListFacts DEF PInv, IInv
<1>2. Stale(Q, C, F)
  BY DEF Lists
<1>3. IF Q = <<>> THEN jobqueue.first = NULL
      ELSE jobqueue.first = Q[1] /\ Q[1] \in Jobs /\ place[Q[1]] = "queued"
  BY <1>1, <1>2, ListEnds DEF Stale
<1>4. IF C = <<>> THEN ToQueue(currentjobs.first, Q)
      ELSE currentjobs.first = C[1] /\ C[1] \in Jobs /\ place[C[1]] = "running"
  BY <1>1, <1>2, ListEnds DEF Stale
<1>5. /\ jobqueue.first = NULL \/ (jobqueue.first \in Jobs /\ place[jobqueue.first] # "freed"
                                   /\ jobid[jobqueue.first] = cid[c])
      /\ currentjobs.first = NULL \/ (currentjobs.first \in Jobs
                                      /\ place[currentjobs.first] # "freed"
                                      /\ jobid[currentjobs.first] = cid[c])
  BY <1>3, <1>4, OnlyOneId DEF ToQueue, Pooled
<1>6. /\ CheckJobQueue(jobqueue, cid[c]) = IF jobqueue.first = NULL THEN "absent" ELSE "inqueue"
      /\ CheckJobQueue(currentjobs, cid[c])
            = IF currentjobs.first = NULL THEN "absent" ELSE "inqueue"
  BY <1>5, ScanOne
<1>7. Scan(cid[c]) = IF currentjobs.first = NULL /\ jobqueue.first = NULL
                     THEN "absent" ELSE "inqueue"
  BY <1>6 DEF Scan
<1> QED
  BY <1>3, <1>4, <1>7, ConstantsAssumption

\* The steps of a client that leave the jobs alone.
LEMMA ClientQuietPInv ==
    ASSUME PInv, IInv', NEW c \in Clients,
           \/ SubmitSleep(c) \/ CollectSleep(c) \/ ClientSpuriousWakeup(c) \/ ExitStep(c)
           \/ ExitClose(c) \/ \E id \in openids[c] : CollectJobs(c, id)
    PROVE  PInv'
<1>1. /\ cpc \in [Clients -> ClientPoints] /\ cid \in [Clients -> Nat]
      /\ wpc \in [Workers -> WorkerPoints]
      /\ fault # "memory"
      /\ \A d \in Clients : Closes(d) => ~queueopen
      /\ \A d \in Clients : Collects(d) => cid[d] \in openids[d]
  BY DEF PInv, IInv, TypeOK, ClientTypes, WorkerTypes, NoFault, ClosedHold, Closes,
         IdsHold, Collects
<1> USE DEF listvars, jobvars, poolvars, workervars, Goto
<1>2. CASE SubmitSleep(c)
  <2>1. Submits(c) /\ cpc' = [cpc EXCEPT ![c] = "waitnotfull"] /\ UNCHANGED <<cid, queueopen>>
    BY <1>2 DEF SubmitSleep, AtSubmitTest, Submits
  <2>2. Whereabouts
    BY <1>1, <2>1 DEF Whereabouts, Submits, Collects, Closes
  <2> QED
    BY <1>1, <1>2, <2>2, QuietPInv DEF SubmitSleep
<1>3. CASE CollectSleep(c)
  <2>1. cpc[c] = "collect" /\ cpc' = [cpc EXCEPT ![c] = "waitfinished"]
        /\ UNCHANGED <<cid, queueopen>>
    BY <1>3 DEF CollectSleep
  <2>2. Whereabouts
    BY <1>1, <2>1 DEF Whereabouts, Submits, Collects, Closes
  <2>3. PICK Q, C, F : Lists(Q, C, F)
    BY DEF PInv, ListsHold
  <2>4. fault' # "memory"
    BY <1>3, <2>1, <2>3, ScanFacts DEF CollectSleep
  <2> QED
    BY <1>3, <2>2, <2>4, QuietPInv DEF CollectSleep
<1>4. CASE ClientSpuriousWakeup(c)
  <2>1. \A d \in Clients : \/ cpc'[d] = cpc[d]
                           \/ cpc[d] = "waitnotfull" /\ cpc'[d] = "submit"
                           \/ cpc[d] = "waitfinished" /\ cpc'[d] = "collect"
                           \/ cpc[d] = "waitempty" /\ cpc'[d] = "drain"
    BY <1>1, <1>4 DEF ClientSpuriousWakeup
  <2>2. Whereabouts
    BY <1>4, <2>1, WokenWhere DEF ClientSpuriousWakeup
  <2> QED
    BY <1>1, <1>4, <2>2, QuietPInv DEF ClientSpuriousWakeup
<1>5. CASE ExitStep(c)
  <2>1. Whereabouts
    <3>1. CASE ExitSleep(c)
      BY <1>1, <3>1 DEF ExitSleep, Whereabouts, Submits, Collects, Closes
    <3>2. CASE ExitShutdown(c)
      BY <1>1, <3>2 DEF ExitShutdown, Whereabouts, Submits, Collects, Closes
    <3>3. CASE ExitWakeWorkers(c)
      BY <1>1, <3>3 DEF ExitWakeWorkers, Whereabouts, Submits, Collects, Closes
    <3>4. CASE ExitWakeSubmitters(c)
      <4>1. /\ cpc[c] = "wakesubmitters" /\ UNCHANGED <<cid, queueopen>>
            /\ \A d \in Clients : cpc'[d] = IF d = c THEN "join"
                                            ELSE IF cpc[d] = "waitnotfull" THEN "submit" ELSE cpc[d]
        BY <1>1, <3>4 DEF ExitWakeSubmitters, Woken
      <4> QED
        BY <1>1, <4>1 DEF Whereabouts, Submits, Collects, Closes
    <3>5. CASE ExitFree(c)
      BY <1>1, <3>5 DEF ExitFree, Whereabouts, Submits, Collects, Closes
    <3> QED
      BY <1>5, <3>1, <3>2, <3>3, <3>4, <3>5 DEF ExitStep
  <2>2. \A w \in Workers : wpc'[w] = "run" <=> wpc[w] = "run"
    BY <1>1, <1>5 DEF ExitStep, ExitSleep, ExitShutdown, ExitWakeWorkers, ExitWakeSubmitters,
                      ExitFree, Woken
  <2>3. UNCHANGED <<listvars, jobid, place, wjob, cjob, openids, currentid>> /\ fault' # "memory"
    BY <1>1, <1>5 DEF ExitStep, ExitSleep, ExitShutdown, ExitWakeWorkers, ExitWakeSubmitters,
                      ExitFree
  <2> QED
    BY <2>1, <2>2, <2>3, QuietPInv
<1>6. CASE ExitClose(c)
  <2>1. Whereabouts
    BY <1>1, <1>6 DEF ExitClose, Whereabouts, Submits, Collects, Closes
  <2> QED
    BY <1>1, <1>6, <2>1, QuietPInv DEF ExitClose
<1>7. CASE \E id \in openids[c] : CollectJobs(c, id)
  <2>1. Whereabouts
    BY <1>1, <1>7 DEF CollectJobs, Whereabouts, Submits, Collects, Closes
  <2> QED
    BY <1>1, <1>7, <2>1, QuietPInv DEF CollectJobs
<1> QED
  BY <1>2, <1>3, <1>4, <1>5, <1>6, <1>7

\* A job is created under the open id.
LEMMA CreateJobPInv ==
    ASSUME PInv, IInv', NEW c \in Clients, NEW j \in Jobs, CreateJob(c, j)
    PROVE  PInv'
<1>1. /\ cpc[c] = "idle" /\ currentid \in openids[c] /\ place[j] = "none"
      /\ place' = [place EXCEPT ![j] = "new"]
      /\ jobid' = [jobid EXCEPT ![j] = currentid]
      /\ nextjob' = [nextjob EXCEPT ![j] = NULL]
      /\ cjob' = [cjob EXCEPT ![c] = j]
      /\ cpc' = [cpc EXCEPT ![c] = "add"]
      /\ UNCHANGED <<jobqueue, currentjobs, finishedjobs, currentid, queueopen, wpc, wjob, cid,
                     openids, fault>>
  BY DEF CreateJob, Goto, poolvars, workervars
<1>2. /\ \A i \in Jobs : place'[i] = IF i = j THEN "new" ELSE place[i]
      /\ \A i \in Jobs : jobid'[i] = IF i = j THEN currentid ELSE jobid[i]
      /\ \A i \in Jobs : i # j => nextjob'[i] = nextjob[i]
      /\ \A d \in Clients : cjob'[d] = IF d = c THEN j ELSE cjob[d]
      /\ \A d \in Clients : cpc'[d] = IF d = c THEN "add" ELSE cpc[d]
  BY <1>1 DEF PInv, IInv, TypeOK, ListTypes, JobTypes, ClientTypes
<1>3. ListsHold'
  <2>1. \A i \in Jobs : place[i] \in Pooled => nextjob'[i] = nextjob[i]
    BY <1>1, <1>2 DEF Pooled
  <2>2. \A i \in Jobs : place[i] \in Pooled \/ place'[i] \in Pooled => place'[i] = place[i]
    BY <1>1, <1>2 DEF Pooled
  <2> QED
    BY <1>1, <2>1, <2>2, ListsSame DEF PInv
<1>4. WorkersHold'
  BY <1>1, <1>2, WorkersSame DEF PInv
<1>5. ClientsHold'
  <2>1. /\ Submits(c)'
        /\ \A d \in Clients : d # c => (Submits(d)' <=> Submits(d)) /\ (Submits(d) => cjob[d] # j)
        /\ ~Submits(c)
    BY <1>1, <1>2 DEF Submits, PInv, ClientsHold
  <2>2. \A d \in Clients : Submits(d)' => /\ cjob'[d] \in Jobs /\ place'[cjob'[d]] = "new"
                                          /\ jobid'[cjob'[d]] \in openids'[d]
    BY <1>1, <1>2, <2>1 DEF PInv, ClientsHold
  <2>3. \A d, e \in Clients : Submits(d)' /\ Submits(e)' /\ cjob'[d] = cjob'[e] => d = e
    BY <1>2, <2>1 DEF PInv, ClientsHold
  <2>4. \A i \in Jobs : place'[i] = "new" => \E d \in Clients : Submits(d)' /\ cjob'[d] = i
    BY <1>2, <2>1 DEF PInv, ClientsHold
  <2> QED
    BY <2>2, <2>3, <2>4 DEF ClientsHold
<1>6. IdsHold'
  <2>1. currentid \in 1..currentid /\ jobid[j] = 0 /\ currentid \in Nat
    BY <1>1 DEF PInv, IdsHold, IInv, TypeOK, CounterTypes
  <2>2. \A i \in Jobs : IF place'[i] = "none" THEN jobid'[i] = 0 ELSE jobid'[i] \in 1..currentid'
    BY <1>1, <1>2, <2>1 DEF PInv, IdsHold
  <2>3. \A k \in 1..(currentid' - 1) : \E i \in Jobs : jobid'[i] = k
    <3> SUFFICES ASSUME NEW k \in 1..(currentid - 1) PROVE \E i \in Jobs : jobid'[i] = k
      BY <1>1
    <3>1. PICK i \in Jobs : jobid[i] = k
      BY DEF PInv, IdsHold
    <3>2. i # j
      BY <2>1, <3>1
    <3> QED
      BY <1>2, <3>1, <3>2
  <2>4. \A i \in Jobs : place'[i] \in {"queued", "running", "finished"} =>
                            \E d \in Clients : jobid'[i] \in openids'[d]
    BY <1>1, <1>2 DEF PInv, IdsHold
  <2>5. \A d \in Clients : cpc'[d] \in {"collect", "waitfinished"} => cid'[d] \in openids'[d]
    BY <1>1, <1>2 DEF PInv, IdsHold
  <2> QED
    BY <1>1, <2>2, <2>3, <2>4, <2>5 DEF PInv, IdsHold
<1>7. ClosedHold' /\ NoFault'
  BY <1>1, <1>2 DEF PInv, ClosedHold, NoFault
<1> QED
  BY <1>3, <1>4, <1>5, <1>6, <1>7 DEF PInv

\* A new id is opened when no other is, and no job is in the pool then.
LEMMA GetNewJobIDPInv ==
    ASSUME ~OverlapIds, PInv, IInv', NEW c \in Clients, GetNewJobID(c)
    PROVE  PInv'
<1>1. /\ \E j \in Jobs : place[j] = "none"
      /\ currentid = 0 \/ \E j \in Jobs : jobid[j] = currentid
      /\ \A d \in Clients : openids[d] = {}
      /\ currentid' = currentid + 1
      /\ openids' = [openids EXCEPT ![c] = @ \cup {currentid + 1}]
      /\ UNCHANGED <<listvars, jobvars, queueopen, wpc, wjob, cpc, cjob, cid, fault>>
  BY DEF GetNewJobID, workervars
<1>2. \A j \in Jobs : place[j] \notin {"queued", "running", "finished", "new"}
  BY <1>1 DEF PInv, IdsHold, ClientsHold
<1>3. \A d \in Clients : ~Submits(d) /\ cpc[d] \notin {"collect", "waitfinished"}
  BY <1>1 DEF PInv, IdsHold, ClientsHold
<1>4. \A d \in Clients : openids'[d] = IF d = c THEN {currentid + 1} ELSE {}
  BY <1>1 DEF PInv, IInv, TypeOK, ClientTypes
<1>5. currentid \in Nat /\ Cardinality(Jobs) \in Nat /\ jobid \in [Jobs -> Nat]
  BY ConstantsAssumption, FS_CardinalityType DEF PInv, IInv, TypeOK, CounterTypes, JobTypes
<1>6. \A i \in 1..currentid : \E j \in Jobs : jobid[j] = i
  <2> SUFFICES ASSUME NEW i \in 1..currentid PROVE \E j \in Jobs : jobid[j] = i
    OBVIOUS
  <2>1. i = currentid \/ i \in 1..(currentid - 1)
    BY <1>5
  <2>2. currentid # 0
    BY <1>5
  <2> QED
    BY <1>1, <2>1, <2>2 DEF PInv, IdsHold
<1>7. currentid + 1 <= Cardinality(Jobs)
  <2> DEFINE K == {jobid[j] : j \in Jobs}
  <2>1. 0 \in K
    <3>1. PICK j \in Jobs : place[j] = "none"
      BY <1>1
    <3>2. jobid[j] = 0
      BY <3>1 DEF PInv, IdsHold
    <3> QED
      BY <3>2
  <2>2. 0..currentid \subseteq K
    <3> SUFFICES ASSUME NEW i \in 0..currentid PROVE i \in K
      OBVIOUS
    <3>1. i = 0 \/ i \in 1..currentid
      BY <1>5
    <3> QED
      BY <1>6, <2>1, <3>1
  <2>3. IsFiniteSet(K) /\ Cardinality(K) <= Cardinality(Jobs)
    <3>1. jobid \in Surjection(Jobs, K)
      BY <1>5 DEF Surjection
    <3> QED
      BY <3>1, ConstantsAssumption, FS_Surjection
  <2> HIDE DEF K
  <2>4. Cardinality(0..currentid) <= Cardinality(K) /\ Cardinality(K) \in Nat
    BY <2>2, <2>3, FS_Subset, FS_CardinalityType
  <2>5. Cardinality(0..currentid) = currentid + 1
    BY <1>5, FS_Interval
  <2> QED
    BY <1>5, <2>3, <2>4, <2>5
<1>8. ListsHold' /\ WorkersHold' /\ ClosedHold' /\ NoFault'
  <2>1. ListsHold'
    BY <1>1, ListsSame DEF PInv, listvars, jobvars
  <2>2. WorkersHold'
    BY <1>1, WorkersSame DEF PInv, jobvars
  <2> QED
    BY <1>1, <2>1, <2>2 DEF PInv, ClosedHold, NoFault
<1>9. ClientsHold'
  BY <1>1, <1>2, <1>3 DEF ClientsHold, Submits, jobvars
<1>10. IdsHold'
  <2>1. \A d \in Clients : openids'[d] \subseteq 1..currentid'
    BY <1>1, <1>4, <1>5
  <2>2. \A d, e \in Clients : \A a \in openids'[d], b \in openids'[e] : a = b /\ d = e
    BY <1>4
  <2>3. /\ \A j \in Jobs : place'[j] \notin {"queued", "running", "finished"}
        /\ \A d \in Clients : cpc'[d] \notin {"collect", "waitfinished"}
    BY <1>1, <1>2, <1>3 DEF jobvars
  <2>4. \A j \in Jobs : IF place'[j] = "none" THEN jobid'[j] = 0 ELSE jobid'[j] \in 1..currentid'
    <3>1. \A j \in Jobs : IF place[j] = "none" THEN jobid[j] = 0 ELSE jobid[j] \in 1..currentid
      BY DEF PInv, IdsHold
    <3>2. 1..currentid \subseteq 1..currentid'
      BY <1>1, <1>5
    <3> QED
      BY <1>1, <3>1, <3>2 DEF jobvars
  <2>5. \A i \in 1..(currentid' - 1) : \E j \in Jobs : jobid'[j] = i
    <3>1. currentid' - 1 = currentid /\ jobid' = jobid
      BY <1>1, <1>5 DEF jobvars
    <3> QED
      BY <1>6, <3>1
  <2>6. currentid' <= Cardinality(Jobs)
    BY <1>1, <1>7
  <2> QED
    BY <2>1, <2>2, <2>3, <2>4, <2>5, <2>6 DEF IdsHold
<1> QED
  BY <1>8, <1>9, <1>10 DEF PInv

\* Whoever submits a job gets rid of it: the job enters the queue or not.
LEMMA SubmittedPInv ==
    ASSUME PInv, NEW c \in Clients, Submits(c), NEW p \in {"queued", "rejected"},
           place' = [place EXCEPT ![cjob[c]] = p],
           cjob' = [cjob EXCEPT ![c] = NULL], cpc' = [cpc EXCEPT ![c] = "idle"],
           UNCHANGED <<jobid, currentid, queueopen, wjob, cid, openids, fault>>,
           \A w \in Workers : wpc'[w] = "run" <=> wpc[w] = "run"
    PROVE  WorkersHold' /\ ClientsHold' /\ IdsHold' /\ ClosedHold' /\ NoFault'
<1>1. cjob[c] \in Jobs /\ place[cjob[c]] = "new" /\ jobid[cjob[c]] \in openids[c]
  BY DEF PInv, ClientsHold
<1>2. /\ \A i \in Jobs : place'[i] = IF i = cjob[c] THEN p ELSE place[i]
      /\ \A d \in Clients : d # c => cjob'[d] = cjob[d]
      /\ \A d \in Clients : cpc'[d] = IF d = c THEN "idle" ELSE cpc[d]
  BY DEF PInv, IInv, TypeOK, JobTypes, ClientTypes
<1>3. WorkersHold'
  <2>1. \A i \in Jobs : place'[i] = "running" <=> place[i] = "running"
    BY <1>1, <1>2
  <2> QED
    BY <2>1, WorkersSame DEF PInv
<1>4. ClientsHold'
  <2>1. \A d \in Clients : Submits(d)' => /\ d # c /\ Submits(d) /\ cjob'[d] = cjob[d]
                                          /\ cjob[d] # cjob[c] /\ cjob[d] \in Jobs
    BY <1>2 DEF Submits, PInv, ClientsHold
  <2>2. \A d \in Clients : Submits(d)' => /\ cjob'[d] \in Jobs /\ place'[cjob'[d]] = "new"
                                          /\ jobid'[cjob'[d]] \in openids'[d]
    BY <1>2, <2>1 DEF PInv, ClientsHold
  <2>3. \A d, e \in Clients : Submits(d)' /\ Submits(e)' /\ cjob'[d] = cjob'[e] => d = e
    BY <2>1 DEF PInv, ClientsHold
  <2>4. \A i \in Jobs : place'[i] = "new" => \E d \in Clients : Submits(d)' /\ cjob'[d] = i
    <3> SUFFICES ASSUME NEW i \in Jobs, place'[i] = "new"
                 PROVE  \E d \in Clients : Submits(d)' /\ cjob'[d] = i
      OBVIOUS
    <3>1. i # cjob[c] /\ place[i] = "new"
      BY <1>2
    <3>2. PICK d \in Clients : Submits(d) /\ cjob[d] = i
      BY <3>1 DEF PInv, ClientsHold
    <3>3. d # c
      BY <3>1, <3>2
    <3>4. Submits(d)' /\ cjob'[d] = i
      BY <1>2, <3>2, <3>3 DEF Submits
    <3> QED
      BY <3>4
  <2> QED
    BY <2>2, <2>3, <2>4 DEF ClientsHold
<1>5. IdsHold'
  <2>1. \A i \in Jobs : place'[i] \in {"queued", "running", "finished"} =>
                            \E d \in Clients : jobid'[i] \in openids'[d]
    BY <1>1, <1>2 DEF PInv, IdsHold
  <2>2. \A i \in Jobs : IF place'[i] = "none" THEN jobid'[i] = 0 ELSE jobid'[i] \in 1..currentid'
    BY <1>1, <1>2 DEF PInv, IdsHold
  <2>3. \A d \in Clients : cpc'[d] \in {"collect", "waitfinished"} => cid'[d] \in openids'[d]
    BY <1>2 DEF PInv, IdsHold
  <2> QED
    BY <2>1, <2>2, <2>3 DEF PInv, IdsHold
<1>6. ClosedHold' /\ NoFault'
  BY <1>2 DEF PInv, ClosedHold, NoFault
<1> QED
  BY <1>3, <1>4, <1>5, <1>6

\* The queue is full, closed or shut down: the job is turned away.
LEMMA RejectPInv ==
    ASSUME PInv, IInv', NEW c \in Clients, SubmitQueueFull(c) \/ SubmitRejected(c)
    PROVE  PInv'
<1>1. /\ Submits(c)
      /\ place' = [place EXCEPT ![cjob[c]] = "rejected"]
      /\ cjob' = [cjob EXCEPT ![c] = NULL] /\ cpc' = [cpc EXCEPT ![c] = "idle"]
      /\ UNCHANGED <<listvars, jobid, currentid, queueopen, wpc, wjob, cid, openids, fault>>
  BY DEF SubmitQueueFull, SubmitRejected, AtSubmitTest, Submits, Goto, poolvars, workervars
<1>2. WorkersHold' /\ ClientsHold' /\ IdsHold' /\ ClosedHold' /\ NoFault'
  BY <1>1, SubmittedPInv
<1>3. cjob[c] \in Jobs /\ place[cjob[c]] = "new"
  BY <1>1 DEF PInv, ClientsHold
<1>4. \A i \in Jobs : place'[i] = IF i = cjob[c] THEN "rejected" ELSE place[i]
  BY <1>1 DEF PInv, IInv, TypeOK, JobTypes
<1>5. ListsHold'
  <2>1. \A i \in Jobs : place[i] \in Pooled \/ place'[i] \in Pooled => place'[i] = place[i]
    BY <1>3, <1>4 DEF Pooled
  <2> QED
    BY <1>1, <2>1, ListsSame DEF PInv, listvars
<1> QED
  BY <1>2, <1>5 DEF PInv

\* A new job enters the queue at its tail.
LEMMA SubmitJobLists ==
    ASSUME TypeOK, NEW c \in Clients, SubmitJob(c),
           cjob[c] \in Jobs, place[cjob[c]] = "new",
           NEW Q, NEW C, NEW F, Lists(Q, C, F)
    PROVE  \E R : /\ Lists(R, C, F)'
                  /\ R = Append(Q, cjob[c])
<1> DEFINE job == cjob[c]
           links == [nextjob EXCEPT ![job] = NULL]
           new == LinkTail(links, jobqueue, job)
<1>1. /\ nextjob' = new
      /\ jobqueue' = Appended(jobqueue, job)
      /\ place' = [place EXCEPT ![job] = "queued"]
      /\ UNCHANGED <<currentjobs, finishedjobs>>
  BY DEF SubmitJob
<1>2. /\ IsList(nextjob, jobqueue, Q) /\ IsList(nextjob, currentjobs, C)
      /\ IsList(nextjob, finishedjobs, F)
      /\ nextjob \in [Jobs -> Pointers]
      /\ \A j \in Jobs : /\ In(j, Q) <=> place[j] = "queued"
                         /\ In(j, C) <=> place[j] = "running"
                         /\ In(j, F) <=> place[j] = "finished"
      /\ \A k \in 1..Len(Q) : Q[k] \in Jobs /\ place[Q[k]] = "queued"
      /\ \A k \in 1..Len(C) : C[k] \in Jobs /\ place[C[k]] = "running"
      /\ \A k \in 1..Len(F) : F[k] \in Jobs /\ place[F[k]] = "finished"
  BY ListFacts
<1>3. PICK R : R = Append(Q, job)
  OBVIOUS
<1>4. /\ links \in [Jobs -> Pointers] /\ links[job] = NULL
      /\ \A i \in Jobs : i # job => links[i] = nextjob[i]
  BY <1>2 DEF Pointers
<1> HIDE DEF links
<1>5. IsList(links, jobqueue, Q)
  BY <1>2, <1>4, LinksAside
<1>6. ~In(job, Q)
  BY <1>2
<1>7. /\ IsList(new, Appended(jobqueue, job), R)
      /\ \A x : In(x, R) <=> In(x, Q) \/ x = job
      /\ R # <<>> /\ R[Len(R)] = job
      /\ Q # <<>> => R[1] = Q[1]
      /\ \A i \in Jobs : Q = <<>> \/ i # Q[Len(Q)] => new[i] = links[i]
  BY <1>3, <1>4, <1>5, <1>6, AppendList
<1> HIDE DEF new
<1>8. /\ \A i \in Jobs : place[i] \notin {"queued", "new"} => new[i] = nextjob[i]
      /\ new[job] = NULL
  <2>1. Q # <<>> => Len(Q) \in 1..Len(Q)
    BY <1>2, ListEnds
  <2> QED
    BY <1>2, <1>4, <1>7, <2>1
<1>9. IsList(new, currentjobs, C) /\ IsList(new, finishedjobs, F)
  BY <1>2, <1>8, LinksAside
<1>10. \A j \in Jobs : place'[j] = IF j = job THEN "queued" ELSE place[j]
  BY <1>1 DEF TypeOK, JobTypes
<1>11. \A j \in Jobs : /\ place'[j] = "queued" <=> In(j, R)
                       /\ place'[j] = "running" <=> In(j, C)
                       /\ place'[j] = "finished" <=> In(j, F)
  BY <1>2, <1>7, <1>10
<1>12. Stale(Q, C, F)
  BY DEF Lists
<1>13. ToQueue(IF C = <<>> THEN currentjobs.first ELSE new[C[Len(C)]], R)
  <2>1. C # <<>> => new[C[Len(C)]] = nextjob[C[Len(C)]]
    BY <1>2, <1>8, ListEnds
  <2> QED
    BY <1>7, <1>12, <2>1 DEF Stale, ToQueue
<1>14. IF F = <<>> THEN finishedjobs.first = NULL
       ELSE LET x == new[F[Len(F)]]
            IN x = NULL \/ (x \in Jobs /\ place'[x] \in {"queued", "running"})
  <2>1. F # <<>> => new[F[Len(F)]] = nextjob[F[Len(F)]]
    BY <1>2, <1>8, ListEnds
  <2> QED
    BY <1>10, <1>12, <2>1 DEF Stale
<1>15. Lists(R, C, F)'
  <2>1. Stale(R, C, F)'
    BY <1>1, <1>7, <1>8, <1>13, <1>14 DEF Stale, ToQueue
  <2>2. Holds(R, "queued")' /\ Holds(C, "running")' /\ Holds(F, "finished")'
    BY <1>11 DEF Holds
  <2>3. ListIs(jobqueue, R)' /\ ListIs(currentjobs, C)' /\ ListIs(finishedjobs, F)'
    BY <1>1, <1>7, <1>9 DEF ListIs
  <2> QED
    BY <2>1, <2>2, <2>3 DEF Lists
<1> QED
  BY <1>3, <1>15

\* Entering a job keeps it.
LEMMA SubmitJobPInv ==
    ASSUME PInv, IInv', NEW c \in Clients, SubmitJob(c)
    PROVE  PInv'
<1>1. /\ Submits(c)
      /\ place' = [place EXCEPT ![cjob[c]] = "queued"]
      /\ cjob' = [cjob EXCEPT ![c] = NULL] /\ cpc' = [cpc EXCEPT ![c] = "idle"]
      /\ UNCHANGED <<jobid, currentid, queueopen, wjob, cid, openids, fault>>
      /\ SignalNotEmpty
  BY DEF SubmitJob, AtSubmitTest, Submits, Goto, poolvars
<1>2. \A w \in Workers : wpc'[w] = "run" <=> wpc[w] = "run"
  BY <1>1 DEF SignalNotEmpty, SleepingWorkers, PInv, IInv, TypeOK, WorkerTypes
<1>3. WorkersHold' /\ ClientsHold' /\ IdsHold' /\ ClosedHold' /\ NoFault'
  BY <1>1, <1>2, SubmittedPInv
<1>4. ListsHold'
  <2>1. PICK Q, C, F : Lists(Q, C, F)
    BY DEF PInv, ListsHold
  <2>2. TypeOK /\ cjob[c] \in Jobs /\ place[cjob[c]] = "new"
    BY <1>1 DEF PInv, ClientsHold, IInv
  <2>3. PICK R : Lists(R, C, F)'
    BY <2>1, <2>2, SubmitJobLists
  <2> QED
    BY <2>3 DEF ListsHold
<1> QED
  BY <1>3, <1>4 DEF PInv

\* When a client collects, every job in the pool is finished and has its id,
\* and the walk over finishedjobs sees all of them and nothing else.
LEMMA CollectReturnIs ==
    ASSUME PInv, NEW c \in Clients, CollectReturn(c),
           NEW Q, NEW C, NEW F, Lists(Q, C, F)
    PROVE  /\ Q = <<>> /\ C = <<>>
           /\ finishedjobs'.first = NULL /\ finishedjobs'.njobs = 0
           /\ place' = [j \in Jobs |-> IF j \in InPlace("finished") THEN "freed" ELSE place[j]]
           /\ retcode' = [j \in Jobs |-> IF j \in InPlace("finished") THEN SCIP_OKAY
                                         ELSE retcode[j]]
           /\ LET codes == {SCIP_OKAY} \cup {retcode[j] : j \in InPlace("finished")}
              IN \E r \in codes : (\A q \in codes : r <= q) /\ cret' = [cret EXCEPT ![c] = r]
           /\ fault' = "none"
<1> DEFINE s    == Steps(finishedjobs.first)
           seen == {k \in DOMAIN s : s[k] # NULL}
           gone == {j \in Jobs : jobid[j] = cid[c] /\ \E k \in seen : s[k] = j}
           kept == {k \in seen : s[k] \notin gone}
           firstKept(ks) == TheJob({j \in Jobs : \E k \in ks : s[k] = j /\ \A i \in ks : k <= i})
           n == Len(F)
           N == Cardinality(Jobs)
<1>1. cpc[c] = "collect" /\ Scan(cid[c]) = "absent"
  BY DEF CollectReturn
<1>2. Q = <<>> /\ C = <<>>
  BY <1>1, ScanFacts
<1>3. /\ IsList(nextjob, jobqueue, Q) /\ IsList(nextjob, currentjobs, C)
      /\ IsList(nextjob, finishedjobs, F)
      /\ \A j \in Jobs : /\ In(j, Q) <=> place[j] = "queued"
                         /\ In(j, C) <=> place[j] = "running"
                         /\ In(j, F) <=> place[j] = "finished"
      /\ \A k \in 1..n : F[k] \in Jobs /\ place[F[k]] = "finished"
  BY ListFacts DEF PInv, IInv
<1>4. \A j \in Jobs : place[j] \notin {"queued", "running"}
  BY <1>2, <1>3, EmptySeq DEF In
<1>5. n \in Nat /\ n <= N /\ N \in Nat /\ DOMAIN s = 0..N /\ finishedjobs.njobs = n
      /\ Cardinality({F[k] : k \in 1..n}) = n
  BY <1>3, ListLength, ListEnds, StepsAre DEF ListIs
<1>6. \A k \in 1..n : s[k - 1] = F[k]
  BY <1>3, AlongList DEF ListIs
<1>7. s[n] = NULL
  <2>1. Stale(Q, C, F)
    BY DEF Lists
  <2>2. CASE F = <<>>
    BY <1>3, <2>1, <2>2, ListEnds, StepsAre DEF Stale
  <2>3. CASE F # <<>>
    <3>1. n \in 1..n /\ n \in 1..N
      <4>1. n \in 1..n
        BY <1>3, <2>3, ListEnds
      <4> HIDE DEF n, N
      <4> QED
        BY <1>5, <4>1
    <3>2. s[n] = Link(F[n])
      BY <1>6, <3>1, StepsAre
    <3>3. Link(F[n]) = nextjob[F[n]]
      BY <1>3, <3>1, ConstantsAssumption DEF Link
    <3>4. nextjob[F[n]] = NULL
      BY <1>4, <2>1, <2>3 DEF Stale
    <3> QED
      BY <3>2, <3>3, <3>4
  <2> QED
    BY <2>2, <2>3
<1>8. \A k \in n..N : s[k] = NULL
  <2>1. s[n] \in {NULL} /\ \A j \in {NULL} : Link(j) \in {NULL}
    BY <1>7 DEF Link
  <2>2. n \in 0..N
    <3> HIDE DEF n, N
    <3> QED
      BY <1>5
  <2>3. \A k \in n..N : s[k] \in {NULL}
    BY <2>1, <2>2, WalkStays
  <2> QED
    BY <2>3
<1> HIDE DEF s, n, N
<1>9. seen = 0..(n - 1) /\ \A k \in 0..(n - 1) : k + 1 \in 1..n /\ s[k] = F[k + 1]
  <2>1. \A k \in 0..(n - 1) : k + 1 \in 1..n /\ (k + 1) - 1 = k /\ k \in 0..N
    BY <1>5
  <2>2. \A k \in 0..(n - 1) : s[k] = F[k + 1] /\ s[k] # NULL
    BY <1>3, <1>6, <2>1, ConstantsAssumption DEF n
  <2>3. \A k \in 0..N : k \in 0..(n - 1) \/ k \in n..N
    BY <1>5
  <2> QED
    BY <1>5, <1>8, <2>1, <2>2, <2>3
<1> HIDE DEF seen
<1>10. \A j \in Jobs : (\E k \in seen : s[k] = j) <=> In(j, F)
  <2> TAKE j \in Jobs
  <2>1. (\E k \in seen : s[k] = j) => In(j, F)
    BY <1>9 DEF In, n
  <2>2. In(j, F) => \E k \in seen : s[k] = j
    <3> SUFFICES ASSUME NEW i \in 1..n, F[i] = j PROVE \E k \in seen : s[k] = j
      BY DEF In, n
    <3>1. i - 1 \in seen /\ s[i - 1] = j
      BY <1>5, <1>6, <1>9
    <3> QED
      BY <3>1
  <2> QED
    BY <2>1, <2>2
<1>11. \A j \in Jobs : place[j] = "finished" => jobid[j] = cid[c]
  BY <1>1, OnlyOneId DEF Pooled
<1>12. gone = InPlace("finished")
  BY <1>3, <1>10, <1>11 DEF InPlace
<1>13. kept = {}
  <2>1. \A k \in seen : s[k] \in gone
    BY <1>3, <1>9, <1>12 DEF InPlace, n
  <2> QED
    BY <2>1
<1>14. Cardinality(gone) = n
  <2>1. gone = {F[k] : k \in 1..n}
    <3>1. \A x : x \in {F[k] : k \in 1..n} <=> \E k \in 1..n : F[k] = x
      OBVIOUS
    <3>2. \A x : x \in gone <=> x \in Jobs /\ In(x, F)
      BY <1>3, <1>12 DEF InPlace
    <3>3. \A x : In(x, F) => x \in Jobs
      BY <1>3 DEF In, n
    <3>4. \A x : x \in gone <=> x \in {F[k] : k \in 1..n}
      BY <3>1, <3>2, <3>3 DEF In, n
    <3> QED
      BY <3>4
  <2> QED
    BY <1>5, <2>1 DEF n
<1>15. /\ finishedjobs'.first = firstKept(kept)
       /\ finishedjobs'.njobs = finishedjobs.njobs - Cardinality(gone)
  BY DEF CollectReturn, s, seen
<1>16. firstKept(kept) = NULL
  <2>1. {j \in Jobs : \E k \in kept : s[k] = j /\ \A i \in kept : k <= i} = {}
    BY <1>13
  <2> QED
    BY <2>1 DEF TheJob
<1>17. /\ place' = [j \in Jobs |-> IF j \in gone THEN "freed" ELSE place[j]]
       /\ retcode' = [j \in Jobs |-> IF j \in gone THEN SCIP_OKAY ELSE retcode[j]]
       /\ LET codes == {SCIP_OKAY} \cup {retcode[j] : j \in gone}
          IN \E r \in codes : (\A q \in codes : r <= q) /\ cret' = [cret EXCEPT ![c] = r]
       /\ fault' = IF \E k \in seen : place[s[k]] = "freed" THEN "memory" ELSE "none"
  BY DEF CollectReturn, s, seen
<1> HIDE DEF gone, kept, firstKept
<1>18. fault' = "none"
  BY <1>3, <1>9, <1>17 DEF n
<1>19. finishedjobs'.first = NULL /\ finishedjobs'.njobs = 0
  BY <1>5, <1>14, <1>15, <1>16
<1> QED
  BY <1>2, <1>12, <1>17, <1>18, <1>19

\* The lists are empty after a collect.
LEMMA CollectReturnLists ==
    ASSUME PInv, NEW c \in Clients, CollectReturn(c),
           NEW Q, NEW C, NEW F, Lists(Q, C, F)
    PROVE  Lists(<<>>, <<>>, <<>>)'
<1>1. /\ Q = <<>> /\ C = <<>>
      /\ finishedjobs'.first = NULL /\ finishedjobs'.njobs = 0
      /\ place' = [j \in Jobs |-> IF j \in InPlace("finished") THEN "freed" ELSE place[j]]
  BY CollectReturnIs
<1>2. UNCHANGED <<jobqueue, currentjobs>>
  BY DEF CollectReturn
<1>3. jobqueue.njobs = 0 /\ currentjobs.njobs = 0 /\ Stale(<<>>, <<>>, F)
      /\ \A j \in Jobs : place[j] \notin {"queued", "running"}
  <2>1. Lists(<<>>, <<>>, F)
    BY <1>1
  <2>2. \A x : ~In(x, <<>>)
    BY EmptySeq DEF In
  <2> QED
    BY <2>1, <2>2, EmptySeq DEF Lists, ListIs, IsList, Holds
<1>4. \A j \in Jobs : place'[j] \notin {"queued", "running", "finished"}
  BY <1>1, <1>3 DEF InPlace
<1>5. <<>> \in Seq(Jobs) /\ Len(<<>>) = 0
  BY EmptySeq
<1>6. ListIs(jobqueue, <<>>)' /\ ListIs(currentjobs, <<>>)' /\ ListIs(finishedjobs, <<>>)'
  BY <1>1, <1>2, <1>3, <1>5 DEF ListIs, IsList
<1>7. Holds(<<>>, "queued")' /\ Holds(<<>>, "running")' /\ Holds(<<>>, "finished")'
  BY <1>4, <1>5 DEF Holds, In
<1>8. Stale(<<>>, <<>>, <<>>)'
  BY <1>1, <1>2, <1>3 DEF Stale, ToQueue
<1> QED
  BY <1>6, <1>7, <1>8 DEF Lists

\* Freeing the finished jobs of an id keeps it.
LEMMA CollectReturnPInv ==
    ASSUME PInv, IInv', NEW c \in Clients, CollectReturn(c)
    PROVE  PInv'
<1>1. PICK Q, C, F : Lists(Q, C, F)
  BY DEF PInv, ListsHold
<1>2. /\ place' = [j \in Jobs |-> IF j \in InPlace("finished") THEN "freed" ELSE place[j]]
      /\ fault' = "none"
  BY <1>1, CollectReturnIs
<1>3. /\ cpc[c] = "collect"
      /\ openids' = [openids EXCEPT ![c] = @ \ {cid[c]}]
      /\ cid' = [cid EXCEPT ![c] = 0]
      /\ cpc' = [cpc EXCEPT ![c] = "idle"]
      /\ UNCHANGED <<jobid, poolvars, workervars, cjob>>
  BY DEF CollectReturn, Goto
<1>4. ListsHold' /\ \A j \in Jobs : place[j] \notin {"queued", "running"}
  <2>1. Lists(<<>>, <<>>, <<>>)' /\ Lists(<<>>, <<>>, F)
    BY <1>1, CollectReturnLists, CollectReturnIs
  <2> QED
    BY <2>1, EmptySeq DEF ListsHold, Lists, Holds, In
<1>5. \A j \in Jobs : /\ place'[j] \notin {"queued", "running", "finished"}
                      /\ place'[j] = "none" <=> place[j] = "none"
                      /\ place'[j] = "new" <=> place[j] = "new"
  BY <1>2, <1>4 DEF InPlace
<1>6. /\ \A d \in Clients : openids'[d] = {}
      /\ \A j \in Jobs : place[j] # "new"
      /\ \A d \in Clients : d # c => cpc'[d] = cpc[d]
      /\ cpc'[c] = "idle"
  BY <1>3, OnlyOneId DEF PInv, IInv, TypeOK, ClientTypes
<1>7. WorkersHold'
  BY <1>3, <1>4, <1>5, WorkersSame DEF PInv, workervars
<1>8. \A d \in Clients : ~Submits(d)'
  BY <1>3, <1>6 DEF PInv, ClientsHold, Submits
<1>9. ClientsHold'
  BY <1>5, <1>6, <1>8 DEF ClientsHold
<1>10. IdsHold'
  <2>1. \A d \in Clients : cpc'[d] \notin {"collect", "waitfinished"}
    <3> SUFFICES ASSUME NEW d \in Clients, cpc'[d] \in {"collect", "waitfinished"} PROVE FALSE
      OBVIOUS
    <3>1. d # c /\ cid[d] \in openids[d]
      BY <1>6 DEF PInv, IdsHold
    <3> QED
      BY <1>3, <3>1, OnlyOneId
  <2>2. \A j \in Jobs : IF place'[j] = "none" THEN jobid'[j] = 0 ELSE jobid'[j] \in 1..currentid'
    BY <1>3, <1>5 DEF PInv, IdsHold, poolvars
  <2>3. UNCHANGED <<jobid, currentid>>
    BY <1>3 DEF poolvars
  <2> QED
    BY <1>5, <1>6, <2>1, <2>2, <2>3 DEF PInv, IdsHold
<1>11. ClosedHold' /\ NoFault'
  BY <1>2, <1>3, <1>6 DEF PInv, ClosedHold, NoFault, poolvars
<1> QED
  BY <1>4, <1>7, <1>9, <1>10, <1>11 DEF PInv

-----------------------------------------------------------------------------
(* The invariant and what follows from it.                                 *)

\* Every step keeps the invariant when one id is open at a time.
LEMMA NextPInv == ~OverlapIds => (PInv /\ [Next]_vars => PInv')
<1> SUFFICES ASSUME ~OverlapIds, PInv, [Next]_vars PROVE PInv'
  OBVIOUS
<1>1. IInv'
  BY NextIInv DEF PInv
<1>2. CASE \E w \in Workers : WorkerStep(w) \/ WorkerSpuriousWakeup(w)
  BY <1>2, WorkerTakePInv, WorkerFinishPInv, WorkerQuietPInv DEF WorkerStep
<1>3. CASE \E c \in Clients : \/ ClientCall(c) \/ SubmitStep(c) \/ CollectStep(c)
                              \/ ExitStep(c) \/ ClientSpuriousWakeup(c)
  BY <1>1, <1>3, ClientQuietPInv, CreateJobPInv, GetNewJobIDPInv, RejectPInv, SubmitJobPInv,
     CollectReturnPInv DEF ClientCall, SubmitStep, CollectStep
<1>4. CASE UNCHANGED vars
  <2>1. UNCHANGED <<listvars, jobvars, poolvars, workervars, clientvars, fault>>
    BY <1>4 DEF vars
  <2>2. Whereabouts
    BY <2>1, WokenWhere DEF clientvars, poolvars
  <2> QED
    BY <1>1, <2>1, <2>2, QuietPInv
       DEF jobvars, poolvars, workervars, clientvars, PInv, NoFault
<1> QED
  BY <1>2, <1>3, <1>4 DEF Next, Terminated

\* The invariant holds in every state.
LEMMA PInvHolds == ~OverlapIds => (Spec => []PInv)
<1> SUFFICES ASSUME ~OverlapIds PROVE Spec => []PInv
  OBVIOUS
<1>1. PInv /\ [Next]_vars => PInv'
  BY NextPInv
<1> QED
  BY <1>1, InitPInv, PTL DEF Spec

\* The pointers of the three lists are exact whenever one id is open at a time:
\* from firstjob, nextjob leads through exactly the jobs that are queued, running
\* or finished to lastjob, whatever links the jobs kept from the lists they were in
\* before, for any number of workers, clients and jobs.
THEOREM PointersStayExact == ~OverlapIds => (Spec => []PointersExact)
<1> SUFFICES ASSUME ~OverlapIds PROVE Spec => []PointersExact
  OBVIOUS
<1>1. PInv => PointersExact
  BY ListsAreExact DEF PInv
<1> QED
  BY <1>1, PInvHolds, PTL

\* checkJobQueue and SCIPtpiCollectJobs follow no null pointer and look at no
\* freed job when one id is open at a time.
THEOREM ScansAreSafe == ~OverlapIds => (Spec => []NoFault)
<1> SUFFICES ASSUME ~OverlapIds PROVE Spec => []NoFault
  OBVIOUS
<1>1. PInv => NoFault
  BY DEF PInv
<1> QED
  BY <1>1, PInvHolds, PTL

\* Only SCIPtpiCollectJobs ends a collect.
LEMMA CollectEnds ==
    ASSUME PInv, [Next]_vars, NEW c \in Clients, cpc[c] = "collect", cpc'[c] = "idle"
    PROVE  CollectReturn(c)
<1> USE DEF clientvars
<1>1. cpc \in [Clients -> ClientPoints]
  BY DEF PInv, IInv, TypeOK, ClientTypes
<1>2. CASE \E w \in Workers : WorkerStep(w) \/ WorkerSpuriousWakeup(w)
  <2> PICK w \in Workers : WorkerStep(w) \/ WorkerSpuriousWakeup(w)
    BY <1>2
  <2>1. CASE WorkerStart(w) \/ WorkerSleep(w) \/ WorkerExit(w) \/ WorkerSpuriousWakeup(w)
    BY <2>1 DEF WorkerStart, WorkerSleep, WorkerExit, WorkerSpuriousWakeup
  <2>2. CASE WorkerTake(w)
    BY <1>1, <2>2 DEF WorkerTake, ClientsAfterTake, Woken
  <2>3. CASE \E r \in Retcodes : WorkerFinish(w, r)
    BY <1>1, <2>3 DEF WorkerFinish, Woken
  <2> QED
    BY <2>1, <2>2, <2>3 DEF WorkerStep
<1>3. CASE \E d \in Clients : \/ ClientCall(d) \/ SubmitStep(d) \/ CollectStep(d)
                              \/ ExitStep(d) \/ ClientSpuriousWakeup(d)
  <2> PICK d \in Clients : \/ ClientCall(d) \/ SubmitStep(d) \/ CollectStep(d)
                           \/ ExitStep(d) \/ ClientSpuriousWakeup(d)
    BY <1>3
  <2>1. CASE CollectReturn(d)
    <3>1. d = c
      BY <1>1, <2>1 DEF CollectReturn, Goto
    <3> QED
      BY <2>1, <3>1
  <2>2. CASE ClientCall(d)
    BY <1>1, <2>2 DEF ClientCall, GetNewJobID, ExitClose, CreateJob, CollectJobs, Goto
  <2>3. CASE SubmitStep(d)
    BY <1>1, <2>3 DEF SubmitStep, SubmitQueueFull, SubmitSleep, SubmitRejected, SubmitJob,
                      AtSubmitTest, Goto
  <2>4. CASE CollectSleep(d)
    BY <1>1, <2>4 DEF CollectSleep, Goto
  <2>5. CASE ExitStep(d)
    <3>1. CASE ExitWakeSubmitters(d)
      BY <1>1, <3>1 DEF ExitWakeSubmitters, Woken
    <3>2. CASE ExitSleep(d) \/ ExitShutdown(d) \/ ExitWakeWorkers(d) \/ ExitFree(d)
      BY <1>1, <3>2 DEF ExitSleep, ExitShutdown, ExitWakeWorkers, ExitFree, Goto
    <3> QED
      BY <2>5, <3>1, <3>2 DEF ExitStep
  <2>6. CASE ClientSpuriousWakeup(d)
    BY <1>1, <2>6 DEF ClientSpuriousWakeup, Goto
  <2> QED
    BY <2>1, <2>2, <2>3, <2>4, <2>5, <2>6 DEF CollectStep
<1>4. CASE UNCHANGED vars
  BY <1>4 DEF vars
<1> QED
  BY <1>2, <1>3, <1>4 DEF Next, Terminated

\* A collect returns only when every job submitted under the id was executed, takes
\* all of them out of the pool and yields a code no larger than any of theirs, for
\* any number of workers, clients and jobs, when one id is open at a time.
THEOREM CollectsAreComplete == ~OverlapIds => (Spec => CollectComplete)
<1> DEFINE A == \A c \in Clients : (cpc[c] = "collect" /\ cpc'[c] = "idle") =>
                  LET jobs == {j \in Jobs : jobid[j] = cid[c] /\ place[j] \notin {"new", "rejected"}}
                  IN /\ \A j \in jobs : place[j] \in {"finished", "freed"} /\ place'[j] = "freed"
                     /\ cret'[c] <= SCIP_OKAY
                     /\ \A j \in jobs : place[j] = "finished" => cret'[c] <= retcode[j]
<1> SUFFICES ASSUME ~OverlapIds PROVE Spec => CollectComplete
  OBVIOUS
<1>1. PInv /\ [Next]_vars => [A]_vars
  <2> SUFFICES ASSUME PInv, [Next]_vars, NEW c \in Clients, cpc[c] = "collect", cpc'[c] = "idle",
                      NEW x \in Jobs, jobid[x] = cid[c], place[x] \notin {"new", "rejected"}
               PROVE  /\ place[x] \in {"finished", "freed"} /\ place'[x] = "freed"
                      /\ place[x] = "finished" => cret'[c] <= retcode[x]
    <3>1. ASSUME PInv, [Next]_vars, NEW c \in Clients, cpc[c] = "collect", cpc'[c] = "idle"
          PROVE  cret'[c] <= SCIP_OKAY
      <4>1. PICK Q, C, F : Lists(Q, C, F)
        BY <3>1 DEF PInv, ListsHold
      <4> QED
        BY <3>1, <4>1, CollectEnds, CollectReturnIs DEF PInv, IInv, TypeOK, ClientTypes
    <3> QED
      BY <3>1
  <2>1. CollectReturn(c)
    BY CollectEnds
  <2>2. PICK Q, C, F : Lists(Q, C, F)
    BY DEF PInv, ListsHold
  <2>3. /\ Q = <<>> /\ C = <<>>
        /\ place' = [j \in Jobs |-> IF j \in InPlace("finished") THEN "freed" ELSE place[j]]
    BY <2>1, <2>2, CollectReturnIs
  <2>4. place[x] \notin {"queued", "running"}
    <3>1. Holds(<<>>, "queued") /\ Holds(<<>>, "running")
      BY <2>2, <2>3 DEF Lists
    <3> QED
      BY <3>1, EmptySeq DEF Holds, In
  <2>5. place[x] # "none"
    BY OnlyOneId DEF PInv, IdsHold
  <2>6. place[x] \in {"finished", "freed"}
    BY <2>4, <2>5 DEF PInv, IInv, TypeOK, JobTypes, Places
  <2>7. place'[x] = "freed"
    BY <2>3, <2>6 DEF InPlace
  <2>8. place[x] = "finished" => cret'[c] <= retcode[x]
    BY <2>1, <2>2, CollectReturnIs DEF InPlace, PInv, IInv, TypeOK, ClientTypes
  <2> QED
    BY <2>6, <2>7, <2>8
<1> QED
  BY <1>1, PInvHolds, PTL DEF Spec, CollectComplete

-----------------------------------------------------------------------------
(* The pool keeps the promise of JobPool.                                  *)

\* The lists seen from outside are what the invariant says they hold.
LEMMA ListsSeen ==
    \A Q, C, F : Lists(Q, C, F) => /\ Contents(jobqueue) = Q
                                   /\ Members(currentjobs) = InPlace("running")
                                   /\ Members(finishedjobs) = InPlace("finished")
<1> SUFFICES ASSUME NEW Q, NEW C, NEW F, Lists(Q, C, F)
             PROVE  /\ Contents(jobqueue) = Q
                    /\ Members(currentjobs) = InPlace("running")
                    /\ Members(finishedjobs) = InPlace("finished")
  OBVIOUS
<1>1. ListIs(jobqueue, Q) /\ ListsHold
  BY DEF Lists, ListsHold
<1>2. Contents(jobqueue) = Q
  BY <1>1, ContentsIs
<1>3. PointersExact
  BY <1>1, ListsAreExact
<1>4. Members(currentjobs) = {j \in Jobs : place[j] = "running"}
      /\ Members(finishedjobs) = {j \in Jobs : place[j] = "finished"}
  <2>1. <<currentjobs, "running">> \in {<<jobqueue, "queued">>, <<currentjobs, "running">>,
                                        <<finishedjobs, "finished">>}
    OBVIOUS
  <2>2. <<finishedjobs, "finished">> \in {<<jobqueue, "queued">>, <<currentjobs, "running">>,
                                          <<finishedjobs, "finished">>}
    OBVIOUS
  <2> QED
    BY <1>3, <2>1, <2>2 DEF PointersExact
<1> QED
  BY <1>2, <1>4 DEF InPlace

\* What the lists show of a state, said of the next one.
LEMMA ListsSeenNext ==
    \A Q, C, F : Lists(Q, C, F)' => /\ Contents(jobqueue)' = Q
                                    /\ Members(currentjobs)' = InPlace("running")'
                                    /\ Members(finishedjobs)' = InPlace("finished")'
<1>1. (\A Q, C, F : Lists(Q, C, F) => /\ Contents(jobqueue) = Q
                                      /\ Members(currentjobs) = InPlace("running")
                                      /\ Members(finishedjobs) = InPlace("finished"))'
  BY ListsSeen, PTL
<1> QED
  BY <1>1

\* The id an accepted job was submitted under.
Submitted == [j \in Jobs |-> IF place[j] \in {"none", "new", "rejected"} THEN 0 ELSE jobid[j]]

\* A step that moves no job into, within or out of the pool.
LEMMA SeenUnchanged ==
    ASSUME NEW Q, NEW C, NEW F, Lists(Q, C, F), Lists(Q, C, F)',
           \A j \in Jobs : \/ place'[j] = place[j] /\ jobid'[j] = jobid[j]
                           \/ place[j] \in {"none", "new"} /\ place'[j] \in {"new", "rejected"},
           UNCHANGED <<retcode, cret, queueopen, shutdown>>
    PROVE  UNCHANGED Abs!jobpool
<1>1. /\ InPlace("running")' = InPlace("running")
      /\ InPlace("finished")' = InPlace("finished")
      /\ InPlace("freed")' = InPlace("freed")
  BY DEF InPlace
<1>2. Submitted' = Submitted
  BY DEF Submitted
<1>3. /\ Contents(jobqueue)' = Contents(jobqueue)
      /\ Members(currentjobs)' = Members(currentjobs)
      /\ Members(finishedjobs)' = Members(finishedjobs)
  BY <1>1, ListsSeen, ListsSeenNext
<1> QED
  BY <1>1, <1>2, <1>3 DEF Abs!jobpool, Submitted

\* While some worker is idle, fewer jobs run than there are workers.
LEMMA FewRunning ==
    ASSUME PInv, NEW w \in Workers, wpc[w] # "run"
    PROVE  Cardinality(InPlace("running")) < Cardinality(Workers)
<1> DEFINE R == InPlace("running")
           V == {v \in Workers : wpc[v] = "run"}
<1>1. IsFiniteSet(Workers) /\ IsFiniteSet(V) /\ V \subseteq Workers \ {w}
  BY ConstantsAssumption, FS_Subset
<1>2. [v \in V |-> wjob[v]] \in Surjection(V, R)
  <2>1. \A v \in V : wjob[v] \in R
    BY DEF PInv, WorkersHold, IInv, RunningHaveJobs, InPlace
  <2>2. \A j \in R : \E v \in V : wjob[v] = j
    BY DEF PInv, WorkersHold, InPlace
  <2> QED
    BY <2>1, <2>2 DEF Surjection
<1>3. IsFiniteSet(R) /\ Cardinality(R) <= Cardinality(V)
  BY <1>1, <1>2, FS_Surjection
<1>4. Cardinality(Workers \ {w}) = Cardinality(Workers) - 1 /\ IsFiniteSet(Workers \ {w})
  BY <1>1, FS_RemoveElement
<1>5. Cardinality(V) <= Cardinality(Workers \ {w})
  BY <1>1, <1>4, FS_Subset
<1>6. Cardinality(V) \in Nat /\ Cardinality(R) \in Nat /\ Cardinality(Workers) \in Nat
  BY <1>1, <1>3, FS_CardinalityType
<1> QED
  BY <1>3, <1>4, <1>5, <1>6

\* JobPool counts and compares as this module does.
LEMMA SameOperators ==
    /\ \A S : Abs!Cardinality(S) = Cardinality(S)
    /\ \A S : Abs!Min(S) = Min(S)
<1>1. \A S : Abs!Cardinality(S) = Cardinality(S)
  BY DEF Abs!Cardinality, Cardinality
<1>2. \A S : Abs!Min(S) = Min(S)
  BY DEF Abs!Min, Min
<1> QED
  BY <1>1, <1>2

\* A worker that takes a job starts it.
LEMMA TakeIsStart ==
    ASSUME PInv, NEW w \in Workers, WorkerTake(w)
    PROVE  Abs!Start
<1>1. PICK Q, C, F : Lists(Q, C, F)
  BY DEF PInv, ListsHold
<1>2. PICK R, D, job : R = Tail(Q) /\ job = Q[1] /\ D = Append(C, job)
  OBVIOUS
<1>3. /\ Q # <<>> /\ job = jobqueue.first /\ job \in Jobs /\ place[job] = "queued"
      /\ Lists(R, D, F)'
  BY <1>1, <1>2, WorkerTakeLists DEF PInv, IInv
<1>4. /\ wpc[w] = "top" /\ ~shutdown
      /\ place' = [place EXCEPT ![jobqueue.first] = "running"]
      /\ UNCHANGED <<jobid, retcode, queueopen, shutdown, cret>>
  BY DEF WorkerTake, poolvars
<1>5. \A j \in Jobs : place'[j] = IF j = job THEN "running" ELSE place[j]
  BY <1>3, <1>4 DEF PInv, IInv, TypeOK, JobTypes
<1>6. /\ InPlace("running")' = InPlace("running") \cup {job}
      /\ InPlace("finished")' = InPlace("finished")
      /\ InPlace("freed")' = InPlace("freed")
  BY <1>3, <1>5 DEF InPlace
<1>7. Submitted' = Submitted
  BY <1>3, <1>4, <1>5 DEF Submitted
<1>8. /\ Contents(jobqueue) = Q /\ Contents(jobqueue)' = R
      /\ Members(currentjobs) = InPlace("running")
      /\ Members(currentjobs)' = InPlace("running")'
      /\ Members(finishedjobs) = InPlace("finished")
      /\ Members(finishedjobs)' = InPlace("finished")'
  BY <1>1, <1>3, ListsSeen, ListsSeenNext
<1>9. Head(Q) = job
  BY <1>2
<1>10. Abs!Cardinality(Members(currentjobs)) < Cardinality(Workers)
  BY <1>4, <1>8, FewRunning, SameOperators
<1> QED
  BY <1>2, <1>3, <1>4, <1>6, <1>7, <1>8, <1>9, <1>10 DEF Abs!Start, Submitted

\* A worker that has executed a job finishes it.
LEMMA FinishIsFinish ==
    ASSUME PInv, NEW w \in Workers, NEW r \in Retcodes, WorkerFinish(w, r)
    PROVE  \E j \in Jobs : Abs!Finish(j, r)
<1>1. PICK Q, C, F : Lists(Q, C, F)
  BY DEF PInv, ListsHold
<1>2. PICK job : job = wjob[w]
  OBVIOUS
<1>3. /\ wpc[w] = "run"
      /\ place' = [place EXCEPT ![job] = "finished"]
      /\ retcode' = [retcode EXCEPT ![job] = r]
      /\ UNCHANGED <<jobid, queueopen, shutdown, cret>>
  BY <1>2 DEF WorkerFinish, poolvars
<1>4. job \in Jobs /\ place[job] = "running"
  BY <1>2, <1>3 DEF PInv, IInv, RunningHaveJobs, WorkersHold
<1>5. PICK D, G : Lists(Q, D, G)'
  BY <1>1, <1>2, <1>4, WorkerFinishLists DEF PInv, IInv
<1>6. \A j \in Jobs : place'[j] = IF j = job THEN "finished" ELSE place[j]
  BY <1>3, <1>4 DEF PInv, IInv, TypeOK, JobTypes
<1>7. /\ InPlace("running")' = InPlace("running") \ {job}
      /\ InPlace("finished")' = InPlace("finished") \cup {job}
      /\ InPlace("freed")' = InPlace("freed")
      /\ job \in InPlace("running")
  BY <1>4, <1>6 DEF InPlace
<1>8. Submitted' = Submitted
  BY <1>3, <1>4, <1>6 DEF Submitted
<1>9. /\ Contents(jobqueue)' = Contents(jobqueue)
      /\ Members(currentjobs) = InPlace("running")
      /\ Members(currentjobs)' = InPlace("running")'
      /\ Members(finishedjobs) = InPlace("finished")
      /\ Members(finishedjobs)' = InPlace("finished")'
  BY <1>1, <1>5, ListsSeen, ListsSeenNext
<1>10. Abs!Finish(job, r)
  BY <1>2, <1>3, <1>4, <1>7, <1>8, <1>9 DEF Abs!Finish, Submitted
<1> QED
  BY <1>4, <1>10

\* A job that is entered is submitted.
LEMMA SubmitIsSubmit ==
    ASSUME PInv, NEW c \in Clients, SubmitJob(c)
    PROVE  \E j \in Jobs, id \in 1..Abs!Cardinality(Jobs) : Abs!Submit(j, id)
<1>1. PICK Q, C, F : Lists(Q, C, F)
  BY DEF PInv, ListsHold
<1>2. PICK job, id : job = cjob[c] /\ id = jobid[job]
  OBVIOUS
<1>3. /\ Submits(c) /\ queueopen
      /\ place' = [place EXCEPT ![job] = "queued"]
      /\ UNCHANGED <<jobid, retcode, queueopen, shutdown, cret>>
  BY <1>2 DEF SubmitJob, AtSubmitTest, Submits, QueueTakesJobs, poolvars
<1>4. job \in Jobs /\ place[job] = "new" /\ jobid[job] \in 1..currentid
  BY <1>2, <1>3 DEF PInv, ClientsHold, IdsHold
<1>5. id \in 1..Abs!Cardinality(Jobs)
  BY <1>2, <1>4, SameOperators, ConstantsAssumption, FS_CardinalityType
     DEF PInv, IdsHold, IInv, TypeOK, CounterTypes
<1>6. PICK R : R = Append(Q, job) /\ Lists(R, C, F)'
  BY <1>1, <1>2, <1>4, SubmitJobLists DEF PInv, IInv
<1>7. \A j \in Jobs : place'[j] = IF j = job THEN "queued" ELSE place[j]
  BY <1>3, <1>4 DEF PInv, IInv, TypeOK, JobTypes
<1>8. /\ InPlace("running")' = InPlace("running")
      /\ InPlace("finished")' = InPlace("finished")
      /\ InPlace("freed")' = InPlace("freed")
  BY <1>4, <1>7 DEF InPlace
<1>9. Submitted' = [Submitted EXCEPT ![job] = id]
  <2>1. \A j \in Jobs : Submitted'[j] = IF j = job THEN id ELSE Submitted[j]
    BY <1>2, <1>3, <1>7 DEF Submitted
  <2>2. Submitted' = [j \in Jobs |-> Submitted'[j]]
        /\ Submitted = [j \in Jobs |-> Submitted[j]]
    BY DEF Submitted
  <2> HIDE DEF Submitted
  <2>3. Submitted' = [j \in Jobs |-> IF j = job THEN id ELSE Submitted[j]]
    BY <2>1, <2>2
  <2> QED
    BY <2>2, <2>3
<1>10. /\ Contents(jobqueue) = Q /\ Contents(jobqueue)' = R
       /\ Members(currentjobs) = InPlace("running")
       /\ Members(currentjobs)' = InPlace("running")'
       /\ Members(finishedjobs) = InPlace("finished")
       /\ Members(finishedjobs)' = InPlace("finished")'
  BY <1>1, <1>6, ListsSeen, ListsSeenNext
<1>11. job \notin Abs!Accepted
  <2>1. DOMAIN Q = 1..Len(Q)
    <3>1. Q \in Seq(Jobs)
      BY <1>1 DEF Lists, ListIs, IsList
    <3> QED
      BY <3>1, LenProperties
  <2>2. \A k \in 1..Len(Q) : Q[k] # job
    BY <1>1, <1>4, ListFacts DEF PInv, IInv
  <2>3. job \notin InPlace("running") \cup InPlace("finished") \cup InPlace("freed")
    BY <1>4 DEF InPlace
  <2> QED
    BY <1>10, <2>1, <2>2, <2>3 DEF Abs!Accepted
<1>12. Abs!Submit(job, id)
  BY <1>3, <1>6, <1>8, <1>9, <1>10, <1>11 DEF Abs!Submit, Submitted
<1> QED
  BY <1>4, <1>5, <1>12

\* A collect that returns collects all jobs of its id.
LEMMA CollectIsCollect ==
    ASSUME PInv, NEW c \in Clients, CollectReturn(c)
    PROVE  \E id \in 1..Abs!Cardinality(Jobs) : Abs!Collect(c, id)
<1> DEFINE gone == InPlace("finished")
<1>0. PICK id : id = cid[c]
  OBVIOUS
<1>1. PICK Q, C, F : Lists(Q, C, F)
  BY DEF PInv, ListsHold
<1>2. /\ Q = <<>> /\ C = <<>>
      /\ place' = [j \in Jobs |-> IF j \in gone THEN "freed" ELSE place[j]]
      /\ retcode' = [j \in Jobs |-> IF j \in gone THEN SCIP_OKAY ELSE retcode[j]]
  BY <1>1, CollectReturnIs
<1>3. PICK x \in {SCIP_OKAY} \cup {retcode[j] : j \in gone} :
        /\ \A q \in {SCIP_OKAY} \cup {retcode[j] : j \in gone} : x <= q
        /\ cret' = [cret EXCEPT ![c] = x]
  BY <1>1, CollectReturnIs
<1>4. cpc[c] = "collect" /\ UNCHANGED <<jobid, queueopen, shutdown>>
  BY DEF CollectReturn, poolvars
<1>5. /\ id \in 1..Abs!Cardinality(Jobs)
      /\ \A j \in Jobs : place[j] \in Pooled => jobid[j] = id
  <2>1. id \in 1..currentid /\ \A j \in Jobs : place[j] \in Pooled => jobid[j] = id
    BY <1>0, <1>4, OnlyOneId
  <2> QED
    BY <2>1, SameOperators, ConstantsAssumption, FS_CardinalityType
       DEF PInv, IdsHold, IInv, TypeOK, CounterTypes
<1>6. Lists(<<>>, <<>>, <<>>)'
  BY <1>1, CollectReturnLists
<1>7. /\ Contents(jobqueue) = <<>> /\ Contents(jobqueue)' = <<>>
      /\ Members(currentjobs) = InPlace("running")
      /\ Members(currentjobs)' = InPlace("running")'
      /\ Members(finishedjobs) = InPlace("finished")
      /\ Members(finishedjobs)' = InPlace("finished")'
  BY <1>1, <1>2, <1>6, ListsSeen, ListsSeenNext
<1>8. InPlace("running") = {}
  <2>1. Holds(<<>>, "running")
    BY <1>1, <1>2 DEF Lists
  <2> QED
    BY <2>1, EmptySeq DEF Holds, In, InPlace
<1>9. /\ InPlace("running")' = InPlace("running")
      /\ InPlace("finished")' = {}
      /\ InPlace("freed")' = InPlace("freed") \cup gone
      /\ gone \cap InPlace("freed") = {}
  BY <1>2 DEF InPlace
<1>10. Submitted' = Submitted
  BY <1>2, <1>4 DEF Submitted, InPlace
<1>11. Abs!Accepted = gone \cup InPlace("freed")
  <2>1. {(<<>>)[i] : i \in DOMAIN <<>>} = {}
    OBVIOUS
  <2> QED
    BY <1>7, <1>8, <2>1 DEF Abs!Accepted
<1>12. Abs!Batch(id) \ InPlace("freed") = gone
  <2>1. Abs!Batch(id) = {j \in gone \cup InPlace("freed") : Submitted[j] = id}
    BY <1>11 DEF Abs!Batch, Submitted
  <2>2. \A j \in gone : Submitted[j] = id
    BY <1>5 DEF Submitted, InPlace, Pooled
  <2> QED
    BY <1>9, <2>1, <2>2
<1>13. Abs!Min({SCIP_OKAY} \cup {retcode[j] : j \in gone}) = x
  <2>1. \A y \in {SCIP_OKAY} \cup {retcode[j] : j \in gone} : y \in Int
    BY DEF PInv, IInv, TypeOK, JobTypes, InPlace, SCIP_OKAY
  <2>2. PICK codes : codes = {SCIP_OKAY} \cup {retcode[j] : j \in gone}
    OBVIOUS
  <2>3. x \in codes /\ (\A y \in codes : y \in Int) /\ (\A q \in codes : x <= q)
    BY <1>3, <2>1, <2>2
  <2>4. Min(codes) = x
    BY <2>3 DEF Min
  <2> QED
    BY <2>2, <2>4, SameOperators
<1>14. Abs!Collect(c, id)
  BY <1>2, <1>3, <1>4, <1>7, <1>9, <1>10, <1>12, <1>13, ZenonT(60) DEF Abs!Collect, Submitted
<1> QED
  BY <1>5, <1>14

\* The other steps: the pool is closed or stopped, or nothing is seen of them.
LEMMA QuietIsUnseen ==
    ASSUME PInv, UNCHANGED <<listvars, place, jobid, retcode, cret, queueopen, shutdown>>
    PROVE  UNCHANGED Abs!jobpool
<1>1. PICK Q, C, F : Lists(Q, C, F)
  BY DEF PInv, ListsHold
<1>2. Lists(Q, C, F)'
  BY <1>1, ListsStay DEF listvars
<1> QED
  BY <1>1, <1>2, SeenUnchanged

\* Waiting for room, being rejected and making a job change nothing that is promised.
LEMMA PreparationIsUnseen ==
    ASSUME PInv, NEW c \in Clients,
           SubmitQueueFull(c) \/ SubmitRejected(c) \/ \E j \in Jobs : CreateJob(c, j)
    PROVE  UNCHANGED Abs!jobpool
<1>1. PICK Q, C, F : Lists(Q, C, F)
  BY DEF PInv, ListsHold
<1>2. PICK j \in Jobs :
        /\ \/ place[j] = "none" /\ place' = [place EXCEPT ![j] = "new"]
           \/ place[j] = "new" /\ place' = [place EXCEPT ![j] = "rejected"]
        /\ \A i \in Jobs : i # j => nextjob'[i] = nextjob[i] /\ jobid'[i] = jobid[i]
        /\ UNCHANGED <<jobqueue, currentjobs, finishedjobs, retcode, cret, queueopen, shutdown>>
  <2>1. CASE \E j \in Jobs : CreateJob(c, j)
    BY <2>1 DEF CreateJob, poolvars, PInv, IInv, TypeOK, ListTypes, JobTypes
  <2>2. CASE SubmitQueueFull(c) \/ SubmitRejected(c)
    <3>1. Submits(c)
      BY <2>2 DEF SubmitQueueFull, SubmitRejected, AtSubmitTest, Submits
    <3>2. cjob[c] \in Jobs /\ place[cjob[c]] = "new"
      BY <3>1 DEF PInv, ClientsHold
    <3> QED
      BY <2>2, <3>2 DEF SubmitQueueFull, SubmitRejected, listvars, poolvars
  <2> QED
    BY <2>1, <2>2
<1>3. \A i \in Jobs : i # j => place'[i] = place[i]
  BY <1>2 DEF PInv, IInv, TypeOK, JobTypes
<1>4. place[j] \in {"none", "new"} /\ place'[j] \in {"new", "rejected"}
  BY <1>2 DEF PInv, IInv, TypeOK, JobTypes
<1>5. Lists(Q, C, F)'
  <2>1. \A i \in Jobs : place[i] \in Pooled => nextjob'[i] = nextjob[i]
    BY <1>2, <1>4 DEF Pooled
  <2>2. \A i \in Jobs : place[i] \in Pooled \/ place'[i] \in Pooled => place'[i] = place[i]
    BY <1>3, <1>4 DEF Pooled
  <2> QED
    BY <1>1, <1>2, <2>1, <2>2, ListsStay
<1> QED
  BY <1>1, <1>2, <1>3, <1>4, <1>5, SeenUnchanged

\* Closing and stopping the pool are what the promise says of them.
LEMMA ExitIsSeen ==
    ASSUME PInv, NEW c \in Clients
    PROVE  /\ ExitClose(c) => Abs!Close
           /\ ExitShutdown(c) => Abs!Stop \/ UNCHANGED Abs!jobpool
<1>1. PICK Q, C, F : Lists(Q, C, F)
  BY DEF PInv, ListsHold
<1>2. ASSUME UNCHANGED <<listvars, jobvars, clientvars, cret>> \/
             UNCHANGED <<listvars, jobvars, cret>>
      PROVE  /\ UNCHANGED <<Contents(jobqueue), Members(currentjobs), Members(finishedjobs),
                            InPlace("freed"), Submitted, retcode, cret>>
  <2>1. Lists(Q, C, F)'
    BY <1>1, <1>2, ListsStay DEF listvars, jobvars
  <2>2. UNCHANGED <<InPlace("running"), InPlace("finished"), InPlace("freed"), Submitted>>
    BY <1>2 DEF jobvars, InPlace, Submitted
  <2> QED
    BY <1>1, <1>2, <2>1, <2>2, ListsSeen, ListsSeenNext DEF jobvars
<1>3. ASSUME ExitClose(c) PROVE Abs!Close
  BY <1>2, <1>3 DEF ExitClose, Abs!Close, Submitted
<1>4. ASSUME ExitShutdown(c) PROVE Abs!Stop \/ UNCHANGED Abs!jobpool
  <2>1. UNCHANGED <<listvars, jobvars, cret, queueopen>> /\ shutdown' = TRUE
    BY <1>4 DEF ExitShutdown
  <2>2. ~queueopen
    BY <1>4 DEF ExitShutdown, PInv, ClosedHold
  <2>3. Contents(jobqueue) = <<>>
    <3>1. jobqueue.njobs = 0
      BY <1>4 DEF ExitShutdown, PInv, IInv, TypeOK, ListTypes
    <3> QED
      BY <3>1 DEF Contents
  <2>4. CASE shutdown
    BY <2>1, <2>4, QuietIsUnseen DEF jobvars, PInv, IInv, TypeOK, FlagTypes
  <2>5. CASE ~shutdown
    BY <1>2, <2>1, <2>2, <2>3, <2>5 DEF Abs!Stop, Submitted
  <2> QED
    BY <2>4, <2>5
<1> QED
  BY <1>3, <1>4

\* Every step of the pool is one of the promise or is not seen.
LEMMA NextIsSeen ==
    ASSUME PInv, [Next]_vars
    PROVE  [Abs!Next]_(Abs!jobpool)
<1>1. CASE \E w \in Workers : WorkerStep(w) \/ WorkerSpuriousWakeup(w)
  <2> PICK w \in Workers : WorkerStep(w) \/ WorkerSpuriousWakeup(w)
    BY <1>1
  <2>1. CASE WorkerTake(w)
    BY <2>1, TakeIsStart DEF Abs!Next
  <2>2. CASE \E r \in Retcodes : WorkerFinish(w, r)
    BY <2>2, FinishIsFinish DEF Abs!Next
  <2>3. CASE WorkerStart(w) \/ WorkerSleep(w) \/ WorkerExit(w) \/ WorkerSpuriousWakeup(w)
    BY <2>3, QuietIsUnseen DEF WorkerStart, WorkerSleep, WorkerExit, WorkerSpuriousWakeup,
                               jobvars, poolvars, clientvars
  <2> QED
    BY <2>1, <2>2, <2>3 DEF WorkerStep
<1>2. CASE \E c \in Clients : \/ ClientCall(c) \/ SubmitStep(c) \/ CollectStep(c)
                              \/ ExitStep(c) \/ ClientSpuriousWakeup(c)
  <2> PICK c \in Clients : \/ ClientCall(c) \/ SubmitStep(c) \/ CollectStep(c)
                           \/ ExitStep(c) \/ ClientSpuriousWakeup(c)
    BY <1>2
  <2>1. CASE SubmitJob(c)
    BY <2>1, SubmitIsSubmit DEF Abs!Next
  <2>2. CASE CollectReturn(c)
    BY <2>2, CollectIsCollect DEF Abs!Next
  <2>3. CASE SubmitQueueFull(c) \/ SubmitRejected(c) \/ \E j \in Jobs : CreateJob(c, j)
    BY <2>3, PreparationIsUnseen
  <2>4. CASE ExitClose(c) \/ ExitShutdown(c)
    BY <2>4, ExitIsSeen DEF Abs!Next
  <2>5. CASE \/ GetNewJobID(c) \/ SubmitSleep(c) \/ CollectSleep(c) \/ ClientSpuriousWakeup(c)
             \/ \E id \in openids[c] : CollectJobs(c, id)
    BY <2>5, QuietIsUnseen DEF GetNewJobID, SubmitSleep, CollectSleep, ClientSpuriousWakeup,
                               CollectJobs, jobvars, poolvars
  <2>6. CASE ExitSleep(c) \/ ExitWakeWorkers(c) \/ ExitWakeSubmitters(c) \/ ExitFree(c)
    BY <2>6, QuietIsUnseen DEF ExitSleep, ExitWakeWorkers, ExitWakeSubmitters, ExitFree,
                               jobvars, poolvars
  <2> QED
    BY <2>1, <2>2, <2>3, <2>4, <2>5, <2>6 DEF ClientCall, SubmitStep, CollectStep, ExitStep
<1>3. CASE UNCHANGED vars
  BY <1>3, QuietIsUnseen DEF vars, jobvars, poolvars, clientvars
<1> QED
  BY <1>1, <1>2, <1>3 DEF Next, Terminated

\* The pool keeps every safety promise of tpi.h that JobPool states, for any number
\* of workers, clients and jobs and any queue size, when one id is open at a time:
\* jobs are started in the order of their submission, each by one thread and once, a
\* collect takes away the jobs of its id when all were executed and yields the
\* smallest of their codes, and a closed pool takes none and abandons none.
THEOREM PoolKeepsPromise == ~OverlapIds => (Spec => Abs!Init /\ [][Abs!Next]_(Abs!jobpool))
<1> SUFFICES ASSUME ~OverlapIds PROVE Spec => Abs!Init /\ [][Abs!Next]_(Abs!jobpool)
  OBVIOUS
<1>1. Init => Abs!Init
  <2> SUFFICES ASSUME Init PROVE Abs!Init
    OBVIOUS
  <2>1. Contents(jobqueue) = <<>> /\ Members(currentjobs) = {} /\ Members(finishedjobs) = {}
    BY DEF Init, Contents, Members, EmptyList
  <2>2. InPlace("freed") = {}
    BY DEF Init, InPlace
  <2> QED
    BY <2>1, <2>2 DEF Init, Abs!Init
<1>2. PInv /\ [Next]_vars => [Abs!Next]_(Abs!jobpool)
  BY NextIsSeen
<1> QED
  BY <1>1, <1>2, PInvHolds, PTL DEF Spec
=============================================================================
