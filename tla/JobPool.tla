------------------------------ MODULE JobPool ------------------------------
(***************************************************************************)
(* What scip/src/tpi/tpi.h promises of a pool of threads, without lists,   *)
(* locks or conditions: submitted jobs are started in the order of their   *)
(* submission, each by one thread and once; collecting an id takes away    *)
(* the jobs of that id, when none of them is still to run, and yields the  *)
(* smallest of their codes; a closed pool accepts nothing, and stops only  *)
(* when nothing accepted is left to start.                                 *)
(***************************************************************************)
EXTENDS Integers, Sequences, FiniteSets, FiniteSetsExt

CONSTANTS Jobs, Clients, NumWorkers, Retcodes, OKAY

VARIABLES pending,   \* the accepted jobs no worker has started, oldest first
          running,   \* the jobs being executed
          ended,     \* the executed jobs that were not collected
          taken,     \* the collected jobs
          batch,     \* the id each accepted job was submitted under
          code,      \* the return code of each job in ended
          answer,    \* the last answer of a collect, by client
          open, stopped

jobpool == <<pending, running, ended, taken, batch, code, answer, open, stopped>>

Accepted == {pending[i] : i \in DOMAIN pending} \cup running \cup ended \cup taken

Init ==
    /\ pending = <<>> /\ running = {} /\ ended = {} /\ taken = {}
    /\ batch = [j \in Jobs |-> 0]
    /\ code = [j \in Jobs |-> OKAY]
    /\ answer = [c \in Clients |-> OKAY]
    /\ open = TRUE /\ stopped = FALSE

Submit(j, id) ==
    /\ open
    /\ j \notin Accepted
    /\ pending' = Append(pending, j)
    /\ batch' = [batch EXCEPT ![j] = id]
    /\ UNCHANGED <<running, ended, taken, code, answer, open, stopped>>

Start ==
    /\ pending # <<>> /\ ~stopped
    /\ Cardinality(running) < NumWorkers
    /\ running' = running \cup {Head(pending)}
    /\ pending' = Tail(pending)
    /\ UNCHANGED <<ended, taken, batch, code, answer, open, stopped>>

Finish(j, r) ==
    /\ j \in running
    /\ running' = running \ {j}
    /\ ended' = ended \cup {j}
    /\ code' = [code EXCEPT ![j] = r]
    /\ UNCHANGED <<pending, taken, batch, answer, open, stopped>>

Batch(id) == {j \in Accepted : batch[j] = id}

Collect(c, id) ==
    LET jobs == Batch(id) \ taken
    IN /\ jobs \subseteq ended
       /\ ended' = ended \ jobs
       /\ taken' = taken \cup jobs
       /\ answer' = [answer EXCEPT ![c] = Min({OKAY} \cup {code[j] : j \in jobs})]
       /\ code' = [j \in Jobs |-> IF j \in jobs THEN OKAY ELSE code[j]]
       /\ UNCHANGED <<pending, running, batch, open, stopped>>

Close ==
    /\ open
    /\ open' = FALSE
    /\ UNCHANGED <<pending, running, ended, taken, batch, code, answer, stopped>>

Stop ==
    /\ ~open /\ ~stopped
    /\ pending = <<>>
    /\ stopped' = TRUE
    /\ UNCHANGED <<pending, running, ended, taken, batch, code, answer, open>>

Next ==
    \/ Start \/ Close \/ Stop
    \/ \E j \in Jobs, id \in 1..Cardinality(Jobs) : Submit(j, id)
    \/ \E j \in Jobs, r \in Retcodes : Finish(j, r)
    \/ \E c \in Clients, id \in 1..Cardinality(Jobs) : Collect(c, id)

\* Accepted work gets done.
Fairness == WF_jobpool(Start) /\ \A j \in Jobs : WF_jobpool(\E r \in Retcodes : Finish(j, r))

Spec == Init /\ [][Next]_jobpool /\ Fairness
=============================================================================
