--------------------------------- MODULE Jobs ---------------------------------
(***************************************************************************)
(* Asynchronous jobs: a request stores a job and hands its task to Celery  *)
(* before it commits; a worker runs the task in one transaction under the  *)
(* job's row lock. Tasks are acknowledged late: a lost worker's task is    *)
(* delivered again, a task that raised is not.                             *)
(***************************************************************************)
EXTENDS Naturals, FiniteSets

CONSTANTS
  JobIds,
  Workers,
  MaxLost,       \* bound: workers lost
  MaxDuplicates, \* bound: tasks the broker delivers twice
  MaxFailures    \* bound: tasks whose work raises

\* What the constants must satisfy.
JobAssumption == MaxLost \in Nat /\ MaxDuplicates \in Nat /\ MaxFailures \in Nat

VARIABLES
  job,      \* jobs: none, creating (not committed), queued, succeeded, undone
  result,   \* jobs.result, as the reference of the stored export
  exports,  \* references drawn by put_export
  tasks,    \* per job, deliveries waiting in the broker
  worker,
  lost, duplicates, failures,
  early,    \* history: jobs whose task ran before the commit
  raised    \* history: jobs whose work raised

vars == <<job, result, exports, tasks, worker, lost, duplicates, failures, early, raised>>
bounds == <<lost, duplicates, failures>>

Idle == [at |-> "idle"]
Busy == [at : {"taken", "working", "done"}, job : JobIds, ref : Nat]

Init ==
  /\ job = [j \in JobIds |-> "none"]
  /\ result = [j \in JobIds |-> 0]
  /\ exports = 0
  /\ tasks = [j \in JobIds |-> 0]
  /\ worker = [w \in Workers |-> Idle]
  /\ lost = 0 /\ duplicates = 0 /\ failures = 0
  /\ early = {} /\ raised = {}

-----------------------------------------------------------------------------
(* POST /contacts/{id}/export and POST /campaigns/sync.                    *)

RequestJob(j) ==
  /\ job[j] = "none"
  /\ job' = [job EXCEPT ![j] = "creating"]
  /\ tasks' = [tasks EXCEPT ![j] = 1]
  /\ UNCHANGED <<result, exports, worker, bounds, early, raised>>

RequestCommits(j) ==
  /\ job[j] = "creating"
  /\ job' = [job EXCEPT ![j] = "queued"]
  /\ UNCHANGED <<result, exports, tasks, worker, bounds, early, raised>>

\* The audit event or the commit fails; the task stays with the broker.
RequestUndone(j) ==
  /\ job[j] = "creating"
  /\ job' = [job EXCEPT ![j] = "undone"]
  /\ UNCHANGED <<result, exports, tasks, worker, bounds, early, raised>>

-----------------------------------------------------------------------------
(* Celery.                                                                 *)

Take(w, j) ==
  /\ worker[w] = Idle /\ tasks[j] > 0
  /\ tasks' = [tasks EXCEPT ![j] = @ - 1]
  /\ worker' = [worker EXCEPT ![w] = [at |-> "taken", job |-> j, ref |-> 0]]
  /\ UNCHANGED <<job, result, exports, bounds, early, raised>>

\* The broker gives a task that is not acknowledged to a second worker.
Duplicate(w) ==
  /\ worker[w] # Idle
  /\ duplicates < MaxDuplicates
  /\ duplicates' = duplicates + 1
  /\ tasks' = [tasks EXCEPT ![worker[w].job] = @ + 1]
  /\ UNCHANGED <<job, result, exports, worker, lost, failures, early, raised>>

\* Mutant: the task is acknowledged when it is taken.
ReturnedNever(j) == tasks

\* task_acks_late and task_reject_on_worker_lost.
Returned(j) == [tasks EXCEPT ![j] = @ + 1]

WorkerLost(w) ==
  /\ worker[w] # Idle
  /\ lost < MaxLost
  /\ lost' = lost + 1
  /\ tasks' = Returned(worker[w].job)
  /\ worker' = [worker EXCEPT ![w] = Idle]
  /\ UNCHANGED <<job, result, exports, duplicates, failures, early, raised>>

-----------------------------------------------------------------------------
(* run_job.                                                                *)

Locked(j) == \E w \in Workers : worker[w].at = "working" /\ worker[w].job = j

\* Mutant: a job that has succeeded is run again.
RunnableAlways(j) == job[j] \in {"queued", "succeeded"}

Runnable(j) == job[j] = "queued"

\* JOB_NOT_FOUND or JOB_NOT_RUNNABLE: the task raises and is acknowledged.
Refuse(w) ==
  LET j == worker[w].job
  IN /\ worker[w].at = "taken" /\ ~Runnable(j) /\ ~Locked(j)
     /\ early' = IF job[j] = "creating" THEN early \cup {j} ELSE early
     /\ worker' = [worker EXCEPT ![w] = Idle]
     /\ UNCHANGED <<job, result, exports, tasks, bounds, raised>>

Begin(w) ==
  LET j == worker[w].job
  IN /\ worker[w].at = "taken" /\ Runnable(j) /\ ~Locked(j)
     /\ exports' = exports + 1
     /\ worker' = [worker EXCEPT ![w].at = "working", ![w].ref = exports + 1]
     /\ UNCHANGED <<job, result, tasks, bounds, early, raised>>

\* The status "failed" is flushed, and then undone with the transaction.
WorkRaises(w) ==
  /\ worker[w].at = "working"
  /\ failures < MaxFailures
  /\ failures' = failures + 1
  /\ raised' = raised \cup {worker[w].job}
  /\ worker' = [worker EXCEPT ![w] = Idle]
  /\ UNCHANGED <<job, result, exports, tasks, lost, duplicates, early>>

Reference(w) == worker[w].ref

Succeed(w) ==
  LET j == worker[w].job
  IN /\ worker[w].at = "working"
     /\ job' = [job EXCEPT ![j] = "succeeded"]
     /\ result' = [result EXCEPT ![j] = Reference(w)]
     /\ worker' = [worker EXCEPT ![w].at = "done"]
     /\ UNCHANGED <<exports, tasks, bounds, early, raised>>

Acknowledge(w) ==
  /\ worker[w].at = "done"
  /\ worker' = [worker EXCEPT ![w] = Idle]
  /\ UNCHANGED <<job, result, exports, tasks, bounds, early, raised>>

Work(w) == \/ \E j \in JobIds : Take(w, j)
           \/ Refuse(w) \/ Begin(w) \/ Succeed(w) \/ Acknowledge(w)

Next ==
  \/ \E j \in JobIds : RequestJob(j) \/ RequestCommits(j) \/ RequestUndone(j)
  \/ \E w \in Workers : Work(w) \/ Duplicate(w) \/ WorkerLost(w) \/ WorkRaises(w)

\* Workers go on, and an open request ends.
Spec ==
  /\ Init /\ [][Next]_vars
  /\ \A w \in Workers : WF_vars(Work(w))
  /\ \A j \in JobIds : WF_vars(RequestCommits(j) \/ RequestUndone(j))

-----------------------------------------------------------------------------
\* Jobs, deliveries and workers have their types.
TypeOK ==
  /\ job \in [JobIds -> {"none", "creating", "queued", "succeeded", "undone"}]
  /\ result \in [JobIds -> 0 .. exports] /\ exports \in Nat
  /\ tasks \in [JobIds -> 0 .. 1 + MaxLost + MaxDuplicates]
  /\ worker \in [Workers -> {Idle} \cup Busy]
  /\ lost \in 0 .. MaxLost /\ duplicates \in 0 .. MaxDuplicates
  /\ failures \in 0 .. MaxFailures
  /\ early \cup raised \subseteq JobIds

\* What GET /jobs shows as the result of a finished job never changes, though
\* its task is delivered again, to two workers at once or after a loss.
ResultIsFinal ==
  [][\A j \in JobIds : job[j] = "succeeded" =>
       job'[j] = "succeeded" /\ result'[j] = result[j]]_vars

\* Every committed job succeeds in the end, unless its work raised, or its task
\* was taken before the request committed: then it shows "queued" for ever.
JobSettles ==
  \A j \in JobIds : (job[j] = "queued") ~> (job[j] = "succeeded" \/ j \in early \cup raised)
=============================================================================
