----------------------------- MODULE JobPipeline -----------------------------
(***************************************************************************)
(* The job queue of the geo service: the tables jobs and job_steps         *)
(* (jobs/store.py), the runner of one step (jobs/pipeline.py), the Celery  *)
(* task that runs a step and puts itself back on the queue                 *)
(* (tasks/pipeline_tasks.py) and the two clients that start a chain of     *)
(* such tasks: POST /jobs (api/app.py) and an operator who calls           *)
(* store.retry_failed_step and enqueue_job, as the tests do.               *)
(*                                                                         *)
(* Every connection is opened with autocommit=True, so each SQL statement  *)
(* is a transaction of its own: an action below executes at most one       *)
(* statement that another process can observe, and everything between two  *)
(* statements may interleave or be cut short by a crash.                   *)
(*                                                                         *)
(* The broker delivers with Celery's default early acknowledgement (the    *)
(* application never sets acks_late): a message is gone once a worker      *)
(* takes it.  A message that waits unacknowledged past the transport's     *)
(* visibility timeout is delivered again: Redeliver.                       *)
(***************************************************************************)
EXTENDS JobStatus, Sequences

CONSTANTS
  Jobs,           \* job ids
  N,              \* length of DEFAULT_STEP_NAMES
  Workers,        \* Celery worker processes
  Clients,        \* API request handlers and operator consoles
  NoJob,          \* not a job id
  Careful,        \* operators start a chain only on a job that has none
  MaxCrashes,     \* bounds of the model: processes killed,
  MaxRedeliveries,\* messages delivered again,
  MaxCalls        \* operator calls

ASSUME StepsAssumption == N \in Nat \ {0}
ASSUME ProcsAssumption == Workers \cap Clients = {}
ASSUME NoJobAssumption == NoJob \notin Jobs
ASSUME CarefulAssumption == Careful \in BOOLEAN

Steps == 1..N
Procs == Workers \cup Clients

VARIABLES
  stepStatus,   \* job_steps.status
  results,      \* the steps whose job_steps.result is not NULL
  jobStatus,    \* jobs.status
  owned,        \* job_ownership: the jobs that have an owner
  notices,      \* per job, the completion notices _notify_job_completion issued
  queue,        \* per job, the run_job_step messages in the broker
  pc,           \* per process, the statement it is about to execute
  at,           \* per process, the job it works on
  cur,          \* per process, the step it works on
  seen,         \* per process, the status it read or computed last
  then,         \* per process, where _recompute_job_status returns to
  spent         \* how often each bounded event has happened

tables  == <<stepStatus, results, jobStatus, owned, notices>>
locals  == <<pc, at, cur, seen, then>>
vars    == <<tables, queue, locals, spent>>

PCs == {"idle", "insert", "own", "enqueue", "poll", "pick", "start", "derive",
        "store", "exec", "check", "notify", "reset"}

\* The invariant of the types: what each column and each local may hold.
TypeOK ==
  /\ stepStatus \in [Jobs -> [Steps -> StatusOrAbsent]]
  /\ results \in [Jobs -> SUBSET Steps]
  /\ jobStatus \in [Jobs -> StatusOrAbsent]
  /\ owned \in SUBSET Jobs
  /\ notices \in [Jobs -> Seq(Terminal)]
  /\ queue \in [Jobs -> Nat]
  /\ pc \in [Procs -> PCs]
  /\ at \in [Procs -> Jobs \cup {NoJob}]
  /\ cur \in [Procs -> Steps \cup {0}]
  /\ seen \in [Procs -> StatusOrAbsent]
  /\ then \in [Procs -> PCs]
  /\ spent \in [{"crash", "redeliver", "call"} -> Nat]

Init ==
  /\ stepStatus = [j \in Jobs |-> [k \in Steps |-> "absent"]]
  /\ results = [j \in Jobs |-> {}]
  /\ jobStatus = [j \in Jobs |-> "absent"]
  /\ owned = {}
  /\ notices = [j \in Jobs |-> <<>>]
  /\ queue = [j \in Jobs |-> 0]
  /\ pc = [p \in Procs |-> "idle"]
  /\ at = [p \in Procs |-> NoJob]
  /\ cur = [p \in Procs |-> 0]
  /\ seen = [p \in Procs |-> "absent"]
  /\ then = [p \in Procs |-> "idle"]
  /\ spent = [e \in {"crash", "redeliver", "call"} |-> 0]
-----------------------------------------------------------------------------
\* Somebody works on job j.
Busy(j) == \E p \in Procs : at[p] = j

\* No chain of tasks is alive for job j: nobody works on it and no message waits.
ChainFree(j) == queue[j] = 0 /\ ~Busy(j)

Goto(p, label) == pc' = [pc EXCEPT ![p] = label]

\* Process p returns; its locals are forgotten.
Return(p) ==
  /\ pc' = [pc EXCEPT ![p] = "idle"]
  /\ at' = [at EXCEPT ![p] = NoJob]
  /\ cur' = [cur EXCEPT ![p] = 0]
  /\ seen' = [seen EXCEPT ![p] = "absent"]
  /\ then' = [then EXCEPT ![p] = "idle"]

\* UPDATE job_steps SET status = s ... WHERE job_id = at[p] AND step_name = cur[p],
\* followed by _recompute_job_status, which continues at label next.
SetStep(p, s, next) ==
  /\ stepStatus' = [stepStatus EXCEPT ![at[p]][cur[p]] = s]
  /\ pc' = [pc EXCEPT ![p] = "derive"]
  /\ then' = [then EXCEPT ![p] = next]
-----------------------------------------------------------------------------
(* POST /jobs: create_job, record_job_ownership, enqueue_job.              *)

\* INSERT INTO jobs.
CreateJob(c, j) ==
  /\ pc[c] = "idle"
  /\ jobStatus[j] = "absent"
  /\ jobStatus' = [jobStatus EXCEPT ![j] = "pending"]
  /\ at' = [at EXCEPT ![c] = j]
  /\ cur' = [cur EXCEPT ![c] = 1]
  /\ Goto(c, "insert")
  /\ UNCHANGED <<stepStatus, results, owned, notices, queue, seen, then, spent>>

\* INSERT INTO job_steps, one statement per step.  The anonymous endpoint
\* (POST /api/jobs) goes on without recording an owner.
InsertStep(c) ==
  /\ pc[c] = "insert"
  /\ stepStatus' = [stepStatus EXCEPT ![at[c]][cur[c]] = "pending"]
  /\ \/ /\ cur[c] < N
        /\ cur' = [cur EXCEPT ![c] = @ + 1]
        /\ pc' = pc
     \/ /\ cur[c] = N
        /\ cur' = cur
        /\ \/ Goto(c, "own")
           \/ Goto(c, "enqueue")
  /\ UNCHANGED <<results, jobStatus, owned, notices, queue, at, seen, then, spent>>

\* INSERT INTO job_ownership.
RecordOwner(c) ==
  /\ pc[c] = "own"
  /\ owned' = owned \cup {at[c]}
  /\ Goto(c, "enqueue")
  /\ UNCHANGED <<stepStatus, results, jobStatus, notices, queue, at, cur, seen,
                 then, spent>>

\* run_job_step_task.delay(job_id), called by a client or by a worker whose job
\* still runs.
Enqueue(p) ==
  /\ pc[p] = "enqueue"
  /\ queue' = [queue EXCEPT ![at[p]] = @ + 1]
  /\ Return(p)
  /\ UNCHANGED <<tables, spent>>
-----------------------------------------------------------------------------
(* An operator's console.  The id of a job is known once create_job has     *)
(* returned or its handler has died; Careful operators also wait until the  *)
(* job's chain has ended.                                                   *)

Operable(j) ==
  /\ jobStatus[j] # "absent"
  /\ \A p \in Procs : at[p] = j => pc[p] \notin {"insert", "own"}
  /\ Careful => ChainFree(j)
  /\ spent["call"] < MaxCalls

CountCall == spent' = [spent EXCEPT !["call"] = @ + 1]

\* enqueue_job(job_id) alone.
Resume(c, j) ==
  /\ pc[c] = "idle"
  /\ Operable(j)
  /\ at' = [at EXCEPT ![c] = j]
  /\ Goto(c, "enqueue")
  /\ CountCall
  /\ UNCHANGED <<tables, queue, cur, seen, then>>

\* retry_failed_step(job_id): it finds the first failed step, or raises
\* ValueError and changes nothing; then enqueue_job.
Retry(c, j) ==
  /\ pc[c] = "idle"
  /\ Operable(j)
  /\ \E k \in Steps :
       /\ IsFirst(k, FailedSteps(stepStatus[j]))
       /\ cur' = [cur EXCEPT ![c] = k]
  /\ at' = [at EXCEPT ![c] = j]
  /\ Goto(c, "reset")
  /\ CountCall
  /\ UNCHANGED <<tables, queue, seen, then>>

\* Mutant: retry_failed_step forgets _recompute_job_status.
ResetStepOnly(c) ==
  /\ pc[c] = "reset"
  /\ stepStatus' = [stepStatus EXCEPT ![at[c]][cur[c]] = "pending"]
  /\ Goto(c, "enqueue")
  /\ UNCHANGED <<results, jobStatus, owned, notices, queue, at, cur, seen, then, spent>>

ResetStep(c) ==
  /\ pc[c] = "reset"
  /\ SetStep(c, "pending", "enqueue")
  /\ UNCHANGED <<results, jobStatus, owned, notices, queue, at, cur, seen, spent>>
-----------------------------------------------------------------------------
(* run_job_step_task.                                                      *)

\* Mutant: the message stays with the broker until the task has ended.
TakeUnacknowledged(w, j) ==
  /\ pc[w] = "idle"
  /\ queue[j] > 0
  /\ at' = [at EXCEPT ![w] = j]
  /\ Goto(w, "poll")
  /\ UNCHANGED <<tables, queue, cur, seen, then, spent>>

\* The worker takes a message, acknowledging it.
Take(w, j) ==
  /\ pc[w] = "idle"
  /\ queue[j] > 0
  /\ queue' = [queue EXCEPT ![j] = @ - 1]
  /\ at' = [at EXCEPT ![w] = j]
  /\ Goto(w, "poll")
  /\ UNCHANGED <<tables, cur, seen, then, spent>>

\* Mutant: a task that finds the job ended notifies the owner before it returns.
PollJobNotifies(w) ==
  /\ pc[w] = "poll"
  /\ \/ /\ jobStatus[at[w]] \in Terminal
        /\ seen' = [seen EXCEPT ![w] = jobStatus[at[w]]]
        /\ Goto(w, "notify")
     \/ /\ jobStatus[at[w]] \notin Terminal
        /\ Goto(w, "pick")
        /\ seen' = seen
  /\ UNCHANGED <<tables, queue, at, cur, then, spent>>

\* next_pending_step, SELECT FROM jobs.  On a terminal job the task returns None
\* and does not reschedule itself.
PollJob(w) ==
  /\ pc[w] = "poll"
  /\ \/ /\ jobStatus[at[w]] \in Terminal
        /\ Return(w)
     \/ /\ jobStatus[at[w]] \notin Terminal
        /\ Goto(w, "pick")
        /\ UNCHANGED <<at, cur, seen, then>>
  /\ UNCHANGED <<tables, queue, spent>>

\* next_pending_step, SELECT FROM job_steps: the first step that is not done,
\* even if it is running or failed.
PickStep(w) ==
  /\ pc[w] = "pick"
  /\ LET todo == Unfinished(stepStatus[at[w]])
     IN  \/ /\ todo = {}
            /\ Return(w)
         \/ \E k \in todo :
              /\ IsFirst(k, todo)
              /\ cur' = [cur EXCEPT ![w] = k]
              /\ Goto(w, "start")
              /\ UNCHANGED <<at, seen, then>>
  /\ UNCHANGED <<tables, queue, spent>>

StartStep(w) ==
  /\ pc[w] = "start"
  /\ SetStep(w, "running", "exec")
  /\ UNCHANGED <<results, jobStatus, owned, notices, queue, at, cur, seen, spent>>

\* _recompute_job_status, SELECT FROM job_steps and _derive_job_status.
ReadSteps(p) ==
  /\ pc[p] = "derive"
  /\ seen' = [seen EXCEPT ![p] = DeriveJobStatus(stepStatus[at[p]])]
  /\ Goto(p, "store")
  /\ UNCHANGED <<tables, queue, at, cur, then, spent>>

\* _recompute_job_status, UPDATE jobs: it stores what was computed, whatever
\* the steps are by now.
StoreStatus(p) ==
  /\ pc[p] = "store"
  /\ jobStatus' = [jobStatus EXCEPT ![at[p]] = seen[p]]
  /\ pc' = [pc EXCEPT ![p] = then[p]]
  /\ seen' = [seen EXCEPT ![p] = "absent"]
  /\ then' = [then EXCEPT ![p] = "idle"]
  /\ UNCHANGED <<stepStatus, results, owned, notices, queue, at, cur, spent>>

\* The step function returns and finish_step stores its result.
FinishStep(w) ==
  /\ pc[w] = "exec"
  /\ SetStep(w, "done", "check")
  /\ results' = [results EXCEPT ![at[w]] = @ \cup {cur[w]}]
  /\ UNCHANGED <<jobStatus, owned, notices, queue, at, cur, seen, spent>>

\* Mutant: fail_step forgets _recompute_job_status.
FailStepOnly(w) ==
  /\ pc[w] = "exec"
  /\ stepStatus' = [stepStatus EXCEPT ![at[w]][cur[w]] = "failed"]
  /\ Goto(w, "check")
  /\ UNCHANGED <<results, jobStatus, owned, notices, queue, at, cur, seen, then, spent>>

\* The step function raises and fail_step stores the message.
FailStep(w) ==
  /\ pc[w] = "exec"
  /\ SetStep(w, "failed", "check")
  /\ UNCHANGED <<results, jobStatus, owned, notices, queue, at, cur, seen, spent>>

\* Mutant: the task always reschedules itself and leaves the end to the next one.
CheckJobReschedules(w) ==
  /\ pc[w] = "check"
  /\ Goto(w, "enqueue")
  /\ UNCHANGED <<tables, queue, at, cur, seen, then, spent>>

\* The task reads the job again: it reschedules itself while the job runs,
\* notifies when the job has ended, and does neither when the job is pending.
CheckJob(w) ==
  /\ pc[w] = "check"
  /\ LET s == jobStatus[at[w]]
     IN  \/ /\ s = "running"
            /\ Goto(w, "enqueue")
            /\ UNCHANGED <<at, cur, seen, then>>
         \/ /\ s \in Terminal
            /\ seen' = [seen EXCEPT ![w] = s]
            /\ Goto(w, "notify")
            /\ UNCHANGED <<at, cur, then>>
         \/ /\ s = "pending"
            /\ Return(w)
  /\ UNCHANGED <<tables, queue, spent>>

\* _notify_job_completion, up to the notification; the webhooks it goes on to
\* call see the same status and change nothing here.
Notify(w) ==
  /\ pc[w] = "notify"
  /\ notices' = IF at[w] \in owned
                THEN [notices EXCEPT ![at[w]] = Append(@, seen[w])]
                ELSE notices
  /\ Return(w)
  /\ UNCHANGED <<stepStatus, results, jobStatus, owned, queue, spent>>
-----------------------------------------------------------------------------
(* Faults.                                                                 *)

\* A process is killed between two statements.  A worker's message was already
\* acknowledged and is not delivered again.  The same step stands for an
\* exception that leaves run_next_step (the result cannot be stored, the
\* connection is lost).
Crash(p) ==
  /\ pc[p] # "idle"
  /\ spent["crash"] < MaxCrashes
  /\ spent' = [spent EXCEPT !["crash"] = @ + 1]
  /\ Return(p)
  /\ UNCHANGED <<tables, queue>>

\* The broker delivers a waiting message a second time.
Redeliver(j) ==
  /\ queue[j] > 0
  /\ spent["redeliver"] < MaxRedeliveries
  /\ spent' = [spent EXCEPT !["redeliver"] = @ + 1]
  /\ queue' = [queue EXCEPT ![j] = @ + 1]
  /\ UNCHANGED <<tables, locals>>
-----------------------------------------------------------------------------
\* A statement of the task, once a worker has taken it.
WorkerStep(w) ==
  \/ PollJob(w) \/ PickStep(w) \/ StartStep(w) \/ ReadSteps(w) \/ StoreStatus(w)
  \/ FinishStep(w) \/ FailStep(w) \/ CheckJob(w) \/ Enqueue(w) \/ Notify(w)

\* A statement of a request or of an operator call already begun.
ClientStep(c) ==
  \/ InsertStep(c) \/ RecordOwner(c) \/ Enqueue(c)
  \/ ResetStep(c) \/ ReadSteps(c) \/ StoreStatus(c)

Next ==
  \/ \E w \in Workers : WorkerStep(w)
  \/ \E w \in Workers, j \in Jobs : Take(w, j)
  \/ \E c \in Clients : ClientStep(c)
  \/ \E c \in Clients, j \in Jobs : CreateJob(c, j) \/ Resume(c, j) \/ Retry(c, j)
  \/ \E p \in Procs : Crash(p)
  \/ \E j \in Jobs : Redeliver(j)

Spec == Init /\ [][Next]_vars

\* What the deployment guarantees: a live worker goes on with its task and takes
\* waiting messages, and a request handler that began goes on to its end.
\* Nobody is obliged to create jobs or to call an operator.
Fairness ==
  /\ \A w \in Workers : WF_vars(WorkerStep(w) \/ \E j \in Jobs : Take(w, j))
  /\ \A c \in Clients : WF_vars(ClientStep(c))

FairSpec == Spec /\ Fairness
-----------------------------------------------------------------------------
(* What holds whatever is redelivered, killed or called too early.         *)

\* A step that was ever started finds the result of every step before it, even
\* when two chains run on its job: get_job, called before start_step, hands the
\* step function job.steps whose results package_outputs reads.
InputsReady ==
  \A j \in Jobs : \A i, k \in Steps :
    i < k /\ stepStatus[j][k] \in {"running", "done", "failed"} => i \in results[j]

\* create_job died before its last INSERT INTO job_steps: job j has fewer than N rows
\* and nobody adds the others any more.
CutShort(j) ==
  /\ \E k \in Steps : stepStatus[j][k] = "absent"
  /\ \A p \in Procs : at[p] = j => pc[p] # "insert"

\* GET /models/{id}/files of a job that is done misses nothing: all N steps have left
\* their results, even if the status is written late.  The one exception is a job cut
\* short by a crash of create_job, where done covers the steps that were inserted.
DoneMeansComplete ==
  \A j \in Jobs : jobStatus[j] = "done" =>
    \/ results[j] = Steps
    \/ /\ CutShort(j) /\ spent["crash"] > 0
       /\ \A k \in Steps : stepStatus[j][k] # "absent" => k \in results[j]

\* "done, if all steps are ready" (the docstring of _derive_job_status), all being
\* those create_job is given: "starts pending with all steps" (test_jobs_store.py).
\* The code promises it only as long as create_job is not killed between two INSERTs.
DoneHasEveryStep == \A j \in Jobs : jobStatus[j] = "done" => results[j] = Steps
-----------------------------------------------------------------------------
(* What holds when operators wait for a chain to end and the broker does   *)
(* not redeliver; processes may still be killed.                           *)

\* A job has one chain of tasks: one message or one process, never both.
SingleChain ==
  \A j \in Jobs :
    /\ queue[j] <= 1
    /\ queue[j] = 1 => ~Busy(j)
    /\ \A p, q \in Procs : at[p] = j /\ at[q] = j => p = q

\* The steps run in order: what precedes a step that was started is done, and
\* was not undone by a crash, a retry or the rerun of an interrupted step.
StepsInOrder ==
  \A j \in Jobs : \A i, k \in Steps :
    i < k /\ stepStatus[j][k] \notin {"absent", "pending"} => stepStatus[j][i] = "done"

\* "The other steps stay done and are not computed again" (docs/api.md): no
\* restart or retry takes a done step out of done.
DoneStaysDone ==
  [][\A j \in Jobs, k \in Steps :
        stepStatus[j][k] = "done" => stepStatus'[j][k] = "done"]_stepStatus

\* A notice tells the truth at the moment it is issued: both tables agree with it.
NoticeIsTrue ==
  [][\A j \in Jobs :
        notices'[j] # notices[j] =>
          LET said == notices'[j][Len(notices'[j])]
          IN  jobStatus[j] = said /\ DeriveJobStatus(stepStatus[j]) = said]_notices

\* The notice of success is issued at most once and is the last one, however
\* often a job failed, was retried or was resumed before and after it.
DoneNoticeIsLast ==
  \A j \in Jobs : \A i \in 1..(Len(notices[j]) - 1) : notices[j][i] = "failed"

\* What a client of GET /jobs/{id} sees is a run of the abstract life cycle.
Lifecycle ==
  INSTANCE JobLifecycle WITH
    status  <- jobStatus,
    planned <- [j \in Jobs |-> {k \in Steps : stepStatus[j][k] # "absent"}],
    done    <- [j \in Jobs |-> {k \in Steps : stepStatus[j][k] = "done"}]

ImplementsLifecycle == Lifecycle!Spec
-----------------------------------------------------------------------------
(* What needs every process to survive as well.                            *)

\* When nobody works on a job, its status is the one its steps determine
\* (_derive_job_status).
SettledStatus ==
  \A j \in Jobs :
    ChainFree(j) /\ jobStatus[j] # "absent" => jobStatus[j] = DeriveJobStatus(stepStatus[j])

\* "done, if all steps are ready": a job nobody works on whose steps are all done is
\* done.  The code promises it only as long as no worker is killed between the UPDATE
\* of the last step and the UPDATE of the job.
AllDoneIsDone ==
  \A j \in Jobs :
    ChainFree(j) /\ (\A k \in Steps : stepStatus[j][k] = "done") => jobStatus[j] = "done"

\* The chain carries a job it was started on to done or failed.
JobEnds == \A j \in Jobs : (queue[j] > 0) ~> (jobStatus[j] \in Terminal)

\* The owner of a job that ended done hears of it.
OwnerHearsDone ==
  \A j \in Jobs :
    (j \in owned /\ jobStatus[j] = "done")
      ~> (\E i \in 1..Len(notices[j]) : notices[j][i] = "done")
=============================================================================
