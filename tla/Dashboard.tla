------------------------------ MODULE Dashboard -------------------------------
(***************************************************************************)
(* The page of the cabinet (the script in api/app.py): it asks for all jobs *)
(* every two seconds, whether or not earlier answers have come, and shows   *)
(* the models the user selects.  The server reads the jobs and their steps  *)
(* in separate statements (list_all_jobs); answers overtake each other.     *)
(*                                                                         *)
(* A job is the number of its finished steps and its status; what the       *)
(* pipeline does to it is JobPipeline, here it goes on, fails or is retried. *)
(***************************************************************************)
EXTENDS Naturals, FiniteSets

CONSTANTS
  Ids,         \* of jobs
  Steps,       \* steps of a job
  Fetches,     \* bound of the model: requests of the page under way at once
  MaxRetries   \* bound of the model: retries of failed jobs

VARIABLES
  jobs,      \* in the database: per job that exists, [status, done]
  retries,   \* retries
  fetch,     \* per request, [at |-> how far it is, jobs |-> what was read]
  list,      \* jobsList, what the page shows
  load       \* models on their way: "files" asked, "glb" asked; scene and link

pageVars == <<jobs, retries, fetch, list, load>>

NoJobs == [j \in {} |-> [status |-> "pending", done |-> 0]]

NoFetch == [at |-> "none", jobs |-> NoJobs]

PageInit ==
  /\ jobs = NoJobs /\ retries = 0
  /\ fetch = [i \in Fetches |-> NoFetch]
  /\ list = NoJobs
  /\ load = [asked |-> {}, loading |-> {}, link |-> {}, scene |-> {}]
-----------------------------------------------------------------------------
(* The server.                                                             *)

\* POST /api/jobs; the loadJobs that follows is one more Poll.
CreateJob(j) ==
  /\ j \notin DOMAIN jobs
  /\ jobs' = [k \in DOMAIN jobs \cup {j} |-> IF k = j THEN [status |-> "pending", done |-> 0] ELSE jobs[k]]
  /\ UNCHANGED <<retries, fetch, list, load>>

\* A step ends.
Advance(j) ==
  /\ j \in DOMAIN jobs /\ jobs[j].status \in {"pending", "running"}
  /\ \/ jobs' = [jobs EXCEPT ![j] =
                   [status |-> IF jobs[j].done + 1 = Steps THEN "done" ELSE "running", done |-> @.done + 1]]
     \/ jobs' = [jobs EXCEPT ![j].status = "failed"]
  /\ UNCHANGED <<retries, fetch, list, load>>

Retry(j) ==
  /\ j \in DOMAIN jobs /\ jobs[j].status = "failed" /\ retries < MaxRetries
  /\ jobs' = [jobs EXCEPT ![j].status = "pending"]
  /\ retries' = retries + 1
  /\ UNCHANGED <<fetch, list, load>>

\* get_all_jobs: list_all_jobs reads the jobs.
ReadJobs(i) ==
  /\ fetch[i].at = "asked"
  /\ fetch' = [fetch EXCEPT ![i] = [at |-> "read", jobs |-> jobs]]
  /\ UNCHANGED <<jobs, retries, list, load>>

\* list_all_jobs reads the steps of the jobs it has.
ReadSteps(i) ==
  /\ fetch[i].at = "read"
  /\ fetch' = [fetch EXCEPT ![i] =
       [at |-> "answered",
        jobs |-> [j \in DOMAIN @.jobs |-> [status |-> @.jobs[j].status, done |-> jobs[j].done]]]]
  /\ UNCHANGED <<jobs, retries, list, load>>
-----------------------------------------------------------------------------
(* The page.                                                               *)

\* Mutant: the list is asked for only while it is empty.
PollOnce(i) ==
  /\ fetch[i].at = "none" /\ list = NoJobs
  /\ fetch' = [fetch EXCEPT ![i] = [at |-> "asked", jobs |-> NoJobs]]
  /\ UNCHANGED <<jobs, retries, list, load>>

\* loadJobs, from setInterval or from createJob.
Poll(i) ==
  /\ fetch[i].at = "none"
  /\ fetch' = [fetch EXCEPT ![i] = [at |-> "asked", jobs |-> NoJobs]]
  /\ UNCHANGED <<jobs, retries, list, load>>

\* loadJobs: the answer becomes the list, whatever is shown already.
Show(i) ==
  /\ fetch[i].at = "answered"
  /\ list' = fetch[i].jobs
  /\ fetch' = [fetch EXCEPT ![i] = NoFetch]
  /\ UNCHANGED <<jobs, retries, load>>

\* loadJobs: not ok, or no answer; the list stays.  A request that does not reach the
\* server is one whose answer is lost.
Lose(i) ==
  /\ fetch[i].at = "answered"
  /\ fetch' = [fetch EXCEPT ![i] = NoFetch]
  /\ UNCHANGED <<jobs, retries, list, load>>

\* selectJob: only a job that is listed can be clicked.
SelectJob(j) ==
  /\ j \in DOMAIN list
  /\ load' = [load EXCEPT !.asked = @ \cup {j}]
  /\ UNCHANGED <<jobs, retries, fetch, list>>

\* selectJob: the files are there.  Of a job without a model nothing is loaded, but the
\* link is gone.
FilesCome(j) ==
  /\ j \in load.asked
  /\ \/ load' = [load EXCEPT !.asked = @ \ {j}, !.loading = @ \cup {j}, !.link = {j}]
     \/ load' = [load EXCEPT !.asked = @ \ {j}, !.link = {}]
     \/ load' = [load EXCEPT !.asked = @ \ {j}]
  /\ UNCHANGED <<jobs, retries, fetch, list>>

\* loadModel: the model replaces what the scene had.
ModelComes(j) ==
  /\ j \in load.loading
  /\ load' = [load EXCEPT !.loading = @ \ {j}, !.scene = {j}]
  /\ UNCHANGED <<jobs, retries, fetch, list>>

PageNext ==
  \/ \E j \in Ids : CreateJob(j) \/ Advance(j) \/ Retry(j) \/ SelectJob(j) \/ FilesCome(j) \/ ModelComes(j)
  \/ \E i \in Fetches : Poll(i) \/ ReadJobs(i) \/ ReadSteps(i) \/ Show(i) \/ Lose(i)

\* The interval goes on, the server answers, and of the answers not all are lost.
PageFairness ==
  \A i \in Fetches : WF_pageVars(Poll(i)) /\ WF_pageVars(ReadJobs(i)) /\ WF_pageVars(ReadSteps(i))
                     /\ SF_pageVars(Show(i))
-----------------------------------------------------------------------------
\* Once the jobs no longer change, the list comes to show them as they are and stays so:
\* an answer that was overtaken does not remain, and neither does one whose jobs and
\* steps were read at different moments.
ListSettles == \A j \in Ids : \A s \in {"done", "failed"} :
  <>[](j \in DOMAIN jobs /\ jobs[j].status = s)
    => <>[](j \in DOMAIN list /\ j \in DOMAIN jobs /\ list[j] = jobs[j])
=============================================================================
