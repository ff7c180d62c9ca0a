----------------------------- MODULE JobLifecycle -----------------------------
(***************************************************************************)
(* What GET /jobs/{id} promises of a job, with no workers, messages or SQL *)
(* statements in it: the steps are planned, then completed one by one in   *)
(* their order, the status follows, "done" is final and means that every   *)
(* planned step is complete.  JobPipeline implements it (see Lifecycle     *)
(* there) as long as a job has one chain of tasks, crashes included.       *)
(***************************************************************************)
EXTENDS Naturals

CONSTANTS Jobs, N

VARIABLES
  status,    \* jobs.status, "absent" before the INSERT
  planned,   \* the steps that have a row
  done       \* the steps that are complete

vars == <<status, planned, done>>

Steps == 1..N

Init ==
  /\ status = [j \in Jobs |-> "absent"]
  /\ planned = [j \in Jobs |-> {}]
  /\ done = [j \in Jobs |-> {}]

Become(j, s) == status' = [status EXCEPT ![j] = s] /\ UNCHANGED <<planned, done>>

Create(j) == status[j] = "absent" /\ Become(j, "pending")

\* Steps are planned in order, before the first of them starts.
Plan(j) ==
  /\ status[j] = "pending"
  /\ done[j] = {}
  /\ \E k \in Steps : planned[j] = 1..(k - 1) /\ planned' = [planned EXCEPT ![j] = 1..k]
  /\ UNCHANGED <<status, done>>

Begin(j) == status[j] = "pending" /\ planned[j] # {} /\ Become(j, "running")

\* The next step in order completes.
Advance(j) ==
  /\ status[j] = "running"
  /\ \E k \in planned[j] : done[j] = 1..(k - 1) /\ done' = [done EXCEPT ![j] = 1..k]
  /\ UNCHANGED <<status, planned>>

Complete(j) == status[j] = "running" /\ done[j] = planned[j] /\ Become(j, "done")

Fail(j) == status[j] = "running" /\ done[j] # planned[j] /\ Become(j, "failed")

\* The failed step is put back; a job with no complete step is pending again.
Retry(j) ==
  /\ status[j] \in {"running", "failed"}
  /\ done[j] # planned[j]
  /\ Become(j, IF done[j] = {} THEN "pending" ELSE "running")

Next ==
  \E j \in Jobs :
    Create(j) \/ Plan(j) \/ Begin(j) \/ Advance(j) \/ Complete(j) \/ Fail(j) \/ Retry(j)

Spec == Init /\ [][Next]_vars
=============================================================================
