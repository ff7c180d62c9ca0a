------------------------------ MODULE JobStatus ------------------------------
(***************************************************************************)
(* The two status columns of the job store (jobs/store.py) and the pure    *)
(* functions the store computes from them.                                 *)
(*                                                                         *)
(* The rows of job_steps that belong to one job are a function from the    *)
(* step order to a status; a row create_job has not inserted (yet) is      *)
(* "absent".  The jobs row itself is "absent" until its INSERT.            *)
(***************************************************************************)
EXTENDS Naturals

Status == {"pending", "running", "done", "failed"}

StatusOrAbsent == Status \cup {"absent"}

Terminal == {"done", "failed"}

\* The statuses SELECT ... FROM job_steps WHERE job_id = ... returns.
RowStatuses(rows) == {rows[k] : k \in DOMAIN rows} \ {"absent"}

\* Mutant: one done step is enough.
DeriveDoneIfAny(rows) ==
  LET statuses == RowStatuses(rows)
  IN  IF "failed" \in statuses THEN "failed"
      ELSE IF "done" \in statuses THEN "done"
      ELSE IF statuses \subseteq {"pending"} THEN "pending"
      ELSE "running"

\* _derive_job_status: the job's status as a function of its steps' statuses.
DeriveJobStatus(rows) ==
  LET statuses == RowStatuses(rows)
  IN  IF "failed" \in statuses THEN "failed"
      ELSE IF statuses = {"done"} THEN "done"
      ELSE IF statuses \subseteq {"pending"} THEN "pending"
      ELSE "running"

\* Mutant: next_pending_step asks for pending steps only.
PendingOnly(rows) == {k \in DOMAIN rows : rows[k] = "pending"}

\* The inserted steps that are not done, whatever else they are: the loop of
\* next_pending_step passes over done steps only.
Unfinished(rows) == {k \in DOMAIN rows : rows[k] \notin {"absent", "done"}}

\* Mutant: retry_failed_step accepts every step that has ended.
EndedSteps(rows) == {k \in DOMAIN rows : rows[k] \in Terminal}

FailedSteps(rows) == {k \in DOMAIN rows : rows[k] = "failed"}

\* Mutant: no ORDER BY step_order.
IsAny(k, S) == k \in S

\* k comes first, by step_order, in the set S of steps.
IsFirst(k, S) == k \in S /\ \A i \in S : k <= i
=============================================================================
