-------------------------- MODULE JobPipelineProofs --------------------------
(***************************************************************************)
(* Theorems about JobPipeline, for every set of jobs, workers and clients, *)
(* every number of steps and every bound on the faults.  First those that   *)
(* hold whatever is redelivered, killed or called too early.               *)
(***************************************************************************)
EXTENDS JobPipeline, SequenceTheorems, TLAPS

\* The locals fit the statement their process is about to execute.
LocalsFit ==
  \A p \in Procs :
    /\ pc[p] = "idle" <=> at[p] = NoJob
    /\ pc[p] \in {"insert", "start", "exec", "reset", "derive", "store"} => cur[p] \in Steps
    /\ pc[p] \in {"derive", "store"} => then[p] \in {"exec", "check", "enqueue"}
    /\ pc[p] = "store" => seen[p] \in Status
    /\ pc[p] = "notify" => seen[p] \in Terminal

LEMMA Literals ==
  /\ Terminal \subseteq Status /\ Status \subseteq StatusOrAbsent
  /\ "absent" \in StatusOrAbsent
  /\ "pending" \in Status /\ "running" \in Status
  /\ "done" \in Terminal /\ "failed" \in Terminal
  /\ {"idle", "insert", "own", "enqueue", "poll", "pick", "start", "derive",
      "store", "exec", "check", "notify", "reset"} \subseteq PCs
BY DEF Terminal, Status, StatusOrAbsent, PCs

LEMMA DeriveType ==
  ASSUME NEW rows PROVE DeriveJobStatus(rows) \in Status
BY DEF DeriveJobStatus, Status

\* The columns and the locals keep their types, a status is written only after it
\* was computed from the steps, and a notice carries a terminal status: the task
\* hands _notify_job_completion done or failed only.
THEOREM TypeCorrect == Spec => [](TypeOK /\ LocalsFit)
<1>1. Init => TypeOK /\ LocalsFit
  BY Literals DEF Init, TypeOK, LocalsFit
<1>2. TypeOK /\ LocalsFit /\ [Next]_vars => (TypeOK /\ LocalsFit)'
  <2> SUFFICES ASSUME TypeOK, LocalsFit, [Next]_vars
               PROVE  TypeOK' /\ LocalsFit'
    OBVIOUS
  <2> USE Literals, NoJobAssumption DEF TypeOK, LocalsFit, Procs, Goto, Return, SetStep
  <2>1. ASSUME NEW c \in Clients, NEW j \in Jobs, CreateJob(c, j) PROVE TypeOK' /\ LocalsFit'
    BY <2>1, StepsAssumption DEF CreateJob, Steps
  <2>2. ASSUME NEW c \in Clients, InsertStep(c) PROVE TypeOK' /\ LocalsFit'
    <3>1. cur'[c] \in Steps /\ cur' \in [Procs -> Steps \cup {0}]
      <4>1. cur[c] \in Steps
        BY <2>2 DEF InsertStep
      <4>2. CASE cur[c] < N /\ cur' = [cur EXCEPT ![c] = cur[c] + 1]
        <5>1. cur[c] + 1 \in Steps
          BY <4>1, <4>2, StepsAssumption DEF Steps
        <5> QED BY <5>1, <4>2
      <4>3. CASE cur' = cur
        BY <4>1, <4>3
      <4> QED BY <2>2, <4>2, <4>3 DEF InsertStep
    <3>2. stepStatus' \in [Jobs -> [Steps -> StatusOrAbsent]]
      BY <2>2 DEF InsertStep
    <3>3. \A p \in Procs : p # c => pc'[p] = pc[p] /\ cur'[p] = cur[p]
      BY <2>2 DEF InsertStep
    <3>4. pc' \in [Procs -> PCs] /\ pc'[c] \in {"insert", "own", "enqueue"}
      BY <2>2, ZenonT(30) DEF InsertStep
    <3> QED BY <2>2, <3>1, <3>2, <3>3, <3>4 DEF InsertStep
  <2>3. ASSUME NEW c \in Clients, RecordOwner(c) PROVE TypeOK' /\ LocalsFit'
    BY <2>3 DEF RecordOwner
  <2>4. ASSUME NEW p \in Procs, Enqueue(p) PROVE TypeOK' /\ LocalsFit'
    BY <2>4 DEF Enqueue, tables
  <2>5. ASSUME NEW c \in Clients, NEW j \in Jobs, Resume(c, j) PROVE TypeOK' /\ LocalsFit'
    BY <2>5 DEF Resume, CountCall, tables
  <2>6. ASSUME NEW c \in Clients, NEW j \in Jobs, Retry(c, j) PROVE TypeOK' /\ LocalsFit'
    BY <2>6 DEF Retry, CountCall, IsFirst, FailedSteps, tables
  <2>7. ASSUME NEW c \in Clients, ResetStep(c) PROVE TypeOK' /\ LocalsFit'
    BY <2>7 DEF ResetStep
  <2>8. ASSUME NEW w \in Workers, NEW j \in Jobs, Take(w, j) PROVE TypeOK' /\ LocalsFit'
    BY <2>8 DEF Take, tables
  <2>9. ASSUME NEW w \in Workers, PollJob(w) PROVE TypeOK' /\ LocalsFit'
    <3>1. CASE Return(w)
      BY <2>9, <3>1 DEF PollJob, tables
    <3>2. CASE Goto(w, "pick") /\ UNCHANGED <<at, cur, seen, then>>
      BY <2>9, <3>2 DEF PollJob, tables
    <3> QED BY <2>9, <3>1, <3>2 DEF PollJob
  <2>10. ASSUME NEW w \in Workers, PickStep(w) PROVE TypeOK' /\ LocalsFit'
    <3>1. CASE Return(w)
      BY <2>10, <3>1 DEF PickStep, tables
    <3>2. ASSUME NEW k \in Steps, cur' = [cur EXCEPT ![w] = k], Goto(w, "start"),
                 UNCHANGED <<at, seen, then>>
          PROVE  TypeOK' /\ LocalsFit'
      BY <2>10, <3>2 DEF PickStep, tables
    <3>3. Unfinished(stepStatus[at[w]]) \subseteq Steps
      BY <2>10 DEF PickStep, Unfinished
    <3> QED BY <2>10, <3>1, <3>2, <3>3 DEF PickStep
  <2>11. ASSUME NEW w \in Workers, StartStep(w) PROVE TypeOK' /\ LocalsFit'
    BY <2>11 DEF StartStep
  <2>12. ASSUME NEW p \in Procs, ReadSteps(p) PROVE TypeOK' /\ LocalsFit'
    BY <2>12, DeriveType DEF ReadSteps, tables
  <2>13. ASSUME NEW p \in Procs, StoreStatus(p) PROVE TypeOK' /\ LocalsFit'
    BY <2>13 DEF StoreStatus
  <2>14. ASSUME NEW w \in Workers, FinishStep(w) PROVE TypeOK' /\ LocalsFit'
    BY <2>14 DEF FinishStep
  <2>15. ASSUME NEW w \in Workers, FailStep(w) PROVE TypeOK' /\ LocalsFit'
    BY <2>15 DEF FailStep
  <2>16. ASSUME NEW w \in Workers, CheckJob(w) PROVE TypeOK' /\ LocalsFit'
    <3>1. CASE Return(w)
      BY <2>16, <3>1 DEF CheckJob, tables
    <3>2. CASE Goto(w, "enqueue") /\ UNCHANGED <<at, cur, seen, then>>
      BY <2>16, <3>2 DEF CheckJob, tables
    <3>3. ASSUME jobStatus[at[w]] \in Terminal, Goto(w, "notify"),
                 seen' = [seen EXCEPT ![w] = jobStatus[at[w]]], UNCHANGED <<at, cur, then>>
          PROVE  TypeOK' /\ LocalsFit'
      BY <2>16, <3>3 DEF CheckJob, tables
    <3> QED BY <2>16, <3>1, <3>2, <3>3 DEF CheckJob
  <2>17. ASSUME NEW w \in Workers, Notify(w) PROVE TypeOK' /\ LocalsFit'
    BY <2>17 DEF Notify
  <2>18. ASSUME NEW p \in Procs, Crash(p) PROVE TypeOK' /\ LocalsFit'
    BY <2>18 DEF Crash, tables
  <2>19. ASSUME NEW j \in Jobs, Redeliver(j) PROVE TypeOK' /\ LocalsFit'
    BY <2>19 DEF Redeliver, tables, locals
  <2>20. CASE UNCHANGED vars
    BY <2>20 DEF vars, tables, locals
  <2> QED
    BY <2>1, <2>2, <2>3, <2>4, <2>5, <2>6, <2>7, <2>8, <2>9, <2>10, <2>11, <2>12,
       <2>13, <2>14, <2>15, <2>16, <2>17, <2>18, <2>19, <2>20
    DEF Next, WorkerStep, ClientStep
<1> QED BY <1>1, <1>2, PTL DEF Spec
-----------------------------------------------------------------------------
(* The invariant that survives every fault.  InputsReady and RowsComplete,  *)
(* what results hold, are not inductive alone: they also need that rows are *)
(* inserted in order and by a handler nobody else disturbs, that a worker   *)
(* past PickStep has seen the results of the steps before its own, and that *)
(* a "done" computed but not yet stored is still covered by the results.    *)

\* A job without a jobs row has no chain and no steps; its steps are inserted in order.
RowsInOrder ==
  \A j \in Jobs :
    /\ jobStatus[j] = "absent" => ChainFree(j) /\ \A k \in Steps : stepStatus[j][k] = "absent"
    /\ \A i, k \in Steps :
         i < k /\ stepStatus[j][i] = "absent" => stepStatus[j][k] = "absent"

\* While create_job inserts the steps nobody else knows the job.
CreationAlone ==
  \A c \in Procs :
    pc[c] = "insert" =>
      /\ queue[at[c]] = 0
      /\ \A q \in Procs : at[q] = at[c] => q = c
      /\ jobStatus[at[c]] = "pending"
      /\ \A k \in Steps : stepStatus[at[c]][k] = IF k < cur[c] THEN "pending" ELSE "absent"

\* Between PickStep and the end of the step function.
Executing(p) == pc[p] \in {"start", "exec"} \/ (pc[p] \in {"derive", "store"} /\ then[p] = "exec")

TargetReady ==
  \A p \in Procs :
    /\ Executing(p) \/ pc[p] = "reset" => stepStatus[at[p]][cur[p]] # "absent"
    /\ Executing(p) => \A i \in Steps : i < cur[p] => i \in results[at[p]]

\* A status done that waits to be stored is covered by results.
SeenDoneComplete ==
  \A p \in Procs :
    pc[p] = "store" /\ seen[p] = "done" =>
      \A k \in Steps : stepStatus[at[p]][k] # "absent" => k \in results[at[p]]

\* The inserted steps of a job whose status is done have left their results.
RowsComplete ==
  \A j \in Jobs :
    /\ \A k \in Steps : stepStatus[j][k] = "done" => k \in results[j]
    /\ jobStatus[j] = "done" =>
         \A k \in Steps : stepStatus[j][k] # "absent" => k \in results[j]

FaultInv ==
  /\ TypeOK
  /\ LocalsFit
  /\ RowsInOrder
  /\ CreationAlone
  /\ TargetReady
  /\ InputsReady
  /\ RowsComplete
  /\ SeenDoneComplete

\* UPDATE job_steps, in start_step, finish_step, fail_step and retry_failed_step,
\* keeps every part of the invariant but the types.
LEMMA SetStepKeeps ==
  ASSUME FaultInv, NEW p \in Procs, pc[p] \in {"reset", "start", "exec"},
         NEW s \in Status, NEW next, SetStep(p, s, next),
         s # "pending" => pc[p] # "reset",
         next = "exec" => s = "running",
         UNCHANGED <<jobStatus, queue, at, cur, seen>>,
         results' = IF s = "done" THEN [results EXCEPT ![at[p]] = @ \cup {cur[p]}] ELSE results
  PROVE  /\ RowsInOrder' /\ CreationAlone' /\ TargetReady'
         /\ InputsReady' /\ RowsComplete' /\ SeenDoneComplete'
<1> DEFINE J == at[p]
           K == cur[p]
<1>1. J \in Jobs /\ K \in Steps
  BY DEF FaultInv, TypeOK, LocalsFit
<1>2. \A j \in Jobs, k \in Steps :
         stepStatus'[j][k] = IF j = J /\ k = K THEN s ELSE stepStatus[j][k]
  BY <1>1 DEF FaultInv, TypeOK, SetStep
<1>3. \A j \in Jobs, k \in Steps :
         k \in results'[j] <=> k \in results[j] \/ (s = "done" /\ j = J /\ k = K)
  BY <1>1 DEF FaultInv, TypeOK
<1>4. stepStatus[J][K] # "absent" /\ s # "absent"
  BY DEF FaultInv, TargetReady, Executing, Status
<1>5. s # "pending" => \A i \in Steps : i < K => i \in results[J]
  BY DEF FaultInv, TargetReady, Executing
<1>6. \A q \in Procs : /\ at'[q] = at[q] /\ cur'[q] = cur[q] /\ seen'[q] = seen[q]
                       /\ q # p => pc'[q] = pc[q] /\ then'[q] = then[q]
  BY DEF FaultInv, TypeOK, SetStep
<1>7. pc'[p] = "derive" /\ then'[p] = next
  BY DEF FaultInv, TypeOK, SetStep
<1>8. jobStatus[J] # "absent"
  BY <1>1, <1>4 DEF FaultInv, RowsInOrder
<1>9. \A q \in Procs : pc[q] = "insert" => at[q] # J
  BY DEF FaultInv, CreationAlone
<1>10. RowsInOrder'
  <2>1. \A j \in Jobs : jobStatus[j] = "absent" => ChainFree(j)'
    BY <1>6 DEF FaultInv, RowsInOrder, ChainFree, Busy
  <2> QED BY <1>2, <1>4, <1>8, <2>1 DEF FaultInv, RowsInOrder
<1>11. CreationAlone'
  BY <1>1, <1>2, <1>6, <1>7, <1>9 DEF FaultInv, CreationAlone, TypeOK, LocalsFit
<1>12. TargetReady'
  <2>1. ASSUME NEW q \in Procs, Executing(q)' \/ pc'[q] = "reset"
        PROVE stepStatus'[at[q]][cur[q]] # "absent"
    <3>1. CASE q = p
      BY <1>1, <1>2, <1>4, <3>1
    <3>2. CASE q # p
      <4>1. /\ at[q] \in Jobs /\ cur[q] \in Steps
            /\ stepStatus[at[q]][cur[q]] # "absent"
        BY <1>6, <2>1, <3>2 DEF FaultInv, TargetReady, Executing, LocalsFit, TypeOK
      <4> QED BY <1>2, <1>4, <4>1
    <3> QED BY <3>1, <3>2
  <2>2. ASSUME NEW q \in Procs, Executing(q)', NEW i \in Steps, i < cur[q]
        PROVE i \in results'[at[q]]
    <3>1. CASE q = p
      BY <1>1, <1>3, <1>5, <1>7, <2>2, <3>1 DEF Executing
    <3>2. CASE q # p
      BY <1>3, <1>6, <2>2, <3>2 DEF FaultInv, TargetReady, Executing, LocalsFit, TypeOK
    <3> QED BY <3>1, <3>2
  <2> QED BY <1>6, <2>1, <2>2 DEF TargetReady
<1>13. InputsReady'
  BY <1>1, <1>2, <1>3, <1>5 DEF FaultInv, InputsReady
<1>14. RowsComplete'
  BY <1>1, <1>2, <1>3, <1>4 DEF FaultInv, RowsComplete
<1>15. SeenDoneComplete'
  <2> SUFFICES ASSUME NEW q \in Procs, pc'[q] = "store", seen'[q] = "done",
                      NEW k \in Steps, stepStatus'[at'[q]][k] # "absent"
               PROVE  k \in results'[at'[q]]
    BY DEF SeenDoneComplete
  <2>1. q # p /\ at'[q] = at[q] /\ pc[q] = "store" /\ seen[q] = "done"
    BY <1>6, <1>7
  <2>2. at[q] \in Jobs
    BY <2>1 DEF FaultInv, LocalsFit, TypeOK
  <2>3. stepStatus[at[q]][k] # "absent"
    BY <1>2, <1>4, <2>1, <2>2
  <2> QED BY <1>3, <2>1, <2>2, <2>3 DEF FaultInv, SeenDoneComplete
<1> QED BY <1>10, <1>11, <1>12, <1>13, <1>14, <1>15

\* _derive_job_status answers done only when every inserted step is done.
LEMMA DeriveDone ==
  ASSUME NEW rows, DeriveJobStatus(rows) = "done", NEW k \in DOMAIN rows, rows[k] # "absent"
  PROVE  rows[k] = "done"
BY DEF DeriveJobStatus, RowStatuses

\* INSERT INTO jobs begins a creation nobody else knows of.
LEMMA CreateJobKeeps ==
  ASSUME FaultInv, NEW c \in Clients, NEW j \in Jobs, CreateJob(c, j)
  PROVE  CreationAlone'
<1> USE StepsAssumption DEF FaultInv, TypeOK, Procs
<1>1. c \in Procs /\ at' = [at EXCEPT ![c] = j] /\ pc' = [pc EXCEPT ![c] = "insert"]
      /\ cur' = [cur EXCEPT ![c] = 1] /\ jobStatus'[j] = "pending"
  BY DEF CreateJob, Goto
<1>2. queue[j] = 0 /\ (\A q \in Procs : at[q] # j) /\ \A k \in Steps : stepStatus[j][k] = "absent"
  BY DEF CreateJob, RowsInOrder, ChainFree, Busy
<1>3. UNCHANGED <<queue, stepStatus>> /\ \A i \in Jobs : i # j => jobStatus'[i] = jobStatus[i]
  BY DEF CreateJob
<1>4. ASSUME NEW d \in Procs, pc'[d] = "insert"
      PROVE  /\ queue'[at'[d]] = 0
             /\ \A q \in Procs : at'[q] = at'[d] => q = d
             /\ jobStatus'[at'[d]] = "pending"
             /\ \A k \in Steps : stepStatus'[at'[d]][k] = IF k < cur'[d] THEN "pending" ELSE "absent"
  <2>1. CASE d = c
    BY <1>1, <1>2, <1>3, <2>1 DEF Steps
  <2>2. CASE d # c
    <3>1. pc[d] = "insert" /\ at'[d] = at[d] /\ cur'[d] = cur[d] /\ at[d] \in Jobs /\ at[d] # j
      BY <1>1, <1>2, <1>4, <2>2 DEF LocalsFit
    <3>2. \A q \in Procs : at'[q] = at[d] => q = d
      BY <1>1, <3>1 DEF CreationAlone
    <3> QED BY <1>3, <3>1, <3>2 DEF CreationAlone
  <2> QED BY <2>1, <2>2
<1> QED BY <1>4 DEF CreationAlone

\* Reading the job's status disturbs no row.
LEMMA PollJobKeeps ==
  ASSUME FaultInv, NEW w \in Workers, PollJob(w)
  PROVE  CreationAlone' /\ TargetReady'
<1> USE NoJobAssumption DEF FaultInv, TypeOK, Procs
<1>1. UNCHANGED <<stepStatus, results, jobStatus, queue>>
  BY DEF PollJob, tables
<1>2. CASE Return(w)
  BY <1>1, <1>2 DEF Return, CreationAlone, TargetReady, Executing, LocalsFit
<1>3. CASE Goto(w, "pick") /\ UNCHANGED <<at, cur, seen, then>>
  BY <1>1, <1>3 DEF Goto, CreationAlone, TargetReady, Executing, LocalsFit
<1> QED BY <1>2, <1>3 DEF PollJob

\* next_pending_step passes over done steps only, so the results of the steps
\* before the one it returns are stored.
LEMMA PickStepKeeps ==
  ASSUME FaultInv, NEW w \in Workers, PickStep(w)
  PROVE  CreationAlone' /\ TargetReady'
<1> USE NoJobAssumption DEF FaultInv, TypeOK, Procs
<1>1. UNCHANGED <<stepStatus, results, jobStatus, queue>>
  BY DEF PickStep, tables
<1>2. CASE Return(w)
  BY <1>1, <1>2 DEF Return, CreationAlone, TargetReady, Executing, LocalsFit
<1>3. ASSUME NEW k \in Unfinished(stepStatus[at[w]]),
             IsFirst(k, Unfinished(stepStatus[at[w]])),
             cur' = [cur EXCEPT ![w] = k], Goto(w, "start"), UNCHANGED <<at, seen, then>>
      PROVE  CreationAlone' /\ TargetReady'
  <2>1. at[w] \in Jobs /\ DOMAIN stepStatus[at[w]] = Steps
    BY DEF PickStep, LocalsFit
  <2>2. k \in Steps /\ stepStatus[at[w]][k] # "absent"
    BY <2>1 DEF Unfinished
  <2>3. ASSUME NEW i \in Steps, i < k PROVE i \in results[at[w]]
    <3>1. i \notin Unfinished(stepStatus[at[w]])
      BY <1>3, <2>2, <2>3 DEF IsFirst, Steps
    <3>2. stepStatus[at[w]][i] # "absent"
      BY <2>1, <2>2, <2>3 DEF RowsInOrder
    <3> QED BY <2>1, <3>1, <3>2 DEF Unfinished, RowsComplete
  <2>4. CreationAlone'
    BY <1>1, <1>3 DEF Goto, CreationAlone, LocalsFit
  <2>5. ASSUME NEW q \in Procs
        PROVE /\ Executing(q)' \/ pc'[q] = "reset" => stepStatus'[at'[q]][cur'[q]] # "absent"
              /\ Executing(q)' => \A i \in Steps : i < cur'[q] => i \in results'[at'[q]]
    <3>1. CASE q = w
      BY <1>1, <1>3, <2>2, <2>3, <3>1
    <3>2. CASE q # w
      BY <1>1, <1>3, <3>2 DEF Goto, TargetReady, Executing
    <3> QED BY <3>1, <3>2
  <2> QED BY <2>4, <2>5 DEF TargetReady
<1> QED BY <1>2, <1>3 DEF PickStep

\* A status done computed from the steps is covered by their results.
LEMMA ReadStepsKeeps ==
  ASSUME FaultInv, NEW p \in Procs, ReadSteps(p)
  PROVE  SeenDoneComplete'
<1> USE DEF FaultInv, TypeOK
<1> SUFFICES ASSUME NEW q \in Procs, pc'[q] = "store", seen'[q] = "done",
                    NEW k \in Steps, stepStatus'[at'[q]][k] # "absent"
             PROVE  k \in results'[at'[q]]
  BY DEF SeenDoneComplete
<1>1. UNCHANGED <<stepStatus, results, at>>
  BY DEF ReadSteps, tables
<1>2. CASE q = p
  <2>1. at[p] \in Jobs /\ DeriveJobStatus(stepStatus[at[p]]) = "done"
    BY <1>2 DEF ReadSteps, LocalsFit
  <2>2. stepStatus[at[p]][k] = "done"
    BY <1>1, <1>2, <2>1, DeriveDone
  <2> QED BY <1>1, <1>2, <2>1, <2>2 DEF RowsComplete
<1>3. CASE q # p
  BY <1>1, <1>3 DEF ReadSteps, Goto, SeenDoneComplete
<1> QED BY <1>2, <1>3

\* UPDATE jobs writes a status computed earlier; SeenDoneComplete covers a late done.
LEMMA StoreStatusKeeps ==
  ASSUME FaultInv, NEW p \in Procs, StoreStatus(p)
  PROVE  RowsInOrder' /\ CreationAlone' /\ TargetReady' /\ RowsComplete'
<1> USE DEF FaultInv, TypeOK
<1>1. at[p] \in Jobs /\ cur[p] \in Steps /\ seen[p] \in Status /\ seen[p] # "absent"
      /\ then[p] \in {"exec", "check", "enqueue"}
  BY DEF StoreStatus, LocalsFit, Status
<1>2. \A j \in Jobs : jobStatus'[j] = IF j = at[p] THEN seen[p] ELSE jobStatus[j]
  BY <1>1 DEF StoreStatus
<1>3. UNCHANGED <<stepStatus, results, queue, at, cur>>
  BY DEF StoreStatus
<1>4. \A q \in Procs : pc'[q] = IF q = p THEN then[p] ELSE pc[q]
  BY DEF StoreStatus
<1>5. \A q \in Procs : q # p => then'[q] = then[q]
  BY DEF StoreStatus
<1>6. RowsInOrder'
  BY <1>1, <1>2, <1>3 DEF RowsInOrder, ChainFree, Busy
<1>7. \A q \in Procs : pc[q] = "insert" => at[q] # at[p] /\ at[q] \in Jobs
  BY DEF StoreStatus, CreationAlone, LocalsFit
<1>8. CreationAlone'
  BY <1>1, <1>2, <1>3, <1>4, <1>7 DEF CreationAlone
<1>9. TargetReady'
  <2> SUFFICES ASSUME NEW q \in Procs, Executing(q)' \/ pc'[q] = "reset"
               PROVE  Executing(q) \/ (pc[q] = "reset" /\ ~ Executing(q)')
    BY <1>3 DEF TargetReady
  <2> QED BY <1>1, <1>4, <1>5 DEF Executing, StoreStatus
<1>10. RowsComplete'
  BY <1>1, <1>2, <1>3 DEF StoreStatus, RowsComplete, SeenDoneComplete
<1> QED BY <1>6, <1>8, <1>9, <1>10

\* INSERT INTO job_steps adds the next row of a job only its creator knows.
LEMMA InsertStepKeeps ==
  ASSUME FaultInv, NEW c \in Clients, InsertStep(c)
  PROVE  RowsInOrder' /\ CreationAlone' /\ TargetReady' /\ RowsComplete' /\ SeenDoneComplete'
<1> USE DEF FaultInv, TypeOK, Procs
<1> DEFINE J == at[c]
           K == cur[c]
<1>1. c \in Procs /\ pc[c] = "insert" /\ J \in Jobs /\ K \in Steps
  BY DEF InsertStep, LocalsFit
<1>2. /\ queue[J] = 0 /\ jobStatus[J] = "pending"
      /\ \A q \in Procs : at[q] = J => q = c
      /\ \A k \in Steps : stepStatus[J][k] = IF k < K THEN "pending" ELSE "absent"
  BY <1>1 DEF CreationAlone
<1>3. \A j \in Jobs, k \in Steps :
         stepStatus'[j][k] = IF j = J /\ k = K THEN "pending" ELSE stepStatus[j][k]
  BY <1>1 DEF InsertStep
<1>4. UNCHANGED <<results, jobStatus, queue, at, seen, then>>
  BY DEF InsertStep
<1>5. /\ \A q \in Procs : q # c => pc'[q] = pc[q] /\ cur'[q] = cur[q]
      /\ pc'[c] \in {"insert", "own", "enqueue"}
      /\ pc'[c] = "insert" => cur'[c] = K + 1
  BY <1>1 DEF InsertStep, Goto
<1>6. \A q \in Procs : q # c /\ pc[q] # "idle" => at[q] \in Jobs /\ at[q] # J
  BY <1>2 DEF LocalsFit
<1>7. RowsInOrder'
  <2>1. \A j \in Jobs : jobStatus[j] = "absent" => ChainFree(j)'
    BY <1>4 DEF RowsInOrder, ChainFree, Busy
  <2>2. \A i, k \in Steps : i < k /\ stepStatus'[J][i] = "absent" => stepStatus'[J][k] = "absent"
    BY <1>1, <1>2, <1>3 DEF Steps
  <2>3. ASSUME NEW j \in Jobs, j # J
        PROVE  /\ jobStatus[j] = "absent" => \A k \in Steps : stepStatus'[j][k] = "absent"
               /\ \A i, k \in Steps :
                    i < k /\ stepStatus'[j][i] = "absent" => stepStatus'[j][k] = "absent"
    BY <1>3, <2>3 DEF RowsInOrder
  <2>4. jobStatus[J] # "absent"
    BY <1>2
  <2> HIDE DEF FaultInv, J
  <2> QED BY <1>4, <2>1, <2>2, <2>3, <2>4 DEF RowsInOrder
<1>8. CreationAlone'
  <2> SUFFICES ASSUME NEW d \in Procs, pc'[d] = "insert"
        PROVE  /\ queue'[at'[d]] = 0
               /\ \A q \in Procs : at'[q] = at'[d] => q = d
               /\ jobStatus'[at'[d]] = "pending"
               /\ \A k \in Steps : stepStatus'[at'[d]][k] = IF k < cur'[d] THEN "pending" ELSE "absent"
    BY DEF CreationAlone
  <2>1. CASE d = c
    <3>1. \A k \in Steps : stepStatus'[J][k] = IF k < K + 1 THEN "pending" ELSE "absent"
      BY <1>1, <1>2, <1>3 DEF Steps
    <3> QED BY <1>2, <1>4, <1>5, <2>1, <3>1
  <2>2. CASE d # c
    BY <1>3, <1>4, <1>5, <1>6, <2>2 DEF CreationAlone
  <2> QED BY <2>1, <2>2
<1>9. TargetReady'
  <2> SUFFICES ASSUME NEW q \in Procs, Executing(q)' \/ pc'[q] = "reset"
        PROVE  /\ stepStatus'[at'[q]][cur'[q]] # "absent"
               /\ Executing(q)' => \A i \in Steps : i < cur'[q] => i \in results'[at'[q]]
    BY DEF TargetReady
  <2>1. q # c /\ pc'[q] = pc[q] /\ then'[q] = then[q] /\ cur'[q] = cur[q] /\ at'[q] = at[q]
    BY <1>4, <1>5 DEF Executing
  <2>2. (Executing(q)' <=> Executing(q)) /\ cur[q] \in Steps /\ at[q] \in Jobs /\ at[q] # J
    BY <1>6, <2>1 DEF Executing, LocalsFit
  <2> QED BY <1>3, <1>4, <2>1, <2>2 DEF TargetReady
<1>10. RowsComplete'
  <2>1. ASSUME NEW j \in Jobs, NEW k \in Steps, stepStatus'[j][k] = "done" PROVE k \in results'[j]
    BY <1>3, <1>4, <2>1, ZenonT(30) DEF RowsComplete
  <2>2. ASSUME NEW j \in Jobs, jobStatus'[j] = "done", NEW k \in Steps, stepStatus'[j][k] # "absent"
        PROVE  k \in results'[j]
    <3>1. j # J /\ stepStatus[j][k] # "absent"
      BY <1>2, <1>3, <1>4, <2>2
    <3> QED BY <1>4, <2>2, <3>1 DEF RowsComplete
  <2> QED BY <2>1, <2>2 DEF RowsComplete
<1>11. SeenDoneComplete'
  <2> SUFFICES ASSUME NEW q \in Procs, pc'[q] = "store", seen'[q] = "done",
                      NEW k \in Steps, stepStatus'[at'[q]][k] # "absent"
               PROVE  k \in results'[at'[q]]
    BY DEF SeenDoneComplete
  <2>1. q # c /\ pc[q] = "store" /\ seen[q] = "done" /\ at'[q] = at[q]
    BY <1>4, <1>5
  <2> QED BY <1>3, <1>4, <1>6, <2>1 DEF SeenDoneComplete
<1> QED BY <1>7, <1>8, <1>9, <1>10, <1>11
-----------------------------------------------------------------------------
\* The parts of FaultInv that the types do not give.
Recorded ==
  /\ RowsInOrder /\ CreationAlone /\ TargetReady
  /\ InputsReady /\ RowsComplete /\ SeenDoneComplete

LEMMA RecordedStep ==
  ASSUME FaultInv, TypeOK', LocalsFit', [Next]_vars
  PROVE  Recorded'
<1> USE Literals, NoJobAssumption DEF FaultInv, TypeOK, LocalsFit, Procs, Goto, Return
<1>1. ASSUME NEW c \in Clients, NEW j \in Jobs, CreateJob(c, j) PROVE Recorded'
  <2>1. CreationAlone'
    BY <1>1, CreateJobKeeps
  <2>2. RowsInOrder'
    BY <1>1 DEF CreateJob, RowsInOrder, ChainFree, Busy
  <2>3. TargetReady'
    BY <1>1 DEF CreateJob, TargetReady, Executing
  <2>4. InputsReady'
    BY <1>1 DEF CreateJob, InputsReady
  <2>5. RowsComplete'
    BY <1>1 DEF CreateJob, RowsComplete
  <2>6. SeenDoneComplete'
    BY <1>1 DEF CreateJob, SeenDoneComplete
  <2> QED BY <2>1, <2>2, <2>3, <2>4, <2>5, <2>6 DEF Recorded
<1>2. ASSUME NEW c \in Clients, InsertStep(c) PROVE Recorded'
  <2>1. RowsInOrder' /\ CreationAlone' /\ TargetReady' /\ RowsComplete' /\ SeenDoneComplete'
    BY <1>2, InsertStepKeeps
  <2>2. InputsReady'
    BY <1>2 DEF InsertStep, InputsReady
  <2> QED BY <2>1, <2>2 DEF Recorded
<1>3. ASSUME NEW c \in Clients, RecordOwner(c) PROVE Recorded'
  <2>1. RowsInOrder'
    BY <1>3 DEF RecordOwner, RowsInOrder, ChainFree, Busy
  <2>2. CreationAlone'
    BY <1>3 DEF RecordOwner, CreationAlone
  <2>3. TargetReady'
    BY <1>3 DEF RecordOwner, TargetReady, Executing
  <2>4. InputsReady'
    BY <1>3 DEF RecordOwner, InputsReady
  <2>5. RowsComplete'
    BY <1>3 DEF RecordOwner, RowsComplete
  <2>6. SeenDoneComplete'
    BY <1>3 DEF RecordOwner, SeenDoneComplete
  <2> QED BY <2>1, <2>2, <2>3, <2>4, <2>5, <2>6 DEF Recorded
<1>4. ASSUME NEW p \in Procs, Enqueue(p) PROVE Recorded'
  <2>1. RowsInOrder'
    BY <1>4 DEF Enqueue, tables, RowsInOrder, ChainFree, Busy
  <2>2. CreationAlone'
    BY <1>4 DEF Enqueue, tables, CreationAlone
  <2>3. TargetReady'
    BY <1>4 DEF Enqueue, tables, TargetReady, Executing
  <2>4. InputsReady'
    BY <1>4 DEF Enqueue, tables, InputsReady
  <2>5. RowsComplete'
    BY <1>4 DEF Enqueue, tables, RowsComplete
  <2>6. SeenDoneComplete'
    BY <1>4 DEF Enqueue, tables, SeenDoneComplete
  <2> QED BY <2>1, <2>2, <2>3, <2>4, <2>5, <2>6 DEF Recorded
<1>5. ASSUME NEW c \in Clients, NEW j \in Jobs, Resume(c, j) PROVE Recorded'
  <2>1. RowsInOrder'
    BY <1>5 DEF Resume, Operable, CountCall, tables, RowsInOrder, ChainFree, Busy
  <2>2. CreationAlone'
    BY <1>5 DEF Resume, Operable, CountCall, tables, CreationAlone
  <2>3. TargetReady'
    BY <1>5 DEF Resume, Operable, CountCall, tables, TargetReady, Executing
  <2>4. InputsReady'
    BY <1>5 DEF Resume, Operable, CountCall, tables, InputsReady
  <2>5. RowsComplete'
    BY <1>5 DEF Resume, Operable, CountCall, tables, RowsComplete
  <2>6. SeenDoneComplete'
    BY <1>5 DEF Resume, Operable, CountCall, tables, SeenDoneComplete
  <2> QED BY <2>1, <2>2, <2>3, <2>4, <2>5, <2>6 DEF Recorded
<1>6. ASSUME NEW c \in Clients, NEW j \in Jobs, Retry(c, j) PROVE Recorded'
  <2>1. RowsInOrder'
    BY <1>6 DEF Retry, Operable, CountCall, IsFirst, FailedSteps, tables, RowsInOrder, ChainFree, Busy
  <2>2. CreationAlone'
    BY <1>6 DEF Retry, Operable, CountCall, IsFirst, FailedSteps, tables, CreationAlone
  <2>3. TargetReady'
    BY <1>6 DEF Retry, Operable, CountCall, IsFirst, FailedSteps, tables, TargetReady, Executing
  <2>4. InputsReady'
    BY <1>6 DEF Retry, Operable, CountCall, IsFirst, FailedSteps, tables, InputsReady
  <2>5. RowsComplete'
    BY <1>6 DEF Retry, Operable, CountCall, IsFirst, FailedSteps, tables, RowsComplete
  <2>6. SeenDoneComplete'
    BY <1>6 DEF Retry, Operable, CountCall, IsFirst, FailedSteps, tables, SeenDoneComplete
  <2> QED BY <2>1, <2>2, <2>3, <2>4, <2>5, <2>6 DEF Recorded
<1>7. ASSUME NEW c \in Clients, ResetStep(c) PROVE Recorded'
  <2>1. SetStep(c, "pending", "enqueue") /\ pc[c] = "reset"
    BY <1>7 DEF ResetStep
  <2>2. UNCHANGED <<jobStatus, queue, at, cur, seen>>
    BY <1>7 DEF ResetStep
  <2>3. results' = results
    BY <1>7 DEF ResetStep
  <2> QED BY <2>1, <2>2, <2>3, SetStepKeeps DEF Recorded
<1>8. ASSUME NEW w \in Workers, NEW j \in Jobs, Take(w, j) PROVE Recorded'
  <2>1. RowsInOrder'
    BY <1>8 DEF Take, tables, RowsInOrder, ChainFree, Busy
  <2>2. CreationAlone'
    BY <1>8 DEF Take, tables, CreationAlone
  <2>3. TargetReady'
    BY <1>8 DEF Take, tables, TargetReady, Executing
  <2>4. InputsReady'
    BY <1>8 DEF Take, tables, InputsReady
  <2>5. RowsComplete'
    BY <1>8 DEF Take, tables, RowsComplete
  <2>6. SeenDoneComplete'
    BY <1>8 DEF Take, tables, SeenDoneComplete
  <2> QED BY <2>1, <2>2, <2>3, <2>4, <2>5, <2>6 DEF Recorded
<1>9. ASSUME NEW w \in Workers, PollJob(w) PROVE Recorded'
  <2>1. CreationAlone' /\ TargetReady'
    BY <1>9, PollJobKeeps
  <2>2. RowsInOrder'
    BY <1>9 DEF PollJob, tables, RowsInOrder, ChainFree, Busy
  <2>3. InputsReady'
    BY <1>9 DEF PollJob, tables, InputsReady
  <2>4. RowsComplete'
    BY <1>9 DEF PollJob, tables, RowsComplete
  <2>5. \A p \in Procs : pc'[p] = "store" => pc[p] = "store" /\ seen'[p] = seen[p] /\ at'[p] = at[p]
    BY <1>9 DEF PollJob
  <2>6. SeenDoneComplete'
    BY <2>5, <1>9 DEF PollJob, tables, SeenDoneComplete
  <2> QED BY <2>1, <2>2, <2>3, <2>4, <2>6 DEF Recorded
<1>10. ASSUME NEW w \in Workers, PickStep(w) PROVE Recorded'
  <2>1. CreationAlone' /\ TargetReady'
    BY <1>10, PickStepKeeps
  <2>2. RowsInOrder'
    BY <1>10 DEF PickStep, Unfinished, IsFirst, tables, RowsInOrder, ChainFree, Busy
  <2>3. InputsReady'
    BY <1>10 DEF PickStep, Unfinished, IsFirst, tables, InputsReady
  <2>4. RowsComplete'
    BY <1>10 DEF PickStep, Unfinished, IsFirst, tables, RowsComplete
  <2>5. \A p \in Procs : pc'[p] = "store" => pc[p] = "store" /\ seen'[p] = seen[p] /\ at'[p] = at[p]
    BY <1>10 DEF PickStep
  <2>6. SeenDoneComplete'
    BY <2>5, <1>10 DEF PickStep, tables, SeenDoneComplete
  <2> QED BY <2>1, <2>2, <2>3, <2>4, <2>6 DEF Recorded
<1>11. ASSUME NEW w \in Workers, StartStep(w) PROVE Recorded'
  <2>1. SetStep(w, "running", "exec") /\ pc[w] = "start"
    BY <1>11 DEF StartStep
  <2>2. UNCHANGED <<jobStatus, queue, at, cur, seen>>
    BY <1>11 DEF StartStep
  <2>3. results' = results
    BY <1>11 DEF StartStep
  <2> QED BY <2>1, <2>2, <2>3, SetStepKeeps DEF Recorded
<1>12. ASSUME NEW p \in Procs, ReadSteps(p) PROVE Recorded'
  <2>1. SeenDoneComplete'
    BY <1>12, ReadStepsKeeps
  <2>2. RowsInOrder'
    BY <1>12 DEF ReadSteps, tables, RowsInOrder, ChainFree, Busy
  <2>3. CreationAlone'
    BY <1>12 DEF ReadSteps, tables, CreationAlone
  <2>4. TargetReady'
    BY <1>12 DEF ReadSteps, tables, TargetReady, Executing
  <2>5. InputsReady'
    BY <1>12 DEF ReadSteps, tables, InputsReady
  <2>6. RowsComplete'
    BY <1>12 DEF ReadSteps, tables, RowsComplete
  <2> QED BY <2>1, <2>2, <2>3, <2>4, <2>5, <2>6 DEF Recorded
<1>13. ASSUME NEW p \in Procs, StoreStatus(p) PROVE Recorded'
  <2>1. RowsInOrder' /\ CreationAlone' /\ TargetReady' /\ RowsComplete'
    BY <1>13, StoreStatusKeeps
  <2>2. InputsReady'
    BY <1>13 DEF StoreStatus, InputsReady
  <2>3. SeenDoneComplete'
    BY <1>13 DEF StoreStatus, SeenDoneComplete
  <2> QED BY <2>1, <2>2, <2>3 DEF Recorded
<1>14. ASSUME NEW w \in Workers, FinishStep(w) PROVE Recorded'
  <2>1. SetStep(w, "done", "check") /\ pc[w] = "exec"
    BY <1>14 DEF FinishStep
  <2>2. UNCHANGED <<jobStatus, queue, at, cur, seen>>
    BY <1>14 DEF FinishStep
  <2>3. results' = [results EXCEPT ![at[w]] = @ \cup {cur[w]}]
    BY <1>14 DEF FinishStep
  <2> QED BY <2>1, <2>2, <2>3, SetStepKeeps DEF Recorded
<1>15. ASSUME NEW w \in Workers, FailStep(w) PROVE Recorded'
  <2>1. SetStep(w, "failed", "check") /\ pc[w] = "exec"
    BY <1>15 DEF FailStep
  <2>2. UNCHANGED <<jobStatus, queue, at, cur, seen>>
    BY <1>15 DEF FailStep
  <2>3. results' = results
    BY <1>15 DEF FailStep
  <2> QED BY <2>1, <2>2, <2>3, SetStepKeeps DEF Recorded
<1>16. ASSUME NEW w \in Workers, CheckJob(w) PROVE Recorded'
  <2>1. RowsInOrder'
    BY <1>16 DEF CheckJob, tables, RowsInOrder, ChainFree, Busy
  <2>2. CreationAlone'
    BY <1>16 DEF CheckJob, tables, CreationAlone
  <2>3. TargetReady'
    BY <1>16 DEF CheckJob, tables, TargetReady, Executing
  <2>4. InputsReady'
    BY <1>16 DEF CheckJob, tables, InputsReady
  <2>5. RowsComplete'
    BY <1>16 DEF CheckJob, tables, RowsComplete
  <2>6. SeenDoneComplete'
    BY <1>16 DEF CheckJob, tables, SeenDoneComplete
  <2> QED BY <2>1, <2>2, <2>3, <2>4, <2>5, <2>6 DEF Recorded
<1>17. ASSUME NEW w \in Workers, Notify(w) PROVE Recorded'
  <2>1. RowsInOrder'
    BY <1>17 DEF Notify, RowsInOrder, ChainFree, Busy
  <2>2. CreationAlone'
    BY <1>17 DEF Notify, CreationAlone
  <2>3. TargetReady'
    BY <1>17 DEF Notify, TargetReady, Executing
  <2>4. InputsReady'
    BY <1>17 DEF Notify, InputsReady
  <2>5. RowsComplete'
    BY <1>17 DEF Notify, RowsComplete
  <2>6. SeenDoneComplete'
    BY <1>17 DEF Notify, SeenDoneComplete
  <2> QED BY <2>1, <2>2, <2>3, <2>4, <2>5, <2>6 DEF Recorded
<1>18. ASSUME NEW p \in Procs, Crash(p) PROVE Recorded'
  <2>1. RowsInOrder'
    BY <1>18 DEF Crash, tables, RowsInOrder, ChainFree, Busy
  <2>2. CreationAlone'
    BY <1>18 DEF Crash, tables, CreationAlone
  <2>3. TargetReady'
    BY <1>18 DEF Crash, tables, TargetReady, Executing
  <2>4. InputsReady'
    BY <1>18 DEF Crash, tables, InputsReady
  <2>5. RowsComplete'
    BY <1>18 DEF Crash, tables, RowsComplete
  <2>6. SeenDoneComplete'
    BY <1>18 DEF Crash, tables, SeenDoneComplete
  <2> QED BY <2>1, <2>2, <2>3, <2>4, <2>5, <2>6 DEF Recorded
<1>19. ASSUME NEW j \in Jobs, Redeliver(j) PROVE Recorded'
  <2>1. RowsInOrder'
    BY <1>19 DEF Redeliver, tables, locals, RowsInOrder, ChainFree, Busy
  <2>2. CreationAlone'
    BY <1>19 DEF Redeliver, tables, locals, CreationAlone
  <2>3. TargetReady'
    BY <1>19 DEF Redeliver, tables, locals, TargetReady, Executing
  <2>4. InputsReady'
    BY <1>19 DEF Redeliver, tables, locals, InputsReady
  <2>5. RowsComplete'
    BY <1>19 DEF Redeliver, tables, locals, RowsComplete
  <2>6. SeenDoneComplete'
    BY <1>19 DEF Redeliver, tables, locals, SeenDoneComplete
  <2> QED BY <2>1, <2>2, <2>3, <2>4, <2>5, <2>6 DEF Recorded
<1>20. CASE UNCHANGED vars
  BY <1>20 DEF vars, tables, locals, Recorded, RowsInOrder, ChainFree, Busy, CreationAlone,
     TargetReady, Executing, InputsReady, RowsComplete, SeenDoneComplete
<1> QED
  BY <1>1, <1>2, <1>3, <1>4, <1>5, <1>6, <1>7, <1>8, <1>9, <1>10, <1>11, <1>12,
     <1>13, <1>14, <1>15, <1>16, <1>17, <1>18, <1>19, <1>20
  DEF Next, WorkerStep, ClientStep

\* The strengthened invariant holds in every behaviour, for every bound on the faults.
THEOREM FaultInvariant == Spec => []FaultInv
<1>1. Init => FaultInv
  BY Literals, NoJobAssumption
  DEF Init, FaultInv, TypeOK, LocalsFit, RowsInOrder, ChainFree, Busy, CreationAlone, TargetReady,
      Executing, InputsReady, RowsComplete, SeenDoneComplete
<1>2. FaultInv /\ (TypeOK /\ LocalsFit)' /\ [Next]_vars => FaultInv'
  BY RecordedStep DEF FaultInv, Recorded
<1> QED BY <1>1, <1>2, TypeCorrect, PTL DEF Spec

\* Whatever is redelivered, killed or called too early: a started step finds the
\* results of the steps before it (run_pipeline_step).
THEOREM FaultTolerant == Spec => []InputsReady
<1>1. FaultInv => InputsReady
  BY DEF FaultInv
<1> QED BY <1>1, FaultInvariant, PTL

-----------------------------------------------------------------------------
(* Whose steps are missing: only a crash of create_job leaves a job with   *)
(* fewer than N rows that nobody adds to.                                  *)

CutByCrash ==
  \A j \in Jobs : jobStatus[j] # "absent" /\ CutShort(j) => spent["crash"] > 0

\* A step that changes no row's presence, no job's and no creation, cuts no job short.
LEMMA CutKept ==
  ASSUME CutByCrash,
         \A j \in Jobs : jobStatus'[j] # "absent" => jobStatus[j] # "absent",
         \A j \in Jobs, k \in Steps : stepStatus'[j][k] = "absent" => stepStatus[j][k] = "absent",
         \A p \in Procs : pc[p] = "insert" => pc'[p] = "insert" /\ at'[p] = at[p],
         spent'["crash"] = spent["crash"]
  PROVE  CutByCrash'
BY DEF CutByCrash, CutShort

LEMMA CutStep ==
  ASSUME FaultInv, CutByCrash, [Next]_vars
  PROVE  CutByCrash'
<1> USE DEF FaultInv, TypeOK, Procs
<1>1. ASSUME NEW c \in Clients, NEW j \in Jobs, CreateJob(c, j) PROVE CutByCrash'
  <2> SUFFICES ASSUME NEW i \in Jobs, jobStatus'[i] # "absent", CutShort(i)'
               PROVE  spent'["crash"] > 0
    BY DEF CutByCrash
  <2>1. c \in Procs /\ pc'[c] = "insert" /\ at'[c] = j
    BY <1>1 DEF CreateJob, Goto
  <2>2. i # j
    BY <2>1 DEF CutShort
  <2>3. jobStatus[i] # "absent" /\ stepStatus' = stepStatus /\ spent' = spent
    BY <1>1, <2>2 DEF CreateJob
  <2>4. \A p \in Procs : at[p] = i => p # c /\ pc'[p] = pc[p] /\ at'[p] = at[p]
    BY <1>1, NoJobAssumption DEF CreateJob, Goto, LocalsFit
  <2> QED BY <2>3, <2>4 DEF CutByCrash, CutShort
<1>2. ASSUME NEW c \in Clients, InsertStep(c) PROVE CutByCrash'
  <2> SUFFICES ASSUME NEW i \in Jobs, jobStatus'[i] # "absent", CutShort(i)'
               PROVE  spent'["crash"] > 0
    BY DEF CutByCrash
  <2>1. /\ c \in Procs /\ pc[c] = "insert" /\ at[c] \in Jobs /\ cur[c] \in Steps
        /\ \A k \in Steps : stepStatus[at[c]][k] = IF k < cur[c] THEN "pending" ELSE "absent"
    BY <1>2 DEF InsertStep, LocalsFit, CreationAlone
  <2>2. \A j \in Jobs, k \in Steps :
           stepStatus'[j][k] = IF j = at[c] /\ k = cur[c] THEN "pending" ELSE stepStatus[j][k]
    BY <1>2, <2>1 DEF InsertStep
  <2>3. at' = at /\ jobStatus' = jobStatus /\ spent' = spent
    BY <1>2 DEF InsertStep
  <2>4. \A p \in Procs : p # c => pc'[p] = pc[p]
    BY <1>2 DEF InsertStep, Goto
  <2>5. CASE i = at[c]
    <3>1. pc'[c] # "insert"
      BY <2>1, <2>3, <2>5 DEF CutShort
    <3>2. cur[c] = N
      BY <1>2, <2>1, <3>1 DEF InsertStep
    <3>3. \A k \in Steps : stepStatus'[i][k] = "pending"
      BY <2>1, <2>2, <2>5, <3>2, StepsAssumption DEF Steps
    <3> QED BY <3>3 DEF CutShort
  <2>6. CASE i # at[c]
    <3>1. \A k \in Steps : stepStatus'[i][k] = stepStatus[i][k]
      BY <2>2, <2>6
    <3>2. \A p \in Procs : at[p] = i => pc[p] # "insert"
      BY <2>3, <2>4, <2>6 DEF CutShort
    <3>3. CutShort(i)
      BY <3>1, <3>2 DEF CutShort
    <3> QED BY <2>3, <3>3 DEF CutByCrash
  <2> QED BY <2>5, <2>6
<1>3. ASSUME NEW p \in Procs, Crash(p) PROVE CutByCrash'
  BY <1>3 DEF Crash, CutByCrash
<1>4. ASSUME NEW p \in Procs, pc[p] \in {"reset", "start", "exec"}, NEW s \in Status, NEW next,
             SetStep(p, s, next), UNCHANGED <<jobStatus, at, spent>>
      PROVE  CutByCrash'
  <2>1. at[p] \in Jobs /\ cur[p] \in Steps /\ s # "absent"
    BY <1>4 DEF LocalsFit, Status
  <2>2. \A j \in Jobs, k \in Steps : stepStatus'[j][k] = "absent" => stepStatus[j][k] = "absent"
    BY <1>4, <2>1 DEF SetStep
  <2>3. \A q \in Procs : pc[q] = "insert" => pc'[q] = "insert"
    BY <1>4 DEF SetStep
  <2>4. \A q \in Procs : pc[q] = "insert" => pc'[q] = "insert" /\ at'[q] = at[q]
    BY <1>4, <2>3
  <2>5. /\ \A j \in Jobs : jobStatus'[j] # "absent" => jobStatus[j] # "absent"
        /\ spent'["crash"] = spent["crash"]
    BY <1>4
  <2> HIDE DEF FaultInv
  <2> QED BY <2>2, <2>4, <2>5, CutKept
<1>5. ASSUME NEW p \in Procs, StoreStatus(p) PROVE CutByCrash'
  <2>1. at[p] \in Jobs
    BY <1>5 DEF StoreStatus, LocalsFit
  <2>2. ~ ChainFree(at[p])
    BY <1>5 DEF ChainFree, Busy
  <2>3. jobStatus[at[p]] # "absent"
    BY <2>1, <2>2 DEF RowsInOrder
  <2>4. \A j \in Jobs : jobStatus'[j] # "absent" => jobStatus[j] # "absent"
    BY <1>5, <2>1, <2>3 DEF StoreStatus
  <2>5. \A q \in Procs : pc[q] = "insert" => pc'[q] = "insert" /\ at'[q] = at[q]
    BY <1>5 DEF StoreStatus
  <2>6. UNCHANGED <<stepStatus, spent>>
    BY <1>5 DEF StoreStatus
  <2> HIDE DEF FaultInv
  <2> QED BY <2>4, <2>5, <2>6, CutKept
<1>6. ASSUME UNCHANGED <<stepStatus, jobStatus>>, spent'["crash"] = spent["crash"],
             \A p \in Procs : pc[p] = "insert" => pc'[p] = "insert" /\ at'[p] = at[p]
      PROVE  CutByCrash'
  BY <1>6, CutKept
<1>7. ASSUME NEW c \in Clients, ClientStep(c) PROVE CutByCrash'
  <2>1. c \in Procs
    OBVIOUS
  <2>2. CASE ResetStep(c)
    BY <1>4, <2>1, <2>2, Literals DEF ResetStep
  <2>3. CASE RecordOwner(c) \/ Enqueue(c) \/ ReadSteps(c)
    BY <1>6, <2>3 DEF RecordOwner, Enqueue, ReadSteps, Goto, Return, tables
  <2> QED BY <1>2, <1>5, <1>7, <2>1, <2>2, <2>3 DEF ClientStep
<1>8. ASSUME NEW w \in Workers, WorkerStep(w) PROVE CutByCrash'
  <2>1. w \in Procs
    OBVIOUS
  <2>2. CASE StartStep(w) \/ FinishStep(w) \/ FailStep(w)
    <3>1. "running" \in Status /\ "done" \in Status /\ "failed" \in Status
      BY DEF Status
    <3> QED BY <1>4, <2>1, <2>2, <3>1 DEF StartStep, FinishStep, FailStep
  <2>3. CASE PollJob(w) \/ PickStep(w) \/ CheckJob(w)
    <3>1. pc[w] # "insert" /\ UNCHANGED <<tables, spent>>
      BY <2>3 DEF PollJob, PickStep, CheckJob
    <3>2. \A p \in Procs : p # w => pc'[p] = pc[p] /\ at'[p] = at[p]
      BY <2>3 DEF PollJob, PickStep, CheckJob, Goto, Return
    <3> QED BY <1>6, <3>1, <3>2 DEF tables
  <2>4. CASE Enqueue(w) \/ ReadSteps(w) \/ Notify(w)
    BY <1>6, <2>4 DEF Enqueue, ReadSteps, Notify, Goto, Return, tables
  <2> QED BY <1>5, <1>8, <2>1, <2>2, <2>3, <2>4 DEF WorkerStep
<1>9. ASSUME NEW w \in Workers, NEW j \in Jobs, Take(w, j) PROVE CutByCrash'
  BY <1>6, <1>9 DEF Take, Goto, tables
<1>10. ASSUME NEW c \in Clients, NEW j \in Jobs, Resume(c, j) \/ Retry(c, j) PROVE CutByCrash'
  BY <1>6, <1>10 DEF Resume, Retry, CountCall, Goto, tables
<1>11. CASE UNCHANGED vars \/ \E j \in Jobs : Redeliver(j)
  BY <1>6, <1>11 DEF vars, tables, locals, Redeliver
<1> QED BY <1>1, <1>3, <1>7, <1>8, <1>9, <1>10, <1>11 DEF Next

\* Whatever is redelivered, killed or called too early: a job that is done has the results
\* of all N steps (_recompute_job_status), but for one whose create_job was killed before
\* its last INSERT, which has those of the steps that were inserted.
THEOREM DoneIsComplete == Spec => []DoneMeansComplete
<1>1. Init => CutByCrash
  BY DEF Init, CutByCrash
<1>2. FaultInv /\ CutByCrash /\ [Next]_vars => CutByCrash'
  BY CutStep
<1>3. FaultInv /\ CutByCrash => DoneMeansComplete
  <2> SUFFICES ASSUME FaultInv, CutByCrash, NEW j \in Jobs, jobStatus[j] = "done", results[j] # Steps
               PROVE  /\ CutShort(j) /\ spent["crash"] > 0
                      /\ \A k \in Steps : stepStatus[j][k] # "absent" => k \in results[j]
    BY DEF DoneMeansComplete
  <2>1. \A k \in Steps : stepStatus[j][k] # "absent" => k \in results[j]
    BY DEF FaultInv, RowsComplete
  <2>2. results[j] \subseteq Steps
    BY DEF FaultInv, TypeOK
  <2>3. \E k \in Steps : stepStatus[j][k] = "absent"
    BY <2>1, <2>2
  <2>4. \A p \in Procs : at[p] = j => pc[p] # "insert"
    BY DEF FaultInv, CreationAlone
  <2> QED BY <2>1, <2>3, <2>4 DEF CutByCrash, CutShort
<1> QED BY <1>1, <1>2, <1>3, FaultInvariant, PTL DEF Spec
-----------------------------------------------------------------------------
(***************************************************************************)
(* When operators wait for a job's chain to end and the broker does not     *)
(* redeliver, whatever crashes: a job has one chain, its steps run in their *)
(* order, no done step is computed again, notices are true and success is   *)
(* the last of them, and the job follows its life cycle.                    *)
(***************************************************************************)

\* What a process knows of the step it is about to change: it runs the first step
\* that is not done, it finishes the step it started, it resets a failed one.
ChainLocals ==
  \A p \in Procs :
    /\ pc[p] = "start" =>
         /\ stepStatus[at[p]][cur[p]] \notin {"absent", "done"}
         /\ \A i \in Steps : i < cur[p] => stepStatus[at[p]][i] = "done"
    /\ pc[p] = "exec" \/ (pc[p] \in {"derive", "store"} /\ then[p] = "exec") =>
         stepStatus[at[p]][cur[p]] = "running"
    /\ pc[p] = "reset" => stepStatus[at[p]][cur[p]] = "failed"

\* SingleChain and StepsInOrder are not inductive without what the processes know;
\* ChainInv is, on top of FaultInv.
ChainInv == SingleChain /\ StepsInOrder /\ ChainLocals

\* One step of DoneStaysDone.
DoneKept ==
  \A j \in Jobs, k \in Steps : stepStatus[j][k] = "done" => stepStatus'[j][k] = "done"

\* UPDATE job_steps of a step that is not done keeps the order of the steps, if it
\* resets the step or all steps before it are done.
LEMMA SetStepOrder ==
  ASSUME FaultInv, StepsInOrder, NEW p \in Procs, at[p] \in Jobs, cur[p] \in Steps,
         NEW s \in Status, NEW next, SetStep(p, s, next),
         stepStatus[at[p]][cur[p]] # "done",
         s = "pending" \/ \A i \in Steps : i < cur[p] => stepStatus[at[p]][i] = "done"
  PROVE  StepsInOrder'
<1> DEFINE J == at[p]
           K == cur[p]
<1>1. \A j \in Jobs, k \in Steps :
         stepStatus'[j][k] = IF j = J /\ k = K THEN s ELSE stepStatus[j][k]
  BY DEF FaultInv, TypeOK, SetStep
<1> SUFFICES ASSUME NEW j \in Jobs, NEW i \in Steps, NEW k \in Steps, i < k,
                    stepStatus'[j][k] \notin {"absent", "pending"}
             PROVE  stepStatus'[j][i] = "done"
  BY DEF StepsInOrder
<1>2. CASE j = J /\ k = K
  BY <1>1, <1>2 DEF Steps
<1>3. CASE ~(j = J /\ k = K)
  <2>1. stepStatus[j][i] = "done"
    BY <1>1, <1>3 DEF StepsInOrder
  <2>2. ~(j = J /\ i = K)
    BY <2>1
  <2> QED BY <1>1, <2>1, <2>2
<1> QED BY <1>2, <1>3

\* A process that stays with its job, or leaves it, starts no second chain.
LEMMA LeavingKeepsChain ==
  ASSUME SingleChain, TypeOK, NEW p \in Procs, UNCHANGED queue, at' = [at EXCEPT ![p] = NoJob] \/ at' = at
  PROVE  SingleChain'
BY NoJobAssumption DEF SingleChain, Busy, TypeOK

\* UPDATE jobs changes no step.
LEMMA StoreStatusLocals ==
  ASSUME FaultInv, ChainInv, NEW p \in Procs, StoreStatus(p)
  PROVE  ChainLocals'
<1>1. UNCHANGED <<stepStatus, at, cur>>
  BY DEF StoreStatus
<1>2. \A q \in Procs : q # p => pc'[q] = pc[q] /\ then'[q] = then[q]
  BY DEF StoreStatus, FaultInv, TypeOK
<1>3. pc[p] = "store" /\ pc'[p] = then[p] /\ then[p] \in {"exec", "check", "enqueue"}
  BY DEF StoreStatus, FaultInv, TypeOK, LocalsFit
<1>4. ChainLocals
  BY DEF ChainInv
<1> QED BY <1>1, <1>2, <1>3, <1>4 DEF ChainLocals

\* What ran had everything before it done.
LEMMA BeforeEnded ==
  ASSUME StepsInOrder, NEW j \in Jobs, NEW k \in Steps, stepStatus[j][k] \in {"running", "failed"}
  PROVE  stepStatus[j][k] # "done" /\ \A i \in Steps : i < k => stepStatus[j][i] = "done"
BY DEF StepsInOrder

\* create_job inserts steps that nobody has started.
LEMMA InsertStepOrder ==
  ASSUME FaultInv, ChainInv, NEW c \in Clients, InsertStep(c)
  PROVE  StepsInOrder' /\ ChainLocals'
<1> USE DEF FaultInv, ChainInv, TypeOK, Procs
<1> DEFINE J == at[c]
           K == cur[c]
<1>1. c \in Procs /\ pc[c] = "insert" /\ J \in Jobs /\ K \in Steps
  BY DEF InsertStep, LocalsFit
<1>2. /\ \A q \in Procs : at[q] = J => q = c
      /\ \A k \in Steps : stepStatus[J][k] \in {"pending", "absent"}
  BY <1>1 DEF CreationAlone
<1>3. \A j \in Jobs, k \in Steps :
         stepStatus'[j][k] = IF j = J /\ k = K THEN "pending" ELSE stepStatus[j][k]
  BY <1>1 DEF InsertStep
<1>4. UNCHANGED <<at, then>>
  BY DEF InsertStep
<1>5. /\ \A q \in Procs : q # c => pc'[q] = pc[q] /\ cur'[q] = cur[q]
      /\ pc'[c] \in {"insert", "own", "enqueue"}
  BY <1>1 DEF InsertStep, Goto
<1>6. StepsInOrder'
  <2> SUFFICES ASSUME NEW j \in Jobs, NEW i \in Steps, NEW k \in Steps, i < k,
                      stepStatus'[j][k] \notin {"absent", "pending"}
               PROVE  stepStatus'[j][i] = "done"
    BY DEF StepsInOrder
  <2>1. j # J
    BY <1>2, <1>3
  <2> QED BY <1>3, <2>1 DEF StepsInOrder
<1>7. ChainLocals'
  <2>1. ASSUME NEW q \in Procs, q # c, pc'[q] # "idle"
        PROVE  /\ pc'[q] = pc[q] /\ at'[q] = at[q] /\ cur'[q] = cur[q] /\ then'[q] = then[q]
               /\ \A k \in Steps : stepStatus'[at[q]][k] = stepStatus[at[q]][k]
    BY <1>2, <1>3, <1>4, <1>5, <2>1 DEF LocalsFit
  <2>2. \A q \in Procs : q = c \/ pc'[q] = "idle" => pc'[q] \notin {"start", "exec", "derive", "store", "reset"}
    BY <1>5
  <2>3. \A q \in Procs : cur[q] \in Steps \/ pc[q] \notin {"start", "exec", "derive", "store", "reset"}
    BY DEF LocalsFit
  <2> HIDE DEF FaultInv, ChainInv, TypeOK, Procs
  <2>4. ChainLocals
    BY DEF ChainInv
  <2> QED BY <2>1, <2>2, <2>3, <2>4 DEF ChainLocals
<1> QED BY <1>6, <1>7

\* next_pending_step answers the first step that is not done.
LEMMA PickStepLocals ==
  ASSUME FaultInv, ChainInv, NEW w \in Workers, PickStep(w)
  PROVE  ChainLocals'
<1> USE NoJobAssumption DEF FaultInv, ChainInv, TypeOK, Procs
<1>1. UNCHANGED stepStatus
  BY DEF PickStep, tables
<1>2. CASE Return(w)
  BY <1>1, <1>2 DEF Return, ChainLocals
<1>3. ASSUME NEW k \in Unfinished(stepStatus[at[w]]),
             IsFirst(k, Unfinished(stepStatus[at[w]])),
             cur' = [cur EXCEPT ![w] = k], Goto(w, "start"), UNCHANGED <<at, seen, then>>
      PROVE  ChainLocals'
  <2>1. at[w] \in Jobs /\ DOMAIN stepStatus[at[w]] = Steps
    BY DEF PickStep, LocalsFit
  <2>2. k \in Steps /\ stepStatus[at[w]][k] \notin {"absent", "done"}
    BY <2>1 DEF Unfinished
  <2>3. ASSUME NEW i \in Steps, i < k PROVE stepStatus[at[w]][i] = "done"
    <3>1. i \notin Unfinished(stepStatus[at[w]])
      BY <1>3, <2>2, <2>3 DEF IsFirst, Steps
    <3>2. stepStatus[at[w]][i] # "absent"
      BY <2>1, <2>2, <2>3 DEF RowsInOrder
    <3> QED BY <2>1, <3>1, <3>2 DEF Unfinished
  <2> QED BY <1>1, <1>3, <2>2, <2>3 DEF Goto, ChainLocals
<1> QED BY <1>2, <1>3 DEF PickStep

\* next_pending_step leaves the task of a job that has ended.
LEMMA PollJobLocals ==
  ASSUME FaultInv, ChainInv, NEW w \in Workers, PollJob(w)
  PROVE  ChainLocals'
<1> USE NoJobAssumption DEF FaultInv, ChainInv, TypeOK, Procs
<1>1. UNCHANGED stepStatus
  BY DEF PollJob, tables
<1>2. CASE Return(w)
  BY <1>1, <1>2 DEF Return, ChainLocals
<1>3. CASE Goto(w, "pick") /\ UNCHANGED <<at, cur, seen, then>>
  BY <1>1, <1>3 DEF Goto, ChainLocals
<1> QED BY <1>2, <1>3 DEF PollJob

LEMMA ChainStep ==
  ASSUME Careful, MaxRedeliveries = 0, FaultInv, ChainInv, TypeOK', LocalsFit', [Next]_vars
  PROVE  ChainInv' /\ DoneKept
<1> USE Literals, NoJobAssumption DEF FaultInv, ChainInv, TypeOK, LocalsFit, Procs, Goto, Return
<1>1. ASSUME NEW c \in Clients, NEW j \in Jobs, CreateJob(c, j) PROVE ChainInv' /\ DoneKept
  <2>1. SingleChain'
    BY <1>1 DEF CreateJob, SingleChain, ChainFree, Busy, RowsInOrder
  <2>2. StepsInOrder'
    BY <1>1 DEF CreateJob, StepsInOrder
  <2>3. ChainLocals'
    BY <1>1 DEF CreateJob, ChainLocals, SingleChain
  <2>4. DoneKept
    BY <1>1 DEF CreateJob, DoneKept, ChainLocals, CreationAlone
  <2> QED BY <2>1, <2>2, <2>3, <2>4
<1>2. ASSUME NEW c \in Clients, InsertStep(c) PROVE ChainInv' /\ DoneKept
  <2>1. StepsInOrder' /\ ChainLocals'
    BY <1>2, InsertStepOrder
  <2>2. SingleChain'
    BY <1>2 DEF InsertStep, SingleChain, ChainFree, Busy, RowsInOrder
  <2>3. DoneKept
    BY <1>2 DEF InsertStep, DoneKept, ChainLocals, CreationAlone
  <2> QED BY <2>1, <2>2, <2>3
<1>3. ASSUME NEW c \in Clients, RecordOwner(c) PROVE ChainInv' /\ DoneKept
  <2>1. SingleChain'
    BY <1>3 DEF RecordOwner, SingleChain, ChainFree, Busy, RowsInOrder
  <2>2. StepsInOrder'
    BY <1>3 DEF RecordOwner, StepsInOrder
  <2>3. ChainLocals'
    BY <1>3 DEF RecordOwner, ChainLocals, SingleChain
  <2>4. DoneKept
    BY <1>3 DEF RecordOwner, DoneKept, ChainLocals, CreationAlone
  <2> QED BY <2>1, <2>2, <2>3, <2>4
<1>4. ASSUME NEW p \in Procs, Enqueue(p) PROVE ChainInv' /\ DoneKept
  <2>1. SingleChain'
    BY <1>4 DEF Enqueue, tables, SingleChain, ChainFree, Busy, RowsInOrder
  <2>2. StepsInOrder'
    BY <1>4 DEF Enqueue, tables, StepsInOrder
  <2>3. ChainLocals'
    BY <1>4 DEF Enqueue, tables, ChainLocals, SingleChain
  <2>4. DoneKept
    BY <1>4 DEF Enqueue, tables, DoneKept, ChainLocals, CreationAlone
  <2> QED BY <2>1, <2>2, <2>3, <2>4
<1>5. ASSUME NEW c \in Clients, NEW j \in Jobs, Resume(c, j) PROVE ChainInv' /\ DoneKept
  <2>1. SingleChain'
    BY <1>5 DEF Resume, Operable, CountCall, tables, SingleChain, ChainFree, Busy, RowsInOrder
  <2>2. StepsInOrder'
    BY <1>5 DEF Resume, Operable, CountCall, tables, StepsInOrder
  <2>3. ChainLocals'
    BY <1>5 DEF Resume, Operable, CountCall, tables, ChainLocals, SingleChain
  <2>4. DoneKept
    BY <1>5 DEF Resume, Operable, CountCall, tables, DoneKept, ChainLocals, CreationAlone
  <2> QED BY <2>1, <2>2, <2>3, <2>4
<1>6. ASSUME NEW c \in Clients, NEW j \in Jobs, Retry(c, j) PROVE ChainInv' /\ DoneKept
  <2>1. SingleChain'
    BY <1>6 DEF Retry, Operable, CountCall, IsFirst, FailedSteps, tables, SingleChain, ChainFree, Busy, RowsInOrder
  <2>2. StepsInOrder'
    BY <1>6 DEF Retry, Operable, CountCall, IsFirst, FailedSteps, tables, StepsInOrder
  <2>3. ChainLocals'
    BY <1>6 DEF Retry, Operable, CountCall, IsFirst, FailedSteps, tables, ChainLocals, SingleChain
  <2>4. DoneKept
    BY <1>6 DEF Retry, Operable, CountCall, IsFirst, FailedSteps, tables, DoneKept, ChainLocals, CreationAlone
  <2> QED BY <2>1, <2>2, <2>3, <2>4
<1>7. ASSUME NEW c \in Clients, ResetStep(c) PROVE ChainInv' /\ DoneKept
  <2>1. /\ at[c] \in Jobs /\ cur[c] \in Steps /\ stepStatus[at[c]][cur[c]] # "done"
    BY <1>7 DEF ResetStep, ChainLocals, StepsInOrder
  <2>2. SetStep(c, "pending", "enqueue")
    BY <1>7 DEF ResetStep
  <2>3. StepsInOrder'
    BY <2>1, <2>2, SetStepOrder
  <2>4. SingleChain'
    BY <1>7 DEF ResetStep, SetStep, SingleChain, ChainFree, Busy, RowsInOrder
  <2>5. ChainLocals'
    BY <1>7 DEF ResetStep, SetStep, ChainLocals, SingleChain
  <2>6. DoneKept
    BY <1>7 DEF ResetStep, SetStep, DoneKept, ChainLocals, CreationAlone
  <2> QED BY <2>3, <2>4, <2>5, <2>6
<1>8. ASSUME NEW w \in Workers, NEW j \in Jobs, Take(w, j) PROVE ChainInv' /\ DoneKept
  <2>1. SingleChain'
    BY <1>8 DEF Take, tables, SingleChain, ChainFree, Busy, RowsInOrder
  <2>2. StepsInOrder'
    BY <1>8 DEF Take, tables, StepsInOrder
  <2>3. ChainLocals'
    BY <1>8 DEF Take, tables, ChainLocals, SingleChain
  <2>4. DoneKept
    BY <1>8 DEF Take, tables, DoneKept, ChainLocals, CreationAlone
  <2> QED BY <2>1, <2>2, <2>3, <2>4
<1>9. ASSUME NEW w \in Workers, PollJob(w) PROVE ChainInv' /\ DoneKept
  <2>1. ChainLocals'
    BY <1>9, PollJobLocals
  <2>2. UNCHANGED queue /\ (at' = [at EXCEPT ![w] = NoJob] \/ at' = at)
    BY <1>9 DEF PollJob
  <2>3. SingleChain'
    BY <2>2, LeavingKeepsChain
  <2>4. StepsInOrder'
    BY <1>9 DEF PollJob, tables, StepsInOrder
  <2>5. DoneKept
    BY <1>9 DEF PollJob, tables, DoneKept, ChainLocals, CreationAlone
  <2> QED BY <2>1, <2>3, <2>4, <2>5
<1>10. ASSUME NEW w \in Workers, PickStep(w) PROVE ChainInv' /\ DoneKept
  <2>1. ChainLocals'
    BY <1>10, PickStepLocals
  <2>2. UNCHANGED queue /\ (at' = [at EXCEPT ![w] = NoJob] \/ at' = at)
    BY <1>10 DEF PickStep
  <2>3. SingleChain'
    BY <2>2, LeavingKeepsChain
  <2>4. StepsInOrder'
    BY <1>10 DEF PickStep, tables, StepsInOrder
  <2>5. DoneKept
    BY <1>10 DEF PickStep, tables, DoneKept, ChainLocals, CreationAlone
  <2> QED BY <2>1, <2>3, <2>4, <2>5
<1>11. ASSUME NEW w \in Workers, StartStep(w) PROVE ChainInv' /\ DoneKept
  <2>1. /\ at[w] \in Jobs /\ cur[w] \in Steps /\ stepStatus[at[w]][cur[w]] # "done"
       /\ \A i \in Steps : i < cur[w] => stepStatus[at[w]][i] = "done"
    BY <1>11 DEF StartStep, ChainLocals, StepsInOrder
  <2>2. SetStep(w, "running", "exec")
    BY <1>11 DEF StartStep
  <2>3. StepsInOrder'
    BY <2>1, <2>2, SetStepOrder
  <2>4. SingleChain'
    BY <1>11 DEF StartStep, SetStep, SingleChain, ChainFree, Busy, RowsInOrder
  <2>5. ChainLocals'
    BY <1>11 DEF StartStep, SetStep, ChainLocals, SingleChain
  <2>6. DoneKept
    BY <1>11 DEF StartStep, SetStep, DoneKept, ChainLocals, CreationAlone
  <2> QED BY <2>3, <2>4, <2>5, <2>6
<1>12. ASSUME NEW p \in Procs, ReadSteps(p) PROVE ChainInv' /\ DoneKept
  <2>1. SingleChain'
    BY <1>12 DEF ReadSteps, tables, SingleChain, ChainFree, Busy, RowsInOrder
  <2>2. StepsInOrder'
    BY <1>12 DEF ReadSteps, tables, StepsInOrder
  <2>3. ChainLocals'
    BY <1>12 DEF ReadSteps, tables, ChainLocals, SingleChain
  <2>4. DoneKept
    BY <1>12 DEF ReadSteps, tables, DoneKept, ChainLocals, CreationAlone
  <2> QED BY <2>1, <2>2, <2>3, <2>4
<1>13. ASSUME NEW p \in Procs, StoreStatus(p) PROVE ChainInv' /\ DoneKept
  <2>1. ChainLocals'
    BY <1>13, StoreStatusLocals
  <2>2. SingleChain'
    BY <1>13 DEF StoreStatus, SingleChain, ChainFree, Busy, RowsInOrder
  <2>3. StepsInOrder'
    BY <1>13 DEF StoreStatus, StepsInOrder
  <2>4. DoneKept
    BY <1>13 DEF StoreStatus, DoneKept, ChainLocals, CreationAlone
  <2> QED BY <2>1, <2>2, <2>3, <2>4
<1>14. ASSUME NEW w \in Workers, FinishStep(w) PROVE ChainInv' /\ DoneKept
  <2>1. at[w] \in Jobs /\ cur[w] \in Steps /\ stepStatus[at[w]][cur[w]] = "running"
    BY <1>14 DEF FinishStep, ChainLocals
  <2>2. /\ at[w] \in Jobs /\ cur[w] \in Steps /\ stepStatus[at[w]][cur[w]] # "done"
       /\ \A i \in Steps : i < cur[w] => stepStatus[at[w]][i] = "done"
    BY <2>1, BeforeEnded
  <2>3. SetStep(w, "done", "check")
    BY <1>14 DEF FinishStep
  <2>4. StepsInOrder'
    BY <2>2, <2>3, SetStepOrder
  <2>5. SingleChain'
    BY <1>14 DEF FinishStep, SetStep, SingleChain, ChainFree, Busy, RowsInOrder
  <2>6. ChainLocals'
    BY <1>14 DEF FinishStep, SetStep, ChainLocals, SingleChain
  <2>7. DoneKept
    BY <1>14 DEF FinishStep, SetStep, DoneKept, ChainLocals, CreationAlone
  <2> QED BY <2>4, <2>5, <2>6, <2>7
<1>15. ASSUME NEW w \in Workers, FailStep(w) PROVE ChainInv' /\ DoneKept
  <2>1. at[w] \in Jobs /\ cur[w] \in Steps /\ stepStatus[at[w]][cur[w]] = "running"
    BY <1>15 DEF FailStep, ChainLocals
  <2>2. /\ at[w] \in Jobs /\ cur[w] \in Steps /\ stepStatus[at[w]][cur[w]] # "done"
       /\ \A i \in Steps : i < cur[w] => stepStatus[at[w]][i] = "done"
    BY <2>1, BeforeEnded
  <2>3. SetStep(w, "failed", "check")
    BY <1>15 DEF FailStep
  <2>4. StepsInOrder'
    BY <2>2, <2>3, SetStepOrder
  <2>5. SingleChain'
    BY <1>15 DEF FailStep, SetStep, SingleChain, ChainFree, Busy, RowsInOrder
  <2>6. ChainLocals'
    BY <1>15 DEF FailStep, SetStep, ChainLocals, SingleChain
  <2>7. DoneKept
    BY <1>15 DEF FailStep, SetStep, DoneKept, ChainLocals, CreationAlone
  <2> QED BY <2>4, <2>5, <2>6, <2>7
<1>16. ASSUME NEW w \in Workers, CheckJob(w) PROVE ChainInv' /\ DoneKept
  <2>1. SingleChain'
    BY <1>16 DEF CheckJob, tables, SingleChain, ChainFree, Busy, RowsInOrder
  <2>2. StepsInOrder'
    BY <1>16 DEF CheckJob, tables, StepsInOrder
  <2>3. ChainLocals'
    BY <1>16 DEF CheckJob, tables, ChainLocals, SingleChain
  <2>4. DoneKept
    BY <1>16 DEF CheckJob, tables, DoneKept, ChainLocals, CreationAlone
  <2> QED BY <2>1, <2>2, <2>3, <2>4
<1>17. ASSUME NEW w \in Workers, Notify(w) PROVE ChainInv' /\ DoneKept
  <2>1. SingleChain'
    BY <1>17 DEF Notify, SingleChain, ChainFree, Busy, RowsInOrder
  <2>2. StepsInOrder'
    BY <1>17 DEF Notify, StepsInOrder
  <2>3. ChainLocals'
    BY <1>17 DEF Notify, ChainLocals, SingleChain
  <2>4. DoneKept
    BY <1>17 DEF Notify, DoneKept, ChainLocals, CreationAlone
  <2> QED BY <2>1, <2>2, <2>3, <2>4
<1>18. ASSUME NEW p \in Procs, Crash(p) PROVE ChainInv' /\ DoneKept
  <2>1. SingleChain'
    BY <1>18 DEF Crash, tables, SingleChain, ChainFree, Busy, RowsInOrder
  <2>2. StepsInOrder'
    BY <1>18 DEF Crash, tables, StepsInOrder
  <2>3. ChainLocals'
    BY <1>18 DEF Crash, tables, ChainLocals, SingleChain
  <2>4. DoneKept
    BY <1>18 DEF Crash, tables, DoneKept, ChainLocals, CreationAlone
  <2> QED BY <2>1, <2>2, <2>3, <2>4
<1>19. ASSUME NEW j \in Jobs, Redeliver(j) PROVE ChainInv' /\ DoneKept
  <2>1. SingleChain'
    BY <1>19 DEF Redeliver, tables, locals, SingleChain, ChainFree, Busy, RowsInOrder
  <2>2. StepsInOrder'
    BY <1>19 DEF Redeliver, tables, locals, StepsInOrder
  <2>3. ChainLocals'
    BY <1>19 DEF Redeliver, tables, locals, ChainLocals, SingleChain
  <2>4. DoneKept
    BY <1>19 DEF Redeliver, tables, locals, DoneKept, ChainLocals, CreationAlone
  <2> QED BY <2>1, <2>2, <2>3, <2>4
<1>20. CASE UNCHANGED vars
  BY <1>20 DEF vars, tables, locals, SingleChain, Busy, StepsInOrder, ChainLocals, DoneKept
<1> QED
  BY <1>1, <1>2, <1>3, <1>4, <1>5, <1>6, <1>7, <1>8, <1>9, <1>10, <1>11, <1>12,
     <1>13, <1>14, <1>15, <1>16, <1>17, <1>18, <1>19, <1>20
  DEF Next, WorkerStep, ClientStep

LEMMA ChainInit == Init => ChainInv
BY NoJobAssumption DEF Init, ChainInv, SingleChain, Busy, StepsInOrder, ChainLocals

\* One worker runs the chain of a job, as long as the queue redelivers nothing and a running job
\* is not retried.
THEOREM ChainInvariant ==
  ASSUME Careful, MaxRedeliveries = 0
  PROVE  Spec => []ChainInv
<1>1. FaultInv /\ ChainInv /\ (TypeOK /\ LocalsFit)' /\ [Next]_vars => ChainInv'
  BY ChainStep
<1> QED BY <1>1, ChainInit, FaultInvariant, TypeCorrect, PTL DEF Spec

\* One message or one process carries a job, with crashes, restarts and retries
\* (enqueue_job, resume_job, retry_failed_step).
THEOREM ChainsStaySingle ==
  ASSUME Careful, MaxRedeliveries = 0
  PROVE  Spec => []SingleChain
<1>1. ChainInv => SingleChain
  BY DEF ChainInv
<1> QED BY <1>1, ChainInvariant, PTL

\* What precedes a started step is done: enqueue_job's "all its steps in order", with
\* crashes, restarts and retries.
THEOREM StepsRunInOrder ==
  ASSUME Careful, MaxRedeliveries = 0
  PROVE  Spec => []StepsInOrder
<1>1. ChainInv => StepsInOrder
  BY DEF ChainInv
<1> QED BY <1>1, ChainInvariant, PTL

\* No retry, restart or rerun takes a done step out of done (docs/api.md: the other
\* steps stay done and are not computed again).
THEOREM DoneIsNeverRedone ==
  ASSUME Careful, MaxRedeliveries = 0
  PROVE  Spec => DoneStaysDone
<1>1. FaultInv /\ ChainInv /\ (TypeOK /\ LocalsFit)' /\ [Next]_vars => [DoneKept]_stepStatus
  BY ChainStep
<1> QED BY <1>1, ChainInvariant, FaultInvariant, TypeCorrect, PTL DEF Spec, DoneStaysDone, DoneKept
-----------------------------------------------------------------------------
(* What a reader of a job sees.  The status of a job says something about   *)
(* its steps only together with what the process that has the job is about  *)
(* to do; LifeInv says what each process may rely on.                       *)

\* A row of job_steps was changed and the job's status not yet.
Updating(p, next) == pc[p] \in {"derive", "store"} /\ then[p] = next

\* What a process knows: what the status of its job is, how the steps are around the
\* one it has just changed, and that what it computed or read is still so.
Knows(p) ==
  LET status == jobStatus[at[p]]
      rows == stepStatus[at[p]]
  IN  /\ pc[p] \in {"pick", "start"} \/ Updating(p, "exec") => status \in {"pending", "running"}
      /\ pc[p] = "exec" \/ Updating(p, "check") => status = "running"
      /\ pc[p] = "reset" \/ Updating(p, "enqueue") => status \in {"running", "failed"}
      /\ pc[p] \in {"derive", "store"} =>
           /\ \A k \in Steps : k < cur[p] => rows[k] = "done"
           /\ \A k \in Steps : k > cur[p] => rows[k] \in {"absent", "pending"}
      /\ Updating(p, "check") => rows[cur[p]] \in {"done", "failed"}
      /\ Updating(p, "enqueue") => rows[cur[p]] = "pending"
      /\ pc[p] = "store" => seen[p] = DeriveJobStatus(rows)
      /\ pc[p] = "check" => status = DeriveJobStatus(rows)
      /\ pc[p] = "notify" => seen[p] = status /\ seen[p] = DeriveJobStatus(rows)

\* A failed step is not hidden behind a job that waits or is done.
FailedIsSeen ==
  \A j \in Jobs, k \in Steps : stepStatus[j][k] = "failed" => jobStatus[j] \in {"running", "failed"}

\* After the notice of success nothing comes but a restart that finds the job ended.
SuccessIsFinal ==
  \A j \in Jobs : \A i \in 1..Len(notices[j]) :
    notices[j][i] = "done" =>
      /\ jobStatus[j] = "done"
      /\ \A p \in Procs : at[p] = j => pc[p] \in {"enqueue", "poll"}

\* What the status and the notices rest on, on top of FaultInv and ChainInv.
LifeInv ==
  /\ \A p \in Procs : Knows(p)
  /\ FailedIsSeen
  /\ SuccessIsFinal
  /\ DoneNoticeIsLast

\* _derive_job_status when the steps are done up to one and not begun after it.
LEMMA DeriveAround ==
  ASSUME NEW rows \in [Steps -> StatusOrAbsent], NEW K \in Steps,
         \A k \in Steps : k < K => rows[k] = "done",
         \A k \in Steps : k > K => rows[k] \in {"absent", "pending"}
  PROVE  /\ rows[K] = "running" => DeriveJobStatus(rows) = "running"
         /\ rows[K] = "failed" => DeriveJobStatus(rows) = "failed"
         /\ rows[K] = "done" => DeriveJobStatus(rows) \in {"done", "running"}
         /\ rows[K] = "pending" =>
              DeriveJobStatus(rows) = IF {k \in Steps : rows[k] = "done"} = {} THEN "pending" ELSE "running"
<1>1. \A k \in Steps : k = K \/ rows[k] \in {"absent", "pending", "done"}
  BY DEF Steps
<1>2. rows[K] # "failed" => "failed" \notin RowStatuses(rows)
  BY <1>1 DEF RowStatuses
<1>3. \A s \in Status : s \in RowStatuses(rows) <=> \E k \in Steps : rows[k] = s
  BY DEF RowStatuses, Status
<1>4. CASE rows[K] = "running"
  BY <1>2, <1>3, <1>4 DEF DeriveJobStatus, Status
<1>5. CASE rows[K] = "failed"
  BY <1>3, <1>5 DEF DeriveJobStatus, Status
<1>6. CASE rows[K] = "done"
  BY <1>2, <1>3, <1>6 DEF DeriveJobStatus, Status
<1>7. CASE rows[K] = "pending"
  <2>1. \A k \in Steps : rows[k] \in {"absent", "pending", "done"}
    BY <1>1, <1>7
  <2>2. "failed" \notin RowStatuses(rows) /\ RowStatuses(rows) # {"done"}
    BY <1>2, <1>3, <1>7 DEF Status
  <2>3. RowStatuses(rows) \subseteq {"pending"} <=> {k \in Steps : rows[k] = "done"} = {}
    BY <1>3, <2>1 DEF RowStatuses, Status
  <2> QED BY <1>7, <2>2, <2>3 DEF DeriveJobStatus
<1> QED BY <1>4, <1>5, <1>6, <1>7

LEMMA DeriveFailed ==
  ASSUME NEW rows, NEW k \in DOMAIN rows, rows[k] = "failed"
  PROVE  DeriveJobStatus(rows) = "failed"
BY DEF DeriveJobStatus, RowStatuses

\* What the others know of their jobs is not disturbed by a process that has another.
LEMMA OthersKnow ==
  ASSUME TypeOK, LocalsFit, NEW p \in Procs, NEW J,
         \A q \in Procs : Knows(q),
         \A q \in Procs \ {p} : at[q] \in Jobs => at[q] # J,
         \A q \in Procs \ {p} : /\ pc'[q] = pc[q] /\ at'[q] = at[q] /\ cur'[q] = cur[q]
                                /\ seen'[q] = seen[q] /\ then'[q] = then[q],
         \A j \in Jobs \ {J} : stepStatus'[j] = stepStatus[j] /\ jobStatus'[j] = jobStatus[j]
  PROVE  \A q \in Procs \ {p} : Knows(q)'
<1> SUFFICES ASSUME NEW q \in Procs \ {p} PROVE Knows(q)'
  OBVIOUS
<1>1. CASE pc[q] = "idle"
  BY <1>1 DEF Knows, Updating
<1>2. CASE pc[q] # "idle"
  <2>1. at[q] \in Jobs \ {J}
    BY <1>2 DEF TypeOK, LocalsFit
  <2>2. stepStatus'[at'[q]] = stepStatus[at[q]] /\ jobStatus'[at'[q]] = jobStatus[at[q]]
    BY <2>1
  <2> QED BY <2>2 DEF Knows, Updating
<1> QED BY <1>1, <1>2

\* A process between PickStep and Notify, or at work for an operator, has a job whose
\* success was not noticed yet.
LEMMA SuccessKept ==
  ASSUME SuccessIsFinal, NEW p \in Procs, NEW J, J = at[p],
         pc[p] \notin {"enqueue", "poll"},
         \A q \in Procs \ {p} : pc'[q] = pc[q] /\ at'[q] = at[q],
         at'[p] \in {J, NoJob},
         \A j \in Jobs \ {J} : jobStatus'[j] = jobStatus[j],
         notices' = notices
  PROVE  SuccessIsFinal'
BY NoJobAssumption DEF SuccessIsFinal

LEMMA Single ==
  ASSUME SingleChain, NEW p \in Procs, at[p] \in Jobs
  PROVE  \A q \in Procs \ {p} : at[q] # at[p]
BY DEF SingleChain

LEMMA LifeInit == Init => LifeInv
BY NoJobAssumption DEF Init, LifeInv, Knows, Updating, FailedIsSeen, SuccessIsFinal, DoneNoticeIsLast

\* UPDATE job_steps by the process that has the job.
LEMMA SetStepLife ==
  ASSUME FaultInv, ChainInv, LifeInv, NEW p \in Procs, at[p] \in Jobs, cur[p] \in Steps,
         pc[p] \in {"start", "exec", "reset"}, NEW s \in Status \ {"absent"}, NEW next,
         SetStep(p, s, next), UNCHANGED <<jobStatus, notices, at, cur, seen>>,
         stepStatus[at[p]][cur[p]] # "done",
         \A i \in Steps : i < cur[p] => stepStatus[at[p]][i] = "done",
         \/ pc[p] = "start" /\ s = "running" /\ next = "exec"
         \/ pc[p] = "exec" /\ s \in {"done", "failed"} /\ next = "check"
         \/ pc[p] = "reset" /\ s = "pending" /\ next = "enqueue"
  PROVE  LifeInv'
<1> DEFINE J == at[p]
           K == cur[p]
<1>1. \A j \in Jobs, k \in Steps :
         stepStatus'[j][k] = IF j = J /\ k = K THEN s ELSE stepStatus[j][k]
  BY DEF FaultInv, TypeOK, SetStep
<1>2. /\ pc'[p] = "derive" /\ then'[p] = next
      /\ \A q \in Procs \ {p} : pc'[q] = pc[q] /\ then'[q] = then[q]
  BY DEF FaultInv, TypeOK, SetStep
<1>3. \A q \in Procs \ {p} : at[q] # J
  BY Single DEF ChainInv
<1>4. \A k \in Steps : k > K => stepStatus[J][k] \in {"absent", "pending"}
  BY DEF ChainInv, StepsInOrder, Steps
<1>5. Knows(p)'
  <2>1. \A k \in Steps : k < K => stepStatus'[J][k] = "done"
    BY <1>1 DEF Steps
  <2>2. \A k \in Steps : k > K => stepStatus'[J][k] \in {"absent", "pending"}
    BY <1>1, <1>4 DEF Steps
  <2>3. stepStatus'[J][K] = s
    BY <1>1
  <2>4. Knows(p)
    BY DEF LifeInv
  <2> QED BY <1>2, <2>1, <2>2, <2>3, <2>4 DEF Knows, Updating
<1>6. \A q \in Procs \ {p} : Knows(q)'
  <2>1. \A j \in Jobs \ {J} : stepStatus'[j] = stepStatus[j] /\ jobStatus'[j] = jobStatus[j]
    BY DEF FaultInv, TypeOK, SetStep
  <2> QED BY <1>2, <1>3, <2>1, OthersKnow DEF FaultInv, LifeInv
<1>7. FailedIsSeen'
  <2>1. pc[p] = "exec" => jobStatus[J] = "running"
    BY DEF LifeInv, Knows
  <2> QED BY <1>1, <2>1 DEF LifeInv, FailedIsSeen
<1>8. SuccessIsFinal'
  BY <1>2, SuccessKept DEF LifeInv
<1>9. DoneNoticeIsLast'
  BY DEF LifeInv, DoneNoticeIsLast
<1> QED BY <1>5, <1>6, <1>7, <1>8, <1>9 DEF LifeInv

\* UPDATE jobs stores what the steps are.
LEMMA StoreStatusLife ==
  ASSUME FaultInv, ChainInv, LifeInv, NEW p \in Procs, StoreStatus(p)
  PROVE  LifeInv'
<1> DEFINE J == at[p]
           K == cur[p]
<1>1. /\ J \in Jobs /\ K \in Steps /\ pc[p] = "store"
      /\ then[p] \in {"exec", "check", "enqueue"} /\ Knows(p)
  BY DEF StoreStatus, FaultInv, TypeOK, LocalsFit, LifeInv
<1>2. /\ jobStatus'[J] = DeriveJobStatus(stepStatus[J])
      /\ \A j \in Jobs \ {J} : jobStatus'[j] = jobStatus[j]
      /\ UNCHANGED <<stepStatus, notices, at, cur>>
  BY <1>1 DEF StoreStatus, FaultInv, TypeOK, Knows
<1>3. /\ pc'[p] = then[p]
      /\ \A q \in Procs \ {p} : pc'[q] = pc[q] /\ then'[q] = then[q] /\ seen'[q] = seen[q]
  BY <1>1 DEF StoreStatus, FaultInv, TypeOK
<1>4. \A q \in Procs \ {p} : at[q] # J
  BY <1>1, Single DEF ChainInv
<1>5. Knows(p)'
  <2>1. CASE then[p] = "exec"
    <3>1. stepStatus[J][K] = "running"
      BY <1>1, <2>1 DEF ChainInv, ChainLocals
    <3>2. stepStatus[J] \in [Steps -> StatusOrAbsent]
      BY <1>1 DEF FaultInv, TypeOK
    <3>3. DeriveJobStatus(stepStatus[J]) = "running"
      BY <1>1, <3>1, <3>2, DeriveAround DEF Knows
    <3> QED BY <1>2, <1>3, <2>1, <3>3 DEF Knows, Updating
  <2>2. CASE then[p] # "exec"
    BY <1>1, <1>2, <1>3, <2>2 DEF Knows, Updating
  <2> QED BY <2>1, <2>2
<1>6. \A q \in Procs \ {p} : Knows(q)'
  <2>1. \A j \in Jobs \ {J} : stepStatus'[j] = stepStatus[j] /\ jobStatus'[j] = jobStatus[j]
    BY <1>2
  <2>2. \A q \in Procs \ {p} : /\ pc'[q] = pc[q] /\ at'[q] = at[q] /\ cur'[q] = cur[q]
                               /\ seen'[q] = seen[q] /\ then'[q] = then[q]
    BY <1>2, <1>3
  <2>3. TypeOK /\ LocalsFit /\ \A q \in Procs : Knows(q)
    BY DEF FaultInv, LifeInv
  <2> HIDE DEF J
  <2> QED BY <1>4, <2>1, <2>2, <2>3, OthersKnow
<1>7. FailedIsSeen'
  <2> SUFFICES ASSUME NEW j \in Jobs, NEW k \in Steps, stepStatus'[j][k] = "failed"
               PROVE  jobStatus'[j] \in {"running", "failed"}
    BY DEF FailedIsSeen
  <2>1. k \in DOMAIN stepStatus[j]
    BY DEF FaultInv, TypeOK
  <2>2. CASE j = J
    BY <1>2, <2>1, <2>2, DeriveFailed
  <2>3. CASE j # J
    BY <1>2, <2>3 DEF LifeInv, FailedIsSeen
  <2> QED BY <2>2, <2>3
<1>8. SuccessIsFinal'
  BY <1>1, <1>2, <1>3, SuccessKept DEF LifeInv
<1>9. DoneNoticeIsLast'
  BY <1>2 DEF LifeInv, DoneNoticeIsLast
<1> QED BY <1>5, <1>6, <1>7, <1>8, <1>9 DEF LifeInv

\* The notice of a job that has not ended done yet, or ends it.
LEMMA NotifyLife ==
  ASSUME FaultInv, ChainInv, LifeInv, NEW w \in Workers, Notify(w)
  PROVE  LifeInv'
<1> DEFINE J == at[w]
<1>1. w \in Procs /\ J \in Jobs /\ pc[w] = "notify" /\ seen[w] \in Terminal
  BY DEF Notify, FaultInv, TypeOK, LocalsFit, Procs
<1>2. seen[w] = jobStatus[J]
  BY <1>1 DEF LifeInv, Knows
<1>3. /\ UNCHANGED <<stepStatus, jobStatus>> /\ pc'[w] = "idle" /\ at'[w] = NoJob
      /\ \A q \in Procs \ {w} : /\ pc'[q] = pc[q] /\ at'[q] = at[q] /\ cur'[q] = cur[q]
                                /\ seen'[q] = seen[q] /\ then'[q] = then[q]
  BY <1>1 DEF Notify, Return, FaultInv, TypeOK
<1>4. \A q \in Procs \ {w} : at[q] # J
  BY <1>1, Single DEF ChainInv
<1>5. \A i \in 1..Len(notices[J]) : notices[J][i] = "failed"
  <2>1. \A i \in 1..Len(notices[J]) : notices[J][i] # "done"
    BY <1>1 DEF LifeInv, SuccessIsFinal
  <2>2. notices[J] \in Seq(Terminal)
    BY <1>1 DEF FaultInv, TypeOK
  <2> QED BY <2>1, <2>2 DEF Terminal
<1>6. \A j \in Jobs : notices'[j] = notices[j] \/ (j = J /\ notices'[j] = Append(notices[j], seen[w]))
  BY <1>1 DEF Notify, FaultInv, TypeOK
<1>7. ASSUME NEW j \in Jobs, NEW i \in 1..Len(notices'[j])
      PROVE  \/ i \in 1..Len(notices[j]) /\ notices'[j][i] = notices[j][i]
             \/ j = J /\ i = Len(notices'[j]) /\ notices'[j][i] = seen[w]
  <2>1. notices[j] \in Seq(Terminal)
    BY DEF FaultInv, TypeOK
  <2>2. CASE notices'[j] = notices[j]
    BY <2>2
  <2>3. CASE j = J /\ notices'[j] = Append(notices[j], seen[w])
    BY <1>1, <2>1, <2>3
  <2> QED BY <1>6, <2>2, <2>3
<1>8. Knows(w)'
  BY <1>3 DEF Knows, Updating
<1>9. \A q \in Procs \ {w} : Knows(q)'
  BY <1>1, <1>3, <1>4, OthersKnow DEF FaultInv, LifeInv
<1>10. FailedIsSeen'
  BY <1>3 DEF LifeInv, FailedIsSeen
<1>11. SuccessIsFinal'
  <2> SUFFICES ASSUME NEW j \in Jobs, NEW i \in 1..Len(notices'[j]), notices'[j][i] = "done"
               PROVE  /\ jobStatus'[j] = "done"
                      /\ \A q \in Procs : at'[q] = j => pc'[q] \in {"enqueue", "poll"}
    BY DEF SuccessIsFinal
  <2>1. CASE i \in 1..Len(notices[j]) /\ notices'[j][i] = notices[j][i]
    BY <2>1, <1>3, NoJobAssumption DEF LifeInv, SuccessIsFinal
  <2>2. CASE j = J /\ notices'[j][i] = seen[w]
    BY <2>2, <1>2, <1>3, <1>4, NoJobAssumption
  <2> QED BY <1>7, <2>1, <2>2
<1>12. DoneNoticeIsLast'
  <2> SUFFICES ASSUME NEW j \in Jobs, NEW i \in 1..(Len(notices'[j]) - 1)
               PROVE  notices'[j][i] = "failed"
    BY DEF DoneNoticeIsLast
  <2>1. notices[j] \in Seq(Terminal) /\ Len(notices[j]) \in Nat
    BY DEF FaultInv, TypeOK
  <2>2. CASE notices'[j] = notices[j]
    BY <2>2 DEF LifeInv, DoneNoticeIsLast
  <2>3. CASE j = J /\ notices'[j] = Append(notices[j], seen[w])
    <3>1. i \in 1..Len(notices[j]) /\ notices'[j][i] = notices[j][i]
      BY <2>1, <2>3, <1>1
    <3> QED BY <2>3, <3>1, <1>5
  <2> QED BY <1>6, <2>2, <2>3
<1> QED BY <1>8, <1>9, <1>10, <1>11, <1>12 DEF LifeInv

\* A process moves on and changes nothing but its locals.
LEMMA LocalsOnly ==
  ASSUME FaultInv, LifeInv, NEW p \in Procs, UNCHANGED <<stepStatus, jobStatus, notices>>,
         \A q \in Procs \ {p} : /\ pc'[q] = pc[q] /\ at'[q] = at[q] /\ cur'[q] = cur[q]
                                /\ seen'[q] = seen[q] /\ then'[q] = then[q],
         Knows(p)',
         \/ at'[p] = NoJob
         \/ pc'[p] \in {"enqueue", "poll"}
         \/ jobStatus[at'[p]] # "done"
         \/ pc[p] \notin {"enqueue", "poll"} /\ at'[p] = at[p]
  PROVE  LifeInv'
<1>1. \A q \in Procs \ {p} : Knows(q)'
  <2>1. \A j \in Jobs \ {NoJob} : stepStatus'[j] = stepStatus[j] /\ jobStatus'[j] = jobStatus[j]
    OBVIOUS
  <2>2. \A q \in Procs \ {p} : at[q] \in Jobs => at[q] # NoJob
    BY NoJobAssumption
  <2> QED BY <2>1, <2>2, OthersKnow DEF FaultInv, LifeInv
<1>2. SuccessIsFinal'
  BY NoJobAssumption DEF LifeInv, SuccessIsFinal
<1> QED BY <1>1, <1>2 DEF LifeInv, FailedIsSeen, DoneNoticeIsLast

LEMMA CreateJobLife ==
  ASSUME FaultInv, LifeInv, NEW c \in Clients, NEW j \in Jobs, CreateJob(c, j)
  PROVE  LifeInv'
<1>1. /\ c \in Procs /\ jobStatus[j] = "absent" /\ ChainFree(j)
      /\ \A k \in Steps : stepStatus[j][k] = "absent"
  BY DEF CreateJob, FaultInv, RowsInOrder, Procs
<1>2. /\ jobStatus'[j] = "pending" /\ \A i \in Jobs \ {j} : jobStatus'[i] = jobStatus[i]
      /\ UNCHANGED <<stepStatus, notices>>
      /\ pc'[c] = "insert" /\ at'[c] = j
      /\ \A q \in Procs \ {c} : /\ pc'[q] = pc[q] /\ at'[q] = at[q] /\ cur'[q] = cur[q]
                                /\ seen'[q] = seen[q] /\ then'[q] = then[q]
  BY <1>1 DEF CreateJob, Goto, FaultInv, TypeOK
<1>3. Knows(c)'
  BY <1>2 DEF Knows, Updating
<1>4. \A q \in Procs \ {c} : Knows(q)'
  <2>1. \A q \in Procs \ {c} : at[q] \in Jobs => at[q] # j
    BY <1>1 DEF ChainFree, Busy
  <2>2. \A i \in Jobs \ {j} : stepStatus'[i] = stepStatus[i] /\ jobStatus'[i] = jobStatus[i]
    BY <1>2
  <2> QED BY <1>1, <1>2, <2>1, <2>2, OthersKnow DEF FaultInv, LifeInv
<1>5. FailedIsSeen'
  BY <1>1, <1>2 DEF LifeInv, FailedIsSeen
<1>6. SuccessIsFinal'
  BY <1>1, <1>2 DEF LifeInv, SuccessIsFinal
<1>7. DoneNoticeIsLast'
  BY <1>2 DEF LifeInv, DoneNoticeIsLast
<1> QED BY <1>3, <1>4, <1>5, <1>6, <1>7 DEF LifeInv

LEMMA InsertStepLife ==
  ASSUME FaultInv, LifeInv, NEW c \in Clients, InsertStep(c)
  PROVE  LifeInv'
<1> DEFINE J == at[c]
<1>1. /\ c \in Procs /\ J \in Jobs /\ pc[c] = "insert"
      /\ jobStatus[J] = "pending" /\ \A q \in Procs \ {c} : at[q] # J
  BY DEF InsertStep, FaultInv, CreationAlone, TypeOK, LocalsFit, Procs
<1>2. /\ UNCHANGED <<jobStatus, notices, at, seen, then>>
      /\ pc'[c] \in {"insert", "own", "enqueue"}
      /\ \A q \in Procs \ {c} : pc'[q] = pc[q] /\ cur'[q] = cur[q]
  BY <1>1 DEF InsertStep, Goto, FaultInv, TypeOK
<1>3. /\ \A j \in Jobs \ {J} : stepStatus'[j] = stepStatus[j]
      /\ \A j \in Jobs, k \in Steps : stepStatus'[j][k] \in {stepStatus[j][k], "pending"}
  BY <1>1 DEF InsertStep, FaultInv, TypeOK
<1>4. Knows(c)'
  BY <1>2 DEF Knows, Updating
<1>5. \A q \in Procs \ {c} : Knows(q)'
  <2>1. \A q \in Procs \ {c} : at[q] \in Jobs => at[q] # J
    BY <1>1
  <2>2. \A i \in Jobs \ {J} : stepStatus'[i] = stepStatus[i] /\ jobStatus'[i] = jobStatus[i]
    BY <1>2, <1>3
  <2> HIDE DEF J
  <2> QED BY <1>1, <1>2, <2>1, <2>2, OthersKnow DEF FaultInv, LifeInv
<1>6. FailedIsSeen'
  BY <1>2, <1>3 DEF LifeInv, FailedIsSeen
<1>7. SuccessIsFinal'
  BY <1>1, <1>2, SuccessKept DEF LifeInv
<1>8. DoneNoticeIsLast'
  BY <1>2 DEF LifeInv, DoneNoticeIsLast
<1> QED BY <1>4, <1>5, <1>6, <1>7, <1>8 DEF LifeInv

LEMMA LifeStep ==
  ASSUME FaultInv, ChainInv, LifeInv, [Next]_vars
  PROVE  LifeInv'
<1> USE NoJobAssumption DEF FaultInv, TypeOK, LocalsFit, Procs, Goto, Return
<1>1. ASSUME NEW c \in Clients, NEW j \in Jobs, CreateJob(c, j) PROVE LifeInv'
  BY <1>1, CreateJobLife
<1>2. ASSUME NEW c \in Clients, InsertStep(c) PROVE LifeInv'
  BY <1>2, InsertStepLife
<1>3. ASSUME NEW c \in Clients, RecordOwner(c) PROVE LifeInv'
  BY <1>3, LocalsOnly DEF RecordOwner, tables, Knows, Updating
<1>4. ASSUME NEW p \in Procs, Enqueue(p) PROVE LifeInv'
  BY <1>4, LocalsOnly DEF Enqueue, tables, Knows, Updating
<1>5. ASSUME NEW c \in Clients, NEW j \in Jobs, Resume(c, j) PROVE LifeInv'
  BY <1>5, LocalsOnly DEF Resume, tables, Knows, Updating, Operable, CountCall
<1>6. ASSUME NEW c \in Clients, NEW j \in Jobs, Retry(c, j) PROVE LifeInv'
  <2>1. PICK k \in Steps : stepStatus[j][k] = "failed"
    BY <1>6 DEF Retry, IsFirst, FailedSteps
  <2>2. jobStatus[j] \in {"running", "failed"}
    BY <2>1 DEF LifeInv, FailedIsSeen
  <2> QED BY <1>6, <2>2, LocalsOnly, ZenonT(30) DEF Retry, CountCall, tables, Knows, Updating
<1>7. ASSUME NEW c \in Clients, ResetStep(c) PROVE LifeInv'
  <2>1. /\ at[c] \in Jobs /\ cur[c] \in Steps /\ stepStatus[at[c]][cur[c]] # "done"
        /\ \A i \in Steps : i < cur[c] => stepStatus[at[c]][i] = "done"
    <3>1. at[c] \in Jobs /\ cur[c] \in Steps /\ stepStatus[at[c]][cur[c]] = "failed"
      BY <1>7 DEF ResetStep, ChainInv, ChainLocals
    <3> QED BY <3>1, BeforeEnded DEF ChainInv
  <2>2. SetStep(c, "pending", "enqueue") /\ UNCHANGED <<jobStatus, notices, at, cur, seen>>
    BY <1>7 DEF ResetStep
  <2>3. "pending" \in Status \ {"absent"}
    BY DEF Status
  <2> QED BY <1>7, <2>1, <2>2, <2>3, SetStepLife DEF ResetStep
<1>8. ASSUME NEW w \in Workers, NEW j \in Jobs, Take(w, j) PROVE LifeInv'
  BY <1>8, LocalsOnly DEF Take, tables, Knows, Updating
<1>9. ASSUME NEW w \in Workers, PollJob(w) PROVE LifeInv'
  <2>1. CASE Return(w)
    BY <1>9, <2>1, LocalsOnly DEF PollJob, tables, Knows, Updating
  <2>2. CASE jobStatus[at[w]] \notin Terminal /\ Goto(w, "pick") /\ UNCHANGED <<at, cur, seen, then>>
    <3>1. jobStatus[at[w]] \in {"pending", "running"}
      BY <1>9, <2>2 DEF PollJob, RowsInOrder, ChainFree, Busy, Terminal, Status, StatusOrAbsent
    <3> QED BY <1>9, <2>2, <3>1, LocalsOnly DEF PollJob, tables, Knows, Updating
  <2> QED BY <1>9, <2>1, <2>2 DEF PollJob
<1>10. ASSUME NEW w \in Workers, PickStep(w) PROVE LifeInv'
  <2>1. CASE Return(w)
    BY <1>10, <2>1, LocalsOnly DEF PickStep, tables, Knows, Updating
  <2>2. ASSUME NEW k, cur' = [cur EXCEPT ![w] = k], Goto(w, "start"), UNCHANGED <<at, seen, then>>
        PROVE  LifeInv'
    <3>1. jobStatus[at[w]] \in {"pending", "running"}
      BY <1>10 DEF PickStep, LifeInv, Knows
    <3> QED BY <1>10, <2>2, <3>1, LocalsOnly DEF PickStep, tables, Knows, Updating
  <2> QED BY <1>10, <2>1, <2>2 DEF PickStep
<1>11. ASSUME NEW w \in Workers, StartStep(w) PROVE LifeInv'
  <2>1. /\ at[w] \in Jobs /\ cur[w] \in Steps /\ stepStatus[at[w]][cur[w]] # "done"
        /\ \A i \in Steps : i < cur[w] => stepStatus[at[w]][i] = "done"
    BY <1>11 DEF StartStep, ChainInv, ChainLocals, StepsInOrder
  <2>2. SetStep(w, "running", "exec") /\ UNCHANGED <<jobStatus, notices, at, cur, seen>>
    BY <1>11 DEF StartStep
  <2>3. "running" \in Status \ {"absent"}
    BY DEF Status
  <2> QED BY <1>11, <2>1, <2>2, <2>3, SetStepLife DEF StartStep
<1>12. ASSUME NEW p \in Procs, ReadSteps(p) PROVE LifeInv'
  <2>1. Knows(p)
    BY DEF LifeInv
  <2> QED BY <1>12, <2>1, LocalsOnly DEF ReadSteps, tables, Knows, Updating
<1>13. ASSUME NEW p \in Procs, StoreStatus(p) PROVE LifeInv'
  BY <1>13, StoreStatusLife
<1>14. ASSUME NEW w \in Workers, FinishStep(w) PROVE LifeInv'
  <2>1. /\ at[w] \in Jobs /\ cur[w] \in Steps /\ stepStatus[at[w]][cur[w]] # "done"
        /\ \A i \in Steps : i < cur[w] => stepStatus[at[w]][i] = "done"
    <3>1. at[w] \in Jobs /\ cur[w] \in Steps /\ stepStatus[at[w]][cur[w]] = "running"
      BY <1>14 DEF FinishStep, ChainInv, ChainLocals
    <3> QED BY <3>1, BeforeEnded DEF ChainInv
  <2>2. SetStep(w, "done", "check") /\ UNCHANGED <<jobStatus, notices, at, cur, seen>>
    BY <1>14 DEF FinishStep
  <2>3. "done" \in Status \ {"absent"}
    BY DEF Status
  <2> QED BY <1>14, <2>1, <2>2, <2>3, SetStepLife DEF FinishStep
<1>15. ASSUME NEW w \in Workers, FailStep(w) PROVE LifeInv'
  <2>1. /\ at[w] \in Jobs /\ cur[w] \in Steps /\ stepStatus[at[w]][cur[w]] # "done"
        /\ \A i \in Steps : i < cur[w] => stepStatus[at[w]][i] = "done"
    <3>1. at[w] \in Jobs /\ cur[w] \in Steps /\ stepStatus[at[w]][cur[w]] = "running"
      BY <1>15 DEF FailStep, ChainInv, ChainLocals
    <3> QED BY <3>1, BeforeEnded DEF ChainInv
  <2>2. SetStep(w, "failed", "check") /\ UNCHANGED <<jobStatus, notices, at, cur, seen>>
    BY <1>15 DEF FailStep
  <2>3. "failed" \in Status \ {"absent"}
    BY DEF Status
  <2> QED BY <1>15, <2>1, <2>2, <2>3, SetStepLife DEF FailStep
<1>16. ASSUME NEW w \in Workers, CheckJob(w) PROVE LifeInv'
  <2>1. jobStatus[at[w]] = DeriveJobStatus(stepStatus[at[w]])
    BY <1>16 DEF CheckJob, LifeInv, Knows
  <2>2. CASE Return(w)
    BY <1>16, <2>2, LocalsOnly DEF CheckJob, tables, Knows, Updating
  <2>3. CASE Goto(w, "enqueue") /\ UNCHANGED <<at, cur, seen, then>>
    BY <1>16, <2>3, LocalsOnly DEF CheckJob, tables, Knows, Updating
  <2>4. CASE seen' = [seen EXCEPT ![w] = jobStatus[at[w]]] /\ Goto(w, "notify") /\ UNCHANGED <<at, cur, then>>
    BY <1>16, <2>1, <2>4, LocalsOnly DEF CheckJob, tables, Knows, Updating
  <2> QED BY <1>16, <2>2, <2>3, <2>4 DEF CheckJob
<1>17. ASSUME NEW w \in Workers, Notify(w) PROVE LifeInv'
  BY <1>17, NotifyLife
<1>18. ASSUME NEW p \in Procs, Crash(p) PROVE LifeInv'
  BY <1>18, LocalsOnly DEF Crash, tables, Knows, Updating
<1>19. ASSUME NEW j \in Jobs, Redeliver(j) PROVE LifeInv'
  BY <1>19 DEF Redeliver, tables, locals, LifeInv, Knows, Updating, FailedIsSeen, SuccessIsFinal, DoneNoticeIsLast
<1>20. CASE UNCHANGED vars
  BY <1>20 DEF vars, tables, locals, LifeInv, Knows, Updating, FailedIsSeen, SuccessIsFinal, DoneNoticeIsLast
<1> QED
  BY <1>1, <1>2, <1>3, <1>4, <1>5, <1>6, <1>7, <1>8, <1>9, <1>10, <1>11, <1>12,
     <1>13, <1>14, <1>15, <1>16, <1>17, <1>18, <1>19, <1>20
  DEF Next, WorkerStep, ClientStep

\* A job that has failed is seen as failed, one that is done stays done, and its notice is the
\* last (the same assumptions).
THEOREM LifeInvariant ==
  ASSUME Careful, MaxRedeliveries = 0
  PROVE  Spec => []LifeInv
<1>1. FaultInv /\ ChainInv /\ LifeInv /\ [Next]_vars => LifeInv'
  BY LifeStep
<1> QED BY <1>1, LifeInit, ChainInvariant, FaultInvariant, PTL DEF Spec

\* One step of NoticeIsTrue.
NoticeTrue ==
  \A j \in Jobs :
    notices'[j] # notices[j] =>
      LET said == notices'[j][Len(notices'[j])]
      IN  jobStatus[j] = said /\ DeriveJobStatus(stepStatus[j]) = said

LEMMA NoticeStep ==
  ASSUME FaultInv, LifeInv, [Next]_vars
  PROVE  notices' = notices \/ NoticeTrue
<1>1. ASSUME NEW w \in Workers, Notify(w) PROVE NoticeTrue
  <2>1. /\ w \in Procs /\ at[w] \in Jobs /\ seen[w] \in Terminal
        /\ seen[w] = jobStatus[at[w]] /\ seen[w] = DeriveJobStatus(stepStatus[at[w]])
    BY <1>1 DEF Notify, LifeInv, Knows, FaultInv, TypeOK, LocalsFit, Procs
  <2>2. ASSUME NEW j \in Jobs, notices'[j] # notices[j]
        PROVE  j = at[w] /\ notices'[j] = Append(notices[j], seen[w]) /\ notices[j] \in Seq(Terminal)
    BY <1>1, <2>1, <2>2 DEF Notify, FaultInv, TypeOK
  <2>3. \A s \in Seq(Terminal) : Append(s, seen[w])[Len(Append(s, seen[w]))] = seen[w]
    BY <2>1
  <2> QED BY <2>1, <2>2, <2>3 DEF NoticeTrue
<1>2. CASE \E w \in Workers : Notify(w)
  BY <1>1, <1>2
<1>3. CASE ~ \E w \in Workers : Notify(w)
  BY <1>3 DEF Next, WorkerStep, ClientStep, CreateJob, InsertStep, RecordOwner, Enqueue, Resume, Retry,
       ResetStep, Take, PollJob, PickStep, StartStep, ReadSteps, StoreStatus, FinishStep, FailStep,
       CheckJob, Crash, Redeliver, vars, tables
<1> QED BY <1>2, <1>3

\* What a notice says is so in both tables when it is issued (_notify_job_completion).
THEOREM NoticesAreTrue ==
  ASSUME Careful, MaxRedeliveries = 0
  PROVE  Spec => NoticeIsTrue
<1>1. FaultInv /\ LifeInv /\ [Next]_vars => [NoticeTrue]_notices
  BY NoticeStep
<1> QED
  BY <1>1, LifeInvariant, FaultInvariant, PTL DEF Spec, NoticeIsTrue, NoticeTrue

\* Success is the last thing the owner of a job hears, through crashes, restarts and
\* retries (_notify_job_completion).
THEOREM SuccessIsHeardLast ==
  ASSUME Careful, MaxRedeliveries = 0
  PROVE  Spec => []DoneNoticeIsLast
<1>1. LifeInv => DoneNoticeIsLast
  BY DEF LifeInv
<1> QED BY <1>1, LifeInvariant, PTL
-----------------------------------------------------------------------------
(* Without crashes a status lags behind its steps only while a process is   *)
(* in _recompute_job_status.                                               *)

Settled ==
  \A j \in Jobs :
    jobStatus[j] # "absent" /\ (\A p \in Procs : at[p] = j => pc[p] \notin {"derive", "store"})
      => jobStatus[j] = DeriveJobStatus(stepStatus[j])

LEMMA DeriveWaiting ==
  ASSUME NEW rows, \A k \in DOMAIN rows : rows[k] \in {"absent", "pending"}
  PROVE  DeriveJobStatus(rows) = "pending"
<1>1. RowStatuses(rows) \subseteq {"pending"}
  BY DEF RowStatuses
<1> QED BY <1>1 DEF DeriveJobStatus

\* A process moves on, not out of _recompute_job_status.
LEMMA SettledKept ==
  ASSUME Settled, UNCHANGED <<jobStatus, stepStatus>>, NEW p \in Procs,
         \A q \in Procs \ {p} : pc'[q] = pc[q] /\ at'[q] = at[q],
         pc[p] \notin {"derive", "store"} \/ (at'[p] = at[p] /\ pc'[p] \in {"derive", "store"})
  PROVE  Settled'
<1> SUFFICES ASSUME NEW j \in Jobs, jobStatus[j] # "absent",
                    \A q \in Procs : at'[q] = j => pc'[q] \notin {"derive", "store"}
             PROVE  jobStatus[j] = DeriveJobStatus(stepStatus[j])
  BY DEF Settled
<1>1. ASSUME NEW q \in Procs PROVE at[q] = j => pc[q] \notin {"derive", "store"}
  <2>1. CASE q = p
    <3>1. CASE pc[p] \notin {"derive", "store"}
      BY <2>1, <3>1
    <3>2. CASE at'[p] = at[p] /\ pc'[p] \in {"derive", "store"}
      <4>1. at'[p] # j
        BY <3>2
      <4> QED BY <2>1, <3>2, <4>1
    <3> QED BY <3>1, <3>2
  <2>2. CASE q # p
    <3>1. q \in Procs \ {p}
      BY <2>2
    <3>2. pc'[q] = pc[q] /\ at'[q] = at[q]
      BY <3>1
    <3> QED BY <3>2
  <2> QED BY <2>1, <2>2
<1> QED BY <1>1 DEF Settled

LEMMA QuietStep ==
  ASSUME Settled, FaultInv, NEW p \in Procs, Enqueue(p) \/ ReadSteps(p)
  PROVE  Settled'
<1>1. CASE Enqueue(p)
  <2>1. /\ UNCHANGED <<jobStatus, stepStatus>> /\ pc[p] \notin {"derive", "store"}
        /\ \A q \in Procs \ {p} : pc'[q] = pc[q] /\ at'[q] = at[q]
    BY <1>1 DEF Enqueue, tables, Goto, Return, FaultInv, TypeOK
  <2> QED BY <2>1, SettledKept
<1>2. CASE ReadSteps(p)
  <2>1. /\ UNCHANGED <<jobStatus, stepStatus>> /\ at'[p] = at[p] /\ pc'[p] = "store"
        /\ \A q \in Procs \ {p} : pc'[q] = pc[q] /\ at'[q] = at[q]
    BY <1>2 DEF ReadSteps, tables, Goto, FaultInv, TypeOK
  <2>2. at'[p] = at[p] /\ pc'[p] \in {"derive", "store"}
    BY <2>1
  <2> QED BY <2>1, <2>2, SettledKept
<1> QED BY <1>1, <1>2

LEMMA SettledStep ==
  ASSUME MaxCrashes = 0, FaultInv, ChainInv, LifeInv, Settled, [Next]_vars
  PROVE  Settled'
<1> USE NoJobAssumption DEF FaultInv, TypeOK, LocalsFit, Procs, Goto, Return
<1>1. ASSUME NEW c \in Clients, NEW j \in Jobs, CreateJob(c, j) PROVE Settled'
  <2>1. DeriveJobStatus(stepStatus[j]) = "pending"
    BY <1>1, DeriveWaiting DEF CreateJob, RowsInOrder
  <2> QED BY <1>1, <2>1 DEF CreateJob, Settled
<1>2. ASSUME NEW c \in Clients, InsertStep(c) PROVE Settled'
  <2>1. /\ at[c] \in Jobs /\ jobStatus[at[c]] = "pending"
        /\ \A k \in Steps : stepStatus[at[c]][k] \in {"absent", "pending"}
    BY <1>2 DEF InsertStep, CreationAlone
  <2>2. /\ UNCHANGED <<jobStatus, at>>
        /\ \A j \in Jobs : j # at[c] => stepStatus'[j] = stepStatus[j]
        /\ \A k \in DOMAIN stepStatus'[at[c]] : stepStatus'[at[c]][k] \in {"absent", "pending"}
    BY <1>2, <2>1 DEF InsertStep
  <2>3. DeriveJobStatus(stepStatus'[at[c]]) = "pending"
    BY <2>2, DeriveWaiting
  <2>4. \A q \in Procs : at[q] # at[c] => pc'[q] = pc[q]
    BY <1>2 DEF InsertStep
  <2> SUFFICES ASSUME NEW j \in Jobs, jobStatus'[j] # "absent",
                      \A q \in Procs : at'[q] = j => pc'[q] \notin {"derive", "store"}
               PROVE  jobStatus'[j] = DeriveJobStatus(stepStatus'[j])
    BY DEF Settled
  <2>6. CASE j = at[c]
    BY <2>1, <2>2, <2>3, <2>6
  <2>7. CASE j # at[c]
    <3>1. \A q \in Procs : at[q] = j => pc[q] \notin {"derive", "store"}
      BY <2>2, <2>4, <2>7
    <3> QED BY <2>2, <2>7, <3>1 DEF Settled
  <2> QED BY <2>6, <2>7
<1>3. ASSUME NEW p \in Procs, NEW s, NEW next, at[p] \in Jobs, SetStep(p, s, next), UNCHANGED <<jobStatus, at>>
      PROVE  Settled'
  <2>1. /\ \A j \in Jobs : j # at[p] => stepStatus'[j] = stepStatus[j]
        /\ \A q \in Procs : q # p => pc'[q] = pc[q]
        /\ pc'[p] = "derive"
    BY <1>3 DEF SetStep
  <2> QED BY <1>3, <2>1 DEF Settled
<1>4. ASSUME NEW p \in Procs, StoreStatus(p) PROVE Settled'
  <2>1. at[p] \in Jobs /\ seen[p] = DeriveJobStatus(stepStatus[at[p]])
    BY <1>4 DEF StoreStatus, LifeInv, Knows
  <2>2. /\ UNCHANGED <<stepStatus, at>> /\ jobStatus'[at[p]] = seen[p]
        /\ \A j \in Jobs : j # at[p] => jobStatus'[j] = jobStatus[j]
        /\ \A q \in Procs : q # p => pc'[q] = pc[q]
    BY <1>4, <2>1 DEF StoreStatus
  <2> QED BY <2>1, <2>2 DEF Settled
<1>5. ASSUME NEW c \in Clients, ResetStep(c) \/ RecordOwner(c) PROVE Settled'
  <2>1. CASE ResetStep(c)
    BY <1>3, <2>1 DEF ResetStep
  <2>2. CASE RecordOwner(c)
    BY SettledKept, <2>2 DEF RecordOwner
  <2> QED BY <1>5, <2>1, <2>2
<1>6. ASSUME NEW c \in Clients, NEW j \in Jobs, Resume(c, j) \/ Retry(c, j) PROVE Settled'
  BY SettledKept, <1>6, ZenonT(30) DEF Resume, Retry, CountCall, tables
<1>7. ASSUME NEW w \in Workers, NEW j \in Jobs, Take(w, j) PROVE Settled'
  BY SettledKept, <1>7 DEF Take, tables
<1>8. ASSUME NEW w \in Workers,
             \/ StartStep(w) \/ FinishStep(w) \/ FailStep(w)
             \/ PollJob(w) \/ PickStep(w) \/ CheckJob(w) \/ Notify(w)
      PROVE  Settled'
  <2>1. CASE StartStep(w) \/ FinishStep(w) \/ FailStep(w)
    BY <1>3, <2>1 DEF StartStep, FinishStep, FailStep
  <2>2. CASE PollJob(w)
    <3>1. /\ UNCHANGED <<jobStatus, stepStatus>> /\ pc[w] \notin {"derive", "store"}
          /\ \A q \in Procs \ {w} : pc'[q] = pc[q] /\ at'[q] = at[q]
      BY <2>2 DEF PollJob, tables
    <3> QED BY <3>1, SettledKept
  <2>3. CASE PickStep(w)
    <3>1. /\ UNCHANGED <<jobStatus, stepStatus>> /\ pc[w] \notin {"derive", "store"}
          /\ \A q \in Procs \ {w} : pc'[q] = pc[q] /\ at'[q] = at[q]
      BY <2>3 DEF PickStep, tables
    <3> QED BY <3>1, SettledKept
  <2>4. CASE CheckJob(w)
    <3>1. /\ UNCHANGED <<jobStatus, stepStatus>> /\ pc[w] \notin {"derive", "store"}
          /\ \A q \in Procs \ {w} : pc'[q] = pc[q] /\ at'[q] = at[q]
      BY <2>4 DEF CheckJob, tables
    <3> QED BY <3>1, SettledKept
  <2>5. CASE Notify(w)
    BY SettledKept, <2>5 DEF Notify
  <2> QED BY <1>8, <2>1, <2>2, <2>3, <2>4, <2>5
<1>9. \A p \in Procs : /\ Enqueue(p) \/ ReadSteps(p) => Settled'
                       /\ StoreStatus(p) => Settled'
                       /\ ~Crash(p)
  BY <1>4, QuietStep DEF Crash
<1>10. ASSUME UNCHANGED <<jobStatus, stepStatus, pc, at>> PROVE Settled'
  BY <1>10 DEF Settled
<1>11. CASE UNCHANGED vars \/ \E j \in Jobs : Redeliver(j)
  BY <1>10, <1>11 DEF vars, tables, locals, Redeliver
<1> HIDE DEF FaultInv, TypeOK, LocalsFit, Goto, Return
<1>12. ASSUME NEW c \in Clients, ClientStep(c) PROVE Settled'
  <2>1. c \in Procs
    BY DEF Procs
  <2>2. CASE InsertStep(c)
    BY <1>2, <2>2
  <2>3. CASE ResetStep(c) \/ RecordOwner(c)
    BY <1>5, <2>3
  <2>4. CASE Enqueue(c) \/ ReadSteps(c) \/ StoreStatus(c)
    BY <1>9, <2>1, <2>4
  <2> QED BY <1>12, <2>2, <2>3, <2>4 DEF ClientStep
<1>13. ASSUME NEW w \in Workers, WorkerStep(w) PROVE Settled'
  <2>1. w \in Procs
    BY DEF Procs
  <2>2. CASE StartStep(w) \/ FinishStep(w) \/ FailStep(w) \/ PollJob(w) \/ PickStep(w) \/ CheckJob(w) \/ Notify(w)
    BY <1>8, <2>2
  <2>3. CASE Enqueue(w) \/ ReadSteps(w) \/ StoreStatus(w)
    BY <1>9, <2>1, <2>3
  <2> QED BY <1>13, <2>2, <2>3 DEF WorkerStep
<1>14. CASE \E w \in Workers, j \in Jobs : Take(w, j)
  BY <1>7, <1>14
<1>15. CASE \E c \in Clients, j \in Jobs : CreateJob(c, j) \/ Resume(c, j) \/ Retry(c, j)
  BY <1>1, <1>6, <1>15
<1> QED
  BY <1>9, <1>11, <1>12, <1>13, <1>14, <1>15 DEF Next

\* As long as no process is killed a job nobody works on has the status its steps determine
\* (_derive_job_status).
THEOREM StatusSettles ==
  ASSUME Careful, MaxRedeliveries = 0, MaxCrashes = 0
  PROVE  Spec => []SettledStatus
<1>1. FaultInv /\ ChainInv /\ LifeInv /\ Settled /\ [Next]_vars => Settled'
  BY SettledStep
<1>2. Init => Settled
  BY DEF Init, Settled
<1>3. FaultInv /\ Settled => SettledStatus
  BY DEF Settled, SettledStatus, ChainFree, Busy
<1> QED
  BY <1>1, <1>2, <1>3, ChainInvariant, LifeInvariant, FaultInvariant, PTL DEF Spec
-----------------------------------------------------------------------------
\* The refinement: what a step does to a job is a step of JobLifecycle or none.
Planned(j) == {k \in Steps : stepStatus[j][k] # "absent"}

Done(j) == {k \in Steps : stepStatus[j][k] = "done"}

LEMMA LifecycleInit == Init => Lifecycle!Init
BY DEF Init, Lifecycle!Init

\* Nothing a reader of the job's status, its rows and what is done can see.
LEMMA Unseen ==
  ASSUME UNCHANGED jobStatus, \A j \in Jobs : Planned(j)' = Planned(j) /\ Done(j)' = Done(j)
  PROVE  UNCHANGED Lifecycle!vars
BY DEF Lifecycle!vars, Planned, Done

\* What a reader sees of a change that concerns one job is one action of JobLifecycle.
LEMMA SeenAsPlan ==
  ASSUME NEW J \in Jobs, NEW K \in Steps, jobStatus[J] = "pending", Done(J) = {},
         Planned(J) = 1..(K - 1), Planned(J)' = 1..K, UNCHANGED jobStatus,
         \A j \in Jobs \ {J} : Planned(j)' = Planned(j), \A j \in Jobs : Done(j)' = Done(j)
  PROVE  Lifecycle!Next
<1> DEFINE planned == [j \in Jobs |-> Planned(j)]
           done == [j \in Jobs |-> Done(j)]
<1>1. planned[J] = 1..(K - 1) /\ planned' = [planned EXCEPT ![J] = 1..K]
  OBVIOUS
<1>2. done[J] = {} /\ done' = done
  OBVIOUS
<1>3. Lifecycle!Plan(J)
  BY <1>1, <1>2 DEF Lifecycle!Plan, Lifecycle!Steps, Planned, Done, Steps
<1> QED BY <1>3 DEF Lifecycle!Next

LEMMA SeenAsAdvance ==
  ASSUME NEW J \in Jobs, NEW K \in Steps, jobStatus[J] = "running", K \in Planned(J),
         Done(J) = 1..(K - 1), Done(J)' = 1..K, UNCHANGED jobStatus,
         \A j \in Jobs \ {J} : Done(j)' = Done(j), \A j \in Jobs : Planned(j)' = Planned(j)
  PROVE  Lifecycle!Next
<1> DEFINE planned == [j \in Jobs |-> Planned(j)]
           done == [j \in Jobs |-> Done(j)]
<1>1. done[J] = 1..(K - 1) /\ done' = [done EXCEPT ![J] = 1..K]
  OBVIOUS
<1>2. K \in planned[J] /\ planned' = planned
  OBVIOUS
<1>3. Lifecycle!Advance(J)
  BY <1>1, <1>2 DEF Lifecycle!Advance, Planned, Done
<1> QED BY <1>3 DEF Lifecycle!Next

LEMMA SeenAsBecome ==
  ASSUME NEW J \in Jobs, NEW s, jobStatus' = [jobStatus EXCEPT ![J] = s], UNCHANGED stepStatus
  PROVE  Lifecycle!Become(J, s)
BY DEF Lifecycle!Become

LEMMA CreateIsCreate ==
  ASSUME FaultInv, NEW c \in Clients, NEW j \in Jobs, CreateJob(c, j)
  PROVE  Lifecycle!Next
<1>1. Lifecycle!Become(j, "pending")
  BY SeenAsBecome DEF CreateJob
<1>2. Lifecycle!Create(j)
  BY <1>1 DEF CreateJob, Lifecycle!Create
<1> QED BY <1>2 DEF Lifecycle!Next

LEMMA InsertIsPlan ==
  ASSUME FaultInv, NEW c \in Clients, InsertStep(c)
  PROVE  Lifecycle!Next
<1>1. c \in Procs /\ pc[c] = "insert" /\ at[c] \in Jobs /\ cur[c] \in Steps
  BY DEF InsertStep, FaultInv, TypeOK, LocalsFit, Procs
<1>2. PICK J \in Jobs, K \in Steps : J = at[c] /\ K = cur[c]
  BY <1>1
<1>3. /\ jobStatus[J] = "pending"
      /\ \A k \in Steps : stepStatus[J][k] = IF k < K THEN "pending" ELSE "absent"
  BY <1>1, <1>2 DEF FaultInv, CreationAlone
<1>4. \A j \in Jobs, k \in Steps :
         stepStatus'[j][k] = IF j = J /\ k = K THEN "pending" ELSE stepStatus[j][k]
  BY <1>1, <1>2 DEF InsertStep, FaultInv, TypeOK
<1>5. Planned(J) = 1..(K - 1) /\ Done(J) = {}
  BY <1>3, StepsAssumption DEF Planned, Done, Steps
<1>6. Planned(J)' = 1..K
  BY <1>3, <1>4, StepsAssumption DEF Planned, Steps
<1>7. /\ \A j \in Jobs \ {J} : Planned(j)' = Planned(j)
      /\ \A j \in Jobs : Done(j)' = Done(j)
  BY <1>3, <1>4 DEF Planned, Done
<1>8. UNCHANGED jobStatus
  BY DEF InsertStep
<1> QED BY <1>3, <1>5, <1>6, <1>7, <1>8, SeenAsPlan

\* UPDATE job_steps: a step that ends done advances the job, any other is not seen.
LEMMA FinishIsAdvance ==
  ASSUME FaultInv, ChainInv, LifeInv, NEW w \in Workers, FinishStep(w)
  PROVE  Lifecycle!Next
<1>1. /\ w \in Procs /\ at[w] \in Jobs /\ cur[w] \in Steps
      /\ stepStatus[at[w]][cur[w]] = "running" /\ jobStatus[at[w]] = "running"
  BY DEF FinishStep, FaultInv, TypeOK, LocalsFit, Procs, ChainInv, ChainLocals, LifeInv, Knows
<1>2. PICK J \in Jobs, K \in Steps : J = at[w] /\ K = cur[w]
  BY <1>1
<1>3. /\ \A k \in Steps : k < K => stepStatus[J][k] = "done"
      /\ \A k \in Steps : k > K => stepStatus[J][k] \in {"absent", "pending"}
  BY <1>1, <1>2 DEF ChainInv, StepsInOrder, Steps
<1>4. \A j \in Jobs, k \in Steps :
         stepStatus'[j][k] = IF j = J /\ k = K THEN "done" ELSE stepStatus[j][k]
  BY <1>1, <1>2 DEF FinishStep, SetStep, FaultInv, TypeOK
<1>5. Done(J) = 1..(K - 1) /\ K \in Planned(J)
  BY <1>1, <1>2, <1>3, StepsAssumption DEF Planned, Done, Steps
<1>6. Done(J)' = 1..K
  BY <1>3, <1>4, StepsAssumption DEF Done, Steps
<1>7. /\ \A j \in Jobs \ {J} : Done(j)' = Done(j)
      /\ \A j \in Jobs : Planned(j)' = Planned(j)
  BY <1>1, <1>2, <1>4 DEF Planned, Done
<1>8. jobStatus[J] = "running" /\ UNCHANGED jobStatus
  BY <1>1, <1>2 DEF FinishStep
<1> QED BY <1>5, <1>6, <1>7, <1>8, SeenAsAdvance

LEMMA ChangeUnseen ==
  ASSUME FaultInv, NEW p \in Procs, at[p] \in Jobs, cur[p] \in Steps,
         NEW s \in Status, s # "done", NEW next, SetStep(p, s, next),
         stepStatus[at[p]][cur[p]] \notin {"absent", "done"}, UNCHANGED jobStatus
  PROVE  UNCHANGED Lifecycle!vars
<1>1. PICK J \in Jobs, K \in Steps : J = at[p] /\ K = cur[p]
  OBVIOUS
<1>2. \A j \in Jobs, k \in Steps :
         stepStatus'[j][k] = IF j = J /\ k = K THEN s ELSE stepStatus[j][k]
  BY <1>1 DEF SetStep, FaultInv, TypeOK
<1>3. \A j \in Jobs : Planned(j)' = Planned(j) /\ Done(j)' = Done(j)
  BY <1>1, <1>2 DEF Planned, Done, Status
<1> QED BY <1>3, Unseen

\* UPDATE jobs: begin, complete, fail or put back.
LEMMA StoreIsSeen ==
  ASSUME FaultInv, ChainInv, LifeInv, NEW p \in Procs, StoreStatus(p)
  PROVE  Lifecycle!Next \/ UNCHANGED Lifecycle!vars
<1>1. /\ at[p] \in Jobs /\ cur[p] \in Steps /\ pc[p] = "store" /\ Knows(p)
      /\ then[p] \in {"exec", "check", "enqueue"}
  BY DEF StoreStatus, FaultInv, TypeOK, LocalsFit, LifeInv
<1>2. PICK J \in Jobs, K \in Steps : J = at[p] /\ K = cur[p]
  BY <1>1
<1> DEFINE rows == stepStatus[J]
           s == DeriveJobStatus(rows)
<1>3. UNCHANGED stepStatus /\ jobStatus' = [jobStatus EXCEPT ![J] = s]
  BY <1>1, <1>2 DEF StoreStatus, Knows
<1>4. Lifecycle!Become(J, s)
  BY <1>3, SeenAsBecome
<1>5. /\ rows \in [Steps -> StatusOrAbsent]
      /\ \A k \in Steps : k < K => rows[k] = "done"
      /\ \A k \in Steps : k > K => rows[k] \in {"absent", "pending"}
  BY <1>1, <1>2 DEF Knows, FaultInv, TypeOK
<1>6. /\ rows[K] = "running" => s = "running"
      /\ rows[K] = "failed" => s = "failed"
      /\ rows[K] = "done" => s \in {"done", "running"}
      /\ rows[K] = "pending" => s = IF Done(J) = {} THEN "pending" ELSE "running"
  BY <1>5, DeriveAround DEF Done
<1>7. \/ jobStatus[J] = s /\ UNCHANGED Lifecycle!vars
      \/ jobStatus[J] # s
  <2>1. jobStatus[J] = s => jobStatus' = jobStatus
    BY <1>3 DEF FaultInv, TypeOK
  <2> QED BY <1>3, <2>1 DEF Lifecycle!vars
<1> HIDE DEF s
<1>8. CASE then[p] = "exec"
  <2>1. rows[K] = "running" /\ jobStatus[J] \in {"pending", "running"}
    BY <1>1, <1>2, <1>8 DEF ChainInv, ChainLocals, Knows, Updating
  <2>2. K \in Planned(J)
    BY <2>1 DEF Planned
  <2>3. CASE jobStatus[J] = "pending"
    <3>1. Lifecycle!Begin(J)
      BY <1>4, <1>6, <2>1, <2>2, <2>3 DEF Lifecycle!Begin, Planned
    <3> QED BY <3>1 DEF Lifecycle!Next
  <2> QED BY <1>6, <1>7, <2>1, <2>3
<1>9. CASE then[p] = "check"
  <2>1. rows[K] \in {"done", "failed"} /\ jobStatus[J] = "running"
    BY <1>1, <1>2, <1>9 DEF Knows, Updating
  <2>2. CASE s = "done"
    <3>1. Done(J) = Planned(J)
      BY <1>5, <2>2, DeriveDone DEF Done, Planned, s
    <3>2. Lifecycle!Complete(J)
      BY <1>4, <2>1, <2>2, <3>1 DEF Lifecycle!Complete, Planned, Done
    <3> QED BY <3>2 DEF Lifecycle!Next
  <2>3. CASE s = "failed"
    <3>1. rows[K] = "failed"
      BY <1>6, <2>1, <2>3
    <3>2. K \in Planned(J) /\ K \notin Done(J)
      BY <3>1 DEF Planned, Done
    <3>3. Lifecycle!Fail(J)
      BY <1>4, <2>1, <2>3, <3>2 DEF Lifecycle!Fail, Planned, Done
    <3> QED BY <3>3 DEF Lifecycle!Next
  <2> QED BY <1>6, <1>7, <2>1, <2>2, <2>3
<1>10. CASE then[p] = "enqueue"
  <2>1. rows[K] = "pending" /\ jobStatus[J] \in {"running", "failed"}
    BY <1>1, <1>2, <1>10 DEF Knows, Updating
  <2>2. K \in Planned(J) /\ K \notin Done(J)
    BY <2>1 DEF Planned, Done
  <2>3. Lifecycle!Retry(J)
    BY <1>4, <1>6, <2>1, <2>2 DEF Lifecycle!Retry, Planned, Done
  <2> QED BY <2>3 DEF Lifecycle!Next
<1> QED BY <1>1, <1>8, <1>9, <1>10

LEMMA LifecycleStep ==
  ASSUME FaultInv, ChainInv, LifeInv, [Next]_vars
  PROVE  Lifecycle!Next \/ UNCHANGED Lifecycle!vars
<1>1. ASSUME UNCHANGED <<jobStatus, stepStatus>> PROVE UNCHANGED Lifecycle!vars
  BY <1>1 DEF Lifecycle!vars
<1>2. ASSUME NEW c \in Clients, ResetStep(c) PROVE UNCHANGED Lifecycle!vars
  <2>1. /\ c \in Procs /\ at[c] \in Jobs /\ cur[c] \in Steps
        /\ stepStatus[at[c]][cur[c]] = "failed"
    BY <1>2 DEF ResetStep, FaultInv, TypeOK, LocalsFit, Procs, ChainInv, ChainLocals
  <2>2. SetStep(c, "pending", "enqueue") /\ UNCHANGED jobStatus /\ "pending" \in Status
    BY <1>2 DEF ResetStep, Status
  <2> QED BY <2>1, <2>2, ChangeUnseen
<1>3. ASSUME NEW w \in Workers, StartStep(w) PROVE UNCHANGED Lifecycle!vars
  <2>1. /\ w \in Procs /\ at[w] \in Jobs /\ cur[w] \in Steps
        /\ stepStatus[at[w]][cur[w]] \notin {"absent", "done"}
    BY <1>3 DEF StartStep, FaultInv, TypeOK, LocalsFit, Procs, ChainInv, ChainLocals
  <2>2. SetStep(w, "running", "exec") /\ UNCHANGED jobStatus /\ "running" \in Status
    BY <1>3 DEF StartStep, Status
  <2> QED BY <2>1, <2>2, ChangeUnseen
<1>4. ASSUME NEW w \in Workers, FailStep(w) PROVE UNCHANGED Lifecycle!vars
  <2>1. /\ w \in Procs /\ at[w] \in Jobs /\ cur[w] \in Steps
        /\ stepStatus[at[w]][cur[w]] = "running"
    BY <1>4 DEF FailStep, FaultInv, TypeOK, LocalsFit, Procs, ChainInv, ChainLocals
  <2>2. SetStep(w, "failed", "check") /\ UNCHANGED jobStatus /\ "failed" \in Status
    BY <1>4 DEF FailStep, Status
  <2> QED BY <2>1, <2>2, ChangeUnseen
<1>5. CASE \/ \E c \in Clients, j \in Jobs : CreateJob(c, j)
           \/ \E c \in Clients : InsertStep(c) \/ ResetStep(c)
           \/ \E w \in Workers : StartStep(w) \/ FinishStep(w) \/ FailStep(w)
           \/ \E p \in Procs : StoreStatus(p)
  BY <1>2, <1>3, <1>4, <1>5, CreateIsCreate, InsertIsPlan, FinishIsAdvance, StoreIsSeen
<1>6. CASE ~ \/ \E c \in Clients, j \in Jobs : CreateJob(c, j)
             \/ \E c \in Clients : InsertStep(c) \/ ResetStep(c)
             \/ \E w \in Workers : StartStep(w) \/ FinishStep(w) \/ FailStep(w)
             \/ \E p \in Procs : StoreStatus(p)
  <2>1. UNCHANGED <<jobStatus, stepStatus>>
    BY <1>6 DEF Next, WorkerStep, ClientStep, RecordOwner, Enqueue, Resume, Retry, Take, PollJob, PickStep,
         ReadSteps, CheckJob, Notify, Crash, Redeliver, vars, tables, Procs
  <2> QED BY <1>1, <2>1
<1> QED BY <1>5, <1>6

\* What GET /jobs/{id} shows of a job is a run of its life cycle: planned, begun, completed
\* one step after the other, failed and put back, done with all of its steps, whatever the
\* statements, messages, crashes, restarts and retries behind it.
THEOREM JobsFollowLifecycle ==
  ASSUME Careful, MaxRedeliveries = 0
  PROVE  Spec => ImplementsLifecycle
<1>1. FaultInv /\ ChainInv /\ LifeInv /\ [Next]_vars => [Lifecycle!Next]_(Lifecycle!vars)
  BY LifecycleStep
<1> QED
  BY <1>1, ChainInvariant, LifeInvariant, LifecycleInit, FaultInvariant, PTL
  DEF Spec, ImplementsLifecycle, Lifecycle!Spec
=============================================================================
