----------------------------- MODULE Deliveries -----------------------------
(***************************************************************************)
(* What follows when a job has ended: _notify_job_completion               *)
(* (tasks/pipeline_tasks.py) writes a notification for the job's owner     *)
(* (auth/store.py) and calls the owner's webhooks (auth/integrations.py)   *)
(* one after another, while users register and revoke webhooks through the *)
(* REST API (api/app.py).                                                  *)
(*                                                                         *)
(* Statements autocommit, so each is an action.  A call is the POST of     *)
(* urllib: a receiver that refuses, or answers with an error, raises       *)
(* HTTPError or URLError, which deliver_webhook catches; one that accepts  *)
(* and then stays silent or hangs up raises one that it does not catch.    *)
(***************************************************************************)
EXTENDS Naturals, FiniteSets, Sequences, SequencesExt

CONSTANTS
  Jobs, Users, Workers,
  NoUser,      \* not a user: nobody owns the job, the id is not given yet
  NoJob,       \* not a job
  MaxHooks,    \* bounds of the model: webhooks ever registered,
  MaxEnds,     \* ends of jobs that are reported,
  MaxFaults    \* receivers that hang up and workers killed

ASSUME NoUserAssumption == NoUser \notin Users
ASSUME NoJobAssumption == NoJob \notin Jobs
ASSUME FiniteAssumption == IsFiniteSet(Workers) /\ MaxHooks \in Nat

Hooks == 1..MaxHooks

VARIABLES
  owner,       \* per job, job_ownership.owner_id
  hookUser,    \* per webhook id, webhooks.user_id
  revoked,     \* the webhooks whose revoked_at is not NULL
  notices,     \* per job, how many notifications tell of it, and to whom
  tried,       \* per job and webhook, how often it was called
  pc,          \* per worker, what it is about to do
  at,          \* per worker, the job it reports
  todo,        \* per worker, the webhooks it has yet to call
  stale,       \* per worker, the webhooks that were revoked when its report began
  ends,        \* reports begun
  faults       \* receivers that hung up and workers killed

locals == <<pc, at, todo, stale>>
vars == <<owner, hookUser, revoked, notices, tried, locals, ends, faults>>

Registered == {h \in Hooks : hookUser[h] # NoUser}

\* The invariant of the types; ids are given in order and an idle worker has no job.
TypeOK ==
  /\ owner \in [Jobs -> Users \cup {NoUser}]
  /\ hookUser \in [Hooks -> Users \cup {NoUser}]
  /\ \A h \in Registered : 1..h \subseteq Registered
  /\ revoked \subseteq Registered
  /\ notices \in [Jobs -> [Users -> Nat]]
  /\ tried \in [Jobs -> [Hooks -> Nat]]
  /\ pc \in [Workers -> {"idle", "owner", "notify", "list", "call"}]
  /\ at \in [Workers -> Jobs \cup {NoJob}]
  /\ \A w \in Workers : pc[w] = "idle" <=> at[w] = NoJob
  /\ \A w \in Workers : IsInjective(todo[w]) /\ ToSet(todo[w]) \subseteq Registered
  /\ stale \in [Workers -> SUBSET Hooks]
  /\ ends \in Nat /\ faults \in Nat

Init ==
  /\ owner \in [Jobs -> Users \cup {NoUser}]
  /\ hookUser = [h \in Hooks |-> NoUser]
  /\ revoked = {}
  /\ notices = [j \in Jobs |-> [u \in Users |-> 0]]
  /\ tried = [j \in Jobs |-> [h \in Hooks |-> 0]]
  /\ pc = [w \in Workers |-> "idle"]
  /\ at = [w \in Workers |-> NoJob]
  /\ todo = [w \in Workers |-> <<>>]
  /\ stale = [w \in Workers |-> {}]
  /\ ends = 0
  /\ faults = 0
-----------------------------------------------------------------------------
(* POST and DELETE /me/webhooks.                                           *)

\* register_webhook: the next id of the sequence.
RegisterHook(u) ==
  /\ \E h \in Hooks \ Registered :
       /\ 1..(h - 1) \subseteq Registered
       /\ hookUser' = [hookUser EXCEPT ![h] = u]
  /\ UNCHANGED <<owner, revoked, notices, tried, locals, ends, faults>>

\* revoke_webhook: a user's own webhook that is not revoked yet, or 404.
RevokeHook(u, h) ==
  /\ hookUser[h] = u
  /\ h \notin revoked
  /\ revoked' = revoked \cup {h}
  /\ UNCHANGED <<owner, hookUser, notices, tried, locals, ends, faults>>
-----------------------------------------------------------------------------
(* _notify_job_completion.                                                 *)

Goto(w, label) == pc' = [pc EXCEPT ![w] = label]

Return(w) ==
  /\ Goto(w, "idle")
  /\ at' = [at EXCEPT ![w] = NoJob]
  /\ todo' = [todo EXCEPT ![w] = <<>>]
  /\ stale' = [stale EXCEPT ![w] = {}]

\* A worker has stored a terminal status; a job that is retried ends again.
Begin(w, j) ==
  /\ pc[w] = "idle"
  /\ ends < MaxEnds
  /\ ends' = ends + 1
  /\ Goto(w, "owner")
  /\ at' = [at EXCEPT ![w] = j]
  /\ stale' = [stale EXCEPT ![w] = revoked]
  /\ UNCHANGED <<owner, hookUser, revoked, notices, tried, todo, faults>>

\* get_job_owner: an anonymous job tells nobody.
ReadOwner(w) ==
  /\ pc[w] = "owner"
  /\ \/ owner[at[w]] = NoUser /\ Return(w)
     \/ owner[at[w]] # NoUser /\ Goto(w, "notify") /\ UNCHANGED <<at, todo, stale>>
  /\ UNCHANGED <<owner, hookUser, revoked, notices, tried, ends, faults>>

\* create_notification.
Notify(w) ==
  /\ pc[w] = "notify"
  /\ notices' = [notices EXCEPT ![at[w]][owner[at[w]]] = @ + 1]
  /\ Goto(w, "list")
  /\ UNCHANGED <<owner, hookUser, revoked, tried, at, todo, stale, ends, faults>>

\* Mutant: no WHERE user_id.
EveryHook(u) == {h \in Registered : h \notin revoked}

\* Mutant: no AND revoked_at IS NULL.
AlsoRevoked(u) == {h \in Registered : hookUser[h] = u}

\* list_webhooks.
Listed(u) == {h \in Registered : hookUser[h] = u /\ h \notin revoked}

\* ORDER BY created_at DESC: the sequence of all of S, as a set.
NewestFirst(S) == {s \in [1..Cardinality(S) -> S] : \A i, k \in DOMAIN s : i < k => s[i] > s[k]}

\* list_webhooks.
ListHooks(w) ==
  /\ pc[w] = "list"
  /\ \E s \in NewestFirst(Listed(owner[at[w]])) : todo' = [todo EXCEPT ![w] = s]
  /\ Goto(w, "call")
  /\ UNCHANGED <<owner, hookUser, revoked, notices, tried, at, stale, ends, faults>>

\* The next webhook is called.
Ring(w) ==
  /\ pc[w] = "call"
  /\ todo[w] # <<>>
  /\ tried' = [tried EXCEPT ![at[w]][Head(todo[w])] = @ + 1]

\* Mutant: a call that is not answered well is made again.
DeliverAgain(w) ==
  /\ Ring(w)
  /\ todo' = todo \/ todo' = [todo EXCEPT ![w] = Tail(@)]
  /\ UNCHANGED <<owner, hookUser, revoked, notices, pc, at, stale, ends, faults>>

\* Mutant: the first receiver that fails ends the loop.
DeliverFirst(w) ==
  /\ Ring(w)
  /\ todo' = [todo EXCEPT ![w] = Tail(@)] \/ todo' = [todo EXCEPT ![w] = <<>>]
  /\ UNCHANGED <<owner, hookUser, revoked, notices, pc, at, stale, ends, faults>>

\* deliver_webhook returns, whether the receiver answered, refused or was not there.
Deliver(w) ==
  /\ Ring(w)
  /\ todo' = [todo EXCEPT ![w] = Tail(@)]
  /\ UNCHANGED <<owner, hookUser, revoked, notices, pc, at, stale, ends, faults>>

\* The receiver took the request and did not answer in time, or hung up: the exception
\* ends the task and the webhooks after this one are not called.
HangUp(w) ==
  /\ Ring(w)
  /\ faults < MaxFaults
  /\ faults' = faults + 1
  /\ Return(w)
  /\ UNCHANGED <<owner, hookUser, revoked, notices, ends>>

\* Every webhook was called.
EndReport(w) ==
  /\ pc[w] = "call"
  /\ todo[w] = <<>>
  /\ Return(w)
  /\ UNCHANGED <<owner, hookUser, revoked, notices, tried, ends, faults>>

\* The worker is killed.
Crash(w) ==
  /\ pc[w] # "idle"
  /\ faults < MaxFaults
  /\ faults' = faults + 1
  /\ Return(w)
  /\ UNCHANGED <<owner, hookUser, revoked, notices, tried, ends>>

\* What a worker does with a report it has begun.
Report(w) ==
  ReadOwner(w) \/ Notify(w) \/ ListHooks(w) \/ Deliver(w) \/ EndReport(w)

Next ==
  \/ \E u \in Users : RegisterHook(u) \/ \E h \in Hooks : RevokeHook(u, h)
  \/ \E w \in Workers :
       Report(w) \/ HangUp(w) \/ Crash(w) \/ \E j \in Jobs : Begin(w, j)

Spec == Init /\ [][Next]_vars

\* A live worker goes on with its report: urllib's timeout ends every call.
ReportFairness == \A w \in Workers : WF_vars(Report(w))

FairSpec == Spec /\ ReportFairness
-----------------------------------------------------------------------------
\* A receiver that asks back finds a notification for every call it got, whatever
\* registered, revoked, retried or died meanwhile; so no call is repeated for one end.
CallsAreNoted ==
  \A j \in Jobs, u \in Users, h \in Hooks :
    hookUser[h] = u => tried[j][h] <= notices[j][u]

\* Nobody but the owner hears of a job, by notification or by webhook.
OnlyOwnerHears ==
  \A j \in Jobs, u \in Users : u # owner[j] =>
    /\ notices[j][u] = 0
    /\ \A h \in Hooks : hookUser[h] = u => tried[j][h] = 0

\* A webhook that was revoked before a job ended is not called any more; one that is
\* revoked while the report runs still may be.
RevokedIsSilent == \A w \in Workers : ToSet(todo[w]) \cap stale[w] = {}

\* Every webhook the owner had when the notification was written is called, unless
\* it is revoked meanwhile or a fault ends the report: a receiver that refuses or answers
\* with an error does not keep the call from those after it.
EveryHookIsTried ==
  \A j \in Jobs, h \in Hooks :
    (\E w \in Workers : pc[w] = "notify" /\ at[w] = j /\ h \in Listed(owner[j]))
      ~> (tried[j][h] > 0 \/ h \in revoked \/ faults > 0)
=============================================================================
