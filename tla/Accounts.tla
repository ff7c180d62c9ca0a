------------------------------- MODULE Accounts -------------------------------
(***************************************************************************)
(* The requests of the REST API to accounts (api/app.py, auth/store.py,     *)
(* auth/integrations.py): who a request is taken for, and what it may do    *)
(* with sessions, roles, keys, jobs, links and exports.                     *)
(*                                                                         *)
(* A process is the worker thread that serves one request.  Its connection *)
(* commits every statement, so others come in between any two of them; a   *)
(* statement whose result only goes into the answer is left out.  A user is *)
(* known by the email, which is unique; a viewer and a designer may do the  *)
(* same.  was, rights and owned are history: what held at some moment since *)
(* the request began.                                                      *)
(***************************************************************************)
EXTENDS Naturals, FiniteSets

CONSTANTS
  Procs,         \* worker threads of the API
  Users,         \* emails
  Nobody,        \* not a user
  Granted,       \* the rights administrators give
  MaxRequests,   \* bound of the model: requests
  MaxSessions,   \* bound of the model: session tokens
  MaxKeys,       \* bound of the model: API keys
  MaxJobs        \* bound of the model: jobs

\* role and closed_contour_access; of the roles only the administrator's is asked for.
Rights == [admin : BOOLEAN, closed : BOOLEAN]

ASSUME UsersAssumption == IsFiniteSet(Users)
ASSUME NobodyAssumption == Nobody \notin Users
ASSUME GrantedAssumption == Granted \subseteq Rights

NewUser == [admin |-> FALSE, closed |-> FALSE]

VARIABLES
  users,      \* per registered user, the rights
  sessions,   \* rows [id, user] of sessions that are not deleted
  expired,    \* tokens whose expires_at has passed
  tokens,     \* tokens made so far
  keys,       \* rows [id, user] of api_keys
  revoked,    \* ids of keys with a revoked_at
  jobs,       \* jobs made so far
  owner,      \* job_ownership
  links,      \* jobs with a row in public_links
  exported,   \* jobs copied to the exchange folder
  pc,         \* per process, the statement it is about to execute
  bearer,     \* per process, the token of its Authorization header; 0: none
  apiKey,     \* per process, the key of its X-API-Key header; 0: none
  user,       \* per process, current user and rights, as read
  arg,        \* per process, the job or user of the path and the new rights
  was,        \* per process, whom its credentials stood for
  rights,     \* per process, the rights each user had
  owned,      \* per process, the jobs that had an owner when the request began
  requests    \* requests begun

tables == <<users, sessions, expired, tokens, keys, revoked, jobs, owner, links, exported>>
vars == <<tables, pc, bearer, apiKey, user, arg, was, rights, owned, requests>>

NoUser == [id |-> Nobody, rights |-> NewUser]
NoArg == [job |-> 0, user |-> Nobody, rights |-> NewUser]

\* The service has run before: every user there is has a session and a key.
Init ==
  /\ \E known \in SUBSET Users : \E number \in [known -> 1..Cardinality(known)] :
       /\ \A u, v \in known : number[u] = number[v] => u = v
       /\ users \in [known -> Granted]
       /\ sessions = {[id |-> number[u], user |-> u] : u \in known}
       /\ keys = sessions
       /\ tokens = Cardinality(known)
  /\ expired = {} /\ revoked = {}
  /\ jobs = 0 /\ owner = [j \in {} |-> Nobody]
  /\ links = {} /\ exported = {}
  /\ pc = [p \in Procs |-> "idle"]
  /\ bearer = [p \in Procs |-> 0] /\ apiKey = [p \in Procs |-> 0]
  /\ user = [p \in Procs |-> NoUser] /\ arg = [p \in Procs |-> NoArg]
  /\ was = [p \in Procs |-> {}] /\ rights = [p \in Procs |-> {}] /\ owned = [p \in Procs |-> {}]
  /\ requests = 0
-----------------------------------------------------------------------------
(* Statements.                                                             *)

Goto(p, label) == pc' = [pc EXCEPT ![p] = label]

\* The answer is sent, or the process dies.
Done(p) ==
  /\ Goto(p, "idle")
  /\ bearer' = [bearer EXCEPT ![p] = 0] /\ apiKey' = [apiKey EXCEPT ![p] = 0]
  /\ user' = [user EXCEPT ![p] = NoUser] /\ arg' = [arg EXCEPT ![p] = NoArg]

ReadUser(p, u) == user' = [user EXCEPT ![p] = [id |-> u, rights |-> users[u]]]

\* Mutant: expires_at is not compared.
EverySession == sessions

\* WHERE expires_at > now().
LiveSessions == {s \in sessions : s.id \notin expired}

\* WHERE revoked_at IS NULL.
LiveKeys == {k \in keys : k.id \notin revoked}

\* A request arrives with any headers; one whose handler does not depend on the user
\* begins with its handler and does not look at X-API-Key.
Begin(p) ==
  /\ pc[p] = "idle" /\ requests < MaxRequests
  /\ requests' = requests + 1
  /\ \E b \in 0..tokens : bearer' = [bearer EXCEPT ![p] = b]
  /\ \/ /\ \E k \in 0..Cardinality(keys) : apiKey' = [apiKey EXCEPT ![p] = k]
        /\ Goto(p, "token")
     \/ apiKey' = apiKey /\ Goto(p, "open")
  /\ UNCHANGED <<tables, user, arg>>

\* get_current_user, first half: get_user_by_token, one join of two tables.
ByToken(p) ==
  /\ pc[p] = "token"
  /\ IF \E s \in LiveSessions : s.id = bearer[p]
     THEN /\ \E s \in LiveSessions : s.id = bearer[p] /\ ReadUser(p, s.user)
          /\ Goto(p, "handle")
     ELSE /\ Goto(p, IF apiKey[p] # 0 THEN "key" ELSE "handle")
          /\ user' = user
  /\ UNCHANGED <<tables, bearer, apiKey, arg>>

\* get_user_by_api_key, its own statement.
ByKey(p) ==
  /\ pc[p] = "key"
  /\ IF \E k \in LiveKeys : k.id = apiKey[p]
     THEN /\ \E k \in LiveKeys : k.id = apiKey[p] /\ arg' = [arg EXCEPT ![p].user = k.user]
          /\ Goto(p, "keyUser")
     ELSE Goto(p, "handle") /\ arg' = arg
  /\ UNCHANGED <<tables, bearer, apiKey, user>>

\* get_user_by_id, called by get_user_by_api_key.
KeyUser(p) ==
  /\ pc[p] = "keyUser"
  /\ ReadUser(p, arg[p].user)
  /\ arg' = [arg EXCEPT ![p] = NoArg]
  /\ Goto(p, "handle")
  /\ UNCHANGED <<tables, bearer, apiKey>>
-----------------------------------------------------------------------------
(* Handlers.                                                               *)

RequireUser(p) == user[p].id # Nobody
RequireAdmin(p) == RequireUser(p) /\ user[p].rights.admin

\* 401, 403, 404, 409 or 422, a handler that only reads (get_me, list_projects, list_my_*,
\* get_closed_contour_summary), or the server dies in the middle of any.
Leave(p) == pc[p] # "idle" /\ Done(p) /\ UNCHANGED tables

\* create_session, the last statement of register and of login.
CreateSession(p) ==
  /\ pc[p] = "session"
  /\ tokens < MaxSessions
  /\ tokens' = tokens + 1
  /\ sessions' = sessions \cup {[id |-> tokens + 1, user |-> arg[p].user]}
  /\ Done(p)
  /\ UNCHANGED <<users, expired, keys, revoked, jobs, owner, links, exported>>

\* register: the first statement, create_user; UniqueViolation for an email there is.
Register(p) ==
  /\ pc[p] = "open"
  /\ \E u \in Users \ DOMAIN users :
       /\ users' = [v \in DOMAIN users \cup {u} |-> IF v = u THEN NewUser ELSE users[v]]
       /\ arg' = [arg EXCEPT ![p].user = u]
  /\ Goto(p, "session")
  /\ UNCHANGED <<sessions, expired, tokens, keys, revoked, jobs, owner, links, exported>>
  /\ UNCHANGED <<bearer, apiKey, user>>

\* login: authenticate, with the right password.
Login(p) ==
  /\ pc[p] = "open"
  /\ \E u \in DOMAIN users : arg' = [arg EXCEPT ![p].user = u]
  /\ Goto(p, "session")
  /\ UNCHANGED <<tables, bearer, apiKey, user>>

\* logout: revoke_session; the token need not be live.
Logout(p) ==
  /\ pc[p] = "open"
  /\ sessions' = {s \in sessions : s.id # bearer[p]}
  /\ Done(p)
  /\ UNCHANGED <<users, expired, tokens, keys, revoked, jobs, owner, links, exported>>

\* update_user_role: get_user_by_id finds the user of the path.
FindUser(p) ==
  /\ pc[p] = "handle" /\ RequireAdmin(p)
  /\ \E u \in DOMAIN users, r \in Granted : arg' = [arg EXCEPT ![p].user = u, ![p].rights = r]
  /\ Goto(p, "role")
  /\ UNCHANGED <<tables, bearer, apiKey, user>>

\* update_user_role: set_user_role.
SetUserRole(p) ==
  /\ pc[p] = "role"
  /\ users' = [users EXCEPT ![arg[p].user] = arg[p].rights]
  /\ Done(p)
  /\ UNCHANGED <<sessions, expired, tokens, keys, revoked, jobs, owner, links, exported>>

\* create_my_api_key.
CreateKey(p) ==
  /\ pc[p] = "handle" /\ RequireUser(p)
  /\ Cardinality(keys) < MaxKeys
  /\ keys' = keys \cup {[id |-> Cardinality(keys) + 1, user |-> user[p].id]}
  /\ Done(p)
  /\ UNCHANGED <<users, sessions, expired, tokens, revoked, jobs, owner, links, exported>>

\* revoke_my_api_key: only a key of the user's own.
RevokeKey(p) ==
  /\ pc[p] = "handle" /\ RequireUser(p)
  /\ \E k \in LiveKeys : k.user = user[p].id /\ revoked' = revoked \cup {k.id}
  /\ Done(p)
  /\ UNCHANGED <<users, sessions, expired, tokens, keys, jobs, owner, links, exported>>

\* create_job and create_job_open: the job is there before its owner is.  What
\* enqueue_job starts is JobPipeline.
CreateJob(p) ==
  /\ pc[p] \in {"open", "handle"} /\ jobs < MaxJobs
  /\ jobs' = jobs + 1
  /\ IF RequireUser(p)
     THEN /\ arg' = [arg EXCEPT ![p].job = jobs + 1]
          /\ Goto(p, "own")
          /\ UNCHANGED <<bearer, apiKey, user>>
     ELSE Done(p)
  /\ UNCHANGED <<users, sessions, expired, tokens, keys, revoked, owner, links, exported>>

\* create_job: record_job_ownership, ON CONFLICT DO NOTHING.
RecordOwnership(p) ==
  /\ pc[p] = "own"
  /\ owner' = [j \in DOMAIN owner \cup {arg[p].job} |->
                 IF j \in DOMAIN owner THEN owner[j] ELSE user[p].id]
  /\ Done(p)
  /\ UNCHANGED <<users, sessions, expired, tokens, keys, revoked, jobs, links, exported>>

\* Mutant: the owner is not asked for.
AnyJob(p, j) == j \in 1..jobs

\* share_job and export_job_to_pilot_bim refuse those who are not the owner.
MayShare(p, j) == j \in 1..jobs /\ (j \in DOMAIN owner => owner[j] = user[p].id)

\* share_job and export_job_to_pilot_bim: get_job and get_job_owner.
CheckOwner(p) ==
  /\ pc[p] = "handle" /\ RequireUser(p)
  /\ \E j \in 1..jobs : MayShare(p, j) /\ arg' = [arg EXCEPT ![p].job = j]
  /\ \/ Goto(p, "link") \/ Goto(p, "export")
  /\ UNCHANGED <<tables, bearer, apiKey, user>>

\* share_job: create_public_link.
CreatePublicLink(p) ==
  /\ pc[p] = "link"
  /\ links' = links \cup {arg[p].job}
  /\ Done(p)
  /\ UNCHANGED <<users, sessions, expired, tokens, keys, revoked, jobs, owner, exported>>

\* export_job_to_pilot_bim: export_job_to_exchange_folder, once there is a model.
Export(p) ==
  /\ pc[p] = "export"
  /\ exported' = exported \cup {arg[p].job}
  /\ Done(p)
  /\ UNCHANGED <<users, sessions, expired, tokens, keys, revoked, jobs, owner, links>>

\* A day goes by.
Expire ==
  /\ \E t \in (1..tokens) \ expired : expired' = expired \cup {t}
  /\ UNCHANGED <<pc, bearer, apiKey, user, arg>>
  /\ UNCHANGED <<users, sessions, tokens, keys, revoked, jobs, owner, links, exported>>
-----------------------------------------------------------------------------
\* The user each credential of a process stands for now.
Standing(p) ==
  LET session == {s \in sessions : s.id = bearer[p] /\ s.id \notin expired}
      key == {k \in keys : k.id = apiKey[p] /\ k.id \notin revoked}
  IN  [by : {"session"}, user : IF session = {} THEN {Nobody} ELSE {s.user : s \in session}]
        \cup [by : {"key"}, user : IF key = {} THEN {Nobody} ELSE {k.user : k \in key}]

\* The history is kept while a request is served.
Remember ==
  /\ was' = [p \in Procs |-> IF pc'[p] = "idle" THEN {} ELSE was[p] \cup Standing(p)']
  /\ rights' = [p \in Procs |-> IF pc'[p] = "idle" THEN {} ELSE
                  rights[p] \cup {[id |-> u, rights |-> users'[u]] : u \in DOMAIN users'}]
  /\ owned' = [p \in Procs |-> IF pc'[p] = "idle" THEN {}
                                ELSE IF pc[p] = "idle" THEN DOMAIN owner ELSE owned[p]]

Handle(p) ==
  \/ ByToken(p) \/ ByKey(p) \/ KeyUser(p) \/ Leave(p)
  \/ Register(p) \/ Login(p) \/ CreateSession(p) \/ Logout(p)
  \/ FindUser(p) \/ SetUserRole(p) \/ CreateKey(p) \/ RevokeKey(p)
  \/ CreateJob(p) \/ RecordOwnership(p)
  \/ CheckOwner(p) \/ CreatePublicLink(p) \/ Export(p)

Next ==
  /\ \/ \E p \in Procs : Begin(p)
     \/ (Expire \/ \E p \in Procs : Handle(p)) /\ requests' = requests
  /\ Remember

Spec == Init /\ [][Next]_vars
-----------------------------------------------------------------------------
\* Logging out, the end of a session, revoking a key and a change of role take effect on
\* every request that begins afterwards, and disturb no other.  A request is taken for
\* a user only if one of its credentials was good, and acts with rights the user had, at
\* some moment since it began; it is turned away only if each of them was bad at one.
AuthenticatedInTime ==
  \A p \in Procs : pc[p] \notin {"idle", "token", "key", "keyUser", "open", "session"} =>
    LET Was(credential, u) == [by |-> credential, user |-> u] \in was[p]
        u == user[p].id
    IN  IF u = Nobody THEN Was("session", Nobody) /\ Was("key", Nobody)
        ELSE /\ user[p] \in rights[p]
             /\ Was("session", u) \/ (Was("session", Nobody) /\ Was("key", u))

\* A job that belonged to someone when a request began is shared and exported by that
\* request only for its owner, however its other statements were delayed.
OwnerDecides ==
  \A p \in Procs : pc[p] \in {"link", "export"} /\ arg[p].job \in owned[p]
    => user[p].id = owner[arg[p].job]
=============================================================================
