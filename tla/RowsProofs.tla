----------------------------- MODULE RowsProofs -----------------------------
(***************************************************************************)
(* What the rows of the database promise: who a request is taken for and   *)
(* what it may do with a job (Accounts), for any number of threads, users, *)
(* tokens, keys and jobs, and which row of a registry number is the current *)
(* one (ConstraintZones), for any number of loaders, files and numbers.    *)
(*                                                                         *)
(* The arguments.  A request sees the tables of one moment per statement   *)
(* and the history has every moment, so what it read was true at one of    *)
(* them; nobody but the request itself changes what it keeps; users and    *)
(* owners of jobs are only ever added.  A zone never vanishes because the  *)
(* row a loader supersedes is a row of the number it is about to insert    *)
(* (ReadRow), and because the id it takes is new (FreshIds): no loader can *)
(* have superseded it yet.                                                 *)
(***************************************************************************)
EXTENDS Accounts, ConstraintZones, FiniteSetTheorems, TLAPS

-----------------------------------------------------------------------------
(* Requests (Accounts).                                                    *)

Labels == {"idle", "token", "key", "keyUser", "open", "handle", "session", "role", "own", "link", "export"}

\* The statements before which a request has no user.
Unknown == {"token", "key", "keyUser", "open", "session"}

Anyone == DOMAIN users \cup {Nobody}

Was(p, credential, u) == [by |-> credential, user |-> u] \in was[p]

\* The tables.
TablesOK ==
  /\ DOMAIN users \subseteq Users
  /\ users \in [DOMAIN users -> Rights]
  /\ sessions \subseteq [id : Nat, user : DOMAIN users]
  /\ keys \subseteq [id : Nat \ {0}, user : DOMAIN users]
  /\ IsFiniteSet(keys)
  /\ tokens \in Nat /\ jobs \in Nat

\* The locals of the requests.
LocalsOK ==
  /\ pc \in [Procs -> Labels]
  /\ bearer \in [Procs -> Nat] /\ apiKey \in [Procs -> Nat]
  /\ user \in [Procs -> [id : Anyone, rights : Rights]]
  /\ arg \in [Procs -> [job : Nat, user : Anyone, rights : Rights]]
  /\ \A p \in Procs : pc[p] = "idle" => user[p] = NoUser

\* As AuthenticatedInTime says of one request.
Authenticated(p) ==
  IF user[p].id = Nobody THEN Was(p, "session", Nobody) /\ Was(p, "key", Nobody)
  ELSE /\ user[p] \in rights[p]
       /\ Was(p, "session", user[p].id) \/ (Was(p, "session", Nobody) /\ Was(p, "key", user[p].id))

\* What is true of a request while it is served: the history holds what is true now,
\* and what the statements it has behind it found.
Served(p) ==
  /\ Standing(p) \subseteq was[p]
  /\ \A u \in DOMAIN users : [id |-> u, rights |-> users[u]] \in rights[p]
  /\ owned[p] \subseteq DOMAIN owner
  /\ pc[p] \in Unknown => user[p] = NoUser
  /\ pc[p] \in {"key", "keyUser"} => Was(p, "session", Nobody)
  /\ pc[p] = "keyUser" => arg[p].user \in DOMAIN users /\ Was(p, "key", arg[p].user)
  /\ pc[p] = "session" => arg[p].user \in DOMAIN users
  /\ pc[p] \notin Unknown => Authenticated(p)
  /\ pc[p] \in {"link", "export"} /\ arg[p].job \in owned[p] => user[p].id = owner[arg[p].job]

AccountsInv ==
  /\ TablesOK /\ LocalsOK
  /\ \A p \in Procs : pc[p] # "idle" => Served(p)

\* Users and owners are only added.
Grown ==
  /\ \A u \in DOMAIN users : u \in DOMAIN users'
  /\ \A j \in DOMAIN owner : j \in DOMAIN owner' /\ owner'[j] = owner[j]

\* What a step keeps of the request p.
SameLocals(p) ==
  /\ pc'[p] = pc[p] /\ user'[p] = user[p] /\ arg'[p] = arg[p]
-----------------------------------------------------------------------------
LEMMA InitOK == Init => AccountsInv
<1> SUFFICES ASSUME Init PROVE AccountsInv
  OBVIOUS
<1>1. PICK known \in SUBSET Users : \E number \in [known -> 1..Cardinality(known)] :
        /\ users \in [known -> Granted]
        /\ sessions = {[id |-> number[u], user |-> u] : u \in known}
        /\ keys = sessions
        /\ tokens = Cardinality(known)
  BY DEF Init
<1>2. PICK number \in [known -> 1..Cardinality(known)] :
        /\ users \in [known -> Granted]
        /\ sessions = {[id |-> number[u], user |-> u] : u \in known}
        /\ keys = sessions
        /\ tokens = Cardinality(known)
  BY <1>1
<1>3. IsFiniteSet(known) /\ Cardinality(known) \in Nat
  BY UsersAssumption, FS_Subset, FS_CardinalityType
<1>4. IsFiniteSet(keys)
  <2> DEFINE Row == [u \in known |-> [id |-> number[u], user |-> u]]
  <2>1. Row \in Surjection(known, keys)
    BY <1>2 DEF Surjection
  <2> QED
    BY <2>1, <1>3, FS_Surjection
<1>5. TablesOK
  BY <1>2, <1>3, <1>4, GrantedAssumption DEF TablesOK, Init
<1>6. LocalsOK
  BY DEF Init, LocalsOK, Labels, Anyone, NoUser, NoArg, NewUser, Rights
<1> QED
  BY <1>5, <1>6 DEF Init, AccountsInv

LEMMA Untouched ==
  ASSUME Remember, Grown, TablesOK', LocalsOK, NEW p \in Procs, SameLocals(p),
         pc[p] # "idle", Served(p)
  PROVE  Served(p)'
<1>1. /\ was'[p] = was[p] \cup Standing(p)'
      /\ rights'[p] = rights[p] \cup {[id |-> u, rights |-> users'[u]] : u \in DOMAIN users'}
      /\ owned'[p] = owned[p]
  BY DEF Remember, SameLocals
<1>2. Authenticated(p) => Authenticated(p)'
  BY <1>1 DEF Authenticated, Was, SameLocals
<1> QED
  BY <1>1, <1>2 DEF Served, SameLocals, Grown, Was

\* What a step of request p has to achieve.
Progress(p) ==
  /\ TablesOK' /\ LocalsOK' /\ Grown
  /\ \A q \in Procs \ {p} : SameLocals(q)
  /\ pc'[p] # "idle" => Served(p)'

LEMMA ProgressSuffices ==
  ASSUME AccountsInv, Remember, NEW p \in Procs, Progress(p)
  PROVE  AccountsInv'
<1> SUFFICES ASSUME NEW q \in Procs, pc'[q] # "idle"
             PROVE  Served(q)'
  BY DEF AccountsInv, Progress
<1>1. CASE q = p
  BY <1>1 DEF Progress
<1>2. CASE q # p
  BY <1>2, Untouched DEF Progress, AccountsInv, SameLocals
<1> QED
  BY <1>1, <1>2

\* The answer is sent: nothing is left to say of the request.
LEMMA DoneStep ==
  ASSUME AccountsInv, NEW p \in Procs, Done(p), TablesOK', Grown
  PROVE  Progress(p)
<1>1. pc' = [pc EXCEPT ![p] = "idle"]
  BY DEF Done, Goto
<1>2. NewUser \in Rights
  BY DEF NewUser, Rights
<1>3. Anyone \subseteq Anyone' /\ Nobody \in Anyone'
  BY DEF Grown, Anyone
<1>4. LocalsOK'
  BY <1>1, <1>2, <1>3 DEF AccountsInv, LocalsOK, Done, NoUser, NoArg, Labels
<1> QED
  BY <1>1, <1>4 DEF AccountsInv, LocalsOK, Done, Progress, SameLocals

\* The history goes on while the request is served.
LEMMA HistoryGoesOn ==
  ASSUME Remember, Grown, NEW p \in Procs, pc[p] # "idle", pc'[p] # "idle", Served(p)
  PROVE  /\ Standing(p)' \subseteq was'[p]
         /\ was[p] \subseteq was'[p]
         /\ rights[p] \subseteq rights'[p]
         /\ \A u \in DOMAIN users' : [id |-> u, rights |-> users'[u]] \in rights'[p]
         /\ owned'[p] = owned[p]
         /\ owned'[p] \subseteq DOMAIN owner'
BY DEF Remember, Grown, Served

LEMMA BeginOK == ASSUME AccountsInv, Remember, NEW p \in Procs, Begin(p) PROVE Progress(p)
<1>1. /\ TablesOK' /\ Grown
      /\ user' = user /\ arg' = arg
      /\ \A q \in Procs \ {p} : SameLocals(q)
  BY DEF AccountsInv, Begin, tables, TablesOK, LocalsOK, Grown, SameLocals, Goto
<1>2. LocalsOK'
  <2>1. \A n \in 0..Cardinality(keys) : n \in Nat
    BY FS_CardinalityType DEF AccountsInv, TablesOK
  <2> QED
    BY <2>1, <1>1 DEF AccountsInv, Begin, tables, TablesOK, LocalsOK, Goto, Anyone, Labels
<1>3. pc'[p] \in {"token", "open"}
  BY DEF AccountsInv, Begin, LocalsOK, Goto
<1>4. /\ Standing(p)' \subseteq was'[p]
      /\ \A u \in DOMAIN users' : [id |-> u, rights |-> users'[u]] \in rights'[p]
      /\ owned'[p] = DOMAIN owner
  BY <1>3 DEF Remember, Begin
<1>5. user[p] = NoUser
  BY DEF AccountsInv, LocalsOK, Begin
<1> QED
  BY <1>1, <1>2, <1>3, <1>4, <1>5 DEF Progress, Served, Grown, Unknown

LEMMA ByTokenOK == ASSUME AccountsInv, Remember, NEW p \in Procs, ByToken(p) PROVE Progress(p)
<1>1. /\ TablesOK' /\ Grown
      /\ bearer' = bearer /\ apiKey' = apiKey /\ arg' = arg
      /\ sessions' = sessions /\ keys' = keys /\ expired' = expired /\ revoked' = revoked
      /\ users' = users
  BY DEF AccountsInv, ByToken, tables, TablesOK, Grown
<1>2. Served(p) /\ user[p] = NoUser
  BY DEF AccountsInv, ByToken, Served, Unknown
<1>3. CASE \E s \in LiveSessions : s.id = bearer[p]
  <2>1. PICK s \in LiveSessions : s.id = bearer[p] /\ ReadUser(p, s.user)
    BY <1>3 DEF ByToken
  <2>2. s.user \in DOMAIN users /\ s.user # Nobody
    BY NobodyAssumption DEF LiveSessions, AccountsInv, TablesOK
  <2>3. /\ pc' = [pc EXCEPT ![p] = "handle"]
        /\ user' = [user EXCEPT ![p] = [id |-> s.user, rights |-> users[s.user]]]
    BY <1>3, <2>1 DEF ByToken, Goto, ReadUser
  <2>4. LocalsOK'
    BY <1>1, <2>2, <2>3 DEF AccountsInv, LocalsOK, TablesOK, Anyone, Labels
  <2>5. user'[p] = [id |-> s.user, rights |-> users[s.user]] /\ pc'[p] = "handle"
    BY <2>3 DEF AccountsInv, LocalsOK
  <2>6. Was(p, "session", s.user)
    <3>1. s \in {r \in sessions : r.id = bearer[p] /\ r.id \notin expired}
      BY <2>1 DEF LiveSessions
    <3> QED
      BY <3>1, <1>2 DEF Standing, Served, Was
  <2>7. Authenticated(p)'
    <3>1. /\ was[p] \subseteq was'[p]
          /\ [id |-> s.user, rights |-> users[s.user]] \in rights'[p]
      BY <1>1, <1>2, <2>2, <2>5, HistoryGoesOn DEF ByToken
    <3> QED
      BY <3>1, <2>2, <2>5, <2>6 DEF Authenticated, Was
  <2>8. Served(p)'
    BY <1>1, <1>2, <2>5, <2>7, HistoryGoesOn DEF Served, Unknown, ByToken
  <2> QED
    BY <1>1, <2>3, <2>4, <2>8 DEF Progress, SameLocals, AccountsInv, LocalsOK
<1>4. CASE ~ \E s \in LiveSessions : s.id = bearer[p]
  <2>1. /\ pc' = [pc EXCEPT ![p] = IF apiKey[p] # 0 THEN "key" ELSE "handle"]
        /\ user' = user
    BY <1>4 DEF ByToken, Goto
  <2>2. LocalsOK'
    BY <1>1, <1>2, <2>1 DEF AccountsInv, LocalsOK, Anyone, Labels
  <2>3. Was(p, "session", Nobody)
    <3>1. {s \in sessions : s.id = bearer[p] /\ s.id \notin expired} = {}
      BY <1>4 DEF LiveSessions
    <3> QED
      BY <3>1, <1>2 DEF Standing, Served, Was
  <2>4. pc'[p] = IF apiKey[p] # 0 THEN "key" ELSE "handle"
    BY <2>1 DEF AccountsInv, LocalsOK
  <2>5. apiKey[p] = 0 => Was(p, "key", Nobody)
    <3> SUFFICES ASSUME apiKey[p] = 0 PROVE Was(p, "key", Nobody)
      OBVIOUS
    <3>1. {k \in keys : k.id = apiKey[p] /\ k.id \notin revoked} = {}
      BY DEF AccountsInv, TablesOK
    <3> QED
      BY <3>1, <1>2 DEF Standing, Served, Was
  <2>6. was[p] \subseteq was'[p]
    BY <1>1, <1>2, <2>4, HistoryGoesOn DEF ByToken
  <2>7. apiKey[p] = 0 => Authenticated(p)'
    BY <1>2, <2>1, <2>3, <2>5, <2>6 DEF Authenticated, Was, NoUser
  <2>8. Served(p)'
    BY <1>1, <1>2, <2>1, <2>3, <2>4, <2>6, <2>7, HistoryGoesOn DEF Served, Unknown, ByToken, Was
  <2> QED
    BY <1>1, <2>1, <2>2, <2>8 DEF Progress, SameLocals, AccountsInv, LocalsOK
<1> QED
  BY <1>3, <1>4

LEMMA ByKeyOK == ASSUME AccountsInv, Remember, NEW p \in Procs, ByKey(p) PROVE Progress(p)
<1>1. /\ TablesOK' /\ Grown
      /\ bearer' = bearer /\ apiKey' = apiKey /\ user' = user
      /\ users' = users
  BY DEF AccountsInv, ByKey, tables, TablesOK, Grown
<1>2. Served(p) /\ user[p] = NoUser /\ Was(p, "session", Nobody)
  BY DEF AccountsInv, ByKey, Served, Unknown
<1>3. CASE \E k \in LiveKeys : k.id = apiKey[p]
  <2>1. PICK k \in LiveKeys : k.id = apiKey[p] /\ arg' = [arg EXCEPT ![p].user = k.user]
    BY <1>3 DEF ByKey
  <2>2. k.user \in DOMAIN users
    BY DEF LiveKeys, AccountsInv, TablesOK
  <2>3. pc' = [pc EXCEPT ![p] = "keyUser"]
    BY <1>3 DEF ByKey, Goto
  <2>4. LocalsOK'
    BY <1>1, <1>2, <2>1, <2>2, <2>3 DEF AccountsInv, LocalsOK, Anyone, Labels
  <2>5. arg'[p].user = k.user /\ pc'[p] = "keyUser"
    BY <2>1, <2>3 DEF AccountsInv, LocalsOK
  <2>6. Was(p, "key", k.user)
    <3>1. k \in {r \in keys : r.id = apiKey[p] /\ r.id \notin revoked}
      BY <2>1 DEF LiveKeys
    <3> QED
      BY <3>1, <1>2 DEF Standing, Served, Was
  <2>7. Served(p)'
    BY <1>1, <1>2, <2>2, <2>5, <2>6, HistoryGoesOn DEF Served, Unknown, ByKey, Was
  <2> QED
    BY <1>1, <2>1, <2>3, <2>4, <2>7 DEF Progress, SameLocals, AccountsInv, LocalsOK
<1>4. CASE ~ \E k \in LiveKeys : k.id = apiKey[p]
  <2>1. pc' = [pc EXCEPT ![p] = "handle"] /\ arg' = arg
    BY <1>4 DEF ByKey, Goto
  <2>2. LocalsOK'
    BY <1>1, <1>2, <2>1 DEF AccountsInv, LocalsOK, Anyone, Labels
  <2>3. Was(p, "key", Nobody)
    <3>1. {k \in keys : k.id = apiKey[p] /\ k.id \notin revoked} = {}
      BY <1>4 DEF LiveKeys
    <3> QED
      BY <3>1, <1>2 DEF Standing, Served, Was
  <2>4. pc'[p] = "handle"
    BY <2>1 DEF AccountsInv, LocalsOK
  <2>5. Authenticated(p)'
    BY <1>1, <1>2, <2>3, <2>4, HistoryGoesOn DEF Authenticated, Was, NoUser, ByKey
  <2>6. Served(p)'
    BY <1>1, <1>2, <2>4, <2>5, HistoryGoesOn DEF Served, Unknown, ByKey
  <2> QED
    BY <1>1, <2>1, <2>2, <2>6 DEF Progress, SameLocals, AccountsInv, LocalsOK
<1> QED
  BY <1>3, <1>4

LEMMA KeyUserOK == ASSUME AccountsInv, Remember, NEW p \in Procs, KeyUser(p) PROVE Progress(p)
<1> DEFINE u == arg[p].user
<1>1. /\ TablesOK' /\ Grown
      /\ bearer' = bearer /\ apiKey' = apiKey /\ users' = users
  BY DEF AccountsInv, KeyUser, tables, TablesOK, Grown
<1>2. Served(p) /\ Was(p, "session", Nobody) /\ Was(p, "key", u) /\ u \in DOMAIN users
  BY DEF AccountsInv, KeyUser, Served, Unknown
<1>3. /\ pc' = [pc EXCEPT ![p] = "handle"]
      /\ user' = [user EXCEPT ![p] = [id |-> u, rights |-> users[u]]]
      /\ arg' = [arg EXCEPT ![p] = NoArg]
  BY DEF KeyUser, Goto, ReadUser
<1>4. LocalsOK'
  BY <1>1, <1>2, <1>3 DEF AccountsInv, LocalsOK, TablesOK, Anyone, Labels, NoArg, NewUser, Rights
<1>5. user'[p] = [id |-> u, rights |-> users[u]] /\ pc'[p] = "handle"
  BY <1>3 DEF AccountsInv, LocalsOK
<1>6. u # Nobody
  BY <1>2, NobodyAssumption DEF AccountsInv, TablesOK
<1>7. Authenticated(p)'
  BY <1>1, <1>2, <1>5, <1>6, HistoryGoesOn DEF Authenticated, Was, KeyUser, Served
<1>8. Served(p)'
  BY <1>1, <1>2, <1>5, <1>7, HistoryGoesOn DEF Served, Unknown, KeyUser
<1> QED
  BY <1>1, <1>3, <1>4, <1>8 DEF Progress, SameLocals, AccountsInv, LocalsOK

\* A handler goes on after its first statement.
LEMMA StillServed ==
  ASSUME AccountsInv, Remember, Grown, NEW p \in Procs,
         pc[p] \notin Unknown \cup {"idle"}, pc'[p] \in {"role", "own", "link", "export"},
         user'[p] = user[p],
         pc'[p] \in {"link", "export"} /\ arg'[p].job \in owned[p] => user[p].id = owner'[arg'[p].job]
  PROVE  Served(p)'
<1>1. Served(p) /\ Authenticated(p)
  BY DEF AccountsInv, Served
<1>2. Authenticated(p)'
  BY <1>1, HistoryGoesOn DEF Authenticated, Was
<1> QED
  BY <1>1, <1>2, HistoryGoesOn DEF Served, Unknown

LEMMA SessionOK == ASSUME AccountsInv, Remember, NEW p \in Procs, Register(p) \/ Login(p) PROVE Progress(p)
<1>1. PICK u \in Users : u \in DOMAIN users' /\ arg' = [arg EXCEPT ![p].user = u]
  BY DEF Register, Login, AccountsInv, TablesOK, tables
<1>2. /\ pc[p] = "open" /\ pc' = [pc EXCEPT ![p] = "session"]
      /\ user' = user /\ bearer' = bearer /\ apiKey' = apiKey /\ owner' = owner
  BY DEF Register, Login, Goto, tables
<1>3. TablesOK' /\ Grown
  <2>1. CASE Login(p)
    BY <2>1 DEF Login, AccountsInv, TablesOK, tables, Grown
  <2>2. CASE Register(p)
    <3>1. PICK v \in Users : users' = [w \in DOMAIN users \cup {v} |-> IF w = v THEN NewUser ELSE users[w]]
      BY <2>2 DEF Register
    <3>2. DOMAIN users' = DOMAIN users \cup {v} /\ users' \in [DOMAIN users' -> Rights]
      BY <3>1 DEF AccountsInv, TablesOK, NewUser, Rights
    <3> QED
      BY <2>2, <3>2 DEF Register, AccountsInv, TablesOK, Grown
  <2> QED
    BY <2>1, <2>2
<1>4. Anyone \subseteq Anyone'
  BY <1>3 DEF Grown, Anyone
<1>5. LocalsOK'
  BY <1>1, <1>2, <1>3, <1>4 DEF AccountsInv, LocalsOK, Anyone, Labels
<1>6. pc'[p] = "session" /\ arg'[p].user = u
  BY <1>1, <1>2 DEF AccountsInv, LocalsOK
<1>7. Served(p) /\ user[p] = NoUser
  BY <1>2 DEF AccountsInv, Served, Unknown
<1>8. Served(p)'
  BY <1>1, <1>2, <1>3, <1>6, <1>7, HistoryGoesOn DEF Served, Unknown
<1> QED
  BY <1>1, <1>2, <1>3, <1>5, <1>8 DEF Progress, SameLocals, AccountsInv, LocalsOK

LEMMA FindUserOK == ASSUME AccountsInv, Remember, NEW p \in Procs, FindUser(p) PROVE Progress(p)
<1>1. PICK u \in DOMAIN users, r \in Granted : arg' = [arg EXCEPT ![p].user = u, ![p].rights = r]
  BY DEF FindUser
<1>2. /\ pc[p] = "handle" /\ pc' = [pc EXCEPT ![p] = "role"]
      /\ user' = user /\ bearer' = bearer /\ apiKey' = apiKey
      /\ TablesOK' /\ Grown /\ users' = users
  BY DEF FindUser, Goto, tables, AccountsInv, TablesOK, Grown
<1>3. LocalsOK'
  BY <1>1, <1>2, GrantedAssumption, ZenonT(30) DEF AccountsInv, LocalsOK, Anyone, Labels
<1>4. pc'[p] = "role"
  BY <1>2 DEF AccountsInv, LocalsOK
<1>5. Served(p)'
  BY <1>2, <1>4, StillServed DEF Unknown
<1> QED
  BY <1>1, <1>2, <1>3, <1>5 DEF Progress, SameLocals, AccountsInv, LocalsOK

LEMMA CheckOwnerOK == ASSUME AccountsInv, Remember, NEW p \in Procs, CheckOwner(p) PROVE Progress(p)
<1>1. PICK j \in 1..jobs : MayShare(p, j) /\ arg' = [arg EXCEPT ![p].job = j]
  BY DEF CheckOwner
<1>2. PICK l \in {"link", "export"} : pc' = [pc EXCEPT ![p] = l]
  BY DEF CheckOwner, Goto
<1>3. /\ pc[p] = "handle" /\ user' = user /\ bearer' = bearer /\ apiKey' = apiKey
      /\ TablesOK' /\ Grown /\ users' = users /\ owner' = owner
  BY DEF CheckOwner, tables, AccountsInv, TablesOK, Grown
<1>4. LocalsOK'
  BY <1>1, <1>2, <1>3 DEF AccountsInv, LocalsOK, TablesOK, Anyone, Labels
<1>5. pc'[p] = l /\ arg'[p].job = j
  BY <1>1, <1>2 DEF AccountsInv, LocalsOK
<1>6. j \in owned[p] => user[p].id = owner[j]
  <2>1. owned[p] \subseteq DOMAIN owner
    BY <1>3 DEF AccountsInv, Served
  <2> QED
    BY <2>1, <1>1 DEF MayShare
<1>7. Served(p)'
  BY <1>3, <1>5, <1>6, StillServed DEF Unknown
<1> QED
  BY <1>1, <1>2, <1>3, <1>4, <1>7 DEF Progress, SameLocals, AccountsInv, LocalsOK

LEMMA CreateJobOK == ASSUME AccountsInv, Remember, NEW p \in Procs, CreateJob(p) PROVE Progress(p)
<1>1. TablesOK' /\ Grown /\ users' = users /\ owner' = owner
  BY DEF CreateJob, AccountsInv, TablesOK, Grown
<1>2. CASE ~RequireUser(p)
  BY <1>1, <1>2, DoneStep DEF CreateJob
<1>3. CASE RequireUser(p)
  <2>1. /\ arg' = [arg EXCEPT ![p].job = jobs + 1] /\ pc' = [pc EXCEPT ![p] = "own"]
        /\ user' = user /\ bearer' = bearer /\ apiKey' = apiKey
    BY <1>3 DEF CreateJob, Goto
  <2>2. pc[p] = "handle"
    BY <1>3 DEF CreateJob, AccountsInv, Served, Unknown, RequireUser, NoUser
  <2>3. LocalsOK'
    BY <1>1, <2>1, SMTT(30) DEF AccountsInv, LocalsOK, TablesOK, Anyone, Labels
  <2>4. pc'[p] = "own"
    BY <2>1 DEF AccountsInv, LocalsOK
  <2>5. Served(p)'
    BY <1>1, <2>1, <2>2, <2>4, StillServed DEF Unknown
  <2> QED
    BY <1>1, <2>1, <2>3, <2>5 DEF Progress, SameLocals, AccountsInv, LocalsOK
<1> QED
  BY <1>2, <1>3

LEMMA CreateKeyOK == ASSUME AccountsInv, NEW p \in Procs, CreateKey(p) PROVE Progress(p)
<1> DEFINE row == [id |-> Cardinality(keys) + 1, user |-> user[p].id]
<1>1. keys' = keys \cup {row}
  BY DEF CreateKey
<1>2. IsFiniteSet(keys) /\ Cardinality(keys) \in Nat
  BY FS_CardinalityType DEF AccountsInv, TablesOK
<1>3. user[p].id \in DOMAIN users
  BY DEF CreateKey, RequireUser, AccountsInv, LocalsOK, Anyone
<1>4. row \in [id : Nat \ {0}, user : DOMAIN users]
  BY <1>2, <1>3
<1>5. IsFiniteSet(keys')
  BY <1>1, <1>2, FS_AddElement
<1>6. TablesOK' /\ Grown
  BY <1>1, <1>4, <1>5 DEF CreateKey, AccountsInv, TablesOK, Grown
<1> QED
  BY <1>6, DoneStep DEF CreateKey

\* The statements after which the answer is sent.
LEMMA LastStatementOK ==
  ASSUME AccountsInv, NEW p \in Procs,
         \/ Leave(p) \/ CreateSession(p) \/ Logout(p) \/ SetUserRole(p) \/ RevokeKey(p)
         \/ RecordOwnership(p) \/ CreatePublicLink(p) \/ Export(p)
  PROVE  Progress(p)
<1>1. Done(p)
  BY DEF Leave, CreateSession, Logout, SetUserRole, RevokeKey, RecordOwnership, CreatePublicLink, Export
<1>2. CASE Leave(p) \/ Logout(p) \/ RevokeKey(p) \/ CreatePublicLink(p) \/ Export(p)
  <2>1. TablesOK' /\ Grown
    BY <1>2 DEF Leave, Logout, RevokeKey, CreatePublicLink, Export, AccountsInv, TablesOK, Grown, tables
  <2> QED
    BY <1>1, <2>1, DoneStep
<1>3. CASE CreateSession(p)
  <2>1. arg[p].user \in DOMAIN users
    BY <1>3 DEF CreateSession, AccountsInv, Served
  <2>2. TablesOK' /\ Grown
    BY <1>3, <2>1 DEF CreateSession, AccountsInv, TablesOK, Grown
  <2> QED
    BY <1>1, <2>2, DoneStep
<1>4. CASE SetUserRole(p)
  <2>1. arg[p].rights \in Rights
    BY DEF AccountsInv, LocalsOK
  <2>2. TablesOK' /\ Grown
    BY <1>4, <2>1 DEF SetUserRole, AccountsInv, TablesOK, Grown
  <2> QED
    BY <1>1, <2>2, DoneStep
<1>5. CASE RecordOwnership(p)
  <2>1. TablesOK' /\ Grown
    BY <1>5 DEF RecordOwnership, AccountsInv, TablesOK, Grown
  <2> QED
    BY <1>1, <2>1, DoneStep
<1> QED
  BY <1>2, <1>3, <1>4, <1>5

LEMMA ExpireOK == ASSUME AccountsInv, Remember, Expire PROVE AccountsInv'
<1>1. TablesOK' /\ LocalsOK' /\ Grown /\ \A p \in Procs : SameLocals(p)
  BY DEF AccountsInv, Expire, TablesOK, LocalsOK, Grown, SameLocals, Anyone
<1>2. \A p \in Procs : pc'[p] # "idle" => Served(p)'
  BY <1>1, Untouched DEF AccountsInv, SameLocals
<1> QED
  BY <1>1, <1>2 DEF AccountsInv

LEMMA StepOK == AccountsInv /\ [Next]_vars => AccountsInv'
<1> SUFFICES ASSUME AccountsInv, [Next]_vars PROVE AccountsInv'
  OBVIOUS
<1>1. CASE UNCHANGED vars
  <2>1. TablesOK' /\ LocalsOK'
    BY <1>1 DEF vars, tables, AccountsInv, TablesOK, LocalsOK, Anyone
  <2>2. \A p \in Procs : Standing(p)' = Standing(p)
    BY <1>1 DEF vars, tables, Standing
  <2>3. \A p \in Procs : Served(p) => Served(p)'
    BY <1>1, <2>2 DEF vars, tables, Served, Authenticated, Was
  <2> QED
    BY <1>1, <2>1, <2>3 DEF AccountsInv, vars
<1>2. CASE Next
  <2>1. Remember
    BY <1>2 DEF Next
  <2>2. CASE Expire
    BY <2>1, <2>2, ExpireOK
  <2>3. ASSUME NEW p \in Procs, Begin(p) \/ Handle(p) PROVE AccountsInv'
    <3>1. Progress(p)
      BY <2>1, <2>3, BeginOK, ByTokenOK, ByKeyOK, KeyUserOK, SessionOK, FindUserOK, CheckOwnerOK,
         CreateJobOK, CreateKeyOK, LastStatementOK DEF Handle
    <3> QED
      BY <2>1, <3>1, ProgressSuffices
  <2> QED
    BY <1>2, <2>2, <2>3 DEF Next
<1> QED
  BY <1>1, <1>2

LEMMA AccountsAlways == Spec => []AccountsInv
BY InitOK, StepOK, PTL DEF Spec

\* Who a request is taken for (get_current_user), for any interleaving of any number of
\* requests.
THEOREM RequestsAreSound == Spec => []AuthenticatedInTime
<1>1. AccountsInv => AuthenticatedInTime
  BY DEF AccountsInv, Served, Unknown, Authenticated, Was, AuthenticatedInTime
<1> QED BY <1>1, AccountsAlways, PTL

\* Who shares and exports a job (share_job, export_job_to_pilot_bim), for any interleaving
\* of any number of requests.
THEOREM OwnersDecide == Spec => []OwnerDecides
<1>1. AccountsInv => OwnerDecides
  BY DEF AccountsInv, Served, Unknown, Authenticated, Was, OwnerDecides
<1> QED BY <1>1, AccountsAlways, PTL
-----------------------------------------------------------------------------
(* Loaders of zones (ConstraintZones).                                     *)

\* The id sequence has passed every id that is in use, and gave each row its own.
FreshIds ==
  /\ \A z \in zones : z.id <= lastId
  /\ \A i \in superseded : i <= lastId
  /\ \A y, z \in zones : y.id = z.id => y = z

\* A loader between two statements has a feature to load.
Loading == \A l \in Loaders : at[l] # "idle" => file[l] # <<>>

\* A loader that supersedes has read a committed row of its feature's number.
ReadRow ==
  \A l \in Loaders :
    /\ at[l] \in {"supersede", "insert"} => Head(file[l]) # Invalid
    /\ at[l] = "supersede" => found[l] # NoRow
    /\ found[l] # NoRow =>
         /\ at[l] \in {"supersede", "insert"}
         /\ found[l] \in zones
         /\ found[l].number = Head(file[l])
         /\ Versioned(Head(file[l]))

\* The inductive invariant, however many loaders run.
PresentInv == TypeOK /\ FreshIds /\ Loading /\ ReadRow /\ NeverVanishes

LEMMA HeadTail ==
  ASSUME NEW S, NEW s \in Seq(S), s # <<>>
  PROVE  Head(s) \in S /\ Tail(s) \in Seq(S)
OBVIOUS

LEMMA PresentInit == ZonesInit => PresentInv
<1> SUFFICES ASSUME ZonesInit PROVE PresentInv
  OBVIOUS
<1>1. TypeOK
  <2>1. overlapped \in BOOLEAN
    BY DEF ZonesInit
  <2> QED BY <2>1 DEF ZonesInit, TypeOK
<1>2. FreshIds /\ Loading /\ ReadRow /\ NeverVanishes
  BY DEF ZonesInit, FreshIds, Loading, ReadRow, NeverVanishes
<1> QED BY <1>1, <1>2 DEF PresentInv

\* Leaving one feature for the rest keeps the types of the locals.
LEMMA LeaveKeepsTypes ==
  ASSUME TypeOK, NEW l \in Loaders, NEW rest \in Seq(Features), Proceed(l, rest)
  PROVE  /\ at' \in [Loaders -> {"idle", "find", "supersede", "insert"}]
         /\ file' \in [Loaders -> Seq(Features)]
         /\ found' \in [Loaders -> Rows \cup {NoRow}]
         /\ at'[l] = (IF rest = <<>> THEN "idle" ELSE "find")
         /\ file'[l] = rest
         /\ found'[l] = NoRow
         /\ \A k \in Loaders \ {l} :
              at'[k] = at[k] /\ file'[k] = file[k] /\ found'[k] = found[k]
BY DEF TypeOK, Proceed

\* A step that touches no row keeps what is said of the rows.
LEMMA LeaveKeepsPresent ==
  ASSUME PresentInv, NEW l \in Loaders, NEW rest \in Seq(Features), Proceed(l, rest),
         UNCHANGED <<zones, superseded, lastId>>, loads' \in Nat, overlapped' \in BOOLEAN
  PROVE  PresentInv'
<1>1. TypeOK'
  BY LeaveKeepsTypes DEF PresentInv, TypeOK
<1>2. FreshIds' /\ NeverVanishes'
  BY DEF PresentInv, FreshIds, NeverVanishes, CurrentRows, ZonesOf
<1>3. Loading' /\ ReadRow'
  BY LeaveKeepsTypes DEF PresentInv, Loading, ReadRow
<1> QED BY <1>1, <1>2, <1>3 DEF PresentInv

LEMMA FindKeepsPresent ==
  ASSUME PresentInv, NEW l \in Loaders, Find(l)
  PROVE  PresentInv'
<1> DEFINE n == Head(file[l])
           current == IF Versioned(n) THEN CurrentRows(n) ELSE {}
<1>1. \A z \in current : z \in zones /\ z.number = n /\ z \in Rows /\ Versioned(n)
  BY DEF PresentInv, TypeOK, CurrentRows, ZonesOf
<1>2. \A k \in Loaders \ {l} : at'[k] = at[k] /\ found'[k] = found[k]
  BY DEF PresentInv, TypeOK, Find
<1>3. UNCHANGED <<zones, superseded, lastId, file, loads, overlapped>> /\ at[l] = "find" /\ n # Invalid
  BY DEF Find
<1>4. \/ at'[l] = "insert" /\ found'[l] = found[l] /\ found[l] = NoRow
      \/ at'[l] = "supersede" /\ found'[l] \in current
  BY DEF Find, PresentInv, TypeOK, ReadRow
<1>5. at' \in [Loaders -> {"idle", "find", "supersede", "insert"}]
      /\ found' \in [Loaders -> Rows \cup {NoRow}]
  <2>1. at' = [at EXCEPT ![l] = "insert"] \/ at' = [at EXCEPT ![l] = "supersede"]
    BY DEF Find
  <2>2. found' = found \/ \E z \in current : found' = [found EXCEPT ![l] = z]
    BY DEF Find
  <2> HIDE DEF current
  <2> QED BY <1>1, <2>1, <2>2 DEF PresentInv, TypeOK
<1> HIDE DEF current
<1>6. TypeOK'
  BY <1>3, <1>5 DEF PresentInv, TypeOK
<1>7. FreshIds' /\ NeverVanishes' /\ Loading'
  <2>1. FreshIds' /\ NeverVanishes'
    BY <1>3 DEF PresentInv, FreshIds, NeverVanishes, CurrentRows, ZonesOf
  <2>2. Loading'
    BY <1>2, <1>3 DEF PresentInv, Loading
  <2> QED BY <2>1, <2>2
<1>8. ReadRow'
  <2>1. ASSUME NEW k \in Loaders \ {l}
        PROVE  /\ at[k]' \in {"supersede", "insert"} => Head(file[k])' # Invalid
               /\ at[k]' = "supersede" => found[k]' # NoRow
               /\ found[k]' # NoRow =>
                    /\ at[k]' \in {"supersede", "insert"}
                    /\ found[k]' \in zones'
                    /\ found[k].number' = Head(file[k])'
                    /\ Versioned(Head(file[k]))'
    BY <1>2, <1>3 DEF PresentInv, ReadRow, Versioned
  <2>2. /\ Head(file[l])' # Invalid
        /\ at[l]' = "supersede" => found[l]' # NoRow
        /\ found[l]' # NoRow =>
             /\ at[l]' \in {"supersede", "insert"}
             /\ found[l]' \in zones'
             /\ found[l].number' = Head(file[l])'
             /\ Versioned(Head(file[l]))'
    BY <1>1, <1>3, <1>4, RowAssumption DEF Versioned
  <2> QED BY <2>1, <2>2 DEF ReadRow
<1> QED BY <1>6, <1>7, <1>8 DEF PresentInv

LEMMA SupersedeKeepsPresent ==
  ASSUME PresentInv, NEW l \in Loaders, Supersede(l)
  PROVE  PresentInv'
<1>1. at' = [at EXCEPT ![l] = "insert"] /\ at[l] = "supersede"
      /\ UNCHANGED <<zones, superseded, lastId, file, found, loads, overlapped>>
  BY DEF Supersede
<1>2. TypeOK'
  BY <1>1 DEF PresentInv, TypeOK
<1>3. FreshIds' /\ NeverVanishes'
  BY <1>1 DEF PresentInv, FreshIds, NeverVanishes, CurrentRows, ZonesOf
<1>4. Loading' /\ ReadRow'
  BY <1>1 DEF PresentInv, TypeOK, Loading, ReadRow, Versioned
<1> QED BY <1>2, <1>3, <1>4 DEF PresentInv

\* The row Insert adds, and the ids it supersedes.
LEMMA InsertedRow ==
  ASSUME PresentInv, NEW l \in Loaders, Insert(l)
  PROVE  \E new \in Rows :
           /\ new.id = lastId + 1
           /\ new.number = Head(file[l])
           /\ new.version = NextVersion(found[l])
           /\ zones' = zones \cup {new}
           /\ superseded' = superseded \cup (IF found[l] = NoRow THEN {} ELSE {found[l].id})
           /\ found[l] # NoRow => found[l] \in zones /\ found[l].number = new.number
                                  /\ found[l] \in Rows /\ Versioned(new.number)
           /\ Tail(file[l]) \in Seq(Features)
           /\ Proceed(l, Tail(file[l]))
           /\ lastId' = lastId + 1
           /\ loads' = loads /\ overlapped' = overlapped
<1> DEFINE new == [id |-> lastId + 1, number |-> Head(file[l]), version |-> NextVersion(found[l])]
<1>1. at[l] = "insert" /\ file[l] # <<>> /\ Head(file[l]) # Invalid /\ file[l] \in Seq(Features)
  BY DEF PresentInv, TypeOK, Insert, Loading, ReadRow
<1>2. Head(file[l]) \in Numbers \cup {NoNumber} /\ Tail(file[l]) \in Seq(Features)
  BY <1>1, HeadTail DEF Features
<1>3. found[l] # NoRow => found[l] \in zones /\ found[l].number = Head(file[l])
                          /\ found[l] \in Rows /\ Versioned(Head(file[l]))
  BY DEF PresentInv, TypeOK, ReadRow
<1>4. NextVersion(found[l]) \in Nat \ {0}
  BY <1>3 DEF NextVersion, Rows
<1>5. new \in Rows
  BY <1>2, <1>4 DEF Rows, PresentInv, TypeOK
<1>6. /\ zones' = zones \cup {new}
      /\ superseded' = superseded \cup (IF found[l] = NoRow THEN {} ELSE {found[l].id})
      /\ Proceed(l, Tail(file[l])) /\ lastId' = lastId + 1 /\ loads' = loads
      /\ overlapped' = overlapped
  BY DEF Insert
<1>7. new.id = lastId + 1 /\ new.number = Head(file[l]) /\ new.version = NextVersion(found[l])
  OBVIOUS
<1> HIDE DEF new
<1> QED BY <1>2, <1>3, <1>5, <1>6, <1>7

LEMMA InsertKeepsPresent ==
  ASSUME PresentInv, NEW l \in Loaders, Insert(l)
  PROVE  PresentInv'
<1>1. PICK new \in Rows :
           /\ new.id = lastId + 1
           /\ new.number = Head(file[l])
           /\ new.version = NextVersion(found[l])
           /\ zones' = zones \cup {new}
           /\ superseded' = superseded \cup (IF found[l] = NoRow THEN {} ELSE {found[l].id})
           /\ found[l] # NoRow => found[l] \in zones /\ found[l].number = new.number
                                  /\ found[l] \in Rows /\ Versioned(new.number)
           /\ Tail(file[l]) \in Seq(Features)
           /\ Proceed(l, Tail(file[l]))
           /\ lastId' = lastId + 1
           /\ loads' = loads /\ overlapped' = overlapped
  BY InsertedRow
<1>2. TypeOK'
  BY <1>1, LeaveKeepsTypes DEF PresentInv, TypeOK, Rows
<1>3. FreshIds'
  <2>1. \A z \in zones : z.id \in Nat /\ z.id < new.id
    BY <1>1 DEF PresentInv, TypeOK, FreshIds, Rows
  <2>2. \A i \in superseded' : i <= lastId'
    BY <1>1, <2>1 DEF PresentInv, TypeOK, FreshIds
  <2>3. \A z \in zones' : z.id <= lastId'
    BY <1>1, <2>1 DEF PresentInv, TypeOK, FreshIds, Rows
  <2>4. \A y, z \in zones' : y.id = z.id => y = z
    BY <1>1, <2>1 DEF PresentInv, FreshIds
  <2> QED BY <2>2, <2>3, <2>4 DEF FreshIds
<1>4. new.id \notin superseded'
  BY <1>1 DEF PresentInv, TypeOK, FreshIds, Rows
<1>5. NeverVanishes'
  <2> SUFFICES ASSUME NEW z \in zones', Versioned(z.number)
               PROVE  \E y \in zones' : y.number = z.number /\ y.id \notin superseded'
    BY DEF NeverVanishes, CurrentRows, ZonesOf, Versioned
  <2>1. CASE z.number = new.number
    BY <1>1, <1>4, <2>1
  <2>2. CASE z.number # new.number
    <3>1. PICK y \in zones : y.number = z.number /\ y.id \notin superseded
      BY <1>1, <2>2 DEF PresentInv, NeverVanishes, CurrentRows, ZonesOf
    <3>2. ASSUME found[l] # NoRow PROVE found[l].id # y.id
      BY <1>1, <2>2, <3>1, <3>2 DEF PresentInv, FreshIds
    <3> QED BY <1>1, <3>1, <3>2
  <2> QED BY <2>1, <2>2
<1>6. Loading' /\ ReadRow'
  BY <1>1, LeaveKeepsTypes, ZenonT(30) DEF PresentInv, Loading, ReadRow
<1> QED BY <1>2, <1>3, <1>5, <1>6 DEF PresentInv

LEMMA NextKeepsPresent == PresentInv /\ [ZonesNext]_zonesVars => PresentInv'
<1> SUFFICES ASSUME PresentInv, [ZonesNext]_zonesVars PROVE PresentInv'
  OBVIOUS
<1>1. ASSUME NEW l \in Loaders, NEW f \in Files, Start(l, f) PROVE PresentInv'
  <2>1. f \in Seq(Features) /\ loads' \in Nat /\ overlapped' \in BOOLEAN
    BY <1>1, FileAssumption DEF Start, PresentInv, TypeOK
  <2> QED BY <1>1, <2>1, LeaveKeepsPresent DEF Start
<1>2. ASSUME NEW l \in Loaders, Refuse(l) \/ Kill(l) PROVE PresentInv'
  <2>1. <<>> \in Seq(Features) /\ loads' \in Nat /\ overlapped' \in BOOLEAN
    BY <1>2 DEF Refuse, Kill, PresentInv, TypeOK
  <2> QED BY <1>2, <2>1, LeaveKeepsPresent DEF Refuse, Kill
<1>3. CASE UNCHANGED zonesVars
  <2>1. TypeOK'
    BY <1>3 DEF zonesVars, PresentInv, TypeOK
  <2>2. FreshIds' /\ NeverVanishes'
    BY <1>3 DEF zonesVars, PresentInv, FreshIds, NeverVanishes, CurrentRows, ZonesOf
  <2>3. Loading' /\ ReadRow'
    BY <1>3 DEF zonesVars, PresentInv, Loading, ReadRow
  <2> QED BY <2>1, <2>2, <2>3 DEF PresentInv
<1> QED BY <1>1, <1>2, <1>3, FindKeepsPresent, SupersedeKeepsPresent, InsertKeepsPresent DEF ZonesNext

\* The table's types, and a current row for every zone that was ever loaded, for any
\* number of parallel loaders that may die at any statement.
THEOREM ZonesNeverVanish == ZonesSpec => [](TypeOK /\ NeverVanishes)
<1>1. PresentInv => TypeOK /\ NeverVanishes
  BY DEF PresentInv
<1> QED BY <1>1, PresentInit, NextKeepsPresent, PTL DEF ZonesSpec

LEMMA PresentAlways == ZonesSpec => []PresentInv
BY PresentInit, NextKeepsPresent, PTL DEF ZonesSpec
-----------------------------------------------------------------------------
\* Only Insert touches the rows.
LEMMA OthersKeepRows ==
  ASSUME [ZonesNext]_zonesVars
  PROVE  UNCHANGED <<zones, superseded>> \/ \E l \in Loaders : Insert(l)
BY DEF ZonesNext, zonesVars, Start, Refuse, Find, Supersede, Kill

LEMMA InsertKeepsHistory ==
  ASSUME PresentInv, CalculatedStay, NoGaps, NEW l \in Loaders, Insert(l)
  PROVE  CalculatedStay' /\ NoGaps'
<1>1. PICK new \in Rows :
           /\ new.id = lastId + 1
           /\ new.number = Head(file[l])
           /\ new.version = NextVersion(found[l])
           /\ zones' = zones \cup {new}
           /\ superseded' = superseded \cup (IF found[l] = NoRow THEN {} ELSE {found[l].id})
           /\ found[l] # NoRow => found[l] \in zones /\ found[l].number = new.number
                                  /\ found[l] \in Rows /\ Versioned(new.number)
  BY InsertedRow
<1>2. \A z \in zones : z.id \in Nat /\ z.id < new.id
  BY <1>1 DEF PresentInv, TypeOK, FreshIds, Rows
<1>3. ASSUME NEW z \in zones', z.number = NoNumber PROVE z.id \notin superseded'
  <2>1. z.id \notin superseded
    BY <1>1, <1>3 DEF PresentInv, TypeOK, FreshIds, CalculatedStay, Rows
  <2>2. ASSUME found[l] # NoRow PROVE z.id # found[l].id
    BY <1>1, <1>2, <1>3, <2>2 DEF PresentInv, FreshIds, Versioned
  <2> QED BY <1>1, <2>1, <2>2
<1>4. ASSUME NEW z \in zones', z.version > 1
      PROVE  \E y \in zones' : y.number = z.number /\ y.version + 1 = z.version
  <2>1. CASE z \in zones
    BY <1>1, <1>4, <2>1 DEF NoGaps, ZonesOf
  <2>2. CASE z = new
    BY <1>1, <1>4, <2>2 DEF NextVersion, Rows
  <2> QED BY <1>1, <2>1, <2>2
<1> QED BY <1>3, <1>4 DEF CalculatedStay, NoGaps, ZonesOf

\* Versions never skip a number and calculated zones are never superseded, for any
\* number of parallel loaders.
THEOREM HistoryIsKept == ZonesSpec => [](CalculatedStay /\ NoGaps)
<1>1. ZonesInit => CalculatedStay /\ NoGaps
  BY DEF ZonesInit, CalculatedStay, NoGaps
<1>2. PresentInv /\ CalculatedStay /\ NoGaps /\ [ZonesNext]_zonesVars => CalculatedStay' /\ NoGaps'
  <2> SUFFICES ASSUME PresentInv, CalculatedStay, NoGaps, [ZonesNext]_zonesVars
               PROVE  CalculatedStay' /\ NoGaps'
    OBVIOUS
  <2>1. CASE UNCHANGED <<zones, superseded>>
    BY <2>1 DEF CalculatedStay, NoGaps, ZonesOf
  <2> QED BY <2>1, OthersKeepRows, InsertKeepsHistory
<1> QED BY <1>1, <1>2, PresentAlways, PTL DEF ZonesSpec
-----------------------------------------------------------------------------
(* One loader at a time.                                                   *)

Alone == \A k, l \in Loaders : at[k] # "idle" /\ at[l] # "idle" => k = l

\* What the loader read is still what a query would find.
ReadIsCurrent ==
  \A l \in Loaders :
    at[l] \in {"supersede", "insert"} /\ Versioned(Head(file[l])) =>
      CurrentRows(Head(file[l])) = (IF found[l] = NoRow THEN {} ELSE {found[l]})

OrderInv == Alone /\ ReadIsCurrent /\ CurrentIsUnique /\ OrderIsStrict

\* The at of the other loaders stays.
LEMMA OneMoves ==
  ASSUME PresentInv, [ZonesNext]_zonesVars
  PROVE  \/ UNCHANGED <<at, file, found, zones, superseded>>
         \/ \E l \in Loaders :
              /\ \A k \in Loaders \ {l} :
                   at'[k] = at[k] /\ file'[k] = file[k] /\ found'[k] = found[k]
              /\ at[l] # "idle" \/ (~overlapped' => \A k \in Loaders : at[k] = "idle")
<1>1. ASSUME NEW l \in Loaders, NEW rest, Proceed(l, rest), NEW k \in Loaders \ {l}
      PROVE  at'[k] = at[k] /\ file'[k] = file[k] /\ found'[k] = found[k]
  BY <1>1 DEF Proceed, PresentInv, TypeOK
<1>2. ASSUME NEW l \in Loaders, Find(l) \/ Supersede(l), NEW k \in Loaders \ {l}
      PROVE  at'[k] = at[k] /\ file'[k] = file[k] /\ found'[k] = found[k]
  BY <1>2 DEF Find, Supersede, PresentInv, TypeOK
<1>3. ASSUME NEW l \in Loaders, NEW f \in Files, Start(l, f)
      PROVE  Proceed(l, f) /\ (~overlapped' => \A k \in Loaders : at[k] = "idle")
  BY <1>3 DEF Start
<1>4. ASSUME NEW l \in Loaders, Refuse(l) \/ Kill(l) \/ Insert(l)
      PROVE  at[l] # "idle" /\ \E rest : Proceed(l, rest)
  BY <1>4 DEF Refuse, Kill, Insert
<1>5. ASSUME NEW l \in Loaders, Find(l) \/ Supersede(l) PROVE at[l] # "idle"
  BY <1>5 DEF Find, Supersede
<1>6. CASE UNCHANGED zonesVars
  BY <1>6 DEF zonesVars
<1> QED BY <1>1, <1>2, <1>3, <1>4, <1>5, <1>6 DEF ZonesNext

LEMMA InsertKeepsOrder ==
  ASSUME PresentInv, OrderInv, NEW l \in Loaders, Insert(l)
  PROVE  CurrentIsUnique' /\ OrderIsStrict'
<1>1. PICK new \in Rows :
           /\ new.id = lastId + 1
           /\ new.number = Head(file[l])
           /\ new.version = NextVersion(found[l])
           /\ zones' = zones \cup {new}
           /\ superseded' = superseded \cup (IF found[l] = NoRow THEN {} ELSE {found[l].id})
           /\ found[l] # NoRow => found[l] \in zones /\ found[l].number = new.number
                                  /\ found[l] \in Rows /\ Versioned(new.number)
  BY InsertedRow
<1>2. at[l] = "insert"
  BY DEF Insert
<1>3. \A y \in zones : y.version \in Nat
  BY DEF PresentInv, TypeOK, Rows
<1>4. ASSUME NEW n \in Numbers, new.number = n, NEW y \in zones, y.number = n
      PROVE  y.id \in superseded' /\ y.version < new.version
  <2>1. Versioned(n) /\ Versioned(y.number)
    BY <1>4, NumberAssumption DEF Versioned
  <2>2. CurrentRows(n) = (IF found[l] = NoRow THEN {} ELSE {found[l]})
    BY <1>1, <1>2, <1>4, <2>1 DEF OrderInv, ReadIsCurrent
  <2>3. CurrentRows(n) # {}
    BY <1>4, <2>1 DEF PresentInv, NeverVanishes
  <2>4. found[l] # NoRow /\ found[l] \in CurrentRows(n)
    BY <2>2, <2>3
  <2>5. new.version = found[l].version + 1 /\ found[l].id \in superseded' /\ found[l] \in zones
        /\ found[l].number = n /\ found[l].id \notin superseded
    BY <1>1, <1>4, <2>4 DEF NextVersion, CurrentRows
  <2>6. CASE y = found[l]
    BY <1>3, <2>5, <2>6
  <2>7. CASE y # found[l]
    <3>1. y.id \in superseded
      BY <1>4, <2>2, <2>4, <2>7 DEF CurrentRows, ZonesOf
    <3>2. y.version < found[l].version
      BY <1>3, <1>4, <2>5, <2>7 DEF OrderInv, OrderIsStrict, ZonesOf
    <3> QED BY <1>1, <1>3, <2>5, <3>1, <3>2
  <2> QED BY <2>6, <2>7
<1>5. CurrentIsUnique'
  <2> SUFFICES ASSUME NEW n \in Numbers, NEW y \in zones', NEW z \in zones',
                      y.number = n, z.number = n,
                      y.id \notin superseded', z.id \notin superseded'
               PROVE  y = z
    BY DEF CurrentIsUnique, CurrentRows, ZonesOf
  <2>1. CASE y \in zones /\ z \in zones
    BY <1>1, <2>1 DEF OrderInv, CurrentIsUnique, CurrentRows, ZonesOf
  <2> QED BY <1>1, <1>4, <2>1
<1>6. OrderIsStrict'
  <2> SUFFICES ASSUME NEW n \in Numbers, NEW y \in zones', NEW z \in zones',
                      y.number = n, z.number = n
               PROVE  /\ y.version = z.version => y = z
                      /\ y.version < z.version => y.id \in superseded'
    BY DEF OrderIsStrict, ZonesOf
  <2>1. CASE y \in zones /\ z \in zones
    BY <1>1, <2>1 DEF OrderInv, OrderIsStrict, ZonesOf
  <2>2. CASE y \in zones /\ z = new
    BY <1>3, <1>4, <2>2 DEF Rows
  <2>3. CASE y = new /\ z \in zones
    BY <1>3, <1>4, <2>3 DEF Rows
  <2>4. CASE y = new /\ z = new
    BY <2>4 DEF Rows
  <2> QED BY <1>1, <2>1, <2>2, <2>3, <2>4
<1> QED BY <1>5, <1>6

LEMMA NextKeepsOrder ==
  ASSUME ~overlapped', PresentInv, OrderInv, [ZonesNext]_zonesVars
  PROVE  OrderInv'
<1>1. Alone'
  BY OneMoves DEF OrderInv, Alone
<1>2. CurrentIsUnique' /\ OrderIsStrict'
  <2>1. CASE UNCHANGED <<zones, superseded>>
    BY <2>1 DEF OrderInv, CurrentIsUnique, OrderIsStrict, CurrentRows, ZonesOf
  <2> QED BY <2>1, OthersKeepRows, InsertKeepsOrder
<1>3. ReadIsCurrent'
  <2>1. CASE UNCHANGED <<zones, superseded>>
    <3> SUFFICES ASSUME NEW k \in Loaders, at'[k] \in {"supersede", "insert"},
                        Versioned(Head(file'[k]))
                 PROVE  CurrentRows(Head(file'[k])) =
                          (IF found'[k] = NoRow THEN {} ELSE {found'[k]})
      BY <2>1 DEF ReadIsCurrent, CurrentRows, ZonesOf, Versioned
    <3>1. CASE at'[k] = at[k] /\ file'[k] = file[k] /\ found'[k] = found[k]
      BY <3>1 DEF OrderInv, ReadIsCurrent
    <3>2. CASE Find(k)
      <4>1. at[k] = "find" /\ file' = file /\ found[k] = NoRow
        BY <3>2 DEF Find, PresentInv, ReadRow
      <4>2. \/ CurrentRows(Head(file[k])) = {} /\ found'[k] = NoRow
            \/ found'[k] \in CurrentRows(Head(file[k]))
        BY <3>2, <4>1 DEF Find, PresentInv, TypeOK
      <4>3. Head(file[k]) \in Numbers
        BY <3>2, <4>1, HeadTail DEF Find, Features, PresentInv, TypeOK, Loading, Versioned
      <4>4. \A y, z \in CurrentRows(Head(file[k])) : y = z
        BY <4>3 DEF OrderInv, CurrentIsUnique
      <4>5. NoRow \notin CurrentRows(Head(file[k]))
        BY RowAssumption DEF CurrentRows, ZonesOf, PresentInv, TypeOK
      <4> QED BY <4>1, <4>2, <4>4, <4>5
    <3>3. CASE Supersede(k)
      BY <3>3 DEF Supersede, OrderInv, ReadIsCurrent
    <3>4. \/ at'[k] = at[k] /\ file'[k] = file[k] /\ found'[k] = found[k]
          \/ Find(k) \/ Supersede(k)
      <4>1. ASSUME NEW l \in Loaders, NEW rest, Proceed(l, rest), l # k
            PROVE  at'[k] = at[k] /\ file'[k] = file[k] /\ found'[k] = found[k]
        BY <4>1 DEF Proceed, PresentInv, TypeOK
      <4>2. ASSUME NEW rest, Proceed(k, rest) PROVE FALSE
        BY <4>2 DEF Proceed, PresentInv, TypeOK
      <4>3. ASSUME NEW l \in Loaders, Find(l) \/ Supersede(l), l # k
            PROVE  at'[k] = at[k] /\ file'[k] = file[k] /\ found'[k] = found[k]
        BY <4>3 DEF Find, Supersede, PresentInv, TypeOK
      <4>4. CASE UNCHANGED zonesVars
        BY <4>4 DEF zonesVars
      <4> QED BY <4>1, <4>2, <4>3, <4>4 DEF ZonesNext, Start, Refuse, Insert, Kill
    <3> QED BY <3>1, <3>2, <3>3, <3>4
  <2>2. ASSUME NEW l \in Loaders, Insert(l) PROVE ReadIsCurrent'
    <3>1. at[l] # "idle" /\ Tail(file[l]) \in Seq(Features) /\ Proceed(l, Tail(file[l]))
      BY <2>2, InsertedRow DEF Insert
    <3>2. \A k \in Loaders \ {l} : at[k] = "idle"
      BY <3>1 DEF OrderInv, Alone
    <3>3. \A k \in Loaders : at'[k] \notin {"supersede", "insert"}
      BY <3>1, <3>2, LeaveKeepsTypes DEF PresentInv
    <3> QED BY <3>3 DEF ReadIsCurrent
  <2> QED BY <2>1, <2>2, OthersKeepRows
<1> QED BY <1>1, <1>2, <1>3 DEF OrderInv

LEMMA OverlapStays == [ZonesNext]_zonesVars /\ overlapped => overlapped'
BY DEF ZonesNext, zonesVars, Start, Refuse, Find, Supersede, Insert, Kill

\* While loads do not overlap, the row a loader read is the newest of its number.
LEMMA OrderAlways == ZonesSpec => [](~overlapped => OrderInv)
<1> DEFINE Inv == ~overlapped => OrderInv
<1>1. ZonesInit => Inv
  BY DEF ZonesInit, OrderInv, Alone, ReadIsCurrent, CurrentIsUnique, OrderIsStrict, CurrentRows, ZonesOf
<1>2. PresentInv /\ Inv /\ [ZonesNext]_zonesVars => Inv'
  BY NextKeepsOrder, OverlapStays
<1> HIDE DEF Inv
<1>3. ZonesSpec => []Inv
  BY <1>1, <1>2, PresentAlways, PTL DEF ZonesSpec
<1> QED BY <1>3 DEF Inv

\* Operators who load one file at a time (_load_constraint_zones), for any files and although
\* a loader may die at any statement: the versions of a registry number are distinct, and
\* every row but the newest is superseded, so that at most one is current.
THEOREM SerialVersionsAreOrdered == ZonesSpec => []VersionsOrdered
<1>1. (~overlapped => OrderInv) => VersionsOrdered
  BY DEF OrderInv, VersionsOrdered
<1> QED BY <1>1, OrderAlways, PTL
=============================================================================
