--------------------------- MODULE TileCacheProofs ---------------------------
(***************************************************************************)
(* What TileCache promises for any storage and any number of workers,      *)
(* calls, tiles, versions and crashes.                                     *)
(*                                                                         *)
(* How often a tile is uploaded is counted: at most as many workers are    *)
(* busy as the deployment has, and a worker that uploads found the key     *)
(* unregistered.  What is stored: whoever uploads to a key uploads the     *)
(* same content, since the key holds the version, and a task answers only  *)
(* after its key is registered.  So a registered object never changes; it  *)
(* is torn only in a file that was truncated once more, by a worker that   *)
(* built the tile at the same time as the one that registered it.          *)
(***************************************************************************)
EXTENDS TileCache, FiniteSetTheorems, TLAPS

\* The key of a message and of a working worker.
LEMMA KeyTypes ==
  ASSUME TypeOK
  PROVE  /\ \A m \in Tasks : Key(m.tile, version[m.call]) \in Keys
         /\ \A w \in Workers : pc[w] # "idle" =>
              /\ task[w] \in Tasks
              /\ KeyAt(w) \in Keys
              /\ KeyAt(w)[2] = version[task[w].call]
              /\ version[task[w].call] \in Versions
BY DEF TypeOK, Tasks, Keys, Key, KeyAt

-----------------------------------------------------------------------------
(* How often a tile is uploaded, whatever the storage.                      *)

Labels == {"idle", "find", "build", "put", "write", "register", "answer"}

\* The types of the locals after worker w went on with message m.
LEMMA Onwards ==
  ASSUME TypeOK, NEW w \in Workers, NEW to \in Labels \ {"idle"}, NEW m \in Tasks,
         pc' = [pc EXCEPT ![w] = to], task' = [task EXCEPT ![w] = m]
  PROVE  /\ pc' \in [Workers -> Labels]
         /\ task' \in [Workers -> Tasks \cup {None}]
         /\ \A v \in Workers : pc'[v] = "idle" <=> task'[v] = None
BY NoneAssumption DEF TypeOK, Labels

LEMMA Dropped ==
  ASSUME TypeOK, NEW w \in Workers, Drop(w)
  PROVE  /\ pc' \in [Workers -> Labels]
         /\ task' \in [Workers -> Tasks \cup {None}]
         /\ \A v \in Workers : pc'[v] = "idle" <=> task'[v] = None
BY NoneAssumption DEF TypeOK, Labels, Drop

LEMMA TypesStay == TypeOK /\ [Next]_vars => TypeOK'
<1> SUFFICES ASSUME TypeOK, [Next]_vars PROVE TypeOK'
  OBVIOUS
<1>1. CASE UNCHANGED vars
  BY <1>1 DEF vars, table, callers, TypeOK
<1>2. ASSUME NEW c \in Calls, NEW T \in SUBSET Tiles, Request(c, T) PROVE TypeOK'
  BY <1>2 DEF Request, TypeOK, Tasks, table
<1>3. ASSUME NEW c \in Calls, NEW s \in {"served", "failed", "late"}, EndCall(c, s) PROVE TypeOK'
  BY <1>3 DEF EndCall, TypeOK, table
<1> DEFINE Locals == /\ pc' \in [Workers -> Labels]
                     /\ task' \in [Workers -> Tasks \cup {None}]
                     /\ \A v \in Workers : pc'[v] = "idle" <=> task'[v] = None
<1>4. ASSUME NEW w \in Workers, NEW from \in Labels \ {"idle"}, NEW to \in Labels \ {"idle"},
             Step(w, from, to), UNCHANGED task
      PROVE  Locals
  <2>1. task[w] \in Tasks /\ pc' = [pc EXCEPT ![w] = to] /\ task' = [task EXCEPT ![w] = task[w]]
    BY <1>4 DEF Step, TypeOK, Labels
  <2> QED BY <2>1, Onwards
<1>5. ASSUME NEW w \in Workers, NEW m \in queue, Take(w, m) PROVE TypeOK'
  <2>1. m \in Tasks /\ pc' = [pc EXCEPT ![w] = "find"]
    BY <1>5 DEF Take, Step, TypeOK
  <2>2. Locals
    BY <1>5, <2>1, Onwards DEF Take, Labels
  <2> QED BY <1>5, <2>2 DEF Take, TypeOK, Labels, table, callers
<1>6. ASSUME NEW w \in Workers, Find(w) \/ Build(w) PROVE TypeOK'
  <2>1. Locals
    BY <1>4, <1>6 DEF Find, Build, Labels
  <2> QED BY <1>6, <2>1 DEF Find, Build, TypeOK, Labels, table, callers
<1>7. ASSUME NEW w \in Workers, Put(w) \/ Write(w) PROVE TypeOK'
  <2>1. Locals
    BY <1>4, <1>7 DEF Put, Write, Labels
  <2>2. KeyAt(w) \in Keys /\ version[task[w].call] \in Versions
    BY <1>7, KeyTypes DEF Put, Write, Step
  <2>3. files' \in [Keys -> Versions \cup {Absent, Torn, Cut}]
    BY <1>7, <2>2 DEF Put, Write, Store, TypeOK
  <2>4. uploads' \in [Keys -> Nat]
    BY <1>7, <2>2 DEF Put, Write, CountUpload, TypeOK
  <2> QED BY <1>7, <2>1, <2>3, <2>4 DEF Put, Write, TypeOK, Labels, callers
<1>8. ASSUME NEW w \in Workers, Register(w) PROVE TypeOK'
  <2>1. Locals
    BY <1>4, <1>8 DEF Register, Labels
  <2>2. KeyAt(w) \in Keys
    BY <1>8, KeyTypes DEF Register, Step
  <2> QED BY <1>8, <2>1, <2>2 DEF Register, TypeOK, Labels, callers
<1>9. ASSUME NEW w \in Workers, Refuse(w) \/ Answer(w) \/ Crash(w) PROVE TypeOK'
  <2>1. Locals
    BY <1>9, Dropped DEF Refuse, Answer, Crash
  <2>2. task[w] \in Tasks
    BY <1>9, KeyTypes DEF Refuse, Answer, Crash
  <2>3. files' \in [Keys -> Versions \cup {Absent, Torn, Cut}]
    BY <1>9 DEF Refuse, Answer, Crash, Store, TypeOK, table
  <2> QED BY <1>9, <2>1, <2>2, <2>3 DEF Refuse, Answer, Crash, TypeOK, Labels, table, callers
<1> QED
  BY <1>1, <1>2, <1>3, <1>5, <1>6, <1>7, <1>8, <1>9
     DEF Next, Caller, Worker, Collect, Raise, TimeOut

Busy == {w \in Workers : pc[w] # "idle"}

\* The workers that began an upload to key k and did not register it yet.
Uploaders(k) == {w \in Workers : pc[w] \in {"write", "register"} /\ KeyAt(w) = k}

\* Those that did not find k and will upload to it.
Builders(k) == {w \in Workers : pc[w] \in {"build", "put"} /\ KeyAt(w) = k}

\* Every upload to a key that is not registered was by a worker that still works on it or
\* was killed; once it is registered, nobody else begins.
Budget(k) ==
  /\ k \notin registered => uploads[k] <= Cardinality(Uploaders(k)) + crashes
  /\ k \in registered => uploads[k] + Cardinality(Builders(k)) <= deployment.workers + crashes

StampedeInv ==
  /\ TypeOK
  /\ deployment.workers \in Nat
  /\ Cardinality(Busy) <= deployment.workers
  /\ \A k \in Keys : Budget(k)

LEMMA WorkersFinite ==
  ASSUME NEW S, S \subseteq Workers
  PROVE  IsFiniteSet(S) /\ Cardinality(S) \in Nat
BY FiniteAssumption, FS_Subset, FS_CardinalityType

\* A set of workers counted as the others and w.
LEMMA CountedApart ==
  ASSUME NEW S, S \subseteq Workers, NEW w
  PROVE  /\ Cardinality(S \ {w}) \in Nat
         /\ Cardinality(S) = Cardinality(S \ {w}) + (IF w \in S THEN 1 ELSE 0)
<1>1. IsFiniteSet(S) /\ Cardinality(S) \in Nat /\ Cardinality(S \ {w}) \in Nat
  BY WorkersFinite
<1>2. CASE w \in S
  <2>1. Cardinality(S \ {w}) = Cardinality(S) - 1
    BY <1>1, <1>2, FS_RemoveElement
  <2> QED BY <1>1, <1>2, <2>1
<1>3. CASE w \notin S
  <2>1. S \ {w} = S
    BY <1>3
  <2>2. Cardinality(S \ {w}) = Cardinality(S)
    BY <2>1
  <2> QED BY <1>1, <1>3, <2>2
<1> QED BY <1>2, <1>3

LEMMA BusyOnes ==
  ASSUME NEW k
  PROVE  Cardinality(Uploaders(k)) + Cardinality(Builders(k)) <= Cardinality(Busy)
<1> DEFINE S == Uploaders(k)
           T == Builders(k)
<1>1. S \cap T = {} /\ S \cup T \subseteq Busy /\ Busy \subseteq Workers
  BY DEF Uploaders, Builders, Busy
<1>2. IsFiniteSet(S) /\ IsFiniteSet(T) /\ IsFiniteSet(Busy)
  BY <1>1, WorkersFinite
<1> HIDE DEF S, T
<1>3. Cardinality(S \cup T) = Cardinality(S) + Cardinality(T) - Cardinality(S \cap T)
  BY <1>2, FS_Union
<1>4. Cardinality(S \cap T) = 0
  BY <1>1, FS_EmptySet
<1>5. Cardinality(S \cup T) <= Cardinality(Busy)
  BY <1>1, <1>2, FS_Subset
<1>6. Cardinality(S) \in Nat /\ Cardinality(T) \in Nat /\ Cardinality(Busy) \in Nat
  BY <1>2, FS_CardinalityType
<1>7. Cardinality(S) + Cardinality(T) <= Cardinality(Busy)
  BY <1>3, <1>4, <1>5, <1>6
<1> QED BY <1>7 DEF S, T

LEMMA StampedeInit == Init => StampedeInv
<1> SUFFICES ASSUME Init PROVE StampedeInv
  OBVIOUS
<1>1. TypeOK
  BY DEF Init, TypeOK, None
<1>2. deployment.workers \in Nat
  BY DeploymentsAssumption DEF Init
<1>3. Busy = {}
  BY DEF Init, Busy
<1>4. Cardinality(Busy) = 0
  BY <1>3, FS_EmptySet
<1>5. ASSUME NEW k \in Keys PROVE Budget(k)
  <2>1. Cardinality(Uploaders(k)) \in Nat
    BY WorkersFinite DEF Uploaders
  <2> QED BY <2>1 DEF Init, Budget
<1> QED BY <1>1, <1>2, <1>4, <1>5 DEF StampedeInv

\* In a step of worker w all others count as before.
LEMMA OneWorker ==
  ASSUME NEW w \in Workers, NEW k,
         \A v \in Workers \ {w} : pc'[v] = pc[v] /\ KeyAt(v)' = KeyAt(v)
  PROVE  \E u \in Nat, b \in Nat, n \in Nat :
           /\ Cardinality(Uploaders(k)) = u + (IF w \in Uploaders(k) THEN 1 ELSE 0)
           /\ Cardinality(Uploaders(k))' = u + (IF (w \in Uploaders(k))' THEN 1 ELSE 0)
           /\ Cardinality(Builders(k)) = b + (IF w \in Builders(k) THEN 1 ELSE 0)
           /\ Cardinality(Builders(k))' = b + (IF (w \in Builders(k))' THEN 1 ELSE 0)
           /\ Cardinality(Busy) = n + (IF w \in Busy THEN 1 ELSE 0)
           /\ Cardinality(Busy)' = n + (IF (w \in Busy)' THEN 1 ELSE 0)
<1>1. PICK S, T : S = Uploaders(k) /\ T = Uploaders(k)'
  OBVIOUS
<1>2. PICK B, C : B = Builders(k) /\ C = Builders(k)'
  OBVIOUS
<1>3. PICK M, N : M = Busy /\ N = Busy'
  OBVIOUS
<1>4. /\ S \subseteq Workers /\ T \subseteq Workers
      /\ B \subseteq Workers /\ C \subseteq Workers
      /\ M \subseteq Workers /\ N \subseteq Workers
  BY <1>1, <1>2, <1>3 DEF Uploaders, Builders, Busy
<1>5. S \ {w} = T \ {w} /\ B \ {w} = C \ {w} /\ M \ {w} = N \ {w}
  <2>1. S \ {w} = T \ {w}
    BY <1>1 DEF Uploaders
  <2>2. B \ {w} = C \ {w}
    BY <1>2 DEF Builders
  <2>3. M \ {w} = N \ {w}
    BY <1>3 DEF Busy
  <2> QED BY <2>1, <2>2, <2>3
<1> DEFINE u == Cardinality(S \ {w})
           b == Cardinality(B \ {w})
           n == Cardinality(M \ {w})
<1>6. u \in Nat /\ Cardinality(S) = u + (IF w \in S THEN 1 ELSE 0)
      /\ Cardinality(T) = u + (IF w \in T THEN 1 ELSE 0)
  BY <1>4, <1>5, CountedApart
<1>7. b \in Nat /\ Cardinality(B) = b + (IF w \in B THEN 1 ELSE 0)
      /\ Cardinality(C) = b + (IF w \in C THEN 1 ELSE 0)
  BY <1>4, <1>5, CountedApart
<1>8. n \in Nat /\ Cardinality(M) = n + (IF w \in M THEN 1 ELSE 0)
      /\ Cardinality(N) = n + (IF w \in N THEN 1 ELSE 0)
  BY <1>4, <1>5, CountedApart
<1> HIDE DEF u, b, n
<1> QED BY <1>1, <1>2, <1>3, <1>6, <1>7, <1>8

\* What a step of worker w does to its label, its key, the table and the crashes.
LEMMA WorkerMoves ==
  ASSUME TypeOK, NEW w \in Workers, Worker(w)
  PROVE  /\ \A v \in Workers \ {w} : pc'[v] = pc[v] /\ KeyAt(v)' = KeyAt(v)
         /\ pc[w] \notin {"idle"} => KeyAt(w) \in Keys
         /\ pc[w] # "idle" /\ pc'[w] # "idle" => KeyAt(w)' = KeyAt(w)
         /\ \/ /\ pc[w] = "idle" /\ pc'[w] = "find"
               /\ Cardinality(Busy) < deployment.workers
               /\ UNCHANGED <<uploads, registered, crashes>>
            \/ /\ \/ pc[w] = "find" /\ pc'[w] = "answer"
                  \/ pc[w] = "find" /\ pc'[w] = "build" /\ KeyAt(w) \notin registered
                  \/ pc[w] = "build" /\ pc'[w] = "put"
                  \/ pc[w] \in {"build", "answer"} /\ pc'[w] = "idle"
                  \/ pc[w] = "write" /\ pc'[w] = "register"
               /\ UNCHANGED <<uploads, registered, crashes>>
            \/ /\ pc[w] = "put" /\ pc'[w] \in {"write", "register"}
               /\ uploads' = [uploads EXCEPT ![KeyAt(w)] = @ + 1]
               /\ UNCHANGED <<registered, crashes>>
            \/ /\ pc[w] = "register" /\ pc'[w] = "answer"
               /\ registered' = registered \cup {KeyAt(w)}
               /\ UNCHANGED <<uploads, crashes>>
            \/ /\ pc[w] # "idle" /\ pc'[w] = "idle"
               /\ crashes' = crashes + 1
               /\ UNCHANGED <<uploads, registered>>
<1>1. w \in DOMAIN pc /\ w \in DOMAIN task
  BY DEF TypeOK
<1>2. UNCHANGED version
  BY DEF Worker, Take, Find, Build, Refuse, Put, Write, Register, Answer, Crash, callers
<1>3. \A v \in Workers \ {w} : pc'[v] = pc[v] /\ task'[v] = task[v]
  <2>1. \E x : pc' = [pc EXCEPT ![w] = x]
    BY DEF Worker, Take, Find, Build, Refuse, Put, Write, Register, Answer, Crash, Step, Drop
  <2>2. (\E m : task' = [task EXCEPT ![w] = m]) \/ UNCHANGED task
    BY DEF Worker, Take, Find, Build, Refuse, Put, Write, Register, Answer, Crash, Step, Drop
  <2> QED BY <2>1, <2>2 DEF TypeOK
<1>4. \A v \in Workers \ {w} : KeyAt(v)' = KeyAt(v)
  BY <1>2, <1>3 DEF KeyAt, Key
<1>5. pc[w] # "idle" /\ pc'[w] # "idle" => task'[w] = task[w]
  BY <1>1 DEF Worker, Take, Find, Build, Refuse, Put, Write, Register, Answer, Crash, Step, Drop
<1>6. pc[w] # "idle" /\ pc'[w] # "idle" => KeyAt(w)' = KeyAt(w)
  BY <1>2, <1>5 DEF KeyAt, Key
<1>7. pc[w] # "idle" => KeyAt(w) \in Keys
  BY KeyTypes
<1>8. ASSUME NEW m \in queue, Take(w, m)
      PROVE  /\ pc[w] = "idle" /\ pc'[w] = "find"
             /\ Cardinality(Busy) < deployment.workers
             /\ UNCHANGED <<uploads, registered, crashes>>
  BY <1>1, <1>8 DEF Take, Step, Busy, table
<1>9. CASE Find(w) \/ Build(w) \/ Write(w) \/ Refuse(w) \/ Answer(w)
  <2>1. UNCHANGED <<uploads, registered, crashes>>
    BY <1>9 DEF Find, Build, Write, Refuse, Answer, table
  <2>2. \/ pc[w] = "find" /\ pc'[w] = "answer"
        \/ pc[w] = "find" /\ pc'[w] = "build" /\ KeyAt(w) \notin registered
        \/ pc[w] = "build" /\ pc'[w] = "put"
        \/ pc[w] \in {"build", "answer"} /\ pc'[w] = "idle"
        \/ pc[w] = "write" /\ pc'[w] = "register"
    BY <1>1, <1>9 DEF Find, Build, Write, Refuse, Answer, Step, Drop
  <2> QED BY <1>3, <1>4, <1>6, <1>7, <2>1, <2>2
<1>10. CASE Put(w)
  <2>1. /\ pc[w] = "put" /\ pc'[w] \in {"write", "register"}
        /\ uploads' = [uploads EXCEPT ![KeyAt(w)] = @ + 1]
        /\ UNCHANGED <<registered, crashes>>
    BY <1>1, <1>10 DEF Put, Step, CountUpload
  <2> QED BY <1>3, <1>4, <1>6, <1>7, <2>1
<1>11. CASE Register(w)
  <2>1. /\ pc[w] = "register" /\ pc'[w] = "answer"
        /\ registered' = registered \cup {KeyAt(w)}
        /\ UNCHANGED <<uploads, crashes>>
    BY <1>1, <1>11 DEF Register, Step
  <2> QED BY <1>3, <1>4, <1>6, <1>7, <2>1
<1>12. CASE Crash(w)
  <2>1. /\ pc[w] # "idle" /\ pc'[w] = "idle"
        /\ crashes' = crashes + 1
        /\ UNCHANGED <<uploads, registered>>
    BY <1>1, <1>12 DEF Crash, Drop
  <2> QED BY <1>3, <1>4, <1>6, <1>7, <2>1
<1> QED BY <1>3, <1>4, <1>6, <1>7, <1>8, <1>9, <1>10, <1>11, <1>12 DEF Worker

LEMMA WorkerKeepsBudget ==
  ASSUME StampedeInv, NEW w \in Workers, Worker(w), UNCHANGED deployment, NEW k \in Keys
  PROVE  Cardinality(Busy)' <= deployment.workers /\ Budget(k)'
<1>1. TypeOK /\ deployment.workers \in Nat /\ Cardinality(Busy) <= deployment.workers /\ Budget(k)
      /\ uploads[k] \in Nat /\ crashes \in Nat /\ k \in DOMAIN uploads
  BY DEF StampedeInv, TypeOK
<1>2. \A v \in Workers \ {w} : pc'[v] = pc[v] /\ KeyAt(v)' = KeyAt(v)
  BY <1>1, WorkerMoves
<1>3. PICK old, new, key, keyNext, up, bu, upNext, buNext :
        /\ old = pc[w] /\ new = pc'[w] /\ key = KeyAt(w) /\ keyNext = KeyAt(w)'
        /\ up = Cardinality(Uploaders(k)) /\ upNext = Cardinality(Uploaders(k))'
        /\ bu = Cardinality(Builders(k)) /\ buNext = Cardinality(Builders(k))'
  OBVIOUS
<1>4. PICK busy, busyNext : busy = Cardinality(Busy) /\ busyNext = Cardinality(Busy)'
  OBVIOUS
<1>5. PICK u \in Nat, b \in Nat, n \in Nat :
        /\ up = u + (IF old \in {"write", "register"} /\ key = k THEN 1 ELSE 0)
        /\ upNext = u + (IF new \in {"write", "register"} /\ keyNext = k THEN 1 ELSE 0)
        /\ bu = b + (IF old \in {"build", "put"} /\ key = k THEN 1 ELSE 0)
        /\ buNext = b + (IF new \in {"build", "put"} /\ keyNext = k THEN 1 ELSE 0)
        /\ busy = n + (IF old # "idle" THEN 1 ELSE 0)
        /\ busyNext = n + (IF new # "idle" THEN 1 ELSE 0)
  <2>1. /\ w \in Uploaders(k) <=> old \in {"write", "register"} /\ key = k
        /\ (w \in Uploaders(k))' <=> new \in {"write", "register"} /\ keyNext = k
        /\ w \in Builders(k) <=> old \in {"build", "put"} /\ key = k
        /\ (w \in Builders(k))' <=> new \in {"build", "put"} /\ keyNext = k
        /\ w \in Busy <=> old # "idle"
        /\ (w \in Busy)' <=> new # "idle"
    BY <1>3 DEF Uploaders, Builders, Busy
  <2>2. \E u \in Nat, b \in Nat, n \in Nat :
           /\ up = u + (IF w \in Uploaders(k) THEN 1 ELSE 0)
           /\ upNext = u + (IF (w \in Uploaders(k))' THEN 1 ELSE 0)
           /\ bu = b + (IF w \in Builders(k) THEN 1 ELSE 0)
           /\ buNext = b + (IF (w \in Builders(k))' THEN 1 ELSE 0)
           /\ busy = n + (IF w \in Busy THEN 1 ELSE 0)
           /\ busyNext = n + (IF (w \in Busy)' THEN 1 ELSE 0)
    BY <1>2, <1>3, <1>4, OneWorker
  <2> QED BY <2>1, <2>2
<1>6. up + bu <= busy
  BY <1>3, <1>4, BusyOnes
<1>7. /\ k \notin registered => uploads[k] <= up + crashes
      /\ k \in registered => uploads[k] + bu <= deployment.workers + crashes
      /\ busy <= deployment.workers
  BY <1>1, <1>3, <1>4 DEF Budget
<1>8. /\ k \notin registered' => uploads'[k] <= upNext + crashes'
      /\ k \in registered' => uploads'[k] + buNext <= deployment.workers + crashes'
      /\ busyNext <= deployment.workers
  <2>1. CASE /\ old = "idle" /\ new = "find"
             /\ busy < deployment.workers
             /\ UNCHANGED <<uploads, registered, crashes>>
    BY <1>1, <1>5, <1>7, <2>1
  <2>2. CASE /\ UNCHANGED <<uploads, registered, crashes>>
             /\ new # "idle" => keyNext = key
             /\ \/ old = "find" /\ new = "answer"
                \/ old = "find" /\ new = "build" /\ key \notin registered
                \/ old = "build" /\ new = "put"
                \/ old \in {"build", "answer"} /\ new = "idle"
                \/ old = "write" /\ new = "register"
    BY <1>1, <1>5, <1>7, <2>2
  <2>3. CASE /\ old = "put" /\ new \in {"write", "register"} /\ keyNext = key
             /\ uploads' = [uploads EXCEPT ![key] = @ + 1]
             /\ UNCHANGED <<registered, crashes>>
    <3>1. uploads'[k] = uploads[k] + (IF key = k THEN 1 ELSE 0)
      BY <1>1, <2>3
    <3> QED BY <1>1, <1>5, <1>7, <2>3, <3>1
  <2>4. CASE /\ old = "register" /\ new = "answer" /\ keyNext = key
             /\ registered' = registered \cup {key}
             /\ UNCHANGED <<uploads, crashes>>
    BY <1>1, <1>5, <1>6, <1>7, <2>4
  <2>5. CASE /\ old # "idle" /\ new = "idle" /\ crashes' = crashes + 1
             /\ UNCHANGED <<uploads, registered>>
    BY <1>1, <1>5, <1>7, <2>5
  <2> QED BY <1>1, <1>3, <1>4, WorkerMoves, <2>1, <2>2, <2>3, <2>4, <2>5
<1> QED BY <1>3, <1>4, <1>8 DEF Budget

LEMMA StampedeStep == StampedeInv /\ [Next]_vars => StampedeInv'
<1> SUFFICES ASSUME StampedeInv, [Next]_vars PROVE StampedeInv'
  OBVIOUS
<1>1. TypeOK'
  BY TypesStay DEF StampedeInv
<1>2. UNCHANGED deployment
  BY DEF Next, vars
<1>3. ASSUME NEW w \in Workers, Worker(w) PROVE StampedeInv'
  <2>1. \A k \in Keys : Cardinality(Busy)' <= deployment.workers /\ Budget(k)'
    BY <1>2, <1>3, WorkerKeepsBudget
  <2>2. \E k : k \in Keys
    <3>1. KeyAt(w) \in Keys \/ \E m \in Tasks : Key(m.tile, version[m.call]) \in Keys
      BY <1>3, KeyTypes
         DEF StampedeInv, TypeOK, Worker, Take, Find, Build, Refuse, Put, Write, Register,
             Answer, Crash, Step
    <3> QED BY <3>1
  <2> QED BY <1>1, <1>2, <2>1, <2>2 DEF StampedeInv
<1>4. CASE (\E c \in Calls : Caller(c)) \/ UNCHANGED vars
  <2>1. UNCHANGED <<uploads, registered, crashes, pc, task, version, deployment>>
    BY <1>2, <1>4 DEF Caller, Request, Collect, Raise, TimeOut, EndCall, vars, table, callers
  <2>2. \A w \in Workers : KeyAt(w)' = KeyAt(w)
    BY <2>1 DEF KeyAt, Key
  <2>3. Busy' = Busy /\ \A k \in Keys : Uploaders(k)' = Uploaders(k) /\ Builders(k)' = Builders(k)
    BY <2>1, <2>2 DEF Busy, Uploaders, Builders
  <2>4. ASSUME NEW k \in Keys PROVE Budget(k)'
    BY <2>1, <2>3 DEF Budget, StampedeInv
  <2>5. Cardinality(Busy)' <= deployment'.workers
    BY <2>1, <2>3 DEF StampedeInv
  <2> QED BY <1>1, <2>1, <2>4, <2>5 DEF StampedeInv
<1> QED BY <1>3, <1>4 DEF Next

\* Whatever the storage and whoever is killed, repeated and simultaneous calls upload a
\* tile at most once per worker, and once more per crash (find_cached_tile first).
THEOREM WorkIsBounded == Spec => [](TypeOK /\ StampedeBounded)
<1>1. StampedeInv => StampedeBounded
  <2> SUFFICES ASSUME StampedeInv, NEW k \in Keys
               PROVE  uploads[k] <= deployment.workers + crashes
    BY DEF StampedeBounded
  <2>1. /\ uploads[k] \in Nat /\ crashes \in Nat /\ deployment.workers \in Nat
        /\ Cardinality(Busy) <= deployment.workers /\ Budget(k)
    BY DEF StampedeInv, TypeOK
  <2>2. Uploaders(k) \subseteq Workers /\ Builders(k) \subseteq Workers /\ Busy \subseteq Workers
    BY DEF Uploaders, Builders, Busy
  <2>3. Cardinality(Uploaders(k)) \in Nat /\ Cardinality(Builders(k)) \in Nat
        /\ Cardinality(Busy) \in Nat
    BY <2>2, WorkersFinite
  <2>4. Cardinality(Uploaders(k)) + Cardinality(Builders(k)) <= Cardinality(Busy)
    BY BusyOnes
  <2> QED BY <2>1, <2>3, <2>4 DEF Budget
<1>2. StampedeInv => TypeOK
  BY DEF StampedeInv
<1> QED BY StampedeInit, StampedeStep, <1>1, <1>2, PTL DEF Spec
-----------------------------------------------------------------------------
(* What is stored.                                                         *)

\* Several workers uploaded the tile.
Shared(k) == deployment.workers > 1 /\ uploads[k] > 1

\* The object is whole, or it was truncated once more.
Fine(k) == files[k] = k[2] \/ (files[k] \in {Torn, Cut} /\ Shared(k))

\* The worker has begun to upload its tile and has not registered it.
Uploads(w) == pc[w] \in {"write", "register"}

\* What is not there was never uploaded; a torn file is being filled, a cut one was left
\* by a worker that was killed.
FilesInv ==
  \A k \in Keys :
    \/ files[k] = k[2]
    \/ files[k] = Absent /\ uploads[k] = 0
    \/ files[k] = Torn /\ ~AtomicPut /\ \E w \in Workers : Writes(w, k)
    \/ files[k] = Cut /\ ~AtomicPut /\ crashes > 0

\* Uploads are counted before they are registered; two workers of one tile are two uploads.
UploadsInv ==
  /\ \A w \in Workers : pc[w] = "write" => ~AtomicPut
  /\ \A w \in Workers : Uploads(w) => uploads[KeyAt(w)] > 0
  /\ \A k \in registered : uploads[k] > 0
  /\ \A v, w \in Workers : v # w /\ Uploads(v) /\ Uploads(w) /\ KeyAt(v) = KeyAt(w) =>
       uploads[KeyAt(w)] > 1

\* Who still uploads what is registered, or fills what was cut, is not the only worker.
OthersInv ==
  /\ \A w \in Workers : pc[w] \in {"build", "put", "write"} /\ KeyAt(w) \in registered =>
       deployment.workers > 1
  /\ \A w \in Workers : pc[w] = "write" /\ files[KeyAt(w)] = Cut => Shared(KeyAt(w))

FineInv ==
  /\ \A k \in registered : Fine(k)
  /\ \A w \in Workers : pc[w] = "register" => Fine(KeyAt(w))

\* Who answers, or has answered, or was served, has its tiles registered.
AnswersInv ==
  /\ \A w \in Workers : pc[w] = "answer" => KeyAt(w) \in registered
  /\ \A m \in answers : Key(m.tile, version[m.call]) \in registered
  /\ \A c \in Calls : state[c] = "served" =>
       \A t \in wanted[c] : Key(t, version[c]) \in registered

StoredInv == FilesInv /\ UploadsInv /\ OthersInv /\ FineInv

LEMMA StoredInit == Init => StoredInv /\ AnswersInv
BY DEF Init, StoredInv, FilesInv, UploadsInv, OthersInv, FineInv, AnswersInv, Uploads

\* Two busy workers are not more than there are.
LEMMA TwoBusy ==
  ASSUME StampedeInv, NEW v \in Workers, NEW w \in Workers, v # w,
         pc[v] # "idle", pc[w] # "idle"
  PROVE  deployment.workers > 1
<1>1. {w} \subseteq Busy \ {v} /\ v \in Busy /\ Busy \subseteq Workers
  BY DEF Busy
<1>2. IsFiniteSet(Busy \ {v}) /\ Cardinality(Busy \ {v}) \in Nat
  BY <1>1, WorkersFinite
<1>3. Cardinality(Busy) = Cardinality(Busy \ {v}) + 1
  BY <1>1, CountedApart
<1>4. Cardinality({w}) = 1
  BY FS_Singleton
<1>5. Cardinality({w}) <= Cardinality(Busy \ {v})
  BY <1>1, <1>2, FS_Subset
<1> QED BY <1>2, <1>3, <1>4, <1>5 DEF StampedeInv

\* A step that leaves the storage, the table and the uploads: no worker gets to write or
\* to register, and none that writes leaves a torn file.
LEMMA StorageStays ==
  ASSUME StampedeInv, StoredInv,
         UNCHANGED <<files, registered, uploads, crashes, deployment>>,
         \A w \in Workers : pc'[w] # pc[w] =>
           \/ pc[w] \notin {"write", "register"} /\ pc'[w] \in {"idle", "find", "answer"}
           \/ pc[w] = "find" /\ pc'[w] = "build" /\ KeyAt(w) \notin registered
           \/ pc[w] = "build" /\ pc'[w] = "put",
         \A w \in Workers : pc[w] # "idle" /\ pc'[w] # "idle" => KeyAt(w)' = KeyAt(w)
  PROVE  StoredInv'
<1>1. \A w \in Workers : /\ pc'[w] = "write" <=> pc[w] = "write"
                         /\ pc'[w] = "register" <=> pc[w] = "register"
                         /\ Uploads(w)' <=> Uploads(w)
  BY DEF Uploads
<1>2. \A w \in Workers : Uploads(w) => KeyAt(w)' = KeyAt(w)
  BY <1>1 DEF Uploads
<1>3. AtomicPut' <=> AtomicPut
  BY DEF AtomicPut
<1>4. \A k : Shared(k)' <=> Shared(k)
  BY DEF Shared
<1>5. \A k : Fine(k) => Fine(k)'
  BY <1>4 DEF Fine
<1>6. FilesInv'
  <2>1. \A w \in Workers, k \in Keys : Writes(w, k) => Writes(w, k)'
    BY <1>1, <1>2 DEF Writes, Uploads
  <2> QED BY <1>3, <2>1 DEF StoredInv, FilesInv
<1>7. UploadsInv'
  BY <1>1, <1>2, <1>3 DEF StoredInv, UploadsInv
<1>8. OthersInv'
  <2>1. \A w \in Workers : pc'[w] \in {"build", "put", "write"} /\ KeyAt(w)' \in registered =>
          deployment.workers > 1
    BY DEF StoredInv, OthersInv
  <2>2. \A w \in Workers : pc'[w] = "write" /\ files[KeyAt(w)'] = Cut => Shared(KeyAt(w)')
    BY <1>1, <1>2 DEF StoredInv, OthersInv, Uploads
  <2>3. \A w \in Workers : pc'[w] = "write" /\ files'[KeyAt(w)'] = Cut => Shared(KeyAt(w))'
    BY <2>2, <1>1, <1>2, <1>4 DEF Uploads
  <2> QED BY <2>1, <2>3 DEF OthersInv
<1>9. FineInv'
  BY <1>1, <1>2, <1>5 DEF StoredInv, FineInv, Uploads
<1> QED BY <1>6, <1>7, <1>8, <1>9 DEF StoredInv

\* The upload of a worker: its key is truncated or replaced, and counted.
LEMMA PutStores ==
  ASSUME StampedeInv, StoredInv, NEW w \in Workers, Put(w), UNCHANGED deployment
  PROVE  StoredInv'
<1>0. PICK k : k = KeyAt(w)
  OBVIOUS
<1>1. /\ pc[w] = "put"
      /\ pc' = [pc EXCEPT ![w] = IF AtomicPut THEN "register" ELSE "write"]
      /\ files' = [files EXCEPT ![k] = IF AtomicPut THEN version[task[w].call] ELSE Torn]
      /\ uploads' = [uploads EXCEPT ![k] = @ + 1]
      /\ UNCHANGED <<registered, callers, task, crashes>>
  BY <1>0 DEF Put, Step, Store, CountUpload
<1>2. k \in Keys /\ k[2] = version[task[w].call]
  BY <1>0, <1>1, KeyTypes DEF StampedeInv
<1>3. \A v \in Workers : KeyAt(v)' = KeyAt(v)
  BY <1>1 DEF KeyAt, Key, callers
<1>4. \A v \in Workers \ {w} : pc'[v] = pc[v]
  BY <1>1 DEF StampedeInv, TypeOK
<1>5. pc'[w] = IF AtomicPut THEN "register" ELSE "write"
  BY <1>1 DEF StampedeInv, TypeOK
<1>6. AtomicPut' <=> AtomicPut
  BY DEF AtomicPut
<1>7. /\ files'[k] = IF AtomicPut THEN k[2] ELSE Torn
      /\ \A j \in Keys \ {k} : files'[j] = files[j]
  BY <1>1, <1>2 DEF StampedeInv, TypeOK
<1>8. /\ uploads'[k] = uploads[k] + 1
      /\ \A j \in Keys \ {k} : uploads'[j] = uploads[j]
      /\ \A j \in Keys : uploads[j] \in Nat
  BY <1>1, <1>2 DEF StampedeInv, TypeOK
<1>9. /\ registered \subseteq Keys
      /\ \A v \in Workers : pc[v] # "idle" => KeyAt(v) \in Keys
  BY KeyTypes DEF StampedeInv, TypeOK
<1>10. FilesInv'
  <2> SUFFICES ASSUME NEW j \in Keys
               PROVE  \/ files'[j] = j[2]
                      \/ files'[j] = Absent /\ uploads'[j] = 0
                      \/ files'[j] = Torn /\ ~AtomicPut /\ \E v \in Workers : Writes(v, j)'
                      \/ files'[j] = Cut /\ ~AtomicPut /\ crashes' > 0
    BY <1>6 DEF FilesInv
  <2>1. ASSUME NEW v \in Workers, Writes(v, j) PROVE Writes(v, j)'
    BY <1>1, <1>3, <1>4, <2>1 DEF Writes
  <2>2. CASE j # k
    BY <1>1, <1>7, <2>1, <2>2 DEF StoredInv, FilesInv
  <2>3. CASE j = k
    <3>1. ~AtomicPut => Writes(w, k)'
      BY <1>0, <1>3, <1>5 DEF Writes
    <3> QED BY <1>7, <2>3, <3>1
  <2> QED BY <2>2, <2>3
<1>11. UploadsInv'
  <2>1. \A v \in Workers : pc'[v] = "write" => ~AtomicPut
    BY <1>4, <1>5 DEF StoredInv, UploadsInv
  <2>2. ASSUME NEW v \in Workers, Uploads(v)' PROVE uploads'[KeyAt(v)] > 0
    <3>1. CASE v = w
      BY <1>0, <1>2, <1>8, <3>1
    <3>2. CASE v # w
      <4>1. Uploads(v) /\ KeyAt(v) \in Keys
        BY <1>4, <1>9, <2>2, <3>2 DEF Uploads
      <4>2. uploads[KeyAt(v)] > 0
        BY <4>1 DEF StoredInv, UploadsInv
      <4> QED BY <1>8, <4>1, <4>2
    <3> QED BY <3>1, <3>2
  <2>3. ASSUME NEW j \in registered PROVE uploads'[j] > 0
    <3>1. uploads[j] > 0 /\ j \in Keys
      BY <1>9 DEF StoredInv, UploadsInv
    <3> QED BY <1>8, <3>1
  <2>4. ASSUME NEW u \in Workers, NEW v \in Workers, u # v, Uploads(u)', Uploads(v)',
               KeyAt(u) = KeyAt(v)
        PROVE  uploads'[KeyAt(v)] > 1
    <3>1. CASE u # w /\ v # w
      <4>1. Uploads(u) /\ Uploads(v) /\ KeyAt(v) \in Keys
        BY <1>4, <1>9, <2>4, <3>1 DEF Uploads
      <4>2. uploads[KeyAt(v)] > 1
        BY <2>4, <4>1 DEF StoredInv, UploadsInv
      <4> QED BY <1>8, <4>1, <4>2
    <3>2. CASE u = w \/ v = w
      <4>1. PICK x \in {u, v} : x # w
        BY <2>4, <3>2
      <4>2. Uploads(x) /\ KeyAt(x) = k
        BY <1>0, <1>4, <2>4, <3>2, <4>1 DEF Uploads
      <4>3. uploads[k] > 0
        BY <4>1, <4>2 DEF StoredInv, UploadsInv
      <4>4. KeyAt(v) = k
        BY <1>0, <2>4, <3>2
      <4> QED BY <1>2, <1>8, <4>3, <4>4
    <3> QED BY <3>1, <3>2
  <2> QED BY <1>1, <1>3, <1>6, <2>1, <2>2, <2>3, <2>4 DEF UploadsInv
<1>12. \A j \in Keys : Shared(j) => Shared(j)'
  BY <1>2, <1>8 DEF Shared
<1>13. OthersInv'
  <2>1. \A v \in Workers : pc'[v] \in {"build", "put", "write"} /\ KeyAt(v) \in registered =>
          deployment.workers > 1
    BY <1>1, <1>4, <1>5 DEF StoredInv, OthersInv
  <2>2. ASSUME NEW v \in Workers, pc'[v] = "write", files'[KeyAt(v)] = Cut
        PROVE  Shared(KeyAt(v))'
    <3>1. CASE KeyAt(v) = k
      <4>1. v = w \/ (v # w /\ pc[v] = "write")
        BY <1>4, <2>2
      <4>2. ~AtomicPut
        BY <1>5, <2>2, <4>1 DEF StoredInv, UploadsInv
      <4> QED BY <1>7, <2>2, <3>1, <4>2 DEF Torn, Cut
    <3>2. CASE KeyAt(v) # k
      <4>1. v # w /\ pc[v] = "write" /\ KeyAt(v) \in Keys
        BY <1>0, <1>4, <1>9, <2>2, <3>2
      <4>2. Shared(KeyAt(v))
        BY <1>7, <2>2, <3>2, <4>1 DEF StoredInv, OthersInv
      <4> QED BY <1>12, <4>1, <4>2, <1>3 DEF Shared
    <3> QED BY <3>1, <3>2
  <2>3. \A v \in Workers : Shared(KeyAt(v))' <=> (deployment'.workers > 1 /\ uploads'[KeyAt(v)] > 1)
    BY <1>3 DEF Shared
  <2> QED BY <1>1, <1>3, <2>1, <2>2 DEF OthersInv
<1>14. ASSUME NEW j \in Keys, Fine(j), j = k => Shared(k)' PROVE Fine(j)'
  BY <1>7, <1>12, <1>14 DEF Fine
<1>15. FineInv'
  <2>1. ASSUME NEW j \in registered PROVE Fine(j)'
    <3>1. Fine(j) /\ j \in Keys /\ uploads[j] > 0
      BY <1>9 DEF StoredInv, FineInv, UploadsInv
    <3>2. j = k => deployment.workers > 1
      BY <1>0, <1>1 DEF StoredInv, OthersInv
    <3>3. j = k => Shared(k)'
      BY <1>2, <1>8, <3>1, <3>2 DEF Shared
    <3> QED BY <1>14, <3>1, <3>3
  <2>2. ASSUME NEW v \in Workers, pc'[v] = "register" PROVE Fine(KeyAt(v))'
    <3>1. CASE v = w
      <4>1. AtomicPut /\ KeyAt(v) = k
        BY <1>0, <1>5, <2>2, <3>1
      <4> QED BY <1>3, <1>7, <4>1 DEF Fine
    <3>2. CASE v # w
      <4>1. pc[v] = "register" /\ KeyAt(v) \in Keys
        BY <1>4, <1>9, <2>2, <3>2
      <4>2. Fine(KeyAt(v)) /\ uploads[KeyAt(v)] > 0
        BY <4>1 DEF StoredInv, FineInv, UploadsInv, Uploads
      <4>3. deployment.workers > 1
        BY <1>1, <3>2, <4>1, TwoBusy
      <4>4. KeyAt(v) = k => Shared(k)'
        BY <1>2, <1>8, <4>2, <4>3 DEF Shared
      <4>5. PICK j \in Keys : j = KeyAt(v)
        BY <4>1
      <4>6. Fine(j)'
        BY <1>14, <4>2, <4>4, <4>5
      <4> QED BY <1>3, <4>5, <4>6 DEF Fine, Shared
    <3> QED BY <3>1, <3>2
  <2> QED BY <1>1, <2>1, <2>2 DEF FineInv
<1> QED BY <1>10, <1>11, <1>13, <1>15 DEF StoredInv

\* The worker has written: the object is whole, or another truncated it meanwhile.
LEMMA WriteStores ==
  ASSUME StampedeInv, StoredInv, NEW w \in Workers, Write(w), UNCHANGED deployment
  PROVE  StoredInv'
<1>0. PICK k : k = KeyAt(w)
  OBVIOUS
<1>1. /\ pc[w] = "write" /\ pc' = [pc EXCEPT ![w] = "register"]
      /\ UNCHANGED <<registered, uploads, callers, task, crashes>>
  BY DEF Write, Step
<1>2. \/ files' = [files EXCEPT ![k] = version[task[w].call]]
      \/ /\ files[k] = Cut \/ \E v \in Workers \ {w} : Writes(v, k)
         /\ UNCHANGED files
  BY <1>0 DEF Write, Store
<1>3. k \in Keys /\ k[2] = version[task[w].call]
  BY <1>0, <1>1, KeyTypes DEF StampedeInv
<1>4. \A v \in Workers : KeyAt(v)' = KeyAt(v)
  BY <1>1 DEF KeyAt, Key, callers
<1>5. /\ \A v \in Workers \ {w} : pc'[v] = pc[v]
      /\ pc'[w] = "register"
  BY <1>1 DEF StampedeInv, TypeOK
<1>6. (AtomicPut' <=> AtomicPut) /\ \A j : Shared(j)' <=> Shared(j)
  BY <1>1 DEF AtomicPut, Shared
<1>7. \A v \in Workers : Uploads(v)' <=> Uploads(v)
  BY <1>1, <1>5 DEF Uploads
<1>8. /\ registered \subseteq Keys
      /\ \A v \in Workers : pc[v] # "idle" => KeyAt(v) \in Keys
  BY KeyTypes DEF StampedeInv, TypeOK
<1>9. /\ \A j \in Keys : files'[j] = files[j] \/ (j = k /\ files'[j] = k[2])
      /\ files'[k] = k[2] \/ files[k] = Cut \/ \E v \in Workers \ {w} : Writes(v, k)
  BY <1>2, <1>3 DEF StampedeInv, TypeOK
<1>10. FilesInv'
  <2>1. ASSUME NEW j \in Keys, files'[j] = Torn, j # k \/ files'[j] # k[2]
        PROVE  ~AtomicPut /\ \E v \in Workers : Writes(v, j)' \/ files'[j] = j[2]
    <3>1. files[j] = Torn
      BY <1>9, <2>1
    <3>2. CASE files[j] = j[2]
      BY <1>9, <2>1, <3>1, <3>2, <1>1 DEF StoredInv, UploadsInv
    <3>3. CASE ~AtomicPut /\ \E v \in Workers : Writes(v, j)
      <4>1. \E v \in Workers \ {w} : Writes(v, j)
        BY <1>0, <1>9, <2>1, <3>1, <3>3 DEF Writes, Torn, Cut
      <4> QED BY <1>4, <1>5, <3>3, <4>1 DEF Writes
    <3> QED BY <3>1, <3>2, <3>3 DEF StoredInv, FilesInv, Absent, Torn, Cut
  <2>2. ASSUME NEW j \in Keys
        PROVE  \/ files'[j] = j[2]
               \/ files'[j] = Absent /\ uploads'[j] = 0
               \/ files'[j] = Torn /\ ~AtomicPut /\ \E v \in Workers : Writes(v, j)'
               \/ files'[j] = Cut /\ ~AtomicPut /\ crashes' > 0
    <3>1. CASE files'[j] = Torn /\ (j # k \/ files'[j] # k[2])
      BY <2>1, <3>1 DEF Torn, Absent
    <3>2. CASE files'[j] # Torn \/ (j = k /\ files'[j] = k[2])
      BY <1>1, <1>9, <3>2 DEF StoredInv, FilesInv
    <3> QED BY <3>1, <3>2
  <2> QED BY <1>6, <2>2 DEF FilesInv
<1>11. UploadsInv'
  <2>1. \A v \in Workers : pc'[v] = "write" => pc[v] = "write"
    BY <1>5
  <2> QED BY <1>1, <1>4, <1>6, <1>7, <2>1 DEF StoredInv, UploadsInv
<1>12. OthersInv'
  <2>1. \A v \in Workers : pc'[v] \in {"build", "put", "write"} => pc'[v] = pc[v]
    BY <1>5
  <2>2. ASSUME NEW v \in Workers, pc'[v] = "write", files'[KeyAt(v)] = Cut
        PROVE  Shared(KeyAt(v))
    <3>1. pc[v] = "write" /\ v # w /\ KeyAt(v) \in Keys
      BY <1>5, <1>8, <2>2
    <3>2. CASE KeyAt(v) = k
      <4>1. deployment.workers > 1
        BY <1>1, <3>1, TwoBusy
      <4>2. uploads[KeyAt(v)] > 1
        BY <1>0, <1>1, <3>1, <3>2 DEF StoredInv, UploadsInv, Uploads
      <4> QED BY <4>1, <4>2 DEF Shared
    <3>3. CASE KeyAt(v) # k
      BY <1>9, <2>2, <3>1, <3>3 DEF StoredInv, OthersInv
    <3> QED BY <3>2, <3>3
  <2> QED BY <1>1, <1>4, <1>6, <2>1, <2>2 DEF StoredInv, OthersInv, Shared
<1>13. ASSUME NEW j \in Keys, Fine(j) PROVE Fine(j)'
  BY <1>6, <1>9, <1>13 DEF Fine
<1>14. Fine(k)'
  <2>1. CASE files'[k] = k[2]
    BY <1>4, <2>1 DEF Fine
  <2>2. CASE files[k] = Cut /\ files'[k] = files[k]
    <3>1. Shared(k)
      BY <1>0, <1>1, <2>2 DEF StoredInv, OthersInv
    <3> QED BY <1>6, <2>2, <3>1 DEF Fine
  <2>3. ASSUME NEW v \in Workers \ {w}, Writes(v, k), files'[k] = files[k] PROVE Fine(k)'
    <3>1. pc[v] = "write" /\ KeyAt(v) = k
      BY <2>3 DEF Writes
    <3>2. deployment.workers > 1
      BY <1>1, <3>1, TwoBusy
    <3>3. uploads[k] > 1
      BY <1>0, <1>1, <3>1 DEF StoredInv, UploadsInv, Uploads
    <3>4. Shared(k)'
      BY <1>6, <3>2, <3>3 DEF Shared
    <3>5. files[k] \in {k[2], Torn, Cut}
      BY <1>3, <3>3 DEF StoredInv, FilesInv
    <3> QED BY <2>3, <3>4, <3>5 DEF Fine
  <2>4. files'[k] = k[2] \/ files'[k] = files[k]
    BY <1>3, <1>9
  <2>5. files'[k] = k[2] \/ files[k] = Cut \/ \E v \in Workers \ {w} : Writes(v, k)
    BY <1>9
  <2> QED BY <2>1, <2>2, <2>3, <2>4, <2>5
<1>15. FineInv'
  <2>1. \A v \in Workers : pc'[v] = "register" => v = w \/ pc[v] = "register"
    BY <1>5
  <2>2. ASSUME NEW v \in Workers, pc'[v] = "register" PROVE Fine(KeyAt(v))'
    <3>1. PICK j \in Keys : j = KeyAt(v)
      BY <1>1, <1>8, <2>1, <2>2
    <3>2. Fine(j)'
      BY <1>0, <1>13, <1>14, <2>1, <2>2, <3>1 DEF StoredInv, FineInv
    <3> QED BY <1>4, <3>1, <3>2 DEF Fine, Shared
  <2> QED BY <1>1, <1>8, <1>13, <2>2 DEF StoredInv, FineInv
<1> QED BY <1>10, <1>11, <1>12, <1>15 DEF StoredInv

LEMMA RegisterStores ==
  ASSUME StampedeInv, StoredInv, NEW w \in Workers, Register(w), UNCHANGED deployment
  PROVE  StoredInv'
<1>1. /\ pc[w] = "register" /\ pc' = [pc EXCEPT ![w] = "answer"]
      /\ registered' = registered \cup {KeyAt(w)}
      /\ UNCHANGED <<files, uploads, callers, task, crashes>>
  BY DEF Register, Step
<1>2. \A v \in Workers : KeyAt(v)' = KeyAt(v)
  BY <1>1 DEF KeyAt, Key, callers
<1>3. /\ \A v \in Workers \ {w} : pc'[v] = pc[v]
      /\ pc'[w] = "answer"
  BY <1>1 DEF StampedeInv, TypeOK
<1>4. (AtomicPut' <=> AtomicPut) /\ \A j : (Shared(j)' <=> Shared(j)) /\ (Fine(j)' <=> Fine(j))
  BY <1>1 DEF AtomicPut, Shared, Fine
<1>5. FilesInv'
  <2>1. \A v \in Workers, k \in Keys : Writes(v, k) => Writes(v, k)'
    BY <1>1, <1>2, <1>3 DEF Writes
  <2> QED BY <1>1, <1>4, <2>1 DEF StoredInv, FilesInv
<1>6. \A v \in Workers : Uploads(v)' => Uploads(v)
  BY <1>1, <1>3 DEF Uploads
<1>7. UploadsInv'
  <2>1. \A v \in Workers : pc'[v] = "write" => pc[v] = "write"
    BY <1>3
  <2>2. Uploads(w)
    BY <1>1 DEF Uploads
  <2> QED BY <1>1, <1>2, <1>4, <1>6, <2>1, <2>2 DEF StoredInv, UploadsInv
<1>8. OthersInv'
  <2>1. ASSUME NEW v \in Workers, pc'[v] \in {"build", "put", "write"}, KeyAt(v) \in registered'
        PROVE  deployment.workers > 1
    <3>1. v # w /\ pc[v] = pc'[v]
      BY <1>3, <2>1
    <3>2. CASE KeyAt(v) \in registered
      BY <2>1, <3>1, <3>2 DEF StoredInv, OthersInv
    <3>3. CASE KeyAt(v) \notin registered
      BY <1>1, <2>1, <3>1, TwoBusy
    <3> QED BY <3>2, <3>3
  <2>2. \A v \in Workers : pc'[v] = "write" /\ files[KeyAt(v)] = Cut => Shared(KeyAt(v))
    BY <1>3 DEF StoredInv, OthersInv
  <2> QED BY <1>1, <1>2, <1>4, <2>1, <2>2 DEF OthersInv, Shared
<1>9. FineInv'
  <2>1. ASSUME NEW j \in registered' PROVE Fine(j)
    BY <1>1 DEF StoredInv, FineInv
  <2>2. ASSUME NEW v \in Workers, pc'[v] = "register" PROVE Fine(KeyAt(v))
    BY <1>3, <2>2 DEF StoredInv, FineInv
  <2> QED BY <1>1, <1>2, <1>4, <2>1, <2>2 DEF FineInv, Fine, Shared
<1> QED BY <1>5, <1>7, <1>8, <1>9 DEF StoredInv

LEMMA CrashStores ==
  ASSUME StampedeInv, StoredInv, NEW w \in Workers, Crash(w), UNCHANGED deployment
  PROVE  StoredInv'
<1>0. PICK k : k = KeyAt(w)
  OBVIOUS
<1>1. /\ pc[w] # "idle" /\ pc' = [pc EXCEPT ![w] = "idle"]
      /\ task' = [task EXCEPT ![w] = None]
      /\ crashes' = crashes + 1
      /\ IF pc[w] = "write" /\ files[k] = Torn
            THEN files' = [files EXCEPT ![k] = Cut] ELSE UNCHANGED files
      /\ UNCHANGED <<registered, uploads, callers>>
  BY <1>0 DEF Crash, Drop, Store
<1>2. k \in Keys /\ crashes' > 0
  BY <1>0, <1>1, KeyTypes DEF StampedeInv, TypeOK
<1>3. /\ \A v \in Workers \ {w} : pc'[v] = pc[v] /\ KeyAt(v)' = KeyAt(v)
      /\ pc'[w] = "idle"
  BY <1>1 DEF StampedeInv, TypeOK, KeyAt, Key, callers
<1>4. (AtomicPut' <=> AtomicPut) /\ \A j : Shared(j)' <=> Shared(j)
  BY <1>1 DEF AtomicPut, Shared
<1>5. /\ registered \subseteq Keys
      /\ \A v \in Workers : pc[v] # "idle" => KeyAt(v) \in Keys
  BY KeyTypes DEF StampedeInv, TypeOK
<1>6. /\ \A j \in Keys : \/ files'[j] = files[j]
                         \/ j = k /\ pc[w] = "write" /\ files[j] = Torn /\ files'[j] = Cut
      /\ pc[w] = "write" => files'[k] # Torn
  BY <1>1, <1>2 DEF StampedeInv, TypeOK, Torn, Cut
<1>7. FilesInv'
  <2>1. ASSUME NEW j \in Keys, files[j] = Torn, files'[j] = Torn,
               NEW v \in Workers, Writes(v, j)
        PROVE  Writes(v, j)'
    <3>1. v # w
      BY <1>0, <1>6, <2>1 DEF Writes
    <3> QED BY <1>3, <2>1, <3>1 DEF Writes
  <2>2. pc[w] = "write" => ~AtomicPut
    BY DEF StoredInv, UploadsInv
  <2>3. ASSUME NEW j \in Keys
        PROVE  \/ files'[j] = j[2]
               \/ files'[j] = Absent /\ uploads'[j] = 0
               \/ files'[j] = Torn /\ ~AtomicPut /\ \E v \in Workers : Writes(v, j)'
               \/ files'[j] = Cut /\ ~AtomicPut /\ crashes' > 0
    <3>1. CASE files'[j] = files[j]
      <4>1. uploads' = uploads
        BY <1>1
      <4> QED BY <1>2, <2>1, <3>1, <4>1 DEF StoredInv, FilesInv
    <3>2. CASE pc[w] = "write" /\ files'[j] = Cut
      BY <1>2, <2>2, <3>2
    <3> QED BY <1>6, <3>1, <3>2
  <2> QED BY <1>4, <2>3 DEF FilesInv
<1>8. \A v \in Workers : pc'[v] # "idle" => v # w /\ pc[v] = pc'[v] /\ KeyAt(v)' = KeyAt(v)
  BY <1>3
<1>9. \A v \in Workers : Uploads(v)' => Uploads(v) /\ KeyAt(v)' = KeyAt(v)
  BY <1>8 DEF Uploads
<1>10. UploadsInv'
  <2>1. \A v \in Workers : pc'[v] = "write" => pc[v] = "write"
    BY <1>8
  <2> QED BY <1>1, <1>4, <1>9, <2>1 DEF StoredInv, UploadsInv
<1>11. OthersInv'
  <2>1. \A v \in Workers : pc'[v] \in {"build", "put", "write"} =>
           pc[v] = pc'[v] /\ KeyAt(v)' = KeyAt(v)
    BY <1>8
  <2>2. ASSUME NEW v \in Workers, pc'[v] = "write", files'[KeyAt(v)] = Cut
        PROVE  Shared(KeyAt(v))
    <3>1. v # w /\ pc[v] = "write" /\ KeyAt(v) \in Keys
      BY <1>5, <1>8, <2>2
    <3>2. CASE files[KeyAt(v)] = Cut
      BY <3>1, <3>2 DEF StoredInv, OthersInv
    <3>3. CASE files[KeyAt(v)] # Cut
      <4>1. KeyAt(v) = k /\ pc[w] = "write"
        BY <1>6, <2>2, <3>1, <3>3
      <4>2. deployment.workers > 1
        BY <3>1, <4>1, TwoBusy
      <4>3. uploads[KeyAt(v)] > 1
        BY <1>0, <3>1, <4>1 DEF StoredInv, UploadsInv, Uploads
      <4> QED BY <4>2, <4>3 DEF Shared
    <3> QED BY <3>2, <3>3
  <2>3. ASSUME NEW v \in Workers, pc'[v] = "write", files'[KeyAt(v)'] = Cut
        PROVE  Shared(KeyAt(v))'
    BY <1>1, <2>1, <2>2, <2>3 DEF Shared
  <2> QED BY <1>1, <2>1, <2>3 DEF StoredInv, OthersInv
<1>12. ASSUME NEW j \in Keys, Fine(j) PROVE Fine(j)'
  <2>1. CASE files'[j] = files[j]
    BY <1>4, <1>12, <2>1 DEF Fine
  <2>2. CASE files[j] = Torn /\ files'[j] = Cut
    <3>1. j[2] # Torn
      BY ObjectsAssumption DEF Keys
    <3> QED BY <1>4, <1>12, <2>2, <3>1 DEF Fine
  <2> QED BY <1>6, <2>1, <2>2
<1>13. FineInv'
  <2>1. ASSUME NEW v \in Workers, pc'[v] = "register" PROVE Fine(KeyAt(v))'
    <3>1. pc[v] = "register" /\ KeyAt(v)' = KeyAt(v)
      BY <1>8, <2>1
    <3>2. PICK j \in Keys : j = KeyAt(v)
      BY <1>5, <3>1
    <3>3. Fine(j)'
      BY <1>12, <3>1, <3>2 DEF StoredInv, FineInv
    <3> QED BY <3>1, <3>2, <3>3 DEF Fine, Shared
  <2> QED BY <1>1, <1>5, <1>12, <2>1 DEF StoredInv, FineInv
<1> QED BY <1>7, <1>10, <1>11, <1>13 DEF StoredInv

\* The other steps of a worker neither store nor register.
LEMMA WorkerStores ==
  ASSUME StampedeInv, StoredInv, NEW w \in Workers, Worker(w), UNCHANGED deployment
  PROVE  StoredInv'
<1>1. CASE Put(w) \/ Write(w) \/ Register(w) \/ Crash(w)
  BY <1>1, PutStores, WriteStores, RegisterStores, CrashStores
<1>2. CASE (\E m \in queue : Take(w, m)) \/ Find(w) \/ Build(w) \/ Refuse(w) \/ Answer(w)
  <2>1. UNCHANGED <<files, registered, uploads, crashes, version>>
    BY <1>2 DEF Take, Find, Build, Refuse, Answer, table, callers
  <2>2. w \in DOMAIN pc
    BY DEF StampedeInv, TypeOK
  <2>3. \/ pc[w] \notin {"write", "register"} /\ pc'[w] \in {"idle", "find", "answer"}
        \/ pc[w] = "find" /\ pc'[w] = "build" /\ KeyAt(w) \notin registered
        \/ pc[w] = "build" /\ pc'[w] = "put"
    BY <1>2, <2>2 DEF Take, Find, Build, Refuse, Answer, Step, Drop
  <2>4. /\ \A v \in Workers \ {w} : pc'[v] = pc[v] /\ KeyAt(v)' = KeyAt(v)
        /\ pc[w] # "idle" /\ pc'[w] # "idle" => KeyAt(w)' = KeyAt(w)
    BY WorkerMoves DEF StampedeInv
  <2> QED BY <2>1, <2>3, <2>4, StorageStays
<1> QED BY <1>1, <1>2 DEF Worker

\* A worker answers what is registered, and nothing is ever taken off the table.
LEMMA WorkerAnswers ==
  ASSUME TypeOK, AnswersInv, NEW w \in Workers, Worker(w)
  PROVE  AnswersInv'
<1>1. UNCHANGED <<version, wanted, state>> /\ registered \subseteq registered'
  BY DEF Worker, Take, Find, Build, Refuse, Put, Write, Register, Answer, Crash, table, callers
<1>2. /\ \A v \in Workers \ {w} : pc'[v] = pc[v] /\ KeyAt(v)' = KeyAt(v)
      /\ pc[w] # "idle" /\ pc'[w] # "idle" => KeyAt(w)' = KeyAt(w)
  BY WorkerMoves
<1>3. pc'[w] = "answer" => pc[w] # "idle" /\ KeyAt(w) \in registered'
  <2>1. w \in DOMAIN pc
    BY DEF TypeOK
  <2> QED
    BY <2>1
       DEF Worker, Take, Find, Build, Refuse, Put, Write, Register, Answer, Crash, Step, Drop, table
<1>4. answers' = answers \/ (pc[w] = "answer" /\ answers' = answers \cup {task[w]})
  BY DEF Worker, Take, Find, Build, Refuse, Put, Write, Register, Answer, Crash
<1>5. \A v \in Workers : pc'[v] = "answer" => KeyAt(v)' \in registered'
  BY <1>1, <1>2, <1>3 DEF AnswersInv
<1>6. \A m \in answers' : Key(m.tile, version[m.call]) \in registered'
  BY <1>1, <1>4 DEF AnswersInv, KeyAt
<1> QED BY <1>1, <1>5, <1>6 DEF AnswersInv, Key

\* A call is served when all its tasks have answered.
LEMMA CallKeeps ==
  ASSUME StampedeInv, StoredInv, AnswersInv, NEW c \in Calls, Caller(c), UNCHANGED deployment
  PROVE  StoredInv' /\ AnswersInv'
<1>1. UNCHANGED <<files, registered, uploads, answers, version, pc, task, crashes>>
  BY DEF Caller, Request, Collect, Raise, TimeOut, EndCall, table
<1>2. \A w \in Workers : KeyAt(w)' = KeyAt(w)
  BY <1>1 DEF KeyAt, Key
<1>3. StoredInv'
  BY <1>1, <1>2, StorageStays
<1>4. ASSUME NEW T \in SUBSET Tiles, Request(c, T) PROVE AnswersInv'
  <2>1. \A d \in Calls : state'[d] = "served" =>
          \/ d # c /\ state[d] = "served" /\ wanted'[d] = wanted[d]
          \/ wanted'[d] = {}
    BY <1>4 DEF Request, StampedeInv, TypeOK
  <2> QED BY <1>1, <1>2, <2>1 DEF AnswersInv, Key
<1>5. ASSUME NEW s \in {"served", "failed", "late"}, EndCall(c, s),
             s = "served" => [call : {c}, tile : wanted[c]] \subseteq answers
      PROVE  AnswersInv'
  <2>1. ASSUME s = "served", NEW t \in wanted[c] PROVE Key(t, version[c]) \in registered
    <3>1. [call |-> c, tile |-> t] \in answers
      BY <1>5, <2>1
    <3> QED BY <3>1 DEF AnswersInv
  <2>2. \A d \in Calls : state'[d] = "served" => state[d] = "served" \/ (d = c /\ s = "served")
    BY <1>5 DEF EndCall, StampedeInv, TypeOK
  <2>3. UNCHANGED wanted
    BY <1>5 DEF EndCall
  <2> QED BY <1>1, <1>2, <2>1, <2>2, <2>3 DEF AnswersInv, Key
<1> QED BY <1>3, <1>4, <1>5 DEF Caller, Collect, Raise, TimeOut

LEMMA StoredStep == StampedeInv /\ StoredInv /\ AnswersInv /\ [Next]_vars => StoredInv' /\ AnswersInv'
<1> SUFFICES ASSUME StampedeInv, StoredInv, AnswersInv, [Next]_vars
             PROVE  StoredInv' /\ AnswersInv'
  OBVIOUS
<1>1. CASE UNCHANGED vars
  <2>1. UNCHANGED <<files, registered, uploads, answers, version, wanted, state, pc, task, crashes, deployment>>
    BY <1>1 DEF vars, table, callers
  <2>2. \A w \in Workers : KeyAt(w)' = KeyAt(w)
    BY <2>1 DEF KeyAt, Key
  <2>3. StoredInv'
    BY <2>1, <2>2, StorageStays
  <2>4. AnswersInv'
    BY <2>1, <2>2 DEF AnswersInv, Key
  <2> QED BY <2>3, <2>4
<1>2. ASSUME NEW c \in Calls, Caller(c), UNCHANGED deployment PROVE StoredInv' /\ AnswersInv'
  BY <1>2, CallKeeps
<1>3. ASSUME NEW w \in Workers, Worker(w), UNCHANGED deployment PROVE StoredInv' /\ AnswersInv'
  BY <1>3, WorkerStores, WorkerAnswers DEF StampedeInv
<1> QED BY <1>1, <1>2, <1>3 DEF Next

\* What is fine and not whole was rewritten.
LEMMA FineOrRewritten ==
  ASSUME StampedeInv, StoredInv
  PROVE  \A k \in registered : files[k] = k[2] \/ Rewritten(k)
<1> SUFFICES ASSUME NEW k \in registered, files[k] # k[2] PROVE Rewritten(k)
  OBVIOUS
<1>1. k \in Keys
  BY DEF StampedeInv, TypeOK
<1>2. files[k] \in {Torn, Cut} /\ Shared(k)
  BY DEF StoredInv, FineInv, Fine
<1>3. \/ files[k] = Torn /\ ~AtomicPut /\ \E w \in Workers : Writes(w, k)
      \/ files[k] = Cut /\ ~AtomicPut /\ crashes > 0
  BY <1>1, <1>2 DEF StoredInv, FilesInv, Absent, Torn, Cut
<1> QED BY <1>2, <1>3 DEF Rewritten, Shared

LEMMA StoredAlways == Spec => [](StampedeInv /\ StoredInv /\ AnswersInv)
BY StampedeInit, StampedeStep, StoredInit, StoredStep, PTL DEF Spec

\* A call that returned has every tile for its own version and keeps it
\* (load_terrain_tiles), in any storage and with any number of workers; a tile is torn
\* only while, or because, workers of a file storage that built it together rewrite it.
THEOREM CacheIsSound == Spec => []ServedIsRequested
<1>1. StampedeInv /\ StoredInv /\ AnswersInv => ServedIsRequested
  <2> SUFFICES ASSUME StampedeInv, StoredInv, AnswersInv,
                      NEW c \in Calls, state[c] = "served", NEW t \in wanted[c]
               PROVE  \/ files[Key(t, version[c])] = version[c]
                      \/ Rewritten(Key(t, version[c]))
    BY DEF ServedIsRequested
  <2>1. Key(t, version[c]) \in registered /\ Key(t, version[c])[2] = version[c]
    BY DEF AnswersInv, Key
  <2> QED BY <2>1, FineOrRewritten
<1> QED BY <1>1, StoredAlways, PTL

\* What is registered is a whole object of the version in its key, so that
\* find_cached_tile returns nothing else, in any storage and with any number of workers;
\* with the same exception.
THEOREM CacheIsWhole == Spec => []RegisteredIsWhole
<1>1. StampedeInv /\ StoredInv /\ AnswersInv => RegisteredIsWhole
  BY FineOrRewritten DEF RegisteredIsWhole
<1> QED BY <1>1, StoredAlways, PTL
=============================================================================
