------------------------------ MODULE TileCache ------------------------------
(***************************************************************************)
(* The cache of terrain tiles: the Celery task that builds a tile or finds *)
(* it (tasks/tile_tasks.py), the table tile_cache (tiling/cache.py), the   *)
(* object storage the tile is put into (storage.py) and the callers of     *)
(* generate_terrain_tiles_parallel, who wait for a group of such tasks.     *)
(*                                                                         *)
(* A tile's key is its place, its layer and the versions of data and       *)
(* generator; the layer is always terrain and the two versions are one     *)
(* value here.  The raster a caller names is the one of its data version.   *)
(* MinIO replaces an object at once; FileSystemObjectStorage truncates the *)
(* file (Path.write_bytes) and then fills it: AtomicPut tells them apart.  *)
(* Which storage it is and how many workers there are is the deployment:   *)
(* get_storage returns the file storage today (tasks/pipeline_tasks.py);    *)
(* its comment and docs/api.md name MinIO as the one of production.         *)
(***************************************************************************)
EXTENDS Naturals, FiniteSets

CONSTANTS
  Tiles,       \* squares of the grid
  Uncovered,   \* those the relief does not cover: build_tile_terrain raises
  Versions,    \* data version and generator version
  Workers,     \* Celery worker processes
  Calls,       \* calls of generate_terrain_tiles_parallel
  Deployments, \* sets [atomic, workers]: upload replaces an object at once; workers at a time
  MaxCrashes   \* bound of the model: workers killed

ASSUME TilesAssumption == Uncovered \subseteq Tiles
ASSUME FiniteAssumption == IsFiniteSet(Workers)
ASSUME DeploymentsAssumption == Deployments \subseteq [atomic : BOOLEAN, workers : Nat]

VARIABLES
  files,       \* per key, the object in the storage
  registered,  \* the keys of the rows of tile_cache
  queue,       \* the messages in the broker
  answers,     \* the tasks whose storage key is in the result backend
  errors,      \* the tasks whose exception is in the result backend
  wanted,      \* per call, its tiles
  version,     \* per call, its version
  state,       \* per call, how far it is
  pc,          \* per worker, what it is about to do
  task,        \* per worker, the message it took
  uploads,     \* per key, how often an upload of it began
  crashes,     \* workers killed
  deployment   \* as the program was installed

table == <<files, registered, uploads>>
callers == <<wanted, version, state>>
vars == <<table, queue, answers, errors, callers, pc, task, crashes, deployment>>

AtomicPut == deployment.atomic

Tasks == [call : Calls, tile : Tiles]

\* Not a message.
None == [call |-> {}, tile |-> {}]

ASSUME NoneAssumption == None \notin Tasks

\* TileIndex.key.
Key(t, v) == <<t, v>>

Keys == Tiles \X Versions

\* An object is what its bytes were built from; a torn one is a file that was
\* truncated and not filled yet, a cut one a file that a worker truncated and left.
Absent == "absent"
Torn == "torn"
Cut == "cut"

ASSUME ObjectsAssumption == Versions \cap {Absent, Torn, Cut} = {}

\* The invariant of the types; an idle worker has no message.
TypeOK ==
  /\ files \in [Keys -> Versions \cup {Absent, Torn, Cut}]
  /\ registered \subseteq Keys
  /\ queue \subseteq Tasks /\ answers \subseteq Tasks /\ errors \subseteq Tasks
  /\ wanted \in [Calls -> SUBSET Tiles]
  /\ version \in [Calls -> Versions]
  /\ state \in [Calls -> {"new", "waiting", "served", "failed", "late"}]
  /\ pc \in [Workers -> {"idle", "find", "build", "put", "write", "register", "answer"}]
  /\ task \in [Workers -> Tasks \cup {None}]
  /\ \A w \in Workers : pc[w] = "idle" <=> task[w] = None
  /\ uploads \in [Keys -> Nat]
  /\ crashes \in Nat

Init ==
  /\ files = [k \in Keys |-> Absent]
  /\ registered = {}
  /\ queue = {} /\ answers = {} /\ errors = {}
  /\ wanted = [c \in Calls |-> {}]
  /\ version \in [Calls -> Versions]
  /\ state = [c \in Calls |-> "new"]
  /\ pc = [w \in Workers |-> "idle"]
  /\ task = [w \in Workers |-> None]
  /\ uploads = [k \in Keys |-> 0]
  /\ crashes = 0
  /\ deployment \in Deployments
-----------------------------------------------------------------------------
(* generate_terrain_tiles_parallel.                                        *)

\* group(...).apply_async(): an empty list returns at once.
Request(c, T) ==
  /\ state[c] = "new"
  /\ wanted' = [wanted EXCEPT ![c] = T]
  /\ state' = [state EXCEPT ![c] = IF T = {} THEN "served" ELSE "waiting"]
  /\ queue' = queue \cup [call : {c}, tile : T]
  /\ UNCHANGED <<table, answers, errors, version, pc, task, crashes>>

EndCall(c, s) ==
  /\ state[c] = "waiting"
  /\ state' = [state EXCEPT ![c] = s]
  /\ UNCHANGED <<table, queue, answers, errors, wanted, version, pc, task, crashes>>

\* Mutant: the call takes what is there.
CollectAny(c) == (\E m \in answers : m.call = c) /\ EndCall(c, "served")

\* get returns the results of all tasks.
Collect(c) == [call : {c}, tile : wanted[c]] \subseteq answers /\ EndCall(c, "served")

\* get raises the exception of a task.
Raise(c) == (\E m \in errors : m.call = c) /\ EndCall(c, "failed")

\* get raises TimeoutError; the tasks stay in the queue.
TimeOut(c) == EndCall(c, "late")
-----------------------------------------------------------------------------
(* generate_terrain_tile_task.                                             *)

KeyAt(w) == Key(task[w].tile, version[task[w].call])

Step(w, from, to) == pc[w] = from /\ pc' = [pc EXCEPT ![w] = to]

Drop(w) ==
  /\ pc' = [pc EXCEPT ![w] = "idle"]
  /\ task' = [task EXCEPT ![w] = None]

\* A worker takes a message, acknowledging it; there are as many as the deployment has.
Take(w, m) ==
  /\ Cardinality({v \in Workers : pc[v] # "idle"}) < deployment.workers
  /\ Step(w, "idle", "find")
  /\ queue' = queue \ {m}
  /\ task' = [task EXCEPT ![w] = m]
  /\ UNCHANGED <<table, answers, errors, callers, crashes>>

\* Mutant: the cache is not asked.
FindNothing(w) ==
  /\ Step(w, "find", "build")
  /\ UNCHANGED <<table, queue, answers, errors, callers, task, crashes>>

\* find_cached_tile: a tile that is registered is not built again.
Find(w) ==
  /\ Step(w, "find", IF KeyAt(w) \in registered THEN "answer" ELSE "build")
  /\ UNCHANGED <<table, queue, answers, errors, callers, task, crashes>>

\* Mutant: the tile is registered as soon as it is built.
BuildRegisters(w) ==
  /\ task[w].tile \notin Uncovered
  /\ Step(w, "build", "put")
  /\ registered' = registered \cup {KeyAt(w)}
  /\ UNCHANGED <<files, uploads, queue, answers, errors, callers, task, crashes>>

\* read_relief_from_storage and build_tile_terrain.
Build(w) ==
  /\ task[w].tile \notin Uncovered
  /\ Step(w, "build", "put")
  /\ UNCHANGED <<table, queue, answers, errors, callers, task, crashes>>

\* build_tile_terrain raises: fewer than three points have a height.
Refuse(w) ==
  /\ pc[w] = "build"
  /\ task[w].tile \in Uncovered
  /\ errors' = errors \cup {task[w]}
  /\ Drop(w)
  /\ UNCHANGED <<table, queue, answers, callers, crashes>>

\* The object at the worker's key becomes x.
Store(w, x) == files' = [files EXCEPT ![KeyAt(w)] = x]

CountUpload(w) == uploads' = [uploads EXCEPT ![KeyAt(w)] = @ + 1]

\* upload: the whole object, or the truncation of the file.
Put(w) ==
  /\ \/ AtomicPut /\ Step(w, "put", "register") /\ Store(w, version[task[w].call])
     \/ ~AtomicPut /\ Step(w, "put", "write") /\ Store(w, Torn)
  /\ CountUpload(w)
  /\ UNCHANGED <<registered, queue, answers, errors, callers, task, crashes>>

\* Worker w is filling the file of key k.
Writes(w, k) == pc[w] = "write" /\ KeyAt(w) = k

\* FileSystemObjectStorage.upload: the file is filled.  What this worker has written may
\* be gone if another truncated the file meanwhile: until that one has filled it, or for
\* good if that one was killed.
Write(w) ==
  /\ Step(w, "write", "register")
  /\ \/ Store(w, version[task[w].call])
     \/ /\ files[KeyAt(w)] = Cut \/ \E v \in Workers \ {w} : Writes(v, KeyAt(w))
        /\ UNCHANGED files
  /\ UNCHANGED <<registered, uploads, queue, answers, errors, callers, task, crashes>>

\* register_tile: INSERT ... ON CONFLICT DO UPDATE.
Register(w) ==
  /\ Step(w, "register", "answer")
  /\ registered' = registered \cup {KeyAt(w)}
  /\ UNCHANGED <<files, uploads, queue, answers, errors, callers, task, crashes>>

\* The task returns the storage key.
Answer(w) ==
  /\ pc[w] = "answer"
  /\ answers' = answers \cup {task[w]}
  /\ Drop(w)
  /\ UNCHANGED <<table, queue, errors, callers, crashes>>

\* A worker is killed; the message it took was acknowledged and is lost.
Crash(w) ==
  /\ pc[w] # "idle"
  /\ crashes < MaxCrashes
  /\ crashes' = crashes + 1
  /\ IF pc[w] = "write" /\ files[KeyAt(w)] = Torn THEN Store(w, Cut) ELSE UNCHANGED files
  /\ Drop(w)
  /\ UNCHANGED <<registered, uploads, queue, answers, errors, callers>>

Caller(c) ==
  \/ \E T \in SUBSET Tiles : Request(c, T)
  \/ Collect(c) \/ Raise(c) \/ TimeOut(c)

Worker(w) ==
  \/ \E m \in queue : Take(w, m)
  \/ Find(w) \/ Build(w) \/ Refuse(w) \/ Put(w) \/ Write(w)
  \/ Register(w) \/ Answer(w) \/ Crash(w)

Next ==
  /\ (\E c \in Calls : Caller(c)) \/ (\E w \in Workers : Worker(w))
  /\ UNCHANGED deployment

Spec == Init /\ [][Next]_vars
-----------------------------------------------------------------------------
\* The file was truncated once more after it was filled: two workers of a file storage
\* built the tile at the same time, and one of them still has to fill it or was killed.
Rewritten(k) ==
  /\ ~AtomicPut /\ deployment.workers > 1 /\ uploads[k] > 1
  /\ \/ files[k] = Torn /\ \E w \in Workers : Writes(w, k)
     \/ files[k] = Cut /\ crashes > 0

\* What find_cached_tile returns names a whole object of the version in its key.  Only a
\* file storage with several workers lets a reader see it torn, and only while a worker
\* that lost the race rewrites the same bytes, or for good if one was killed.
RegisteredIsWhole == \A k \in registered : files[k] = k[2] \/ Rewritten(k)

\* A call that returns has every tile it asked for, built for its own version, and
\* keeps it whatever other calls do; with the same exception.
ServedIsRequested ==
  \A c \in Calls : state[c] = "served" =>
    \A t \in wanted[c] : files[Key(t, version[c])] = version[c] \/ Rewritten(Key(t, version[c]))

\* Repeated and simultaneous calls do not multiply the work: a key is uploaded at most
\* once per worker, and once more per crash.
StampedeBounded == \A k \in Keys : uploads[k] <= deployment.workers + crashes
=============================================================================
