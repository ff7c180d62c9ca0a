---------------------------- MODULE JobArtifacts ----------------------------
(***************************************************************************)
(* What the steps of DEFAULT_PIPELINE (jobs/steps.py) do to the object      *)
(* storage and to the GlobalId registry (ifc/registry.py), one download,   *)
(* registration or upload at a time; what GET /models/{id}/files lists.    *)
(*                                                                         *)
(* JobPipeline says which step runs when; here a runner is a chain of      *)
(* run_job_step tasks of one job, and it may die or its step may raise     *)
(* between any two operations.  ifcopenshell gives every product of every  *)
(* model it builds a new random GlobalId, so the GlobalIds of a model are  *)
(* one new number.                                                         *)
(***************************************************************************)
EXTENDS Naturals, Sequences, FiniteSets

CONSTANTS
  Namespaces,  \* site, then the networks and layers that get files of their own
  Tiles,       \* the tiles of the circle that have content, in order
  Runners,     \* chains of tasks that work on the job
  MaxStops     \* bound of the model: runners killed and steps that raise

\* Mutant: the file of the GLB is registered first.
SchemasSwapped == <<"IFC4X3", "IFC4">>

\* IFC_SCHEMAS.
Schemas == <<"IFC4", "IFC4X3">>

ASSUME NamespacesAssumption ==
  /\ Namespaces \in Seq(STRING)
  /\ Len(Namespaces) > 0
  /\ \A k \in DOMAIN Namespaces : Namespaces[k] = "site" <=> k = 1
ASSUME TilesAssumption == Tiles \in Seq(STRING)

\* DEFAULT_STEP_NAMES.
Pipeline == <<"select_osm", "fetch_cadastre", "prepare_relief", "select_and_normalize",
              "assemble_ifc", "convert_to_glb", "generate_tileset", "package_outputs">>

Steps == 1..Len(Pipeline)
-----------------------------------------------------------------------------
(* The objects under jobs/{id}/ and the operations of the steps.           *)

File(name) == <<name>>
IfcFile(ns, schema) == <<ns, schema>>
TileFile(t) == <<"tile", t>>

Common == {File(n) : n \in {"osm_selection.json", "cadastre_boundaries.geojson",
                            "relief.tif", "site.gpkg", "site.landxml", "site.cityjson", "site.dxf", "site.glb",
                            "tileset.json", "meta.json", "package.zip"}}
IfcFiles == {IfcFile(Namespaces[k], Schemas[i]) : k \in DOMAIN Namespaces, i \in DOMAIN Schemas}
TileFiles == {TileFile(Tiles[k]) : k \in DOMAIN Tiles}
Files == Common \cup IfcFiles \cup TileFiles

Get(f) == [do |-> "get", on |-> f]
Put(f) == [do |-> "put", on |-> f]           \* its key is a *storage_key of the result
PutAside(f) == [do |-> "aside", on |-> f]    \* its key is not
Register(ns) == [do |-> "register", on |-> ns]

\* model_id of register_global_ids: the site models have the id of the job.
ModelId(ns) == ns

\* assemble_ifc, the loops over IFC_SCHEMAS and over the models of a schema: each model
\* is built and validated, registered and uploaded.
AssembleModels ==
  LET n == Len(Namespaces)
  IN  [i \in 1..(2 * n * Len(Schemas)) |->
         LET ns == Namespaces[(((i - 1) \div 2) % n) + 1]
             schema == Schemas[((i - 1) \div (2 * n)) + 1]
         IN  IF i % 2 = 1 THEN Register(ModelId(ns)) ELSE Put(IfcFile(ns, schema))]

\* Mutant: tileset.json is written before the tiles it names.
TilesetFirst == <<Put(File("tileset.json"))>> \o
                [k \in DOMAIN Tiles |-> PutAside(TileFile(Tiles[k]))]

\* generate_tileset, the uploads.
TilesetUploads == [k \in DOMAIN Tiles |-> PutAside(TileFile(Tiles[k]))] \o
                  <<Put(File("tileset.json"))>>

\* package_outputs: the files it downloads, in the order of its entries.
Packed ==
  LET n == Len(Namespaces)
  IN  <<File("site.gpkg")>> \o
      [i \in 1..(n * Len(Schemas)) |->
         IfcFile(Namespaces[((i - 1) % n) + 1], Schemas[((i - 1) \div n) + 1])] \o
      <<File("site.landxml"), File("site.cityjson"), File("site.dxf"), File("site.glb")>>

\* The operations of each step on the storage and the registry, in their order.
Ops ==
  [select_osm |-> <<Put(File("osm_selection.json"))>>,
   fetch_cadastre |-> <<PutAside(File("cadastre_boundaries.geojson"))>>,
   prepare_relief |-> <<Put(File("relief.tif"))>>,
   select_and_normalize |-> <<Put(File("site.gpkg"))>>,
   assemble_ifc |->
     <<Get(File("relief.tif"))>> \o AssembleModels \o
     <<Put(File("site.landxml")), Put(File("site.cityjson")), Put(File("site.dxf"))>>,
   convert_to_glb |-> <<Get(IfcFile("site", "IFC4X3")), Put(File("site.glb"))>>,
   generate_tileset |-> <<Get(File("relief.tif"))>> \o TilesetUploads,
   package_outputs |->
     [k \in DOMAIN Packed |-> Get(Packed[k])] \o
     <<Put(File("meta.json")), Put(File("package.zip"))>>]

\* Mutant: package_outputs swallows its exceptions, too.
SwallowsMore(step) == step \in {"fetch_cadastre", "package_outputs"}

\* fetch_cadastre catches every exception and returns a result that tells of it, as it
\* does when it finds no parcel.
Swallows(step) == step = "fetch_cadastre"
-----------------------------------------------------------------------------
VARIABLES
  status,      \* per step, job_steps.status; running counts as pending
  store,       \* per file, its content or NoFile
  registry,    \* per model_id, the GlobalIds of the model registered last
  models,      \* models built so far
  at,          \* per runner, the step it executes, or 0
  op,          \* per runner, its next operation
  got,         \* per runner, what the step has downloaded
  built,       \* per runner, the model it built last
  stops,       \* runners killed and steps that raised
  crowded      \* history: a chain began a step while another was at work on one

vars == <<status, store, registry, models, at, op, got, built, stops, crowded>>

NoFile == [model |-> 0, from |-> {}, here |-> FALSE]

\* A content: the model an IFC file was written from, and what a file was made of.
Content(m, from) == [model |-> m, from |-> from, here |-> TRUE]

Stored(f) == store[f].here

\* The invariant of the types.
TypeOK ==
  /\ status \in [Steps -> {"pending", "done", "failed"}]
  /\ DOMAIN store = Files
  /\ \A f \in Files : store[f].model \in 0..models
  /\ registry \in [{Namespaces[k] : k \in DOMAIN Namespaces} -> 0..models]
  /\ models \in Nat
  /\ at \in [Runners -> Steps \cup {0}]
  /\ built \in [Runners -> 0..models]
  /\ crowded \in BOOLEAN
  /\ \A r \in Runners : \A g \in got[r] : g[1] \in Files /\ g[2] \in 0..models
  /\ \A r \in Runners : at[r] # 0 => op[r] \in 1..(Len(Ops[Pipeline[at[r]]]) + 1)

Init ==
  /\ status = [k \in Steps |-> "pending"]
  /\ store = [f \in Files |-> NoFile]
  /\ registry = [n \in {Namespaces[k] : k \in DOMAIN Namespaces} |-> 0]
  /\ models = 0
  /\ at = [r \in Runners |-> 0]
  /\ op = [r \in Runners |-> 0]
  /\ got = [r \in Runners |-> {}]
  /\ built = [r \in Runners |-> 0]
  /\ stops = 0
  /\ crowded = FALSE
-----------------------------------------------------------------------------
StepOps(r) == Ops[Pipeline[at[r]]]

\* Runner r is about to do o.
About(r, o) == at[r] # 0 /\ op[r] <= Len(StepOps(r)) /\ o = StepOps(r)[op[r]]

Advance(r) == op' = [op EXCEPT ![r] = @ + 1]

Leave(r) ==
  /\ at' = [at EXCEPT ![r] = 0]
  /\ op' = [op EXCEPT ![r] = 0]
  /\ got' = [got EXCEPT ![r] = {}]
  /\ built' = [built EXCEPT ![r] = 0]

\* run_next_step: the first step that is not done, unless the job has failed.
Begin(r, k) ==
  /\ at[r] = 0
  /\ \A i \in Steps : status[i] # "failed"
  /\ status[k] # "done" /\ \A i \in 1..(k - 1) : status[i] = "done"
  /\ at' = [at EXCEPT ![r] = k]
  /\ op' = [op EXCEPT ![r] = 1]
  /\ crowded' = (crowded \/ \E q \in Runners : at[q] # 0)
  /\ UNCHANGED <<status, store, registry, models, got, built, stops>>

\* storage.download.
Download(r) ==
  /\ \E f \in Files :
       /\ About(r, Get(f))
       /\ Stored(f)
       /\ got' = [got EXCEPT ![r] = @ \cup {<<f, store[f].model>>}]
  /\ Advance(r)
  /\ UNCHANGED <<status, store, registry, models, at, built, stops, crowded>>

\* build_site_ifc and register_global_ids: ON CONFLICT DO UPDATE.
RegisterModel(r) ==
  /\ \E n \in DOMAIN registry :
       /\ About(r, Register(n))
       /\ registry' = [registry EXCEPT ![n] = models + 1]
  /\ models' = models + 1
  /\ built' = [built EXCEPT ![r] = models + 1]
  /\ Advance(r)
  /\ UNCHANGED <<status, store, at, got, stops, crowded>>

\* storage.upload.
Upload(r) ==
  /\ \E f \in Files :
       /\ About(r, Put(f)) \/ About(r, PutAside(f))
       /\ store' = [store EXCEPT ![f] =
                      Content(IF f \in IfcFiles THEN built[r] ELSE 0, got[r])]
  /\ Advance(r)
  /\ UNCHANGED <<status, registry, models, at, got, built, stops, crowded>>

\* The step returns its result and finish_step records it.
Finish(r) ==
  /\ at[r] # 0
  /\ op[r] > Len(StepOps(r))
  /\ status' = [status EXCEPT ![at[r]] = "done"]
  /\ Leave(r)
  /\ UNCHANGED <<store, registry, models, stops, crowded>>

\* The step raises, for whatever reason or because a file is missing.
Raise(r) ==
  /\ at[r] # 0
  /\ stops < MaxStops \/ \E f \in Files : About(r, Get(f)) /\ ~Stored(f)
  /\ stops' = stops + 1
  /\ status' = [status EXCEPT ![at[r]] = IF Swallows(Pipeline[at[r]]) THEN "done" ELSE "failed"]
  /\ Leave(r)
  /\ UNCHANGED <<store, registry, models, crowded>>

\* The worker is killed; the step stays running and the next chain begins it anew.
Kill(r) ==
  /\ at[r] # 0
  /\ stops < MaxStops
  /\ stops' = stops + 1
  /\ Leave(r)
  /\ UNCHANGED <<status, store, registry, models, crowded>>

\* retry_failed_step, when no chain runs.
Retry(k) ==
  /\ status[k] = "failed"
  /\ \A r \in Runners : at[r] = 0
  /\ status' = [status EXCEPT ![k] = "pending"]
  /\ UNCHANGED <<store, registry, models, at, op, got, built, stops, crowded>>

Next ==
  \/ \E r \in Runners :
       \/ \E k \in Steps : Begin(r, k)
       \/ Download(r) \/ RegisterModel(r) \/ Upload(r) \/ Finish(r) \/ Raise(r) \/ Kill(r)
  \/ \E k \in Steps : Retry(k)

Spec == Init /\ [][Next]_vars
-----------------------------------------------------------------------------
(* However many chains run.                                                *)

\* get_job_files: every done step lists the files of its result.
Listed == {f \in Files :
             \E k \in Steps : status[k] = "done" /\
               \E i \in DOMAIN Ops[Pipeline[k]] : Ops[Pipeline[k]][i] = Put(f)}

\* Every file that GET /models/{id}/files lists can be downloaded.
ListedIsStored == \A f \in Listed : Stored(f)

\* The viewer finds every tile that a stored tileset.json names.
TilesetIsStored == Stored(File("tileset.json")) => \A f \in TileFiles : Stored(f)

\* No step misses a file of an earlier step: the order of the pipeline provides it.
InputIsStored == \A r \in Runners : \A f \in Files : About(r, Get(f)) => Stored(f)

\* Whoever asks for a file finds it: the cabinet, the viewer and the next step, whatever
\* chains are at work and wherever one of them stopped.
NothingIsMissing == ListedIsStored /\ TilesetIsStored /\ InputIsStored

(* As long as one chain runs at a time.                                    *)

\* A click in the viewer finds its object: the GlobalIds in the GLB are those of the
\* stored site_ifc4x3.ifc, and the registry has them.
GlbIsRegistered ==
  ~crowded => \A k \in Steps : Pipeline[k] = "convert_to_glb" /\ status[k] = "done" =>
    /\ store[File("site.glb")].from =
         {<<IfcFile("site", "IFC4X3"), store[IfcFile("site", "IFC4X3")].model>>}
    /\ registry["site"] = store[IfcFile("site", "IFC4X3")].model

\* The archive holds the very files that can be downloaded one by one.
PackageIsCurrent ==
  ~crowded => \A k \in Steps : Pipeline[k] = "package_outputs" /\ status[k] = "done" =>
    store[File("package.zip")].from =
      {<<Packed[i], store[Packed[i]].model>> : i \in DOMAIN Packed}
=============================================================================
