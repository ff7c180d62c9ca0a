# TLA+ models of the Topology geo service

The repository turns a point and a radius in the Perm region into a 3D model of
the site: OSM data and relief are selected, geometry is generated, IFC, GLB and
other files are written, and a web cabinet and viewers show them. The program is
Python (`geo/src/topology_geo`, paths below are relative to it) around PostGIS,
a Redis broker with Celery workers and an object storage.

The models have two halves. One is the part of the program where several
processes share state and may die between two statements: jobs, their files, the
cache of tiles, zones, accounts, webhooks, the register of requests, the page of
the cabinet. The other are the computations that keep no state: each is a
function of its input, reduced to the decisions it takes (which source wins,
which tile, which bound is inclusive, which faces a roof has) and checked over
inputs that put every boundary on, just below and just above itself.

## 1. The system

| Component | State | Operations | Interacts with |
|---|---|---|---|
| Job queue (`jobs/store.py`, `jobs/pipeline.py`, `tasks/pipeline_tasks.py`) | tables `jobs`, `job_steps`; messages in Redis | `create_job`, `run_job_step` (one step, then itself again), `retry_failed_step`, completion notice | called by the REST API and by operators; calls the steps, accounts (owner, notices), webhooks |
| Steps (`jobs/steps.py`, `ifc/registry.py`, `storage.py`) | objects under `jobs/{id}/`, table `ifc_globalid_registry`, `cadastre_data` | eight steps, each downloads, registers and uploads; list and download of files | storage, PostGIS, the external cadastre service |
| Tile cache (`tasks/tile_tasks.py`, `tiling/cache.py`) | table `tile_cache`, objects under `tiles/`, tasks and results in Redis | build or find a tile; build a group of tiles with a timeout | storage, broker |
| Constraint zones (`constraints/store.py`, `constraints/cli.py`) | table `constraint_zones` with versions | load a GeoJSON file, insert calculated zones, current zones, history | point query, closed contour of the API |
| Accounts (`auth/store.py`, handlers of `api/app.py`) | `users`, `sessions`, `api_keys`, `job_ownership`, `public_links` | register, log in and out, change a role, create and revoke keys, share and export a job | REST API, completion notice |
| Integrations (`auth/integrations.py`) | `webhooks`, `notifications` | register, revoke, call the webhooks of an ended job | completion notice |
| Technical conditions (`rso/*`) | `rso_directory`, `tu_requests` | import, create, record an answer, mark overdue | none |
| Cabinet (the script in `api/app.py`) | list and scene of the page | poll jobs, select a model | REST API |
| Relief (`relief/*`), tiles (`tiling/*`) | `dem_coverage`, rasters in the storage | merge by priority, triangulate, cut into tiles | steps |
| Selection, geometry, siting, IFC, export | none | functions of their inputs | steps |
| Render queue, viewers, rendering | messages with priorities; state of a page | render a frame, stream tiles | storage, broker |

What makes it hard:

- Connections are opened with `autocommit=True` (API, workers), so every SQL
  statement is a transaction of its own: a handler of four statements can be
  interleaved in, or cut short by a crash, at three places.
- The application never sets `acks_late`: a message is gone once a worker has
  taken it, and a task that dies is not repeated; while it waits it may be
  delivered twice.
- Nothing locks a job. That a job has one chain of tasks is a consequence of who
  enqueues it when, not of a lock.
- Look-ups followed by inserts (tile cache, zone versions) race.
- The storage and the database are not written in one transaction.
- The page polls without waiting for the last answer.
- The same thing is computed in several places (the ground along the seam of two
  tiles, the products of a layer in two schemas and five formats) and must come
  out alike.

`PROJECT.json` lists all components with their status, and every hazard with its
line and the properties that would catch it.

## 2. Modules

With state:

| Module | What it is |
|---|---|
| `JobStatus` | pure functions on the rows of `job_steps`: `_derive_job_status`, the first unfinished step |
| `JobPipeline` | processes that execute the statements of `create_job`, `run_job_step` and `retry_failed_step` one at a time; broker, crashes, redelivery |
| `JobLifecycle` | the abstract life cycle of a job that `JobPipeline` implements |
| `JobArtifacts` | what the eight steps do to the storage and the GlobalId registry, one operation at a time |
| `TileCache` | tile tasks, their callers with timeouts, both kinds of storage |
| `Deliveries` | the notice of an ended job and the webhooks of its owner, called one by one |
| `ConstraintZones` | loaders of zone files with their READ COMMITTED transactions and the row lock of `UPDATE` |
| `Accounts` | requests of the REST API, one statement at a time: who they are taken for and what they may do |
| `Dashboard` | the page of the cabinet: overlapping polls, lost answers, the selection of a model |
| `TuRegistry` | requests for technical conditions, answers and overdue marks, with the dates their callers give |

Without state, composed by `Rules`:

| Module | What it is |
|---|---|
| `Relief` | order and merge of coverages with the smooth transition; terrain-RGB |
| `Tiles` | grid, rings, the tiles of a circle, the seam of a tile, the boxes of `tileset.json` |
| `SiteTin` | the terrain of a site in a section: background, features, priorities, smoothing |
| `Roads` | classes, widths, bridges with clearance, lanes and curbs |
| `LinearObjects` | power lines, wires, safety zones, railways, catenary, fences |
| `Buildings` | heights and their sources, parts and outlines, entrances, the meshes of roofs |
| `Landscape` | trees, shrubs, lawns, water |
| `Ground` | the terrain with what stands, lies and grows on it: the modules above side by side |
| `Siting` | calculated zones, envelope, placement, checks, access, earthworks, networks of a drawing |
| `OsmData` | selection, normalised tags, zones of coordinates, import log and audit |
| `Assembly` | products of `site.ifc` in both schemas, GlobalIds, meshes, the tree of the GLB |
| `Exports` | CityJSON, LandXML, DXF, the list of sources, the folder of exchange |
| `Files` | `site.ifc` with the files beside it and the other formats: the two modules above side by side, and what they are made from |
| `Cadastre` | the client with its cache and the statements of `fetch_cadastre`, each of which commits by itself |

`MC*` are the finite instances. Theorems are in `JobPipelineProofs`, `JobArtifactsProofs`,
`TileCacheProofs`, `RowsProofs` (of `ConstraintZones` and `Accounts`, which share
nothing), `CorrespondenceProofs` (of `Deliveries` and `TuRegistry`), `FilesProofs`
(lemmas about finite sets and folds, and about `Files`), `TerrainProofs` (lemmas about
`Ground` and its parts) and `RulesProofs` (the invariants of `Rules`, with the lemmas
about buildings, siting, data and parcels). The definitions of `ConstraintZones`
are named `ZonesInit`, `ZonesNext` and so on so that `RowsProofs` can extend both.

How a module corresponds to the code:

- A variable is a column, a set of rows, or a local of a process that outlives a
  statement; an action is the code between two points at which another process
  can see or change something. In `JobPipeline` and `Accounts` the label `pc[p]`
  is the statement process `p` executes next; `SetStep` stands for the `UPDATE
  job_steps` that `_recompute_job_status` follows. In `JobArtifacts` the function
  `Ops` lists, per step, the storage and registry operations in the order of the
  source. In `ConstraintZones` a transaction is one row of locals, and a row
  that an `UPDATE` has locked makes `Supersede` wait. In `Dashboard` a poll reads
  jobs and steps in two statements, as `list_all_jobs` does, and may be shown
  long after.
- Some variables are history, read by properties alone: `overlapped` (two loads
  ran at once), `crowded` (a second chain began while one was at work), and
  `was`, `rights`, `owned` of `Accounts` (what held at some moment since the
  request began).
- The modules without state keep the geometry to what the decisions need: cells
  of a grid for areas, a section for a terrain, integers in the unit of the finest
  bound, squares of distances. A mean is kept as a sum and a count where
  rounding would matter. What SciPy, Shapely, GDAL, PROJ and the IFC kernel
  compute stands for itself.

How they compose: `JobPipeline` says which step runs when and `JobArtifacts` what a
step does; `Deliveries` is what `Notify` of `JobPipeline` goes on to do.
`JobArtifacts` takes over the rules of `JobPipeline` (first unfinished step, no step
of a failed job, a killed step is begun anew) as single actions. `Rules` is
what the steps compute. `MCOffice` puts `Dashboard`, `TuRegistry`, `Deliveries` and
`Rules` side by side, `MCRows` `ConstraintZones` and `Accounts`; they share nothing, so
each is checked while the others rest.

Definitions with a comment `Mutant:` are not part of a model: they are bugs one
could make at that place, with which the property beside them was seen to fail.

## 3. What is checked

### Jobs

| Run | Shows |
|---|---|
| `job_faults` | Operators call at any time, a message is redelivered, a process dies: no started step lacks the results of an earlier one (`InputsReady`), and a job that is `done` has the results of every one of the `N` steps (`DoneMeansComplete`). The exception needs a crash: a job whose `create_job` was killed before its last INSERT (`CutShort`), which is `done` with the results of the steps it has |
| `job_careful` | Operators wait for a chain to end: one chain per job (`SingleChain`), steps in order (`StepsInOrder`), done steps stay done (`DoneStaysDone`), notices are true (`NoticeIsTrue`) and success is the last of them (`DoneNoticeIsLast`), through two crashes; the job implements `JobLifecycle` (`ImplementsLifecycle`) |
| `job_live` | Without crashes each chain ends its job (`JobEnds`), the status settles to what the steps determine (`SettledStatus`), so that a failed job has a failed step to retry, and its owner hears of success (`OwnerHearsDone`) |
| `job_crash_status` | violated (`AllDoneIsDone`): a worker dies between the two UPDATEs of `finish_step` of the last step; the job is `running` for ever with all steps done |
| `job_cut_short` | violated (`DoneHasEveryStep`): `create_job` dies between two INSERTs, an operator resumes the job, and it is `done` with fewer steps |

Bounds. Two workers are enough for every race of two tasks on a job; three steps
give a first, a middle and a last one (a step that is neither is needed for
`StepsInOrder` to be broken on both sides). Two clients let an operator's
calls overlap in `job_careful`. Crashes and calls are bounded at two and three because a crash
at every label followed by a repair that may crash itself is the longest story
whose outcome differs; the theorems have no such bounds. Two jobs share
the workers only in `job_live`, where competition for workers matters: the
tables of two jobs do not touch.

Fairness (`FairSpec`). A live worker goes on with its task and takes waiting
messages, and a request that began goes on: weak fairness of each process. It is
what the operating system and `celery worker` give. No fairness is assumed of
the creation of jobs, of operators, of faults, or between success and failure of
a step. Under it the steps of one task cannot be blocked by others, since
no statement waits for a lock.

### Files of a job

`artifacts`: whatever two chains of one job do, and wherever two of their steps are
killed or raise, every listed file can be downloaded, every tile of a stored
tileset exists and no step misses its inputs (`NothingIsMissing`). Unless two chains
overlapped, the GLB is made of the stored `site_ifc4x3.ifc`, whose GlobalIds the
registry has (`GlbIsRegistered`), and the archive holds the very files that are
stored (`PackageIsCurrent`). For two chains at once neither is promised by
anything in the repository, and both are false.

Bounds. The namespace `site` stands for the five others too (two networks, three
layers): they are treated alike and none shares a key with another. Two tiles
give a proper prefix of the uploads; two stops a failure and the failure of its
retry.

### Tile cache

`tiles`: with MinIO and with the file storage, and one or two workers
(`Deployments`), calls, workers, timeouts and a crash come in any order. The file storage
with several workers is what `get_storage` returns and `test_tile_tasks.py` runs. A hit
names a whole object of its key's version (`RegisteredIsWhole`), a served call has its
own tiles (`ServedIsRequested`), and a key is uploaded at most once per worker plus once
per crash (`StampedeBounded`). Whole there has one exception, which the properties
spell out (`Rewritten`): where a worker of the file storage looked the tile up before
another registered it, it writes the same tile again, and between its truncation and
its writing, or for good if it is killed there, the registered tile is torn. The
properties say that nothing else tears a tile, and that MinIO or one worker never does.

Bounds. Two workers make the race of look-up and registration, three calls with
two versions make a late task of a call that timed out meet the next call, one tile
without relief makes a group fail in part.

### Constraint zones

| Run | Shows |
|---|---|
| `rows` | Two loaders interleave, meet refused features and die: a loaded zone keeps a current row (`NeverVanishes`) and versions have no gaps (`NoGaps`). Unless two loads overlapped, versions are distinct and every row but the newest is superseded, so that there is one current row (`VersionsOrdered`). The same run checks the accounts, below |
| `zones_race` | violated: two loads of the same new number leave two current rows |

That calculated zones, which have no number, are never superseded is stated by the theorem
`HistoryIsKept` alone.

Bounds. Two loaders make the race; files of up to two features with the same or
different numbers make a loader meet itself; three loads give a reload after a load
that died.

### Webhooks

In the run `office` webhooks are registered and revoked while two workers report ends of
jobs and one may hang up or die. A receiver finds a notification of its own for
each call it gets (`CallsAreNoted`), nobody but the owner hears of a job
(`OnlyOwnerHears`), a webhook revoked before a report began is not called
(`RevokedIsSilent`), a receiver that refuses does not keep the next one from being
called (`EveryHookIsTried`).

Bounds. Two webhooks give one that is called before and one after a failure, two
users a stranger, two ends of one job a retried job whose reports overlap.

Fairness. A worker goes on with the report it has begun; `urlopen` has a timeout of
five seconds, so no receiver can hold it up for ever. No fairness of users.

### Accounts

In the run `rows` two requests run statement by statement while users log in and out, sessions
end, keys are revoked, roles change and jobs get their owners. A request is taken for
a user whose session or key was good at some moment since it began, with rights
the user had at one, and is turned away only if both credentials were bad at one
(`AuthenticatedInTime`). A job whose owner was recorded when the request began is
shared and exported by nobody else (`OwnerDecides`); between `create_job` and the
statement that records the owner a job belongs to nobody, and the code lets any
user act on it.

Bounds. Two requests at a time make every race of two; the third is what one of
them may undo of the other; two keys let a revoked one be tried beside a good
one; one job.

### Cabinet and register

In the run `office`, once the jobs of the page no longer change, the list shows them as
they are and stays so, however polls overlap or get lost (`ListSettles`). A request for
technical conditions that was answered is never turned into a delay, and one that is
overdue had no answer and was marked for a date after its term (`ReceivedIsKept`),
whatever dates the callers of `record_response` and `mark_overdue` give: earlier or later
than today, and a second answer earlier than the first. Nothing calls `mark_overdue` but a
user (the repository schedules no task), so that a late request is marked at all is not
claimed.

Bounds. Two overlapping polls, one retry of a job of two steps; two entries of two
organisations, a term, and dates before, on and after it.

Fairness. `PageFairness`: the interval goes on, the server answers, and if
answers come again and again, some is shown (strong fairness: an answer may
be lost at any time, but not every one). None of people: answers may never come.

### Computations

The part `rules` of the run `office` asks each function for each of its inputs:

| Invariant | Says |
|---|---|
| `ReliefIsSound` | every cell of a source is covered, with a height between those of its sources, and that of the best one away from its border if it has one on the grid. A terrain-RGB height comes back within half a step |
| `TilesFit` | the tiles of a circle cover it, none with a building is left out, the detail of a place is that of its distance, the root's box holds the content of every tile; neighbours share the vertices of their seam whatever their rings |
| `TerrainIsOne` | no place has two heights, and that of a place is of its most important feature; no background shows inside a zone, a pad is level; smoothing keeps a constant slope |
| `LinesHold` | a road is drawn once, as its ribbon or as a deck with the clearance of every crossing it is given; a curb runs wherever a carriageway meets its pavement; a power line without poles of its own hangs on calculated ones from end to end; the poles of a catenary stand a spacing apart and the last at most one before the end, where none is; zones grow with voltage; fences stand; tracks and crossings are laid |
| `BuildingsAreSolid` | a mesh is closed, looks outwards and has the volume of its roof; a default height is never called a fact; a building is there as its outline or as its parts, not both, and no part is lost |
| `LandscapeFits` | trees and shrubs stand inside their polygons, trees not on grass or scrub and shrubs on scrub only, no more than the density asks for; species and height are facts only when a tag gives them; streams that share an end still share it when smoothed |
| `SitingIsSafe` | what the checks let through keeps every distance the norms ask for, and each zone by a norm changes its width exactly at the limits of its table, inclusive as they are in the code; cut and fill balance, no nearer road is passed over, one territorial zone answers |
| `DataIsWhole` | the selection is all that lies in the circle and nothing else, facts are what the tags give, roads meet at the nodes they share, older data imported late hides nothing newer, exactly those parcels are stored whose own INSERT went through, whichever others or the upload fail |
| `OutputsAgree` | files of both schemas, of networks and layers, and of other formats have the same objects; the registry finds each object by its product in the IFC4X3 file, and nothing by one in the IFC4 file; solids are closed, and look outwards when their outline runs counter-clockwise; pavement up to three metres wide is above the ground |

The inputs are in `MCRules`, per topic all combinations of a few values. Each set
was chosen by the branches of the function: a length on, one below and one above
each step of the posts, voltages on both sides of each row of the table, rings
with the circle through their bounds. They make 72 thousand states. The
invariants are written against reference definitions, not against the
functions themselves: a tile is covered because a place lies in it, a mesh is
closed because every edge occurs in both directions.

Two runs over the same inputs are violated: `relief` (`BestSourceIsSeen`: a best source that
covers the whole grid has no border, and what SciPy then takes for one lets a height
below it shine through) and `pavement` (`PavementIsUpper`: from a metre and a half off its
axis on, a ribbon is level with the ground or under it).

## 4. What is proved

All for arbitrary constants: any number of jobs, steps, processes, users, files, faults.

- `JobPipelineProofs!TypeCorrect`: types, and each process's locals fit the
  statement it is about to execute (`LocalsFit`).
- `JobPipelineProofs!FaultTolerant` and `DoneIsComplete`: `InputsReady` and
  `DoneMeansComplete`. They are not inductive: a worker past `PickStep` relies on results it saw earlier, a `done`
  that was computed is stored later, and the INSERTs of a new job must not be
  overtaken. `FaultInv` adds these facts; its core is that results never
  disappear, so what a process saw stays true however late it acts. A job that is done
  has all `N` steps unless a process was killed between its INSERTs, and the theorem
  says of how many crashes that takes: at least one.
- In the same module, for careful operators and no redelivery, any number of crashes:
  - `ChainsStaySingle`, `StepsRunInOrder` and `DoneIsNeverRedone`. `ChainInv` adds that the step a process
    holds is the first unfinished one and that no other process has the job.
  - `NoticesAreTrue` and `SuccessIsHeardLast`. `LifeInv` adds what the process that has a
    job knows of it (`Knows`): the status it is about to store is that of the rows, and
    the one it is about to report is stored; a failed step is not hidden behind a job that
    waits or is done (`FailedIsSeen`), and after the notice of success nothing comes but
    a restart that finds the job ended (`SuccessIsFinal`).
  - `JobsFollowLifecycle`: the refinement. A step that changes the rows or the
    status is a `Plan`, `Advance`, `Begin`, ... of `JobLifecycle` on the job it has;
    all others leave what the life cycle shows unchanged.
  - `StatusSettles`: without crashes also `SettledStatus`. The status
    of a job is that of its rows unless a process is between the two statements
    of `_recompute_job_status` (`Settled`). With a crash this is false: see
    `job_crash_status`.
- `JobArtifactsProofs!FilesAreThere`: `NothingIsMissing`, for any networks and tiles. Objects are
  replaced, never removed, so what an earlier step uploaded is there (`Relies`); the
  lemmas `InputsComeBefore` and `TilesComeBefore` say of `Ops` that every download of a
  step is an upload of an earlier one, and that `tileset.json` follows its tiles.
- `JobArtifactsProofs!FilesAgree` and `PackageAgrees`: `GlbIsRegistered` and `PackageIsCurrent`, for any networks,
  tiles, chains and stops, provided that the first namespace, and no other, is `site`.
  `MadeInv` says, as long as chains take turns (`~crowded`): the chain at work is the
  only one and the steps done are those before its own (`AloneInTurn`); what it has
  registered, read and uploaded so far (`Makes`); what the done steps left (`Made`).
- `TileCacheProofs!CacheIsSound` and `CacheIsWhole`: `ServedIsRequested` and `RegisteredIsWhole`,
  for any deployment, the file storage with several workers included. Whoever uploads to a key
  uploads the same content, since the key holds the version. `StoredInv` says of a tile that
  it is whole, not there, being written or cut by a crash (`FilesInv`), that one that is torn
  was uploaded (`UploadsInv`), that with objects replaced at once or one worker nobody else
  writes it (`OthersInv`), and so that a registered one is whole or `Rewritten` (`FineInv`);
  `AnswersInv` carries this to the tasks and calls that rely on it.
- `TileCacheProofs!WorkIsBounded`: `StampedeBounded`, for either storage (`StampedeInv`). Uploads to a key that
  is not registered are those of its uploaders and of killed workers; when it is
  registered, only those already building may add one, and all are workers that are
  busy, of whom there are no more than the deployment has (`Budget`).
- `RowsProofs!ZonesNeverVanish` and `HistoryIsKept` hold for parallel
  loaders: the row a loader read is a row of its number, and the id it will
  insert is new (`PresentInv`); that calculated zones are never superseded (`CalculatedStay`) is part of
  `HistoryIsKept`. `SerialVersionsAreOrdered`: as long as no two loads overlapped, the row
  the loader read is the newest (`OrderInv`).
- `RowsProofs!RequestsAreSound` and `OwnersDecide`: `AuthenticatedInTime` and `OwnerDecides`. The history has
  every moment since a request began, so what a statement read is in it; nobody else
  changes what a request keeps; users and owners are only added.
- `CorrespondenceProofs!AnswersAreKept`: `ReceivedIsKept` for whatever dates are given, since a
  mark looks at the status and the term in the statement that changes it.
- `CorrespondenceProofs!ReportsAreSound`, `OwnersHearAlone` and `RevokedStaysSilent`: `CallsAreNoted`,
  `OnlyOwnerHears` and `RevokedIsSilent`. A
  worker's list holds the owner's webhooks, each once, without those that were revoked
  before it (`Knows`); the calls made and those the workers may still make are together
  never more than the notifications (`Counted`).
- Of the computations all nine invariants of `Rules` hold for every input that fits the
  assumptions named there (`ReliefAssumption`, `TilesAssumption`, `TerrainAssumption`,
  `DataAssumption`, `SitingAssumption`, `LandscapeAssumption`, `RoadsAssumption`,
  `LinesAssumption`, `BuildingsAssumption`, `OutputsAssumption`: whole numbers, finite sets, areas that are not
  empty, features with ids of their own, a unit of length that divides the spans between
  poles and between posts, boxes at least as long as wide, angles of roofs in the table;
  of files that roads are of one of the two networks and buildings not of the layer of
  roads, that the triangles of earcut fill their outline (`Triangulates`), heights below
  the mark of an unknown one, coverages in the order of priority, file names that differ;
  TLC checks them of the inputs it uses) and for any sizes, rings, widths and
  windows. `QuestionInv` says that what is asked comes from the set of its topic; the
  rest is one lemma per topic.
  - `RulesProofs!TilesAlwaysFit`. Rounding down keeps the order, so the tile of a place
    lies between those of the corners, and the distance from the centre to a tile is at
    most that to its places (`CircleIsCovered`). By the triangle inequality the ring of a
    tile is that of the middle of its cell. The background lies strictly inside a
    tile, so what two contours share comes from the seam alone (`SeamsAlwaysMatch`).
  - `RulesProofs!ReliefIsAlwaysSound`, which says nothing of what shines through a best source that
    covers the whole grid (the run `relief`). Sources have one place each in the order of
    merging; a place shows the last source that is valid there, and a blended height
    lies between the two that are blended (`BlendLiesBetween`), of which one is the
    relief there was, wherever the distance to the edge is less than the transition.
    Three bytes of base 256 are the number they were split from (`CodingIsAlwaysFaithful`).
  - `RulesProofs!TerrainIsAlwaysOne`. After each feature there is one point at a place, and
    for every point that was put there one that matters as much (`WithPointsHolds`); the
    order by layer takes each feature once (`ByLayerTakesAll`). What a window sees on a
    slope is symmetric, so that opposite places have the mean of the middle
    (`SumIsCentral`), and a profile goes on beyond its ends with its own slope.
  - `RulesProofs!SitingIsAlwaysSafe`. The distance of two areas is that of their nearest
    cells, a quarter turn is a bijection of cells, the entrances are as many as their
    heights sum up, the tables of norms grow from row to row and change right behind their
    limits (`BoundsOfTheNorms`), the list of a card is a set put in order.
  - `RulesProofs!BuildingsAreAlwaysSolid`. The faces of walls and roof are listed once and
    every edge found in the list the other way round (`RidgeCloses`, `SkillionCloses`,
    `PyramidCloses`); the volume is the sum over the faces of their determinants, which are polynomials
    in the sides and heights (`LongRidgeVolume` and the like), so that the volumes that `roofs.py`
    states hold for any box. The tags of a roof give such a roof or a flat one (`RoofParamsAre`),
    not rounded to nothing when the box is at least 4 units wide.
  - `RulesProofs!LandscapeAlwaysFits`. Whatever is drawn, what was placed so far lies in the
    polygon and is no more than the target (`ScatterFits`). A corner that is cut lies
    between its two vertices, so a round multiplies the box of a ring by four and no more
    (`RingStays`), and the first and the last vertex of a line are scaled alone (`EndsStay`).
  - `RulesProofs!LinesAlwaysHold`. Equal spans reach from one end of a part to the other and
    none is over the limit (`SpreadReaches`); sorting the poles near a part takes each of
    them once (`OrderTakesAll`), so a pole that is not alone ends a wire (`RowIsSpanned`).
    The lift of a deck is the greatest deficit, so every crossing has its clearance
    (`LiftSuffices`); the poles of a catenary are the multiples of the spacing below
    the length; a carriageway alone at a place is one network, and what meets it there is a curb.
  - `RulesProofs!DataIsAlwaysWhole`. Points of one plane solve the normal equations, whose
    determinant cancels (Cramer's rule); an INSERT that goes through adds one row and one
    that fails none, so that the table is what the statements did one by one; the others
    follow the sets they are built from.
  - `RulesProofs!OutputsAlwaysAgree`. A list of lists that is flattened has one place for each
    element of each of them, in order (`FlatIs`), so that the products of a file are those
    of its layers, and what is said of one object holds of all: its products in the two
    schemas have the same names and ids, whatever their classes, a filter keeps it or not in both. The files of the two schemas write the same
    rows of the registry one after the other (`SchemasKeepTheSame`), so what is found is
    what the last of them, IFC4X3, registered, and no id of an IFC4 product is among it. The scene and the bytes of the GLB grow by one object at a
    time and keep their form (`SceneIs`, `ViewsAreEndToEnd`). The faces of a prism pass each
    edge of the outline once each way, and its caps the others as the triangles do
    (`PrismIsClosed`, `PrismIsOriented`, `TwoFacesAre`); the cap on top looks up, so the prism
    looks outwards if its outline is counter-clockwise. The vertices of the objects of a city follow one
    another, so no two objects share any.

The folds of the library (sums over a set, `FoldLeft`) are proved about as well: they are
recursive functions on the subsets of a finite set. That such a function exists, and
what it gives, is an induction on the number of elements, which `FilesProofs` derives
from the least element of a set of natural numbers (`InductionOnSet`, `SubsetInduction`,
`SetRecursion`), with sets in the place of the predicates that the prover cannot
instantiate. The models use `FoldLeft`, `[i \in S |-> ...]` and `CHOOSE` of an order where the code has
a loop, a comprehension and a sort.

Each proof of an invariant has one step per action. Assumptions on constants are named
(`StepsAssumption`, `ProcsAssumption`, ...) and checked by TLC in every run.

Every safety invariant and every action property that a run checks has a theorem, and so has
the refinement. Only model-checked is what needs fairness (`JobEnds`, `OwnerHearsDone`,
`EveryHookIsTried`, `ListSettles`): the prover cannot reason about `ENABLED`.

`FilesProofs` extends `Files` and not `Rules` because the time tlapm spends on
each step grows with the modules in its context; for the same reason the toolbox of sets and
folds is there, and `TerrainProofs` takes it from it.

## 5. Where the code and its documentation part

Five runs are expected to be violated; `PROJECT.json` quotes the sentences.

- `job_crash_status`: `finish_step` commits the step and then, in a second
  statement, the job. A crash in between is never repaired.
- `job_cut_short`: `create_job` inserts the steps one committed statement at a time, and a
  job is `done` when the steps it has are.
- `zones_race`: `load_zone` locks nothing between reading the current row and
  inserting the next.
- `relief`: `transition_alpha` takes the distance to a border for granted.
- `pavement`: the cross slope eats up the clearance of a ribbon a metre and a half off its axis.

The models have more counterexamples that no run keeps; each is reproduced by
changing one constant of a run:

- `OwnerHearsDone` with a crash (`job_live` with `MaxCrashes = 1`): a worker killed after it
  stored the terminal status never notifies (`tasks/pipeline_tasks.py:61`). `SettledStatus`
  fails there as well: an operator killed inside `retry_failed_step` (`jobs/store.py:278`)
  leaves a failed job without a failed step, which cannot be retried.
- `DoneStaysDone` with operators who do not wait (`job_careful` with
  `Careful = FALSE`): `retry_failed_step` resets a step that became done after it
  looked (`jobs/store.py:274`).

In `tiles` the file storage is not whole with two workers: `write_bytes` truncates a tile that
is registered (`storage.py:65`). Nothing in the repository promises otherwise, so the
properties state the exception (`Rewritten`).

And what the models contain without a property against it, met while they were
written:

- Files and delivery. Both schemas of the site model are registered under
  `str(job.id)`, so the GlobalIds of `site_ifc4.ifc` are overwritten
  (`jobs/steps.py:338`); `OutputsAgree` states what is left. A receiver that takes the request and hangs up raises an
  exception `deliver_webhook` does not catch, and the webhooks after it are not
  called (`auth/integrations.py:196`). Two models selected quickly may leave the
  link of one beside the scene of the other, and the class `status-completed` of
  the page never matches the status `done`.
- Cadastre. The worker's connection is in autocommit, so the parcels whose INSERT went
  through stay whatever fails after them, while a storage that refuses the file of their
  boundaries makes `fetch_cadastre` report none (`DataIsWhole` states the first). Since
  `idx_cadastre_geom` is an index on `st_geomfromgeojson` of a whole Feature, an INSERT with a
  boundary fails. The client asks for a fixed square and ignores the radius that its cache
  key has; a parcel that is known keeps its old values.
- Relief. `get_dem` blends only where both sources have a height (`service.py:108-111`), so the
  transition `docs/relief.md:36-43` describes on both sides of a border does not reach a
  cell that only one of them covers; uncovered cells of `relief.tif` are 0.0 and not
  nodata. The half-height of a flat child box, raised to its minimum, may exceed that of the root.
- Terrain. `update_relief_in_site_zone` blends inside the pad and not outside.
  `remove_duplicate_points` (`tin.py:217-225`) compares rounded coordinates, so two points on
  both sides of a rounding boundary stay; the model has one point per place.
- Roads and lines. A bridge of several lines is drawn neither as a road nor as a
  deck; a catenary pole exactly at the end of a line is skipped; a power line with
  one real pole has no wires.
- Norms. `calculated.py:90-92` says that gas pipes of 300 mm and more have the larger zone;
  its table (lines 98-102) and the code give the smaller one at 300 mm exactly. The model, and
  `SitingIsSafe`, have the inclusive limit of the code.
- Buildings. A roof is marked as measured when `roof:angle` is out of range though the
  default is used (`geometry/roofs.py:147`); the walls of a prism face inward when
  its outline runs clockwise (`repair_footprint` orients those of buildings, nothing the
  others); `repair_footprint` drops the courtyards of every outline; `flat_polygon_mesh` treats an unknown height and
  0.0 alike.
- Vegetation. A feature that is both grass and scrub gets a lawn and shrubs.

## 6. What is not modelled

- What the libraries compute: triangulation, buffers, interpolation, projections,
  the reading of rasters and drawings, the syntax of IFC, XML, DXF and
  GeoPackage, the bytes of a GLB. The modules take their results as given or
  replace them by cells and sections.
- Rendering and the viewers: Blender scripts and drawing in a browser. The render queue
  keeps no state of the program; its tasks are delivered as `JobPipeline` and
  `TileCache` have it.
- Handlers of the API that only read, response schemas, static files; password
  hashing; the text of requests and reports; BCF, PDF and Excel.
- `run_all_pending_steps`, the loop of tests and of the profiler: the same
  statements without a broker.
- Redelivery of tile tasks (the visibility timeout of an hour against a timeout of
  a minute); `JobPipeline` has redelivery.
- Isolation levels other than READ COMMITTED; failover of PostgreSQL or Redis.
- Isolated deployments with `InMemoryObjectStorage`: it is private to a process and
  meant for tests.
- Scripts, environment checks, `ifc/generate_test_ifc.py`, the manifest of assets, the
  build of the city map around its coding of heights.

## 7. Plan

In this order:

1. The queue of tiles that the viewer keeps (`web/*`): requests that are
   cancelled and answered late.
2. `JobArtifacts` as a refinement of `JobPipeline`: its steps mapped to `StartStep`,
   `FinishStep` and `FailStep`.
3. `Exports`: coordinates of the axes, which the formats shift by different
   origins.
