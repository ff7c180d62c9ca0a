-------------------------------- MODULE Rules --------------------------------
(***************************************************************************)
(* The parts of the program that keep no state: the relief, the tiles, the  *)
(* terrain and everything that is built on it, the siting of a building and *)
(* the data of a site.  Each is a function of its input; a step asks one of *)
(* them, and the invariants say what its answer promises.  Questions gives  *)
(* the inputs of an instance, per topic.                                    *)
(***************************************************************************)
EXTENDS Ground, Files

CONSTANT Questions

VARIABLES
  topic,   \* which part is asked, or "none"
  given,   \* its input
  asked    \* whether there is one

rulesVars == <<topic, given, asked>>

Siting    == INSTANCE Siting
Osm       == INSTANCE OsmData
Cadastre  == INSTANCE Cadastre

QuestionsOf(t) == IF t \in DOMAIN Questions THEN Questions[t] ELSE {}

\* What is asked about the relief: any sources on the grid, and a height to code.
ASSUME ReliefAssumption ==
  /\ \A q \in QuestionsOf("merge") : q.sources \in Seq(Int \X (SUBSET Cells) \X Int) /\ q.phantom \in Nat
  /\ \A q \in QuestionsOf("coding") : q.height \in Int

\* What is asked about the tiles of a site: whole numbers, and finitely many buildings; the
\* second tile of a seam, and the rings of both.
ASSUME TilesAssumption ==
  /\ \A q \in QuestionsOf("tileset") :
       /\ q.center \in Int \X Int /\ q.radius \in Nat /\ q.margin \in Nat
       /\ q.ground.low \in Int /\ q.ground.high \in Int
       /\ IsFiniteSet(q.buildings)
       /\ \A b \in q.buildings : b.centroid \in Int \X Int /\ b.base \in Int /\ b.height \in Int
  /\ \A q \in QuestionsOf("seam") : q.neighbour \in Int \X Int /\ q.ring \in Rings /\ q.other \in Rings

\* What is asked about the terrain: features of a site with whole heights, and any relief; a
\* profile of which some heights are known.
ASSUME TerrainAssumption ==
  /\ \A q \in QuestionsOf("tin") : AreFeatures(q.features) /\ IsRaster(q.raster)
  /\ \A q \in QuestionsOf("slope") :
       q.slope \in Int /\ IsRaster(q.raster) /\ q.raw \in Seq(Int) /\ q.known \subseteq DOMAIN q.raw

\* What is asked about the data of a site.  The distance on the ellipsoid is the one in
\* the projection but for the margin (docs/math-model.md, 2.1); the roads have keys of
\* their own, as rows of a table have; parcels are answered for in a sequence.
IsAnswer(answer) ==
  answer = Cadastre!Failed \/ answer \in Seq([number : Nat, area : Nat, boundary : BOOLEAN])

ASSUME DataAssumption ==
  /\ \A q \in QuestionsOf("selection") :
       /\ q.radius \in Int
       /\ \A f \in q.raw : f.far \in Int /\ f.near \in Int /\ f.far <= f.near + Osm!DEFAULT_MARGIN
  /\ \A q \in QuestionsOf("tags") : q.number \in Int
  /\ \A q \in QuestionsOf("zone") : q.lon \in Int
  /\ \A q \in QuestionsOf("plane") : q.places \in Seq(Int \X Int) /\ q.a \in Int /\ q.b \in Int /\ q.c \in Int
  /\ \A q \in QuestionsOf("log") : q.log \in Seq([source : STRING, timestamp : Int])
  /\ \A q \in QuestionsOf("junctions") :
       \A i, j \in DOMAIN q.roads : q.roads[i].id = q.roads[j].id => i = j
  /\ \A q \in QuestionsOf("audit") : IsFiniteSet(q.elements)
  /\ \A q \in QuestionsOf("parcels") :
       /\ q.table \in [DOMAIN q.table -> [number : Nat, area : Nat, boundary : BOOLEAN]]
       /\ DOMAIN q.table \subseteq Nat
       /\ IsAnswer(q.answer) /\ IsAnswer(q.retried)

\* What is asked about the siting.  A plane has whole cells; areas of zones, roads and sites
\* are not empty, tables and relief are finite; a level is planned from entrances there are,
\* where there is relief (design_elevation_from_entrances raises otherwise).
IsArea(area) == area \in SUBSET (Int \X Int) /\ area # {}

ASSUME SitingAssumption ==
  /\ \A q \in QuestionsOf("envelope") :
       /\ q.pzz.maxHeight \in Nat \cup {Siting!NoLimit}
       /\ \A z \in q.zones : z.maxHeight \in Nat \cup {Siting!NoLimit}
       /\ \A n \in q.networks : n.area \in SUBSET (Int \X Int)
       /\ q.clearance \in Nat /\ q.footprint \in SUBSET (Int \X Int)
  /\ \A q \in QuestionsOf("placement") :
       /\ q.footprint \in SUBSET (Int \X Int) /\ IsFiniteSet(q.footprint)
       /\ q.origin \in Int \X Int /\ q.quarters \in 0..3
  /\ \A q \in QuestionsOf("access") : IsArea(q.site) /\ \A r \in q.roads : IsArea(r.area)
  /\ \A q \in QuestionsOf("earthworks") :
       /\ IsFiniteSet(q.footprint) /\ IsFiniteSet(q.ring) /\ q.design \in Int
       /\ \A c \in DOMAIN q.relief : q.relief[c] \in Int
       /\ q.footprint \subseteq DOMAIN q.relief
       /\ q.entrances \in Seq(DOMAIN q.relief) /\ q.entrances # <<>>
  /\ \A q \in QuestionsOf("norms") : q.v \in Int /\ q.w \in Int
  /\ \A q \in QuestionsOf("zones") : q.point \in Int \X Int
  /\ \A q \in QuestionsOf("card") :
       IsFiniteSet(q.zones) /\ q.point \in Int \X Int /\ \A z \in q.zones : IsArea(z.area)
  /\ \A q \in QuestionsOf("depth") :
       /\ q.middle \in Int \X Int /\ q.snap \in Int
       /\ q.texts \in Seq([at : Int \X Int, height : Int])

\* What is asked about green and water: finite polygons with draws for each of them, lines with
\* a vertex, rings and levels in whole numbers.
ASSUME LandscapeAssumption ==
  /\ \A q \in QuestionsOf("green") : \A f \in q.features : \A p \in f.polygons :
       IsFiniteSet(p) /\ q.draws[p] \in Seq(Int)
  /\ \A q \in QuestionsOf("trees") : q.height \in Int
  /\ \A q \in QuestionsOf("water") :
       /\ {q.line, q.next} \subseteq Seq(Int \X Int) \ {<<>>} /\ q.ring \in Seq(Int \X Int)
       /\ q.area.ground \in Seq(Int) /\ q.area.profile \in Seq(Int)

\* What is asked about roads, lanes and lines: features with numbers of their own, finitely many
\* crossings of a bridge that has a length, lanes of cells.  The unit of length divides
\* the spans between poles and between posts.
ASSUME RoadsAssumption ==
  /\ \A q \in QuestionsOf("roads") :
       /\ \A f, g \in q.features : f.id = g.id => f = g
       /\ \A f \in q.features : f.parts \in Nat /\ f.multi \in BOOLEAN
       /\ q.bridge.z0 \in Int /\ q.bridge.z1 \in Int /\ q.bridge.length \in Nat \ {0}
       /\ IsFiniteSet(q.crossings)
       /\ \A c \in q.crossings : c.kind \in {"road", "rail"} /\ c.at \in Int /\ c.ground \in Int
  /\ \A q \in QuestionsOf("lanes") :
       /\ \A l \in q.lanes : l \in [ways : Seq(Int), type : STRING, cells : SUBSET Int]
       /\ \A a \in q.areas : a \in [type : STRING, cells : SUBSET Int]

ASSUME LinesAssumption ==
  /\ \A q \in QuestionsOf("power") :
       /\ IsFiniteSet(q.features)
       /\ \A f, g \in q.features : f.id = g.id => f = g
       /\ \A f \in q.features :
            /\ f.at \in Int \X Int /\ IsFiniteSet(f.parts)
            /\ \A part \in f.parts : Linear!Spaced(part, Linear!CALCULATED_POLE_SPACING)
  /\ \A q \in QuestionsOf("wires") : q.cables \in Int /\ q.span \in Nat /\ q.voltages \subseteq Int
  /\ \A q \in QuestionsOf("catenary") : q.length \in Nat
  /\ \A q \in QuestionsOf("fences") : \A f \in q.features : \A part \in f.parts :
       Linear!Spaced(part, Linear!FENCE_POST_SPACING)
  /\ \A q \in QuestionsOf("stations") : \A f \in q.features : IsFiniteSet(f.ground) /\ f.ground \subseteq Int
  /\ \A q \in QuestionsOf("rail") :
       /\ q.point \in Int \X Int
       /\ \A f \in q.features :
            /\ f.gauge \in Int /\ f.tracks \in Int
            /\ \A part \in f.parts : {part.from, part.to, part.across} \subseteq Int

\* What is asked about buildings: boxes, roofs to be built on them, and tags of roofs; a box
\* whose heights are asked for is so wide that no roof by its angle rounds to nothing.
ASSUME BuildingsAssumption ==
  /\ \A q \in QuestionsOf("roof") :
       Buildings!IsBox(q.box) /\ Buildings!IsRoof(q.params) /\ {q.base, q.eave} \subseteq Int
  /\ \A q \in QuestionsOf("height") :
       /\ {q.feature.height, q.feature.levels, q.overture} \subseteq Int /\ Buildings!AreRoofTags(q.feature.roof)
       /\ Buildings!IsBox(q.box) /\ 4 <= q.box.width
  /\ \A q \in QuestionsOf("outlines") : \A f \in q.features :
       /\ f.at \in Int \X Int /\ IsFiniteSet(f.pieces)
       /\ \A p \in f.pieces : IsFiniteSet(p.area) /\ p.area \subseteq Int \X Int /\ p.yards \subseteq Int \X Int

\* What is asked about the files: a model of a site whose roads and lanes are of one network
\* or the other (classify_road_network).  Polygons have outlines that earcut
\* triangulates, poles three sides or more; a place of a ribbon is at most half its width off its axis,
\* heights are below the mark of an unknown one;
\* buildings, roads and stored files have names of their own, coverages come by priority
\* (ORDER BY priority DESC).
ASSUME OutputsAssumption ==
  /\ \A q \in QuestionsOf("assembly") :
       /\ Modelled(q.model)
       /\ \A l \in Assembly!RoadLayers \cap DOMAIN q.model : \A i \in DOMAIN q.model[l] :
            q.model[l][i].network \in Assembly!Networks
  /\ \A q \in QuestionsOf("solids") :
       /\ q.ccw \in BOOLEAN /\ Triangulates(q.rings, q.triangles, q.ccw)
       /\ q.segments \in Nat /\ q.segments >= 3
  /\ \A q \in QuestionsOf("pavement") :
       /\ {q.long, q.short, q.offset} \subseteq Nat /\ q.ground \in Int /\ 2 * q.offset <= q.short
       /\ q.ground = Assembly!Unknown
            \/ q.ground + Assembly!PAVEMENT_CLEARANCE + Assembly!MARKING_CLEARANCE < Assembly!Unknown
  /\ \A q \in QuestionsOf("city") :
       /\ q.buildings \in Seq([id : Int, rings : Seq(Nat \ {0}) \ {<<>>}, flat : BOOLEAN, roof : Nat])
       /\ \A i, j \in DOMAIN q.buildings : q.buildings[i].id = q.buildings[j].id => i = j
  /\ \A q \in QuestionsOf("lines") :
       /\ q.tin.vertices \in Nat /\ IsFiniteSet(q.tin.triangles)
       /\ q.tin.triangles \subseteq (0..(q.tin.vertices - 1)) \X (0..(q.tin.vertices - 1)) \X (0..(q.tin.vertices - 1))
       /\ {q.roads, q.rail} \subseteq Seq([id : Int, axis : BOOLEAN, length : Int, rings : Seq(Nat)])
       /\ \A i, j \in DOMAIN q.roads : q.roads[i].id = q.roads[j].id => i = j
  /\ \A q \in QuestionsOf("lists") :
       /\ q.coverages \in Seq([source : STRING, priority : Int])
       /\ \A i, j \in DOMAIN q.coverages : i < j => q.coverages[j].priority <= q.coverages[i].priority
       /\ q.keys \in Seq(STRING) /\ \A i, j \in DOMAIN q.keys : q.name[q.keys[i]] = q.name[q.keys[j]] => i = j

RulesInit == topic = "none" /\ given = <<>> /\ asked = FALSE

Choose == /\ ~asked
          /\ topic' \in DOMAIN Questions \ {topic}
          /\ UNCHANGED <<given, asked>>

Ask == /\ ~asked /\ topic # "none"
       /\ given' \in Questions[topic]
       /\ asked' = TRUE
       /\ UNCHANGED topic

Forget == /\ asked
          /\ given' = <<>>
          /\ asked' = FALSE
          /\ UNCHANGED topic

RulesNext == Choose \/ Ask \/ Forget

RulesSpec == RulesInit /\ [][RulesNext]_rulesVars
-----------------------------------------------------------------------------
Asked(t) == topic = t /\ asked

Coverage(entry) == [priority |-> entry[1], valid |-> entry[2], height |-> [c \in entry[2] |-> entry[3]]]

Indexed(sources) == [i \in DOMAIN sources |-> Coverage(sources[i])]

\* Wherever the sources of relief end, every cell of one has a height of its sources, nothing
\* below the best one shines through away from its border, and a height survives its coding.
ReliefIsSound ==
  /\ Asked("merge") =>
       MergeIsSound(Indexed(given.sources), GetDem(Indexed(given.sources), given.phantom))
  /\ Asked("coding") => CodingIsFaithful(given.height)

\* Of the most precise source that covers the whole area its heights are seen, as
\* docs/relief.md has it of each place deep inside of one.  transition_alpha measures the
\* distance to a border that is not there, and what is below shines through.
BestSourceIsSeen ==
  Asked("merge") => BestIsWhole(Indexed(given.sources), GetDem(Indexed(given.sources), given.phantom))

\* The tiles cover the site without a crack between rings and the root's box holds them.
TilesFit ==
  /\ Asked("tileset") =>
       TilesetIsComplete(given.center, given.radius, given.margin, given.buildings, given.ground)
  /\ Asked("seam") => SeamsMatch(<<0, 0>>, given.neighbour, given.ring, given.other, given.raster)

\* Every feature is cut into one terrain, and smoothing keeps what is even.
TerrainIsOne ==
  /\ Asked("tin") => TinIsConsistent(given.features, given.raster)
  /\ Asked("slope") => SlopesAreKept(given.slope, given.raster, given.raw, given.known)

\* A road is one road, its ribbon or its deck over the crossings it is given, its lanes and
\* curbs; posts hold a fence, and poles a power line without real ones, from end to end, while
\* those of a catenary end before the line does.
LinesHold ==
  /\ Asked("roads") => Roads!RoadsAreWhole(given.features, given.bridge, given.crossings)
  /\ Asked("lanes") => Roads!LanesFit(given.lanes, given.areas, given.tags, given.circle)
  /\ Asked("power") => Linear!PowerIsHung(given.features)
  /\ Asked("wires") => Linear!WiresAreEven(given.cables, given.span) /\ Linear!ZonesGrow(given.voltages)
  /\ Asked("catenary") => Linear!CatenaryHolds(given.line, given.length)
  /\ Asked("fences") => Linear!FencesHold(given.features)
  /\ Asked("stations") => Linear!StationsStand(given.features)
  /\ Asked("rail") => Linear!RailIsLaid(given.features, given.point)

\* Each building is there once, as a closed solid of an honest height.
BuildingsAreSolid ==
  /\ Asked("roof") => Buildings!MeshIsSound(given.box, given.params, given.base, given.eave)
  /\ Asked("height") => Buildings!HeightsAreHonest(given.feature, given.box, given.overture)
  /\ Asked("outlines") => Buildings!EachBuildingOnce(given.features, given.box)

\* Trees and shrubs stand within their outlines, trees on no grass and no scrub, and waterways
\* meet where they met.
LandscapeFits ==
  /\ Asked("green") => Landscape!GreenIsSorted(given.features, given.draws)
  /\ Asked("trees") => Landscape!TreesAreHonest(given.tags, given.height)
  /\ Asked("water") => Landscape!WaterMeets(given.line, given.next, given.ring, given.area)

\* A building that the checks let through keeps every distance the norms ask for.
SitingIsSafe ==
  /\ Asked("envelope") =>
       Siting!EnvelopeIsSafe(given.site, given.pzz, given.zones, given.networks, given.clearance,
                             given.footprint, given.plane)
  /\ Asked("placement") =>
       Siting!PlacementIsExact(given.footprint, given.origin, given.quarters, given.site, given.features)
  /\ Asked("access") => Siting!AccessIsNearest(given.site, given.roads)
  /\ Asked("earthworks") =>
       Siting!EarthworksBalance(given.footprint, given.ring, given.design, given.relief, given.entrances)
  /\ Asked("norms") => Siting!NormsAreOrdered(given.v, given.w, given.a, given.b)
  /\ Asked("zones") => Siting!OneZoneAnswers(given.zones, given.point, given.type)
  /\ Asked("card") => Siting!CardIsOrdered(given.zones, given.point, given.distance)
  /\ Asked("depth") => Siting!DepthsAreHonest(given.layer, given.middle, given.texts, given.snap)

\* The selection, the frame and the log of a site lose nothing of it, and each parcel of the
\* land registry is stored by a statement of its own, whichever others fail.
DataIsWhole ==
  /\ Asked("selection") => Osm!SelectionIsWhole(given.raw, given.radius)
  /\ Asked("tags") => Osm!TagsAreHonest(given.text, given.number)
  /\ Asked("zone") => Osm!ZoneIsNearest(given.lon)
  /\ Asked("plane") => Osm!PlaneIsRecovered(given.places, given.a, given.b, given.c)
  /\ Asked("log") => Osm!LogKeepsNewest(given.log)
  /\ Asked("junctions") => Osm!CrossingsAreKept(given.roads)
  /\ Asked("audit") =>
       Osm!DecisionsGrow(given.elements, {e \in given.elements : e.tags = 2}, {e \in given.elements : e.tags >= 1})
  /\ Asked("parcels") => Cadastre!ParcelsAreStored(given.table, given.answer, given.retried, given.failing,
                                                    given.refused)

\* The files of a site in all formats, the registry of its products and the scene agree;
\* what is drawn is closed, pavement up to three metres wide is on top of the ground and
\* paint on top of pavement.
OutputsAgree ==
  /\ Asked("assembly") =>
       /\ Assembly!FilesAgree(given.schema, given.model)
       /\ Assembly!ProductsAreFound(given.schema, given.model)
       /\ Assembly!GlbIsATree(Assembly!BuildSiteIfc(given.schema, given.model, Assembly!NoFilter))
  /\ Asked("solids") => Assembly!SolidsAreClosed(given.rings, given.triangles, given.ccw, given.segments)
  /\ Asked("pavement") => Assembly!PavementIsOnTop(given.long, given.short, given.ground, given.offset)
  /\ Asked("city") => Exports!BuildingsAgree(given.buildings)
  /\ Asked("lines") => Exports!LinesAgree(given.tin, given.roads, given.rail)
  /\ Asked("lists") => Exports!ListsAreComplete(given.coverages, given.keys, given.stored, given.name)

\* Pavement is never level with the ground or under it, however wide, as the comment before
\* PAVEMENT_CLEARANCE_M has it.  The cross slope of lane_pavement_elevation_fn takes the
\* clearance off a metre and a half from the axis.
PavementIsUpper ==
  Asked("pavement") => Assembly!LiesOver(given.long, given.short, given.ground, given.offset)
=============================================================================
