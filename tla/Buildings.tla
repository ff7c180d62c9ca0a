------------------------------ MODULE Buildings ------------------------------
(***************************************************************************)
(* Buildings (geometry/buildings.py): the footprint, the height by its      *)
(* waterfall of sources, parts in place of the outline, entrances; and roofs *)
(* (geometry/roofs.py): their shape, and the closed mesh of walls and roof.  *)
(*                                                                         *)
(* A feature's pieces are the valid polygons it falls into, each a set of    *)
(* unit cells; heights are in decimetres, tags are Absent when missing or no *)
(* number.  The mesh is in the frame of the box: u along its long side, v    *)
(* across, z up, u and v from the centre; a box has the halves of its sides. *)
(***************************************************************************)
EXTENDS Integers, FiniteSets, FiniteSetsExt, Sequences

NoTag == -1
-----------------------------------------------------------------------------
(* roofs.py.                                                               *)

SUPPORTED_ROOF_SHAPES == {"gabled", "hipped", "pyramidal", "skillion"}
DEFAULT_ROOF_ANGLE    == 30

\* Thousandths of the tangent, for the angles the inputs have.
Tan == [a \in {15, 30, 45, 60} |->
          CASE a = 15 -> 268 [] a = 30 -> 577 [] a = 45 -> 1000 [] a = 60 -> 1732]

\* A bearing is one of four; Down(b, north) is the way down in the frame of a box
\* whose long side runs north or east.

Down(bearing, north) ==
  CASE bearing = 0   -> IF north THEN <<1, 0>>  ELSE <<0, 1>>
    [] bearing = 90  -> IF north THEN <<0, -1>> ELSE <<1, 0>>
    [] bearing = 180 -> IF north THEN <<-1, 0>> ELSE <<0, -1>>
    [] bearing = 270 -> IF north THEN <<0, 1>>  ELSE <<-1, 0>>

FlatRoof(confidence) ==
  [shape |-> "flat", confidence |-> confidence, height |-> 0, heightConfidence |-> "fact",
   alongLong |-> TRUE, direction |-> <<0, 0>>]

\* roof:height, else by an angle that makes sense, else by the default angle.
RoofHeight(tags, width) ==
  LET angle == IF 0 < tags.angle /\ tags.angle < 90 THEN tags.angle ELSE DEFAULT_ROOF_ANGLE
      run   == IF tags.shape = "skillion" THEN 2 * width ELSE width
  IN  IF tags.height > 0 THEN tags.height ELSE (run * Tan[angle]) \div 1000

\* compute_roof_params.  Whatever is said of the angle makes the height a fact.
RoofParams(tags, box) ==
  IF tags.shape \notin SUPPORTED_ROOF_SHAPES
  THEN FlatRoof(IF tags.shape \in {"flat", ""} THEN "fact" ELSE "default")
  ELSE [shape            |-> tags.shape,
        confidence       |-> "fact",
        height           |-> RoofHeight(tags, box.width),
        heightConfidence |-> IF tags.height > 0 \/ tags.angle # NoTag THEN "fact" ELSE "default",
        alongLong        |-> tags.shape = "gabled" =>
                               IF tags.direction # NoTag THEN Down(tags.direction, box.north)[1] = 0
                               ELSE tags.orientation # "across",
        direction        |-> CASE tags.shape # "skillion"  -> <<0, 0>>
                               [] tags.direction # NoTag   -> Down(tags.direction, box.north)
                               [] OTHER                    -> <<0, 1>>]

\* _obb_corners_ccw: in halves of the sides.
Corners(box) ==
  <<<<-box.length, -box.width>>, <<box.length, -box.width>>,
    <<box.length, box.width>>, <<-box.length, box.width>>>>

\* _wall_mesh: vertices 1..4 below, 5..8 at the eaves; the floor and four walls.
Turned(i) == (i % 4) + 1

WallFaces ==
  {<<1, 3, 2>>, <<1, 4, 3>>}
  \cup {<<i, Turned(i), 4 + Turned(i)>> : i \in 1..4} \cup {<<i, 4 + Turned(i), 4 + i>> : i \in 1..4}

WallVertices(box, base, eave) ==
  [i \in 1..8 |-> IF i <= 4 THEN Append(Corners(box)[i], base) ELSE Append(Corners(box)[i - 4], eave)]

PyramidFaces == {<<5, 6, 9>>, <<6, 7, 9>>, <<7, 8, 9>>, <<8, 5, 9>>}

SkillionFaces ==
  {<<5, 6, 10>>, <<5, 10, 9>>, <<6, 7, 11>>, <<6, 11, 10>>, <<7, 8, 12>>, <<7, 12, 11>>,
   <<8, 5, 9>>, <<8, 9, 12>>, <<9, 10, 11>>, <<9, 11, 12>>}

\* The slope falls along the direction: the far corner stays at the eaves.
SkillionVertices(box, params, eave) ==
  LET proj(i) == params.direction[1] * Corners(box)[i][1] + params.direction[2] * Corners(box)[i][2]
      most    == Max({proj(i) : i \in 1..4})
  IN  [i \in 1..4 |-> Append(Corners(box)[i], eave + (params.height * (most - proj(i))) \div (2 * most))]

\* The ridge lies along one side; the corners are turned by one for the short side.
Ridge(box, params) ==
  LET along == IF params.alongLong THEN box.length ELSE box.width
      cross == IF params.alongLong THEN box.width ELSE box.length
      half  == IF params.shape = "hipped" THEN Max({along - cross, 0}) ELSE along
  IN  IF params.alongLong THEN <<<<-half, 0>>, <<half, 0>>>> ELSE <<<<0, -half>>, <<0, half>>>>

RidgeFaces(b) ==
  {<<b[1], b[2], 10>>, <<b[1], 10, 9>>, <<b[3], b[4], 9>>, <<b[3], 9, 10>>,
   <<b[1], 9, b[4]>>, <<b[2], b[3], 10>>}

\* Mutant: the corners are not turned.
StraightRidgeFaces(params) == RidgeFaces(<<5, 6, 7, 8>>)

TurnedRidgeFaces(params) == RidgeFaces(IF params.alongLong THEN <<5, 6, 7, 8>> ELSE <<6, 7, 8, 5>>)

\* build_pitched_building_mesh.
RoofMesh(box, params, base, eave) ==
  LET walls == WallVertices(box, base, eave)
      top   == eave + params.height
  IN  CASE params.shape = "pyramidal" ->
             [vertices |-> walls \o <<<<0, 0, top>>>>, faces |-> WallFaces \cup PyramidFaces]
        [] params.shape = "skillion" ->
             [vertices |-> walls \o SkillionVertices(box, params, eave), faces |-> WallFaces \cup SkillionFaces]
        [] OTHER ->
             [vertices |-> walls \o <<Append(Ridge(box, params)[1], top), Append(Ridge(box, params)[2], top)>>,
              faces    |-> WallFaces \cup TurnedRidgeFaces(params)]
-----------------------------------------------------------------------------
(* buildings.py.                                                           *)

DEFAULT_HEIGHT_BY_TYPE ==
  [house |-> 80, detached |-> 80, apartments |-> 250, residential |-> 180, industrial |-> 100,
   warehouse |-> 80, retail |-> 60, commercial |-> 90, garage |-> 30, garages |-> 30, shed |-> 30]

DEFAULT_HEIGHT_FALLBACK == 90

\* compute_height_m: the tag, the storeys when they are a fact, Overture, the type.
ComputeHeight(f, overture) ==
  CASE f.height > 0 -> [height |-> f.height, confidence |-> "fact", source |-> "OSM"]
    [] f.height <= 0 /\ f.levels > 0 -> [height |-> 30 * f.levels + 10, confidence |-> "fact", source |-> "OSM"]
    [] f.height <= 0 /\ f.levels <= 0 /\ overture > 0 ->
         [height |-> overture, confidence |-> "fact", source |-> "Overture"]
    [] OTHER ->
         [height |-> IF f.type \in DOMAIN DEFAULT_HEIGHT_BY_TYPE THEN DEFAULT_HEIGHT_BY_TYPE[f.type]
                     ELSE DEFAULT_HEIGHT_FALLBACK,
          confidence |-> "default", source |-> "type"]

\* The least area, in cells of a quarter of a square metre.
MIN_FOOTPRINT_AREA == 4

\* repair_footprint: of the largest piece all that its outer ring holds, if that is large
\* enough, else nothing ({}).  A piece is [area, yards], the cells it covers and those of
\* its inner rings, which the polygon that is built anew does not have.
RepairFootprint(f) ==
  LET largest == CHOOSE p \in f.pieces : \A q \in f.pieces : Cardinality(q.area) <= Cardinality(p.area)
      whole == largest.area \cup largest.yards
  IN  IF f.pieces # {} /\ Cardinality(whole) >= MIN_FOOTPRINT_AREA THEN whole ELSE {}

\* _match_entrances: inside the footprint with a margin of two cells.
Nearby(p, q) == p[1] - q[1] \in -2..2 /\ p[2] - q[2] \in -2..2

MatchEntrances(footprint, features) ==
  {f.id : f \in {e \in features : e.layer = "osm_entrances" /\ \E p \in footprint : Nearby(p, e.at)}}

\* The roof a building of this height can carry.
RoofOf(f, box, height) ==
  LET roof == RoofParams(f.roof, box)
  IN  IF roof.shape # "flat" /\ roof.height >= height THEN FlatRoof("default") ELSE roof

\* _extrude_single.
ExtrudeSingle(f, features, isPart, box) ==
  LET height == ComputeHeight(f, 0)
  IN  [id |-> f.id, footprint |-> RepairFootprint(f), height |-> height,
       base |-> IF f.ground = {} THEN 0 ELSE Min(f.ground),
       roof |-> RoofOf(f, box, height.height), isPart |-> isPart,
       entrances |-> MatchEntrances(RepairFootprint(f), features)]

\* Polygons touch when they share a cell or have neighbouring ones.
Meets(p, q) == \E c \in p, d \in q : c[1] - d[1] \in -1..1 /\ c[2] - d[2] \in -1..1

\* The parts that are built.
BuiltParts(features) ==
  {f \in features : f.layer = "osm_building_parts" /\ RepairFootprint(f) # {}}

Replaces(part, outline) == Meets(RepairFootprint(part), RepairFootprint(outline))

\* extrude_buildings: an outline that meets a part gives way to the parts.
ExtrudeBuildings(features, box) ==
  {ExtrudeSingle(f, features, FALSE, box) :
     f \in {g \in features :
              /\ g.layer = "osm_buildings"
              /\ RepairFootprint(g) # {}
              /\ ~\E part \in BuiltParts(features) : Replaces(part, g)}}
  \cup {ExtrudeSingle(f, features, TRUE, box) : f \in BuiltParts(features)}
-----------------------------------------------------------------------------
(* Meshes are closed, and a site has each building once.                   *)

Edges(face) == {<<face[i], face[(i % 3) + 1]>> : i \in 1..3}

\* Six times the signed volume below the face.
Det(a, b, c) ==
  a[1] * (b[2] * c[3] - b[3] * c[2]) - a[2] * (b[1] * c[3] - b[3] * c[1])
  + a[3] * (b[1] * c[2] - b[2] * c[1])

Volume(mesh) ==
  MapThenFoldSet(+, 0, LAMBDA f : Det(mesh.vertices[f[1]], mesh.vertices[f[2]], mesh.vertices[f[3]]),
                 LAMBDA S : CHOOSE f \in S : TRUE, mesh.faces)

\* Every edge belongs to two faces that run it in opposite directions.
IsClosed(mesh) ==
  \A face \in mesh.faces : \A e \in Edges(face) :
    /\ Cardinality({g \in mesh.faces : e \in Edges(g)}) = 1
    /\ Cardinality({g \in mesh.faces : <<e[2], e[1]>> \in Edges(g)}) = 1

\* The volumes that the module's introduction (roofs.py 30-37) states; six-fold, for sides
\* of 2 * length and 2 * width.
RoofVolume(box, params) ==
  LET l == 2 * box.length
      w == 2 * box.width
  IN  CASE params.shape \in {"gabled", "skillion"} -> 3 * l * w * params.height
        [] params.shape = "hipped"    -> params.height * (3 * l * w - w * w)
        [] params.shape = "pyramidal" -> 2 * l * w * params.height

\* A box is at least as long as wide; the tags of a roof are numbers or missing, and the table
\* has the tangent of an angle that makes sense; a roof to build has a slope, a ridge of a
\* hipped one lies along the long side.
IsBox(box) == {box.length, box.width} \subseteq Nat \ {0} /\ box.width <= box.length

AreRoofTags(tags) ==
  /\ {tags.height, tags.angle} \subseteq Int
  /\ tags.angle \in 1..89 => tags.angle \in DOMAIN Tan
  /\ tags.direction \in {NoTag, 0, 90, 180, 270}

IsRoof(params) ==
  /\ params.shape \in SUPPORTED_ROOF_SHAPES /\ params.height \in Int /\ params.alongLong \in BOOLEAN
  /\ params.shape # "gabled" => params.alongLong
  /\ params.shape = "skillion" => params.direction \in {<<1, 0>>, <<-1, 0>>, <<0, 1>>, <<0, -1>>}

\* The mesh of walls and roof is closed, looks outwards, and holds the volume stated.
MeshIsSound(box, params, base, eave) ==
  LET mesh == RoofMesh(box, params, base, eave)
  IN  /\ IsClosed(mesh)
      /\ Volume(mesh) = 6 * 4 * box.length * box.width * (eave - base) + RoofVolume(box, params)

\* Whatever the tags say, the walls keep a positive height, a default is never
\* called a fact by the height's source, and a roof is only as tall as its building.
HeightsAreHonest(f, box, overture) ==
  LET height == ComputeHeight(f, overture)
      roof   == RoofOf(f, box, height.height)
  IN  /\ height.height > 0 /\ roof.height < height.height
      /\ height.confidence = "default" <=> f.height <= 0 /\ f.levels <= 0 /\ overture <= 0
      /\ roof.shape = "flat" <=> roof.height = 0

\* No two solids of an outline and a part meet, no part is lost, and an outline is
\* only given up for a part that is built.
EachBuildingOnce(features, box) ==
  LET solids == ExtrudeBuildings(features, box)
      built  == {s.id : s \in solids}
  IN  /\ \A s, t \in solids : s.isPart # t.isPart => ~Meets(s.footprint, t.footprint)
      /\ \A f \in features :
           /\ f.layer = "osm_building_parts" /\ RepairFootprint(f) # {} => f.id \in built
           /\ f.layer = "osm_buildings" /\ RepairFootprint(f) # {} /\ f.id \notin built =>
                \E s \in solids : s.isPart /\ Meets(s.footprint, RepairFootprint(f))
      /\ \A s \in solids : \A e \in features :
           e.layer = "osm_entrances" /\ e.at \in s.footprint => e.id \in s.entrances
=============================================================================
