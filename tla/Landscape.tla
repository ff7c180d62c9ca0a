------------------------------ MODULE Landscape ------------------------------
(***************************************************************************)
(* Vegetation (geometry/vegetation.py) and water (geometry/water.py), with   *)
(* the normalised tags they read (selection/normalize.py).                  *)
(*                                                                         *)
(* A feature of vegetation is [id, polygons, landuse, natural, leaf]; a       *)
(* polygon is a set of cells, CellsPerHectare of them to a hectare.  The      *)
(* points that the random generator draws are an input.                     *)
(***************************************************************************)
EXTENDS Integers, FiniteSets, FiniteSetsExt, Sequences, SequencesExt
-----------------------------------------------------------------------------
(* vegetation.py.                                                          *)

CellsPerHectare == 1000

Density(leaf) ==
  CASE leaf = "needleleaved" -> 500 [] leaf = "mixed" -> 400 [] leaf = "broadleaved" -> 350 [] OTHER -> 400

SHRUB_DENSITY == 1500
MAX_PLACEMENT_ATTEMPTS_PER_TREE == 20

\* round: half to even.
Rounded(numerator, denominator) ==
  LET whole == numerator \div denominator
      rest  == 2 * (numerator % denominator)
  IN  IF rest > denominator \/ (rest = denominator /\ whole % 2 = 1) THEN whole + 1 ELSE whole

TargetCount(polygon, density) == Rounded(Cardinality(polygon) * density, CellsPerHectare)

\* _scatter_points: rejection sampling among the first attempts.
Scatter(polygon, target, draws) ==
  LET attempts == Min({Len(draws), target * MAX_PLACEMENT_ATTEMPTS_PER_TREE})
  IN  FoldLeft(LAMBDA placed, c : IF Len(placed) < target /\ c \in polygon THEN Append(placed, c) ELSE placed,
               <<>>, [i \in 1..attempts |-> draws[i]])

\* build_individual_trees: a species that is unknown is no fact.
IndividualTree(species, height) ==
  [species |-> IF species = "" THEN "tree" ELSE species,
   confidence |-> IF species = "" THEN "default" ELSE "fact",
   height |-> IF height > 0 THEN height ELSE 80,
   heightConfidence |-> IF height > 0 THEN "fact" ELSE "default"]

\* normalize_vegetation: the species, the genus, or the kind of leaf.
LEAF_TYPE_LABELS == {"broadleaved", "needleleaved", "mixed"}

NormalizeVegetation(tags) ==
  CASE tags.species # "" -> tags.species
    [] tags.species = "" /\ tags.genus # "" -> tags.genus
    [] tags.species = "" /\ tags.genus = "" /\ tags.leaf \in LEAF_TYPE_LABELS -> tags.leaf
    [] OTHER -> ""

IsGrass(f) == f.landuse = "grass"
IsScrub(f) == f.natural = "scrub"

\* scatter_forest_trees, build_lawns and scatter_shrubs: whose polygons they take.
Forests(features) == {f \in features : ~IsGrass(f) /\ ~IsScrub(f)}
Lawns(features)   == {f \in features : IsGrass(f)}
Shrubs(features)  == {f \in features : IsScrub(f)}

ScatterTrees(features, draws) ==
  UNION {{[id |-> f.id, trees |-> Scatter(p, TargetCount(p, Density(f.leaf)), draws[p])] : p \in f.polygons} :
         f \in Forests(features)}

ScatterShrubs(features, draws) ==
  UNION {{[id |-> f.id, trees |-> Scatter(p, TargetCount(p, SHRUB_DENSITY), draws[p])] : p \in f.polygons} :
         f \in Shrubs(features)}

BuildLawns(features) == UNION {{[id |-> f.id, polygon |-> p] : p \in f.polygons} : f \in Lawns(features)}
-----------------------------------------------------------------------------
(* water.py.  Coordinates are integers that the smoothing multiplies by four *)
(* in each of its rounds.                                                  *)

\* _chaikin_cut.
Cut(p, q) == <<<<3 * p[1] + q[1], 3 * p[2] + q[2]>>, <<p[1] + 3 * q[1], p[2] + 3 * q[2]>>>>

Scaled(p) == <<4 * p[1], 4 * p[2]>>

\* The first n corners, each cut into two; after the last vertex comes the first.
Cuts(pts, n) ==
  [k \in 1 .. 2 * n |->
     LET i == (k + 1) \div 2
     IN  Cut(pts[i], pts[(i % Len(pts)) + 1])[IF k % 2 = 1 THEN 1 ELSE 2]]

\* One round for a ring of three vertices or more, given without its closing vertex.
SmoothClosed(pts) == Cuts(pts, Len(pts))

\* Mutant: the ends are cut as the other corners are.
SmoothLoose(pts) == Cuts(pts, Len(pts) - 1)

\* One round for a line, whose ends stay.
SmoothOpen(pts) == <<Scaled(Head(pts))>> \o Cuts(pts, Len(pts) - 1) \o <<Scaled(Last(pts))>>

\* _chaikin_smooth_closed and _chaikin_smooth_open: both rounds, if there is a corner.
Smoothed(pts, closed) ==
  LET round(s) == IF closed THEN SmoothClosed(s) ELSE SmoothOpen(s)
  IN  IF Len(pts) < 3 THEN [i \in 1..Len(pts) |-> Scaled(Scaled(pts[i]))] ELSE round(round(pts))

WATER_AREA_ELONGATION_RATIO == 3

\* _long_axis_line: only of a water area that is long and narrow.
HasAxis(area) == area.short > 0 /\ area.long >= WATER_AREA_ELONGATION_RATIO * area.short

\* _water_area_level: by the profile of the axis, else the lowest known height of
\* the outline everywhere; at: the level at each vertex of the outline.
WaterAreaLevel(area) ==
  LET known == {z \in Range(area.ground) : z # area.unknown}
      flat  == IF known = {} THEN 0 ELSE Min(known)
  IN  IF HasAxis(area) THEN [at |-> area.profile, level |-> Min(Range(area.profile))]
      ELSE [at |-> [i \in DOMAIN area.ground |-> flat], level |-> flat]

-----------------------------------------------------------------------------
(* What a site promises of its green and of its water.                      *)

\* No tree stands on grass or scrub, no shrub but on scrub - a lawn that is scrub as well has
\* shrubs on it -, none outside its polygon, and never more than the density asks for,
\* however the draws fall; each polygon of grass is a lawn, whatever else it is.
GreenIsSorted(features, draws) ==
  /\ \A t \in ScatterTrees(features, draws) : \E f \in features :
       /\ f.id = t.id /\ ~IsGrass(f) /\ ~IsScrub(f)
       /\ \E p \in f.polygons :
            /\ Range(t.trees) \subseteq p
            /\ Len(t.trees) <= TargetCount(p, Density(f.leaf))
  /\ \A s \in ScatterShrubs(features, draws) : \E f \in Shrubs(features) :
       f.id = s.id /\ \E p \in f.polygons : Range(s.trees) \subseteq p /\ Len(s.trees) <= TargetCount(p, SHRUB_DENSITY)
  /\ {l.id : l \in BuildLawns(features)} = {f.id : f \in {g \in features : g.landuse = "grass" /\ g.polygons # {}}}

\* A tree is of a species that a tag names, the most exact one, or is said to be of none; and
\* its height likewise.
TreesAreHonest(tags, height) ==
  LET tree  == IndividualTree(NormalizeVegetation(tags), height)
      named == tags.species # "" \/ tags.genus # "" \/ tags.leaf \in LEAF_TYPE_LABELS
  IN  /\ tree.confidence = "fact" <=> named
      /\ named => tree.species \in {tags.species, tags.genus, tags.leaf} \ {""}
      /\ tags.species # "" => tree.species = tags.species
      /\ tree.heightConfidence = "fact" <=> height > 0

\* Streams that share an end still share it when smoothed; a ring stays in its box;
\* and the level noted for a water area is nowhere above its surface.
WaterMeets(s, t, ring, area) ==
  LET end(line, first) == IF first THEN Head(line) ELSE Last(line)
      box(pts, axis)   == {pts[i][axis] : i \in DOMAIN pts}
      smooth           == Smoothed(ring, TRUE)
  IN  /\ \A a, b \in BOOLEAN : end(s, a) = end(t, b) => end(Smoothed(s, FALSE), a) = end(Smoothed(t, FALSE), b)
      /\ \A axis \in {1, 2} : \A c \in box(smooth, axis) :
           16 * Min(box(ring, axis)) <= c /\ c <= 16 * Max(box(ring, axis))
      /\ \A z \in Range(WaterAreaLevel(area).at) : WaterAreaLevel(area).level <= z
=============================================================================
