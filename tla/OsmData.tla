------------------------------- MODULE OsmData -------------------------------
(***************************************************************************)
(* The data of a site: the selection around its centre (selection/query.py,  *)
(* clip.py, service.py) with normalised tags (selection/normalize.py), the   *)
(* zone of the coordinate system and the calibration of heights (coords.py), *)
(* the log and the audit of imports (osm/import_log.py, osm/audit.py) and the *)
(* roads for osm2streets (osm/raw_roads.py).                                 *)
(***************************************************************************)
EXTENDS Integers, FiniteSets, FiniteSetsExt, Sequences
-----------------------------------------------------------------------------
(* selection: a raw feature is [id, layer, far, near, tags]: far, its least   *)
(* distance from the centre on the ellipsoid, in metres; near, the same in    *)
(* the projection, in which the circle is cut.                               *)

DEFAULT_MARGIN == 50

\* fetch_features_in_buffer.
FetchFeatures(raw, radius) == {f \in raw : f.far <= radius + DEFAULT_MARGIN}

\* clip_and_localize: whether anything is left of it.
Clipped(f, radius) == f.near <= radius

Fact(value, default, ok) ==
  [value |-> IF ok THEN value ELSE default, confidence |-> IF ok THEN "fact" ELSE "default"]

\* normalize_building and normalize_building_part: from building or building:part;
\* a number of storeys that is not positive is no fact.
NormalizeBuilding(type, levels) ==
  [type |-> Fact(type, "yes", type # ""), levels |-> Fact(levels, 1, levels > 0)]

NormalizeEntrance(type) == Fact(type, "yes", type # "")

\* normalize_road: surface and lanes have no default; 0 and "": no value.
NormalizeRoad(highway, surface, lanes) ==
  [class   |-> Fact(highway, "unclassified", highway # ""),
   surface |-> Fact(surface, "", surface # ""),
   lanes   |-> Fact(lanes, 0, lanes > 0)]

\* normalize_power: volts to kilovolts.
NormalizePower(volts) == Fact(volts \div 1000, 0, volts > 0)

\* select_site_data.
SelectSiteData(raw, radius) == {f.id : f \in {g \in FetchFeatures(raw, radius) : Clipped(g, radius)}}
-----------------------------------------------------------------------------
(* coords.py: longitudes in hundredths of a degree.                         *)

MSK59_LON0 == <<5355, 5655, 5955>>

Apart(a, b) == IF a > b THEN a - b ELSE b - a

\* pick_msk59_zone: the first of the nearest; 0: ValueError.
PickMsk59Zone(lon) ==
  LET nearest == CHOOSE z \in 1..3 : \A y \in 1..3 :
                   \/ Apart(lon, MSK59_LON0[z]) < Apart(lon, MSK59_LON0[y])
                   \/ Apart(lon, MSK59_LON0[z]) = Apart(lon, MSK59_LON0[y]) /\ z <= y
  IN  IF Apart(lon, MSK59_LON0[nearest]) > 200 THEN 0 ELSE nearest

\* The sum of v times w; n is one, so that it counts.
SumOver(points, v, w) ==
  LET Value(p, name) == IF name = "n" THEN 1 ELSE p[name]
  IN  FoldFunction(+, 0, [i \in DOMAIN points |-> Value(points[i], v) * Value(points[i], w)])

Det3(m) ==
  m[1][1] * (m[2][2] * m[3][3] - m[2][3] * m[3][2])
  - m[1][2] * (m[2][1] * m[3][3] - m[2][3] * m[3][1])
  + m[1][3] * (m[2][1] * m[3][2] - m[2][2] * m[3][1])

\* _solve_3x3 (Cramer): the numerators; whole: the common denominator.
Column(a, b, k) == [i \in 1..3 |-> [j \in 1..3 |-> IF j = k THEN b[i] ELSE a[i][j]]]

Solve3x3(a, b) == [x |-> [k \in 1..3 |-> Det3(Column(a, b, k))], whole |-> Det3(a)]

\* fit_height_offset: the mean of one or two differences, a plane by least squares of
\* more; points [x, y, d] are relative to the first one.
FitHeightOffset(points) ==
  LET unknowns == <<"x", "y", "n">>
      row == [i \in 1..3 |-> [j \in 1..3 |-> SumOver(points, unknowns[i], unknowns[j])]]
      right == [i \in 1..3 |-> SumOver(points, unknowns[i], "d")]
  IN  IF Len(points) < 3 THEN [x |-> <<0, 0, right[3]>>, whole |-> Len(points)] ELSE Solve3x3(row, right)

\* HeightOffsetModel.apply, times the denominator: what it adds at a point.
Applied(model, p) == model.x[1] * p.x + model.x[2] * p.y + model.x[3]
-----------------------------------------------------------------------------
(* import_log.py: rows [source, timestamp] in the order of their insertion. *)

\* latest_import and all_latest_sources, by the time of the data.
LatestImport(log, source) ==
  LET rows == {i \in DOMAIN log : log[i].source = source}
      newest == {i \in rows : \A j \in rows : log[j].timestamp <= log[i].timestamp}
  IN  IF rows = {} THEN 0 ELSE log[CHOOSE i \in newest : TRUE].timestamp

AllLatestSources(log) ==
  {[source |-> s, timestamp |-> LatestImport(log, s)] : s \in {log[i].source : i \in DOMAIN log}}
-----------------------------------------------------------------------------
(* audit.py.                                                               *)

\* _layer_completeness of the elements in the boundary; tagged: those with the tag.
LayerCompleteness(elements, tagged) ==
  LET scoped == {e \in elements : e.inside}
  IN  [total |-> Cardinality(scoped), complete |-> Cardinality(scoped \cap tagged)]

\* suggest_decisions, for the thresholds 0.8 and 0.4; no element at all counts as none.
Decision(layer) ==
  CASE layer.total > 0 /\ 10 * layer.complete >= 8 * layer.total -> "enough"
    [] layer.total > 0 /\ 10 * layer.complete < 8 * layer.total /\ 10 * layer.complete >= 4 * layer.total -> "by hand"
    [] OTHER -> "other source"

\* compare_to_reference.
Missing(found, reference) == Max({reference - found, 0})
-----------------------------------------------------------------------------
(* raw_roads.py: a road is [id, nodes, coords].                             *)

Consistent(road) == Len(road.nodes) = Len(road.coords) /\ Len(road.coords) >= 2

\* Mutant: every road has its way, but only the consistent ones their nodes.
WaysOfAll(roads) == {roads[i].id : i \in DOMAIN roads}

Ways(roads) == {roads[i].id : i \in {j \in DOMAIN roads : Consistent(roads[j])}}

\* build_osm_xml: the place of a node is where the first road has it.
Nodes(roads) ==
  LET places   == UNION {{i} \X DOMAIN roads[i].nodes : i \in {j \in DOMAIN roads : Consistent(roads[j])}}
      uses(n)  == {u \in places : roads[u[1]].nodes[u[2]] = n}
      first(n) == CHOOSE u \in uses(n) : \A v \in uses(n) : u[1] < v[1] \/ (u[1] = v[1] /\ u[2] <= v[2])
      all      == UNION {Range(roads[i].nodes) : i \in {j \in DOMAIN roads : Consistent(roads[j])}}
  IN  [n \in all |-> roads[first(n)[1]].coords[first(n)[2]]]
-----------------------------------------------------------------------------
(* What the data of a site must not lose or invent.                         *)

\* Nothing whose part lies in the circle of the projection is lost by the query on the
\* ellipsoid, and nothing outside of it comes along.
SelectionIsWhole(raw, radius) ==
  SelectSiteData(raw, radius) = {f.id : f \in {g \in raw : g.near <= radius}}

\* What is said to be a fact is what the tag gives, in the unit of the attribute; what a
\* tag does not give is never said to be one.
TagsAreHonest(text, number) ==
  LET IsFact(a, given, value) == (a.confidence = "fact" <=> given) /\ (given => a.value = value)
      building == NormalizeBuilding(text, number)
      road     == NormalizeRoad(text, text, number)
  IN  /\ IsFact(building.type, text # "", text) /\ IsFact(building.levels, number > 0, number)
      /\ building.levels.value > 0
      /\ IsFact(NormalizeEntrance(text), text # "", text)
      /\ IsFact(road.class, text # "", text) /\ IsFact(road.lanes, number > 0, number)
      /\ (number > 0 => NormalizePower(1000 * number) = Fact(number, 0, TRUE))

\* Every longitude of a zone gets that zone, and beyond half a degree of the outer
\* ones there is none.
ZoneIsNearest(lon) ==
  LET zone == PickMsk59Zone(lon)
  IN  /\ \A z \in 1..3 : Apart(lon, MSK59_LON0[z]) < 150 => zone = z
      /\ zone = 0 <=> lon < 5155 \/ lon > 6155

\* Differences that lie in a plane are recovered exactly at every point, unless the
\* points are on a line; one or two get their mean, so an equal difference stays.
PlaneIsRecovered(places, a, b, c) ==
  LET points == [i \in DOMAIN places |->
                   [x |-> places[i][1] - places[1][1], y |-> places[i][2] - places[1][2],
                    d |-> a * (places[i][1] - places[1][1]) + b * (places[i][2] - places[1][2]) + c]]
      model  == FitHeightOffset(points)
  IN  model.whole # 0 /\ (Len(places) >= 3 \/ (a = 0 /\ b = 0)) =>
        \A i \in DOMAIN points : Applied(model, points[i]) = model.whole * points[i].d

\* A late import of older data does not hide newer data of its source.
LogKeepsNewest(log) ==
  \A i \in DOMAIN log :
    /\ LatestImport(log, log[i].source) >= log[i].timestamp
    /\ Cardinality({r \in AllLatestSources(log) : r.source = log[i].source}) = 1

\* Two roads that share a node meet there: each node a way names is there, once.
CrossingsAreKept(roads) ==
  /\ \A i \in DOMAIN roads : roads[i].id \in Ways(roads) => Range(roads[i].nodes) \subseteq DOMAIN Nodes(roads)
  /\ \A n \in DOMAIN Nodes(roads) : \E i \in DOMAIN roads : roads[i].id \in Ways(roads) /\ n \in Range(roads[i].nodes)
  /\ \A i \in DOMAIN roads : Consistent(roads[i]) => roads[i].id \in Ways(roads)

\* A layer with more complete elements never gets a worse decision.
Worth(decision) == CASE decision = "enough" -> 2 [] decision = "by hand" -> 1 [] OTHER -> 0

DecisionsGrow(elements, few, many) ==
  LET less == LayerCompleteness(elements, few)
      more == LayerCompleteness(elements, many)
  IN  /\ less.complete <= more.complete => Worth(Decision(less)) <= Worth(Decision(more))
      /\ Missing(more.complete, more.total) = more.total - more.complete
=============================================================================
