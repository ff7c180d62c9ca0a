-------------------------------- MODULE Siting --------------------------------
(***************************************************************************)
(* Putting a building on a site: the zones the law calculates (constraints/  *)
(* calculated.py), the envelope and the fire breaks (constraints/            *)
(* envelope.py), the territorial zone and the card of a point (constraints/  *)
(* pzz.py, query/point_query.py), networks of a drawing (networks/           *)
(* dxf_import.py), the placement and its checks (siting/building_placement.py,*)
(* siting/checks.py), clearing and access (siting/site_access.py) and the    *)
(* earthworks (siting/vertical_planning.py).                                *)
(*                                                                         *)
(* Areas are sets of cells of a plane that has more cells than any site;     *)
(* distances are Euclidean, between the centres of cells.                    *)
(***************************************************************************)
EXTENDS Integers, FiniteSets, FiniteSetsExt, Sequences

\* A value that is not given.
NoLimit == -1

Squared(p, q) == (p[1] - q[1]) * (p[1] - q[1]) + (p[2] - q[2]) * (p[2] - q[2])

\* BaseGeometry.buffer, of a positive and of a negative distance, and .distance.
Buffer(area, d, plane)  == {c \in plane : \E q \in area : Squared(c, q) <= d * d}
Shrunk(area, d, plane)  == {c \in area : \A q \in plane \ area : Squared(c, q) > d * d}
SquaredGap(area, other) == Min({Squared(p, q) : p \in area, q \in other})

\* intersects: a common cell, or cells that share a side or a corner.
Intersects(area, other) == \E p \in area, q \in other : Squared(p, q) <= 2
-----------------------------------------------------------------------------
(* calculated.py: the first row of the table that reaches the value.        *)

FirstReaching(table, v, beyond) ==
  LET rows == {i \in DOMAIN table : v <= table[i][1]} IN IF rows = {} THEN beyond ELSE table[Min(rows)][2]

CemeterySzz(hectares) == FirstReaching(<<<<10, 50>>, <<20, 100>>, <<40, 300>>>>, hectares, 300)

WaterProtectionZone(kilometres) == FirstReaching(<<<<10, 50>>, <<50, 100>>>>, kilometres, 200)

\* calculate_coastal_protective_strip_m: of a slope in degrees, unknown or not.
CoastalStrip(known, slope) ==
  CASE ~known \/ slope <= 0 -> 30 [] known /\ 0 < slope /\ slope < 3 -> 40 [] OTHER -> 50

NetworkZones ==
  [V |-> <<<<300, 5>>, <<1000000, 10>>>>, K |-> <<<<300, 5>>, <<1000000, 10>>>>, T |-> <<<<1000000, 3>>>>,
   G |-> <<<<300, 2>>, <<1000000, 7>>>>, Kl |-> <<<<1000000, 1>>>>]

NetworkProtectionZone(type, diameter) ==
  LET table == NetworkZones[type] IN FirstReaching(table, diameter, table[Len(table)][2])

\* zones_needing_calculation: no official zone of the kind meets the bbox.
NeedsCalculation(zones, bbox, type) ==
  ~\E z \in zones : Intersects(z.area, bbox) /\ z.type = type /\ z.official
-----------------------------------------------------------------------------
(* envelope.py.                                                            *)

\* Mutant: only one of the zones is taken away.
AllowedByFirst(site, setback, zones, plane) ==
  Shrunk(site, setback, plane) \ (IF zones = {} THEN {} ELSE (CHOOSE z \in zones : TRUE).area)

\* compute_building_envelope: the site without its setback and the zones.
Allowed(site, setback, zones, plane) ==
  Shrunk(site, setback, plane) \ UNION {z.area : z \in zones}

\* The lowest of the limits there are.
MaxHeight(pzz, zones) ==
  LET limits == {h \in {pzz.maxHeight} \cup {z.maxHeight : z \in zones} : h # NoLimit}
  IN  IF limits = {} THEN NoLimit ELSE Min(limits)

BuildingEnvelope(site, pzz, zones, plane) ==
  [footprint |-> Allowed(site, pzz.setback, zones, plane), maxHeight |-> MaxHeight(pzz, zones)]

FIRE_RESISTANCE_DEGREES == {"I-II", "III", "IV-V"}

FIRE_BREAK ==
  <<<<"I-II", "I-II", 6>>, <<"I-II", "III", 8>>, <<"I-II", "IV-V", 10>>,
    <<"III", "III", 8>>, <<"III", "IV-V", 10>>, <<"IV-V", "IV-V", 15>>>>

\* check_fire_break_m: the pair as given, else the other way around.
CheckFireBreak(a, b) ==
  LET row(x, y) == {r \in Range(FIRE_BREAK) : r[1] = x /\ r[2] = y}
      found     == IF row(a, b) # {} THEN row(a, b) ELSE row(b, a)
  IN  (CHOOSE r \in found : TRUE)[3]
-----------------------------------------------------------------------------
(* pzz.py, constraints/store.py and point_query.py: what is at a point.     *)

\* find_pzz_zone_for_point: LIMIT 1 without an order, so any of those there.
PzzZonesAt(zones, p) == {z \in zones : p \in z.area}

\* find_zones_near_point: the current ones by their distance; of those as near, any first.
ZonesNear(zones, p, distance) ==
  LET Gap(z) == SquaredGap(z.area, {p})
      near   == {z \in zones : z.current /\ Gap(z) <= distance * distance}
  IN  CHOOSE s \in [1..Cardinality(near) -> near] :
        \A i, j \in DOMAIN s : i < j => s[i] # s[j] /\ Gap(s[i]) <= Gap(s[j])

\* query_point and to_grouped_dict: one restriction and one source a zone, a link
\* where there is a document.
PointCard(zones, p, distance) ==
  LET near == ZonesNear(zones, p, distance)
  IN  [restrictions |-> [i \in DOMAIN near |-> near[i].id],
       sources      |-> [i \in DOMAIN near |-> near[i].id],
       links        |-> {near[i].id : i \in {j \in DOMAIN near : near[j].document}}]
-----------------------------------------------------------------------------
(* dxf_import.py: a text is [at, height]; height NoLimit: it names none.    *)

NORMATIVE_DEPTH == [K |-> 15, V |-> 18, T |-> 7, G |-> 8, Kl |-> 7]

\* _nearby_text_value: the last of the nearest within the distance.
NearbyText(texts, p, snap) ==
  LET near == {i \in DOMAIN texts : Squared(texts[i].at, p) <= snap * snap}
      best == {i \in near : \A j \in near : Squared(texts[i].at, p) <= Squared(texts[j].at, p)}
  IN  IF near = {} THEN NoLimit ELSE texts[Max(best)].height

\* import_dxf: a segment of a known or unknown ("none") kind of network.
ImportedSegment(layer, middle, texts, snap) ==
  LET label == NearbyText(texts, middle, snap)
  IN  [type   |-> layer,
       height |-> CASE label # NoLimit -> label
                    [] label = NoLimit /\ layer \in DOMAIN NORMATIVE_DEPTH -> -NORMATIVE_DEPTH[layer]
                    [] OTHER -> 0,
       source |-> IF label # NoLimit THEN "fact" ELSE "norm"]

UnmatchedLayers(layers) == layers \ DOMAIN NORMATIVE_DEPTH
-----------------------------------------------------------------------------
(* building_placement.py and checks.py.                                    *)

\* place_building_manually: quarter turns about the origin, then the shift.
Rotated(p, quarters) ==
  CASE quarters = 0 -> p [] quarters = 1 -> <<-p[2], p[1]>>
    [] quarters = 2 -> <<-p[1], -p[2]>> [] quarters = 3 -> <<p[2], -p[1]>>

Placed(footprint, origin, quarters) ==
  {<<Rotated(p, quarters)[1] + origin[1], Rotated(p, quarters)[2] + origin[2]>> : p \in footprint}

Placement(footprint, origin, quarters, site) ==
  LET placed == Placed(footprint, origin, quarters)
  IN  [footprint |-> placed, within |-> placed \subseteq site, overlap |-> Cardinality(placed \cap site)]

\* run_all_checks: what it reports of a footprint.
Collisions(footprint, envelope, zones, networks, clearance) ==
  (IF footprint \subseteq envelope THEN {} ELSE {<<"envelope", "envelope">>})
  \cup {<<"zone", z.id>> : z \in {y \in zones : Intersects(footprint, y.area)}}
  \cup {<<"network", n.id>> :
          n \in {m \in networks : SquaredGap(footprint, m.area) < clearance * clearance}}
-----------------------------------------------------------------------------
(* site_access.py.                                                         *)

Removed(features, footprint) == {f \in features : Intersects(f.area, footprint)}
Kept(features, footprint)    == {f \in features : ~Intersects(f.area, footprint)}

\* build_access_road: to the nearest road, by the first of the shortest ways.
AccessRoads(site, roads) ==
  {[to |-> r.id, confirm |-> r.network = "backbone"] :
     r \in {q \in roads : \A o \in roads : SquaredGap(site, q.area) <= SquaredGap(site, o.area)}}
-----------------------------------------------------------------------------
(* vertical_planning.py; relief is a height at each cell of the plane.      *)

\* design_elevation_from_entrances, times the number of entrances.
DesignSum(entrances, relief) == FoldFunction(+, 0, [i \in DOMAIN entrances |-> relief[entrances[i]]])

Positive(n) == IF n > 0 THEN n ELSE 0

\* compute_cut_fill_volumes.
Fill(footprint, design, relief) == MapThenSumSet(LAMBDA c : Positive(design - relief[c]), footprint)
Cut(footprint, design, relief)  == MapThenSumSet(LAMBDA c : Positive(relief[c] - design), footprint)

\* Twice the ratio, and the run that has room.
DEFAULT_SLOPE_RATIO == 3
MAX_SLOPE_RUN_WITHOUT_WALL == 5

\* check_retaining_wall_needed: around the pad, where there is relief.
RetainingWall(ring, design, relief) ==
  LET diffs == {Positive(design - relief[c]) + Positive(relief[c] - design) : c \in ring \cap DOMAIN relief}
  IN  [needed  |-> \E d \in diffs : d * DEFAULT_SLOPE_RATIO > 2 * MAX_SLOPE_RUN_WITHOUT_WALL,
       maxDiff |-> Max(diffs \cup {0})]
-----------------------------------------------------------------------------
(* What the steps guarantee together.                                       *)

\* A building that passes the checks against the envelope computed from the same
\* zones stands on the site by its setback, clear of every zone and network, and
\* under a height that every zone allows.  A zone more only takes room away.
EnvelopeIsSafe(site, pzz, zones, networks, clearance, footprint, plane) ==
  LET envelope == BuildingEnvelope(site, pzz, zones, plane)
      found    == Collisions(footprint, envelope.footprint, zones, networks, clearance)
  IN  /\ found = {} /\ footprint # {} =>
           /\ \A c \in footprint : \A q \in plane \ site : Squared(c, q) > pzz.setback * pzz.setback
           /\ \A z \in zones : footprint \cap z.area = {}
           /\ \A n \in networks : \A c \in footprint, q \in n.area : Squared(c, q) >= clearance * clearance
      /\ \A z \in zones : z.maxHeight # NoLimit => envelope.maxHeight \in 0..z.maxHeight
      /\ envelope.footprint \cap UNION {z.area : z \in zones} = {}
      /\ \A z \in zones :
           LET before == BuildingEnvelope(site, pzz, zones \ {z}, plane)
           IN  /\ envelope.footprint \subseteq before.footprint
               /\ before.maxHeight # NoLimit => envelope.maxHeight \in 0..before.maxHeight

\* Turning and shifting keeps the size of a footprint; all of it overlaps the site
\* exactly when it is within; what is cleared is what meets it.
PlacementIsExact(footprint, origin, quarters, site, features) ==
  LET at == Placement(footprint, origin, quarters, site)
  IN  /\ Cardinality(at.footprint) = Cardinality(footprint)
      /\ at.within <=> at.overlap = Cardinality(footprint)
      /\ Removed(features, at.footprint) \cup Kept(features, at.footprint) = features
      /\ \A f \in Kept(features, at.footprint) : f.area \cap at.footprint = {}

\* The way in is asked for at the network's backbone only, and no road that is nearer to
\* the site than the one it leads to is passed over.
AccessIsNearest(site, roads) ==
  /\ AccessRoads(site, roads) # {} <=> roads # {}
  /\ \A a \in AccessRoads(site, roads) : \E r \in roads :
       /\ r.id = a.to /\ (a.confirm <=> r.network = "backbone")
       /\ ~\E o \in roads : SquaredGap(site, o.area) < SquaredGap(site, r.area)

\* Earth that is cut and filled balances the difference of the levels, no slope without a
\* wall is longer than there is room for, and the level planned from the entrances is
\* between them.
EarthworksBalance(footprint, ring, design, relief, entrances) ==
  /\ \E i, j \in DOMAIN entrances :
       /\ Len(entrances) * relief[entrances[i]] <= DesignSum(entrances, relief)
       /\ DesignSum(entrances, relief) <= Len(entrances) * relief[entrances[j]]
  /\ Fill(footprint, design, relief) - Cut(footprint, design, relief)
       = MapThenSumSet(LAMBDA c : design - relief[c], footprint)
  /\ ~RetainingWall(ring, design, relief).needed =>
       RetainingWall(ring, design, relief).maxDiff * DEFAULT_SLOPE_RATIO <= 2 * MAX_SLOPE_RUN_WITHOUT_WALL

\* Zones of the law grow with what they protect from, and the norm's own limits are still
\* in the lower class, as each table says of its upper bounds (a slope's are the other way
\* about).  For gas the note above the table puts 300 mm into the larger class: the table,
\* which says its bounds are included, has them in the smaller, and the table is stated.
\* A fire break does not depend on who is asked about first.
NormsAreOrdered(v, w, a, b) ==
  /\ v <= w => /\ CemeterySzz(v) <= CemeterySzz(w)
               /\ WaterProtectionZone(v) <= WaterProtectionZone(w)
               /\ CoastalStrip(TRUE, v) <= CoastalStrip(TRUE, w)
               /\ CoastalStrip(FALSE, v) <= CoastalStrip(TRUE, w)
               /\ \A t \in DOMAIN NetworkZones : NetworkProtectionZone(t, v) <= NetworkProtectionZone(t, w)
  /\ CheckFireBreak(a, b) = CheckFireBreak(b, a)
  /\ CemeterySzz(v) = 50 <=> v <= 10
  /\ CemeterySzz(v) = 300 <=> 20 < v
  /\ WaterProtectionZone(v) = 50 <=> v <= 10
  /\ WaterProtectionZone(v) = 200 <=> 50 < v
  /\ CoastalStrip(TRUE, v) = 30 <=> v <= 0
  /\ CoastalStrip(TRUE, v) = 50 <=> 3 <= v
  /\ NetworkProtectionZone("V", v) = 5 <=> v <= 300
  /\ NetworkProtectionZone("K", v) = 5 <=> v <= 300
  /\ NetworkProtectionZone("G", v) = 2 <=> v <= 300

\* The card lists the zones from the nearest on, each once and only current ones, with
\* a link for each of them that has a document.
CardIsOrdered(zones, p, distance) ==
  LET near == ZonesNear(zones, p, distance)
      card == PointCard(zones, p, distance)
  IN  /\ \A i, j \in DOMAIN near : i < j => SquaredGap(near[i].area, {p}) <= SquaredGap(near[j].area, {p})
      /\ Range(card.restrictions) = {z.id : z \in {y \in zones : y.current /\ SquaredGap(y.area, {p}) <= distance * distance}}
      /\ card.links = {z.id : z \in {y \in Range(near) : y.document}} /\ card.links \subseteq Range(card.sources)

\* Zones that do not overlap give one answer at a point; a zone the law calculates is
\* asked for until there is an official one of its kind, never because of a calculated one.
OneZoneAnswers(zones, p, type) ==
  /\ (\A y, z \in zones : y = z \/ y.area \cap z.area = {}) => Cardinality(PzzZonesAt(zones, p)) <= 1
  /\ NeedsCalculation(zones, {p}, type) = NeedsCalculation({z \in zones : z.official}, {p}, type)
  /\ \A z \in PzzZonesAt(zones, p) : z.official => ~NeedsCalculation(zones, {p}, z.type)

\* A depth that no label gives is below the ground and said to be the norm's; one
\* that is said to be a fact stands on a label within the distance.
DepthsAreHonest(layer, middle, texts, snap) ==
  LET s == ImportedSegment(layer, middle, texts, snap)
  IN  /\ s.source = "fact" <=> \E i \in DOMAIN texts : /\ Squared(texts[i].at, middle) <= snap * snap
                                                      /\ texts[i].height = s.height
                                                      /\ NearbyText(texts, middle, snap) = s.height
      /\ s.source = "norm" /\ layer \notin UnmatchedLayers({layer}) => s.height < 0
=============================================================================
