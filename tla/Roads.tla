-------------------------------- MODULE Roads --------------------------------
(***************************************************************************)
(* Roads: their class and width (geometry/road_network.py, geometry/        *)
(* roads.py), bridges with their clearance (geometry/bridges.py) and the    *)
(* lanes of osm2streets with curbs (geometry/streets.py).                   *)
(*                                                                         *)
(* A feature is [id, layer, multi, parts, bridge, width, class]; parts are  *)
(* its lines of some length, width is in decimetres or not a number.  Lanes *)
(* lie in a section: a polygon is a set of cells, two polygons touch when   *)
(* they have equal or neighbouring cells.                                   *)
(***************************************************************************)
EXTENDS Integers, FiniteSets, FiniteSetsExt, Sequences

\* A tag that is missing; a width that float refuses is -1.
None == "none"
-----------------------------------------------------------------------------
(* road_network.py and roads.py.                                           *)

BACKBONE_HIGHWAY_CLASSES ==
  {"motorway", "motorway_link", "trunk", "trunk_link", "primary", "primary_link",
   "secondary", "secondary_link", "tertiary", "tertiary_link"}

ClassifyRoadNetwork(class) == IF class \in BACKBONE_HIGHWAY_CLASSES THEN "backbone" ELSE "internal"

WIDTH_BY_HIGHWAY_CLASS ==
  [motorway |-> 150, trunk |-> 120, primary |-> 100, secondary |-> 90, tertiary |-> 70,
   residential |-> 60, living_street |-> 50, service |-> 40, track |-> 30, pedestrian |-> 40,
   footway |-> 15, cycleway |-> 20, path |-> 10]

DEFAULT_WIDTH == 50

IsBridge(f) == f.layer = "osm_roads" /\ f.bridge \notin {None, "no"}

\* compute_width_m: the tag, if it is a positive number, else by class.
ComputeWidth(f) ==
  IF f.width > 0 THEN [width |-> f.width, confidence |-> "fact"]
  ELSE [width |-> IF f.class \in DOMAIN WIDTH_BY_HIGHWAY_CLASS THEN WIDTH_BY_HIGHWAY_CLASS[f.class]
                  ELSE DEFAULT_WIDTH,
        confidence |-> "default"]

\* build_road_ribbons; axis: whether there is one to rebuild the ribbon from.
RoadRibbons(features) ==
  {[id |-> f.id, width |-> ComputeWidth(f), network |-> ClassifyRoadNetwork(f.class),
    axis |-> f.parts = 1] :
     f \in {g \in features : g.layer = "osm_roads" /\ ~IsBridge(g) /\ g.parts > 0}}

\* rebuild_road_ribbon: when it raises none of its three errors; only the axis changes.
CanRebuild(road, newLength) == road.network = "internal" /\ road.axis /\ newLength > 0
-----------------------------------------------------------------------------
(* bridges.py.  A height is known or Unknown; positions along the axis go   *)
(* from 0 to length, deck heights are multiplied by length.                 *)

Unknown == -1000

CLEARANCE == [road |-> 5, rail |-> 6]

OrZero(z) == IF z = Unknown THEN 0 ELSE z

\* abutment_elevation_fn: between the heights of the ground at the ends.
Deck(bridge, at) ==
  OrZero(bridge.z0) * bridge.length + (OrZero(bridge.z1) - OrZero(bridge.z0)) * at

\* _clearances_at_crossings: where an axis crosses and the ground is known.
Clearances(bridge, crossings, kind) ==
  {Deck(bridge, c.at) - c.ground * bridge.length :
     c \in {d \in crossings : d.kind = kind /\ d.ground # Unknown}}

\* Mutant: the lower of the two norms.
LiftByRoad(bridge, crossings) ==
  LET all == Clearances(bridge, crossings, "road") \cup Clearances(bridge, crossings, "rail")
  IN  IF all = {} THEN 0 ELSE Max({0, CLEARANCE.road * bridge.length - Min(all)})

\* build_bridge_ribbons: by how much the deck is raised.
Lift(bridge, crossings) ==
  LET Deficit(kind) == LET found == Clearances(bridge, crossings, kind)
                       IN  IF found = {} THEN 0 ELSE CLEARANCE[kind] * bridge.length - Min(found)
  IN  Max({Deficit("road"), Deficit("rail"), 0})

\* build_bridge_ribbons: the clearance it states, and whether the deck is the official one.
BridgeRibbon(bridge, crossings) ==
  LET all == Clearances(bridge, crossings, "road") \cup Clearances(bridge, crossings, "rail")
      lift == Lift(bridge, crossings)
  IN  [lift |-> lift, official |-> lift = 0,
       clearance |-> IF all = {} THEN {} ELSE {Min(all) + lift}]

\* build_bridge_ribbons takes a bridge only with one line.
HasDeck(f) == IsBridge(f) /\ ~f.multi /\ f.parts = 1
-----------------------------------------------------------------------------
(* streets.py.  osm2streets gives lanes [ways, type, cells] and areas       *)
(* (intersections and markings); tagsOf gives [highway, surface] per way.   *)

\* The classes of UNPAVED_SURFACES the instances need.
UNPAVED_SURFACES == {"unpaved", "compacted", "gravel", "ground", "dirt", "grass", "sand"}

Tags(way, tagsOf) == IF way \in DOMAIN tagsOf THEN tagsOf[way] ELSE [highway |-> None, surface |-> None]

FirstTag(ways, tagsOf, key) ==
  LET with == {i \in DOMAIN ways : Tags(ways[i], tagsOf)[key] # None}
  IN  IF with = {} THEN None ELSE Tags(ways[Min(with)], tagsOf)[key]

\* _surface_of and _surface_for_lane: a verge is grass whatever the road is.
SurfaceForLane(lane, tagsOf) ==
  IF lane.type = "Buffer(Verge)" THEN "grass"
  ELSE FirstTag(lane.ways, tagsOf, "surface")

\* _network_of: the first way with a class.
NetworkOf(ways, tagsOf) == ClassifyRoadNetwork(FirstTag(ways, tagsOf, "highway"))

\* _localize_features: what is left inside of the circle.
Localized(shapes, circle) ==
  {[s EXCEPT !.cells = @ \cap circle] : s \in {t \in shapes : t.cells \cap circle # {}}}

CellsOfType(lanes, ways, type) == UNION {l.cells : l \in {k \in lanes : k.ways = ways /\ k.type = type}}

\* _build_curb_strips: between a cell and the next one where the carriageway and the
\* pavement of one road have a common border.
Curbs(lanes, tagsOf) ==
  {x \in {l.ways : l \in lanes} \X UNION {l.cells : l \in lanes} :
     LET Ahead(type) == x[2] + 1 \in CellsOfType(lanes, x[1], type)
         Here(type) == x[2] \in CellsOfType(lanes, x[1], type)
     IN  /\ \A i \in DOMAIN x[1] : Tags(x[1][i], tagsOf).surface \notin UNPAVED_SURFACES
         /\ \/ Here("Driving") /\ Ahead("Sidewalk")
            \/ Here("Sidewalk") /\ Ahead("Driving")}

Touch(S, T) == \E c \in S, d \in T : c - d \in {-1, 0, 1}

\* build_lane_network.  A curb has the network of its road, whose lanes it lies on, so it
\* adds nothing to backbone_union.
LaneNetwork(lanes, areas, tagsOf, circle) ==
  LET here == Localized(lanes, circle)
      backbone == UNION {l.cells : l \in {k \in here : NetworkOf(k.ways, tagsOf) = "backbone"}}
  IN  [lanes |-> {[lane |-> l, surface |-> SurfaceForLane(l, tagsOf), network |-> NetworkOf(l.ways, tagsOf)] : l \in here},
       curbs |-> Curbs(here, tagsOf),
       areas |-> {[area |-> a, network |-> IF Touch(a.cells, backbone) THEN "backbone" ELSE "internal"] :
                    a \in Localized(areas, circle)}]
-----------------------------------------------------------------------------
\* A road is drawn once, on the ground or as a bridge, and only a bridge of several lines
\* is not drawn at all; no road that leads traffic through the site can be rebuilt.
\* After the lift every crossing the bridge is checked against, with an axis of one piece on
\* known ground (assemble_ifc hands in no other, and no other bridge), has the clearance of
\* its own kind, some crossing has no more than that, and an unlifted deck rests on the ground.
RoadsAreWhole(features, bridge, crossings) ==
  LET ribbons == RoadRibbons(features)
      b == BridgeRibbon(bridge, crossings)
  IN  /\ \A f \in features : f.layer = "osm_roads" /\ f.parts > 0 =>
           /\ Cardinality({r \in ribbons : r.id = f.id}) + (IF HasDeck(f) THEN 1 ELSE 0)
                = IF IsBridge(f) /\ (f.multi \/ f.parts > 1) THEN 0 ELSE 1
           /\ f.class \in BACKBONE_HIGHWAY_CLASSES => \A r \in ribbons : r.id = f.id => ~CanRebuild(r, 1)
      /\ \A c \in crossings : c.ground # Unknown =>
           Deck(bridge, c.at) + b.lift - c.ground * bridge.length >= CLEARANCE[c.kind] * bridge.length
      /\ ~b.official => \E c \in crossings :
           Deck(bridge, c.at) + b.lift - c.ground * bridge.length = CLEARANCE[c.kind] * bridge.length
      /\ b.official => Deck(bridge, bridge.length) = OrZero(bridge.z1) * bridge.length
      /\ \A z \in b.clearance : z >= CLEARANCE.road * bridge.length

\* The lanes fit together.  A curb runs wherever a carriageway meets a pavement of the
\* same paved road inside of the circle and nowhere else; a lane of one road has the network
\* that the road's ribbon has; an intersection belongs to the backbone exactly when one
\* of its lanes does; grass beside an asphalt road stays grass.
LanesFit(lanes, areas, tagsOf, circle) ==
  LET n == LaneNetwork(lanes, areas, tagsOf, circle)
      Paved(ways) == \A i \in DOMAIN ways : Tags(ways[i], tagsOf).surface \notin UNPAVED_SURFACES
  IN  /\ \A l, k \in n.lanes : \A c \in l.lane.cells :
           l.lane.ways = k.lane.ways /\ {l.lane.type, k.lane.type} = {"Driving", "Sidewalk"}
             /\ c + 1 \in k.lane.cells
           => (Paved(l.lane.ways) <=> <<l.lane.ways, c>> \in n.curbs)
      /\ \A x \in n.curbs : {x[2], x[2] + 1} \subseteq circle
      /\ \A l \in n.lanes : Len(l.lane.ways) = 1 =>
           l.network = ClassifyRoadNetwork(Tags(l.lane.ways[1], tagsOf).highway)
      /\ \A a \in n.areas : a.network = "backbone" <=>
           \E l \in n.lanes : l.network = "backbone" /\ Touch(a.area.cells, l.lane.cells)
      /\ \A l \in n.lanes : l.lane.type = "Buffer(Verge)" => l.surface = "grass"
=============================================================================
