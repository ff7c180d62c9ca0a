---------------------------- MODULE LinearObjects ----------------------------
(***************************************************************************)
(* What is built along lines: power lines with poles, wires, substations and *)
(* safety zones (geometry/power.py), railways with ballast, platforms,       *)
(* crossings and catenary poles (geometry/rail.py), fences (geometry/        *)
(* landscaping.py).                                                         *)
(*                                                                         *)
(* Lengths are in half metres.  A part of a line runs along one axis of the  *)
(* grid, [from, to, across, along]: from <= to are its ends on that axis.    *)
(***************************************************************************)
EXTENDS Integers, FiniteSets, FiniteSetsExt, Sequences, SequencesExt

\* A tag that is missing or no positive number.
Absent == 0

Positive(tag, default) == IF tag > 0 THEN tag ELSE default

CeilDiv(a, b) == (a + b - 1) \div b

LengthOf(part) == part.to - part.from

\* LineString.interpolate, project and distance for such a part.
PointAt(part, d) ==
  IF part.along = "x" THEN <<part.from + d, part.across>> ELSE <<part.across, part.from + d>>

Along(part, p)  == IF part.along = "x" THEN p[1] ELSE p[2]
Across(part, p) == IF part.along = "x" THEN p[2] ELSE p[1]

Projection(part, p) == Max({0, Min({LengthOf(part), Along(part, p) - part.from})})

Square(n) == n * n

SquareDistance(part, p) ==
  Square(Along(part, p) - part.from - Projection(part, p)) + Square(Across(part, p) - part.across)

\* _as_lines: the parts with a length.
AsLines(f) == {part \in f.parts : LengthOf(part) > 0}

\* The number of equal spans: power.py and _posts_along_line.
Spans(length, spacing) == Max({1, CeilDiv(length, spacing)})

\* Their ends; the lengths given are multiples of the number of spans.
Spread(length, spacing) ==
  {i * (length \div Spans(length, spacing)) : i \in 0..Spans(length, spacing)}
-----------------------------------------------------------------------------
(* power.py.                                                               *)

CALCULATED_POLE_SPACING == 120
POLE_SNAP_DISTANCE      == 6
POLE_HEIGHT == [tower |-> 40, pole |-> 18]

IsLine(f) == f.layer = "osm_power" /\ f.power \in {"line", "minor_line"}

\* build_poles: a tower or pole that is a point.
RealPoles(features) ==
  {[at |-> f.at, height |-> Positive(f.height, POLE_HEIGHT[f.power]), source |-> "fact"] :
     f \in {g \in features : g.layer = "osm_power" /\ g.point /\ g.power \in DOMAIN POLE_HEIGHT}}

NearPart(part, poles) == {p \in poles : SquareDistance(part, p.at) <= Square(POLE_SNAP_DISTANCE)}

\* place_calculated_poles: only along a part without a single real pole near it.
CalculatedPoles(features, real) ==
  UNION {{[at |-> PointAt(part, d), height |-> POLE_HEIGHT.pole, source |-> "default"] :
            d \in Spread(LengthOf(part), CALCULATED_POLE_SPACING)} :
         part \in UNION {{q \in AsLines(f) : NearPart(q, real) = {}} :
                         f \in {g \in features : IsLine(g)}}}

\* build_wire_spans: the poles near a part in their order along it, in the order of the list
\* where they are level, and the pairs of neighbours that are apart.
Ordered(part, poles) ==
  LET list         == SetToSeq(NearPart(part, poles))
      place(i)     == Projection(part, list[i].at)
      before(i, j) == place(i) < place(j) \/ (place(i) = place(j) /\ i < j)
      rank(i)      == Cardinality({j \in DOMAIN list : before(j, i)}) + 1
  IN  [k \in DOMAIN list |-> list[CHOOSE i \in DOMAIN list : rank(i) = k]]

WireSpans(part, poles) ==
  LET s == Ordered(part, poles)
  IN  {<<s[i], s[i + 1]>> : i \in {j \in 1..(Len(s) - 1) : s[j].at # s[j + 1].at}}

\* The offset of a strand from the axis, in halves of the phase spacing.
StrandOffset(strand, cables) == 2 * strand - (cables - 1)

\* _catenary_path: the drop below the chord at sample i of n = 8, in 1/1600 of the
\* span's unit: 3 % of the span in the middle.
WIRE_SAMPLE_COUNT == 8

Drop(span, i) == span * 3 * i * (WIRE_SAMPLE_COUNT - i)

\* build_substations: only what has an outline, on its lowest known height.
Substations(features) ==
  {[id |-> f.id, base |-> IF f.ground = {} THEN 0 ELSE Min(f.ground)] :
     f \in {g \in features : g.layer = "osm_power" /\ g.polygon /\ g.power \in {"substation", "plant"}}}

SAFETY_ZONE_HALF_WIDTH_BY_VOLTAGE ==
  <<<<1, 2>>, <<20, 10>>, <<35, 15>>, <<110, 20>>, <<220, 25>>, <<500, 30>>, <<750, 40>>, <<1150, 55>>>>

\* _safety_zone_half_width_m: the first class that reaches the voltage; 0: unknown.
SafetyZone(voltage) ==
  LET classes  == SAFETY_ZONE_HALF_WIDTH_BY_VOLTAGE
      reaching == {i \in 1..Len(classes) : voltage <= classes[i][1]}
  IN  CASE voltage = Absent -> 0
        [] reaching # {}    -> classes[Min(reaching)][2]
        [] OTHER            -> classes[Len(classes)][2]

\* build_power_safety_zones.
SafetyZones(features) ==
  UNION {{[line |-> f.id, part |-> part, half |-> SafetyZone(f.voltage)] : part \in AsLines(f)} :
         f \in {g \in features : IsLine(g) /\ SafetyZone(g.voltage) # 0}}
-----------------------------------------------------------------------------
(* rail.py, in centimetres where a width is meant.                          *)

DEFAULT_GAUGE == 152
BALLAST_SHOULDER == 124
TRACK_SPACING == 450

\* compute_ballast_width_m.
BallastWidth(f) ==
  [width |-> Positive(f.gauge, DEFAULT_GAUGE) + 2 * BALLAST_SHOULDER
             + (Positive(f.tracks, 1) - 1) * TRACK_SPACING,
   confidence |-> IF f.gauge > 0 \/ f.tracks > 0 THEN "fact" ELSE "default"]

\* build_rail_ribbons; axis: the only part there is.
RailRibbons(features) ==
  {[id |-> f.id, parts |-> AsLines(f), ballast |-> BallastWidth(f),
    axis |-> Cardinality(AsLines(f)) = 1] :
     f \in {g \in features : g.layer = "osm_railways" /\ AsLines(g) # {}}}

\* build_platform_areas: an outline, or a strip along the lines.
Platforms(features) ==
  {f \in features : f.layer = "osm_railway_platforms" /\ (f.polygon \/ AsLines(f) # {})}

\* _nearest_rail_width and build_level_crossings.
DistanceToRail(rail, p) == Min({SquareDistance(part, p) : part \in rail.parts})

CrossingSizes(p, rails) ==
  IF rails = {} THEN {DEFAULT_GAUGE + 2 * BALLAST_SHOULDER}
  ELSE {r.ballast.width : r \in {q \in rails : \A o \in rails : DistanceToRail(q, p) <= DistanceToRail(o, p)}}

RAIL_POLE_SPACING == 100

Electrified(f) == f.electrified \notin {"", "no"}

\* place_catenary_poles along a line of f: a pole at the very end has no direction ahead
\* and is skipped.
CatenaryPoles(f, length) ==
  {i * RAIL_POLE_SPACING : i \in {j \in 0..(length \div RAIL_POLE_SPACING) : Electrified(f)}} \ {length}
-----------------------------------------------------------------------------
(* landscaping.py: posts of a fence; a wall has none.                       *)

FENCE_POST_SPACING == 5

IsFence(f) == f.layer = "osm_landscaping" /\ f.barrier \in {"fence", "wall"}

Fences(features) ==
  UNION {{[id |-> f.id, kind |-> f.barrier,
           posts |-> IF f.barrier = "wall" THEN {} ELSE Spread(LengthOf(part), FENCE_POST_SPACING)] :
            part \in AsLines(f)} :
         f \in {g \in features : IsFence(g)}}
-----------------------------------------------------------------------------
(* What holds a line.                                                      *)

\* Positions that reach from one end of a length to the other without a gap.
Holds(places, length, spacing) ==
  /\ {0, length} \subseteq places
  /\ \A d \in places \ {length} : \E e \in places : d < e /\ e <= d + spacing

\* A part of whole coordinates that is cut into spans of whole lengths.
Spaced(part, spacing) ==
  /\ {part.from, part.to, part.across} \subseteq Int
  /\ LengthOf(part) > 0 => LengthOf(part) % Spans(LengthOf(part), spacing) = 0

\* Every part of a power line hangs on poles: from end to end and without a span
\* over the limit where nothing real stands near it, else between the real ones; a
\* part with a single pole has no wire.  Poles of a crossing line may join in.
PowerIsHung(features) ==
  LET real  == RealPoles(features)
      poles == real \cup CalculatedPoles(features, real)
  IN  \A f \in {g \in features : IsLine(g)} : \A part \in AsLines(f) :
        LET near  == NearPart(part, poles)
            spans == WireSpans(part, poles)
        IN  /\ near # {}
            /\ NearPart(part, real) = {} =>
                 Holds({Projection(part, p.at) : p \in near}, LengthOf(part), CALCULATED_POLE_SPACING)
            /\ Cardinality({p.at : p \in near}) > 1 =>
                 \A p \in near : \E span \in spans : p.at \in {span[1].at, span[2].at}
            /\ Cardinality({p.at : p \in near}) = 1 => spans = {}
            /\ SafetyZone(f.voltage) # 0 <=>
                 \E z \in SafetyZones(features) : z.line = f.id /\ z.part = part

\* The strands lie evenly about the axis; a wire ends at its poles, is lowest in
\* the middle of the span, and a voltage never has a narrower zone than a lower one.
WiresAreEven(cables, span) ==
  /\ \A s \in 0..(cables - 1) : StrandOffset(s, cables) = -StrandOffset(cables - 1 - s, cables)
  /\ Drop(span, 0) = 0 /\ Drop(span, WIRE_SAMPLE_COUNT) = 0
  /\ \A i \in 0..WIRE_SAMPLE_COUNT : Drop(span, i) <= Drop(span, WIRE_SAMPLE_COUNT \div 2)

ZonesGrow(voltages) ==
  \A v, w \in voltages : 0 < v /\ v <= w => 0 < SafetyZone(v) /\ SafetyZone(v) <= SafetyZone(w)

\* Of an electrified line the first catenary pole is at its beginning, the next a spacing
\* ahead, and none at its end or behind it: the last stretch, no longer than the spacing, has
\* no pole ahead, and a line that is all such a stretch has a single one.
CatenaryHolds(f, length) ==
  LET poles == CatenaryPoles(f, length)
  IN  IF f.electrified \in {"", "no"} \/ length = 0 THEN poles = {}
      ELSE /\ 0 \in poles
           /\ \A d \in poles : d < length /\ (length <= d + RAIL_POLE_SPACING \/ d + RAIL_POLE_SPACING \in poles)
           /\ length <= RAIL_POLE_SPACING => poles = {0}

\* The posts of a fence hold it from end to end, and no wall has any.
FencesHold(features) ==
  \A f \in {g \in features : IsFence(g)} : \A part \in AsLines(f) : \E b \in Fences(features) :
    /\ b.id = f.id
    /\ IF b.kind = "wall" THEN b.posts = {} ELSE Holds(b.posts, LengthOf(part), FENCE_POST_SPACING)

\* What has an outline stands on the ground everywhere.
StationsStand(features) ==
  \A s \in Substations(features) : \E f \in features : f.id = s.id /\ \A z \in f.ground : s.base <= z

\* A track with more rails or a wider gauge never has a narrower bed.  A level crossing on
\* the one track near it is as wide as that track, and the width it takes is always some
\* track's; only a track of one piece has an axis, and no platform comes of nothing.
RailIsLaid(features, p) ==
  LET rails == RailRibbons(features)
      sizes == CrossingSizes(p, rails)
  IN  /\ sizes # {} /\ \A s \in sizes : rails = {} \/ \E r \in rails : r.ballast.width = s
      /\ \A r \in rails : (\A o \in rails \ {r} : DistanceToRail(r, p) < DistanceToRail(o, p)) => sizes = {r.ballast.width}
      /\ \A r \in rails : r.axis => Cardinality(r.parts) = 1
      /\ \A f, g \in features : f.tracks = g.tracks /\ 0 < f.gauge /\ f.gauge <= g.gauge
                                 => BallastWidth(f).width <= BallastWidth(g).width
      /\ \A f \in Platforms(features) : f.polygon \/ \E part \in f.parts : LengthOf(part) > 0
=============================================================================
