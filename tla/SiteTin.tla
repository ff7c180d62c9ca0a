------------------------------- MODULE SiteTin -------------------------------
(***************************************************************************)
(* The terrain of a whole site (relief/tin.py): a smoothed background with  *)
(* roads, water and buildings cut into it as points of known height.        *)
(*                                                                         *)
(* The model is a section through the site.  Places are integers, in half   *)
(* steps of the background, whose points are therefore the even ones.  Two  *)
(* points are at one place when _dedupe_points rounds them to one bucket of *)
(* a centimetre, in which it keeps one point; points that are as near but   *)
(* fall into two buckets are two places, and both are kept.  A raster is a  *)
(* function from some places to heights.  A mean is kept as [sum, count],   *)
(* nothing is rounded.                                                     *)
(***************************************************************************)
EXTENDS Integers, FiniteSets, FiniteSetsExt, Sequences, SequencesExt

CONSTANTS
  Radius,               \* radius_m, an even number of half steps
  SmoothingCells,       \* window_cells of the background, odd
  ProfileHalfWindow,    \* half_window of a road's profile
  MaxBackgroundPoints   \* max_background_points of the section

ASSUME TinAssumption ==
  /\ Radius \in Nat /\ Radius % 2 = 0
  /\ SmoothingCells \in Nat /\ SmoothingCells % 2 = 1
  /\ ProfileHalfWindow \in Nat \ {0}

IsRaster(raster) == \A c \in DOMAIN raster : c \in Int /\ raster[c] \in Int

Pad == SmoothingCells \div 2

SumOf(f, S) == FoldSet(LAMBDA x, sum : f[x] + sum, 0, S)
-----------------------------------------------------------------------------
(* Smoothing.                                                              *)

\* The places a window sees.
Window(c) == c - 2 * Pad .. c + 2 * Pad

\* smooth_grid_elevations: the mean of the heights there are, nan without any.
Smoothed(raster, c) ==
  LET seen == {d \in Window(c) : d % 2 = 0 /\ d \in DOMAIN raster}
  IN  [sum |-> SumOf(raster, seen), count |-> Cardinality(seen)]

\* _smoothed_profile before the mean: a missing height is the mean of the others, zero
\* when there are none; all heights are multiplied by the number of known ones.
FilledProfile(raw, known) ==
  [i \in DOMAIN raw |-> IF known = {} THEN 0
                        ELSE IF i \in known THEN raw[i] * Cardinality(known)
                             ELSE SumOf(raw, known)]

\* left_pad and right_pad: the profile goes on with its first and last slope.
Extended(profile, i) ==
  LET n == Len(profile)
  IN  IF n < 2 THEN profile[1]
      ELSE IF i < 1 THEN profile[1] - (1 - i) * (profile[2] - profile[1])
      ELSE IF i > n THEN profile[n] + (i - n) * (profile[n] - profile[n - 1])
      ELSE profile[i]

\* _smoothed_profile: the moving mean, times its window.
SmoothedProfile(raw, known) ==
  LET filled == FilledProfile(raw, known)
      Seen(i) == [j \in i - ProfileHalfWindow .. i + ProfileHalfWindow |-> Extended(filled, j)]
  IN  [i \in DOMAIN raw |-> SumOf(Seen(i), DOMAIN Seen(i))]

\* A constant slope is not changed by smoothing, neither in the background up to the
\* radius nor along a road up to its ends; where heights are missing the mean stays
\* between the others.
SlopesAreKept(slope, raster, raw, known) ==
  LET whole == [d \in -Radius - 2 * Pad .. Radius + 2 * Pad |-> slope * d]
      line == [i \in DOMAIN raw |-> slope * i]
  IN  /\ \A c \in -Radius..Radius : c % 2 = 0 =>
           /\ Smoothed(whole, c).sum = slope * c * Smoothed(whole, c).count
           /\ LET mean == Smoothed(raster, c) IN mean.count > 0 =>
                \E d, e \in DOMAIN raster : /\ raster[d] * mean.count <= mean.sum
                                            /\ mean.sum <= raster[e] * mean.count
      /\ \A i \in DOMAIN raw :
           /\ SmoothedProfile(line, DOMAIN raw)[i]
                = line[i] * Len(raw) * (2 * ProfileHalfWindow + 1)
           /\ known # {} => \E j \in known : FilledProfile(raw, known)[i] <= raw[j] * Cardinality(known)
-----------------------------------------------------------------------------
(* build_site_tin.  A feature is [layer, low, high, level]: its zone in the  *)
(* section and, of a road, the height of its profile.                       *)

Layers == {"building", "water", "road"}

Priority == [building |-> 3, water |-> 2, road |-> 1]

AreFeatures(features) ==
  /\ features \in Seq([layer : Layers, low : Int, high : Int, level : Int])
  /\ \A i \in DOMAIN features : features[i].low <= features[i].high

Zone(f) == f.low..f.high

\* pad_level and water_level: the lowest height of the outline, zero without any.
Level(f, raster) ==
  LET levels == {raster[c] : c \in {f.low, f.high} \cap DOMAIN raster}
  IN  IF f.layer = "road" THEN f.level ELSE IF levels = {} THEN 0 ELSE Min(levels)

\* The axis and both edges of a road; the outline of the others, and _fill_polygon_flat,
\* which is half a step away from it.
PointsOf(f, raster) ==
  LET places == IF f.layer = "road" THEN {f.low, (f.low + f.high) \div 2, f.high}
                ELSE {f.low, f.high} \cup {c \in Zone(f) : c < f.high /\ (c - f.low) % 2 = 1}
  IN  [at : places, z : {[sum |-> Level(f, raster), count |-> 1]}, source : {f.layer}]

\* roads, then water, then buildings, each in the order of the features.
ByLayer(features) ==
  LET places       == DOMAIN features
      Before(i, j) == \/ Priority[features[i].layer] < Priority[features[j].layer]
                      \/ features[i].layer = features[j].layer /\ i < j
      order        == CHOOSE s \in [places -> places] : \A i, j \in places : i < j => Before(s[i], s[j])
  IN  [i \in places |-> features[order[i]]]

\* _dedupe_points: in its bucket a point gives way only to one of a more important source.
WithPoints(kept, points) ==
  {p \in kept : \A q \in points : q.at = p.at => Priority[q.source] <= Priority[p.source]}
    \cup {q \in points : \A p \in kept : p.at = q.at => Priority[q.source] > Priority[p.source]}

PriorityPoints(features, raster) ==
  FoldLeft(LAMBDA kept, f : WithPoints(kept, PointsOf(f, raster)), {}, ByLayer(features))

\* Mutant: contains instead of intersects, which lets the outline through.
OpenZones(features) == UNION {features[i].low + 1 .. features[i].high - 1 : i \in DOMAIN features}

\* exclude_zones.
ExcludedZones(features) == UNION {Zone(features[i]) : i \in DOMAIN features}

\* _smoothed_background_arrays: the even places of the circle outside of every zone.
BackgroundPoints(features, raster) ==
  {[at |-> c, z |-> Smoothed(raster, c), source |-> "terrain"] :
     c \in {d \in -Radius..Radius : /\ d % 2 = 0
                                    /\ d \notin ExcludedZones(features)
                                    /\ Smoothed(raster, d).count > 0}}

\* build_site_tin refuses a site that is too large before it does anything, and one
\* without three points, of which Delaunay could make nothing.
CanBuild(features, raster) ==
  /\ Radius + 1 <= MaxBackgroundPoints
  /\ Cardinality(PriorityPoints(features, raster))
       + Cardinality(BackgroundPoints(features, raster)) >= 3

\* interpolate_z between vertices, as [sum, count]; outside of them the nearest one's.
InterpolateZ(vertices, x) ==
  LET left == {v \in vertices : v.at <= x}
      right == {v \in vertices : v.at >= x}
      Closest(S) == CHOOSE v \in S : \A w \in S : Max({v.at - x, x - v.at}) <= Max({w.at - x, x - w.at})
  IN  IF left = {} \/ right = {} THEN Closest(vertices).z
      ELSE LET l == Closest(left) r == Closest(right)
           IN  IF l.at = r.at THEN l.z
               ELSE [sum |-> l.z.sum * r.z.count * (r.at - x) + r.z.sum * l.z.count * (x - l.at),
                     count |-> l.z.count * r.z.count * (r.at - l.at)]

\* The features are part of one surface.  No place has two heights (places being buckets: two
\* points a millimetre apart may); the point of a place is of the most important feature
\* that put one there; no background shows inside a zone; a pad no other feature touches is
\* level; and a height interpolated among the points of the features, or read off
\* outside of the site, is between two of theirs.
TinIsConsistent(features, raster) ==
  LET points == PriorityPoints(features, raster)
      all == points \cup BackgroundPoints(features, raster)
      Put(i) == PointsOf(features[i], raster)
  IN  CanBuild(features, raster) =>
      /\ \A p, q \in all : p.at = q.at => p = q
      /\ \A i \in DOMAIN features : \A q \in Put(i) :
           \E p \in points : p.at = q.at /\ Priority[p.source] >= Priority[q.source]
      /\ \A i \in DOMAIN features : \A p \in all :
           p.at \in Zone(features[i]) => p.source # "terrain"
      /\ \A i \in DOMAIN features :
           (\A j \in DOMAIN features \ {i} : Zone(features[j]) \cap Zone(features[i]) = {})
             => \A p, q \in all : {p.at, q.at} \subseteq Zone(features[i]) => p.z = q.z
      /\ points # {} => \A x \in -Radius - 2 .. Radius + 2 :
           LET z == InterpolateZ(points, x)
           IN  \E p, q \in points : p.z.sum * z.count <= z.sum /\ z.sum <= q.z.sum * z.count
=============================================================================
