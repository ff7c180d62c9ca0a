-------------------------------- MODULE Relief --------------------------------
(***************************************************************************)
(* The best available relief of an area: the index of coverages             *)
(* (relief/coverage.py), their merge by priority with a smooth transition   *)
(* (relief/merge.py, relief/service.py) and the terrain-RGB coding of the   *)
(* heights (citymap/terrain_rgb.py).                                        *)
(*                                                                         *)
(* A raster is a strip of cells: the transition depends on the distance to *)
(* the border of a coverage and on nothing else.  The pixel is the unit of  *)
(* length.  Heights are integers; an instance takes multiples of           *)
(* (2 * TransitionWidth)^2, so that no weighted mean of three is rounded.   *)
(***************************************************************************)
EXTENDS Integers, FiniteSets, Sequences, SequencesExt

CONSTANTS
  Width,            \* cells of the grid the sources are aligned to
  TransitionWidth   \* transition_width_m, in pixels

ASSUME WidthAssumption == Width \in Nat \ {0}
ASSUME TransitionAssumption == TransitionWidth \in Nat

Cells == 1..Width

Limit(x, low, high) == IF x < low THEN low ELSE IF x > high THEN high ELSE x

Gap(c, d) == IF c > d THEN c - d ELSE d - c
-----------------------------------------------------------------------------
(* merge.py.                                                               *)

\* distance_transform_edt: how far the nearest cell of S is.  SciPy does not define
\* the distance to nothing; it is some positive one, phantom.
DistanceTo(S, c, phantom) ==
  IF S = {} THEN phantom
  ELSE CHOOSE n \in 0..Width : /\ \E d \in S : Gap(c, d) = n
                               /\ \A d \in S : Gap(c, d) >= n

\* transition_alpha, times twice the width: one half on the border.
Alpha(valid, c, phantom) ==
  IF TransitionWidth = 0 THEN IF c \in valid THEN 1 ELSE 0
  ELSE LET signed == IF c \in valid THEN DistanceTo(Cells \ valid, c, phantom)
                                    ELSE -DistanceTo(valid, c, phantom)
       IN  Limit(2 * signed + TransitionWidth, 0, 2 * TransitionWidth)

\* merge_with_transition at one cell.
Blended(base, overlay, valid, c, phantom) ==
  LET whole == IF TransitionWidth = 0 THEN 1 ELSE 2 * TransitionWidth
      alpha == Alpha(valid, c, phantom)
  IN  (alpha * overlay + (whole - alpha) * base) \div whole
-----------------------------------------------------------------------------
(* coverage.py and service.py.                                             *)

\* find_coverage: the rows that meet the bbox, by their indexes.  Their ORDER BY is undone by
\* get_dem.  A row is [priority, valid, height], valid the cells where its raster has a value.
Found(rows, bbox) == {i \in DOMAIN rows : rows[i].valid \cap bbox # {}}

\* Mutant: the rows are merged in the order of the query.
AsQueried(rows, found) == rows

\* sorted(entries, key=priority): stable, so equal priorities keep the order, which the
\* database is free to choose.
Ascending(rows, found) ==
  LET Before(i, j) == rows[i].priority < rows[j].priority
                      \/ (rows[i].priority = rows[j].priority /\ i < j)
      Rank(i) == Cardinality({j \in found : Before(j, i)}) + 1
  IN  [k \in 1..Cardinality(found) |-> rows[CHOOSE i \in found : Rank(i) = k]]

\* The zeros get_dem starts from.
NoRelief == [mask |-> {}, value |-> [c \in Cells |-> 0]]

\* One turn of the loop of get_dem: the first source is taken as it is, a later one is
\* blended where there is something below it already.
Merged(dem, entry, phantom) ==
  [mask |-> dem.mask \cup entry.valid,
   value |-> [c \in Cells |->
     IF c \notin entry.valid THEN dem.value[c]
     ELSE IF c \in dem.mask
          THEN Blended(dem.value[c], entry.height[c], entry.valid, c, phantom)
          ELSE entry.height[c]]]

\* get_dem of the cells of the grid.
GetDem(rows, phantom) ==
  FoldLeft(LAMBDA dem, entry : Merged(dem, entry, phantom), NoRelief, Ascending(rows, Found(rows, Cells)))

\* Whether c is as far from the border of a source, within the grid, as the transition
\* reaches.  A source that covers the whole grid has no border there.
Inside(valid, c) ==
  Cells \ valid # {} /\ 2 * DistanceTo(Cells \ valid, c, 0) >= TransitionWidth

Sources(rows, c) == {i \in DOMAIN rows : c \in rows[i].valid}

Best(rows, c) ==
  {i \in Sources(rows, c) : \A j \in Sources(rows, c) \ {i} : rows[j].priority < rows[i].priority}

\* What the merge promises, wherever the sources end.  Every cell of a source is covered; a
\* height is never outside those of the sources of its cell, and so is that of the only
\* one, also where docs/relief.md:39-41 has the transition go on beyond a border: get_dem
\* blends in the cells of both sources alone.  Inside the border of the best source
\* nothing below it shines through.
MergeIsSound(rows, dem) ==
  /\ dem.mask = UNION {rows[i].valid : i \in DOMAIN rows}
  /\ \A c \in dem.mask :
       /\ \E i, j \in Sources(rows, c) : /\ rows[i].height[c] <= dem.value[c]
                                         /\ dem.value[c] <= rows[j].height[c]
       /\ \A i \in Best(rows, c) : Inside(rows[i].valid, c) => dem.value[c] = rows[i].height[c]

\* docs/relief.md:36-39 says that a place deep inside the more precise source has its height
\* in full.  A source without a border on the grid has every place of it deep inside.
BestIsWhole(rows, dem) ==
  \A c \in dem.mask : \A i \in Best(rows, c) :
    rows[i].valid = Cells => dem.value[c] = rows[i].height[c]
-----------------------------------------------------------------------------
(* terrain_rgb.py, in units of a centimetre; the step of the coding is ten. *)

MIN_ENCODABLE == -1000000
MAX_ENCODABLE == MIN_ENCODABLE + (256 * 256 * 256 - 1) * 10

\* encode_terrain_rgb: np.round rounds a half to the even neighbour.
EncodeRgb(height) ==
  LET over == Limit(height, MIN_ENCODABLE, MAX_ENCODABLE) - MIN_ENCODABLE
      down == over \div 10
      value == IF over % 10 > 5 \/ (over % 10 = 5 /\ down % 2 = 1) THEN down + 1 ELSE down
  IN  [r |-> (value \div 65536) % 256, g |-> (value \div 256) % 256, b |-> value % 256]

\* decode_terrain_rgb.
DecodeRgb(rgb) == MIN_ENCODABLE + (rgb.r * 65536 + rgb.g * 256 + rgb.b) * 10

\* A height that can be coded comes back within half a step, a higher or lower one as
\* the limit, and a carry between the bytes never turns it around.
CodingIsFaithful(height) ==
  /\ Gap(DecodeRgb(EncodeRgb(height)), Limit(height, MIN_ENCODABLE, MAX_ENCODABLE)) <= 5
  /\ EncodeRgb(height).r \in 0..255
=============================================================================
