-------------------------------- MODULE Tiles --------------------------------
(***************************************************************************)
(* The 3D tiles of a site: the grid of squares and the rings of detail      *)
(* (tiling/grid.py), the terrain of a tile with its seams (tiling/          *)
(* terrain.py), the content of a tile (tiling/tile_content.py), the choice  *)
(* of tiles by generate_tileset (jobs/steps.py) and the boxes of            *)
(* tileset.json (tiling/tileset.py).                                        *)
(*                                                                         *)
(* Places are pairs of integers, in steps of the seam; distances are        *)
(* compared by their squares.  A height is not a number here but how it was  *)
(* obtained: a vertex is a place and whether its height is smoothed.        *)
(***************************************************************************)
EXTENDS Integers, FiniteSets, FiniteSetsExt

CONSTANTS
  TileSize,         \* TILE_SIZE_M
  Lod2Max, Lod1Max, Lod0Max,
  RingStep,         \* RING_BACKGROUND_STEP_M: per ring, the step of the background
  SmoothingWindow   \* BACKGROUND_SMOOTHING_WINDOW_M

Rings == {"LOD2", "LOD1", "LOD0"}

ASSUME SizeAssumption == TileSize \in Nat \ {0}
ASSUME RingAssumption == Lod2Max \in Nat /\ Lod1Max \in Nat /\ Lod0Max \in Nat
                         /\ Lod2Max < Lod1Max /\ Lod1Max < Lod0Max
                         /\ RingStep \in [Rings -> Nat \ {0}]
                         /\ SmoothingWindow \in Nat

Square(n) == n * n
Distance2(p, q) == Square(p[1] - q[1]) + Square(p[2] - q[2])
Between(x, low, high) == low <= x /\ x <= high
-----------------------------------------------------------------------------
(* grid.py.                                                                *)

\* classify_lod_ring, of a squared distance; "none" is the exception.
ClassifyLodRing(d2) ==
  CASE d2 <= Square(Lod2Max) -> "LOD2"
    [] d2 > Square(Lod2Max) /\ d2 <= Square(Lod1Max) -> "LOD1"
    [] d2 > Square(Lod1Max) /\ d2 <= Square(Lod0Max) -> "LOD0"
    [] OTHER -> "none"

\* TileIndex.bounds, one axis.
Low(t, axis) == t[axis] * TileSize
High(t, axis) == t[axis] * TileSize + TileSize

\* world_to_tile_index: \div rounds down, as math.floor does.
WorldToTileIndex(p) == <<p[1] \div TileSize, p[2] \div TileSize>>

\* The place of the tile that is nearest to p, one axis.
Nearest(p, t, axis) ==
  IF p[axis] < Low(t, axis) THEN Low(t, axis)
  ELSE IF p[axis] > High(t, axis) THEN High(t, axis) ELSE p[axis]

\* Mutant: a tile is taken by its centre.
TilesWithCentre(center, radius) ==
  {t \in ((center[1] - radius) \div TileSize .. (center[1] + radius) \div TileSize)
         \X ((center[2] - radius) \div TileSize .. (center[2] + radius) \div TileSize) :
     Distance2(<<2 * center[1], 2 * center[2]>>, <<Low(t, 1) + High(t, 1), Low(t, 2) + High(t, 2)>>)
       <= Square(2 * radius)}

\* tiles_covering_circle.
TilesCoveringCircle(center, radius) ==
  {t \in ((center[1] - radius) \div TileSize .. (center[1] + radius) \div TileSize)
         \X ((center[2] - radius) \div TileSize .. (center[2] + radius) \div TileSize) :
     Distance2(center, <<Nearest(center, t, 1), Nearest(center, t, 2)>>) <= Square(radius)}
-----------------------------------------------------------------------------
(* terrain.py.  A raster has a height in a rectangle: raster.low to         *)
(* raster.high on both axes.                                                *)

HasHeight(raster, p) == \A axis \in 1..2 : Between(p[axis], raster.low[axis], raster.high[axis])

\* window_cells: at least one, and odd.
WindowCells(step) ==
  LET cells == Max({(2 * SmoothingWindow + step) \div (2 * step), 1})
  IN  IF cells % 2 = 0 THEN cells + 1 ELSE cells

\* _smoothed_background_points, one axis: arange over the padded tile without its first
\* and last pad values.
BackgroundAxis(low, high, step) ==
  LET pad == WindowCells(step) \div 2
      first == low + step - pad * step
      count == (high + pad * step - first + step - 1) \div step
  IN  {first + k * step : k \in pad..count - pad - 1}

\* tile_boundary_points: the places on the contour, step one.
BoundaryPoints(t) ==
  {p \in (Low(t, 1)..High(t, 1)) \X (Low(t, 2)..High(t, 2)) :
     \E axis \in 1..2 : p[axis] \in {Low(t, axis), High(t, axis)}}

\* smooth_grid_elevations: the mean of the heights the window has, nan without any.
HasSmoothed(raster, p, step) ==
  LET reach == (WindowCells(step) \div 2) * step
  IN  \E x \in {p[1] - reach, p[1], p[1] + reach}, y \in {p[2] - reach, p[2], p[2] + reach} :
        HasHeight(raster, <<x, y>>)

\* build_tile_terrain: at one place the seam wins over the background.
TileVertices(t, ring, raster) ==
  LET seam == {p \in BoundaryPoints(t) : HasHeight(raster, p)}
      step == RingStep[ring]
      background == {p \in BackgroundAxis(Low(t, 1), High(t, 1), step)
                           \X BackgroundAxis(Low(t, 2), High(t, 2), step) : HasSmoothed(raster, p, step)}
  IN  [at : seam, smoothed : {FALSE}] \cup [at : background \ seam, smoothed : {TRUE}]

\* build_tile_terrain raises when fewer than three places are left.
HasTerrain(t, ring, raster) == Cardinality(TileVertices(t, ring, raster)) >= 3

\* Two neighbours have the same vertices at the same heights along their common edge,
\* whatever their rings, so that no crack opens between them.
SeamsMatch(t, u, tRing, uRing, raster) ==
  LET Shared(s, ring) == {v \in TileVertices(s, ring, raster) :
                            v.at \in BoundaryPoints(t) \cap BoundaryPoints(u)}
  IN  Shared(t, tRing) = Shared(u, uRing)
-----------------------------------------------------------------------------
(* tile_content.py and generate_tileset.  A building has a centroid, the    *)
(* height of its ground and its own height, roof included.                  *)

\* prepare_relief: a square around the center, one margin wider than the circle.
SiteRaster(center, radius, margin) ==
  [low |-> <<center[1] - radius - margin, center[2] - radius - margin>>,
   high |-> <<center[1] + radius + margin, center[2] + radius + margin>>]

\* The squared distance of a tile's centre, times four.
CentreDistance2(t, center) ==
  Distance2(<<Low(t, 1) + High(t, 1), Low(t, 2) + High(t, 2)>>, <<2 * center[1], 2 * center[2]>>)

\* lod of a tile; the rings are compared at twice their size for the centre of a tile.
RingOfTile(t, center) == ClassifyLodRing((CentreDistance2(t, center) + 3) \div 4)

\* _building_mesh_for_lod: far away only the footprint, else a block with or without roof.
TopOf(building, ring) == IF ring = "LOD0" THEN building.base ELSE building.base + building.height

\* buildings_by_tile.
BuildingsOf(t, buildings) == {b \in buildings : WorldToTileIndex(b.centroid) = t}

\* The tiles generate_tileset uploads: those of the circle, without the ones whose centre
\* is beyond the last ring and the ones that would be empty.
TilesOfTileset(center, radius, margin, buildings) ==
  {t \in TilesCoveringCircle(center, radius) :
     /\ RingOfTile(t, center) # "none"
     /\ \/ HasTerrain(t, RingOfTile(t, center), SiteRaster(center, radius, margin))
        \/ BuildingsOf(t, buildings) # {}}

\* TileContentEntry; ground is the lowest and highest height of the terrain.
Entry(t, center, buildings, ground) ==
  LET ring == RingOfTile(t, center)
      here == BuildingsOf(t, buildings)
  IN  [tile |-> t, lod |-> ring,
       low |-> <<Low(t, 1) - center[1], Low(t, 2) - center[2],
                 Min({ground.low} \cup {b.base : b \in here})>>,
       high |-> <<High(t, 1) - center[1], High(t, 2) - center[2],
                  Max({ground.high} \cup {TopOf(b, ring) : b \in here})>>]

\* _box_bounding_volume: twice the centre and twice the half-axes; never flat.
Box(low, high) ==
  [centre |-> [i \in 1..3 |-> low[i] + high[i]],
   half |-> [i \in 1..3 |-> IF i = 3 THEN Max({high[i] - low[i], 1}) ELSE high[i] - low[i]]]

\* build_tileset_json: the box of the root and its error.
Root(entries) ==
  IF entries = {} THEN [box |-> Box(<<0, 0, 0>>, <<0, 0, 0>>), error |-> 0]
  ELSE [box |-> Box([i \in 1..3 |-> Min({e.low[i] : e \in entries})],
                    [i \in 1..3 |-> Max({e.high[i] : e \in entries})]),
        error |-> Max({RingStep[r] : r \in Rings})]

\* Nothing of the circle is lost and nothing is shown twice.  Each of its places is in a
\* tile that covers the circle; such a tile is left out only because its centre is beyond
\* the last ring or it has nothing to show, never with a building in it; the
\* detail of a place is that of its distance, but for half a diagonal of a tile; and the
\* root's box holds the content of every tile and is not claimed to be more exact.
TilesetIsComplete(center, radius, margin, buildings, ground) ==
  LET tiles == TilesOfTileset(center, radius, margin, buildings)
      entries == {Entry(t, center, buildings, ground) : t \in tiles}
      root == Root(entries)
      Circle == {p \in (center[1] - radius .. center[1] + radius)
                       \X (center[2] - radius .. center[2] + radius) :
                   Distance2(p, center) <= Square(radius)}
  IN  /\ \A p \in Circle : WorldToTileIndex(p) \in TilesCoveringCircle(center, radius)
      /\ \A b \in buildings :
           /\ b.centroid \in Circle
           /\ RingOfTile(WorldToTileIndex(b.centroid), center) # "none"
           => \E e \in entries : e.tile = WorldToTileIndex(b.centroid)
      /\ \A p \in Circle : LET t == WorldToTileIndex(p) IN
           /\ TileSize <= Lod2Max /\ Distance2(p, center) <= Square(Lod2Max - TileSize)
                => RingOfTile(t, center) = "LOD2"
           /\ Distance2(p, center) >= Square(Lod1Max + TileSize) => RingOfTile(t, center) # "LOD1"
      /\ \A e \in entries : /\ RingStep[e.lod] <= root.error
                            /\ \A i \in 1..3 :
                                 /\ root.box.centre[i] - root.box.half[i] <= 2 * e.low[i]
                                 /\ 2 * e.high[i] <= root.box.centre[i] + root.box.half[i]
=============================================================================
