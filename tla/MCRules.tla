------------------------------- MODULE MCRules -------------------------------
(***************************************************************************)
(* The inputs of Rules: per topic, all combinations of a few values that put *)
(* every boundary of the code on, just below and just above itself.          *)
(***************************************************************************)
EXTENDS Rules

MCRingStep == [LOD2 |-> 1, LOD1 |-> 2, LOD0 |-> 4]

Intervals(n) == {a..b : a, b \in 1..n} \ {{}}
-----------------------------------------------------------------------------
\* Relief: any two sources and a third one with an edge or a hole.
MergeInputs ==
  {[sources |-> <<<<p[1], v, 0>>, <<p[2], w, 64>>, <<1, u, 128>>>>, phantom |-> ph] :
     v \in Intervals(5), w \in SUBSET Cells \ {{}}, u \in {{1}, {2, 3}, {1, 3, 5}, Cells},
     p \in (1..2) \X (1..2), ph \in 1..2}

CodingInputs ==
  {[height |-> h] : h \in {-1000001, -1000000, -999995, -5, 0, 3, 5, 15, 25, 2555, 2560, 2565,
                           655350, 655355, 655360, 4004005, 166772149, 166772150, 166772160}}

\* Tiles: every place of the centre within a tile, radii about the rings.
TilesetInputs ==
  {[center |-> <<x, y>>, radius |-> r, margin |-> 3,
    buildings |-> {[centroid |-> c, base |-> 5, height |-> 8]}, ground |-> [low |-> 0, high |-> 3]] :
     x, y \in {0, 1, 3, 5}, r \in {2, 9, 12}, c \in {<<1, 1>>, <<-7, 3>>, <<12, 0>>}}

SeamInputs ==
  {[neighbour |-> u, ring |-> r, other |-> q, raster |-> [low |-> <<a, a>>, high |-> <<b, b>>]] :
     u \in {<<0, 1>>, <<1, 0>>, <<1, 1>>}, r, q \in Rings, a \in {-3, 0, 2}, b \in {3, 6, 9, 13}}

\* Terrain: any two features about the even places, and relief with holes.
Rasters == {[d \in -8..8 |-> d], [d \in (-8..8) \ {0, 2, 4} |-> 5], [d \in {-8, -6} |-> 3]}

Zones2 == {[layer |-> l, low |-> a, high |-> a + w, level |-> 7] :
             l \in {"road", "water", "building"}, a \in {-6, -4, -2, 0, 2}, w \in {2, 4}}

TinInputs == {[features |-> <<f, g>>, raster |-> r] : f, g \in Zones2, r \in Rasters}

SlopeInputs ==
  {[slope |-> s, raster |-> r, raw |-> <<3, 1, 4, 1>>, known |-> k] :
     s \in -2..3, r \in Rasters, k \in {{}, {1}, {2, 4}, 1..4}}
-----------------------------------------------------------------------------
\* Roads.
RoadFeatures ==
  {[id |-> 1, layer |-> l, multi |-> m, parts |-> n, bridge |-> b, width |-> w, class |-> c] :
     l \in {"osm_roads", "osm_railways"}, m \in BOOLEAN, n \in 0..2, b \in {"none", "no", "yes"},
     w \in {-1, 35}, c \in {"primary", "residential", "none"}}

Crossings ==
  {[kind |-> k, at |-> at, ground |-> g] : k \in {"road", "rail"}, at \in {0, 2, 4}, g \in {-1000, -1, 1}}

RoadInputs ==
  {[features |-> {f}, bridge |-> [z0 |-> 3, z1 |-> 7, length |-> 4], crossings |-> {}] : f \in RoadFeatures}
  \cup {[features |-> {}, bridge |-> [z0 |-> a, z1 |-> b, length |-> 4], crossings |-> {c, d}] :
          a \in {-1000, 3, 6}, b \in {-1000, 0, 7}, c, d \in Crossings}

Way(h, s) == [highway |-> h, surface |-> s]

WayTags == {<<Way("primary", "asphalt"), Way("residential", s)>> : s \in {"none", "gravel"}}

Lanes(type) == {[ways |-> w, type |-> type, cells |-> c] :
                  w \in {<<1>>, <<2>>, <<1, 2>>}, c \in {{1, 2}, {3, 4}, {5, 6}}}

LaneInputs ==
  {[lanes |-> {a, b, c}, areas |-> {[type |-> "intersection", cells |-> {i}]}, tags |-> t, circle |-> 1..r] :
     a \in Lanes("Driving"), b \in Lanes("Sidewalk"), c \in Lanes("Buffer(Verge)"),
     i \in {1, 5, 7}, t \in WayTags, r \in {4, 6}}
-----------------------------------------------------------------------------
\* Power lines that cross or end near each other, with and without poles of their own.
Part(from, to, across, along) == [from |-> from, to |-> to, across |-> across, along |-> along]

PowerFeature(id, kind, parts, at) ==
  [id |-> id, layer |-> "osm_power", power |-> kind, parts |-> parts, point |-> parts = {},
   polygon |-> FALSE, at |-> at, height |-> 0, voltage |-> 10, ground |-> {}]

PowerInputs ==
  {[features |-> {PowerFeature(1, "line", {Part(0, l, 0, "x")}, <<0, 0>>),
                  PowerFeature(2, "minor_line", {Part(from, from + 120, a, "y")}, <<0, 0>>),
                  PowerFeature(3, k, {}, <<x, y>>)}] :
     l \in {60, 120, 240, 360}, from \in {-120, -60, 0}, a \in {0, 60, 90, 180},
     k \in {"tower", "pole", "line"}, x \in {0, 100, 120, 400}, y \in {0, 6, 7}}

WireInputs ==
  {[cables |-> c, span |-> s, voltages |-> {v, w}] :
     c \in 1..6, s \in {1, 60}, v, w \in {0, 1, 2, 20, 21, 35, 110, 111, 750, 1150, 1151}}

CatenaryInputs ==
  {[line |-> [electrified |-> e], length |-> l] :
     e \in {"", "no", "contact_line"}, l \in {1, 50, 99, 100, 101, 150, 199, 200, 201, 300, 350}}

FenceInputs ==
  {[features |-> {[id |-> 1, layer |-> "osm_landscaping", barrier |-> b, parts |-> {Part(0, l, 0, "x")}]}] :
     b \in {"fence", "wall"}, l \in {1, 4, 5, 6, 8, 10, 12, 15, 20}}

StationInputs ==
  {[features |-> {[id |-> 1, layer |-> "osm_power", power |-> k, polygon |-> p, ground |-> g]}] :
     k \in {"substation", "plant", "line"}, p \in BOOLEAN, g \in SUBSET {-3, 0, 4}}

\* A track, a track or a platform beside it, and a crossing near both.
Track(id, layer, parts, gauge, tracks) ==
  [id |-> id, layer |-> layer, parts |-> parts, gauge |-> gauge, tracks |-> tracks, polygon |-> FALSE]

RailInputs ==
  {[features |-> {Track(1, "osm_railways", {Part(0, 10, 0, "x")}, g, t),
                  Track(2, l, p, h, u)}, point |-> <<x, y>>] :
     l \in {"osm_railways", "osm_railway_platforms"}, g, h \in {0, 100, 152}, t, u \in 0..2,
     p \in {{}, {Part(3, 3, 4, "x")}, {Part(0, 10, 8, "x")}, {Part(0, 4, 8, "x"), Part(2, 9, 12, "y")}},
     x \in {0, 12}, y \in {0, 4, 5}}
-----------------------------------------------------------------------------
\* Buildings.
Boxes == {[length |-> l, width |-> w, north |-> n] : l \in {20, 40}, w \in {20}, n \in BOOLEAN}

RoofTags ==
  {[shape |-> s, height |-> h, angle |-> a, direction |-> d, orientation |-> o] :
     s \in {"", "flat", "dome", "gabled", "hipped", "pyramidal", "skillion"}, h \in {-1, 0, 12},
     a \in {-1, 15, 45, 95}, d \in {-1, 0, 90, 180, 270}, o \in {"", "across"}}

RoofInputs ==
  {[box |-> b, params |-> Buildings!RoofParams(t, b), base |-> 3, eave |-> e] :
     b \in Boxes, e \in {3, 43},
     t \in {u \in RoofTags : u.shape \in Buildings!SUPPORTED_ROOF_SHAPES}}

HeightInputs ==
  {[feature |-> [height |-> h, levels |-> l, type |-> t, roof |-> r], box |-> [length |-> 40, width |-> 20, north |-> TRUE],
    overture |-> o] :
     h \in {-1, 0, 5, 95}, l \in {-1, 0, 1, 9}, t \in {"garage", "house", "yes"}, o \in {-1, 0, 70},
     r \in {u \in RoofTags : u.direction = -1}}

Square2(x, y, n) == (x..(x + n - 1)) \X (y..(y + n - 1))

Building(id, layer, pieces) ==
  [id |-> id, layer |-> layer, pieces |-> pieces, at |-> <<0, 0>>, height |-> 95, levels |-> -1, type |-> "yes",
   ground |-> {3, 5}, roof |-> [shape |-> "", height |-> -1, angle |-> -1, direction |-> -1, orientation |-> ""]]

Entrance(p) == [Building(4, "osm_entrances", {}) EXCEPT !.at = p]

Block(area) == [area |-> area, yards |-> {}]

OutlineInputs ==
  {[features |-> {Building(1, "osm_buildings", {[area |-> Square2(0, 0, 5) \ y, yards |-> y]}),
                  Building(2, "osm_buildings", {Block(Square2(7, 0, n))}),
                  Building(3, "osm_building_parts", {Block(Square2(x, o, m))} \cup q), Entrance(<<x, m>>)},
    box |-> [length |-> 40, width |-> 20, north |-> TRUE]] :
     y \in {{}, Square2(1, 1, 3)}, n \in 1..3, x \in 0..9, o \in {0, 2}, m \in 1..4, q \in {{}, {Block(Square2(20, 0, 2))}}}
-----------------------------------------------------------------------------
\* Green: draws that hit, miss and repeat; polygons that overlap.
Green(id, polygons, landuse, natural) ==
  [id |-> id, polygons |-> polygons, landuse |-> landuse, natural |-> natural, leaf |-> "mixed"]

GreenInputs ==
  {[features |-> {Green(1, {p}, l, n), Green(2, {q}, "forest", "")},
    draws |-> [r \in {p, q} |-> d]] :
     p \in {1..5, 3..8}, q \in {4..9, 1..3}, l \in {"", "grass", "forest"}, n \in {"", "scrub", "wood"},
     d \in {<<>>, <<1, 9, 5>>, <<6, 6, 6, 2, 3, 4, 5>>, [i \in 1..50 |-> 20]}}

TreeInputs ==
  {[tags |-> [species |-> s, genus |-> g, leaf |-> l], height |-> h] :
     s \in {"", "Tilia cordata"}, g \in {"", "Tilia"}, l \in {"", "mixed", "leafless"}, h \in {-1, 0, 12}}

Points == {<<0, 0>>, <<4, 0>>, <<4, 8>>}

WaterInputs ==
  {[line |-> <<a, b, c>>, next |-> d, ring |-> <<a, b, <<7, 3>>, <<2, 9>>>>,
    area |-> [long |-> l, short |-> 2, ground |-> <<3, -1, 5>>, profile |-> <<7, 6, 5>>, unknown |-> -1]] :
     a, b, c \in Points, d \in {<<<<0, 0>>, <<9, 9>>>>, <<<<4, 8>>, <<9, 1>>, <<4, 0>>>>}, l \in {5, 6}}
-----------------------------------------------------------------------------
\* Siting on a small plane.
Plane == (0..8) \X (0..8)
Rect(a, b, c, d) == (a..b) \X (c..d)

ZoneAt(id, area, h) == [id |-> id, area |-> area, maxHeight |-> h]

EnvelopeInputs ==
  {[site |-> Rect(1, 7, 1, 7), pzz |-> [setback |-> s, maxHeight |-> h],
    zones |-> {ZoneAt(1, Rect(5, 8, 0, 2), -1), ZoneAt(2, Rect(x, x + 1, 5, 8), k)},
    networks |-> {[id |-> 1, area |-> Rect(0, 8, y, y)]}, clearance |-> c,
    footprint |-> Rect(f, f + 1, g, g + 1), plane |-> Plane] :
     s \in 0..1, h \in {-1, 20}, x \in {2, 4}, k \in {-1, 15, 30}, y \in {1, 4}, c \in {1, 2},
     f, g \in {1, 2, 3, 5}}

PlacementInputs ==
  {[footprint |-> {<<0, 0>>, <<1, 0>>, <<1, 1>>, <<2, 1>>}, origin |-> <<x, y>>, quarters |-> q,
    site |-> Rect(0, 4, 0, 4), features |-> {[id |-> 1, area |-> Rect(4, 5, 0, 8)], [id |-> 2, area |-> Rect(0, 0, 0, 0)]}] :
     x, y \in 0..4, q \in 0..3}

AccessInputs ==
  {[site |-> Rect(2, 3, 2, 3),
    roads |-> {[id |-> 1, area |-> Rect(0, 8, y, y), network |-> n], [id |-> 2, area |-> Rect(x, x, 0, 8), network |-> m]}] :
     x, y \in 4..8, n, m \in {"backbone", "internal"}} \cup {[site |-> Rect(2, 3, 2, 3), roads |-> {}]}

EarthworkInputs ==
  {[entrances |-> <<<<2, 2>>, <<x, 3>>, <<5, 4>>>>, footprint |-> Rect(3, 4, 3, 4), ring |-> Rect(2, 5, 2, 5) \ Rect(3, 4, 3, 4), design |-> d,
    relief |-> [p \in Rect(2, 5, 2, l) |-> 2 * p[1] - p[2]]] : d \in -6..16, l \in {4, 5}, x \in 2..5}

NormInputs ==
  {[v |-> v, w |-> w, a |-> a, b |-> b] :
     v, w \in {0, 1, 2, 3, 9, 10, 11, 20, 21, 40, 41, 50, 51, 299, 300, 301},
     a, b \in Siting!FIRE_RESISTANCE_DEGREES}

OneZoneInputs ==
  {[zones |-> {[id |-> 1, area |-> Rect(0, a, 0, 2), type |-> "water", official |-> o],
               [id |-> 2, area |-> Rect(2, 4, b, 3), type |-> t, official |-> u]},
    point |-> <<x, 1>>, type |-> "water"] :
     a, b \in 1..3, o, u \in BOOLEAN, t \in {"water", "cemetery"}, x \in 0..5}

CardInputs ==
  {[zones |-> {[id |-> i, area |-> {<<x[i], 0>>}, current |-> i # 3 \/ c, document |-> i = 2] : i \in 1..3},
    point |-> <<0, 0>>, distance |-> d] :
     x \in {<<1, 2, 0>>, <<3, 3, 1>>, <<4, 0, 2>>}, c \in BOOLEAN, d \in 0..4}

DepthInputs ==
  {[layer |-> l, middle |-> <<0, 0>>, snap |-> 2,
    texts |-> <<[at |-> <<a, 0>>, height |-> 12], [at |-> <<0, b>>, height |-> 15]>>] :
     l \in {"V", "K", "none"}, a \in 0..3, b \in 0..3}
-----------------------------------------------------------------------------
\* Data of a site.
SelectionInputs ==
  {[raw |-> {[id |-> 1, far |-> r + a, near |-> r + a + b], [id |-> 2, far |-> r + b, near |-> r]}, radius |-> r] :
     r \in {100, 700}, a \in {-60, -1, 0, 1, 49, 50, 51, 60}, b \in {-50, -1, 0, 1, 50}}

TagInputs == {[text |-> t, number |-> n] : t \in {"", "yes", "primary"}, n \in {-1, 0, 1, 2, 35, 110}}

ZoneInputs == {[lon |-> l] : l \in {5100, 5154, 5155, 5204, 5205, 5300, 5355, 5504, 5505, 5506, 5655,
                                   5804, 5805, 5955, 6155, 6156}}

PlaneInputs ==
  {[places |-> p, a |-> a, b |-> b, c |-> c] :
     p \in {<<<<5, 5>>>>, <<<<0, 0>>, <<3, 1>>>>, <<<<0, 0>>, <<2, 0>>, <<0, 3>>>>, <<<<1, 1>>, <<2, 2>>, <<4, 4>>>>,
            <<<<1, 2>>, <<5, 3>>, <<2, 7>>, <<6, 6>>>>},
     a, b \in -2..2, c \in {0, 7}}

LogInputs ==
  {[log |-> <<[source |-> "OSM", timestamp |-> a], [source |-> s, timestamp |-> b], [source |-> "OSM", timestamp |-> c]>>] :
     s \in {"OSM", "NSPD"}, a, b, c \in 1..3}

JunctionInputs ==
  {[roads |-> <<[id |-> 1, nodes |-> <<1, 2>>, coords |-> <<10, 20>>],
                [id |-> 2, nodes |-> n, coords |-> k], [id |-> 3, nodes |-> m, coords |-> <<30, 40>>]>>] :
     n \in {<<2>>, <<2, 3>>, <<2, 3, 1>>}, k \in {<<20>>, <<20, 30>>, <<20, 30, 10>>}, m \in {<<3, 4>>, <<3, 4, 4>>}}

AuditInputs ==
  {[elements |-> {[id |-> i, inside |-> i <= n, tags |-> IF i <= k THEN 2 ELSE IF i <= l THEN 1 ELSE 0] : i \in 1..10}] :
     n \in 0..10, k, l \in 0..10}
-----------------------------------------------------------------------------
\* Files: roads in pieces, of both networks, cut into lanes of one and two ways, marks
\* of two kinds; one object or two of every other layer.
Thing(ids, pieces, network, kind) ==
  [ids |-> ids, pieces |-> pieces, network |-> network, kind |-> kind, layer |-> "osm_buildings", posts |-> 2]

Plain(id, pieces) == Thing(<<id>>, pieces, "", "fence")

OneOfEach == [l \in {"terrain", "building", "water", "waterway", "rail", "platform", "crossing", "catenary",
                     "wire", "substation", "zone", "lamp", "tree", "shrub", "lawn", "bench"} |-> <<Plain(1, 2)>>]

Lanes3(n) ==
  {<<>>, <<Thing(<<1>>, 1, n, "Driving")>>,
   <<Thing(<<1, 2>>, 1, n, "Driving"), Thing(<<2>>, 1, "internal", "Sidewalk")>>}

MCModels ==
  UNION {{[OneOfEach EXCEPT !["tree"] = IF p = 1 THEN <<Plain(1, 1), Plain(1, 1)>> ELSE @] @@
   [road |-> <<Thing(<<1>>, p, n, ""), Thing(<<2>>, 1, "internal", "")>>, bridge |-> <<Thing(<<3>>, p, n, "")>>,
    lane |-> l, intersection |-> <<Thing(<<>>, 1, n, "stop")>>,
    marking |-> <<Thing(<<>>, 1, n, "dash"), Thing(<<>>, 1, "internal", "dash"), Thing(<<>>, 1, n, "arrow")>>,
    pole |-> <<Thing(<<1>>, 1, "", "tower"), Thing(<<>>, 1, "", "pole")>>,
    fence |-> <<Thing(<<1>>, 1, "", k), Thing(<<2>>, 1, "", "fence")>>] :
     p \in 1..2, k \in {"wall", "fence"}, l \in Lanes3(n)} : n \in Assembly!Networks}

AssemblyInputs ==
  {[schema |-> s, model |-> m] : s \in {"IFC4", "IFC4X3"},
     m \in MCModels \cup {<<>>} \cup {[l \in {"terrain"} |-> <<Plain(1, 1)>>]}}

\* A square either way round, an L, and a square with a yard.
SolidInputs ==
  {[rings |-> s[1], triangles |-> s[2], ccw |-> s[3], segments |-> n] :
     n \in {6, 8},
     s \in {<<<<4>>, {<<0, 1, 2>>, <<0, 2, 3>>}, TRUE>>, <<<<4>>, {<<0, 2, 1>>, <<0, 3, 2>>}, FALSE>>,
            <<<<6>>, {<<0, 1, 2>>, <<0, 2, 3>>, <<0, 3, 5>>, <<3, 4, 5>>}, TRUE>>,
            <<<<4, 4>>, {<<0, 1, 7>>, <<0, 7, 4>>, <<1, 2, 6>>, <<1, 6, 7>>, <<2, 3, 5>>, <<2, 5, 6>>,
                         <<3, 0, 4>>, <<3, 4, 5>>}, TRUE>>}}

\* Fragments with and without an axis, of one lane and of several.
PavementInputs ==
  UNION {{[long |-> (3 * s) \div 2 + l, short |-> s, ground |-> g, offset |-> o] :
            l \in {-1, 0, 1}, g \in {-300, 0, 1550000, Assembly!Unknown},
            o \in {0, s \div 4, s \div 2} \cup ({149, 150} \cap 0..(s \div 2))} :
         s \in {200, 299, 300, 301, 700}}
-----------------------------------------------------------------------------
\* Other formats: buildings with and without yards and roofs, lines of one piece or two.
CityBuildings(ids) ==
  {[i \in 1..2 |-> [id |-> ids[i], rings |-> r[i], flat |-> f[i], roof |-> 10]] :
     r \in {<<<<4>>, <<4, 4>>>>, <<<<5, 3, 3>>, <<4>>>>}, f \in [1..2 -> BOOLEAN]}

CityInputs == {[buildings |-> b] : b \in CityBuildings(<<1, 2>>) \cup {<<>>}}

SiteLines == {[id |-> 1, axis |-> a, length |-> l, rings |-> r] : a \in BOOLEAN, l \in 0..1, r \in {<<1>>, <<2, 1>>, <<>>}}

LineInputs ==
  {[tin |-> [vertices |-> 4, triangles |-> {<<0, 1, 2>>, <<0, 2, 3>>}], roads |-> <<r, [s EXCEPT !.id = 2]>>, rail |-> <<t>>] :
     r, s, t \in SiteLines}

ListInputs ==
  {[coverages |-> <<[source |-> a, priority |-> 3], [source |-> b, priority |-> 2], [source |-> c, priority |-> 2]>>,
    keys |-> <<"ifc", "gpkg", "glb">>, stored |-> s, name |-> [k \in {"ifc", "gpkg", "glb"} |-> k]] :
     a, b, c \in {"survey", "tessadem"}, s \in SUBSET {"ifc", "gpkg", "glb"}}

\* The land registry answers, fails, repeats a parcel; a statement fails, the storage refuses.
Parcel(n, a, b) == [number |-> n, area |-> a, boundary |-> b]

Answers ==
  {Cadastre!Failed, <<>>} \cup {<<Parcel(1, 5, b), Parcel(n, 6, c)>> : n \in 0..2, b, c \in BOOLEAN}

ParcelInputs ==
  {[table |-> t, answer |-> a, retried |-> r, failing |-> f, refused |-> u] :
     t \in {<<>>, <<Parcel(1, 4, TRUE)>>}, a, r \in Answers, f \in SUBSET (1..2), u \in BOOLEAN}
-----------------------------------------------------------------------------
MCQuestions ==
  [merge |-> MergeInputs, coding |-> CodingInputs, tileset |-> TilesetInputs, seam |-> SeamInputs,
   tin |-> TinInputs, slope |-> SlopeInputs, roads |-> RoadInputs, lanes |-> LaneInputs,
   power |-> PowerInputs, wires |-> WireInputs, catenary |-> CatenaryInputs, fences |-> FenceInputs,
   stations |-> StationInputs, rail |-> RailInputs, trees |-> TreeInputs, access |-> AccessInputs,
   zones |-> OneZoneInputs, tags |-> TagInputs,
   roof |-> RoofInputs, height |-> HeightInputs, outlines |-> OutlineInputs, green |-> GreenInputs,
   water |-> WaterInputs, envelope |-> EnvelopeInputs, placement |-> PlacementInputs,
   earthworks |-> EarthworkInputs, norms |-> NormInputs, card |-> CardInputs, depth |-> DepthInputs,
   selection |-> SelectionInputs, zone |-> ZoneInputs, plane |-> PlaneInputs, log |-> LogInputs,
   junctions |-> JunctionInputs, audit |-> AuditInputs,
   assembly |-> AssemblyInputs, solids |-> SolidInputs, pavement |-> PavementInputs,
   city |-> CityInputs, lines |-> LineInputs, lists |-> ListInputs, parcels |-> ParcelInputs]
=============================================================================
