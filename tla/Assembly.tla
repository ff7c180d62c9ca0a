------------------------------ MODULE Assembly ------------------------------
(***************************************************************************)
(* site.ifc of a site and the files beside it (ifc/assemble.py), the         *)
(* GlobalIds of its products (ifc/registry.py) and its GLB (ifc/to_glb.py).  *)
(*                                                                         *)
(* A model maps a layer to a sequence of objects [ids, pieces, network,      *)
(* kind, layer, posts]: ids are the OSM objects it is made of, pieces the     *)
(* polygons of its outline.  A product stands for its GlobalId by its place  *)
(* in the file.  Names are kept up to the word they begin with.              *)
(***************************************************************************)
EXTENDS Integers, FiniteSets, FiniteSetsExt, Sequences, SequencesExt

Networks == {"backbone", "internal"}

NoFilter == "none"

Item(o, name, class, type, layer) ==
  [name |-> name, class |-> class, type |-> type, layer |-> layer, ids |-> o.ids, of |-> o,
   inSpace |-> FALSE]

\* The element class that any schema knows.
Proxy(o, name, layer) == Item(o, name, "IfcBuildingElementProxy", "USERDEFINED", layer)

\* Aggregated under the site instead of contained in it.
InSpace(item) == [item EXCEPT !.inSpace = TRUE]

\* One product per polygon of the outline.
PerPiece(o, item) == [i \in 1..o.pieces |-> item]

\* What has no OSM object of its own is not registered.
NotKept == ""
-----------------------------------------------------------------------------
(* build_site_ifc, layer by layer.                                         *)

Terrain(o)  == <<Item(o, "terrain", "IfcGeographicElement", "TERRAIN", NotKept)>>

Building(o) == <<Proxy(o, "building", o.layer)>>

Road(o, schema) ==
  PerPiece(o, IF schema = "IFC4X3" THEN InSpace(Item(o, "road", "IfcRoad", "none", "osm_roads"))
              ELSE Proxy(o, "road", "osm_roads"))

Bridge(o, schema) ==
  PerPiece(o, IF schema = "IFC4X3" THEN InSpace(Item(o, "bridge", "IfcBridge", "none", "osm_roads"))
              ELSE Proxy(o, "bridge", "osm_roads"))

\* Registered for every way it is made of.
Lane(o) == <<Proxy(o, "lane", "osm_roads")>>

Intersection(o) == <<Proxy(o, "intersection", NotKept)>>

\* All marks of a kind in one product; its network is named only when there is one.
Marking(marks) ==
  LET kinds   == SetToSeq({marks[i].kind : i \in DOMAIN marks})
      Of(k)   == {i \in DOMAIN marks : marks[i].kind = k}
      Nets(k) == {marks[i].network : i \in Of(k)}
      Whole(k) == [ids |-> <<>>, pieces |-> Cardinality(Of(k)), kind |-> k,
                   network |-> IF Cardinality(Nets(k)) = 1 THEN CHOOSE n \in Nets(k) : TRUE ELSE ""]
  IN  [i \in DOMAIN kinds |-> Proxy(Whole(kinds[i]), "marking", NotKept)]

WaterArea(o) == <<Item(o, "water", "IfcGeographicElement", "USERDEFINED", "osm_water_areas")>>

Waterway(o) == PerPiece(o, Item(o, "waterway", "IfcGeographicElement", "USERDEFINED", "osm_waterways"))

Rail(o)     == PerPiece(o, Proxy(o, "rail", "osm_railways"))
Platform(o) == PerPiece(o, Proxy(o, "platform", "osm_railway_platforms"))
Crossing(o) == <<Proxy(o, "crossing", "osm_railway_crossings")>>
CatenaryPole(o) == <<Proxy(o, "catenary", NotKept)>>

\* A calculated pole has no OSM object: its ids are empty.
PowerPole(o)  == <<Proxy(o, "pole", "osm_power")>>
Wire(o)       == <<Item(o, "wire", "IfcCableSegment", "CABLESEGMENT", NotKept)>>
Substation(o) == PerPiece(o, Proxy(o, "substation", "osm_power"))

SafetyZone(o) == PerPiece(o, InSpace(Item(o, "zone", "IfcSpatialZone", "USERDEFINED", NotKept)))

\* The posts come before the fence they carry; a wall has none.
Fence(o, schema) ==
  LET type == IF schema = "IFC4X3" THEN "FENCE" ELSE "USERDEFINED"
  IN  IF o.kind = "wall" THEN <<Item(o, "wall", "IfcWall", "USERDEFINED", "osm_landscaping")>>
      ELSE Append([i \in 1..o.posts |-> Item(o, "post", "IfcRailing", type, NotKept)],
                  Item(o, "fence", "IfcRailing", type, "osm_landscaping"))

Lamp(o)  == <<Proxy(o, "lamp", "osm_landscaping")>>
Tree(o)  == <<Item(o, "tree", "IfcGeographicElement", "USERDEFINED", "osm_vegetation")>>
Shrub(o) == <<Item(o, "shrub", "IfcGeographicElement", "USERDEFINED", "osm_vegetation")>>
Lawn(o)  == PerPiece(o, Item(o, "lawn", "IfcGeographicElement", "USERDEFINED", "osm_vegetation"))
Bench(o) == <<Item(o, "bench", "IfcFurniture", "USERDEFINED", "osm_landscaping")>>

\* The layers in the order they are gone through.
LAYERS == <<"terrain", "building", "road", "bridge", "lane", "intersection", "marking", "water", "waterway",
            "rail", "platform", "crossing", "catenary", "pole", "wire", "substation", "zone", "fence", "lamp",
            "tree", "shrub", "lawn", "bench">>

\* The products of one object of a layer.
ProductsOf(layer, o, schema) ==
  CASE layer = "terrain" -> Terrain(o)
    [] layer = "building" -> Building(o)
    [] layer = "road" -> Road(o, schema)
    [] layer = "bridge" -> Bridge(o, schema)
    [] layer = "lane" -> Lane(o)
    [] layer = "intersection" -> Intersection(o)
    [] layer = "water" -> WaterArea(o)
    [] layer = "waterway" -> Waterway(o)
    [] layer = "rail" -> Rail(o)
    [] layer = "platform" -> Platform(o)
    [] layer = "crossing" -> Crossing(o)
    [] layer = "catenary" -> CatenaryPole(o)
    [] layer = "pole" -> PowerPole(o)
    [] layer = "wire" -> Wire(o)
    [] layer = "substation" -> Substation(o)
    [] layer = "zone" -> SafetyZone(o)
    [] layer = "fence" -> Fence(o, schema)
    [] layer = "lamp" -> Lamp(o)
    [] layer = "tree" -> Tree(o)
    [] layer = "shrub" -> Shrub(o)
    [] layer = "lawn" -> Lawn(o)
    [] layer = "bench" -> Bench(o)

\* The layers a file of one road network has.
RoadLayers == {"road", "bridge", "lane", "intersection", "marking"}

Filtered(objects, layer, filter) ==
  IF filter = NoFilter THEN objects
  ELSE IF layer \in RoadLayers
  THEN FlattenSeq([i \in DOMAIN objects |-> IF objects[i].network = filter THEN <<objects[i]>> ELSE <<>>])
  ELSE <<>>

LayerProducts(layer, objects, schema) ==
  IF layer = "marking" THEN Marking(objects)
  ELSE FlattenSeq([i \in DOMAIN objects |-> ProductsOf(layer, objects[i], schema)])

BuildSiteIfc(schema, model, filter) ==
  LET Of(layer) == IF layer \in DOMAIN model THEN Filtered(model[layer], layer, filter) ELSE <<>>
  IN  FlattenSeq([k \in DOMAIN LAYERS |-> LayerProducts(LAYERS[k], Of(LAYERS[k]), schema)])

\* The files by layer have a part of the model each.
LayerModels(model) ==
  [relief    |-> [l \in DOMAIN model \cap {"terrain"} |-> model[l]],
   buildings |-> [l \in DOMAIN model \cap {"building"} |-> model[l]],
   power     |-> [l \in DOMAIN model \cap {"pole", "wire", "substation", "zone"} |-> model[l]]]

\* The registry of a file, in the order the products are made.
Registry(products) ==
  FlattenSeq([i \in DOMAIN products |->
    IF products[i].layer = NotKept THEN <<>>
    ELSE [j \in DOMAIN products[i].ids |-> [key |-> <<products[i].layer, products[i].ids[j]>>, product |-> i]]])

\* Mutant: ON CONFLICT DO NOTHING.
FirstStays(entries) ==
  [k \in {e.key : e \in ToSet(entries)} |->
     entries[Min({i \in DOMAIN entries : entries[i].key = k})].product]

\* register_global_ids: of several products of an object the last one is kept.
Registered(entries) ==
  [k \in {e.key : e \in ToSet(entries)} |->
     entries[Max({i \in DOMAIN entries : entries[i].key = k})].product]

\* ON CONFLICT DO UPDATE: rows of a file stored over what the table has of the model.
Upserted(table, rows) ==
  [k \in DOMAIN table \cup DOMAIN rows |-> IF k \in DOMAIN rows THEN rows[k] ELSE table[k]]

\* The products of a file by their objects, as <<schema, place>>.
Rows(schema, model) ==
  LET registered == Registered(Registry(BuildSiteIfc(schema, model, NoFilter)))
  IN  [k \in DOMAIN registered |-> <<schema, registered[k]>>]

\* generate_ifc stores the files of both schemas under one model_id, IFC4X3 after IFC4.
ModelRegistry(model) == Upserted(Rows("IFC4", model), Rows("IFC4X3", model))

\* find_by_global_id: any of the rows.
FindByGlobalId(registered, product) == {k \in DOMAIN registered : registered[k] = product}
-----------------------------------------------------------------------------
(* Meshes: vertices are numbered from 0, a face is a triple of them.         *)

RingStart(rings, r) == FoldLeft(LAMBDA a, n : a + n, 0, SubSeq(rings, 1, r - 1))

\* extrude_polygon_mesh: rings are the lengths of the outline and the holes, triangles
\* what earcut makes of them, always counter-clockwise.
ExtrudePolygonMesh(rings, triangles) ==
  LET n == RingStart(rings, Len(rings) + 1)
      Wall(r, i) == LET b0 == RingStart(rings, r) + i
                        b1 == RingStart(rings, r) + ((i + 1) % rings[r])
                    IN  {<<b0, b1, b1 + n>>, <<b0, b1 + n, b0 + n>>}
  IN  {<<t[1], t[3], t[2]>> : t \in triangles}
      \cup {<<t[1] + n, t[2] + n, t[3] + n>> : t \in triangles}
      \cup UNION {UNION {Wall(r, i) : i \in 0..(rings[r] - 1)} : r \in DOMAIN rings}

MeshCylinder(segments) ==
  LET Side(i) == LET j == (i + 1) % segments
                 IN  {<<i, j, segments + j>>, <<i, segments + j, segments + i>>}
  IN  (UNION {Side(i) : i \in 0..(segments - 1)})
      \cup {<<0, i + 1, i>> : i \in 1..(segments - 2)}
      \cup {<<segments, segments + i, segments + i + 1>> : i \in 1..(segments - 2)}

MeshRibbonAlongPath(n) ==
  UNION {{<<i, i + 1, n + i + 1>>, <<i, n + i + 1, n + i>>} : i \in 0..(n - 2)}

\* _combine_meshes: sizes are numbers of vertices.
CombineMeshes(sizes, faces) ==
  UNION {{[k \in 1..3 |-> f[k] + RingStart(sizes, i)] : f \in faces[i]} : i \in DOMAIN sizes}

Edges(faces) == {<<f[k], f[(k % 3) + 1]>> : f \in faces, k \in 1..3}

\* No two faces run along an edge the same way, and each edge has another face.
Oriented(faces) ==
  /\ Cardinality(Edges(faces)) = 3 * Cardinality(faces)
  /\ \A e \in Edges(faces) : <<e[2], e[1]>> \in Edges(faces)

\* Each edge has two faces, whichever way they run.
Closed(faces) ==
  \A e \in Edges(faces) :
    Cardinality({f \in faces : {e[1], e[2]} \subseteq {f[1], f[2], f[3]}}) = 2
-----------------------------------------------------------------------------
(* Heights, in tenths of a millimetre; widths, and offsets from an axis, in  *)
(* centimetres.                                                            *)

PAVEMENT_CLEARANCE == 300
MARKING_CLEARANCE  == 50
LANE_CROSS_SLOPE   == 2   \* per centimetre: 20 per mille

Unknown == 10000000

\* pavement_elevation_fn.
PavementElevation(ground) == IF ground = Unknown THEN Unknown ELSE ground + PAVEMENT_CLEARANCE

\* A fragment half as long again as wide has an axis of its own.
HasAxis(long, short) == 0 < short /\ 3 * short <= 2 * long

\* lane_pavement_elevation_fn.
LaneElevation(long, short, ground, profile, offset) ==
  IF ~HasAxis(long, short) THEN PavementElevation(ground)
  ELSE IF profile = Unknown THEN Unknown
  ELSE profile - LANE_CROSS_SLOPE * offset + PAVEMENT_CLEARANCE

\* lane_marking_elevation_fn.
MarkingElevation(base) == IF base = Unknown THEN Unknown ELSE base + MARKING_CLEARANCE

\* flat_polygon_mesh: an unknown height is drawn at 0.
Drawn(z) == IF z = Unknown THEN 0 ELSE z

-----------------------------------------------------------------------------
(* to_glb.py: the nodes of the scene, numbered from 1.                       *)

Categorize(p) ==
  CASE p.class = "IfcRoad" \/ p.name = "road" -> "roads"
    [] p.class = "IfcGeographicElement" ->
         (CASE p.type = "TERRAIN" -> "terrain"
            [] p.name = "tree" -> "trees"
            [] p.name \in {"water", "waterway"} -> "water"
            [] OTHER -> "other")
    [] p.class # "IfcGeographicElement" /\ p.name = "building" -> "buildings"
    [] p.class # "IfcGeographicElement" /\ p.name = "rail" -> "rail"
    [] OTHER -> "other"

Leaf(i)       == [name |-> "object", mesh |-> i, children |-> <<>>]
Folder(c, cs) == [name |-> c, mesh |-> 0, children |-> cs]

FolderOf(nodes, c) == {n \in DOMAIN nodes : nodes[n].mesh = 0 /\ nodes[n].name = c}

\* An object, then its folder when it is the first of it.
WithObject(nodes, i, c) ==
  LET node == Len(nodes) + 1
  IN  IF FolderOf(nodes, c) = {} THEN nodes \o <<Leaf(i), Folder(c, <<node>>)>>
      ELSE LET n == Min(FolderOf(nodes, c))
           IN  Append([nodes EXCEPT ![n].children = Append(@, node)], Leaf(i))

\* The terrain is left out.
Shown(products) == {i \in DOMAIN products : products[i].type # "TERRAIN"}

\* The objects and their folders.
Scene(products) ==
  FoldLeft(LAMBDA ns, i : IF i \in Shown(products) THEN WithObject(ns, i, Categorize(products[i])) ELSE ns,
           <<>>, [i \in DOMAIN products |-> i])

\* The root has the folders.
ConvertIfcToGlb(products) ==
  LET nodes == Scene(products)
  IN  Append(nodes, Folder("site", FlattenSeq([n \in DOMAIN nodes |-> IF nodes[n].mesh = 0 THEN <<n>> ELSE <<>>])))

\* The bytes of a mesh: three floats a vertex, three numbers a face.
BufferViews(meshes) ==
  FoldLeft(LAMBDA acc, mesh :
             LET at == IF acc = <<>> THEN 0 ELSE Last(acc).offset + Last(acc).length
             IN  acc \o <<[offset |-> at, length |-> 12 * mesh.vertices],
                          [offset |-> at + 12 * mesh.vertices, length |-> 12 * mesh.faces]>>,
           <<>>, meshes)
-----------------------------------------------------------------------------
(* What the files promise together.                                        *)

Objects(products) == {[p EXCEPT !.inSpace = FALSE] : p \in {q \in ToSet(products) : q.name # "marking"}}

Marks(products, kind) ==
  FoldLeft(LAMBDA a, p : a + (IF p.name = "marking" /\ p.of.kind = kind THEN p.of.pieces ELSE 0), 0, products)

\* The file of the site has what the files of the networks have, each road in one of
\* them, and all the products of the files by layer.
FilesAgree(schema, model) ==
  LET whole  == BuildSiteIfc(schema, model, NoFilter)
      File(n) == BuildSiteIfc(schema, model, n)
      parts  == LayerModels(model)
  IN  /\ {p \in Objects(whole) : p.name \in RoadLayers} = UNION {Objects(File(n)) : n \in Networks}
      /\ Objects(File("backbone")) \cap Objects(File("internal")) = {}
      /\ \A k \in {"dash", "arrow"} : Marks(whole, k) = Marks(File("backbone"), k) + Marks(File("internal"), k)
      /\ \A n \in Networks : \A p \in ToSet(File(n)) : p.of.network = n
      /\ \A l \in DOMAIN parts :
           ToSet(BuildSiteIfc(schema, parts[l], NoFilter)) \subseteq ToSet(whole)

\* What is no element is aggregated and all else contained, in either schema as many
\* products; for an object of either file the registry has the product of the IFC4X3 file,
\* the last one of the object - of a road that was cut into lanes a lane - and finds the
\* object back by it, while by a product of the IFC4 file it finds nothing any more.
ProductsAreFound(schema, model) ==
  LET products   == BuildSiteIfc(schema, model, NoFilter)
      later      == BuildSiteIfc("IFC4X3", model, NoFilter)
      registered == ModelRegistry(model)
  IN  /\ \A p \in ToSet(products) :
           p.inSpace <=> p.class \in {"IfcRoad", "IfcBridge", "IfcSpatialZone"}
      /\ Len(products) = Len(BuildSiteIfc("IFC4", model, NoFilter))
      /\ \A i \in DOMAIN products : products[i].layer # NotKept => \A id \in ToSet(products[i].ids) :
           \E found \in DOMAIN later :
             /\ <<products[i].layer, id>> \in FindByGlobalId(registered, <<"IFC4X3", found>>)
             /\ id \in ToSet(later[found].ids) /\ later[found].layer = products[i].layer
             /\ schema = "IFC4X3" =>
                  found >= i /\ (products[i].name = "lane" => later[found].name = "lane")
      /\ schema = "IFC4" => \A i \in DOMAIN products : FindByGlobalId(registered, <<"IFC4", i>>) = {}

\* The scene of the GLB is a tree: root, folders, objects; each object but the terrain
\* is in it once, in its own folder, and the bytes of the meshes do not overlap.
GlbIsATree(products) ==
  LET nodes  == ConvertIfcToGlb(products)
      root   == Len(nodes)
      Kids(n) == ToSet(nodes[n].children)
      views  == BufferViews([i \in 1..Cardinality(Shown(products)) |-> [vertices |-> i + 2, faces |-> i]])
  IN  /\ \A n \in 1..(root - 1) : Cardinality({k \in DOMAIN nodes : n \in Kids(k)}) = 1
      /\ \A i \in Shown(products) : Cardinality({n \in DOMAIN nodes : nodes[n].mesh = i}) = 1
      /\ \A f \in Kids(root) : nodes[f].mesh = 0 /\ \A n \in Kids(f) :
           nodes[n].mesh # 0 /\ Categorize(products[nodes[n].mesh]) = nodes[f].name
      /\ \A n \in DOMAIN nodes \ {root} : (nodes[n].mesh = 0) = (n \in Kids(root))
      /\ \A v \in DOMAIN views : v > 1 => views[v].offset = views[v - 1].offset + views[v - 1].length

\* A prism is closed, and looks outwards all around when its outline runs
\* counter-clockwise as the triangles do; a pole is closed and looks outwards, a wire is a
\* strip.  Outlines of buildings run so (repair_footprint orients them), those of
\* walls, safety zones and substations as the buffer or the source left them.
SolidsAreClosed(rings, triangles, counterClockwise, segments) ==
  LET prism == ExtrudePolygonMesh(rings, triangles)
      pole  == MeshCylinder(segments)
  IN  /\ Closed(prism) /\ (counterClockwise => Oriented(prism))
      /\ Closed(pole) /\ Oriented(pole)
      /\ Cardinality(MeshRibbonAlongPath(segments)) = 2 * (segments - 1)
      /\ Cardinality(Edges(MeshRibbonAlongPath(segments))) = 6 * (segments - 1)
      /\ Oriented(CombineMeshes(<<2 * segments, 2 * segments>>, <<pole, pole>>))

\* A ribbon up to three metres wide lies above the ground that was cut along its profile, and
\* so does a fragment without an axis; paint lies above its pavement where both have one
\* axis, and a height is unknown only where that of the ground is.
PavementIsOnTop(long, short, ground, offset) ==
  LET lane == LaneElevation(long, short, ground, ground, offset)
  IN  /\ (lane = Unknown) = (ground = Unknown)
      /\ ground # Unknown =>
           /\ short < 300 \/ ~HasAxis(long, short) => lane > ground
           /\ Drawn(MarkingElevation(lane)) > Drawn(lane)

\* Pavement lies above the ground wherever it is.
LiesOver(long, short, ground, offset) ==
  ground # Unknown => LaneElevation(long, short, ground, ground, offset) > ground
=============================================================================
