------------------------------- MODULE Exports -------------------------------
(***************************************************************************)
(* The files beside site.ifc: CityJSON, LandXML and DXF of a site (export/), *)
(* the list of sources in meta.json and the folder of exchange.              *)
(*                                                                         *)
(* A building [id, rings, flat, roof] has the lengths of its rings, and the  *)
(* vertices of its mesh under a roof that is not flat; a line [id, axis,      *)
(* length, rings] has the numbers of rings of its polygons.                  *)
(***************************************************************************)
EXTENDS Integers, FiniteSets, FiniteSetsExt, Sequences, SequencesExt

Total(s) == FoldLeft(LAMBDA a, b : a + b, 0, s)

-----------------------------------------------------------------------------
(* cityjson.py: a range [from, to) of the list of vertices per geometry.     *)

Range2(from, n) == [from |-> from, to |-> from + n]

\* _building_lod2_mesh: a flat roof has the mesh of the block.
Lod2Vertices(b) == IF b.flat THEN 2 * Total(b.rings) ELSE b.roof

\* The outline, the block and the building with its roof append their vertices in turn.
CityObject(b, count) ==
  [lod0 |-> Range2(count, Total(b.rings)),
   lod1 |-> Range2(count + Total(b.rings), 2 * Total(b.rings)),
   lod2 |-> Range2(count + 3 * Total(b.rings), Lod2Vertices(b))]

\* build_cityjson: objects by the id of the building, a later one replaces an earlier.
BuildCityJson(buildings) ==
  FoldLeft(LAMBDA doc, b :
             LET object == CityObject(b, doc.count)
             IN  [count   |-> doc.count + 3 * Total(b.rings) + Lod2Vertices(b),
                  objects |-> [id \in DOMAIN doc.objects \cup {b.id} |->
                                 IF id = b.id THEN object ELSE doc.objects[id]]],
           [count |-> 0, objects |-> <<>>], buildings)
-----------------------------------------------------------------------------
(* landxml.py: points are numbered from 1.                                  *)

SurfaceFaces(triangles) == {[k \in 1..3 |-> t[k] + 1] : t \in triangles}

\* _alignment_element: a line of one piece with a length.
HasAlignment(line) == line.axis /\ line.length > 0

Alignments(lines, prefix) ==
  FlattenSeq([i \in DOMAIN lines |-> IF HasAlignment(lines[i]) THEN <<<<prefix, lines[i].id>>>> ELSE <<>>])

BuildLandXml(tin, roads, rail) ==
  [points |-> 1..tin.vertices, faces |-> SurfaceFaces(tin.triangles),
   alignments |-> Alignments(roads, "road") \o Alignments(rail, "track")]
-----------------------------------------------------------------------------
(* dxf.py: a closed line for every ring of every polygon.                    *)

PolygonOutlines(f, rings, layer) == [i \in 1..Total(rings) |-> <<layer, f.id>>]

BuildDxf(buildings, roads, waterAreas, waterways) ==
  LET Drawn(s, layer) == FlattenSeq([i \in DOMAIN s |-> PolygonOutlines(s[i], s[i].rings, layer)])
  IN  FlattenSeq([i \in DOMAIN buildings |-> PolygonOutlines(buildings[i], <<Len(buildings[i].rings)>>, "buildings")])
      \o Drawn(roads, "roads") \o Drawn(waterAreas, "water") \o Drawn(waterways, "water")
-----------------------------------------------------------------------------
(* _collect_sources: OSM imports, then each source of relief once, the best  *)
(* of its coverages.                                                         *)

ReliefSources(coverages) ==
  FoldLeft(LAMBDA seen, c : IF \E s \in ToSet(seen) : s.source = c.source THEN seen ELSE Append(seen, c),
           <<>>, coverages)

\* export_job_to_exchange_folder: files by the last word of their key; what is not
\* stored is told and the rest goes on.
ExportToFolder(keys, stored, name) ==
  [files   |-> {name[keys[i]] : i \in {j \in DOMAIN keys : keys[j] \in stored}},
   missing |-> FlattenSeq([i \in DOMAIN keys |-> IF keys[i] \in stored THEN <<>> ELSE <<keys[i]>>])]
-----------------------------------------------------------------------------
Within(r, s) == s.from <= r.from /\ r.to <= s.to

Apart(r, s) == r.to <= s.from \/ s.to <= r.from

\* Every solid is found in the city model with vertices of its own; the outlines of the
\* drawing are of the same buildings, ring by ring.
BuildingsAgree(buildings) ==
  LET doc == BuildCityJson(buildings)
      ids == {b.id : b \in ToSet(buildings)}
      dxf == BuildDxf(buildings, <<>>, <<>>, <<>>)
      Ranges == {doc.objects[id] : id \in ids}
  IN  /\ DOMAIN doc.objects = ids /\ Cardinality(Ranges) = Len(buildings)
      /\ \A o \in Ranges : /\ Apart(o.lod0, o.lod1) /\ Apart(o.lod1, o.lod2) /\ Apart(o.lod0, o.lod2)
                           /\ \A r \in {o.lod0, o.lod1, o.lod2} : Within(r, Range2(0, doc.count))
                           /\ \A p \in Ranges \ {o} : Apart(Range2(o.lod0.from, o.lod2.to - o.lod0.from),
                                                            Range2(p.lod0.from, p.lod2.to - p.lod0.from))
      /\ \A b \in ToSet(buildings) :
           Cardinality({i \in DOMAIN dxf : dxf[i] = <<"buildings", b.id>>}) = Len(b.rings)
           /\ (b.flat => doc.objects[b.id].lod2.to - doc.objects[b.id].lod2.from
                           = doc.objects[b.id].lod1.to - doc.objects[b.id].lod1.from)

\* The surface has the triangles of the terrain between its points, a road an alignment
\* when it is of one piece, and is drawn in either case.
LinesAgree(tin, roads, rail) ==
  LET xml == BuildLandXml(tin, roads, rail)
      dxf == BuildDxf(<<>>, roads, <<>>, <<>>)
  IN  /\ Cardinality(xml.faces) = Cardinality(tin.triangles)
      /\ UNION {{f[k] : k \in 1..3} : f \in xml.faces} \subseteq xml.points
      /\ \A r \in ToSet(roads) :
           /\ (<<"road", r.id>> \in ToSet(xml.alignments)) <=> HasAlignment(r)
           /\ Cardinality({i \in DOMAIN dxf : dxf[i] = <<"roads", r.id>>}) = Total(r.rings)

\* Each source is named once, by its coverage of the highest priority; every key of an
\* export is a file or is told missing, and no two files have one name.
ListsAreComplete(coverages, keys, stored, name) ==
  LET sources == ReliefSources(coverages)
      out     == ExportToFolder(keys, stored, name)
  IN  /\ {s.source : s \in ToSet(sources)} = {c.source : c \in ToSet(coverages)}
      /\ \A i, j \in DOMAIN sources : i < j => sources[i].source # sources[j].source
      /\ \A s \in ToSet(sources), c \in ToSet(coverages) : c.source = s.source => c.priority <= s.priority
      /\ Cardinality(out.files) + Len(out.missing) = Len(keys)
=============================================================================
