-------------------------------- MODULE Files --------------------------------
(***************************************************************************)
(* The files of a site: site.ifc with the files beside it (Assembly) and    *)
(* the export formats (Exports), side by side, and what they are made from. *)
(***************************************************************************)
EXTENDS Integers, FiniteSets, FiniteSetsExt, Sequences, SequencesExt

Assembly == INSTANCE Assembly
Exports  == INSTANCE Exports

\* A model has objects per layer, and its buildings come from layers of their own
\* (LAYER_BUILDINGS, LAYER_BUILDING_PARTS).
LayerNames ==
  {"terrain", "building", "road", "bridge", "lane", "intersection", "water", "waterway", "rail", "platform",
   "crossing", "catenary", "pole", "wire", "substation", "zone", "fence", "lamp", "tree", "shrub", "lawn",
   "bench", "marking"}

SiteObjects == [ids : Seq(Int), pieces : Nat, network : STRING, kind : STRING, layer : STRING, posts : Nat]

LayerOf(layer, objects) ==
  objects \in Seq(SiteObjects) /\ \A o \in ToSet(objects) : layer = "building" => o.layer # "osm_roads"

Modelled(model) ==
  DOMAIN model \subseteq LayerNames /\ \A l \in DOMAIN model : LayerOf(l, model[l])

\* The edges of an outline and its holes.
Border(rings) ==
  UNION {{<<Assembly!RingStart(rings, r) + i, Assembly!RingStart(rings, r) + ((i + 1) % rings[r])>> :
            i \in 0..(rings[r] - 1)} : r \in DOMAIN rings}

\* Triangles fill an outline with its holes: none but theirs, no two the same way, inside
\* the edges of the outline, which they have on their left.
Triangulates(rings, triangles, ccw) ==
  LET n      == Assembly!RingStart(rings, Len(rings) + 1)
      Goes(a, b) == \E t \in triangles : \E k \in 1..3 : t[k] = a /\ t[(k % 3) + 1] = b
  IN  /\ rings \in Seq(Nat) /\ rings # <<>> /\ \A r \in DOMAIN rings : rings[r] >= 3
      /\ triangles \subseteq (0..(n - 1)) \X (0..(n - 1)) \X (0..(n - 1))
      /\ \A t \in triangles : t[1] # t[2] /\ t[2] # t[3] /\ t[3] # t[1]
      /\ \A s, t \in triangles : \A i, j \in 1..3 :
           s[i] = t[j] /\ s[(i % 3) + 1] = t[(j % 3) + 1] => s = t
      /\ \A e \in Border(rings) : (Goes(e[1], e[2]) <=> ccw) /\ (Goes(e[2], e[1]) <=> ~ccw)
      /\ \A t \in triangles : \A k \in 1..3 :
           LET a == t[k]
               b == t[(k % 3) + 1]
           IN  <<a, b>> \in Border(rings) \/ <<b, a>> \in Border(rings) \/ Goes(b, a)
=============================================================================
