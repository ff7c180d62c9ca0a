------------------------ MODULE JobArtifactsProofs ------------------------
(***************************************************************************)
(* Whoever asks for a file of a job finds it, for any number of networks,  *)
(* tiles, chains and stops.                                                *)
(*                                                                         *)
(* The argument: objects are replaced, never removed.  So what a step needs *)
(* is there if an earlier step uploaded it, and Ops is such that every     *)
(* download of a step is an upload of an earlier one.  And while chains take *)
(* turns, the one at work knows what it has made, which its step, when done, *)
(* leaves behind (MadeInv).                                                *)
(***************************************************************************)
EXTENDS JobArtifacts, SequenceTheorems, TLAPS

NamespaceCount == Len(Namespaces)
TileCount == Len(Tiles)

\* The operations there are.
Operations ==
  {Get(f) : f \in Files} \cup {Put(f) : f \in Files} \cup {PutAside(f) : f \in Files}
  \cup {Register(Namespaces[k]) : k \in DOMAIN Namespaces}

OpsOf(k) == Ops[Pipeline[k]]

LEMMA Counts ==
  /\ NamespaceCount \in Nat \ {0} /\ DOMAIN Namespaces = 1..NamespaceCount
  /\ TileCount \in Nat /\ DOMAIN Tiles = 1..TileCount
  /\ DOMAIN Schemas = 1..2 /\ Len(Schemas) = 2
BY NamespacesAssumption, TilesAssumption DEF NamespaceCount, TileCount, Schemas

LEMMA DivisionUnique ==
  ASSUME NEW n \in Int, NEW d \in Nat \ {0}, NEW q \in Int, q * d <= n, n < q * d + d
  PROVE  n \div d = q
<1> DEFINE a == n \div d
<1>1. a \in Int /\ a * d <= n /\ n < a * d + d
  OBVIOUS
<1> HIDE DEF a
<1>2. ~ (a <= q - 1)
  <2> SUFFICES ASSUME a + 1 <= q PROVE FALSE
    BY <1>1
  <2>1. (a + 1) * d <= q * d
    BY <1>1
  <2> QED
    BY <1>1, <2>1
<1>3. ~ (q <= a - 1)
  <2> SUFFICES ASSUME q + 1 <= a PROVE FALSE
    BY <1>1
  <2>1. (q + 1) * d <= a * d
    BY <1>1
  <2> QED
    BY <1>1, <2>1
<1>4. a = q
  BY <1>1, <1>2, <1>3
<1> QED
  BY <1>4 DEF a

LEMMA Joined ==
  ASSUME NEW S, NEW s \in Seq(S), NEW t \in Seq(S), NEW m \in Nat, NEW n \in Nat,
         Len(s) = m, Len(t) = n
  PROVE  /\ s \o t \in Seq(S) /\ Len(s \o t) = m + n
         /\ \A i \in 1..m : (s \o t)[i] = s[i]
         /\ \A i \in 1..n : (s \o t)[m + i] = t[i]
<1>1. /\ s \o t \in Seq(S)
      /\ Len(s \o t) = Len(s) + Len(t)
      /\ \A i \in 1 .. Len(s) + Len(t) : (s \o t)[i] = IF i <= Len(s) THEN s[i] ELSE t[i - Len(s)]
  BY ConcatProperties
<1> DEFINE st == s \o t
<1>2. /\ st \in Seq(S) /\ Len(st) = m + n
      /\ \A i \in 1 .. m + n : st[i] = IF i <= m THEN s[i] ELSE t[i - m]
  BY <1>1
<1> HIDE DEF st
<1>3. \A i \in 1..m : st[i] = s[i]
  BY <1>2
<1>4. \A i \in 1..n : st[m + i] = t[i]
  <2> SUFFICES ASSUME NEW i \in 1..n PROVE st[m + i] = t[i]
    OBVIOUS
  <2>1. m + i \in 1..(m + n) /\ ~(m + i <= m) /\ (m + i) - m = i
    OBVIOUS
  <2> QED BY <1>2, <2>1
<1> QED BY <1>2, <1>3, <1>4 DEF st

\* Every element of st is one of s or one of t.
MadeOf(st, s, t) ==
  \A i \in DOMAIN st : (\E j \in DOMAIN s : st[i] = s[j]) \/ (\E j \in DOMAIN t : st[i] = t[j])

LEMMA JoinedElements ==
  ASSUME NEW S, NEW s \in Seq(S), NEW t \in Seq(S)
  PROVE  s \o t \in Seq(S) /\ MadeOf(s \o t, s, t)
<1>1. PICK m \in Nat, n \in Nat : /\ m = Len(s) /\ n = Len(t)
                                /\ DOMAIN s = 1..m /\ DOMAIN t = 1..n
  BY LenProperties
<1>2. PICK st : st = s \o t
  OBVIOUS
<1>3. /\ st \in Seq(S) /\ Len(st) = m + n
      /\ \A i \in 1..m : st[i] = s[i]
      /\ \A i \in 1..n : st[m + i] = t[i]
  BY <1>1, <1>2, Joined
<1>4. DOMAIN st = 1..(m + n)
  BY <1>3
<1>5. ASSUME NEW i \in 1..(m + n)
      PROVE  (\E j \in 1..m : st[i] = s[j]) \/ (\E j \in 1..n : st[i] = t[j])
  <2>1. CASE i <= m
    BY <1>3, <2>1
  <2>2. CASE i > m
    <3>1. i - m \in 1..n /\ m + (i - m) = i
      BY <2>2
    <3> QED BY <1>3, <3>1
  <2> QED BY <2>1, <2>2
<1>6. MadeOf(st, s, t)
  BY <1>1, <1>4, <1>5 DEF MadeOf
<1> QED BY <1>2, <1>3, <1>6

LEMMA Remainder ==
  ASSUME NEW c \in Int, NEW n \in Nat \ {0}
  PROVE  c % n = c - n * (c \div n)
OBVIOUS

LEMMA Quotients ==
  ASSUME NEW n \in Nat \ {0}, NEW i \in 1..(2 * n)
  PROVE  /\ (i - 1) \div n \in {0, 1}
         /\ (i - 1) % n \in 0..(n - 1)
         /\ (2 * i - 1) \div 2 = i - 1
         /\ (2 * i - 1) \div (2 * n) = (i - 1) \div n
<1>1. CASE i <= n
  <2>1. (i - 1) \div n = 0
    BY <1>1, DivisionUnique
  <2>2. (2 * i - 1) \div (2 * n) = 0
    BY <1>1, DivisionUnique
  <2> QED BY <2>1, <2>2
<1>2. CASE i > n
  <2>1. (i - 1) \div n = 1
    BY <1>2, DivisionUnique
  <2>2. (2 * i - 1) \div (2 * n) = 1
    BY <1>2, DivisionUnique
  <2> QED BY <2>1, <2>2
<1> QED BY <1>1, <1>2

\* assemble_ifc uploads the model of every network in every schema.
LEMMA Assembling ==
  /\ AssembleModels \in Seq(Operations)
  /\ Len(AssembleModels) = 4 * NamespaceCount
  /\ \A i \in 1..(2 * NamespaceCount) :
       AssembleModels[2 * i] = Put(IfcFile(Namespaces[((i - 1) % NamespaceCount) + 1],
                                           Schemas[((i - 1) \div NamespaceCount) + 1]))
  /\ \A i \in 1..(4 * NamespaceCount) :
       \/ \E k \in DOMAIN Namespaces : AssembleModels[i] = Register(Namespaces[k])
       \/ \E k \in DOMAIN Namespaces, s \in DOMAIN Schemas :
            AssembleModels[i] = Put(IfcFile(Namespaces[k], Schemas[s]))
  /\ AssembleModels[2 * NamespaceCount + 1] = Register("site")
  \* The models after that of the site in the second schema are of others.
  /\ \A i \in (2 * NamespaceCount + 3)..(4 * NamespaceCount) :
       \E name, schema : name # "site" /\ AssembleModels[i] \in {Register(name), Put(IfcFile(name, schema))}
<1> DEFINE n == NamespaceCount
           ns(i) == Namespaces[(((i - 1) \div 2) % n) + 1]
           sch(i) == Schemas[((i - 1) \div (2 * n)) + 1]
           e(i) == IF i % 2 = 1 THEN Register(ns(i)) ELSE Put(IfcFile(ns(i), sch(i)))
<1>1. n \in Nat \ {0}
  BY Counts
<1>2. AssembleModels = [i \in 1..(4 * n) |-> e(i)]
  <2>1. 2 * n * Len(Schemas) = 4 * n
    BY Counts, <1>1
  <2> QED BY <2>1 DEF AssembleModels, ModelId, NamespaceCount
<1>3. \A i \in 1..(4 * n) : /\ (((i - 1) \div 2) % n) + 1 \in DOMAIN Namespaces
                            /\ ((i - 1) \div (2 * n)) + 1 \in DOMAIN Schemas
  <2> SUFFICES ASSUME NEW i \in 1..(4 * n)
               PROVE  /\ (((i - 1) \div 2) % n) + 1 \in DOMAIN Namespaces
                      /\ ((i - 1) \div (2 * n)) + 1 \in DOMAIN Schemas
    OBVIOUS
  <2>1. (i - 1) \div 2 \in Int
    OBVIOUS
  <2>2. ((i - 1) \div 2) % n \in 0..(n - 1)
    BY <1>1, <2>1
  <2>3. 2 * n \in Nat \ {0} /\ i \in 1..(2 * (2 * n))
    BY <1>1
  <2>4. (i - 1) \div (2 * n) \in {0, 1}
    BY <2>3, Quotients
  <2> QED BY <1>1, <2>2, <2>4, Counts
<1>4. \A i \in 1..(4 * n) :
       \/ \E k \in DOMAIN Namespaces : e(i) = Register(Namespaces[k])
       \/ \E k \in DOMAIN Namespaces, s \in DOMAIN Schemas : e(i) = Put(IfcFile(Namespaces[k], Schemas[s]))
  BY <1>3
<1>5. \A i \in 1..(4 * n) : e(i) \in Operations
  BY <1>4 DEF Operations, Files, IfcFiles
<1>6. \A i \in 1..(2 * n) :
        e(2 * i) = Put(IfcFile(Namespaces[((i - 1) % n) + 1], Schemas[((i - 1) \div n) + 1]))
  <2> SUFFICES ASSUME NEW i \in 1..(2 * n)
               PROVE  e(2 * i) = Put(IfcFile(Namespaces[((i - 1) % n) + 1], Schemas[((i - 1) \div n) + 1]))
    OBVIOUS
  <2>1. (2 * i - 1) \div 2 = i - 1 /\ (2 * i - 1) \div (2 * n) = (i - 1) \div n
    BY <1>1, Quotients
  <2>2. (2 * i) % 2 # 1
    OBVIOUS
  <2> QED BY <2>1, <2>2
<1>9. e(2 * n + 1) = Register("site")
  <2>1. ((2 * n + 1) - 1) \div 2 = n /\ n % n = 0 /\ (2 * n + 1) % 2 = 1
    <3>1. n \div n = 1 /\ (2 * n) \div 2 = n
      BY <1>1, DivisionUnique
    <3> QED BY <1>1, <3>1
  <2>2. Namespaces[1] = "site"
    BY NamespacesAssumption, Counts
  <2>3. ns(2 * n + 1) = "site"
    BY <2>1, <2>2
  <2> QED BY <2>1, <2>3
<1>10. \A i \in (2 * n + 3)..(4 * n) :
        \E name, schema : name # "site" /\ e(i) \in {Register(name), Put(IfcFile(name, schema))}
  <2> SUFFICES ASSUME NEW i \in (2 * n + 3)..(4 * n) PROVE ns(i) # "site"
    OBVIOUS
  <2>1. (i - 1) \div 2 \in (n + 1)..(2 * n - 1)
    BY <1>1
  <2>2. ((i - 1) \div 2) % n # 0
    <3> DEFINE c == (i - 1) \div 2
    <3>1. c \div n = 1
      BY <1>1, <2>1, DivisionUnique
    <3>2. c \in Int /\ c # n
      BY <1>1, <2>1
    <3> HIDE DEF c
    <3>3. c % n = c - n * (c \div n)
      BY <1>1, <3>2, Remainder
    <3>4. c % n = c - n
      BY <1>1, <3>1, <3>2, <3>3
    <3> QED BY <1>1, <3>2, <3>4 DEF c
  <2>3. i \in 1..(4 * n)
    BY <1>1
  <2> QED BY <1>3, <2>2, <2>3, NamespacesAssumption, Counts
<1> HIDE DEF e
<1>7. AssembleModels \in Seq(Operations) /\ Len(AssembleModels) = 4 * n
  <2>1. 4 * n \in Nat
    BY <1>1
  <2> QED BY <1>2, <1>5, <2>1, IsASeq, LenProperties
<1>8. \A i \in 1..(2 * n) : 2 * i \in 1..(4 * n)
  BY <1>1
<1>11. 2 * n + 1 \in 1..(4 * n) /\ \A i \in (2 * n + 3)..(4 * n) : i \in 1..(4 * n)
  BY <1>1
<1> QED BY <1>2, <1>4, <1>6, <1>7, <1>8, <1>9, <1>10, <1>11 DEF n

LEMMA FilesKnown ==
  /\ \A n \in {"osm_selection.json", "cadastre_boundaries.geojson", "relief.tif", "site.gpkg",
               "site.landxml", "site.cityjson", "site.dxf", "site.glb", "tileset.json",
               "meta.json", "package.zip"} :
       File(n) \in Files /\ Get(File(n)) \in Operations /\ Put(File(n)) \in Operations
       /\ PutAside(File(n)) \in Operations
  /\ \A k \in DOMAIN Tiles : PutAside(TileFile(Tiles[k])) \in Operations
  /\ \A k \in DOMAIN Namespaces, i \in DOMAIN Schemas :
       /\ IfcFile(Namespaces[k], Schemas[i]) \in Files
       /\ Get(IfcFile(Namespaces[k], Schemas[i])) \in Operations
       /\ Put(IfcFile(Namespaces[k], Schemas[i])) \in Operations
<1>1. \A n \in {"osm_selection.json", "cadastre_boundaries.geojson", "relief.tif", "site.gpkg",
               "site.landxml", "site.cityjson", "site.dxf", "site.glb", "tileset.json",
               "meta.json", "package.zip"} : File(n) \in Files
  BY DEF Files, Common
<1>2. \A k \in DOMAIN Tiles : TileFile(Tiles[k]) \in Files
  BY DEF Files, TileFiles
<1>3. \A k \in DOMAIN Namespaces, i \in DOMAIN Schemas : IfcFile(Namespaces[k], Schemas[i]) \in Files
  BY DEF Files, IfcFiles
<1> QED BY <1>1, <1>2, <1>3 DEF Operations

\* Different operations and files look different.
LEMMA Different ==
  /\ \A f, g : Get(f) # Put(g) /\ Get(f) # PutAside(g) /\ Get(f) # Register(g)
               /\ Put(f) # PutAside(g) /\ Put(f) # Register(g) /\ PutAside(f) # Register(g)
  /\ \A f, g : /\ Get(f) = Get(g) => f = g
               /\ Put(f) = Put(g) => f = g
               /\ PutAside(f) = PutAside(g) => f = g
  /\ \A m, n : File(m) = File(n) => m = n
  /\ \A n, ns, schema : File(n) # IfcFile(ns, schema)
  /\ \A n, t : File(n) # TileFile(t)
<1>1. \A f, g : Get(f) # Put(g) /\ Get(f) # PutAside(g) /\ Get(f) # Register(g)
               /\ Put(f) # PutAside(g) /\ Put(f) # Register(g) /\ PutAside(f) # Register(g)
  <2>1. \A f : Get(f).do = "get" /\ Put(f).do = "put" /\ PutAside(f).do = "aside"
               /\ Register(f).do = "register"
    BY DEF Get, Put, PutAside, Register
  <2> QED BY <2>1
<1>2. \A f, g : /\ Get(f) = Get(g) => f = g
                /\ Put(f) = Put(g) => f = g
                /\ PutAside(f) = PutAside(g) => f = g
  <2>1. \A f : Get(f).on = f /\ Put(f).on = f /\ PutAside(f).on = f
    BY DEF Get, Put, PutAside
  <2> QED BY <2>1
<1>3. \A m, n : File(m) = File(n) => m = n
  <2>1. \A n : File(n)[1] = n
    BY DEF File
  <2> QED BY <2>1
<1>4. \A n, ns, schema : File(n) # IfcFile(ns, schema)
  <2>1. \A n, ns, schema : Len(<<n>>) = 1 /\ Len(<<ns, schema>>) = 2
    OBVIOUS
  <2> QED BY <2>1 DEF File, IfcFile
<1>5. \A n, t : File(n) # TileFile(t)
  <2>1. \A n, tl : Len(<<n>>) = 1 /\ Len(<<"tile", tl>>) = 2
    OBVIOUS
  <2> QED BY <2>1 DEF File, TileFile
<1> QED BY <1>1, <1>2, <1>3, <1>4, <1>5

LEMMA StepsAre ==
  /\ Steps = 1..8
  /\ OpsOf(1) = <<Put(File("osm_selection.json"))>>
  /\ OpsOf(2) = <<PutAside(File("cadastre_boundaries.geojson"))>>
  /\ OpsOf(3) = <<Put(File("relief.tif"))>>
  /\ OpsOf(4) = <<Put(File("site.gpkg"))>>
  /\ OpsOf(5) = <<Get(File("relief.tif"))>> \o AssembleModels \o
                <<Put(File("site.landxml")), Put(File("site.cityjson")), Put(File("site.dxf"))>>
  /\ OpsOf(6) = <<Get(IfcFile("site", "IFC4X3")), Put(File("site.glb"))>>
  /\ OpsOf(7) = <<Get(File("relief.tif"))>> \o TilesetUploads
  /\ OpsOf(8) = [k \in DOMAIN Packed |-> Get(Packed[k])] \o
                <<Put(File("meta.json")), Put(File("package.zip"))>>
  /\ \A k \in Steps : Swallows(Pipeline[k]) <=> k = 2
<1>1. Steps = 1..8
  BY DEF Steps, Pipeline
<1>2. /\ Pipeline[1] = "select_osm" /\ Pipeline[2] = "fetch_cadastre"
      /\ Pipeline[3] = "prepare_relief" /\ Pipeline[4] = "select_and_normalize"
      /\ Pipeline[5] = "assemble_ifc" /\ Pipeline[6] = "convert_to_glb"
      /\ Pipeline[7] = "generate_tileset" /\ Pipeline[8] = "package_outputs"
  BY DEF Pipeline
<1>3. \A k \in Steps : Swallows(Pipeline[k]) <=> k = 2
  <2> SUFFICES ASSUME NEW k \in 1..8 PROVE Pipeline[k] = "fetch_cadastre" <=> k = 2
    BY <1>1 DEF Swallows
  <2>1. k = 1 \/ k = 2 \/ k = 3 \/ k = 4 \/ k = 5 \/ k = 6 \/ k = 7 \/ k = 8
    OBVIOUS
  <2> QED BY <2>1, <1>2
<1> QED BY <1>1, <1>2, <1>3 DEF OpsOf, Ops

\* The steps of one or two operations.
LEMMA SmallSteps ==
  ASSUME NEW k \in {1, 2, 3, 4, 6}, NEW i \in DOMAIN OpsOf(k)
  PROVE  \/ k = 1 /\ OpsOf(k)[i] = Put(File("osm_selection.json"))
         \/ k = 2 /\ OpsOf(k)[i] = PutAside(File("cadastre_boundaries.geojson"))
         \/ k = 3 /\ OpsOf(k)[i] = Put(File("relief.tif"))
         \/ k = 4 /\ OpsOf(k)[i] = Put(File("site.gpkg"))
         \/ k = 6 /\ OpsOf(k)[i] \in {Get(IfcFile("site", "IFC4X3")), Put(File("site.glb"))}
<1>1. \A g : \A j \in DOMAIN <<g>> : <<g>>[j] = g
  OBVIOUS
<1>2. \A g, h : \A j \in DOMAIN <<g, h>> : <<g, h>>[j] \in {g, h}
  OBVIOUS
<1>3. CASE k = 6
  <2>1. PICK g, h : g = Get(IfcFile("site", "IFC4X3")) /\ h = Put(File("site.glb"))
    OBVIOUS
  <2>2. OpsOf(k) = <<g, h>>
    BY <1>3, <2>1, StepsAre
  <2>3. OpsOf(k)[i] \in {g, h}
    BY <1>2, <2>2
  <2> QED BY <1>3, <2>1, <2>3
<1>4. CASE k = 1
  BY <1>1, <1>4, StepsAre
<1>5. CASE k = 2
  BY <1>1, <1>5, StepsAre
<1>6. CASE k = 3
  BY <1>1, <1>6, StepsAre
<1>7. CASE k = 4
  BY <1>1, <1>7, StepsAre
<1> QED BY <1>3, <1>4, <1>5, <1>6, <1>7

\* assemble_ifc.
LEMMA StepFive ==
  /\ Len(OpsOf(5)) = 4 * NamespaceCount + 4
  /\ OpsOf(5) \in Seq(Operations)
  /\ OpsOf(5)[1] = Get(File("relief.tif"))
  /\ \A i \in 1..(4 * NamespaceCount) : OpsOf(5)[1 + i] = AssembleModels[i]
  /\ OpsOf(5)[4 * NamespaceCount + 2] = Put(File("site.landxml"))
  /\ OpsOf(5)[4 * NamespaceCount + 3] = Put(File("site.cityjson"))
  /\ OpsOf(5)[4 * NamespaceCount + 4] = Put(File("site.dxf"))
<1>1. PICK a \in Seq(Operations) : a = <<Get(File("relief.tif"))>> /\ Len(a) = 1
  <2>1. Get(File("relief.tif")) \in Operations
    BY FilesKnown
  <2>2. <<Get(File("relief.tif"))>> \in Seq(Operations) /\ Len(<<Get(File("relief.tif"))>>) = 1
    BY <2>1
  <2> QED BY <2>2, Zenon
<1>2. PICK z \in Seq(Operations) :
        /\ z = <<Put(File("site.landxml")), Put(File("site.cityjson")), Put(File("site.dxf"))>>
        /\ Len(z) = 3
  <2>1. /\ Put(File("site.landxml")) \in Operations /\ Put(File("site.cityjson")) \in Operations
        /\ Put(File("site.dxf")) \in Operations
    BY FilesKnown
  <2>2. \A f, g, h \in Operations : <<f, g, h>> \in Seq(Operations) /\ Len(<<f, g, h>>) = 3
    OBVIOUS
  <2> QED BY <2>1, <2>2, Zenon
<1>3. PICK m \in Seq(Operations), n \in Nat :
        m = AssembleModels /\ n = 4 * NamespaceCount /\ Len(m) = n
  BY Assembling, Counts
<1>4. PICK am : am = a \o m
  OBVIOUS
<1>5. /\ am \in Seq(Operations) /\ Len(am) = 1 + n
      /\ \A i \in 1..1 : am[i] = a[i]
      /\ \A i \in 1..n : am[1 + i] = m[i]
  BY <1>3, <1>1, <1>4, Joined
<1>6. PICK amz : amz = am \o z
  OBVIOUS
<1>7. /\ amz \in Seq(Operations) /\ Len(amz) = (1 + n) + 3
      /\ \A i \in 1..(1 + n) : amz[i] = am[i]
      /\ \A i \in 1..3 : amz[(1 + n) + i] = z[i]
  <2>1. 1 + n \in Nat /\ 3 \in Nat
    BY <1>3
  <2> QED BY <1>2, <1>5, <1>6, <2>1, Joined
<1>8. OpsOf(5) = amz
  BY <1>1, <1>2, <1>3, <1>4, <1>6, StepsAre
<1>9. amz[1] = a[1] /\ \A i \in 1..n : amz[1 + i] = m[i]
  <2>1. 1 \in 1..(1 + n) /\ 1 \in 1..1 /\ \A i \in 1..n : 1 + i \in 1..(1 + n)
    BY <1>3
  <2> QED BY <1>5, <1>7, <2>1
<1>10. amz[n + 2] = z[1] /\ amz[n + 3] = z[2] /\ amz[n + 4] = z[3]
  <2>1. (1 + n) + 1 = n + 2 /\ (1 + n) + 2 = n + 3 /\ (1 + n) + 3 = n + 4
    BY <1>3
  <2> QED BY <1>7, <2>1
<1>11. Len(amz) = n + 4
  BY <1>3, <1>7
<1>12. z[1] = Put(File("site.landxml")) /\ z[2] = Put(File("site.cityjson")) /\ z[3] = Put(File("site.dxf"))
       /\ a[1] = Get(File("relief.tif"))
  BY <1>1, <1>2
<1> QED BY <1>3, <1>7, <1>8, <1>9, <1>10, <1>11, <1>12

\* generate_tileset.
LEMMA StepSeven ==
  /\ Len(OpsOf(7)) = TileCount + 2
  /\ OpsOf(7) \in Seq(Operations)
  /\ OpsOf(7)[1] = Get(File("relief.tif"))
  /\ \A k \in 1..TileCount : OpsOf(7)[1 + k] = PutAside(TileFile(Tiles[k]))
  /\ OpsOf(7)[TileCount + 2] = Put(File("tileset.json"))
<1>1. PICK a \in Seq(Operations) : a = <<Get(File("relief.tif"))>> /\ Len(a) = 1
  <2>1. Get(File("relief.tif")) \in Operations
    BY FilesKnown
  <2>2. <<Get(File("relief.tif"))>> \in Seq(Operations) /\ Len(<<Get(File("relief.tif"))>>) = 1
    BY <2>1
  <2> QED BY <2>2, Zenon
<1>2. PICK z \in Seq(Operations) : z = <<Put(File("tileset.json"))>> /\ Len(z) = 1
  <2>1. Put(File("tileset.json")) \in Operations
    BY FilesKnown
  <2>2. <<Put(File("tileset.json"))>> \in Seq(Operations) /\ Len(<<Put(File("tileset.json"))>>) = 1
    BY <2>1
  <2> QED BY <2>2, Zenon
<1>3. PICK m \in Seq(Operations), n \in Nat :
        /\ m = [k \in DOMAIN Tiles |-> PutAside(TileFile(Tiles[k]))] /\ n = TileCount /\ Len(m) = n
        /\ \A k \in 1..n : m[k] = PutAside(TileFile(Tiles[k]))
  <2> DEFINE s == [k \in 1..TileCount |-> PutAside(TileFile(Tiles[k]))]
  <2>1. \A k \in 1..TileCount : PutAside(TileFile(Tiles[k])) \in Operations
    BY FilesKnown, Counts
  <2>2. TileCount \in Nat /\ DOMAIN Tiles = 1..TileCount
    BY Counts
  <2>3. s \in Seq(Operations) /\ Len(s) = TileCount
    BY <2>1, <2>2, IsASeq
  <2>4. \A k \in 1..TileCount : s[k] = PutAside(TileFile(Tiles[k]))
    OBVIOUS
  <2>5. s = [k \in DOMAIN Tiles |-> PutAside(TileFile(Tiles[k]))]
    BY <2>2
  <2> HIDE DEF s
  <2> QED BY <2>2, <2>3, <2>4, <2>5
<1>4. PICK mz : mz = m \o z
  OBVIOUS
<1>5. /\ mz \in Seq(Operations) /\ Len(mz) = n + 1
      /\ \A i \in 1..n : mz[i] = m[i]
      /\ \A i \in 1..1 : mz[n + i] = z[i]
  BY <1>2, <1>3, <1>4, Joined
<1>6. PICK amz : amz = a \o mz
  OBVIOUS
<1>7. /\ amz \in Seq(Operations) /\ Len(amz) = 1 + (n + 1)
      /\ \A i \in 1..1 : amz[i] = a[i]
      /\ \A i \in 1..(n + 1) : amz[1 + i] = mz[i]
  <2>1. n + 1 \in Nat
    BY <1>3
  <2> QED BY <1>1, <1>5, <1>6, <2>1, Joined
<1>8. OpsOf(7) = amz
  BY <1>1, <1>2, <1>3, <1>4, <1>6, StepsAre DEF TilesetUploads
<1>9. amz[1] = a[1] /\ \A i \in 1..n : amz[1 + i] = m[i]
  BY <1>3, <1>5, <1>7
<1>10. amz[n + 2] = z[1]
  <2>1. 1 + (n + 1) = n + 2
    BY <1>3
  <2> QED BY <1>5, <1>7, <2>1
<1>11. Len(amz) = n + 2
  BY <1>3, <1>7
<1>12. z[1] = Put(File("tileset.json")) /\ a[1] = Get(File("relief.tif"))
  BY <1>1, <1>2
<1> QED BY <1>3, <1>7, <1>8, <1>9, <1>10, <1>11, <1>12

\* The model file that assemble_ifc uploads as the i-th.
Model(i) == IfcFile(Namespaces[((i - 1) % NamespaceCount) + 1],
                    Schemas[((i - 1) \div NamespaceCount) + 1])

LEMMA ModelType ==
  ASSUME NEW i \in 1..(2 * NamespaceCount)
  PROVE  /\ ((i - 1) % NamespaceCount) + 1 \in DOMAIN Namespaces
         /\ ((i - 1) \div NamespaceCount) + 1 \in DOMAIN Schemas
         /\ Model(i) \in Files
<1>1. /\ (i - 1) \div NamespaceCount \in {0, 1}
      /\ (i - 1) % NamespaceCount \in 0..(NamespaceCount - 1)
  BY Counts, Quotients
<1>2. /\ ((i - 1) % NamespaceCount) + 1 \in DOMAIN Namespaces
      /\ ((i - 1) \div NamespaceCount) + 1 \in DOMAIN Schemas
  BY <1>1, Counts
<1> QED BY <1>2, FilesKnown DEF Model

\* What package_outputs downloads.
LEMMA Packing ==
  /\ Packed \in Seq(Files)
  /\ \A k \in DOMAIN Packed :
       \/ Packed[k] \in {File("site.gpkg"), File("site.landxml"), File("site.cityjson"),
                         File("site.dxf"), File("site.glb")}
       \/ \E i \in 1..(2 * NamespaceCount) : Packed[k] = Model(i)
<1>1. PICK a \in Seq(Files) : a = <<File("site.gpkg")>> /\ \A j \in DOMAIN a : a[j] = File("site.gpkg")
  <2>1. File("site.gpkg") \in Files
    BY FilesKnown
  <2>2. \A f \in Files : <<f>> \in Seq(Files) /\ \A j \in DOMAIN <<f>> : <<f>>[j] = f
    OBVIOUS
  <2> QED BY <2>1, <2>2, Zenon
<1>2. PICK z \in Seq(Files) :
        /\ z = <<File("site.landxml"), File("site.cityjson"), File("site.dxf"), File("site.glb")>>
        /\ \A j \in DOMAIN z : z[j] \in {File("site.landxml"), File("site.cityjson"),
                                         File("site.dxf"), File("site.glb")}
  <2>1. /\ File("site.landxml") \in Files /\ File("site.cityjson") \in Files
        /\ File("site.dxf") \in Files /\ File("site.glb") \in Files
    BY FilesKnown
  <2>2. \A e, f, g, h \in Files : /\ <<e, f, g, h>> \in Seq(Files)
                                  /\ \A j \in DOMAIN <<e, f, g, h>> : <<e, f, g, h>>[j] \in {e, f, g, h}
    OBVIOUS
  <2> QED BY <2>1, <2>2, Zenon
<1>3. PICK m \in Seq(Files) :
        /\ m = [i \in 1..(NamespaceCount * Len(Schemas)) |->
                  IfcFile(Namespaces[((i - 1) % NamespaceCount) + 1],
                          Schemas[((i - 1) \div NamespaceCount) + 1])]
        /\ \A j \in DOMAIN m : j \in 1..(2 * NamespaceCount) /\ m[j] = Model(j)
  <2>1. NamespaceCount * Len(Schemas) = 2 * NamespaceCount /\ 2 * NamespaceCount \in Nat
    BY Counts
  <2>2. \A i \in 1..(2 * NamespaceCount) : Model(i) \in Files
    BY ModelType
  <2> DEFINE s == [i \in 1..(2 * NamespaceCount) |-> Model(i)]
  <2>3. s \in Seq(Files)
    BY <2>1, <2>2, IsASeq
  <2>4. \A j \in DOMAIN s : j \in 1..(2 * NamespaceCount) /\ s[j] = Model(j)
    OBVIOUS
  <2>5. s = [i \in 1..(NamespaceCount * Len(Schemas)) |->
                  IfcFile(Namespaces[((i - 1) % NamespaceCount) + 1],
                          Schemas[((i - 1) \div NamespaceCount) + 1])]
    BY <2>1 DEF Model
  <2> HIDE DEF s
  <2> QED BY <2>3, <2>4, <2>5
<1>4. PICK am : am = a \o m
  OBVIOUS
<1>5. /\ am \in Seq(Files)
      /\ MadeOf(am, a, m)
  BY <1>4, JoinedElements
<1>6. PICK amz : amz = am \o z
  OBVIOUS
<1>7. /\ amz \in Seq(Files)
      /\ MadeOf(amz, am, z)
  BY <1>5, <1>6, JoinedElements
<1>8. Packed = amz
  BY <1>1, <1>2, <1>3, <1>4, <1>6 DEF Packed, NamespaceCount
<1>9. ASSUME NEW k \in DOMAIN amz
      PROVE  \/ amz[k] \in {File("site.gpkg"), File("site.landxml"), File("site.cityjson"),
                            File("site.dxf"), File("site.glb")}
             \/ \E i \in 1..(2 * NamespaceCount) : amz[k] = Model(i)
  <2>1. \/ \E j \in DOMAIN a : amz[k] = a[j]
        \/ \E j \in DOMAIN m : amz[k] = m[j]
        \/ \E j \in DOMAIN z : amz[k] = z[j]
    BY <1>5, <1>7, ZenonT(30) DEF MadeOf
  <2>2. CASE \E j \in DOMAIN a : amz[k] = a[j]
    BY <1>1, <2>2
  <2>3. CASE \E j \in DOMAIN m : amz[k] = m[j]
    BY <1>3, <2>3
  <2>4. CASE \E j \in DOMAIN z : amz[k] = z[j]
    BY <1>2, <2>4
  <2> QED BY <2>1, <2>2, <2>3, <2>4
<1> QED BY <1>7, <1>8, <1>9

PackedCount == Len(Packed)

\* package_outputs.
LEMMA StepEight ==
  /\ OpsOf(8) \in Seq(Operations)
  /\ PackedCount \in Nat /\ DOMAIN Packed = 1..PackedCount
  /\ Len(OpsOf(8)) = PackedCount + 2
  /\ \A i \in 1..PackedCount : OpsOf(8)[i] = Get(Packed[i])
  /\ OpsOf(8)[PackedCount + 1] = Put(File("meta.json"))
  /\ OpsOf(8)[PackedCount + 2] = Put(File("package.zip"))
<1>1. PICK n \in Nat : n = PackedCount /\ DOMAIN Packed = 1..n /\ \A k \in 1..n : Packed[k] \in Files
  BY Packing, LenProperties, ElementOfSeq DEF PackedCount
<1>2. PICK m \in Seq(Operations) :
        /\ m = [k \in DOMAIN Packed |-> Get(Packed[k])] /\ Len(m) = n
        /\ \A j \in 1..n : m[j] = Get(Packed[j])
  <2> DEFINE s == [k \in 1..n |-> Get(Packed[k])]
  <2>1. \A k \in 1..n : Get(Packed[k]) \in Operations
    BY <1>1 DEF Operations
  <2>2. s \in Seq(Operations) /\ Len(s) = n
    BY <2>1, IsASeq
  <2>3. \A j \in 1..n : s[j] = Get(Packed[j])
    OBVIOUS
  <2>4. s = [k \in DOMAIN Packed |-> Get(Packed[k])]
    BY <1>1
  <2> HIDE DEF s
  <2> QED BY <2>2, <2>3, <2>4
<1>3. PICK z \in Seq(Operations) :
        /\ z = <<Put(File("meta.json")), Put(File("package.zip"))>> /\ Len(z) = 2
        /\ z[1] = Put(File("meta.json")) /\ z[2] = Put(File("package.zip"))
  <2>1. Put(File("meta.json")) \in Operations /\ Put(File("package.zip")) \in Operations
    BY FilesKnown
  <2>2. \A g, h \in Operations : /\ <<g, h>> \in Seq(Operations) /\ Len(<<g, h>>) = 2
                                 /\ <<g, h>>[1] = g /\ <<g, h>>[2] = h
    OBVIOUS
  <2> QED BY <2>1, <2>2, ZenonT(30)
<1>4. PICK mz : mz = m \o z
  OBVIOUS
<1>5. /\ mz \in Seq(Operations) /\ Len(mz) = n + 2
      /\ \A i \in 1..n : mz[i] = m[i]
      /\ \A i \in 1..2 : mz[n + i] = z[i]
  BY <1>2, <1>3, <1>4, Joined
<1>6. OpsOf(8) = mz
  BY <1>2, <1>3, <1>4, StepsAre
<1> QED BY <1>1, <1>2, <1>3, <1>5, <1>6

-----------------------------------------------------------------------------
(* What the order of Ops provides.                                          *)

\* Step k uploads f under a key of its result.
Puts(k, f) == \E i \in DOMAIN OpsOf(k) : OpsOf(k)[i] = Put(f)

LEMMA FivePutsModels ==
  ASSUME NEW i \in 1..(2 * NamespaceCount)
  PROVE  Puts(5, Model(i))
<1>1. PICK n \in Nat \ {0} : n = NamespaceCount
  BY Counts
<1>2. 2 * i \in 1..(4 * n) /\ 1 + 2 * i \in 1..(4 * n + 4)
  BY <1>1
<1>3. DOMAIN OpsOf(5) = 1..(4 * n + 4)
  BY <1>1, StepFive, LenProperties
<1>4. OpsOf(5)[1 + 2 * i] = Put(Model(i))
  BY <1>1, <1>2, StepFive, Assembling DEF Model
<1> QED BY <1>2, <1>3, <1>4 DEF Puts

LEMMA WhoPuts ==
  /\ Puts(3, File("relief.tif"))
  /\ Puts(4, File("site.gpkg"))
  /\ Puts(5, File("site.landxml")) /\ Puts(5, File("site.cityjson")) /\ Puts(5, File("site.dxf"))
  /\ Puts(5, IfcFile("site", "IFC4X3"))
  /\ Puts(6, File("site.glb"))
<1>1. Puts(3, File("relief.tif")) /\ Puts(4, File("site.gpkg")) /\ Puts(6, File("site.glb"))
  <2>1. \A g : DOMAIN <<g>> = {1} /\ <<g>>[1] = g
    OBVIOUS
  <2>2. \A g, h : 2 \in DOMAIN <<g, h>> /\ <<g, h>>[2] = h
    OBVIOUS
  <2> QED BY <2>1, <2>2, StepsAre DEF Puts
<1>2. PICK n \in Nat \ {0} : n = NamespaceCount
  BY Counts
<1>3. DOMAIN OpsOf(5) = 1..(4 * n + 4)
  BY <1>2, StepFive, LenProperties
<1>4. 4 * n + 2 \in 1..(4 * n + 4) /\ 4 * n + 3 \in 1..(4 * n + 4) /\ 4 * n + 4 \in 1..(4 * n + 4)
  OBVIOUS
<1>5. Puts(5, File("site.landxml")) /\ Puts(5, File("site.cityjson")) /\ Puts(5, File("site.dxf"))
  BY <1>2, <1>3, <1>4, StepFive DEF Puts
<1>6. Puts(5, IfcFile("site", "IFC4X3"))
  <2>1. n + 1 \in 1..(2 * n) /\ ((n + 1) - 1) % n = 0 /\ ((n + 1) - 1) \div n = 1
    <3>1. n \div n = 1
      BY DivisionUnique
    <3>2. n % n = 0
      BY <3>1
    <3> QED BY <3>1, <3>2
  <2>2. Namespaces[1] = "site" /\ Schemas[2] = "IFC4X3"
    BY NamespacesAssumption, Counts DEF Schemas
  <2>3. Model(n + 1) = IfcFile("site", "IFC4X3")
    <3>1. ((n + 1) - 1) % NamespaceCount = 0 /\ ((n + 1) - 1) \div NamespaceCount = 1
      BY <1>2, <2>1
    <3>2. 0 + 1 = 1 /\ 1 + 1 = 2
      OBVIOUS
    <3> QED BY <2>2, <3>1, <3>2 DEF Model
  <2>4. Puts(5, Model(n + 1))
    BY <1>2, <2>1, FivePutsModels
  <2> QED BY <2>3, <2>4
<1> QED BY <1>1, <1>5, <1>6

\* No step downloads what no earlier step has uploaded.
LEMMA InputsComeBefore ==
  ASSUME NEW k \in Steps, NEW f, NEW i \in DOMAIN OpsOf(k), OpsOf(k)[i] = Get(f)
  PROVE  \E j \in 1..(k - 1) : Puts(j, f)
<1>1. k \in 1..8
  BY StepsAre
<1>2. CASE k \in {1, 2, 3, 4}
  BY <1>2, SmallSteps, Different
<1>3. CASE k = 5
  <2>1. PICK n \in Nat \ {0} : n = NamespaceCount
    BY Counts
  <2>2. i \in 1..(4 * n + 4)
    BY <1>3, <2>1, StepFive, LenProperties
  <2>3. CASE i = 1
    <3>1. f = File("relief.tif")
      BY <1>3, <2>3, StepFive, Different
    <3> QED BY <1>3, <3>1, WhoPuts
  <2>4. CASE i \in 2..(4 * n + 1)
    <3>1. i - 1 \in 1..(4 * n) /\ 1 + (i - 1) = i
      BY <2>4
    <3>2. OpsOf(5)[i] = AssembleModels[i - 1]
      BY <2>1, <3>1, StepFive
    <3>3. \A g : AssembleModels[i - 1] # Get(g)
      <4>1. \/ \E m \in DOMAIN Namespaces : AssembleModels[i - 1] = Register(Namespaces[m])
            \/ \E m \in DOMAIN Namespaces, s \in DOMAIN Schemas :
                 AssembleModels[i - 1] = Put(IfcFile(Namespaces[m], Schemas[s]))
        BY <2>1, <3>1, Assembling
      <4> QED BY <4>1, Different
    <3> QED BY <1>3, <3>2, <3>3
  <2>5. CASE i \in {4 * n + 2, 4 * n + 3, 4 * n + 4}
    BY <1>3, <2>1, <2>5, StepFive, Different
  <2>6. i = 1 \/ i \in 2..(4 * n + 1) \/ i \in {4 * n + 2, 4 * n + 3, 4 * n + 4}
    BY <2>2
  <2> QED BY <2>3, <2>4, <2>5, <2>6
<1>4. CASE k = 6
  <2>1. f = IfcFile("site", "IFC4X3")
    BY <1>4, SmallSteps, Different
  <2> QED BY <1>4, <2>1, WhoPuts
<1>5. CASE k = 7
  <2>1. PICK n \in Nat : n = TileCount
    BY Counts
  <2>2. i \in 1..(n + 2)
    BY <1>5, <2>1, StepSeven, LenProperties
  <2>3. CASE i = 1
    <3>1. f = File("relief.tif")
      BY <1>5, <2>3, StepSeven, Different
    <3> QED BY <1>5, <3>1, WhoPuts
  <2>4. CASE i \in 2..(n + 1)
    <3>1. i - 1 \in 1..n /\ 1 + (i - 1) = i
      BY <2>4
    <3> QED BY <1>5, <2>1, <3>1, StepSeven, Different
  <2>5. CASE i = n + 2
    BY <1>5, <2>1, <2>5, StepSeven, Different
  <2> QED BY <2>2, <2>3, <2>4, <2>5
<1>6. CASE k = 8
  <2>1. PICK m \in DOMAIN Packed : f = Packed[m]
    <3>1. PICK n \in Nat : n = PackedCount /\ i \in 1..(n + 2)
      BY <1>6, StepEight, LenProperties
    <3>2. CASE i \in {n + 1, n + 2}
      BY <1>6, <3>1, <3>2, StepEight, Different
    <3>3. CASE i \in 1..n
      BY <1>6, <3>1, <3>3, StepEight, Different
    <3> QED BY <3>1, <3>2, <3>3
  <2>2. CASE \E e \in 1..(2 * NamespaceCount) : Packed[m] = Model(e)
    BY <1>6, <2>1, <2>2, FivePutsModels
  <2>3. CASE Packed[m] \in {File("site.gpkg"), File("site.landxml"), File("site.cityjson"),
                            File("site.dxf"), File("site.glb")}
    BY <1>6, <2>1, <2>3, WhoPuts
  <2> QED BY <2>2, <2>3, Packing
<1> QED BY <1>1, <1>2, <1>3, <1>4, <1>5, <1>6

\* Only generate_tileset uploads tileset.json, after every tile.
LEMMA TilesComeBefore ==
  ASSUME NEW k \in Steps, NEW i \in DOMAIN OpsOf(k),
         OpsOf(k)[i] \in {Put(File("tileset.json")), PutAside(File("tileset.json"))}
  PROVE  \A f \in TileFiles : \E j \in DOMAIN OpsOf(k) : j < i /\ OpsOf(k)[j] = PutAside(f)
<1>1. k \in 1..8
  BY StepsAre
<1>2. \A n \in {"osm_selection.json", "cadastre_boundaries.geojson", "relief.tif", "site.gpkg",
               "site.landxml", "site.cityjson", "site.dxf", "site.glb", "meta.json", "package.zip"} :
        Put(File(n)) # OpsOf(k)[i] /\ PutAside(File(n)) # OpsOf(k)[i]
  <2>1. "tileset.json" \notin {"osm_selection.json", "cadastre_boundaries.geojson", "relief.tif", "site.gpkg",
               "site.landxml", "site.cityjson", "site.dxf", "site.glb", "meta.json", "package.zip"}
    OBVIOUS
  <2>2. \A n : n # "tileset.json" =>
          /\ Put(File(n)) # Put(File("tileset.json"))
          /\ PutAside(File(n)) # PutAside(File("tileset.json"))
    <3>1. \A n : n # "tileset.json" => File(n) # File("tileset.json")
      BY Different
    <3> QED BY <3>1, Different
  <2>3. \A f, g : Put(f) # PutAside(g)
    BY Different
  <2> QED BY <2>1, <2>2, <2>3
<1>3. CASE k \in {1, 2, 3, 4, 6}
  BY <1>2, <1>3, SmallSteps, Different
<1>4. CASE k = 5
  <2>1. PICK n \in Nat \ {0} : n = NamespaceCount
    BY Counts
  <2>2. i \in 1..(4 * n + 4)
    BY <1>4, <2>1, StepFive, LenProperties
  <2>3. CASE i = 1
    BY <1>4, <2>3, StepFive, Different
  <2>4. CASE i \in 2..(4 * n + 1)
    <3>1. i - 1 \in 1..(4 * n) /\ 1 + (i - 1) = i
      BY <2>4
    <3>2. OpsOf(5)[i] = AssembleModels[i - 1]
      BY <2>1, <3>1, StepFive
    <3>3. \A ns, schema : /\ Put(IfcFile(ns, schema)) # Put(File("tileset.json"))
                         /\ Put(IfcFile(ns, schema)) # PutAside(File("tileset.json"))
      <4>1. \A ns, schema : IfcFile(ns, schema) # File("tileset.json")
        BY Different
      <4> QED BY <4>1, Different
    <3>4. \A ns : Register(ns) # Put(File("tileset.json")) /\ Register(ns) # PutAside(File("tileset.json"))
      BY Different
    <3> QED BY <1>4, <2>1, <3>1, <3>2, <3>3, <3>4, Assembling
  <2>5. CASE i \in {4 * n + 2, 4 * n + 3, 4 * n + 4}
    BY <1>2, <1>4, <2>1, <2>5, StepFive
  <2>6. i = 1 \/ i \in 2..(4 * n + 1) \/ i \in {4 * n + 2, 4 * n + 3, 4 * n + 4}
    BY <2>2
  <2> QED BY <2>3, <2>4, <2>5, <2>6
<1>5. CASE k = 7
  <2>1. PICK n \in Nat : n = TileCount
    BY Counts
  <2>2. DOMAIN OpsOf(7) = 1..(n + 2)
    BY <2>1, StepSeven, LenProperties
  <2>3. i # 1
    BY <1>5, StepSeven, Different
  <2>4. ~ (i \in 2..(n + 1))
    <3> SUFFICES ASSUME i \in 2..(n + 1) PROVE FALSE
      OBVIOUS
    <3>1. i - 1 \in 1..n /\ 1 + (i - 1) = i
      OBVIOUS
    <3>2. OpsOf(7)[i] = PutAside(TileFile(Tiles[i - 1]))
      BY <2>1, <3>1, StepSeven
    <3> QED BY <1>5, <3>2, Different
  <2>5. i = n + 2
    BY <1>5, <2>2, <2>3, <2>4
  <2> SUFFICES ASSUME NEW t \in DOMAIN Tiles
               PROVE  \E j \in DOMAIN OpsOf(7) : j < i /\ OpsOf(7)[j] = PutAside(TileFile(Tiles[t]))
    BY <1>5 DEF TileFiles
  <2>6. t \in 1..n /\ 1 + t \in 1..(n + 2) /\ 1 + t < i
    BY <2>1, <2>5, Counts
  <2> QED BY <2>1, <2>2, <2>6, StepSeven
<1>6. CASE k = 8
  <2>1. PICK n \in Nat : n = PackedCount /\ i \in 1..(n + 2)
    BY <1>6, StepEight, LenProperties
  <2>2. CASE i \in {n + 1, n + 2}
    BY <1>2, <1>6, <2>1, <2>2, StepEight
  <2>3. CASE i \in 1..n
    BY <1>6, <2>1, <2>3, StepEight, Different
  <2> QED BY <2>1, <2>2, <2>3
<1> QED BY <1>1, <1>3, <1>4, <1>5, <1>6
-----------------------------------------------------------------------------
(* The chains.                                                              *)

FileColumns ==
  /\ status \in [Steps -> {"pending", "done", "failed"}]
  /\ DOMAIN store = Files
  /\ at \in [Runners -> Steps \cup {0}]
  /\ op \in [Runners -> Nat]
  /\ \A r \in Runners : at[r] # 0 => op[r] # 0

\* The files that a done step lists are there.
DoneIsStored == \A k \in Steps, f \in Files : status[k] = "done" /\ Puts(k, f) => Stored(f)

\* So are those of the steps before the one a chain is at, and what it uploaded itself.
Relies(r) ==
  at[r] # 0 =>
    /\ \A j \in 1..(at[r] - 1), f \in Files : Puts(j, f) => Stored(f)
    /\ \A i \in DOMAIN OpsOf(at[r]), f \in Files :
         i < op[r] /\ OpsOf(at[r])[i] \in {Put(f), PutAside(f)} => Stored(f)

\* The inductive invariant.
FilesInv == FileColumns /\ DoneIsStored /\ (\A r \in Runners : Relies(r)) /\ TilesetIsStored

LEMMA OpsType == \A k \in Steps : OpsOf(k) \in Seq(Operations) /\ DOMAIN OpsOf(k) = 1..Len(OpsOf(k))
<1> SUFFICES ASSUME NEW k \in Steps PROVE OpsOf(k) \in Seq(Operations)
  BY LenProperties
<1>1. k \in 1..8
  BY StepsAre
<1>2. \A g \in Operations : <<g>> \in Seq(Operations)
  OBVIOUS
<1>3. \A g, h \in Operations : <<g, h>> \in Seq(Operations)
  OBVIOUS
<1>4. CASE k \in {1, 2, 3, 4}
  BY <1>2, <1>4, StepsAre, FilesKnown
<1>5. CASE k = 6
  <2>1. Namespaces[1] = "site" /\ Schemas[2] = "IFC4X3" /\ 1 \in DOMAIN Namespaces /\ 2 \in DOMAIN Schemas
    BY NamespacesAssumption, Counts DEF Schemas
  <2>2. Get(IfcFile("site", "IFC4X3")) \in Operations
    BY <2>1, FilesKnown
  <2> QED BY <1>3, <1>5, <2>2, StepsAre, FilesKnown
<1> QED BY <1>1, <1>4, <1>5, StepFive, StepSeven, StepEight, SMTT(30)

LEMMA FilesInit == Init => FilesInv
<1> SUFFICES ASSUME Init PROVE FilesInv
  OBVIOUS
<1>1. FileColumns
  BY DEF Init, FileColumns
<1>2. DoneIsStored /\ \A r \in Runners : Relies(r)
  BY DEF Init, DoneIsStored, Relies
<1>3. File("tileset.json") \in Files /\ ~Stored(File("tileset.json"))
  BY FilesKnown DEF Init, NoFile, Stored
<1> QED BY <1>1, <1>2, <1>3 DEF FilesInv, TilesetIsStored

\* A step that keeps what is stored and moves no chain on.
LEMMA StandStill ==
  ASSUME FilesInv, FileColumns', UNCHANGED store,
         \A r \in Runners : at'[r] = 0 \/ (at'[r] = at[r] /\ op'[r] = op[r]),
         \A k \in Steps : status'[k] = "done" => status[k] = "done" \/ \A f \in Files : Puts(k, f) => Stored(f)
  PROVE  FilesInv'
<1>1. \A f : Stored(f)' <=> Stored(f)
  BY DEF Stored
<1>2. DoneIsStored'
  BY <1>1 DEF FilesInv, DoneIsStored
<1>3. ASSUME NEW r \in Runners PROVE Relies(r)'
  <2>1. CASE at'[r] = 0
    BY <2>1 DEF Relies
  <2>2. CASE at'[r] = at[r] /\ op'[r] = op[r]
    BY <1>1, <2>2 DEF FilesInv, Relies
  <2> QED BY <2>1, <2>2
<1>4. TilesetIsStored'
  BY <1>1 DEF FilesInv, TilesetIsStored
<1> QED BY <1>2, <1>3, <1>4 DEF FilesInv

\* A chain that did an operation that stores nothing.
LEMMA GoesOn ==
  ASSUME FilesInv, NEW r \in Runners, at[r] # 0, op[r] <= Len(StepOps(r)),
         \A f \in Files : StepOps(r)[op[r]] \notin {Put(f), PutAside(f)},
         UNCHANGED <<status, store, at>>, Advance(r)
  PROVE  FilesInv'
<1>1. \A f : Stored(f)' <=> Stored(f)
  BY DEF Stored
<1>2. FileColumns'
  BY DEF FilesInv, FileColumns, Advance
<1>3. ASSUME NEW q \in Runners PROVE Relies(q)'
  <2>1. CASE q # r
    <3>1. op'[q] = op[q] /\ at'[q] = at[q]
      BY <2>1 DEF FilesInv, FileColumns, Advance
    <3> QED BY <1>1, <3>1 DEF FilesInv, Relies
  <2>2. CASE q = r
    <3>1. op'[q] = op[q] + 1 /\ at'[q] = at[q] /\ op[q] \in Nat /\ at[q] \in Steps
      BY <2>2 DEF FilesInv, FileColumns, Advance
    <3>2. ASSUME NEW i \in DOMAIN OpsOf(at[q]), NEW f \in Files, i < op[q] + 1,
                 OpsOf(at[q])[i] \in {Put(f), PutAside(f)}
          PROVE  Stored(f)
      <4>1. i \in Nat
        BY <3>1, <3>2, OpsType
      <4>2. i # op[q]
        BY <2>2, <3>2 DEF StepOps, OpsOf
      <4>3. i < op[q]
        BY <3>1, <3>2, <4>1, <4>2
      <4> QED BY <2>2, <3>2, <4>3 DEF FilesInv, Relies
    <3> QED BY <1>1, <2>2, <3>1, <3>2 DEF FilesInv, Relies
  <2> QED BY <2>1, <2>2
<1> QED BY <1>1, <1>2, <1>3 DEF FilesInv, DoneIsStored, TilesetIsStored

LEMMA UploadKeeps ==
  ASSUME FilesInv, NEW r \in Runners, Upload(r)
  PROVE  FilesInv'
<1>1. PICK f \in Files :
        /\ at[r] # 0 /\ op[r] <= Len(OpsOf(at[r]))
        /\ OpsOf(at[r])[op[r]] \in {Put(f), PutAside(f)}
        /\ \E c : c.here = TRUE /\ store' = [store EXCEPT ![f] = c]
  <2>1. PICK f \in Files :
        /\ About(r, Put(f)) \/ About(r, PutAside(f))
        /\ store' = [store EXCEPT ![f] = Content(IF f \in IfcFiles THEN built[r] ELSE 0, got[r])]
    BY DEF Upload
  <2>2. \A m, from : Content(m, from).here = TRUE
    BY DEF Content
  <2> QED BY <2>1, <2>2 DEF About, StepOps, OpsOf
<1>2. UNCHANGED <<status, at>> /\ Advance(r)
  BY DEF Upload
<1>3. FileColumns'
  BY <1>1, <1>2 DEF FilesInv, FileColumns, Advance
<1>4. Stored(f)' /\ \A g \in Files : Stored(g) => Stored(g)'
  BY <1>1 DEF FilesInv, FileColumns, Stored
<1>5. \A g \in Files : Stored(g)' => Stored(g) \/ g = f
  BY <1>1 DEF FilesInv, FileColumns, Stored
<1>6. op[r] \in Nat /\ at[r] \in Steps
  BY <1>1 DEF FilesInv, FileColumns
<1>7. ASSUME NEW q \in Runners PROVE Relies(q)'
  <2>1. CASE q # r
    <3>1. op'[q] = op[q] /\ at'[q] = at[q]
      BY <1>2, <2>1 DEF FilesInv, FileColumns, Advance
    <3> QED BY <1>4, <3>1 DEF FilesInv, Relies
  <2>2. CASE q = r
    <3>1. op'[q] = op[q] + 1 /\ at'[q] = at[q]
      BY <1>2, <2>2 DEF FilesInv, FileColumns, Advance
    <3>2. ASSUME NEW i \in DOMAIN OpsOf(at[q]), NEW g \in Files, i < op[q] + 1,
                 OpsOf(at[q])[i] \in {Put(g), PutAside(g)}
          PROVE  Stored(g)'
      <4>1. i \in Nat
        BY <1>6, <2>2, <3>2, OpsType
      <4>2. CASE i = op[q]
        <5>1. g = f
          BY <1>1, <2>2, <3>2, <4>2, Different
        <5> QED BY <1>4, <5>1
      <4>3. CASE i < op[q]
        <5>1. Stored(g)
          BY <1>1, <2>2, <3>2, <4>3 DEF FilesInv, Relies
        <5> QED BY <1>4, <5>1
      <4> QED BY <1>6, <2>2, <3>2, <4>1, <4>2, <4>3
    <3>3. \A j \in 1..(at[q] - 1), g \in Files : Puts(j, g) => Stored(g)'
      BY <1>1, <1>4, <2>2 DEF FilesInv, Relies
    <3> QED BY <3>1, <3>2, <3>3 DEF Relies
  <2> QED BY <2>1, <2>2
<1>8. TilesetIsStored'
  <2>1. \A g \in TileFiles : g \in Files
    BY DEF Files
  <2>2. File("tileset.json") \in Files
    BY FilesKnown
  <2>3. CASE Stored(File("tileset.json"))
    BY <1>4, <2>1, <2>3 DEF FilesInv, TilesetIsStored
  <2>4. CASE f = File("tileset.json")
    <3>1. op[r] \in DOMAIN OpsOf(at[r])
      <4>1. op[r] # 0
        BY <1>1 DEF FilesInv, FileColumns
      <4> QED BY <1>1, <1>6, <4>1, OpsType
    <3>2. \A g \in TileFiles : \E j \in DOMAIN OpsOf(at[r]) : j < op[r] /\ OpsOf(at[r])[j] = PutAside(g)
      BY <1>1, <1>6, <2>4, <3>1, TilesComeBefore
    <3>3. \A g \in TileFiles : Stored(g)
      BY <1>1, <2>1, <3>2 DEF FilesInv, Relies
    <3> QED BY <1>4, <2>1, <3>3 DEF TilesetIsStored
  <2> QED BY <1>5, <2>2, <2>3, <2>4 DEF TilesetIsStored
<1>9. DoneIsStored'
  BY <1>2, <1>4 DEF FilesInv, DoneIsStored
<1> QED BY <1>3, <1>7, <1>8, <1>9 DEF FilesInv

LEMMA FilesStep == FilesInv /\ [Next]_vars => FilesInv'
<1> SUFFICES ASSUME FilesInv, [Next]_vars PROVE FilesInv'
  OBVIOUS
<1>1. CASE UNCHANGED vars
  BY <1>1, StandStill DEF vars, FilesInv, FileColumns
<1>2. ASSUME NEW r \in Runners, NEW k \in Steps, Begin(r, k) PROVE FilesInv'
  <2>1. /\ UNCHANGED <<status, store>>
        /\ \A i \in 1..(k - 1) : status[i] = "done"
        /\ at' = [at EXCEPT ![r] = k] /\ op' = [op EXCEPT ![r] = 1]
    BY <1>2 DEF Begin
  <2>2. FileColumns'
    BY <2>1 DEF FilesInv, FileColumns
  <2>3. \A f : Stored(f)' <=> Stored(f)
    BY <2>1 DEF Stored
  <2>4. ASSUME NEW q \in Runners PROVE Relies(q)'
    <3>1. CASE q # r
      <4>1. op'[q] = op[q] /\ at'[q] = at[q]
        BY <2>1, <3>1 DEF FilesInv, FileColumns
      <4> QED BY <2>3, <4>1 DEF FilesInv, Relies
    <3>2. CASE q = r
      <4>1. op'[q] = 1 /\ at'[q] = k
        BY <2>1, <3>2 DEF FilesInv, FileColumns
      <4>2. \A i \in DOMAIN OpsOf(k) : ~ (i < 1)
        BY OpsType
      <4>3. \A j \in 1..(k - 1) : j \in Steps
        BY StepsAre
      <4>4. \A j \in 1..(k - 1), f \in Files : Puts(j, f) => Stored(f)
        BY <2>1, <4>3 DEF FilesInv, DoneIsStored
      <4> QED BY <2>3, <4>1, <4>2, <4>4 DEF Relies
    <3> QED BY <3>1, <3>2
  <2> QED BY <2>1, <2>2, <2>3, <2>4 DEF FilesInv, DoneIsStored, TilesetIsStored
<1>3. ASSUME NEW r \in Runners, Download(r) PROVE FilesInv'
  <2>1. PICK f \in Files : About(r, Get(f))
    BY <1>3 DEF Download
  <2>2. at[r] # 0 /\ op[r] <= Len(StepOps(r)) /\ StepOps(r)[op[r]] = Get(f)
    BY <2>1 DEF About
  <2>3. \A g : StepOps(r)[op[r]] \notin {Put(g), PutAside(g)}
    BY <2>2, Different
  <2> QED BY <1>3, <2>2, <2>3, GoesOn DEF Download
<1>4. ASSUME NEW r \in Runners, RegisterModel(r) PROVE FilesInv'
  <2>1. PICK n : About(r, Register(n))
    BY <1>4 DEF RegisterModel
  <2>2. at[r] # 0 /\ op[r] <= Len(StepOps(r)) /\ StepOps(r)[op[r]] = Register(n)
    BY <2>1 DEF About
  <2>3. \A g : StepOps(r)[op[r]] \notin {Put(g), PutAside(g)}
    BY <2>2, Different
  <2> QED BY <1>4, <2>2, <2>3, GoesOn DEF RegisterModel
<1>5. ASSUME NEW r \in Runners, Leave(r), UNCHANGED store, at[r] # 0,
             \/ UNCHANGED status
             \/ \E s \in {"done", "failed"} :
                  /\ status' = [status EXCEPT ![at[r]] = s]
                  /\ s = "done" => \A f \in Files : Puts(at[r], f) => Stored(f)
      PROVE  FilesInv'
  <2>1. FileColumns'
    BY <1>5 DEF FilesInv, FileColumns, Leave
  <2>2. \A q \in Runners : at'[q] = 0 \/ (at'[q] = at[q] /\ op'[q] = op[q])
    BY <1>5 DEF FilesInv, FileColumns, Leave
  <2>3. \A k \in Steps : status'[k] = "done" => status[k] = "done" \/ \A f \in Files : Puts(k, f) => Stored(f)
    BY <1>5 DEF FilesInv, FileColumns
  <2> QED BY <1>5, <2>1, <2>2, <2>3, StandStill
<1>6. ASSUME NEW r \in Runners, Finish(r) PROVE FilesInv'
  <2>1. /\ at[r] \in Steps /\ at[r] # 0 /\ op[r] \in Nat /\ op[r] > Len(OpsOf(at[r]))
    BY <1>6 DEF Finish, StepOps, OpsOf, FilesInv, FileColumns
  <2>2. DOMAIN OpsOf(at[r]) = 1..Len(OpsOf(at[r])) /\ Len(OpsOf(at[r])) \in Nat
    BY <2>1, OpsType, LenProperties
  <2>3. \A i \in DOMAIN OpsOf(at[r]) : i < op[r]
    BY <2>1, <2>2
  <2>4. \A f \in Files : Puts(at[r], f) => Stored(f)
    BY <2>1, <2>3 DEF FilesInv, Relies, Puts
  <2> QED BY <1>5, <1>6, <2>1, <2>4 DEF Finish
<1>7. ASSUME NEW r \in Runners, Raise(r) PROVE FilesInv'
  <2>1. at[r] \in Steps /\ at[r] # 0
    BY <1>7 DEF Raise, FilesInv, FileColumns
  <2>2. Swallows(Pipeline[at[r]]) => \A f \in Files : ~ Puts(at[r], f)
    <3>1. \A f : ~ Puts(2, f)
      BY SmallSteps, Different DEF Puts
    <3> QED BY <2>1, <3>1, StepsAre
  <2> QED BY <1>5, <1>7, <2>1, <2>2 DEF Raise
<1>8. ASSUME NEW r \in Runners, Kill(r) PROVE FilesInv'
  BY <1>5, <1>8 DEF Kill
<1>9. ASSUME NEW k \in Steps, Retry(k) PROVE FilesInv'
  <2>1. FileColumns'
    BY <1>9 DEF Retry, FilesInv, FileColumns
  <2>2. \A j \in Steps : status'[j] = "done" => status[j] = "done"
    BY <1>9 DEF Retry, FilesInv, FileColumns
  <2> QED BY <1>9, <2>1, <2>2, StandStill DEF Retry
<1> QED BY <1>1, <1>2, <1>3, <1>4, <1>6, <1>7, <1>8, <1>9, UploadKeeps DEF Next

\* Whoever asks for a file of a job finds it (jobs/steps.py, GET /models/{id}/files): what a
\* done step lists, the tiles that a stored tileset names and what the next step reads are
\* stored, for any number of networks, tiles, chains and stops.
THEOREM FilesAreThere == Spec => []NothingIsMissing
<1>1. FilesInv => ListedIsStored
  BY DEF FilesInv, DoneIsStored, ListedIsStored, Listed, Puts, OpsOf
<1>2. FilesInv => InputIsStored
  <2> SUFFICES ASSUME FilesInv, NEW r \in Runners, NEW f \in Files, About(r, Get(f))
               PROVE  Stored(f)
    BY DEF InputIsStored
  <2>1. /\ at[r] \in Steps /\ at[r] # 0 /\ op[r] \in Nat /\ op[r] <= Len(OpsOf(at[r]))
        /\ OpsOf(at[r])[op[r]] = Get(f)
    BY DEF About, StepOps, OpsOf, FilesInv, FileColumns
  <2>2. op[r] \in DOMAIN OpsOf(at[r])
    <3>1. op[r] # 0
      BY <2>1 DEF FilesInv, FileColumns
    <3> QED BY <2>1, <3>1, OpsType
  <2>3. PICK j \in 1..(at[r] - 1) : Puts(j, f)
    BY <2>1, <2>2, InputsComeBefore
  <2> QED BY <2>1, <2>3 DEF FilesInv, Relies
<1>3. FilesInv => NothingIsMissing
  BY <1>1, <1>2 DEF FilesInv, NothingIsMissing
<1> QED BY FilesInit, FilesStep, <1>3, PTL DEF Spec
-----------------------------------------------------------------------------
(* As long as one chain runs at a time: what was made from what.            *)

Ifc == IfcFile("site", "IFC4X3")
Glb == File("site.glb")
Zip == File("package.zip")

\* Where assemble_ifc uploads Ifc, having registered its model just before.
IfcAt == 2 * NamespaceCount + 3

LEMMA WhereIfcIs ==
  /\ IfcAt \in Nat /\ IfcAt > 2 /\ IfcAt <= Len(OpsOf(5)) /\ Len(OpsOf(5)) \in Nat
  /\ OpsOf(5)[IfcAt - 1] = Register("site")
  /\ OpsOf(5)[IfcAt] = Put(Ifc)
  /\ \A i \in DOMAIN OpsOf(5) : i > IfcAt =>
       OpsOf(5)[i] # Register("site") /\ OpsOf(5)[i] \notin {Put(Ifc), PutAside(Ifc)}
<1>1. PICK n \in Nat \ {0} : n = NamespaceCount
  BY Counts
<1>2. IfcAt = 2 * n + 3 /\ Len(OpsOf(5)) = 4 * n + 4 /\ DOMAIN OpsOf(5) = 1..(4 * n + 4)
  BY <1>1, StepFive, LenProperties DEF IfcAt
<1>3. OpsOf(5)[2 * n + 2] = Register("site")
  <2>1. 2 * n + 1 \in 1..(4 * n) /\ 1 + (2 * n + 1) = 2 * n + 2
    OBVIOUS
  <2> QED BY <1>1, <2>1, StepFive, Assembling
<1>4. OpsOf(5)[2 * n + 3] = Put(Ifc)
  <2>1. n + 1 \in 1..(2 * n) /\ ((n + 1) - 1) % n = 0 /\ ((n + 1) - 1) \div n = 1
    <3>1. n \div n = 1
      BY DivisionUnique
    <3> QED BY <3>1, Remainder
  <2>2. Namespaces[0 + 1] = "site" /\ Schemas[1 + 1] = "IFC4X3"
    BY NamespacesAssumption, Counts DEF Schemas
  <2>3. AssembleModels[2 * (n + 1)] = Put(IfcFile(Namespaces[0 + 1], Schemas[1 + 1]))
    BY <1>1, <2>1, Assembling
  <2>4. 2 * (n + 1) \in 1..(4 * n) /\ 1 + 2 * (n + 1) = 2 * n + 3
    OBVIOUS
  <2> QED BY <1>1, <2>2, <2>3, <2>4, StepFive DEF Ifc
<1>5. ASSUME NEW i \in 1..(4 * n + 4), i > 2 * n + 3
      PROVE  OpsOf(5)[i] # Register("site") /\ OpsOf(5)[i] \notin {Put(Ifc), PutAside(Ifc)}
  <2>1. CASE i \in (2 * n + 4)..(4 * n + 1)
    <3>1. i - 1 \in (2 * n + 3)..(4 * n) /\ i - 1 \in 1..(4 * n) /\ 1 + (i - 1) = i
      BY <2>1
    <3>2. PICK name, schema : /\ name # "site"
                              /\ OpsOf(5)[i] \in {Register(name), Put(IfcFile(name, schema))}
      BY <1>1, <3>1, StepFive, Assembling
    <3>3. Register(name) # Register("site")
      <4>1. \A ns : Register(ns).on = ns
        BY DEF Register
      <4> QED BY <3>2, <4>1
    <3>4. IfcFile(name, schema) # Ifc
      <4>1. \A ns, sch : IfcFile(ns, sch)[1] = ns
        BY DEF IfcFile
      <4> QED BY <3>2, <4>1 DEF Ifc
    <3> QED BY <3>2, <3>3, <3>4, Different
  <2>2. CASE i \in {4 * n + 2, 4 * n + 3, 4 * n + 4}
    <3>1. \E name : OpsOf(5)[i] = Put(File(name))
      BY <1>1, <2>2, StepFive
    <3>2. \A name : File(name) # Ifc
      BY Different DEF Ifc
    <3> QED BY <3>1, <3>2, Different
  <2> QED BY <1>5, <2>1, <2>2
<1>6. (2 * n + 3) - 1 = 2 * n + 2
  OBVIOUS
<1> QED BY <1>2, <1>3, <1>4, <1>5, <1>6

\* Who else touches these files and the registry.
LEMMA NobodyElse ==
  ASSUME NEW k \in Steps, NEW i \in DOMAIN OpsOf(k)
  PROVE  /\ OpsOf(k)[i] \in {Put(Ifc), PutAside(Ifc)} => k = 5
         /\ OpsOf(k)[i] \in {Put(Glb), PutAside(Glb)} => k = 6
         /\ (\E ns : OpsOf(k)[i] = Register(ns)) => k = 5
<1>1. k \in 1..8
  BY StepsAre
<1>2. CASE k = 5
  <2>1. PICK n \in Nat \ {0} : n = NamespaceCount /\ i \in 1..(4 * n + 4)
    BY <1>2, Counts, StepFive, LenProperties, SMTT(30)
  <2>2. CASE i = 1
    BY <1>2, <2>2, StepFive, Different
  <2>3. CASE i \in 2..(4 * n + 1)
    <3>1. i - 1 \in 1..(4 * n) /\ 1 + (i - 1) = i
      BY <2>3
    <3>2. \/ \E name : OpsOf(5)[i] = Register(name)
          \/ \E name, schema : OpsOf(5)[i] = Put(IfcFile(name, schema))
      <4>1. OpsOf(5)[i] = AssembleModels[i - 1]
        BY <2>1, <3>1, StepFive
      <4> QED BY <2>1, <3>1, <4>1, Assembling
    <3>3. \A name, schema : IfcFile(name, schema) # Glb
      BY Different DEF Glb
    <3> QED BY <1>2, <3>2, <3>3, Different
  <2>4. CASE i \in {4 * n + 2, 4 * n + 3, 4 * n + 4}
    <3>1. OpsOf(5)[i] \in {Put(File("site.landxml")), Put(File("site.cityjson")), Put(File("site.dxf"))}
      BY <2>1, <2>4, StepFive
    <3>2. /\ File("site.landxml") # Glb /\ File("site.cityjson") # Glb /\ File("site.dxf") # Glb
      <4>1. \A m : File(m) = Glb => m = "site.glb"
        BY Different DEF Glb
      <4> QED BY <4>1
    <3> QED BY <1>2, <3>1, <3>2, Different
  <2> QED BY <2>1, <2>2, <2>3, <2>4
<1>3. \A m : File(m) # Ifc /\ (File(m) = Glb => m = "site.glb")
  BY Different DEF Ifc, Glb
<1>4. \A m : /\ Put(File(m)) \notin {Put(Ifc), PutAside(Ifc)} /\ PutAside(File(m)) \notin {Put(Ifc), PutAside(Ifc)}
             /\ m # "site.glb" => /\ Put(File(m)) \notin {Put(Glb), PutAside(Glb)}
                                  /\ PutAside(File(m)) \notin {Put(Glb), PutAside(Glb)}
  BY <1>3, Different
<1>5. CASE k \in {1, 2, 3, 4, 6}
  <2>1. OpsOf(k)[i] = Get(Ifc) \/ \E m : OpsOf(k)[i] \in {Put(File(m)), PutAside(File(m))} /\ (k # 6 => m # "site.glb")
    BY <1>5, SmallSteps DEF Ifc
  <2> QED BY <1>4, <2>1, Different
<1>6. CASE k = 7
  <2>1. PICK n \in Nat : n = TileCount /\ i \in 1..(n + 2)
    BY <1>6, Counts, StepSeven, LenProperties
  <2>2. CASE i = 1
    BY <1>6, <2>2, StepSeven, Different
  <2>3. CASE i \in 2..(n + 1)
    <3>1. i - 1 \in 1..n /\ 1 + (i - 1) = i
      BY <2>3
    <3>2. OpsOf(7)[i] = PutAside(TileFile(Tiles[i - 1]))
      BY <2>1, <3>1, StepSeven
    <3>3. TileFile(Tiles[i - 1]) # Glb
      BY Different DEF Glb
    <3>4. TileFile(Tiles[i - 1]) # Ifc
      <4>1. \A ns, sch : IfcFile(ns, sch)[1] = ns
        BY DEF IfcFile
      <4>2. \A tl : TileFile(tl)[1] = "tile"
        BY DEF TileFile
      <4> QED BY <4>1, <4>2 DEF Ifc
    <3> QED BY <1>6, <3>2, <3>3, <3>4, Different
  <2>4. CASE i = n + 2
    <3>1. OpsOf(7)[i] = Put(File("tileset.json"))
      BY <2>1, <2>4, StepSeven
    <3> QED BY <1>4, <1>6, <3>1, Different
  <2> QED BY <2>1, <2>2, <2>3, <2>4
<1>7. CASE k = 8
  <2>1. PICK n \in Nat : n = PackedCount /\ i \in 1..(n + 2)
    BY <1>7, StepEight, LenProperties
  <2>2. CASE i \in {n + 1, n + 2}
    <3>1. OpsOf(8)[i] \in {Put(File("meta.json")), Put(File("package.zip"))}
      BY <2>1, <2>2, StepEight
    <3> QED BY <1>4, <1>7, <3>1, Different
  <2>3. CASE i \in 1..n
    BY <1>7, <2>1, <2>3, StepEight, Different
  <2> QED BY <2>1, <2>2, <2>3
<1> QED BY <1>1, <1>2, <1>5, <1>6, <1>7

LEMMA PackedIsNotPut ==
  ASSUME NEW j \in DOMAIN Packed
  PROVE  Packed[j] # File("meta.json") /\ Packed[j] # Zip
<1>1. \A m, n : File(m) = File(n) => m = n
  BY Different
<1>2. \A i : Model(i) # File("meta.json") /\ Model(i) # Zip
  BY Different DEF Model, Zip
<1> QED BY <1>1, <1>2, Packing DEF Zip

\* The chain at work is the only one; the steps before its own are done, no other is.
AloneInTurn ==
  /\ \A r, q \in Runners : at[r] # 0 /\ at[q] # 0 => r = q
  /\ \A k \in Steps : status[k] = "done" => \A j \in 1..(k - 1) : status[j] = "done"
  /\ \A r \in Runners : at[r] # 0 =>
       \A j \in Steps : status[j] = "done" <=> j < at[r]

\* What has been downloaded of Packed before operation i.
PackedBefore(i) == {<<Packed[j], store[Packed[j]].model>> : j \in {j \in DOMAIN Packed : j < i}}

\* What the chain at work has made so far.
Makes(r) ==
  /\ at[r] = 0 => got[r] = {}
  /\ at[r] # 0 /\ op[r] = 1 => got[r] = {}
  /\ at[r] = 5 =>
       /\ op[r] = IfcAt => registry["site"] = built[r]
       /\ op[r] > IfcAt => registry["site"] = store[Ifc].model
  /\ at[r] = 6 =>
       /\ op[r] > 1 => got[r] = {<<Ifc, store[Ifc].model>>}
       /\ op[r] > 2 => store[Glb].from = got[r]
  /\ at[r] = 8 =>
       /\ got[r] = PackedBefore(op[r])
       /\ op[r] > PackedCount + 2 => store[Zip].from = got[r]

\* What the done steps have made.
Made ==
  /\ status[5] = "done" => registry["site"] = store[Ifc].model
  /\ status[6] = "done" => store[Glb].from = {<<Ifc, store[Ifc].model>>}
  /\ status[8] = "done" =>
       store[Zip].from = {<<Packed[j], store[Packed[j]].model>> : j \in DOMAIN Packed}

MoreColumns ==
  /\ DOMAIN got = Runners /\ DOMAIN built = Runners /\ "site" \in DOMAIN registry
  /\ crowded \in BOOLEAN

\* The inductive invariant.
MadeInv ==
  FileColumns /\ MoreColumns /\ (~crowded => AloneInTurn /\ (\A r \in Runners : Makes(r)) /\ Made)

LEMMA MadeInit == Init => MadeInv
<1> SUFFICES ASSUME Init PROVE MadeInv
  OBVIOUS
<1>1. FileColumns
  BY FilesInit DEF FilesInv
<1>2. MoreColumns
  <2>1. 1 \in DOMAIN Namespaces /\ Namespaces[1] = "site"
    BY NamespacesAssumption, Counts
  <2>2. "site" \in {Namespaces[k] : k \in DOMAIN Namespaces}
    BY <2>1
  <2> QED BY <2>2 DEF Init, MoreColumns
<1>3. AloneInTurn /\ (\A r \in Runners : Makes(r))
  BY DEF Init, AloneInTurn, Makes
<1>4. 5 \in Steps /\ 6 \in Steps /\ 8 \in Steps
  BY StepsAre
<1>5. Made
  BY <1>4 DEF Init, Made
<1> QED BY <1>1, <1>2, <1>3, <1>5 DEF MadeInv

\* The columns after any step.
LEMMA ColumnsStay ==
  ASSUME FileColumns, MoreColumns, Next
  PROVE  FileColumns' /\ MoreColumns'
<1>1. ASSUME NEW r \in Runners, NEW k \in Steps, Begin(r, k) PROVE FileColumns' /\ MoreColumns'
  BY <1>1 DEF Begin, FileColumns, MoreColumns
<1>2. ASSUME NEW r \in Runners, Download(r) \/ RegisterModel(r) \/ Upload(r) PROVE FileColumns' /\ MoreColumns'
  BY <1>2 DEF Download, RegisterModel, Upload, Advance, FileColumns, MoreColumns
<1>3. ASSUME NEW r \in Runners, Finish(r) \/ Raise(r) \/ Kill(r) PROVE FileColumns' /\ MoreColumns'
  <2>1. Leave(r) /\ UNCHANGED <<store, registry, crowded>>
    BY <1>3 DEF Finish, Raise, Kill
  <2>2. status' \in [Steps -> {"pending", "done", "failed"}]
    BY <1>3 DEF Finish, Raise, Kill, FileColumns
  <2> QED BY <2>1, <2>2 DEF Leave, FileColumns, MoreColumns
<1>4. ASSUME NEW k \in Steps, Retry(k) PROVE FileColumns' /\ MoreColumns'
  BY <1>4 DEF Retry, FileColumns, MoreColumns
<1> QED BY <1>1, <1>2, <1>3, <1>4 DEF Next

\* One chain is at work: what its next operation may be.
LEMMA AtWork ==
  ASSUME FileColumns, NEW r \in Runners, NEW o, About(r, o)
  PROVE  /\ at[r] \in Steps /\ at[r] \in 1..8 /\ op[r] \in Nat \ {0} /\ op[r] \in DOMAIN OpsOf(at[r])
         /\ OpsOf(at[r])[op[r]] = o /\ op[r] <= Len(OpsOf(at[r]))
<1>1. /\ at[r] \in Steps /\ at[r] # 0 /\ op[r] \in Nat /\ op[r] <= Len(OpsOf(at[r]))
      /\ OpsOf(at[r])[op[r]] = o /\ op[r] # 0
  BY DEF About, StepOps, OpsOf, FileColumns
<1>2. op[r] \in DOMAIN OpsOf(at[r])
  BY <1>1, OpsType
<1> QED BY <1>1, <1>2, StepsAre

\* An operation moves its chain by one and leaves the others idle.
LEMMA OneOn ==
  ASSUME FileColumns, MoreColumns, AloneInTurn, \A q \in Runners : Makes(q),
         NEW r \in Runners, at[r] # 0, Advance(r), UNCHANGED <<status, at>>,
         \A q \in Runners \ {r} : got'[q] = got[q]
  PROVE  /\ op'[r] = op[r] + 1 /\ at'[r] = at[r]
         /\ AloneInTurn'
         /\ \A q \in Runners \ {r} : Makes(q)'
<1>1. op'[r] = op[r] + 1
  BY DEF FileColumns, Advance
<1>2. AloneInTurn'
  BY DEF AloneInTurn
<1>3. ASSUME NEW q \in Runners \ {r} PROVE Makes(q)'
  <2>1. at[q] = 0 /\ at'[q] = 0
    BY DEF AloneInTurn
  <2> QED BY <2>1 DEF Makes
<1> QED BY <1>1, <1>2, <1>3

LEMMA DownloadMakes ==
  ASSUME FileColumns, MoreColumns, AloneInTurn, \A q \in Runners : Makes(q), Made,
         NEW r \in Runners, Download(r)
  PROVE  AloneInTurn' /\ (\A q \in Runners : Makes(q)') /\ Made'
<1>1. PICK f \in Files : /\ About(r, Get(f))
                         /\ got' = [got EXCEPT ![r] = @ \cup {<<f, store[f].model>>}]
  BY DEF Download
<1>2. Advance(r) /\ UNCHANGED <<status, store, registry, at, built>> /\ at[r] # 0
  BY <1>1 DEF Download, About
<1>3. PICK k, i : k = at[r] /\ i = op[r]
  OBVIOUS
<1>4. /\ k \in 1..8 /\ i \in Nat \ {0} /\ k \in Steps /\ i \in DOMAIN OpsOf(k)
       /\ i <= Len(OpsOf(k)) /\ OpsOf(k)[i] = Get(f)
  BY <1>1, <1>3, AtWork
<1>5. /\ AloneInTurn' /\ op'[r] = i + 1 /\ at'[r] = k
      /\ \A q \in Runners \ {r} : Makes(q)'
  <2>1. \A q \in Runners \ {r} : got'[q] = got[q]
    BY <1>1 DEF MoreColumns
  <2> QED BY <1>2, <1>3, <1>4, <2>1, OneOn
<1>6. got'[r] = got[r] \cup {<<f, store[f].model>>}
  BY <1>1 DEF MoreColumns
<1>7. Made'
  BY <1>2 DEF Made
<1>8. ASSUME k = 5
      PROVE  /\ i + 1 # IfcAt
             /\ i + 1 > IfcAt => registry["site"] = store[Ifc].model
  <2>1. i # IfcAt - 1 /\ i # IfcAt /\ IfcAt \in Nat
    BY <1>3, <1>4, <1>8, WhereIfcIs, Different
  <2>2. i + 1 # IfcAt /\ (i + 1 > IfcAt => i > IfcAt)
    BY <1>4, <2>1
  <2> QED BY <1>3, <1>4, <1>8, <2>2 DEF Makes
<1>9. ASSUME k = 6
      PROVE  i = 1 /\ got'[r] = {<<Ifc, store[Ifc].model>>}
  <2>1. f = Ifc
    BY <1>3, <1>4, <1>9, SmallSteps, Different DEF Ifc
  <2>2. \A g, h : Len(<<g, h>>) = 2 /\ <<g, h>>[2] = h
    OBVIOUS
  <2>3. Len(OpsOf(6)) = 2 /\ OpsOf(6)[2] = Put(Glb)
    BY <2>2, StepsAre DEF Glb
  <2>4. i = 1
    BY <1>3, <1>4, <1>9, <2>3, Different
  <2> QED BY <1>3, <1>4, <1>6, <2>1, <2>4 DEF Makes
<1>10. ASSUME k = 8
      PROVE  got'[r] = PackedBefore(i + 1) /\ i + 1 <= PackedCount + 2
  <2>1. PICK n \in Nat : n = PackedCount /\ DOMAIN Packed = 1..n /\ i \in 1..(n + 2)
    BY <1>3, <1>4, <1>10, StepEight, LenProperties
  <2>2. i # n + 1 /\ i # n + 2
    BY <1>3, <1>4, <1>10, <2>1, StepEight, Different
  <2>3. i \in 1..n /\ f = Packed[i]
    BY <1>3, <1>4, <1>10, <2>1, <2>2, StepEight, Different
  <2>4. {j \in DOMAIN Packed : j < i + 1} = {j \in DOMAIN Packed : j < i} \cup {i}
    BY <2>1, <2>3
  <2>5. PackedBefore(i + 1) = PackedBefore(i) \cup {<<Packed[i], store[Packed[i]].model>>}
    BY <2>4 DEF PackedBefore
  <2>6. got[r] = PackedBefore(i)
    BY <1>3, <1>4, <1>10 DEF Makes
  <2> QED BY <1>6, <2>1, <2>3, <2>5, <2>6
<1>11. Makes(r)'
  <2>1. PICK x : x = i + 1
    OBVIOUS
  <2>2. x # 1 /\ op'[r] = x /\ at'[r] = k /\ k # 0
    BY <1>3, <1>4, <1>5, <2>1
  <2>3. PackedBefore(op[r])' = PackedBefore(x)
    BY <1>2, <2>2 DEF PackedBefore
  <2>4. k = 6 => ~ (x > 2)
    BY <1>9, <2>1
  <2>5. k = 8 => ~ (x > PackedCount + 2)
    BY <1>3, <1>4, <1>10, <2>1, StepEight
  <2> QED BY <1>2, <1>8, <1>9, <1>10, <2>1, <2>2, <2>3, <2>4, <2>5 DEF Makes
<1> QED BY <1>5, <1>7, <1>11

LEMMA RegisterMakes ==
  ASSUME FileColumns, MoreColumns, AloneInTurn, \A q \in Runners : Makes(q), Made,
         NEW r \in Runners, RegisterModel(r)
  PROVE  AloneInTurn' /\ (\A q \in Runners : Makes(q)') /\ Made'
<1>1. PICK n : /\ About(r, Register(n))
               /\ registry' = [registry EXCEPT ![n] = models + 1]
               /\ built' = [built EXCEPT ![r] = models + 1]
  BY DEF RegisterModel
<1>2. Advance(r) /\ UNCHANGED <<status, store, at, got>> /\ at[r] # 0
  BY <1>1 DEF RegisterModel, About
<1>3. PICK i : i = op[r]
  OBVIOUS
<1>4. at[r] = 5 /\ i \in Nat \ {0} /\ i \in DOMAIN OpsOf(5) /\ OpsOf(5)[i] = Register(n)
  BY <1>1, <1>3, AtWork, NobodyElse
<1>5. /\ AloneInTurn' /\ op'[r] = i + 1 /\ at'[r] = 5
      /\ \A q \in Runners \ {r} : Makes(q)'
  BY <1>2, <1>3, <1>4, OneOn
<1>6. Made'
  BY <1>2, <1>4, StepsAre, SMTT(30) DEF Made, AloneInTurn
<1>7. \A m : Register(m) = Register("site") => m = "site"
  <2>1. \A m : Register(m).on = m
    BY DEF Register
  <2> QED BY <2>1
<1>8. i + 1 = IfcAt => registry'["site"] = built'[r]
  <2> SUFFICES ASSUME i + 1 = IfcAt PROVE registry'["site"] = built'[r]
    OBVIOUS
  <2>1. i = IfcAt - 1
    BY <1>4
  <2>2. n = "site"
    BY <1>4, <1>7, <2>1, WhereIfcIs
  <2> QED BY <1>1, <2>2 DEF MoreColumns
<1>9. i + 1 > IfcAt => registry'["site"] = store[Ifc].model
  <2> SUFFICES ASSUME i + 1 > IfcAt PROVE registry'["site"] = store[Ifc].model
    OBVIOUS
  <2>1. i # IfcAt
    BY <1>4, WhereIfcIs, Different
  <2>2. i > IfcAt
    BY <1>4, <2>1, WhereIfcIs
  <2>3. n # "site"
    BY <1>4, <2>2, WhereIfcIs
  <2>4. registry["site"] = store[Ifc].model
    BY <1>3, <1>4, <2>2 DEF Makes
  <2> QED BY <1>1, <2>3, <2>4 DEF MoreColumns
<1>10. Makes(r)'
  <2>1. PICK x : x = i + 1
    OBVIOUS
  <2>2. x # 1 /\ op'[r] = x /\ at'[r] = 5
    BY <1>4, <1>5, <2>1
  <2> QED BY <1>2, <1>8, <1>9, <2>1, <2>2 DEF Makes
<1> QED BY <1>5, <1>6, <1>10

LEMMA UploadMakes ==
  ASSUME FileColumns, MoreColumns, AloneInTurn, \A q \in Runners : Makes(q), Made,
         NEW r \in Runners, Upload(r)
  PROVE  AloneInTurn' /\ (\A q \in Runners : Makes(q)') /\ Made'
<1>1. PICK f \in Files :
        /\ About(r, Put(f)) \/ About(r, PutAside(f))
        /\ store' = [store EXCEPT ![f] = Content(IF f \in IfcFiles THEN built[r] ELSE 0, got[r])]
  BY DEF Upload
<1>2. Advance(r) /\ UNCHANGED <<status, registry, at, got, built>> /\ at[r] # 0
  BY <1>1 DEF Upload, About
<1>3. PICK k, i : k = at[r] /\ i = op[r]
  OBVIOUS
<1>4. /\ k \in 1..8 /\ i \in Nat \ {0} /\ k \in Steps /\ i \in DOMAIN OpsOf(k)
      /\ i <= Len(OpsOf(k)) /\ OpsOf(k)[i] \in {Put(f), PutAside(f)}
  BY <1>1, <1>3, AtWork
<1>5. /\ AloneInTurn' /\ op'[r] = i + 1 /\ at'[r] = k
      /\ \A q \in Runners \ {r} : Makes(q)'
  BY <1>2, <1>3, <1>4, OneOn
<1>6. /\ \A g \in Files : g # f => store'[g] = store[g]
      /\ store'[f].from = got[r]
      /\ f \in IfcFiles => store'[f].model = built[r]
  <2>1. \A m, from : Content(m, from).from = from /\ Content(m, from).model = m
    BY DEF Content
  <2>2. f \in DOMAIN store /\ \A g \in Files : g \in DOMAIN store
    BY DEF FileColumns
  <2> QED BY <1>1, <2>1, <2>2
<1>7. Ifc \in Files /\ Ifc \in IfcFiles /\ Glb \in Files /\ Zip \in Files
  <2>1. Namespaces[1] = "site" /\ Schemas[2] = "IFC4X3" /\ 1 \in DOMAIN Namespaces /\ 2 \in DOMAIN Schemas
    BY NamespacesAssumption, Counts DEF Schemas
  <2> QED BY <2>1, FilesKnown DEF Ifc, Glb, Zip, IfcFiles
<1>8. (f = Ifc => k = 5) /\ (f = Glb => k = 6)
  BY <1>4, NobodyElse
<1>9. Glb # Ifc
  BY Different DEF Glb, Ifc
<1>10. \A j \in Steps : status[j] = "done" <=> j < k
  BY <1>2, <1>3 DEF AloneInTurn
<1>11. Made'
  <2>1. 5 \in Steps /\ 6 \in Steps /\ 8 \in Steps
    BY StepsAre
  <2>2. status[8] # "done"
    BY <1>4, <1>10, <2>1
  <2>3. status[5] = "done" => f # Ifc
    BY <1>8, <1>10, <2>1
  <2>4. status[6] = "done" => f # Ifc /\ f # Glb
    BY <1>8, <1>10, <2>1
  <2> QED BY <1>2, <1>6, <1>7, <2>2, <2>3, <2>4 DEF Made
<1>12. ASSUME k = 5
       PROVE  /\ i + 1 # IfcAt
              /\ i + 1 > IfcAt => registry["site"] = store'[Ifc].model
  <2>1. i # IfcAt - 1 /\ IfcAt \in Nat
    BY <1>4, <1>12, WhereIfcIs, Different
  <2>2. i + 1 # IfcAt
    BY <1>4, <2>1
  <2>3. CASE i = IfcAt
    <3>1. f = Ifc
      BY <1>4, <1>12, <2>3, WhereIfcIs, Different
    <3>2. registry["site"] = built[r]
      BY <1>3, <1>12, <2>3 DEF Makes
    <3> QED BY <1>6, <1>7, <2>2, <3>1, <3>2
  <2>4. CASE i > IfcAt
    <3>1. f # Ifc
      BY <1>4, <1>12, <2>4, WhereIfcIs
    <3>2. registry["site"] = store[Ifc].model
      BY <1>3, <1>12, <2>4 DEF Makes
    <3> QED BY <1>6, <1>7, <2>2, <3>1, <3>2
  <2> QED BY <1>4, <2>1, <2>2, <2>3, <2>4
<1>13. ASSUME k = 6
       PROVE  /\ got[r] = {<<Ifc, store'[Ifc].model>>}
              /\ store'[Glb].from = got[r]
  <2>1. f = Glb
    BY <1>4, <1>13, SmallSteps, Different DEF Glb
  <2>2. \A g, h : <<g, h>>[1] = g
    OBVIOUS
  <2>3. OpsOf(6)[1] = Get(Ifc)
    BY <2>2, StepsAre DEF Ifc
  <2>4. i > 1
    BY <1>4, <1>13, <2>3, Different
  <2> QED BY <1>3, <1>6, <1>7, <1>9, <1>13, <2>1, <2>4 DEF Makes
<1>14. ASSUME k = 8
       PROVE  /\ got[r] = {<<Packed[j], store'[Packed[j]].model>> : j \in {j \in DOMAIN Packed : j < i + 1}}
              /\ i + 1 > PackedCount + 2 => store'[Zip].from = got[r]
  <2>1. PICK n \in Nat : n = PackedCount /\ DOMAIN Packed = 1..n /\ i \in 1..(n + 2)
    BY <1>4, <1>14, StepEight, LenProperties
  <2>2. i \notin 1..n
    BY <1>4, <1>14, <2>1, StepEight, Different
  <2>3. f \in {File("meta.json"), Zip} /\ (i = n + 2 => f = Zip)
    <3>1. CASE i = n + 1
      BY <1>4, <1>14, <2>1, <3>1, StepEight, Different
    <3>2. CASE i = n + 2
      BY <1>4, <1>14, <2>1, <3>2, StepEight, Different DEF Zip
    <3> QED BY <2>1, <2>2, <3>1, <3>2
  <2>4. \A j \in DOMAIN Packed : Packed[j] \in Files /\ store'[Packed[j]] = store[Packed[j]]
    <3>1. \A j \in DOMAIN Packed : Packed[j] \in Files
      BY Packing, ElementOfSeq, LenProperties
    <3> QED BY <1>6, <2>3, <3>1, PackedIsNotPut
  <2>5. {j \in DOMAIN Packed : j < i + 1} = DOMAIN Packed /\ {j \in DOMAIN Packed : j < i} = DOMAIN Packed
    BY <2>1, <2>2
  <2>6. got[r] = {<<Packed[j], store[Packed[j]].model>> : j \in DOMAIN Packed}
    BY <1>3, <1>14, <2>5 DEF Makes, PackedBefore
  <2>7. got[r] = {<<Packed[j], store'[Packed[j]].model>> : j \in DOMAIN Packed}
    BY <2>4, <2>6
  <2> QED BY <1>6, <2>1, <2>3, <2>5, <2>7
<1>15. Makes(r)'
  <2>1. PICK x : x = i + 1
    OBVIOUS
  <2>2. x # 1 /\ op'[r] = x /\ at'[r] = k /\ k # 0
    BY <1>4, <1>5, <2>1
  <2>3. k = 8 => got'[r] = PackedBefore(op[r])'
    BY <1>2, <1>14, <2>1, <2>2 DEF PackedBefore
  <2> QED BY <1>2, <1>12, <1>13, <1>14, <2>1, <2>2, <2>3 DEF Makes
<1> QED BY <1>5, <1>11, <1>15

\* A chain that leaves its step, done or not.
LEMMA LeaveMakes ==
  ASSUME FileColumns, MoreColumns, AloneInTurn, \A q \in Runners : Makes(q), Made,
         NEW r \in Runners, at[r] # 0, Leave(r), UNCHANGED <<store, registry>>,
         \A k \in Steps : status'[k] = "done" <=>
           status[k] = "done" \/ (k = at[r] /\ status'[k] = "done")
  PROVE  /\ AloneInTurn' /\ (\A q \in Runners : Makes(q)')
         /\ (at[r] \in {5, 6, 8} /\ status'[at[r]] = "done" => op[r] > Len(OpsOf(at[r]))) => Made'
<1>1. at[r] \in Steps /\ Steps = 1..8
  BY StepsAre DEF FileColumns
<1>2. PICK k : k = at[r]
  OBVIOUS
<1>3. \A q \in Runners : at'[q] = 0 /\ got'[q] = {}
  BY DEF Leave, FileColumns, MoreColumns, AloneInTurn, Makes
<1>4. AloneInTurn'
  <2>1. ASSUME NEW i \in Steps, status'[i] = "done", NEW j \in 1..(i - 1) PROVE status'[j] = "done"
    <3>1. j \in Steps
      BY <1>1
    <3>2. CASE status[i] = "done"
      BY <2>1, <3>1, <3>2 DEF AloneInTurn
    <3>3. CASE i = at[r]
      BY <1>1, <2>1, <3>1, <3>3 DEF AloneInTurn
    <3> QED BY <2>1, <3>2, <3>3
  <2> QED BY <1>3, <2>1 DEF AloneInTurn
<1>5. \A q \in Runners : Makes(q)'
  BY <1>3 DEF Makes
<1>6. ASSUME at[r] \in {5, 6, 8} /\ status'[at[r]] = "done" => op[r] > Len(OpsOf(at[r]))
      PROVE  Made'
  <2>1. \A j \in Steps : status'[j] = "done" => status[j] = "done" \/ (j = at[r] /\ status'[at[r]] = "done")
    OBVIOUS
  <2>2. 5 \in Steps /\ 6 \in Steps /\ 8 \in Steps
    BY <1>1
  <2>3. status'[5] = "done" => registry["site"] = store[Ifc].model
    <3>1. CASE status[5] = "done"
      BY <3>1 DEF Made
    <3>2. CASE at[r] = 5 /\ status'[5] = "done"
      <4>1. op[r] > Len(OpsOf(5)) /\ op[r] \in Nat
        BY <1>6, <3>2 DEF FileColumns
      <4>2. op[r] > IfcAt
        BY <4>1, WhereIfcIs
      <4> QED BY <3>2, <4>2 DEF Makes
    <3> QED BY <2>1, <2>2, <3>1, <3>2
  <2>4. status'[6] = "done" => store[Glb].from = {<<Ifc, store[Ifc].model>>}
    <3>1. CASE status[6] = "done"
      BY <3>1 DEF Made
    <3>2. CASE at[r] = 6 /\ status'[6] = "done"
      <4>1. \A g, h : Len(<<g, h>>) = 2
        OBVIOUS
      <4>2. Len(OpsOf(6)) = 2
        BY <4>1, StepsAre
      <4>3. op[r] > Len(OpsOf(6)) /\ op[r] \in Nat
        BY <1>6, <3>2 DEF FileColumns
      <4>4. op[r] > 2 /\ op[r] \in Nat
        BY <4>2, <4>3, Zenon
      <4>5. op[r] > 1
        BY <4>4
      <4> QED BY <3>2, <4>4, <4>5 DEF Makes
    <3> QED BY <2>1, <2>2, <3>1, <3>2
  <2>5. status'[8] = "done" =>
          store[Zip].from = {<<Packed[j], store[Packed[j]].model>> : j \in DOMAIN Packed}
    <3>1. CASE status[8] = "done"
      BY <3>1 DEF Made
    <3>2. CASE at[r] = 8 /\ status'[8] = "done"
      <4>1. PICK n \in Nat : n = PackedCount /\ DOMAIN Packed = 1..n /\ Len(OpsOf(8)) = n + 2
        BY StepEight
      <4>2. op[r] > n + 2 /\ op[r] \in Nat
        BY <1>6, <3>2, <4>1 DEF FileColumns
      <4>3. {j \in DOMAIN Packed : j < op[r]} = DOMAIN Packed
        BY <4>1, <4>2
      <4>4. store[Zip].from = PackedBefore(op[r])
        BY <3>2, <4>1, <4>2 DEF Makes
      <4> QED BY <4>3, <4>4 DEF PackedBefore
    <3> QED BY <2>1, <2>2, <3>1, <3>2
  <2> QED BY <2>3, <2>4, <2>5 DEF Made
<1> QED BY <1>4, <1>5, <1>6

LEMMA BeginMakes ==
  ASSUME FileColumns, MoreColumns, AloneInTurn, \A q \in Runners : Makes(q), Made,
         NEW r \in Runners, NEW k \in Steps, Begin(r, k), crowded' = FALSE
  PROVE  AloneInTurn' /\ (\A q \in Runners : Makes(q)') /\ Made'
<1>1. /\ UNCHANGED <<status, store, registry, got, built>>
      /\ at' = [at EXCEPT ![r] = k] /\ op' = [op EXCEPT ![r] = 1]
      /\ status[k] # "done" /\ \A i \in 1..(k - 1) : status[i] = "done"
      /\ \A q \in Runners : at[q] = 0
  BY DEF Begin
<1>2. /\ k \in 1..8 /\ Steps = 1..8
  BY StepsAre
<1>3. at'[r] = k /\ op'[r] = 1 /\ \A q \in Runners \ {r} : at'[q] = 0
  BY <1>1 DEF FileColumns
<1>4. AloneInTurn'
  <2>1. ASSUME NEW j \in Steps PROVE status[j] = "done" <=> j < k
    <3>1. CASE j < k
      BY <1>1, <1>2, <3>1
    <3>2. CASE j = k
      BY <1>1, <1>2, <3>2
    <3>3. CASE j > k
      <4>1. k \in 1..(j - 1)
        BY <1>2, <3>3
      <4> QED BY <1>1, <1>2, <3>3, <4>1 DEF AloneInTurn
    <3> QED BY <1>2, <3>1, <3>2, <3>3
  <2>2. \A q \in Runners : at'[q] # 0 => q = r
    BY <1>3
  <2> QED BY <1>1, <1>3, <2>1, <2>2 DEF AloneInTurn
<1>5. Made'
  BY <1>1 DEF Made
<1>6. \A q \in Runners : got'[q] = {}
  BY <1>1 DEF Makes
<1>7. ASSUME NEW q \in Runners \ {r} PROVE Makes(q)'
  BY <1>3, <1>6 DEF Makes
<1>8. Makes(r)'
  <2>1. PackedBefore(op[r])' = {}
    <3>1. {j \in DOMAIN Packed : j < 1} = {}
      BY StepEight
    <3> QED BY <1>3, <3>1 DEF PackedBefore
  <2>2. IfcAt \in Nat /\ IfcAt > 2 /\ ~ (1 > PackedCount + 2)
    BY WhereIfcIs, StepEight
  <2>3. 1 # IfcAt /\ ~ (1 > IfcAt)
    BY <2>2
  <2> QED BY <1>2, <1>3, <1>6, <2>1, <2>2, <2>3, SMTT(30) DEF Makes
<1> QED BY <1>4, <1>5, <1>7, <1>8

LEMMA MadeStep == MadeInv /\ [Next]_vars => MadeInv'
<1> SUFFICES ASSUME MadeInv, [Next]_vars PROVE MadeInv'
  OBVIOUS
<1>1. CASE UNCHANGED vars
  <2>1. FileColumns' /\ MoreColumns'
    BY <1>1 DEF MadeInv, vars, FileColumns, MoreColumns
  <2>2. ~crowded => AloneInTurn' /\ (\A r \in Runners : Makes(r)') /\ Made'
    BY <1>1 DEF MadeInv, vars, AloneInTurn, Makes, Made, PackedBefore
  <2> QED BY <1>1, <2>1, <2>2 DEF MadeInv, vars
<1>2. CASE Next
  <2>1. FileColumns' /\ MoreColumns'
    BY <1>2, ColumnsStay DEF MadeInv
  <2> SUFFICES ASSUME ~ crowded' PROVE AloneInTurn' /\ (\A r \in Runners : Makes(r)') /\ Made'
    BY <2>1 DEF MadeInv
  <2>2. crowded' = FALSE
    BY <2>1 DEF MoreColumns
  <2>3. ~ crowded
    BY <1>2, <2>2 DEF Next, Begin, Download, RegisterModel, Upload, Finish, Raise, Kill, Retry
  <2>4. /\ FileColumns /\ MoreColumns /\ AloneInTurn /\ Made
        /\ \A q \in Runners : Makes(q)
    BY <2>3 DEF MadeInv
  <2>5. ASSUME NEW r \in Runners, NEW k \in Steps, Begin(r, k)
        PROVE  AloneInTurn' /\ (\A q \in Runners : Makes(q)') /\ Made'
    BY <2>2, <2>4, <2>5, BeginMakes
  <2>6. ASSUME NEW r \in Runners, Finish(r)
        PROVE  AloneInTurn' /\ (\A q \in Runners : Makes(q)') /\ Made'
    <3>1. at[r] # 0 /\ Leave(r) /\ UNCHANGED <<store, registry>>
          /\ op[r] > Len(OpsOf(at[r])) /\ status' = [status EXCEPT ![at[r]] = "done"]
      BY <2>6 DEF Finish, StepOps, OpsOf
    <3>2. \A k \in Steps : status'[k] = "done" <=>
            status[k] = "done" \/ (k = at[r] /\ status'[k] = "done")
      BY <2>4, <3>1 DEF FileColumns
    <3> QED BY <2>4, <3>1, <3>2, LeaveMakes
  <2>7. ASSUME NEW r \in Runners, Raise(r)
        PROVE  AloneInTurn' /\ (\A q \in Runners : Makes(q)') /\ Made'
    <3>1. at[r] # 0 /\ Leave(r) /\ UNCHANGED <<store, registry>> /\ at[r] \in Steps
      BY <2>4, <2>7 DEF Raise, FileColumns
    <3>2. status' = [status EXCEPT ![at[r]] = IF Swallows(Pipeline[at[r]]) THEN "done" ELSE "failed"]
      BY <2>7 DEF Raise
    <3>3. status[at[r]] # "done"
      BY <2>4, <3>1, StepsAre DEF AloneInTurn
    <3>4. \A k \in Steps : status'[k] = "done" <=>
            status[k] = "done" \/ (k = at[r] /\ status'[k] = "done")
      BY <2>4, <3>2, <3>3 DEF FileColumns
    <3>5. status'[at[r]] = "done" => at[r] = 2
      BY <2>4, <3>1, <3>2, StepsAre DEF FileColumns
    <3> QED BY <2>4, <3>1, <3>4, <3>5, LeaveMakes
  <2>8. ASSUME NEW r \in Runners, Kill(r)
        PROVE  AloneInTurn' /\ (\A q \in Runners : Makes(q)') /\ Made'
    <3>1. at[r] # 0 /\ Leave(r) /\ UNCHANGED <<store, registry, status>> /\ at[r] \in Steps
      BY <2>4, <2>8 DEF Kill, FileColumns
    <3>2. status[at[r]] # "done"
      BY <2>4, <3>1, StepsAre DEF AloneInTurn
    <3>3. \A k \in Steps : status'[k] = "done" <=>
            status[k] = "done" \/ (k = at[r] /\ status'[k] = "done")
      BY <3>1
    <3> QED BY <2>4, <3>1, <3>2, <3>3, LeaveMakes
  <2>9. ASSUME NEW k \in Steps, Retry(k)
        PROVE  AloneInTurn' /\ (\A q \in Runners : Makes(q)') /\ Made'
    <3>1. /\ UNCHANGED <<store, registry, at, op, got, built>>
          /\ \A r \in Runners : at[r] = 0
      BY <2>9 DEF Retry
    <3>2. \A j \in Steps : status'[j] = "done" <=> status[j] = "done"
      BY <2>4, <2>9 DEF Retry, FileColumns
    <3>3. 5 \in Steps /\ 6 \in Steps /\ 8 \in Steps /\ \A i \in Steps : \A j \in 1..(i - 1) : j \in Steps
      BY StepsAre
    <3>4. AloneInTurn'
      BY <2>4, <3>1, <3>2, <3>3 DEF AloneInTurn
    <3>5. Made'
      BY <2>4, <3>1, <3>2, <3>3 DEF Made
    <3>6. \A q \in Runners : Makes(q)'
      BY <2>4, <3>1 DEF Makes
    <3> QED BY <3>4, <3>5, <3>6
  <2> QED
    BY <1>2, <2>4, <2>5, <2>6, <2>7, <2>8, <2>9, DownloadMakes, RegisterMakes, UploadMakes DEF Next
<1> QED BY <1>1, <1>2

\* Where the two steps stand whose files are compared.
LEMMA FileSteps ==
  ASSUME NEW k \in Steps
  PROVE  /\ Pipeline[k] = "convert_to_glb" => k = 6
         /\ Pipeline[k] = "package_outputs" => k = 8
<1>1. k = 1 \/ k = 2 \/ k = 3 \/ k = 4 \/ k = 5 \/ k = 6 \/ k = 7 \/ k = 8
  BY StepsAre
<1> QED BY <1>1 DEF Pipeline

LEMMA MadeAlways == Spec => []MadeInv
BY MadeInit, MadeStep, PTL DEF Spec

\* As long as one chain runs at a time, the GLB, the model it was made from and the registry
\* have the same GlobalIds, whatever is killed, raised and retried (convert_to_glb,
\* register_global_ids).
THEOREM FilesAgree == Spec => []GlbIsRegistered
<1>1. ASSUME MadeInv, ~crowded PROVE AloneInTurn /\ Made /\ FileColumns
  BY <1>1 DEF MadeInv
<1>2. MadeInv => GlbIsRegistered
  <2> SUFFICES ASSUME MadeInv, ~crowded, status[6] = "done"
               PROVE  /\ store[Glb].from = {<<Ifc, store[Ifc].model>>}
                      /\ registry["site"] = store[Ifc].model
    BY FileSteps DEF GlbIsRegistered, Glb, Ifc
  <2>1. status[5] = "done"
    <3>1. 6 \in Steps /\ 5 \in 1..(6 - 1)
      BY StepsAre
    <3> QED BY <1>1, <3>1 DEF AloneInTurn
  <2> QED BY <1>1, <2>1 DEF Made
<1> QED BY <1>2, MadeAlways, PTL

\* Under the same condition the archive holds the very files that are stored
\* (package_outputs).
THEOREM PackageAgrees == Spec => []PackageIsCurrent
<1>1. ASSUME MadeInv, ~crowded PROVE Made
  BY <1>1 DEF MadeInv
<1>2. MadeInv => PackageIsCurrent
  <2> SUFFICES ASSUME MadeInv, ~crowded, status[8] = "done"
               PROVE  store[Zip].from = {<<Packed[i], store[Packed[i]].model>> : i \in DOMAIN Packed}
    BY FileSteps DEF PackageIsCurrent, Zip
  <2> QED BY <1>1 DEF Made
<1> QED BY <1>2, MadeAlways, PTL
=============================================================================

