----------------------------- MODULE RulesProofs -----------------------------
(***************************************************************************)
(* What the parts that keep no state promise, of every input that fits the  *)
(* assumptions of Rules.                                                   *)
(*                                                                         *)
(* The argument is the same for each invariant: a question comes from the   *)
(* set of its topic (QuestionInv), the assumption says what that set holds, *)
(* and a lemma says of all such inputs that the answer is right.            *)
(***************************************************************************)
EXTENDS Rules, TerrainProofs

\* What was asked is one of the questions.
QuestionInv == /\ topic \in DOMAIN Questions \cup {"none"}
               /\ asked => topic \in DOMAIN Questions /\ given \in Questions[topic]

\* A question comes from the set of its topic and stays the same while it is asked.
LEMMA QuestionsAlways == RulesSpec => []QuestionInv
<1>1. RulesInit => QuestionInv
  BY DEF RulesInit, QuestionInv
<1>2. QuestionInv /\ [RulesNext]_rulesVars => QuestionInv'
  <2> SUFFICES ASSUME QuestionInv, [RulesNext]_rulesVars PROVE QuestionInv'
    OBVIOUS
  <2>1. CASE Choose
    BY <2>1 DEF Choose, QuestionInv
  <2>2. CASE Ask
    BY <2>2 DEF Ask, QuestionInv
  <2>3. CASE Forget
    BY <2>3 DEF Forget, QuestionInv
  <2>4. CASE UNCHANGED rulesVars
    BY <2>4 DEF rulesVars, QuestionInv
  <2> QED
    BY <2>1, <2>2, <2>3, <2>4 DEF RulesNext
<1> QED
  BY <1>1, <1>2, PTL DEF RulesSpec
-----------------------------------------------------------------------------
(* The tiles, the relief and their coding (Tiles, Relief).                  *)

\* The tiles of a site cover it with the detail of each place's distance, none with a
\* building is left out, the box of the root holds them all, and no crack opens between
\* neighbours: for any sizes, rings, buildings and relief (TilesFit).
THEOREM TilesAlwaysFit == RulesSpec => []TilesFit
<1>1. QuestionInv => TilesFit
  <2> SUFFICES ASSUME QuestionInv PROVE TilesFit
    OBVIOUS
  <2>1. ASSUME Asked("tileset")
        PROVE  TilesetIsComplete(given.center, given.radius, given.margin, given.buildings, given.ground)
    <3>1. "tileset" \in DOMAIN Questions /\ given \in Questions["tileset"]
      BY <2>1 DEF QuestionInv, Asked
    <3>2. /\ given.center \in Int \X Int /\ given.radius \in Nat /\ given.margin \in Nat
          /\ given.ground.low \in Int /\ given.ground.high \in Int
          /\ IsFiniteSet(given.buildings)
          /\ \A b \in given.buildings : b.centroid \in Int \X Int /\ b.base \in Int /\ b.height \in Int
      BY <3>1, TilesAssumption DEF QuestionsOf
    <3> QED
      BY <3>2, TilesetIsAlwaysComplete
  <2>2. ASSUME Asked("seam")
        PROVE  SeamsMatch(<<0, 0>>, given.neighbour, given.ring, given.other, given.raster)
    <3>1. "seam" \in DOMAIN Questions /\ given \in Questions["seam"]
      BY <2>2 DEF QuestionInv, Asked
    <3>2. given.neighbour \in Int \X Int /\ given.ring \in Rings /\ given.other \in Rings
      BY <3>1, TilesAssumption DEF QuestionsOf
    <3> QED
      BY <3>2, SeamsAlwaysMatch
  <2> QED
    BY <2>1, <2>2 DEF TilesFit
<1> QED
  BY <1>1, QuestionsAlways, PTL
-----------------------------------------------------------------------------
\* Wherever the sources of relief end, every cell of one has a height between those of its
\* sources, the best one is seen away from its border, if it has one on the grid, and a height
\* survives its coding: for any sources, any transition and whatever SciPy says of the
\* distance to nothing.  Of a best source that covers the whole grid this is false
\* (BestSourceIsSeen).
THEOREM ReliefIsAlwaysSound == RulesSpec => []ReliefIsSound
<1>1. QuestionInv => ReliefIsSound
  <2> SUFFICES ASSUME QuestionInv PROVE ReliefIsSound
    OBVIOUS
  <2>1. ASSUME Asked("merge")
        PROVE  MergeIsSound(Indexed(given.sources), GetDem(Indexed(given.sources), given.phantom))
    <3> DEFINE rows == Indexed(given.sources)
    <3>1. "merge" \in DOMAIN Questions /\ given \in Questions["merge"]
      BY <2>1 DEF QuestionInv, Asked
    <3>2. given.sources \in Seq(Int \X (SUBSET Cells) \X Int) /\ given.phantom \in Nat
      BY <3>1, ReliefAssumption DEF QuestionsOf
    <3>3. PICK N \in Nat : DOMAIN given.sources = 1..N
      BY <3>2, SMTT(30)
    <3>4. ASSUME NEW i \in 1..N PROVE IsRow(rows[i])
      <4>1. given.sources[i] \in Int \X (SUBSET Cells) \X Int
        BY <3>2, <3>3
      <4>2. rows[i] = Coverage(given.sources[i])
        BY <3>3 DEF Indexed
      <4> DEFINE e == given.sources[i]
      <4>3. e[1] \in Int /\ e[2] \subseteq Cells /\ e[3] \in Int
        BY <4>1
      <4>4. rows[i] = [priority |-> e[1], valid |-> e[2], height |-> [c \in e[2] |-> e[3]]]
        BY <4>2 DEF Coverage
      <4> HIDE DEF e, rows
      <4> QED
        BY <4>3, <4>4 DEF IsRow
    <3>5. DOMAIN rows = 1..N
      BY <3>3 DEF Indexed
    <3> HIDE DEF rows
    <3>6. MergeIsSound(rows, GetDem(rows, given.phantom))
      BY <3>2, <3>4, <3>5, MergeIsAlwaysSound
    <3> QED
      BY <3>6 DEF rows
  <2>2. ASSUME Asked("coding") PROVE CodingIsFaithful(given.height)
    <3>1. "coding" \in DOMAIN Questions /\ given \in Questions["coding"]
      BY <2>2 DEF QuestionInv, Asked
    <3>2. given.height \in Int
      BY <3>1, ReliefAssumption DEF QuestionsOf
    <3> QED
      BY <3>2, CodingIsAlwaysFaithful
  <2> QED
    BY <2>1, <2>2 DEF ReliefIsSound
<1> QED
  BY <1>1, QuestionsAlways, PTL
-----------------------------------------------------------------------------
(* The data of a site (OsmData).                                           *)

\* OsmData has the operators of the library under names of its own.
LEMMA SameCount == \A S : Osm!Cardinality(S) = Cardinality(S)
BY DEF Osm!Cardinality, Cardinality

\* Selecting by the envelope and then by the circle loses no feature of the circle.
LEMMA SelectionIsAlwaysWhole ==
  ASSUME NEW raw, NEW radius \in Int,
         \A f \in raw : f.far \in Int /\ f.near \in Int /\ f.far <= f.near + Osm!DEFAULT_MARGIN
  PROVE  Osm!SelectionIsWhole(raw, radius)
<1>1. \A f \in raw : f.near <= radius => f.far <= radius + Osm!DEFAULT_MARGIN
  BY DEF Osm!DEFAULT_MARGIN
<1>2. {g \in Osm!FetchFeatures(raw, radius) : Osm!Clipped(g, radius)} = {g \in raw : g.near <= radius}
  BY <1>1 DEF Osm!FetchFeatures, Osm!Clipped
<1> QED
  BY <1>2 DEF Osm!SelectionIsWhole, Osm!SelectSiteData

\* What is said to be a fact is what the tag gives.
LEMMA TagsAreAlwaysHonest ==
  ASSUME NEW text, NEW number \in Int
  PROVE  Osm!TagsAreHonest(text, number)
<1> DEFINE known == text # ""
           some == number > 0
<1>1. some => (1000 * number) \div 1000 = number /\ 1000 * number > 0
  OBVIOUS
<1>2. some => Osm!NormalizePower(1000 * number) = Osm!Fact(number, 0, TRUE)
  BY <1>1 DEF Osm!NormalizePower, Osm!Fact
<1>3. /\ Osm!NormalizeBuilding(text, number).type = Osm!Fact(text, "yes", known)
      /\ Osm!NormalizeBuilding(text, number).levels = Osm!Fact(number, 1, some)
      /\ Osm!NormalizeEntrance(text) = Osm!Fact(text, "yes", known)
      /\ Osm!NormalizeRoad(text, text, number).class = Osm!Fact(text, "unclassified", known)
      /\ Osm!NormalizeRoad(text, text, number).lanes = Osm!Fact(number, 0, some)
  BY DEF Osm!NormalizeBuilding, Osm!NormalizeEntrance, Osm!NormalizeRoad
<1>4. \A value, default : known => Osm!Fact(value, default, known) = [value |-> value, confidence |-> "fact"]
  BY DEF Osm!Fact
<1>5. \A value, default : ~known => Osm!Fact(value, default, known) = [value |-> default, confidence |-> "default"]
  BY DEF Osm!Fact
<1>6. \A value, default : some => Osm!Fact(value, default, some) = [value |-> value, confidence |-> "fact"]
  BY DEF Osm!Fact
<1>7. \A value, default : ~some => Osm!Fact(value, default, some) = [value |-> default, confidence |-> "default"]
  BY DEF Osm!Fact
<1> DEFINE type == Osm!NormalizeBuilding(text, number).type
           levels == Osm!NormalizeBuilding(text, number).levels
           entrance == Osm!NormalizeEntrance(text)
           class == Osm!NormalizeRoad(text, text, number).class
           lanes == Osm!NormalizeRoad(text, text, number).lanes
<1> SUFFICES /\ (type.confidence = "fact" <=> known) /\ (known => type.value = text)
             /\ (levels.confidence = "fact" <=> some) /\ (some => levels.value = number)
             /\ levels.value > 0
             /\ (entrance.confidence = "fact" <=> known) /\ (known => entrance.value = text)
             /\ (class.confidence = "fact" <=> known) /\ (known => class.value = text)
             /\ (lanes.confidence = "fact" <=> some) /\ (some => lanes.value = number)
  BY <1>2 DEF Osm!TagsAreHonest
<1> HIDE DEF type, levels, entrance, class, lanes
<1>8. type = Osm!Fact(text, "yes", known) /\ entrance = type /\ class = Osm!Fact(text, "unclassified", known)
  BY <1>3 DEF type, entrance, class
<1>9. levels = Osm!Fact(number, 1, some) /\ lanes = Osm!Fact(number, 0, some)
  BY <1>3 DEF levels, lanes
<1> HIDE DEF known, some
<1>10. /\ (type.confidence = "fact" <=> known) /\ (known => type.value = text)
       /\ (entrance.confidence = "fact" <=> known) /\ (known => entrance.value = text)
       /\ (class.confidence = "fact" <=> known) /\ (known => class.value = text)
  <2>1. CASE known
    <3>1. type = [value |-> text, confidence |-> "fact"] /\ entrance = type /\ class = type
      BY <1>4, <1>8, <2>1
    <3> QED
      BY <2>1, <3>1
  <2>2. CASE ~known
    BY <1>5, <1>8, <2>2
  <2> QED
    BY <2>1, <2>2
<1>11. /\ (levels.confidence = "fact" <=> some) /\ (some => levels.value = number)
       /\ (~some => levels.value = 1)
       /\ (lanes.confidence = "fact" <=> some) /\ (some => lanes.value = number)
  <2>1. CASE some
    <3>1. levels = [value |-> number, confidence |-> "fact"] /\ lanes = levels
      BY <1>6, <1>9, <2>1
    <3> QED
      BY <2>1, <3>1
  <2>2. CASE ~some
    BY <1>7, <1>9, <2>2
  <2> QED
    BY <2>1, <2>2
<1>12. levels.value > 0
  BY <1>11 DEF some
<1> QED
  BY <1>10, <1>11, <1>12

\* The projection zone of a site is the one whose meridian is nearest.
LEMMA ZoneIsAlwaysNearest ==
  ASSUME NEW lon \in Int
  PROVE  Osm!ZoneIsNearest(lon)
<1> DEFINE a == Osm!Apart(lon, 5355)
           b == Osm!Apart(lon, 5655)
           c == Osm!Apart(lon, 5955)
           First(z) == \A y \in 1..3 :
                         \/ Osm!Apart(lon, Osm!MSK59_LON0[z]) < Osm!Apart(lon, Osm!MSK59_LON0[y])
                         \/ Osm!Apart(lon, Osm!MSK59_LON0[z]) = Osm!Apart(lon, Osm!MSK59_LON0[y]) /\ z <= y
           nearest == CHOOSE z \in 1..3 : First(z)
           zone == Osm!PickMsk59Zone(lon)
           at(z) == Osm!Apart(lon, Osm!MSK59_LON0[z])
<1>1. at(1) = a /\ at(2) = b /\ at(3) = c
  BY DEF Osm!MSK59_LON0
<1>2. /\ First(1) <=> a <= b /\ a <= c
      /\ First(2) <=> b < a /\ b <= c
      /\ First(3) <=> c < a /\ c < b
  BY <1>1 DEF Osm!Apart
<1>3. 1..3 = {1, 2, 3}
  OBVIOUS
<1>4. zone = IF at(nearest) > 200 THEN 0 ELSE nearest
  BY DEF Osm!PickMsk59Zone
<1>5. \E z \in 1..3 : First(z)
  BY <1>2, <1>3 DEF Osm!Apart
<1> HIDE DEF First
<1>6. nearest \in 1..3 /\ First(nearest)
  BY <1>5
<1> HIDE DEF nearest
<1>7. \/ nearest = 1 /\ a <= b /\ a <= c /\ at(nearest) = a
      \/ nearest = 2 /\ b < a /\ b <= c /\ at(nearest) = b
      \/ nearest = 3 /\ c < a /\ c < b /\ at(nearest) = c
  BY <1>1, <1>2, <1>3, <1>6
<1>8. \A z \in 1..3 : at(z) < 150 => zone = z
  BY <1>1, <1>3, <1>4, <1>7 DEF Osm!Apart
<1>9. zone = 0 <=> lon < 5155 \/ lon > 6155
  BY <1>4, <1>7 DEF Osm!Apart
<1> QED
  BY <1>8, <1>9 DEF Osm!ZoneIsNearest

\* The log keeps the newest entry of each source.
LEMMA LogAlwaysKeepsNewest ==
  ASSUME NEW log \in Seq([source : STRING, timestamp : Int])
  PROVE  Osm!LogKeepsNewest(log)
<1> DEFINE n == Len(log)
<1>0. n \in Nat /\ DOMAIN log = 1..n /\ \A i \in 1..n : log[i].timestamp \in Int
  <2> DEFINE E == [source : STRING, timestamp : Int]
  <2>0. log \in Seq(E)
    OBVIOUS
  <2>2. \A r \in E : r.timestamp \in Int
    OBVIOUS
  <2> HIDE DEF E
  <2>1. n \in Nat /\ DOMAIN log = 1..n /\ \A i \in 1..n : log[i] \in E
    BY <2>0
  <2> QED
    BY <2>1, <2>2
<1> HIDE DEF n
<1> SUFFICES ASSUME NEW i \in 1..n
             PROVE  /\ Osm!LatestImport(log, log[i].source) >= log[i].timestamp
                    /\ Cardinality({r \in Osm!AllLatestSources(log) : r.source = log[i].source}) = 1
  BY <1>0, SameCount DEF Osm!LogKeepsNewest
<1> DEFINE s == log[i].source
           rows == {j \in DOMAIN log : log[j].source = s}
           times == {log[j].timestamp : j \in rows}
           newest == {j \in rows : \A k \in rows : log[k].timestamp <= log[j].timestamp}
<1>1. i \in rows /\ rows \in SUBSET (1..n)
  BY <1>0
<1>2. IsFiniteSet(rows)
  BY <1>0, <1>1, FS_Interval, FS_Subset
<1>3. IsFiniteSet(times) /\ times \subseteq Int /\ times # {}
  <2> DEFINE f == [j \in rows |-> log[j].timestamp]
  <2>1. times = {f[j] : j \in rows}
    OBVIOUS
  <2>2. times \subseteq Int /\ times # {}
    BY <1>0, <1>1
  <2> HIDE DEF rows, f, times
  <2> QED
    BY <1>2, <2>1, <2>2, FiniteImage
<1>4. \E j \in newest : TRUE
  <2>1. \E t \in times : \A u \in times : t >= u
    <3> HIDE DEF times
    <3> QED
      BY <1>3, FiniteBounds
  <2>2. PICK j \in rows : \A k \in rows : log[j].timestamp >= log[k].timestamp
    BY <2>1
  <2>3. \A k \in rows : log[k].timestamp <= log[j].timestamp
    BY <1>0, <1>1, <2>2
  <2> QED
    BY <2>3
<1>5. Osm!LatestImport(log, s) >= log[i].timestamp
  <2> DEFINE j == CHOOSE j \in newest : TRUE
  <2>1. j \in newest
    BY <1>4
  <2>2. Osm!LatestImport(log, s) = log[j].timestamp
    BY <1>0, <1>1 DEF Osm!LatestImport
  <2> HIDE DEF j
  <2>3. log[i].timestamp <= log[j].timestamp /\ log[j].timestamp \in Int
    BY <1>0, <1>1, <2>1
  <2> QED
    BY <2>2, <2>3
<1>6. {r \in Osm!AllLatestSources(log) : r.source = s} = {[source |-> s, timestamp |-> Osm!LatestImport(log, s)]}
  BY <1>0 DEF Osm!AllLatestSources
<1> QED
  BY <1>5, <1>6, FS_Singleton

\* Each node that a way names is there, and none that no way names.
LEMMA CrossingsAreAlwaysKept ==
  ASSUME NEW roads, \A i, j \in DOMAIN roads : roads[i].id = roads[j].id => i = j
  PROVE  Osm!CrossingsAreKept(roads)
<1> DEFINE Good == {j \in DOMAIN roads : Osm!Consistent(roads[j])}
           all == UNION {Osm!Range(roads[i].nodes) : i \in Good}
<1>1. DOMAIN Osm!Nodes(roads) = all
  BY DEF Osm!Nodes
<1>2. \A i \in DOMAIN roads : roads[i].id \in Osm!Ways(roads) <=> i \in Good
  BY DEF Osm!Ways
<1> HIDE DEF Good
<1>3. Good \subseteq DOMAIN roads
  BY DEF Good
<1> QED
  BY <1>1, <1>2, <1>3 DEF Osm!CrossingsAreKept, Good

\* More complete elements never get a layer a worse decision.
LEMMA DecisionsAlwaysGrow ==
  ASSUME NEW elements, IsFiniteSet(elements), NEW few, NEW many
  PROVE  Osm!DecisionsGrow(elements, few, many)
<1> DEFINE scoped == {e \in elements : e.inside}
           less == Osm!LayerCompleteness(elements, few)
           more == Osm!LayerCompleteness(elements, many)
           t == Cardinality(scoped)
           x == Cardinality(scoped \cap few)
           y == Cardinality(scoped \cap many)
<1>1. less = [total |-> t, complete |-> x] /\ more = [total |-> t, complete |-> y]
  BY SameCount DEF Osm!LayerCompleteness
<1>2. IsFiniteSet(scoped)
  BY FS_Subset
<1>3. t \in Nat /\ x \in Nat /\ y \in Nat /\ x <= t /\ y <= t
  <2>1. scoped \cap few \in SUBSET scoped /\ scoped \cap many \in SUBSET scoped
    OBVIOUS
  <2> HIDE DEF scoped
  <2> QED
    BY <1>2, <2>1, FS_Subset, FS_CardinalityType
<1> HIDE DEF less, more, t, x, y
<1>4. x <= y => Osm!Worth(Osm!Decision(less)) <= Osm!Worth(Osm!Decision(more))
  BY <1>1, <1>3 DEF Osm!Worth, Osm!Decision
<1>5. Osm!Missing(y, t) = t - y
  <2>1. t - y \in Nat
    BY <1>3
  <2>2. Osm!Missing(y, t) = Max({t - y, 0})
    BY DEF Osm!Missing, Osm!Max, Max
  <2>3. Max({t - y, 0}) = t - y
    <3>1. \A y1 \in {t - y, 0} : t - y >= y1
      BY <2>1
    <3>2. \A m \in {t - y, 0} : (\A z \in {t - y, 0} : m >= z) => m = t - y
      BY <2>1
    <3> QED
      BY <3>1, <3>2 DEF Max
  <2> QED
    BY <2>2, <2>3
<1> QED
  BY <1>1, <1>4, <1>5 DEF Osm!DecisionsGrow, less, more
-----------------------------------------------------------------------------
(* The calibration of heights (OsmData).                                   *)

\* A sum of sums.
Mixes(z, u, v, w, a, b, c, S) == \A i \in S : z[i] = a * u[i] + b * v[i] + c * w[i]

\* A mix of three sums is the sum of the mixed terms.
LEMMA SumLinear ==
  ASSUME NEW S, IsFiniteSet(S), NEW u, NEW v, NEW w, NEW z, Whole(u, S), Whole(v, S), Whole(w, S), Whole(z, S),
         NEW a \in Int, NEW b \in Int, NEW c \in Int,
         Mixes(z, u, v, w, a, b, c, S)
  PROVE  SumOf(z, S) = a * SumOf(u, S) + b * SumOf(v, S) + c * SumOf(w, S)
<1> USE DEF Whole
<1> DEFINE Good == {T \in SUBSET S : SumOf(z, T) = a * SumOf(u, T) + b * SumOf(v, T) + c * SumOf(w, T)}
<1>1. {} \in Good
  <2>1. SumOf(u, {}) = 0 /\ SumOf(v, {}) = 0 /\ SumOf(w, {}) = 0 /\ SumOf(z, {}) = 0
    BY SumEmpty
  <2> QED
    BY <2>1
<1>2. ASSUME NEW T \in SUBSET S, T # {}, \A x \in T : T \ {x} \in Good PROVE T \in Good
  <2>1. PICK x \in T : TRUE
    BY <1>2
  <2> DEFINE R == T \ {x}
             u1 == SumOf(u, R)
             v1 == SumOf(v, R)
             w1 == SumOf(w, R)
  <2>2. IsFiniteSet(T) /\ IsFiniteSet(R)
    BY FS_Subset
  <2>3. /\ SumOf(u, T) = u[x] + u1 /\ SumOf(v, T) = v[x] + v1 /\ SumOf(w, T) = w[x] + w1
        /\ SumOf(z, T) = z[x] + SumOf(z, R)
    BY <2>2, SumTakes
  <2>4. u1 \in Int /\ v1 \in Int /\ w1 \in Int
    BY <2>2, SumTakes
  <2>5. u[x] \in Int /\ v[x] \in Int /\ w[x] \in Int /\ z[x] = a * u[x] + b * v[x] + c * w[x]
    BY <2>1 DEF Mixes
  <2>6. SumOf(z, R) = a * u1 + b * v1 + c * w1
    BY <1>2
  <2> HIDE DEF u1, v1, w1, R
  <2>7. a * u[x] + b * v[x] + c * w[x] + (a * u1 + b * v1 + c * w1)
          = a * (u[x] + u1) + b * (v[x] + v1) + c * (w[x] + w1)
    BY <2>4, <2>5
  <2> QED
    BY <2>3, <2>5, <2>6, <2>7
<1> HIDE DEF Good
<1>3. \A T \in SUBSET S : T \in Good
  BY <1>1, <1>2, SubsetInduction
<1> QED
  BY <1>3 DEF Good

\* A sum of ones counts.
LEMMA SumOfOnes ==
  ASSUME NEW S, IsFiniteSet(S), NEW w, \A i \in S : w[i] = 1
  PROVE  SumOf(w, S) = Cardinality(S)
<1>0. Whole(w, S)
  BY DEF Whole
<1> DEFINE Good == {T \in SUBSET S : SumOf(w, T) = Cardinality(T)}
<1>1. {} \in Good
  BY SumEmpty, FS_EmptySet
<1>2. ASSUME NEW T \in SUBSET S, T # {}, \A x \in T : T \ {x} \in Good PROVE T \in Good
  <2>1. PICK x \in T : TRUE
    BY <1>2
  <2>2. IsFiniteSet(T) /\ Whole(w, T)
    BY <1>0, FS_Subset DEF Whole
  <2>3. SumOf(w, T) = w[x] + SumOf(w, T \ {x})
    BY <2>2, SumTakes
  <2>4. Cardinality(T \ {x}) = Cardinality(T) - 1 /\ Cardinality(T) \in Nat
    BY <2>1, <2>2, FS_RemoveElement, FS_CardinalityType
  <2>5. SumOf(w, T \ {x}) = Cardinality(T \ {x}) /\ w[x] = 1
    BY <1>2
  <2> QED
    BY <2>3, <2>4, <2>5
<1> HIDE DEF Good
<1>3. \A T \in SUBSET S : T \in Good
  BY <1>1, <1>2, SubsetInduction
<1> QED
  BY <1>3 DEF Good

\* The sums of the normal equations are sums over the places of the points.
LEMMA SumOverIs ==
  ASSUME NEW points, NEW v, NEW w
  PROVE  Osm!SumOver(points, v, w)
           = SumOf([i \in DOMAIN points |-> (IF v = "n" THEN 1 ELSE points[i][v]) * (IF w = "n" THEN 1 ELSE points[i][w])],
                   DOMAIN points)
BY DEF Osm!SumOver, Osm!FoldFunction, Osm!FoldFunctionOnSet, Osm!MapThenFoldSet, SumOf, FoldSet, MapThenFoldSet

\* Cramer's rule for a right side that is a sum of the columns.
LEMMA Cramer ==
  ASSUME NEW xx \in Int, NEW xy \in Int, NEW x \in Int, NEW yy \in Int, NEW y \in Int, NEW n \in Int,
         NEW a \in Int, NEW b \in Int, NEW c \in Int
  PROVE  LET d1 == a * xx + b * xy + c * x
             d2 == a * xy + b * yy + c * y
             d3 == a * x + b * y + c * n
             det == xx * (yy * n - y * y) - xy * (xy * n - y * x) + x * (xy * y - yy * x)
         IN /\ d1 * (yy * n - y * y) - xy * (d2 * n - y * d3) + x * (d2 * y - yy * d3) = a * det
            /\ xx * (d2 * n - y * d3) - d1 * (xy * n - y * x) + x * (xy * d3 - d2 * x) = b * det
            /\ xx * (yy * d3 - d2 * y) - xy * (xy * d3 - d2 * x) + d1 * (xy * y - yy * x) = c * det
OBVIOUS

\* The points of a calibration, and the sum of two of their attributes.
IsPoint(p) == p.x \in Int /\ p.y \in Int /\ p.d \in Int

Points(points) == IsFiniteSet(DOMAIN points) /\ \A i \in DOMAIN points : IsPoint(points[i])

InPlane(points, a, b, c) == \A i \in DOMAIN points : points[i].d = a * points[i].x + b * points[i].y + c

\* The right side of the normal equations of points of one plane, by the sums of their left side.
LEMMA PlaneSums ==
  ASSUME NEW points, Points(points),
         NEW a \in Int, NEW b \in Int, NEW c \in Int, InPlane(points, a, b, c),
         NEW v \in {"x", "y", "n"}
  PROVE  /\ Osm!SumOver(points, v, "x") \in Int /\ Osm!SumOver(points, v, "y") \in Int
         /\ Osm!SumOver(points, v, "n") \in Int
         /\ Osm!SumOver(points, v, "d")
              = a * Osm!SumOver(points, v, "x") + b * Osm!SumOver(points, v, "y") + c * Osm!SumOver(points, v, "n")
<1> DEFINE S == DOMAIN points
           Value(i) == IF v = "n" THEN 1 ELSE points[i][v]
           x == [i \in S |-> Value(i) * points[i].x]
           y == [i \in S |-> Value(i) * points[i].y]
           n == [i \in S |-> Value(i)]
           d == [i \in S |-> Value(i) * points[i].d]
<1>1. \A i \in S : Value(i) \in Int /\ points[i].x \in Int /\ points[i].y \in Int /\ points[i].d \in Int
  BY DEF Points, IsPoint
<1>2. \A i \in S : points[i].d = a * points[i].x + b * points[i].y + c
  BY DEF InPlane
<1>3. /\ Osm!SumOver(points, v, "x") = SumOf(x, S)
      /\ Osm!SumOver(points, v, "y") = SumOf(y, S)
      /\ Osm!SumOver(points, v, "d") = SumOf(d, S)
  BY SumOverIs
<1>4. Osm!SumOver(points, v, "n") = SumOf(n, S)
  <2> DEFINE m == [i \in S |-> Value(i) * 1]
  <2>1. Osm!SumOver(points, v, "n") = SumOf(m, S)
    BY SumOverIs
  <2>2. m = n
    BY <1>1
  <2> QED
    BY <2>1, <2>2
<1> HIDE DEF Value
<1>5. Whole(x, S) /\ Whole(y, S) /\ Whole(n, S) /\ Whole(d, S)
  BY <1>1 DEF Whole
<1>6. Mixes(d, x, y, n, a, b, c, S)
  <2> SUFFICES ASSUME NEW i \in S PROVE d[i] = a * x[i] + b * y[i] + c * n[i]
    BY DEF Mixes
  <2> DEFINE k == Value(i)
             px == points[i].x
             py == points[i].y
  <2>1. d[i] = k * (a * px + b * py + c) /\ x[i] = k * px /\ y[i] = k * py /\ n[i] = k
    BY <1>2
  <2>2. k \in Int /\ px \in Int /\ py \in Int
    BY <1>1
  <2> HIDE DEF k, px, py, x, y, n, d
  <2>3. k * (a * px + b * py + c) = a * (k * px) + b * (k * py) + c * k
    BY <2>2
  <2> QED
    BY <2>1, <2>3
<1> HIDE DEF x, y, n, d
<1>7. SumOf(d, S) = a * SumOf(x, S) + b * SumOf(y, S) + c * SumOf(n, S)
  <2> HIDE DEF S
  <2>1. IsFiniteSet(S)
    BY DEF S, Points
  <2> QED
    BY <1>5, <1>6, <2>1, SumLinear
<1>8. SumOf(x, S) \in Int /\ SumOf(y, S) \in Int /\ SumOf(n, S) \in Int
  BY <1>5, SumTakes DEF Points
<1> QED
  BY <1>3, <1>4, <1>7, <1>8

\* Their matrix is symmetric.
LEMMA SumsAreSymmetric ==
  ASSUME NEW points, \A i \in DOMAIN points : IsPoint(points[i])
  PROVE  /\ Osm!SumOver(points, "x", "y") = Osm!SumOver(points, "y", "x")
         /\ Osm!SumOver(points, "x", "n") = Osm!SumOver(points, "n", "x")
         /\ Osm!SumOver(points, "y", "n") = Osm!SumOver(points, "n", "y")
<1> DEFINE S == DOMAIN points
<1>1. \A i \in S : points[i].x \in Int /\ points[i].y \in Int
  BY DEF IsPoint
<1>2. [i \in S |-> points[i].x * points[i].y] = [i \in S |-> points[i].y * points[i].x]
  BY <1>1
<1>3. [i \in S |-> points[i].x * 1] = [i \in S |-> 1 * points[i].x]
  BY <1>1
<1>4. [i \in S |-> points[i].y * 1] = [i \in S |-> 1 * points[i].y]
  BY <1>1
<1>5. Osm!SumOver(points, "x", "y") = Osm!SumOver(points, "y", "x")
  <2>1. Osm!SumOver(points, "x", "y") = SumOf([i \in S |-> points[i].x * points[i].y], S)
    BY SumOverIs
  <2>2. Osm!SumOver(points, "y", "x") = SumOf([i \in S |-> points[i].y * points[i].x], S)
    BY SumOverIs
  <2> QED
    BY <1>2, <2>1, <2>2
<1>6. Osm!SumOver(points, "x", "n") = Osm!SumOver(points, "n", "x")
  <2>1. Osm!SumOver(points, "x", "n") = SumOf([i \in S |-> points[i].x * 1], S)
    BY SumOverIs
  <2>2. Osm!SumOver(points, "n", "x") = SumOf([i \in S |-> 1 * points[i].x], S)
    BY SumOverIs
  <2> QED
    BY <1>3, <2>1, <2>2
<1>7. Osm!SumOver(points, "y", "n") = Osm!SumOver(points, "n", "y")
  <2>1. Osm!SumOver(points, "y", "n") = SumOf([i \in S |-> points[i].y * 1], S)
    BY SumOverIs
  <2>2. Osm!SumOver(points, "n", "y") = SumOf([i \in S |-> 1 * points[i].y], S)
    BY SumOverIs
  <2> QED
    BY <1>4, <2>1, <2>2
<1> QED
  BY <1>5, <1>6, <1>7

\* The plane that is fitted to points of a plane is that plane.
LEMMA PlaneIsAlwaysRecovered ==
  ASSUME NEW places \in Seq(Int \X Int), NEW a \in Int, NEW b \in Int, NEW c \in Int
  PROVE  Osm!PlaneIsRecovered(places, a, b, c)
<1> DEFINE S == DOMAIN places
           points == [i \in DOMAIN places |->
                        [x |-> places[i][1] - places[1][1], y |-> places[i][2] - places[1][2],
                         d |-> a * (places[i][1] - places[1][1]) + b * (places[i][2] - places[1][2]) + c]]
           model == Osm!FitHeightOffset(points)
<1> SUFFICES ASSUME model.whole # 0, Len(places) >= 3 \/ (a = 0 /\ b = 0), NEW i \in S
             PROVE  Osm!Applied(model, points[i]) = model.whole * points[i].d
  BY DEF Osm!PlaneIsRecovered
<1>1. S = 1..Len(places) /\ DOMAIN points = S /\ Len(places) \in Nat /\ 1 \in S
  <2>1. S = 1..Len(places) /\ Len(places) \in Nat
    OBVIOUS
  <2> QED
    BY <2>1
<1>2. \A j \in S : IsPoint(points[j]) /\ points[j].d = a * points[j].x + b * points[j].y + c
  <2> SUFFICES ASSUME NEW j \in S
               PROVE  IsPoint(points[j]) /\ points[j].d = a * points[j].x + b * points[j].y + c
    OBVIOUS
  <2>1. places[j] \in Int \X Int /\ places[1] \in Int \X Int
    BY <1>1
  <2>2. places[j][1] \in Int /\ places[j][2] \in Int /\ places[1][1] \in Int /\ places[1][2] \in Int
    BY <2>1
  <2> DEFINE u == places[j][1] - places[1][1]
             v == places[j][2] - places[1][2]
  <2>3. points[j] = [x |-> u, y |-> v, d |-> a * u + b * v + c]
    OBVIOUS
  <2> HIDE DEF points
  <2>4. u \in Int /\ v \in Int
    BY <2>2, SMTT(30)
  <2> HIDE DEF u, v
  <2>5. points[j].x = u /\ points[j].y = v /\ points[j].d = a * u + b * v + c
    BY <2>3
  <2> QED
    BY <2>4, <2>5 DEF IsPoint
<1> HIDE DEF points
<1>3. Len(points) = Len(places)
  <2>1. points = [j \in 1..Len(places) |-> points[j]]
    BY <1>1 DEF points
  <2> DEFINE P == {points[j] : j \in 1..Len(places)}
  <2>2. points \in Seq(P)
    BY <1>1, <2>1
  <2> QED
    BY <1>1, <2>2
<1>4. IsFiniteSet(DOMAIN points) /\ InPlane(points, a, b, c)
  <2>1. IsFiniteSet(1..Len(places))
    BY <1>1, FS_Interval
  <2> QED
    BY <1>1, <1>2, <2>1 DEF InPlane
<1> DEFINE xx == Osm!SumOver(points, "x", "x")
           xy == Osm!SumOver(points, "x", "y")
           x == Osm!SumOver(points, "x", "n")
           yy == Osm!SumOver(points, "y", "y")
           y == Osm!SumOver(points, "y", "n")
           n == Osm!SumOver(points, "n", "n")
           d1 == Osm!SumOver(points, "x", "d")
           d2 == Osm!SumOver(points, "y", "d")
           d3 == Osm!SumOver(points, "n", "d")
<1>5. Points(points) /\ \A j \in DOMAIN points : IsPoint(points[j])
  BY <1>1, <1>2, <1>4 DEF Points
<1>6. /\ xx \in Int /\ xy \in Int /\ x \in Int /\ yy \in Int /\ y \in Int /\ n \in Int
      /\ d1 = a * xx + b * xy + c * x
      /\ d2 = a * xy + b * yy + c * y
      /\ d3 = a * x + b * y + c * n
  <2>1. xx \in Int /\ xy \in Int /\ x \in Int /\ d1 = a * xx + b * xy + c * x
    BY <1>4, <1>5, PlaneSums
  <2>2. yy \in Int /\ y \in Int /\ d2 = a * Osm!SumOver(points, "y", "x") + b * yy + c * y
    BY <1>4, <1>5, PlaneSums
  <2>3. n \in Int /\ d3 = a * Osm!SumOver(points, "n", "x") + b * Osm!SumOver(points, "n", "y") + c * n
    <3>1. "n" \in {"x", "y", "n"}
      OBVIOUS
    <3> QED
      BY <1>4, <1>5, <3>1, PlaneSums
  <2> QED
    BY <1>5, <2>1, <2>2, <2>3, SumsAreSymmetric
<1>7. points[i].x \in Int /\ points[i].y \in Int /\ points[i].d = a * points[i].x + b * points[i].y + c
  BY <1>2 DEF IsPoint
<1>8. CASE Len(places) < 3
  <2>1. a = 0 /\ b = 0
    BY <1>1, <1>8
  <2>2. model.x[1] = 0 /\ model.x[2] = 0 /\ model.x[3] = d3 /\ model.whole = Len(points)
    BY <1>3, <1>8 DEF Osm!FitHeightOffset
  <2>3. n = Len(points)
    <3> DEFINE ones == [j \in DOMAIN points |-> 1 * 1]
    <3>1. n = SumOf(ones, DOMAIN points)
      BY SumOverIs
    <3>2. \A j \in DOMAIN points : ones[j] = 1
      OBVIOUS
    <3> HIDE DEF ones
    <3>3. n = Cardinality(DOMAIN points)
      BY <1>4, <3>1, <3>2, SumOfOnes
    <3>4. Cardinality(1..Len(places)) = Len(places)
      BY <1>1, FS_Interval
    <3> QED
      BY <1>1, <1>3, <3>3, <3>4
  <2>4. d3 = c * n /\ points[i].d = c
    <3>1. d3 = 0 * x + 0 * y + c * n /\ points[i].d = 0 * points[i].x + 0 * points[i].y + c
      BY <1>6, <1>7, <2>1
    <3> HIDE DEF x, y, n, d3
    <3>2. c * n \in Int /\ x \in Int /\ y \in Int /\ points[i].x \in Int /\ points[i].y \in Int
      <4>1. n \in Int /\ x \in Int /\ y \in Int
        BY <1>6
      <4>2. points[i].x \in Int /\ points[i].y \in Int
        BY <1>7
      <4> QED
        BY <4>1, <4>2
    <3>3. d3 = c * n
      BY <3>1, <3>2
    <3>4. points[i].d = c
      <4> DEFINE px == points[i].x
                 py == points[i].y
      <4>1. points[i].d = 0 * px + 0 * py + c
        BY <3>1
      <4>2. px \in Int /\ py \in Int
        BY <3>2
      <4> HIDE DEF px, py
      <4> QED
        BY <4>1, <4>2
    <3> QED
      BY <3>3, <3>4
  <2>5. Osm!Applied(model, points[i]) = d3
    <3>1. Osm!Applied(model, points[i]) = 0 * points[i].x + 0 * points[i].y + d3
      BY <2>2 DEF Osm!Applied
    <3> HIDE DEF xx, xy, x, yy, y, n, d1, d2, d3, model
    <3>2. d3 \in Int
      BY <1>6
    <3>3. points[i].x \in Int /\ points[i].y \in Int
      BY <1>7
    <3> QED
      BY <3>1, <3>2, <3>3, SMTT(30)
  <2> HIDE DEF model, d3, n
  <2> QED
    BY <1>6, <2>2, <2>3, <2>4, <2>5
<1>9. CASE Len(places) >= 3
  <2> DEFINE det == xx * (yy * n - y * y) - xy * (xy * n - y * x) + x * (xy * y - yy * x)
  <2>1. /\ model.whole = det
        /\ model.x[1] = d1 * (yy * n - y * y) - xy * (d2 * n - y * d3) + x * (d2 * y - yy * d3)
        /\ model.x[2] = xx * (d2 * n - y * d3) - d1 * (xy * n - y * x) + x * (xy * d3 - d2 * x)
        /\ model.x[3] = xx * (yy * d3 - d2 * y) - xy * (xy * d3 - d2 * x) + d1 * (xy * y - yy * x)
    <3> DEFINE row == [k \in 1..3 |-> [j \in 1..3 |-> Osm!SumOver(points, <<"x", "y", "n">>[k], <<"x", "y", "n">>[j])]]
               right == [k \in 1..3 |-> Osm!SumOver(points, <<"x", "y", "n">>[k], "d")]
    <3>1. model = Osm!Solve3x3(row, right)
      BY <1>1, <1>3, <1>9 DEF Osm!FitHeightOffset
    <3>2. /\ row[1][1] = xx /\ row[1][2] = xy /\ row[1][3] = x
          /\ row[2][1] = xy /\ row[2][2] = yy /\ row[2][3] = y
          /\ row[3][1] = x /\ row[3][2] = y /\ row[3][3] = n
          /\ right[1] = d1 /\ right[2] = d2 /\ right[3] = d3
      BY <1>5, SumsAreSymmetric
    <3> HIDE DEF row, right, xx, xy, x, yy, y, n, d1, d2, d3, model
    <3>3. /\ model.whole = Osm!Det3(row) /\ model.x[1] = Osm!Det3(Osm!Column(row, right, 1))
          /\ model.x[2] = Osm!Det3(Osm!Column(row, right, 2)) /\ model.x[3] = Osm!Det3(Osm!Column(row, right, 3))
      BY <3>1 DEF Osm!Solve3x3
    <3>4. Osm!Det3(row) = det
      BY <3>2 DEF Osm!Det3
    <3>5. Osm!Det3(Osm!Column(row, right, 1)) = d1 * (yy * n - y * y) - xy * (d2 * n - y * d3) + x * (d2 * y - yy * d3)
      BY <3>2 DEF Osm!Det3, Osm!Column
    <3>6. Osm!Det3(Osm!Column(row, right, 2)) = xx * (d2 * n - y * d3) - d1 * (xy * n - y * x) + x * (xy * d3 - d2 * x)
      BY <3>2 DEF Osm!Det3, Osm!Column
    <3>7. Osm!Det3(Osm!Column(row, right, 3))
            = xx * (yy * d3 - d2 * y) - xy * (xy * d3 - d2 * x) + d1 * (xy * y - yy * x)
      BY <3>2, SMTT(30) DEF Osm!Det3, Osm!Column
    <3> QED
      BY <3>3, <3>4, <3>5, <3>6, <3>7
  <2>2. model.x[1] = a * model.whole /\ model.x[2] = b * model.whole /\ model.x[3] = c * model.whole
    <3> HIDE DEF model, xx, xy, x, yy, y, n, d1, d2, d3
    <3> QED
      BY <1>6, <2>1, Cramer
  <2>3. model.whole \in Int
    <3> HIDE DEF model, xx, xy, x, yy, y, n, d1, d2, d3
    <3> QED
      BY <1>6, <2>1
  <2> DEFINE w == model.whole
             px == points[i].x
             py == points[i].y
  <2>4. Osm!Applied(model, points[i]) = a * w * px + b * w * py + c * w /\ points[i].d = a * px + b * py + c
    BY <1>7, <2>2 DEF Osm!Applied
  <2>5. w \in Int /\ px \in Int /\ py \in Int
    BY <1>7, <2>3
  <2> HIDE DEF w, px, py
  <2>6. a * w * px + b * w * py + c * w = w * (a * px + b * py + c)
    BY <2>5
  <2> QED
    BY <2>4, <2>6 DEF w
<1> QED
  BY <1>1, <1>8, <1>9
-----------------------------------------------------------------------------
(* The parcels of a site (Cadastre).                                       *)

Parcels == [number : Nat, area : Nat, boundary : BOOLEAN]

Answered(answer) == answer = Cadastre!Failed \/ answer \in Seq(Parcels)

\* Cadastre has the operators of the library under names of its own.
LEMMA SameLast == \A S : Cadastre!Max(S) = Max(S)
BY DEF Cadastre!Max, Max

\* The parcels with a number, and a table with one row more.
LEMMA NumberedType ==
  ASSUME NEW answer \in Seq(Parcels)
  PROVE  Cadastre!Numbered(answer) \in Seq({p \in Parcels : p.number # 0})
<1> DEFINE n == Len(answer)
           S == 1..n
           V == Seq({p \in Parcels : p.number # 0})
           Kept(kept, p) == IF p.number = 0 THEN kept ELSE Append(kept, p)
           step == [k \in S |-> [v \in V |-> Kept(v, answer[k])]]
           Folds(f) == f = [s \in SUBSET S |-> IF s = {} THEN <<>> ELSE Kept(f[s \ {Max(s)}], answer[Max(s)])]
           f == CHOOSE f : Folds(f)
<1>1. n \in Nat /\ DOMAIN answer = S /\ \A k \in S : answer[k] \in Parcels
  OBVIOUS
<1>2. <<>> \in V
  OBVIOUS
<1>3. \A k \in S, v \in V : Kept(v, answer[k]) \in V
  <2> SUFFICES ASSUME NEW k \in S, NEW v \in V PROVE Kept(v, answer[k]) \in V
    OBVIOUS
  <2>1. answer[k].number # 0 => answer[k] \in {p \in Parcels : p.number # 0}
    BY <1>1
  <2> QED
    BY <2>1
<1>4. \A k \in S, v \in V : step[k][v] = Kept(v, answer[k])
  OBVIOUS
<1> HIDE DEF V, Kept, n
<1>5. StaysIn(step, S, V)
  BY <1>3, <1>4 DEF StaysIn
<1>6. Picks(LastOf(n), S) /\ IsFiniteSet(S) /\ \A s \in SUBSET S : LastOf(n)[s] = Max(s)
  BY <1>1, LastIn DEF LastOf
<1> HIDE DEF step
<1>7. \E g : Folds(g)
  <2>1. PICK g \in [SUBSET S -> V] : Iterates(g, <<>>, LastOf(n), step, S)
    BY <1>2, <1>5, <1>6, SetRecursion
  <2>2. ASSUME NEW s \in SUBSET S
        PROVE  g[s] = IF s = {} THEN <<>> ELSE Kept(g[s \ {Max(s)}], answer[Max(s)])
    <3>1. s # {} => Max(s) \in S /\ g[s \ {Max(s)}] \in V
      BY <1>6, <2>1 DEF Picks
    <3>2. g[s] = IF s = {} THEN <<>> ELSE step[Max(s)][g[s \ {Max(s)}]]
      BY <1>6, <2>1 DEF Iterates
    <3> QED
      BY <1>4, <3>1, <3>2
  <2> QED
    BY <2>1, <2>2
<1>8. Folds(f)
  BY <1>7
<1>9. Cadastre!Numbered(answer) = f[S]
  BY <1>1, SameLast DEF Cadastre!Numbered, Cadastre!FoldLeft, Cadastre!MapThenFoldSet, Kept
<1> HIDE DEF f
<1>10. \A s \in SUBSET S : f[s] = IF s = {} THEN <<>> ELSE Kept(f[s \ {Max(s)}], answer[Max(s)])
  <2> DEFINE g == [s \in SUBSET S |-> IF s = {} THEN <<>> ELSE Kept(f[s \ {Max(s)}], answer[Max(s)])]
  <2>1. f = g
    BY <1>8
  <2>2. \A s \in SUBSET S : g[s] = IF s = {} THEN <<>> ELSE Kept(f[s \ {Max(s)}], answer[Max(s)])
    OBVIOUS
  <2> HIDE DEF g
  <2> QED
    BY <2>1, <2>2
<1> DEFINE Good == {s \in SUBSET S : f[s] \in V}
<1>11. {} \in Good
  BY <1>2, <1>10
<1>12. ASSUME NEW s \in SUBSET S, s # {}, \A x \in s : s \ {x} \in Good PROVE s \in Good
  <2>1. Max(s) \in s /\ Max(s) \in S
    BY <1>6, <1>12 DEF Picks
  <2>2. f[s \ {Max(s)}] \in V
    BY <1>12, <2>1
  <2>3. f[s] = Kept(f[s \ {Max(s)}], answer[Max(s)])
    BY <1>10, <1>12
  <2> QED
    BY <1>3, <2>1, <2>2, <2>3
<1> HIDE DEF Good
<1>13. \A s \in SUBSET S : s \in Good
  <2>1. IsFiniteSet(S)
    BY <1>6
  <2> HIDE DEF S
  <2> QED
    BY <1>11, <1>12, <2>1, SubsetInduction
<1> QED
  BY <1>9, <1>13 DEF Good, V

\* A table of parcels, by their numbers.
Tables == UNION {[D -> Parcels] : D \in SUBSET Nat}

LEMMA InsertedType ==
  ASSUME NEW table \in Tables, NEW p \in Parcels
  PROVE  /\ Cadastre!Inserted(table, p) \in Tables
         /\ DOMAIN Cadastre!Inserted(table, p) = DOMAIN table \cup {p.number}
         /\ \A m \in DOMAIN table : Cadastre!Inserted(table, p)[m] = table[m]
<1> DEFINE out == Cadastre!Inserted(table, p)
<1>1. PICK D \in SUBSET Nat : table \in [D -> Parcels]
  BY DEF Tables
<1>2. p.number \in Nat
  BY DEF Parcels
<1>3. out = [m \in D \cup {p.number} |-> IF m \in D THEN table[m] ELSE p]
  BY <1>1 DEF Cadastre!Inserted
<1> HIDE DEF out
<1>4. out \in [D \cup {p.number} -> Parcels]
  BY <1>1, <1>3
<1>5. D \cup {p.number} \in SUBSET Nat
  BY <1>2
<1>6. out \in Tables
  BY <1>4, <1>5 DEF Tables
<1> QED
  BY <1>1, <1>3, <1>6 DEF out

\* A statement of a parcel, that goes through or fails.
Attempts == [parcel : Parcels, fails : BOOLEAN]

LEMMA AttemptedType ==
  ASSUME NEW table \in Tables, NEW a \in Attempts
  PROVE  /\ Cadastre!Attempted(table, a) \in Tables
         /\ a.fails => Cadastre!Attempted(table, a) = table
         /\ ~a.fails => Cadastre!Attempted(table, a) = Cadastre!Inserted(table, a.parcel)
<1>1. a.parcel \in Parcels
  BY DEF Attempts
<1>2. CASE a.fails
  BY <1>2 DEF Cadastre!Attempted
<1>3. CASE ~a.fails
  <2>1. Cadastre!Attempted(table, a) = Cadastre!Inserted(table, a.parcel)
    BY <1>3 DEF Cadastre!Attempted
  <2> QED
    BY <1>1, <1>3, <2>1, InsertedType
<1> QED
  BY <1>2, <1>3

\* The rows of the statements that went through are there, each as it was inserted first, and
\* those that were there are as they were.
LEMMA InsertedRows ==
  ASSUME NEW table \in Tables, NEW tried \in Seq(Attempts)
  PROVE  LET out     == Cadastre!FoldLeft(Cadastre!Attempted, table, tried)
             through == {i \in DOMAIN tried : ~tried[i].fails}
         IN /\ DOMAIN out = DOMAIN table \cup {tried[i].parcel.number : i \in through}
            /\ \A m \in DOMAIN table : out[m] = table[m]
            /\ \A m \in DOMAIN out \ DOMAIN table :
                 \E i \in through : /\ tried[i].parcel.number = m /\ out[m] = tried[i].parcel
                                   /\ \A j \in through : tried[j].parcel.number = m => i <= j
<1> DEFINE n == Len(tried)
           S == 1..n
           step == [k \in S |-> [v \in Tables |-> Cadastre!Attempted(v, tried[k])]]
           Folds(f) == f = [s \in SUBSET S |-> IF s = {} THEN table
                                               ELSE Cadastre!Attempted(f[s \ {Max(s)}], tried[Max(s)])]
           f == CHOOSE f : Folds(f)
<1>1. n \in Nat /\ DOMAIN tried = S /\ \A k \in S : tried[k] \in Attempts
  OBVIOUS
<1>2. \A k \in S, v \in Tables : step[k][v] = Cadastre!Attempted(v, tried[k])
  OBVIOUS
<1> HIDE DEF n
<1>3. StaysIn(step, S, Tables)
  BY <1>1, <1>2, AttemptedType DEF StaysIn
<1>4. Picks(LastOf(n), S) /\ IsFiniteSet(S) /\ \A s \in SUBSET S : LastOf(n)[s] = Max(s)
  BY <1>1, LastIn DEF LastOf
<1> HIDE DEF step
<1>5. \E g : Folds(g)
  <2>1. PICK g \in [SUBSET S -> Tables] : Iterates(g, table, LastOf(n), step, S)
    BY <1>3, <1>4, SetRecursion
  <2>2. ASSUME NEW s \in SUBSET S
        PROVE  g[s] = IF s = {} THEN table ELSE Cadastre!Attempted(g[s \ {Max(s)}], tried[Max(s)])
    <3>1. s # {} => Max(s) \in S /\ g[s \ {Max(s)}] \in Tables
      BY <1>4, <2>1 DEF Picks
    <3>2. g[s] = IF s = {} THEN table ELSE step[Max(s)][g[s \ {Max(s)}]]
      BY <1>4, <2>1 DEF Iterates
    <3> QED
      BY <1>2, <3>1, <3>2
  <2> QED
    BY <2>1, <2>2
<1>6. Folds(f)
  BY <1>5
<1>7. Cadastre!FoldLeft(Cadastre!Attempted, table, tried) = f[S]
  BY <1>1, SameLast DEF Cadastre!FoldLeft, Cadastre!MapThenFoldSet
<1> HIDE DEF f
<1>8. \A s \in SUBSET S : f[s] = IF s = {} THEN table ELSE Cadastre!Attempted(f[s \ {Max(s)}], tried[Max(s)])
  <2> DEFINE g == [s \in SUBSET S |-> IF s = {} THEN table ELSE Cadastre!Attempted(f[s \ {Max(s)}], tried[Max(s)])]
  <2>1. f = g
    BY <1>6
  <2>2. \A s \in SUBSET S : g[s] = IF s = {} THEN table ELSE Cadastre!Attempted(f[s \ {Max(s)}], tried[Max(s)])
    OBVIOUS
  <2> HIDE DEF g
  <2> QED
    BY <2>1, <2>2
<1> DEFINE Through(s) == {i \in s : ~tried[i].fails}
           First(s, t, m) == \E i \in Through(s) :
                               /\ tried[i].parcel.number = m /\ t[m] = tried[i].parcel
                               /\ \A j \in Through(s) : tried[j].parcel.number = m => i <= j
           Good == {s \in SUBSET S : /\ f[s] \in Tables
                                     /\ DOMAIN f[s] = DOMAIN table \cup {tried[i].parcel.number : i \in Through(s)}
                                     /\ \A m \in DOMAIN table : f[s][m] = table[m]
                                     /\ \A m \in DOMAIN f[s] \ DOMAIN table : First(s, f[s], m)}
<1>9. {} \in Good
  <2>1. f[{}] = table
    BY <1>8
  <2> QED
    BY <2>1
<1>10. ASSUME NEW s \in SUBSET S, s # {}, \A x \in s : s \ {x} \in Good PROVE s \in Good
  <2> DEFINE x == Max(s)
             r == s \ {x}
             t == f[r]
  <2>1. x \in s /\ x \in S /\ x \in Nat /\ \A i \in s : i \in Nat /\ i <= x
    <3>1. IsFiniteSet(s)
      <4> HIDE DEF S
      <4> QED
        BY <1>4, <1>10, FS_Subset
    <3>2. \A i \in s : i \in S /\ i \in Nat /\ i \in Int
      BY <1>1, <1>10
    <3>3. s \subseteq Int
      BY <3>2
    <3>4. Max(s) \in s /\ \A i \in s : Max(s) >= i
      BY <1>10, <3>1, <3>3, MaxIs
    <3>5. x \in s /\ \A i \in s : x >= i
      BY <3>4
    <3> HIDE DEF x, S
    <3> QED
      BY <3>2, <3>5
  <2>2. /\ t \in Tables /\ DOMAIN t = DOMAIN table \cup {tried[i].parcel.number : i \in Through(r)}
        /\ \A m \in DOMAIN table : t[m] = table[m]
        /\ \A m \in DOMAIN t \ DOMAIN table : First(r, t, m)
    BY <1>10, <2>1
  <2>3. f[s] = Cadastre!Attempted(t, tried[x])
    BY <1>8, <1>10
  <2>4. tried[x] \in Attempts
    BY <1>1, <2>1
  <2>5. s = r \cup {x} /\ x \notin r /\ r \subseteq s
    BY <2>1
  <2> HIDE DEF t, x, r
  <2>6. CASE tried[x].fails
    <3>1. f[s] = t
      BY <2>2, <2>3, <2>4, <2>6, AttemptedType
    <3>2. Through(s) = Through(r)
      BY <2>5, <2>6
    <3> HIDE DEF Through
    <3> QED
      BY <1>10, <2>2, <3>1, <3>2
  <2>7. CASE ~tried[x].fails
    <3> DEFINE p == tried[x].parcel
    <3>1. p \in Parcels
      BY <2>4 DEF Attempts
    <3>2. f[s] = Cadastre!Inserted(t, p)
      BY <2>2, <2>3, <2>4, <2>7, AttemptedType
    <3> HIDE DEF p
    <3>3. /\ f[s] \in Tables /\ DOMAIN f[s] = DOMAIN t \cup {p.number}
          /\ \A m \in DOMAIN t : f[s][m] = t[m]
      <4>1. /\ Cadastre!Inserted(t, p) \in Tables
            /\ DOMAIN Cadastre!Inserted(t, p) = DOMAIN t \cup {p.number}
            /\ \A m \in DOMAIN t : Cadastre!Inserted(t, p)[m] = t[m]
        <5>1. t \in Tables
          BY <2>2
        <5> QED
          BY <3>1, <5>1, InsertedType
      <4> QED
        BY <3>2, <4>1
    <3>4. Through(s) = Through(r) \cup {x}
      BY <2>5, <2>7
    <3>5. {tried[i].parcel.number : i \in Through(s)} = {tried[i].parcel.number : i \in Through(r)} \cup {p.number}
      BY <3>4 DEF p
    <3>6. DOMAIN f[s] = DOMAIN table \cup {tried[i].parcel.number : i \in Through(s)}
      BY <2>2, <3>3, <3>5
    <3>7. \A m \in DOMAIN table : f[s][m] = table[m]
      BY <2>2, <3>3
    <3>8. ASSUME NEW m \in DOMAIN f[s] \ DOMAIN table PROVE First(s, f[s], m)
      <4>1. CASE m \in DOMAIN t
        <5>1. PICK i \in Through(r) : /\ tried[i].parcel.number = m /\ t[m] = tried[i].parcel
                                     /\ \A j \in Through(r) : tried[j].parcel.number = m => i <= j
          BY <2>2, <3>8, <4>1
        <5>2. i \in Through(s) /\ i <= x
          BY <2>1, <2>5, <3>4, <5>1
        <5>3. f[s][m] = tried[i].parcel
          BY <3>3, <4>1, <5>1
        <5>4. \A j \in Through(s) : tried[j].parcel.number = m => i <= j
          BY <3>4, <5>1, <5>2
        <5> QED
          BY <5>1, <5>2, <5>3, <5>4
      <4>2. CASE m \notin DOMAIN t
        <5>1. m = p.number
          BY <3>3, <3>8, <4>2
        <5>2. \A j \in Through(r) : tried[j].parcel.number # m
          BY <2>2, <4>2
        <5>3. f[s][m] = p
          BY <3>2, <4>2, <5>1 DEF Cadastre!Inserted
        <5>4. x \in Through(s) /\ x <= x
          BY <2>1, <3>4
        <5>5. \A j \in Through(s) : tried[j].parcel.number = m => x <= j
          BY <3>4, <5>2, <5>4
        <5> QED
          BY <5>1, <5>3, <5>4, <5>5 DEF p
      <4> QED
        BY <4>1, <4>2
    <3> HIDE DEF First, Through
    <3> QED
      BY <1>10, <3>3, <3>6, <3>7, <3>8
  <2> QED
    BY <2>6, <2>7
<1> HIDE DEF Good
<1>11. \A s \in SUBSET S : s \in Good
  <2>1. IsFiniteSet(S)
    BY <1>4
  <2> HIDE DEF S
  <2> QED
    BY <1>9, <1>10, <2>1, SubsetInduction
<1> QED
  <2>1. S \in Good
    BY <1>11
  <2> QED
    BY <1>1, <1>7, <2>1 DEF Good

\* What the land registry answered is stored parcel by parcel.
LEMMA ParcelsAreAlwaysStored ==
  ASSUME NEW table \in Tables, NEW answer, Answered(answer), NEW retried, Answered(retried), NEW failing,
         NEW refused
  PROVE  Cadastre!ParcelsAreStored(table, answer, retried, failing, refused)
<1> DEFINE Good == {p \in Parcels : p.number # 0}
           first == Cadastre!Search(<<>>, 1, answer)
           second == Cadastre!Search(first.cache, 1, retried)
           found == second.found
           through == DOMAIN found \ failing
           out == Cadastre!FetchCadastre(table, found, failing, refused)
<1>1. answer # Cadastre!Failed => first.found \in Seq(Good) /\ second.found = first.found
  <2> SUFFICES ASSUME answer # Cadastre!Failed PROVE first.found \in Seq(Good) /\ second.found = first.found
    OBVIOUS
  <2> DEFINE numbered == Cadastre!Numbered(answer)
  <2>1. numbered \in Seq(Good)
    BY NumberedType DEF Answered
  <2> HIDE DEF numbered
  <2>2. first.found = numbered /\ first.cache = [k \in {1} |-> numbered]
    BY DEF Cadastre!Search, numbered
  <2> HIDE DEF first
  <2>3. second.found = numbered
    BY <2>2 DEF Cadastre!Search
  <2> QED
    BY <2>1, <2>2, <2>3
<1>2. answer = Cadastre!Failed => first.cache = <<>> /\ first.found = <<>>
  BY DEF Cadastre!Search
<1>3. answer = Cadastre!Failed /\ retried # Cadastre!Failed => found = Cadastre!Numbered(retried) /\ found \in Seq(Good)
  <2> HIDE DEF first
  <2> SUFFICES ASSUME answer = Cadastre!Failed, retried # Cadastre!Failed
               PROVE  found = Cadastre!Numbered(retried) /\ found \in Seq(Good)
    OBVIOUS
  <2>1. Cadastre!Numbered(retried) \in Seq(Good)
    BY NumberedType DEF Answered
  <2>2. 1 \notin DOMAIN first.cache
    BY <1>2
  <2>3. found = Cadastre!Numbered(retried)
    BY <2>2 DEF Cadastre!Search
  <2> QED
    BY <2>1, <2>3
<1>4. answer = Cadastre!Failed /\ retried = Cadastre!Failed => found = <<>>
  <2> HIDE DEF first
  <2> QED
    BY <1>2 DEF Cadastre!Search
<1> HIDE DEF found
<1>5. found \in Seq(Good)
  <2> HIDE DEF first, second, Good
  <2>1. CASE answer # Cadastre!Failed
    BY <1>1, <2>1 DEF found
  <2>2. CASE answer = Cadastre!Failed /\ retried # Cadastre!Failed
    BY <1>3, <2>2
  <2>3. CASE answer = Cadastre!Failed /\ retried = Cadastre!Failed
    <3>1. found = <<>>
      BY <1>4, <2>3
    <3> QED
      BY <3>1
  <2> QED
    BY <2>1, <2>2, <2>3
<1> DEFINE n == Len(found)
<1>6. n \in Nat /\ DOMAIN found = 1..n /\ found \in Seq(Parcels) /\ \A i \in 1..n : found[i].number # 0
  <2>1. n \in Nat /\ DOMAIN found = 1..n /\ \A i \in 1..n : found[i] \in Good
    BY <1>5
  <2>2. found \in Seq(Parcels)
    BY <1>5
  <2> QED
    BY <2>1, <2>2
<1> DEFINE tried == Cadastre!Statements(found, failing)
           rows == Cadastre!FoldLeft(Cadastre!Attempted, table, tried)
<1>7. /\ tried \in Seq(Attempts) /\ DOMAIN tried = DOMAIN found
      /\ \A i \in DOMAIN found : tried[i].parcel = found[i] /\ (tried[i].fails <=> i \in failing)
  <2>1. tried = [i \in 1..n |-> [parcel |-> found[i], fails |-> i \in failing]]
    BY <1>6 DEF Cadastre!Statements
  <2>2. \A i \in 1..n : found[i] \in Parcels
    BY <1>6
  <2>3. \A i \in 1..n : [parcel |-> found[i], fails |-> i \in failing] \in Attempts
    BY <2>2 DEF Attempts
  <2> HIDE DEF tried, n
  <2>4. tried \in [1..n -> Attempts]
    BY <2>1, <2>3
  <2>5. tried \in Seq(Attempts)
    BY <1>6, <2>4
  <2> QED
    BY <1>6, <2>1, <2>5
<1>8. out.table = rows
  BY DEF Cadastre!FetchCadastre, Cadastre!InsertAll
<1>9. {i \in DOMAIN tried : ~tried[i].fails} = through
  <2> HIDE DEF tried, found
  <2> QED
    BY <1>7
<1>10. /\ DOMAIN rows = DOMAIN table \cup {found[i].number : i \in through}
       /\ \A m \in DOMAIN table : rows[m] = table[m]
       /\ \A m \in DOMAIN rows \ DOMAIN table :
            \E i \in through : /\ found[i].number = m /\ rows[m] = found[i]
                              /\ \A j \in through : found[j].number = m => i <= j
  <2> DEFINE gone == {i \in DOMAIN tried : ~tried[i].fails}
  <2>1. /\ DOMAIN rows = DOMAIN table \cup {tried[i].parcel.number : i \in gone}
        /\ \A m \in DOMAIN table : rows[m] = table[m]
        /\ \A m \in DOMAIN rows \ DOMAIN table :
             \E i \in gone : /\ tried[i].parcel.number = m /\ rows[m] = tried[i].parcel
                            /\ \A j \in gone : tried[j].parcel.number = m => i <= j
    BY <1>7, InsertedRows
  <2>2. gone = through
    BY <1>9
  <2>3. \A i \in through : tried[i].parcel = found[i]
    BY <1>7
  <2> HIDE DEF gone, through, tried, rows
  <2>4. {tried[i].parcel.number : i \in gone} = {found[i].number : i \in through}
    BY <2>2, <2>3
  <2> QED
    BY <2>1, <2>2, <2>3, <2>4
<1> HIDE DEF rows, tried
<1>11. \A m \in Cadastre!ToSet(out.numbers) : \E i \in DOMAIN found : m = found[i].number
  <2>1. out.numbers = <<>> \/ out.numbers = [i \in DOMAIN found |-> found[i].number]
    BY DEF Cadastre!FetchCadastre
  <2> HIDE DEF out
  <2> QED
    BY <2>1 DEF Cadastre!ToSet
<1>12. \A m \in Cadastre!ToSet(out.numbers) \ DOMAIN out.table :
         m # 0 /\ \E i \in failing \cap DOMAIN found : found[i].number = m
  <2> SUFFICES ASSUME NEW m \in Cadastre!ToSet(out.numbers), m \notin DOMAIN rows
               PROVE  m # 0 /\ \E i \in failing \cap DOMAIN found : found[i].number = m
    BY <1>8
  <2>1. PICK i \in DOMAIN found : m = found[i].number
    BY <1>11
  <2>2. i \in failing
    BY <1>10, <2>1
  <2> QED
    BY <1>6, <2>1, <2>2
<1>13. 0 \notin DOMAIN rows \ DOMAIN table
  BY <1>6, <1>10
<1> HIDE DEF out, through
<1> QED
  BY <1>1, <1>3, <1>8, <1>10, <1>12, <1>13 DEF Cadastre!ParcelsAreStored, found, out, through
-----------------------------------------------------------------------------
\* What the data of a site promises holds of every selection, table of tags, frame, log, road
\* network, audit and answer of the land registry, whichever INSERTs fail and whether the storage
\* takes the boundaries or not (osm, coords, cadastre).
THEOREM DataIsAlwaysWhole == RulesSpec => []DataIsWhole
<1>1. QuestionInv => DataIsWhole
  <2> SUFFICES ASSUME QuestionInv PROVE DataIsWhole
    OBVIOUS
  <2>1. ASSUME Asked("selection")
       PROVE  Osm!SelectionIsWhole(given.raw, given.radius)
    <3>1. given \in QuestionsOf("selection")
      BY <2>1 DEF QuestionInv, Asked, QuestionsOf
    <3>2. /\ given.radius \in Int
          /\ \A f \in given.raw : f.far \in Int /\ f.near \in Int /\ f.far <= f.near + Osm!DEFAULT_MARGIN
      BY <3>1, DataAssumption
    <3> QED
      BY <3>2, SelectionIsAlwaysWhole
  <2>2. ASSUME Asked("tags")
       PROVE  Osm!TagsAreHonest(given.text, given.number)
    <3>1. given \in QuestionsOf("tags")
      BY <2>2 DEF QuestionInv, Asked, QuestionsOf
    <3>2. given.number \in Int
      BY <3>1, DataAssumption
    <3> QED
      BY <3>2, TagsAreAlwaysHonest
  <2>3. ASSUME Asked("zone")
       PROVE  Osm!ZoneIsNearest(given.lon)
    <3>1. given \in QuestionsOf("zone")
      BY <2>3 DEF QuestionInv, Asked, QuestionsOf
    <3>2. given.lon \in Int
      BY <3>1, DataAssumption
    <3> QED
      BY <3>2, ZoneIsAlwaysNearest
  <2>4. ASSUME Asked("plane")
       PROVE  Osm!PlaneIsRecovered(given.places, given.a, given.b, given.c)
    <3>1. given \in QuestionsOf("plane")
      BY <2>4 DEF QuestionInv, Asked, QuestionsOf
    <3>2. given.places \in Seq(Int \X Int) /\ given.a \in Int /\ given.b \in Int /\ given.c \in Int
      BY <3>1, DataAssumption
    <3> QED
      BY <3>2, PlaneIsAlwaysRecovered
  <2>5. ASSUME Asked("log")
       PROVE  Osm!LogKeepsNewest(given.log)
    <3>1. given \in QuestionsOf("log")
      BY <2>5 DEF QuestionInv, Asked, QuestionsOf
    <3>2. given.log \in Seq([source : STRING, timestamp : Int])
      BY <3>1, DataAssumption
    <3> QED
      BY <3>2, LogAlwaysKeepsNewest
  <2>6. ASSUME Asked("junctions")
       PROVE  Osm!CrossingsAreKept(given.roads)
    <3>1. given \in QuestionsOf("junctions")
      BY <2>6 DEF QuestionInv, Asked, QuestionsOf
    <3>2. \A i, j \in DOMAIN given.roads : given.roads[i].id = given.roads[j].id => i = j
      BY <3>1, DataAssumption
    <3> QED
      BY <3>2, CrossingsAreAlwaysKept
  <2>7. ASSUME Asked("audit")
       PROVE  Osm!DecisionsGrow(given.elements, {e \in given.elements : e.tags = 2}, {e \in given.elements : e.tags >= 1})
    <3>1. given \in QuestionsOf("audit")
      BY <2>7 DEF QuestionInv, Asked, QuestionsOf
    <3>2. IsFiniteSet(given.elements)
      BY <3>1, DataAssumption
    <3> QED
      BY <3>2, DecisionsAlwaysGrow
  <2>8. ASSUME Asked("parcels")
       PROVE  Cadastre!ParcelsAreStored(given.table, given.answer, given.retried, given.failing, given.refused)
    <3>1. given \in QuestionsOf("parcels")
      BY <2>8 DEF QuestionInv, Asked, QuestionsOf
    <3>2. /\ given.table \in [DOMAIN given.table -> Parcels] /\ DOMAIN given.table \in SUBSET Nat
          /\ Answered(given.answer) /\ Answered(given.retried)
      BY <3>1, DataAssumption DEF Parcels, Answered, IsAnswer
    <3>3. given.table \in Tables
      BY <3>2 DEF Tables
    <3> QED
      BY <3>2, <3>3, ParcelsAreAlwaysStored
  <2> QED
    BY <2>1, <2>2, <2>3, <2>4, <2>5, <2>6, <2>7, <2>8 DEF DataIsWhole
<1> QED
  BY <1>1, QuestionsAlways, PTL
-----------------------------------------------------------------------------
(* The siting of a building (Siting).                                       *)

Plane == Int \X Int

\* Siting has its own names for the count, the least and the greatest of a set.
LEMMA SitingCount == \A S : Siting!Cardinality(S) = Cardinality(S)
BY DEF Siting!Cardinality, Cardinality

LEMMA SitingMin == \A S : Siting!Min(S) = Min(S)
BY DEF Siting!Min, Min

LEMMA SitingMax == \A S : Siting!Max(S) = Max(S)
BY DEF Siting!Max, Max

\* A squared distance is a natural number, and the gap of two areas is the least of them.
LEMMA SquaredType ==
  ASSUME NEW p \in Plane, NEW q \in Plane
  PROVE  Siting!Squared(p, q) \in Nat
<1> DEFINE x == p[1] - q[1]
           y == p[2] - q[2]
<1>1. x \in Int /\ y \in Int
  BY DEF Plane
<1>2. Siting!Squared(p, q) = x * x + y * y
  BY DEF Siting!Squared
<1> HIDE DEF x, y
<1>3. x * x >= 0 /\ y * y >= 0 /\ x * x \in Int /\ y * y \in Int
  BY <1>1
<1> QED
  BY <1>2, <1>3

\* The distance between two areas is the one of their nearest cells.
LEMMA GapIs ==
  ASSUME NEW area \in SUBSET Plane, NEW other \in SUBSET Plane, area # {}, other # {}
  PROVE  /\ Siting!SquaredGap(area, other) \in Nat
         /\ \A p \in area, q \in other : Siting!SquaredGap(area, other) <= Siting!Squared(p, q)
<1> DEFINE S == {Siting!Squared(p, q) : p \in area, q \in other}
<1>1. S # {} /\ S \subseteq Nat
  <2>1. \A p \in area, q \in other : Siting!Squared(p, q) \in Nat
    BY SquaredType
  <2>2. S \subseteq Nat
    BY <2>1
  <2>3. PICK p \in area, q \in other : TRUE
    OBVIOUS
  <2>4. Siting!Squared(p, q) \in S
    OBVIOUS
  <2> QED
    BY <2>2, <2>4
<1>2. Siting!SquaredGap(area, other) = Min(S)
  BY SitingMin DEF Siting!SquaredGap
<1>3. \A p \in area, q \in other : Siting!Squared(p, q) \in S
  OBVIOUS
<1> HIDE DEF S
<1>4. Min(S) \in Nat /\ \A y \in S : Min(S) <= y
  BY <1>1, MinOfNaturals
<1> QED
  BY <1>2, <1>3, <1>4
-----------------------------------------------------------------------------
\* The lowest limit is below each of them, and one more never raises it.
LEMMA LimitIsLowest ==
  ASSUME NEW pzz, pzz.maxHeight \in Nat \cup {-1},
         NEW zones, \A z \in zones : z.maxHeight \in Nat \cup {-1},
         NEW some \in SUBSET zones
  PROVE  /\ \A z \in zones : z.maxHeight # Siting!NoLimit => Siting!MaxHeight(pzz, zones) \in 0..z.maxHeight
         /\ Siting!MaxHeight(pzz, some) # Siting!NoLimit =>
              Siting!MaxHeight(pzz, zones) \in 0..Siting!MaxHeight(pzz, some)
<1> DEFINE Limits(zs) == {h \in {pzz.maxHeight} \cup {z.maxHeight : z \in zs} : h # -1}
           all == Limits(zones)
           few == Limits(some)
<1>1. all \subseteq Nat /\ few \subseteq all
  OBVIOUS
<1>2. /\ Siting!MaxHeight(pzz, zones) = IF all = {} THEN -1 ELSE Min(all)
      /\ Siting!MaxHeight(pzz, some) = IF few = {} THEN -1 ELSE Min(few)
      /\ Siting!NoLimit = -1
  BY SitingMin DEF Siting!MaxHeight, Siting!NoLimit
<1>3. \A z \in zones : z.maxHeight # -1 => z.maxHeight \in all
  OBVIOUS
<1> HIDE DEF all, few
<1>4. all # {} => Min(all) \in Nat /\ \A y \in all : Min(all) <= y
  BY <1>1, MinOfNaturals
<1>5. few # {} => Min(few) \in few /\ Min(few) \in Nat
  BY <1>1, MinOfNaturals
<1>6. ASSUME NEW z \in zones, z.maxHeight # -1 PROVE Siting!MaxHeight(pzz, zones) \in 0..z.maxHeight
  <2>1. z.maxHeight \in all /\ all # {} /\ z.maxHeight \in Nat
    BY <1>1, <1>3, <1>6
  <2> QED
    BY <1>2, <1>4, <2>1
<1>7. ASSUME few # {} PROVE Siting!MaxHeight(pzz, zones) \in 0..Min(few)
  <2>1. Min(few) \in all /\ all # {} /\ Min(few) \in Nat
    BY <1>1, <1>5, <1>7
  <2> QED
    BY <1>2, <1>4, <2>1
<1> QED
  BY <1>2, <1>6, <1>7

\* A footprint that collides with nothing is clear of every zone, network and boundary, and a
\* zone more only takes room away.
LEMMA EnvelopeIsAlwaysSafe ==
  ASSUME NEW site, NEW plane, NEW pzz, pzz.maxHeight \in Nat \cup {-1},
         NEW zones, \A z \in zones : z.maxHeight \in Nat \cup {-1},
         NEW networks, \A n \in networks : n.area \in SUBSET Plane,
         NEW clearance \in Nat, NEW footprint \in SUBSET Plane
  PROVE  Siting!EnvelopeIsSafe(site, pzz, zones, networks, clearance, footprint, plane)
<1> DEFINE envelope == Siting!BuildingEnvelope(site, pzz, zones, plane)
           found == Siting!Collisions(footprint, envelope.footprint, zones, networks, clearance)
<1>1. /\ envelope.footprint = Siting!Allowed(site, pzz.setback, zones, plane)
      /\ envelope.maxHeight = Siting!MaxHeight(pzz, zones)
  BY DEF Siting!BuildingEnvelope
<1> HIDE DEF envelope
<1>2. ASSUME found = {}, footprint # {}
      PROVE  /\ footprint \subseteq envelope.footprint
             /\ \A n \in networks : \A c \in footprint, q \in n.area :
                  Siting!Squared(c, q) >= clearance * clearance
  <2>1. /\ footprint \subseteq envelope.footprint
        /\ \A m \in networks : ~ (Siting!SquaredGap(footprint, m.area) < clearance * clearance)
    BY <1>2 DEF Siting!Collisions
  <2>2. ASSUME NEW n \in networks, NEW c \in footprint, NEW q \in n.area
        PROVE  Siting!Squared(c, q) >= clearance * clearance
    <3> DEFINE gap == Siting!SquaredGap(footprint, n.area)
               s == Siting!Squared(c, q)
    <3>1. gap \in Nat /\ gap <= s
      BY <1>2, <2>2, GapIs
    <3>2. s \in Nat
      BY <2>2, SquaredType
    <3>3. ~ (gap < clearance * clearance)
      BY <2>1, <2>2
    <3> HIDE DEF gap, s
    <3>4. s >= clearance * clearance
      BY <3>1, <3>2, <3>3
    <3> QED
      BY <3>4 DEF s
  <2> QED
    BY <2>1, <2>2
<1>3. ASSUME found = {}, footprint # {}
      PROVE  /\ \A c \in footprint : \A q \in plane \ site : Siting!Squared(c, q) > pzz.setback * pzz.setback
             /\ \A z \in zones : footprint \cap z.area = {}
  BY <1>1, <1>2, <1>3 DEF Siting!Allowed, Siting!Shrunk
<1>4. envelope.footprint \cap UNION {z.area : z \in zones} = {}
  BY <1>1 DEF Siting!Allowed
<1>5. \A z \in zones : z.maxHeight # Siting!NoLimit => envelope.maxHeight \in 0..z.maxHeight
  BY <1>1, LimitIsLowest
<1>6. ASSUME NEW z \in zones
      PROVE  LET before == Siting!BuildingEnvelope(site, pzz, zones \ {z}, plane)
             IN  /\ envelope.footprint \subseteq before.footprint
                 /\ before.maxHeight # Siting!NoLimit => envelope.maxHeight \in 0..before.maxHeight
  <2> DEFINE before == Siting!BuildingEnvelope(site, pzz, zones \ {z}, plane)
  <2>1. /\ before.footprint = Siting!Allowed(site, pzz.setback, zones \ {z}, plane)
        /\ before.maxHeight = Siting!MaxHeight(pzz, zones \ {z})
    BY DEF Siting!BuildingEnvelope
  <2> HIDE DEF before
  <2>2. envelope.footprint \subseteq before.footprint
    BY <1>1, <2>1 DEF Siting!Allowed
  <2>3. zones \ {z} \in SUBSET zones
    OBVIOUS
  <2>4. before.maxHeight # Siting!NoLimit => envelope.maxHeight \in 0..before.maxHeight
    BY <1>1, <2>1, <2>3, LimitIsLowest
  <2> QED
    BY <2>2, <2>4 DEF before
<1> QED
  BY <1>2, <1>3, <1>4, <1>5, <1>6 DEF Siting!EnvelopeIsSafe, envelope
-----------------------------------------------------------------------------
\* A quarter turn moves a cell to a cell.
LEMMA RotatedIs ==
  ASSUME NEW x \in Int, NEW y \in Int, NEW quarters \in 0..3
  PROVE  \E u, v \in Int : /\ Siting!Rotated(<<x, y>>, quarters) = <<u, v>>
                           /\ quarters = 0 => u = x /\ v = y
                           /\ quarters = 1 => u = -y /\ v = x
                           /\ quarters = 2 => u = -x /\ v = -y
                           /\ quarters = 3 => u = y /\ v = -x
<1>1. CASE quarters = 0
  <2>1. Siting!Rotated(<<x, y>>, quarters) = <<x, y>>
    BY <1>1 DEF Siting!Rotated
  <2> QED
    BY <1>1, <2>1
<1>2. CASE quarters = 1
  <2>1. Siting!Rotated(<<x, y>>, quarters) = <<-y, x>>
    BY <1>2 DEF Siting!Rotated
  <2> QED
    BY <1>2, <2>1
<1>3. CASE quarters = 2
  <2>1. Siting!Rotated(<<x, y>>, quarters) = <<-x, -y>>
    BY <1>3 DEF Siting!Rotated
  <2> QED
    BY <1>3, <2>1
<1>4. CASE quarters = 3
  <2>1. Siting!Rotated(<<x, y>>, quarters) = <<y, -x>>
    BY <1>4 DEF Siting!Rotated
  <2> QED
    BY <1>4, <2>1
<1> QED
  BY <1>1, <1>2, <1>3, <1>4

\* No two points are turned onto the same one.
LEMMA RotationKeeps ==
  ASSUME NEW x \in Int, NEW y \in Int, NEW u \in Int, NEW v \in Int, NEW quarters \in 0..3,
         Siting!Rotated(<<x, y>>, quarters) = Siting!Rotated(<<u, v>>, quarters)
  PROVE  x = u /\ y = v
<1>1. PICK a \in Int, b \in Int : /\ Siting!Rotated(<<x, y>>, quarters) = <<a, b>>
                                  /\ quarters = 0 => a = x /\ b = y
                                  /\ quarters = 1 => a = -y /\ b = x
                                  /\ quarters = 2 => a = -x /\ b = -y
                                  /\ quarters = 3 => a = y /\ b = -x
  BY RotatedIs
<1>2. PICK c \in Int, d \in Int : /\ Siting!Rotated(<<u, v>>, quarters) = <<c, d>>
                                  /\ quarters = 0 => c = u /\ d = v
                                  /\ quarters = 1 => c = -v /\ d = u
                                  /\ quarters = 2 => c = -u /\ d = -v
                                  /\ quarters = 3 => c = v /\ d = -u
  BY RotatedIs
<1>3. <<a, b>> = <<c, d>>
  <2>1. Siting!Rotated(<<x, y>>, quarters) = <<a, b>> /\ Siting!Rotated(<<u, v>>, quarters) = <<c, d>>
    BY <1>1, <1>2
  <2> QED
    BY <2>1
<1>4. a = c /\ b = d
  BY <1>3
<1>5. quarters = 0 \/ quarters = 1 \/ quarters = 2 \/ quarters = 3
  OBVIOUS
<1> QED
  BY <1>1, <1>2, <1>4, <1>5

\* A footprint that is turned and shifted keeps its size.
LEMMA PlacementIsAlwaysExact ==
  ASSUME NEW footprint \in SUBSET Plane, IsFiniteSet(footprint), NEW origin \in Plane,
         NEW quarters \in 0..3, NEW site, NEW features
  PROVE  Siting!PlacementIsExact(footprint, origin, quarters, site, features)
<1> DEFINE put == [p \in footprint |-> <<Siting!Rotated(p, quarters)[1] + origin[1],
                                        Siting!Rotated(p, quarters)[2] + origin[2]>>]
           placed == Siting!Placed(footprint, origin, quarters)
           at == Siting!Placement(footprint, origin, quarters, site)
<1>1. put \in Bijection(footprint, placed)
  <2>1. placed = {put[p] : p \in footprint}
    BY DEF Siting!Placed
  <2>2. ASSUME NEW p \in footprint, NEW q \in footprint, put[p] = put[q] PROVE p = q
    <3>1. PICK x \in Int, y \in Int : p = <<x, y>>
      BY DEF Plane
    <3>2. PICK u \in Int, v \in Int : q = <<u, v>>
      BY DEF Plane
    <3>3. PICK a \in Int, b \in Int : origin = <<a, b>>
      BY DEF Plane
    <3>4. PICK c \in Int, d \in Int : Siting!Rotated(p, quarters) = <<c, d>>
      BY <3>1, RotatedIs
    <3>5. PICK e \in Int, f \in Int : Siting!Rotated(q, quarters) = <<e, f>>
      BY <3>2, RotatedIs
    <3>6. c + a = e + a /\ d + b = f + b
      BY <2>2, <3>3, <3>4, <3>5
    <3>7. Siting!Rotated(p, quarters) = Siting!Rotated(q, quarters)
      BY <3>4, <3>5, <3>6
    <3> QED
      BY <3>1, <3>2, <3>7, RotationKeeps
  <2> HIDE DEF put, placed
  <2>3. put \in [footprint -> placed] /\ \A q \in placed : \E p \in footprint : put[p] = q
    BY <2>1 DEF put
  <2> QED
    BY <2>2, <2>3 DEF Bijection, Injection, Surjection, IsInjective
<1>2. at.footprint = placed /\ at.within = (placed \subseteq site) /\ at.overlap = Cardinality(placed \cap site)
  BY SitingCount DEF Siting!Placement
<1> HIDE DEF put, placed, at
<1>3. ExistsBijection(footprint, placed)
  BY <1>1 DEF ExistsBijection
<1>4. IsFiniteSet(placed) /\ Cardinality(placed) = Cardinality(footprint)
  BY <1>3, FS_Bijection
<1>5. at.within <=> at.overlap = Cardinality(footprint)
  <2>1. CASE placed \subseteq site
    <3>1. placed \cap site = placed
      BY <2>1
    <3> QED
      BY <1>2, <1>4, <2>1, <3>1
  <2>2. CASE ~ (placed \subseteq site)
    <3>1. placed \cap site \in SUBSET placed /\ placed \cap site # placed
      BY <2>2
    <3>2. Cardinality(placed) # Cardinality(placed \cap site)
      BY <1>4, <3>1, FS_Subset
    <3> QED
      BY <1>2, <1>4, <2>2, <3>2
  <2> QED
    BY <2>1, <2>2
<1>6. /\ Siting!Removed(features, at.footprint) \cup Siting!Kept(features, at.footprint) = features
      /\ \A f \in Siting!Kept(features, at.footprint) : f.area \cap at.footprint = {}
  <2>1. placed \subseteq Plane
    <3>1. \A p \in footprint : put[p] \in Plane
      <4> SUFFICES ASSUME NEW p \in footprint PROVE put[p] \in Plane
        OBVIOUS
      <4>1. PICK x \in Int, y \in Int : p = <<x, y>>
        BY DEF Plane
      <4>2. PICK c \in Int, d \in Int : Siting!Rotated(p, quarters) = <<c, d>>
        BY <4>1, RotatedIs
      <4> QED
        BY <4>2 DEF put, Plane
    <3> QED
      BY <1>1, <3>1 DEF Bijection, Surjection
  <2>2. \A p \in Plane : Siting!Squared(p, p) = 0
    BY DEF Siting!Squared, Plane
  <2>3. ASSUME NEW f, NEW p \in f.area \cap placed PROVE Siting!Intersects(f.area, placed)
    <3>1. Siting!Squared(p, p) <= 2
      BY <2>1, <2>2
    <3> QED
      BY <3>1 DEF Siting!Intersects
  <2> QED
    BY <1>2, <2>3 DEF Siting!Removed, Siting!Kept
<1> QED
  BY <1>2, <1>4, <1>5, <1>6, SitingCount DEF Siting!PlacementIsExact, at
-----------------------------------------------------------------------------
\* No road is nearer to a site than the one it is entered from.
LEMMA AccessIsAlwaysNearest ==
  ASSUME NEW site \in SUBSET Plane, site # {},
         NEW roads, \A r \in roads : r.area \in SUBSET Plane /\ r.area # {}
  PROVE  Siting!AccessIsNearest(site, roads)
<1> DEFINE Away(r) == Siting!SquaredGap(site, r.area)
           nearest == {q \in roads : \A o \in roads : Away(q) <= Away(o)}
<1>1. \A r \in roads : Away(r) \in Nat
  BY GapIs
<1>2. Siting!AccessRoads(site, roads)
        = {[to |-> r.id, confirm |-> r.network = "backbone"] : r \in nearest}
  BY DEF Siting!AccessRoads
<1>3. ASSUME roads # {} PROVE nearest # {}
  <2> DEFINE T == {Away(r) : r \in roads}
  <2>1. T \subseteq Nat /\ T # {} /\ \A r \in roads : Away(r) \in T
    BY <1>1, <1>3
  <2>2. PICK g \in T : \A h \in T : h >= g
    <3> HIDE DEF T
    <3> QED
      BY <2>1, LeastOne
  <2>3. PICK q \in roads : g = Away(q)
    OBVIOUS
  <2>4. ASSUME NEW o \in roads PROVE Away(q) <= Away(o)
    <3>1. Away(o) >= Away(q)
      BY <2>1, <2>2, <2>3, <2>4
    <3> QED
      BY <1>1, <2>3, <2>4, <3>1
  <2> QED
    BY <2>3, <2>4
<1>4. ASSUME NEW a \in Siting!AccessRoads(site, roads)
      PROVE  \E r \in roads : /\ r.id = a.to /\ (a.confirm <=> r.network = "backbone")
                              /\ ~\E o \in roads : Away(o) < Away(r)
  <2>1. PICK r \in nearest : a = [to |-> r.id, confirm |-> r.network = "backbone"]
    BY <1>2
  <2>2. a.to = r.id /\ a.confirm = (r.network = "backbone")
    BY <2>1
  <2>3. ~\E o \in roads : Away(o) < Away(r)
    BY <1>1
  <2> QED
    BY <2>2, <2>3
<1>5. Siting!AccessRoads(site, roads) # {} <=> roads # {}
  BY <1>2, <1>3, ZenonT(30)
<1> QED
  BY <1>4, <1>5 DEF Siting!AccessIsNearest
-----------------------------------------------------------------------------
\* Zones that do not overlap give one answer, which calculated ones do not change.
LEMMA OneZoneAlwaysAnswers ==
  ASSUME NEW zones, NEW p \in Plane, NEW type
  PROVE  Siting!OneZoneAnswers(zones, p, type)
<1> DEFINE there == Siting!PzzZonesAt(zones, p)
<1>1. ASSUME \A y, z \in zones : y = z \/ y.area \cap z.area = {} PROVE Cardinality(there) <= 1
  <2>1. \A y, z \in there : y = z
    BY <1>1 DEF Siting!PzzZonesAt
  <2> HIDE DEF there
  <2>2. CASE there = {}
    BY <2>2, FS_EmptySet
  <2>3. CASE there # {}
    <3>1. PICK z : there = {z}
      BY <2>1, <2>3
    <3>2. Cardinality({z}) = 1
      BY FS_Singleton
    <3> QED
      BY <3>1, <3>2
  <2> QED
    BY <2>2, <2>3
<1>2. Siting!NeedsCalculation(zones, {p}, type) = Siting!NeedsCalculation({z \in zones : z.official}, {p}, type)
  BY DEF Siting!NeedsCalculation
<1>3. ASSUME NEW z \in there, z.official PROVE ~Siting!NeedsCalculation(zones, {p}, z.type)
  <2>1. Siting!Squared(p, p) <= 2
    BY DEF Siting!Squared, Plane
  <2>2. z \in zones /\ Siting!Intersects(z.area, {p})
    BY <2>1 DEF Siting!PzzZonesAt, Siting!Intersects
  <2> QED
    BY <1>3, <2>2 DEF Siting!NeedsCalculation
<1> QED
  BY <1>1, <1>2, <1>3, SitingCount DEF Siting!OneZoneAnswers
-----------------------------------------------------------------------------
IsText(t) == t.at \in Plane /\ t.height \in Int

\* The height that is read stands on a text within the distance, if any names one.
LEMMA NearbyIsThere ==
  ASSUME NEW texts, DOMAIN texts \subseteq Nat, IsFiniteSet(DOMAIN texts), \A i \in DOMAIN texts : IsText(texts[i]),
         NEW p \in Plane, NEW snap \in Int, Siting!NearbyText(texts, p, snap) # Siting!NoLimit
  PROVE  \E i \in DOMAIN texts : /\ Siting!Squared(texts[i].at, p) <= snap * snap
                                 /\ texts[i].height = Siting!NearbyText(texts, p, snap)
<1> DEFINE Away(i) == Siting!Squared(texts[i].at, p)
           near == {i \in DOMAIN texts : Away(i) <= snap * snap}
           best == {i \in near : \A j \in near : Away(i) <= Away(j)}
<1>1. Siting!NearbyText(texts, p, snap) = IF near = {} THEN Siting!NoLimit ELSE texts[Max(best)].height
  BY SitingMax DEF Siting!NearbyText
<1>2. near # {}
  BY <1>1
<1>3. \A i \in DOMAIN texts : Away(i) \in Nat
  BY SquaredType DEF IsText
<1>4. best # {}
  <2> DEFINE T == {Away(i) : i \in near}
  <2>1. T \subseteq Nat /\ T # {} /\ \A i \in near : Away(i) \in T
    BY <1>2, <1>3
  <2>2. PICK g \in T : \A h \in T : h >= g
    <3> HIDE DEF T
    <3> QED
      BY <2>1, LeastOne
  <2>3. PICK i \in near : g = Away(i)
    OBVIOUS
  <2>4. ASSUME NEW j \in near PROVE Away(i) <= Away(j)
    <3>1. Away(j) >= Away(i)
      BY <2>1, <2>2, <2>3, <2>4
    <3> QED
      BY <1>3, <2>3, <2>4, <3>1
  <2> QED
    BY <2>3, <2>4
<1>5. best \in SUBSET DOMAIN texts /\ best \subseteq Int /\ IsFiniteSet(best)
  <2>1. best \in SUBSET DOMAIN texts
    OBVIOUS
  <2> HIDE DEF best
  <2> QED
    BY <2>1, FS_Subset
<1>6. Max(best) \in best
  <2> HIDE DEF best
  <2> QED
    BY <1>4, <1>5, MaxIs
<1>7. Max(best) \in near
  BY <1>6
<1> QED
  BY <1>1, <1>2, <1>7

\* A depth that is said to be a fact stands on a label that is near enough.
LEMMA DepthsAreAlwaysHonest ==
  ASSUME NEW layer, NEW middle \in Plane, NEW snap \in Int,
         NEW texts, DOMAIN texts \subseteq Nat, IsFiniteSet(DOMAIN texts), \A i \in DOMAIN texts : IsText(texts[i])
  PROVE  Siting!DepthsAreHonest(layer, middle, texts, snap)
<1> DEFINE s == Siting!ImportedSegment(layer, middle, texts, snap)
           label == Siting!NearbyText(texts, middle, snap)
           norm == Siting!NORMATIVE_DEPTH
<1>1. \A t \in DOMAIN norm : norm[t] \in 7..18
  BY DEF Siting!NORMATIVE_DEPTH
<1>2. CASE label # Siting!NoLimit
  <2>1. s.source = "fact" /\ s.height = label
    BY <1>2 DEF Siting!ImportedSegment
  <2>2. \E i \in DOMAIN texts : /\ Siting!Squared(texts[i].at, middle) <= snap * snap
                                /\ texts[i].height = label
    BY <1>2, NearbyIsThere
  <2> HIDE DEF s, label
  <2>3. \E i \in DOMAIN texts : /\ Siting!Squared(texts[i].at, middle) <= snap * snap
                                /\ texts[i].height = s.height /\ label = s.height
    BY <2>1, <2>2
  <2> QED
    BY <2>1, <2>3 DEF Siting!DepthsAreHonest, s, label
<1>3. CASE label = Siting!NoLimit
  <2>1. s.source = "norm" /\ s.height = IF layer \in DOMAIN norm THEN -norm[layer] ELSE 0
    <3>1. s.source = "norm"
      BY <1>3 DEF Siting!ImportedSegment
    <3>2. CASE layer \in DOMAIN norm
      BY <1>3, <3>2 DEF Siting!ImportedSegment
    <3>3. CASE layer \notin DOMAIN norm
      BY <1>3, <3>3 DEF Siting!ImportedSegment
    <3> QED
      BY <3>1, <3>2, <3>3
  <2>2. label = -1
    BY <1>3 DEF Siting!NoLimit
  <2> HIDE DEF s, label
  <2>3. label # s.height
    BY <1>1, <2>1, <2>2
  <2>4. layer \notin Siting!UnmatchedLayers({layer}) => s.height < 0
    BY <1>1, <2>1 DEF Siting!UnmatchedLayers
  <2> QED
    BY <2>1, <2>3, <2>4 DEF Siting!DepthsAreHonest, s, label
<1> QED
  BY <1>2, <1>3
-----------------------------------------------------------------------------
\* Rows with values that grow, to one beyond them all.
Growing(table, beyond) ==
  /\ DOMAIN table \subseteq Nat /\ beyond \in Int
  /\ \A i \in DOMAIN table : table[i][1] \in Int /\ table[i][2] \in Int /\ table[i][2] <= beyond
  /\ \A i, j \in DOMAIN table : i <= j => table[i][2] <= table[j][2]

\* The first row that reaches the value, or what is beyond.
LEMMA FirstReachingIs ==
  ASSUME NEW table, NEW beyond, DOMAIN table \subseteq Nat, NEW v
  PROVE  \/ /\ \A j \in DOMAIN table : ~ (v <= table[j][1])
            /\ Siting!FirstReaching(table, v, beyond) = beyond
         \/ \E i \in DOMAIN table : /\ v <= table[i][1]
                                    /\ \A j \in DOMAIN table : v <= table[j][1] => i <= j
                                    /\ Siting!FirstReaching(table, v, beyond) = table[i][2]
<1> DEFINE rows == {i \in DOMAIN table : v <= table[i][1]}
<1>1. Siting!FirstReaching(table, v, beyond) = IF rows = {} THEN beyond ELSE table[Min(rows)][2]
  BY SitingMin DEF Siting!FirstReaching
<1>2. CASE rows = {}
  BY <1>1, <1>2
<1>3. CASE rows # {}
  <2>1. rows \subseteq Nat
    OBVIOUS
  <2>2. Min(rows) \in rows /\ \A y \in rows : Min(rows) <= y
    <3> HIDE DEF rows
    <3> QED
      BY <1>3, <2>1, MinOfNaturals
  <2>3. \A j \in DOMAIN table : v <= table[j][1] => Min(rows) <= j
    BY <2>2
  <2> QED
    BY <1>1, <1>3, <2>2, <2>3
<1> QED
  BY <1>2, <1>3

\* In a table that grows, who is later has no smaller norm.
LEMMA FirstReachingGrows ==
  ASSUME NEW table, NEW beyond, Growing(table, beyond), NEW v \in Int, NEW w \in Int, v <= w
  PROVE  Siting!FirstReaching(table, v, beyond) <= Siting!FirstReaching(table, w, beyond)
<1> USE DEF Growing
<1> DEFINE first == Siting!FirstReaching(table, v, beyond)
           second == Siting!FirstReaching(table, w, beyond)
<1>1. \/ /\ \A j \in DOMAIN table : ~ (v <= table[j][1])
         /\ first = beyond
      \/ \E i \in DOMAIN table : /\ v <= table[i][1]
                                 /\ \A j \in DOMAIN table : v <= table[j][1] => i <= j
                                 /\ first = table[i][2]
  BY FirstReachingIs
<1>2. \/ /\ \A j \in DOMAIN table : ~ (w <= table[j][1])
         /\ second = beyond
      \/ \E i \in DOMAIN table : /\ w <= table[i][1]
                                 /\ \A j \in DOMAIN table : w <= table[j][1] => i <= j
                                 /\ second = table[i][2]
  BY FirstReachingIs
<1> HIDE DEF first, second
<1>3. first <= beyond
  BY <1>1
<1>4. ASSUME second = beyond PROVE first <= second
  BY <1>3, <1>4
<1>5. ASSUME NEW k \in DOMAIN table, w <= table[k][1], second = table[k][2] PROVE first <= second
  <2>1. v <= table[k][1]
    BY <1>5
  <2>2. PICK i \in DOMAIN table : i <= k /\ first = table[i][2]
    BY <1>1, <2>1
  <2> QED
    BY <1>5, <2>2
<1> QED
  BY <1>2, <1>4, <1>5 DEF first, second
-----------------------------------------------------------------------------
\* The rows of two, three or one classes.
LEMMA ZonesAlwaysGrow ==
  ASSUME NEW v \in Int, NEW w \in Int, v <= w
  PROVE  /\ Siting!CemeterySzz(v) <= Siting!CemeterySzz(w)
         /\ Siting!WaterProtectionZone(v) <= Siting!WaterProtectionZone(w)
         /\ \A t \in DOMAIN Siting!NetworkZones :
              Siting!NetworkProtectionZone(t, v) <= Siting!NetworkProtectionZone(t, w)
<1> DEFINE cemetery == <<<<10, 50>>, <<20, 100>>, <<40, 300>>>>
           water == <<<<10, 50>>, <<50, 100>>>>
<1>1. Growing(cemetery, 300)
  BY DEF Growing
<1>2. Growing(water, 200)
  BY DEF Growing
<1>3. Siting!CemeterySzz(v) <= Siting!CemeterySzz(w)
  <2>1. \A u : Siting!CemeterySzz(u) = Siting!FirstReaching(cemetery, u, 300)
    BY DEF Siting!CemeterySzz
  <2> HIDE DEF cemetery
  <2>2. Siting!FirstReaching(cemetery, v, 300) <= Siting!FirstReaching(cemetery, w, 300)
    BY <1>1, FirstReachingGrows
  <2> QED
    BY <2>1, <2>2
<1>4. Siting!WaterProtectionZone(v) <= Siting!WaterProtectionZone(w)
  <2>1. \A u : Siting!WaterProtectionZone(u) = Siting!FirstReaching(water, u, 200)
    BY DEF Siting!WaterProtectionZone
  <2> HIDE DEF water
  <2>2. Siting!FirstReaching(water, v, 200) <= Siting!FirstReaching(water, w, 200)
    BY <1>2, FirstReachingGrows
  <2> QED
    BY <2>1, <2>2
<1>5. ASSUME NEW t \in DOMAIN Siting!NetworkZones
      PROVE  Siting!NetworkProtectionZone(t, v) <= Siting!NetworkProtectionZone(t, w)
  <2> DEFINE table == Siting!NetworkZones[t]
             last == table[Len(table)][2]
  <2>1. Growing(table, last)
    <3>1. t \in {"V", "K", "T", "G", "Kl"}
      BY DEF Siting!NetworkZones
    <3>2. CASE t \in {"V", "K"}
      <4>1. table = <<<<300, 5>>, <<1000000, 10>>>>
        BY <3>2 DEF Siting!NetworkZones
      <4>2. last = 10
        BY <4>1
      <4> QED
        BY <4>1, <4>2 DEF Growing
    <3>3. CASE t = "T"
      <4>1. table = <<<<1000000, 3>>>>
        BY <3>3 DEF Siting!NetworkZones
      <4>2. last = 3
        BY <4>1
      <4> QED
        BY <4>1, <4>2 DEF Growing
    <3>4. CASE t = "G"
      <4>1. table = <<<<300, 2>>, <<1000000, 7>>>>
        BY <3>4 DEF Siting!NetworkZones
      <4>2. last = 7
        BY <4>1
      <4> QED
        BY <4>1, <4>2 DEF Growing
    <3>5. CASE t = "Kl"
      <4>1. table = <<<<1000000, 1>>>>
        BY <3>5 DEF Siting!NetworkZones
      <4>2. last = 1
        BY <4>1
      <4> QED
        BY <4>1, <4>2 DEF Growing
    <3> QED
      BY <3>1, <3>2, <3>3, <3>4, <3>5
  <2>2. \A u : Siting!NetworkProtectionZone(t, u) = Siting!FirstReaching(table, u, last)
    BY DEF Siting!NetworkProtectionZone
  <2> HIDE DEF table, last
  <2>3. Siting!FirstReaching(table, v, last) <= Siting!FirstReaching(table, w, last)
    BY <2>1, FirstReachingGrows
  <2> QED
    BY <2>2, <2>3
<1> QED
  BY <1>3, <1>4, <1>5

\* The first row that reaches the value, of two rows.
LEMMA FirstOfTwo ==
  ASSUME NEW table, DOMAIN table = 1..2, NEW v \in Int, NEW beyond,
         table[1][1] \in Int, table[2][1] \in Int
  PROVE  /\ v <= table[1][1] => Siting!FirstReaching(table, v, beyond) = table[1][2]
         /\ ~(v <= table[1][1]) /\ v <= table[2][1] => Siting!FirstReaching(table, v, beyond) = table[2][2]
         /\ ~(v <= table[1][1]) /\ ~(v <= table[2][1]) => Siting!FirstReaching(table, v, beyond) = beyond
<1> DEFINE answer == Siting!FirstReaching(table, v, beyond)
<1>1. DOMAIN table \subseteq Nat
  OBVIOUS
<1>2. \/ (\A j \in DOMAIN table : ~(v <= table[j][1])) /\ answer = beyond
      \/ \E i \in DOMAIN table : /\ v <= table[i][1]
                                  /\ \A j \in DOMAIN table : v <= table[j][1] => i <= j
                                  /\ answer = table[i][2]
  BY <1>1, FirstReachingIs
<1> HIDE DEF answer
<1>3. answer = beyond \/ answer = table[1][2] \/ answer = table[2][2]
  BY <1>2
<1> QED
  BY <1>2, <1>3 DEF answer

\* The limits of the classes belong to the lower one.
LEMMA BoundsOfTheNorms ==
  ASSUME NEW v \in Int
  PROVE  /\ Siting!CemeterySzz(v) = 50 <=> v <= 10
         /\ Siting!CemeterySzz(v) = 300 <=> 20 < v
         /\ Siting!WaterProtectionZone(v) = 50 <=> v <= 10
         /\ Siting!WaterProtectionZone(v) = 200 <=> 50 < v
         /\ Siting!NetworkProtectionZone("V", v) = 5 <=> v <= 300
         /\ Siting!NetworkProtectionZone("K", v) = 5 <=> v <= 300
         /\ Siting!NetworkProtectionZone("G", v) = 2 <=> v <= 300
<1>1. /\ Siting!CemeterySzz(v) = 50 <=> v <= 10
      /\ Siting!CemeterySzz(v) = 300 <=> 20 < v
  <2> DEFINE table == <<<<10, 50>>, <<20, 100>>, <<40, 300>>>>
             beyond == 300
  <2>1. DOMAIN table = 1..3 /\ table[1] = <<10, 50>> /\ table[2] = <<20, 100>> /\ table[3] = <<40, 300>>
    OBVIOUS
  <2>2. Siting!CemeterySzz(v) = Siting!FirstReaching(table, v, beyond)
    BY DEF Siting!CemeterySzz
  <2> HIDE DEF table
  <2>3. beyond = 300
    OBVIOUS
  <2> HIDE DEF beyond
  <2>4. \/ (\A j \in DOMAIN table : ~(v <= table[j][1])) /\ Siting!FirstReaching(table, v, beyond) = beyond
        \/ \E i \in DOMAIN table : /\ v <= table[i][1]
                                    /\ \A j \in DOMAIN table : v <= table[j][1] => i <= j
                                    /\ Siting!FirstReaching(table, v, beyond) = table[i][2]
    <3>1. DOMAIN table \subseteq Nat
      BY <2>1
    <3> QED
      BY <3>1, FirstReachingIs
  <2>5. CASE (\A j \in DOMAIN table : ~(v <= table[j][1])) /\ Siting!FirstReaching(table, v, beyond) = beyond
    <3>1. table[2][1] = 20 /\ 2 \in DOMAIN table
      BY <2>1
    <3>2. ~(v <= 20)
      BY <2>5, <3>1
    <3> QED
      BY <2>2, <2>3, <2>5, <3>2
  <2>6. CASE \E i \in DOMAIN table : /\ v <= table[i][1]
                                     /\ \A j \in DOMAIN table : v <= table[j][1] => i <= j
                                     /\ Siting!FirstReaching(table, v, beyond) = table[i][2]
    <3>1. PICK i \in DOMAIN table : /\ v <= table[i][1]
                                    /\ \A j \in DOMAIN table : v <= table[j][1] => i <= j
                                    /\ Siting!FirstReaching(table, v, beyond) = table[i][2]
      BY <2>6
    <3>2. i \in {1, 2, 3}
      BY <2>1
    <3>3. v <= 10 => i = 1
      BY <2>1, <3>1, <3>2
    <3>4. v <= 20 => i # 3
      BY <2>1, <3>1, <3>2
    <3> QED
      BY <2>1, <2>2, <2>3, <3>1, <3>2, <3>3, <3>4
  <2> QED
    BY <2>4, <2>5, <2>6
<1>2. /\ Siting!WaterProtectionZone(v) = 50 <=> v <= 10
      /\ Siting!WaterProtectionZone(v) = 200 <=> 50 < v
  <2> DEFINE table == <<<<10, 50>>, <<50, 100>>>>
  <2>1. DOMAIN table = 1..2 /\ table[1] = <<10, 50>> /\ table[2] = <<50, 100>>
    OBVIOUS
  <2>2. Siting!WaterProtectionZone(v) = Siting!FirstReaching(table, v, 200)
    BY DEF Siting!WaterProtectionZone
  <2> HIDE DEF table
  <2>3. /\ v <= 10 => Siting!FirstReaching(table, v, 200) = 50
        /\ ~(v <= 10) /\ v <= 50 => Siting!FirstReaching(table, v, 200) = 100
        /\ ~(v <= 10) /\ ~(v <= 50) => Siting!FirstReaching(table, v, 200) = 200
    <3>1. table[1][1] = 10 /\ table[1][2] = 50 /\ table[2][1] = 50 /\ table[2][2] = 100
      BY <2>1
    <3> QED
      BY <2>1, <3>1, FirstOfTwo
  <2> QED
    BY <2>2, <2>3
<1>3. ASSUME NEW t \in {"V", "K"} PROVE Siting!NetworkProtectionZone(t, v) = 5 <=> v <= 300
  <2> DEFINE table == Siting!NetworkZones[t]
  <2>1. table = <<<<300, 5>>, <<1000000, 10>>>>
    BY <1>3 DEF Siting!NetworkZones
  <2>2. DOMAIN table = 1..2 /\ table[1] = <<300, 5>> /\ table[2] = <<1000000, 10>> /\ Len(table) = 2
    BY <2>1
  <2>3. Siting!NetworkProtectionZone(t, v) = Siting!FirstReaching(table, v, 10)
    BY <2>2 DEF Siting!NetworkProtectionZone
  <2> HIDE DEF table
  <2>4. /\ v <= 300 => Siting!FirstReaching(table, v, 10) = 5
        /\ ~(v <= 300) => Siting!FirstReaching(table, v, 10) = 10
    <3>1. table[1][1] = 300 /\ table[1][2] = 5 /\ table[2][1] = 1000000 /\ table[2][2] = 10
      BY <2>2
    <3> QED
      BY <2>2, <3>1, FirstOfTwo
  <2> QED
    BY <2>3, <2>4
<1>4. Siting!NetworkProtectionZone("G", v) = 2 <=> v <= 300
  <2> DEFINE table == Siting!NetworkZones["G"]
  <2>1. table = <<<<300, 2>>, <<1000000, 7>>>>
    BY DEF Siting!NetworkZones
  <2>2. DOMAIN table = 1..2 /\ table[1] = <<300, 2>> /\ table[2] = <<1000000, 7>> /\ Len(table) = 2
    BY <2>1
  <2>3. Siting!NetworkProtectionZone("G", v) = Siting!FirstReaching(table, v, 7)
    BY <2>2 DEF Siting!NetworkProtectionZone
  <2> HIDE DEF table
  <2>4. /\ v <= 300 => Siting!FirstReaching(table, v, 7) = 2
        /\ ~(v <= 300) => Siting!FirstReaching(table, v, 7) = 7
    <3>1. table[1][1] = 300 /\ table[1][2] = 2 /\ table[2][1] = 1000000 /\ table[2][2] = 7
      BY <2>2
    <3> QED
      BY <2>2, <3>1, FirstOfTwo
  <2> QED
    BY <2>3, <2>4
<1> QED
  BY <1>1, <1>2, <1>3, <1>4

\* A row for each pair, one way around.
LEMMA FireBreakIsSymmetric ==
  ASSUME NEW a, NEW b
  PROVE  Siting!CheckFireBreak(a, b) = Siting!CheckFireBreak(b, a)
<1> DEFINE row(x, y) == {r \in Siting!Range(Siting!FIRE_BREAK) : r[1] = x /\ r[2] = y}
           found(x, y) == IF row(x, y) # {} THEN row(x, y) ELSE row(y, x)
           Rows == {<<"I-II", "I-II", 6>>, <<"I-II", "III", 8>>, <<"I-II", "IV-V", 10>>,
                    <<"III", "III", 8>>, <<"III", "IV-V", 10>>, <<"IV-V", "IV-V", 15>>}
<1>1. Siting!Range(Siting!FIRE_BREAK) \subseteq Rows
  <2> DEFINE T == Siting!FIRE_BREAK
  <2>1. /\ DOMAIN T = 1..6
        /\ T[1] \in Rows /\ T[2] \in Rows /\ T[3] \in Rows /\ T[4] \in Rows /\ T[5] \in Rows /\ T[6] \in Rows
    BY DEF Siting!FIRE_BREAK
  <2> HIDE DEF T, Rows
  <2>2. \A i \in DOMAIN T : T[i] \in Rows
    BY <2>1
  <2>3. Siting!Range(T) \subseteq Rows
    BY <2>2 DEF Siting!Range
  <2> QED
    BY <2>3 DEF T
<1>2. \A r \in Rows : \/ r[1] = "I-II"
                      \/ r[1] = "III" /\ r[2] \in {"III", "IV-V"}
                      \/ r[1] = "IV-V" /\ r[2] = "IV-V"
  <2> SUFFICES ASSUME NEW r \in Rows
               PROVE  \/ r[1] = "I-II"
                      \/ r[1] = "III" /\ r[2] \in {"III", "IV-V"}
                      \/ r[1] = "IV-V" /\ r[2] = "IV-V"
    OBVIOUS
  <2>1. CASE r = <<"I-II", "I-II", 6>> \/ r = <<"I-II", "III", 8>> \/ r = <<"I-II", "IV-V", 10>>
    BY <2>1
  <2>2. CASE r = <<"III", "III", 8>> \/ r = <<"III", "IV-V", 10>>
    BY <2>2
  <2>3. CASE r = <<"IV-V", "IV-V", 15>>
    BY <2>3
  <2> QED
    BY <2>1, <2>2, <2>3
<1>3. ASSUME a # b, row(a, b) # {}, row(b, a) # {} PROVE FALSE
  <2>1. PICK r \in row(a, b) : TRUE
    BY <1>3
  <2>2. PICK s \in row(b, a) : TRUE
    BY <1>3
  <2>3. r \in Rows /\ s \in Rows /\ r[1] = a /\ r[2] = b /\ s[1] = b /\ s[2] = a
    BY <1>1, <2>1, <2>2
  <2> HIDE DEF Rows
  <2> QED
    BY <1>2, <1>3, <2>3
<1>4. found(a, b) = found(b, a)
  <2> HIDE DEF row
  <2> QED
    BY <1>3
<1>5. /\ Siting!CheckFireBreak(a, b) = (CHOOSE r \in found(a, b) : TRUE)[3]
      /\ Siting!CheckFireBreak(b, a) = (CHOOSE r \in found(b, a) : TRUE)[3]
  BY DEF Siting!CheckFireBreak
<1> QED
  <2> HIDE DEF found
  <2> QED
    BY <1>4, <1>5

\* Norms grow with what they protect from, each limit is of the class below it, and a fire
\* break is the same for both sides.
LEMMA NormsAreAlwaysOrdered ==
  ASSUME NEW v \in Int, NEW w \in Int, NEW a, NEW b
  PROVE  Siting!NormsAreOrdered(v, w, a, b)
<1>1. ASSUME v <= w PROVE Siting!CoastalStrip(TRUE, v) <= Siting!CoastalStrip(TRUE, w)
  BY <1>1 DEF Siting!CoastalStrip
<1>2. Siting!CoastalStrip(FALSE, v) <= Siting!CoastalStrip(TRUE, w)
  BY DEF Siting!CoastalStrip
<1>3. v <= w => /\ Siting!CemeterySzz(v) <= Siting!CemeterySzz(w)
                /\ Siting!WaterProtectionZone(v) <= Siting!WaterProtectionZone(w)
                /\ \A t \in DOMAIN Siting!NetworkZones :
                     Siting!NetworkProtectionZone(t, v) <= Siting!NetworkProtectionZone(t, w)
  BY ZonesAlwaysGrow
<1>4. Siting!CheckFireBreak(a, b) = Siting!CheckFireBreak(b, a)
  BY FireBreakIsSymmetric
<1>5. /\ Siting!CoastalStrip(TRUE, v) = 30 <=> v <= 0
      /\ Siting!CoastalStrip(TRUE, v) = 50 <=> 3 <= v
  BY DEF Siting!CoastalStrip
<1>6. /\ Siting!CemeterySzz(v) = 50 <=> v <= 10
      /\ Siting!CemeterySzz(v) = 300 <=> 20 < v
      /\ Siting!WaterProtectionZone(v) = 50 <=> v <= 10
      /\ Siting!WaterProtectionZone(v) = 200 <=> 50 < v
      /\ Siting!NetworkProtectionZone("V", v) = 5 <=> v <= 300
      /\ Siting!NetworkProtectionZone("K", v) = 5 <=> v <= 300
      /\ Siting!NetworkProtectionZone("G", v) = 2 <=> v <= 300
  BY BoundsOfTheNorms
<1> QED
  BY <1>1, <1>2, <1>3, <1>4, <1>5, <1>6, Zenon DEF Siting!NormsAreOrdered
-----------------------------------------------------------------------------
\* A card lists the zones within its distance, the nearest first.
LEMMA CardIsAlwaysOrdered ==
  ASSUME NEW zones, IsFiniteSet(zones), \A z \in zones : z.area \in SUBSET Plane /\ z.area # {},
         NEW p \in Plane, NEW distance
  PROVE  Siting!CardIsOrdered(zones, p, distance)
<1> DEFINE Away(z) == Siting!SquaredGap(z.area, {p})
           near == {z \in zones : z.current /\ Away(z) <= distance * distance}
           listed == Siting!ZonesNear(zones, p, distance)
           card == Siting!PointCard(zones, p, distance)
           w == [z \in near |-> Away(z)]
<1>1. \A z \in zones : Away(z) \in Nat
  BY GapIs
<1>2. near \in SUBSET zones /\ IsFiniteSet(near)
  <2>1. near \in SUBSET zones
    OBVIOUS
  <2> HIDE DEF near
  <2> QED
    BY <2>1, FS_Subset
<1>3. \A z \in near : w[z] = Away(z)
  OBVIOUS
<1>4. Whole(w, near)
  <2>1. \A z \in near : w[z] \in Nat
    BY <1>1, <1>3
  <2> HIDE DEF w, near
  <2> QED
    BY <2>1 DEF Whole
<1> DEFINE Ordered(s) == \A i, j \in DOMAIN s : i < j => s[i] # s[j] /\ Away(s[i]) <= Away(s[j])
<1>5. listed = CHOOSE s \in [1..Cardinality(near) -> near] : Ordered(s)
  BY SitingCount DEF Siting!ZonesNear
<1> HIDE DEF w, near, listed
<1>6. listed \in [1..Cardinality(near) -> near] /\ Ordered(listed)
  <2>1. PICK s : Sorts(s, w, near)
    BY <1>2, <1>4, SortExists
  <2>2. s \in [1..Cardinality(near) -> near] /\ DOMAIN s = 1..Cardinality(near)
    BY <2>1 DEF Sorts
  <2>3. ASSUME NEW i \in DOMAIN s, NEW j \in DOMAIN s, i < j PROVE s[i] # s[j] /\ Away(s[i]) <= Away(s[j])
    <3>1. s[i] # s[j] /\ w[s[i]] <= w[s[j]]
      BY <2>1, <2>2, <2>3 DEF Sorts
    <3>2. w[s[i]] = Away(s[i]) /\ w[s[j]] = Away(s[j])
      BY <1>3, <2>2, <2>3
    <3> QED
      BY <3>1, <3>2
  <2>4. Ordered(s)
    BY <2>3
  <2> HIDE DEF Ordered
  <2> QED
    BY <1>5, <2>2, <2>4
<1>7. Sorts(listed, w, near)
  <2>1. DOMAIN listed = 1..Cardinality(near) /\ \A i \in DOMAIN listed : w[listed[i]] = Away(listed[i])
    BY <1>3, <1>6
  <2>2. ASSUME NEW i \in DOMAIN listed, NEW j \in DOMAIN listed, i < j
        PROVE  listed[i] # listed[j] /\ w[listed[i]] <= w[listed[j]]
    BY <1>6, <2>1, <2>2
  <2> QED
    BY <1>6, <2>1, <2>2 DEF Sorts
<1>8. {listed[i] : i \in DOMAIN listed} = near
  BY <1>2, <1>7, SortIsOnto
<1>9. /\ card.restrictions = [i \in DOMAIN listed |-> listed[i].id]
      /\ card.sources = [i \in DOMAIN listed |-> listed[i].id]
      /\ card.links = {listed[i].id : i \in {j \in DOMAIN listed : listed[j].document}}
  BY DEF Siting!PointCard, listed
<1> HIDE DEF card
<1>10. Siting!Range(listed) = near
  BY <1>8 DEF Siting!Range
<1>11. Siting!Range(card.restrictions) = {z.id : z \in near}
  <2> DEFINE f == [i \in DOMAIN listed |-> listed[i].id]
  <2>1. Siting!Range(f) = {listed[i].id : i \in DOMAIN listed}
    BY DEF Siting!Range
  <2>2. {listed[i].id : i \in DOMAIN listed} = {z.id : z \in near}
    BY <1>8
  <2> QED
    BY <1>9, <2>1, <2>2
<1>12. card.links = {z.id : z \in {y \in near : y.document}}
  BY <1>8, <1>9
<1>13. card.links \subseteq Siting!Range(card.sources)
  <2> DEFINE f == [i \in DOMAIN listed |-> listed[i].id]
  <2>1. Siting!Range(f) = {listed[i].id : i \in DOMAIN listed}
    BY DEF Siting!Range
  <2> QED
    BY <1>9, <2>1
<1>14. \A i, j \in DOMAIN listed : i < j => Away(listed[i]) <= Away(listed[j])
  BY <1>6
<1> QED
  BY <1>10, <1>11, <1>12, <1>13, <1>14 DEF Siting!CardIsOrdered, near, listed, card
-----------------------------------------------------------------------------
\* What is filled less what is cut is the difference of the levels, summed.
LEMMA EarthworksAlwaysBalance ==
  ASSUME NEW footprint, IsFiniteSet(footprint), NEW ring, IsFiniteSet(ring), NEW design \in Int,
         NEW relief, \A c \in DOMAIN relief : relief[c] \in Int, footprint \subseteq DOMAIN relief,
         NEW entrances \in Seq(DOMAIN relief), entrances # <<>>
  PROVE  Siting!EarthworksBalance(footprint, ring, design, relief, entrances)
<1> DEFINE at == [i \in DOMAIN entrances |-> relief[entrances[i]]]
           sum == Siting!DesignSum(entrances, relief)
<1>1. sum = SumOf(at, DOMAIN entrances)
  BY DEF Siting!DesignSum, Siting!FoldFunction, Siting!FoldFunctionOnSet, Siting!MapThenFoldSet,
         SumOf, FoldSet, MapThenFoldSet
<1>2. /\ DOMAIN entrances = 1..Len(entrances) /\ Len(entrances) \in Nat /\ Len(entrances) # 0
      /\ \A i \in DOMAIN entrances : entrances[i] \in DOMAIN relief
  BY EmptySeq
<1>3. IsFiniteSet(DOMAIN entrances) /\ Cardinality(DOMAIN entrances) = Len(entrances)
  <2>1. 1 \in Int /\ Len(entrances) \in Int
    BY <1>2
  <2>2. IsFiniteSet(1..Len(entrances)) /\ Cardinality(1..Len(entrances)) = IF 1 > Len(entrances) THEN 0 ELSE Len(entrances) - 1 + 1
    BY <2>1, FS_Interval
  <2> QED
    BY <1>2, <2>2
<1>4. \A i \in DOMAIN entrances : at[i] \in Int /\ at[i] = relief[entrances[i]]
  BY <1>2
<1> HIDE DEF at
<1>5. \E i, j \in DOMAIN entrances : /\ Len(entrances) * relief[entrances[i]] <= sum
                                     /\ sum <= Len(entrances) * relief[entrances[j]]
  <2> DEFINE V == {at[i] : i \in DOMAIN entrances}
  <2>1. V \subseteq Int /\ V # {} /\ \A i \in DOMAIN entrances : at[i] \in V
    BY <1>2, <1>4
  <2>2. IsFiniteSet(V)
    BY <1>3, FiniteImage
  <2>3. (\E x \in V : \A y \in V : x <= y) /\ (\E x \in V : \A y \in V : x >= y)
    <3> HIDE DEF V
    <3> QED
      BY <2>1, <2>2, FiniteBounds
  <2>4. PICK i \in DOMAIN entrances : \A y \in V : at[i] <= y
    BY <2>3
  <2>5. PICK j \in DOMAIN entrances : \A y \in V : at[j] >= y
    BY <2>3
  <2>6. \A k \in DOMAIN entrances : at[k] \in Int /\ at[i] <= at[k] /\ at[k] <= at[j]
    BY <1>4, <2>1, <2>4, <2>5
  <2>7. at[i] \in Int /\ at[j] \in Int
    BY <1>4
  <2>8. /\ Cardinality(DOMAIN entrances) * at[i] <= SumOf(at, DOMAIN entrances)
        /\ SumOf(at, DOMAIN entrances) <= Cardinality(DOMAIN entrances) * at[j]
    BY <1>3, <2>6, <2>7, SumIsBetween
  <2> QED
    BY <1>1, <1>3, <1>4, <2>8
<1>6. Siting!Fill(footprint, design, relief) - Siting!Cut(footprint, design, relief)
        = Siting!MapThenSumSet(LAMBDA c : design - relief[c], footprint)
  <2> DEFINE u == [c \in footprint |-> Siting!Positive(design - relief[c])]
             v == [c \in footprint |-> Siting!Positive(relief[c] - design)]
             d == [c \in footprint |-> design - relief[c]]
  <2>1. Siting!Fill(footprint, design, relief) = SumOf(u, footprint)
    BY DEF Siting!Fill, Siting!MapThenSumSet, Siting!MapThenFoldSet, SumOf, FoldSet, MapThenFoldSet
  <2>2. Siting!Cut(footprint, design, relief) = SumOf(v, footprint)
    BY DEF Siting!Cut, Siting!MapThenSumSet, Siting!MapThenFoldSet, SumOf, FoldSet, MapThenFoldSet
  <2>3. Siting!MapThenSumSet(LAMBDA c : design - relief[c], footprint) = SumOf(d, footprint)
    BY DEF Siting!MapThenSumSet, Siting!MapThenFoldSet, SumOf, FoldSet, MapThenFoldSet
  <2>4. Whole(u, footprint) /\ Whole(v, footprint) /\ \A c \in footprint : d[c] = u[c] - v[c]
    <3>1. ASSUME NEW c \in footprint
          PROVE  u[c] \in Int /\ v[c] \in Int /\ d[c] = u[c] - v[c]
      <4> DEFINE h == relief[c]
      <4>1. h \in Int
        OBVIOUS
      <4>2. /\ u[c] = IF design - h > 0 THEN design - h ELSE 0
            /\ v[c] = IF h - design > 0 THEN h - design ELSE 0
            /\ d[c] = design - h
        BY DEF Siting!Positive
      <4> HIDE DEF u, v, d, h
      <4> QED
        BY <4>1, <4>2
    <3> QED
      BY <3>1 DEF Whole
  <2> HIDE DEF u, v, d
  <2>5. SumOf(u, footprint) - SumOf(v, footprint) = SumOf(d, footprint)
    BY <2>4, SumDiffers
  <2> QED
    BY <2>1, <2>2, <2>3, <2>5
<1>7. ~Siting!RetainingWall(ring, design, relief).needed =>
        Siting!RetainingWall(ring, design, relief).maxDiff * Siting!DEFAULT_SLOPE_RATIO
          <= 2 * Siting!MAX_SLOPE_RUN_WITHOUT_WALL
  <2> DEFINE diffs == {Siting!Positive(design - relief[c]) + Siting!Positive(relief[c] - design) :
                         c \in ring \cap DOMAIN relief}
             wall == Siting!RetainingWall(ring, design, relief)
  <2>1. /\ wall.needed = \E d \in diffs : d * 3 > 10
        /\ wall.maxDiff = Max(diffs \cup {0})
    BY SitingMax DEF Siting!RetainingWall, Siting!DEFAULT_SLOPE_RATIO, Siting!MAX_SLOPE_RUN_WITHOUT_WALL
  <2>2. diffs \subseteq Int
    BY DEF Siting!Positive
  <2>3. IsFiniteSet(diffs \cup {0})
    <3> DEFINE here == ring \cap DOMAIN relief
               f == [c \in here |-> Siting!Positive(design - relief[c]) + Siting!Positive(relief[c] - design)]
    <3>1. IsFiniteSet(here)
      BY FS_Intersection
    <3>2. diffs = {f[c] : c \in here}
      OBVIOUS
    <3> HIDE DEF here, f, diffs
    <3>3. IsFiniteSet(diffs)
      BY <3>1, <3>2, FiniteImage
    <3> QED
      BY <3>3, FS_AddElement
  <2> HIDE DEF diffs, wall
  <2>4. Max(diffs \cup {0}) \in diffs \cup {0}
    <3>1. diffs \cup {0} \subseteq Int /\ diffs \cup {0} # {}
      BY <2>2
    <3> QED
      BY <2>3, <3>1, MaxIs
  <2>5. ASSUME ~wall.needed PROVE wall.maxDiff * 3 <= 10
    <3> DEFINE m == wall.maxDiff
    <3>1. \A d \in diffs : ~(d * 3 > 10)
      BY <2>1, <2>5
    <3>2. m \in diffs \/ m = 0
      BY <2>1, <2>4
    <3> HIDE DEF m
    <3>3. CASE m \in diffs
      <4>1. m \in Int /\ ~(m * 3 > 10)
        BY <2>2, <3>1, <3>3
      <4>2. m * 3 <= 10
        BY <4>1
      <4> QED
        BY <4>2 DEF m
    <3>4. CASE m = 0
      <4>1. m * 3 <= 10
        BY <3>4
      <4> QED
        BY <4>1 DEF m
    <3> QED
      BY <3>2, <3>3, <3>4
  <2> QED
    BY <2>5 DEF wall, Siting!DEFAULT_SLOPE_RATIO, Siting!MAX_SLOPE_RUN_WITHOUT_WALL
<1> QED
  BY <1>5, <1>6, <1>7 DEF Siting!EarthworksBalance
-----------------------------------------------------------------------------
\* A building that the checks let through keeps every distance the norms ask for, wherever it
\* is placed the earth that is moved balances, the nearest road and the nearest label are the
\* ones that are taken, the card of a point lists all there is near it, and a zone by a norm
\* is as wide as its table has it on either side of each limit: for any site, zones, networks,
\* relief and drawing (SitingIsSafe).
THEOREM SitingIsAlwaysSafe == RulesSpec => []SitingIsSafe
<1>1. QuestionInv => SitingIsSafe
  <2> SUFFICES ASSUME QuestionInv PROVE SitingIsSafe
    OBVIOUS
  <2>1. ASSUME Asked("envelope")
        PROVE  Siting!EnvelopeIsSafe(given.site, given.pzz, given.zones, given.networks, given.clearance,
                                    given.footprint, given.plane)
    <3>1. given \in QuestionsOf("envelope")
      BY <2>1 DEF QuestionInv, Asked, QuestionsOf
    <3>2. /\ given.pzz.maxHeight \in Nat \cup {-1}
          /\ \A z \in given.zones : z.maxHeight \in Nat \cup {-1}
          /\ \A n \in given.networks : n.area \in SUBSET Plane
          /\ given.clearance \in Nat /\ given.footprint \in SUBSET Plane
      BY <3>1, SitingAssumption DEF Plane, Siting!NoLimit
    <3> QED
      BY <3>2, EnvelopeIsAlwaysSafe
  <2>2. ASSUME Asked("placement")
        PROVE  Siting!PlacementIsExact(given.footprint, given.origin, given.quarters, given.site, given.features)
    <3>1. given \in QuestionsOf("placement")
      BY <2>2 DEF QuestionInv, Asked, QuestionsOf
    <3>2. /\ given.footprint \in SUBSET Plane /\ IsFiniteSet(given.footprint)
          /\ given.origin \in Plane /\ given.quarters \in 0..3
      BY <3>1, SitingAssumption DEF Plane
    <3> QED
      BY <3>2, PlacementIsAlwaysExact
  <2>3. ASSUME Asked("access")
        PROVE  Siting!AccessIsNearest(given.site, given.roads)
    <3>1. given \in QuestionsOf("access")
      BY <2>3 DEF QuestionInv, Asked, QuestionsOf
    <3>2. /\ given.site \in SUBSET Plane /\ given.site # {}
          /\ \A r \in given.roads : r.area \in SUBSET Plane /\ r.area # {}
      BY <3>1, SitingAssumption DEF IsArea, Plane
    <3> QED
      BY <3>2, AccessIsAlwaysNearest
  <2>4. ASSUME Asked("earthworks")
        PROVE  Siting!EarthworksBalance(given.footprint, given.ring, given.design, given.relief, given.entrances)
    <3>1. given \in QuestionsOf("earthworks")
      BY <2>4 DEF QuestionInv, Asked, QuestionsOf
    <3>2. /\ IsFiniteSet(given.footprint) /\ IsFiniteSet(given.ring) /\ given.design \in Int
          /\ \A c \in DOMAIN given.relief : given.relief[c] \in Int
          /\ given.footprint \subseteq DOMAIN given.relief
          /\ given.entrances \in Seq(DOMAIN given.relief) /\ given.entrances # <<>>
      BY <3>1, SitingAssumption DEF Plane
    <3> QED
      BY <3>2, EarthworksAlwaysBalance
  <2>5. ASSUME Asked("norms")
        PROVE  Siting!NormsAreOrdered(given.v, given.w, given.a, given.b)
    <3>1. given \in QuestionsOf("norms")
      BY <2>5 DEF QuestionInv, Asked, QuestionsOf
    <3>2. given.v \in Int /\ given.w \in Int
      BY <3>1, SitingAssumption DEF Plane
    <3> QED
      BY <3>2, NormsAreAlwaysOrdered
  <2>6. ASSUME Asked("zones")
        PROVE  Siting!OneZoneAnswers(given.zones, given.point, given.type)
    <3>1. given \in QuestionsOf("zones")
      BY <2>6 DEF QuestionInv, Asked, QuestionsOf
    <3>2. given.point \in Plane
      BY <3>1, SitingAssumption DEF Plane
    <3> QED
      BY <3>2, OneZoneAlwaysAnswers
  <2>7. ASSUME Asked("card")
        PROVE  Siting!CardIsOrdered(given.zones, given.point, given.distance)
    <3>1. given \in QuestionsOf("card")
      BY <2>7 DEF QuestionInv, Asked, QuestionsOf
    <3>2. /\ IsFiniteSet(given.zones) /\ given.point \in Plane
          /\ \A z \in given.zones : z.area \in SUBSET Plane /\ z.area # {}
      BY <3>1, SitingAssumption DEF IsArea, Plane
    <3> QED
      BY <3>2, CardIsAlwaysOrdered
  <2>8. ASSUME Asked("depth")
        PROVE  Siting!DepthsAreHonest(given.layer, given.middle, given.texts, given.snap)
    <3>1. given \in QuestionsOf("depth")
      BY <2>8 DEF QuestionInv, Asked, QuestionsOf
    <3>2. /\ given.middle \in Plane /\ given.snap \in Int
          /\ given.texts \in Seq([at : Plane, height : Int])
      BY <3>1, SitingAssumption DEF Plane
    <3> DEFINE Text == [at : Plane, height : Int]
    <3>3. \A t \in Text : IsText(t)
      BY DEF IsText
    <3>8. given.texts \in Seq(Text)
      BY <3>2
    <3> HIDE DEF Text
    <3>4. /\ DOMAIN given.texts = 1..Len(given.texts) /\ Len(given.texts) \in Nat
          /\ \A i \in DOMAIN given.texts : given.texts[i] \in Text
      BY <3>8
    <3>5. IsFiniteSet(1..Len(given.texts))
      BY <3>4, FS_Interval
    <3>6. \A i \in DOMAIN given.texts : IsText(given.texts[i])
      BY <3>3, <3>4
    <3>7. DOMAIN given.texts \subseteq Nat /\ IsFiniteSet(DOMAIN given.texts)
      BY <3>4, <3>5
    <3> QED
      BY <3>2, <3>6, <3>7, DepthsAreAlwaysHonest
  <2> QED
    BY <2>1, <2>2, <2>3, <2>4, <2>5, <2>6, <2>7, <2>8 DEF SitingIsSafe
<1> QED
  BY <1>1, QuestionsAlways, PTL
-----------------------------------------------------------------------------
\* Every site has one terrain: whatever roads, water and buildings are cut into whatever
\* relief, no place has two heights, the most important feature wins and no background
\* shows inside of a zone (build_site_tin); a constant slope is kept by the smoothing of
\* the background and of the profiles (smooth_grid_elevations, _smoothed_profile).
THEOREM TerrainIsAlwaysOne == RulesSpec => []TerrainIsOne
<1>1. QuestionInv => TerrainIsOne
  <2> SUFFICES ASSUME QuestionInv PROVE TerrainIsOne
    OBVIOUS
  <2>1. ASSUME Asked("tin") PROVE TinIsConsistent(given.features, given.raster)
    <3>1. given \in QuestionsOf("tin")
      BY <2>1 DEF QuestionInv, Asked, QuestionsOf
    <3>2. AreFeatures(given.features) /\ IsRaster(given.raster)
      BY <3>1, TerrainAssumption
    <3> QED
      BY <3>2, TinIsAlwaysConsistent
  <2>2. ASSUME Asked("slope") PROVE SlopesAreKept(given.slope, given.raster, given.raw, given.known)
    <3>1. given \in QuestionsOf("slope")
      BY <2>2 DEF QuestionInv, Asked, QuestionsOf
    <3>2. /\ given.slope \in Int /\ IsRaster(given.raster) /\ given.raw \in Seq(Int)
          /\ given.known \in SUBSET DOMAIN given.raw
      BY <3>1, TerrainAssumption
    <3> QED
      BY <3>2, SlopesAreAlwaysKept
  <2> QED
    BY <2>1, <2>2 DEF TerrainIsOne
<1> QED
  BY <1>1, QuestionsAlways, PTL
-----------------------------------------------------------------------------
(* LandscapeFits.                                                           *)

\* Whatever green is asked about, every tree and shrub stands in its own polygon and there are
\* no more of them than the density asks for, however the draws fall, no tree on grass or scrub
\* and no shrub but on scrub (scatter_forest_trees, scatter_shrubs, build_lawns); a tree's species and height are facts
\* exactly when tags give them; streams that met meet when smoothed, a ring stays in its box
\* and a water area's level is not above its surface (water.py).
THEOREM LandscapeAlwaysFits == RulesSpec => []LandscapeFits
<1>1. QuestionInv => LandscapeFits
  <2> SUFFICES ASSUME QuestionInv PROVE LandscapeFits
    OBVIOUS
  <2>1. ASSUME Asked("green") PROVE Landscape!GreenIsSorted(given.features, given.draws)
    <3>1. given \in QuestionsOf("green")
      BY <2>1 DEF QuestionInv, Asked, QuestionsOf
    <3>2. \A f \in given.features : \A p \in f.polygons : IsFiniteSet(p) /\ given.draws[p] \in Seq(Int)
      BY <3>1, LandscapeAssumption
    <3> QED
      BY <3>2, GreenIsAlwaysSorted
  <2>2. ASSUME Asked("trees") PROVE Landscape!TreesAreHonest(given.tags, given.height)
    <3>1. given \in QuestionsOf("trees")
      BY <2>2 DEF QuestionInv, Asked, QuestionsOf
    <3>2. given.height \in Int
      BY <3>1, LandscapeAssumption
    <3> QED
      BY <3>2, TreesAreAlwaysHonest
  <2>3. ASSUME Asked("water") PROVE Landscape!WaterMeets(given.line, given.next, given.ring, given.area)
    <3>1. given \in QuestionsOf("water")
      BY <2>3 DEF QuestionInv, Asked, QuestionsOf
    <3>2. /\ {given.line, given.next} \subseteq Seq(Int \X Int) \ {<<>>}
          /\ given.ring \in Seq(Int \X Int)
          /\ given.area.ground \in Seq(Int) /\ given.area.profile \in Seq(Int)
      BY <3>1, LandscapeAssumption
    <3>3. given.line \in Seq(Int \X Int) /\ given.line # <<>> /\ given.next \in Seq(Int \X Int) /\ given.next # <<>>
      BY <3>2
    <3> QED
      BY <3>2, <3>3, WaterAlwaysMeets
  <2> QED
    BY <2>1, <2>2, <2>3 DEF LandscapeFits
<1> QED
  BY <1>1, QuestionsAlways, PTL
-----------------------------------------------------------------------------
(* LinesHold.                                                               *)

\* Whatever roads and lines are asked about: a road is drawn once and a deck is as high over
\* the crossings it is given as the norm of each asks (build_road_ribbons,
\* build_bridge_ribbons); a curb runs where a carriageway meets a pavement of one paved road and
\* nowhere else (build_lane_network); calculated poles hold a power line, and posts a fence,
\* from end to end, and every pole of a part has a wire unless it is the only one
\* (place_calculated_poles, build_wire_spans, _posts_along_line); catenary poles are a spacing
\* apart and the last is no more than that before the end, where there is none
\* (place_catenary_poles); a level crossing is as wide as the nearest track
\* (build_level_crossings).
THEOREM LinesAlwaysHold == RulesSpec => []LinesHold
<1>1. QuestionInv => LinesHold
  <2> SUFFICES ASSUME QuestionInv PROVE LinesHold
    OBVIOUS
  <2>1. ASSUME Asked("roads") PROVE Roads!RoadsAreWhole(given.features, given.bridge, given.crossings)
    <3>1. given \in QuestionsOf("roads")
      BY <2>1 DEF QuestionInv, Asked, QuestionsOf
    <3>2. /\ \A f, g \in given.features : f.id = g.id => f = g
          /\ \A f \in given.features : f.parts \in Nat /\ f.multi \in BOOLEAN
          /\ given.bridge.z0 \in Int /\ given.bridge.z1 \in Int /\ given.bridge.length \in Nat \ {0}
          /\ IsFiniteSet(given.crossings)
          /\ \A c \in given.crossings : c.kind \in {"road", "rail"} /\ c.at \in Int /\ c.ground \in Int
      BY <3>1, RoadsAssumption
    <3> QED
      BY <3>2, RoadsAreAlwaysWhole
  <2>2. ASSUME Asked("lanes") PROVE Roads!LanesFit(given.lanes, given.areas, given.tags, given.circle)
    <3>1. given \in QuestionsOf("lanes")
      BY <2>2 DEF QuestionInv, Asked, QuestionsOf
    <3>2. /\ \A l \in given.lanes : l \in [ways : Seq(Int), type : STRING, cells : SUBSET Int]
          /\ \A a \in given.areas : a \in [type : STRING, cells : SUBSET Int]
      BY <3>1, RoadsAssumption
    <3> QED
      BY <3>2, LanesAlwaysFit
  <2>3. ASSUME Asked("power") PROVE Linear!PowerIsHung(given.features)
    <3>1. given \in QuestionsOf("power")
      BY <2>3 DEF QuestionInv, Asked, QuestionsOf
    <3>2. /\ IsFiniteSet(given.features)
          /\ \A f, g \in given.features : f.id = g.id => f = g
          /\ \A f \in given.features :
               /\ f.at \in Int \X Int /\ IsFiniteSet(f.parts)
               /\ \A part \in f.parts : Linear!Spaced(part, Linear!CALCULATED_POLE_SPACING)
      BY <3>1, LinesAssumption
    <3> QED
      BY <3>2, PowerIsAlwaysHung
  <2>4. ASSUME Asked("wires") PROVE Linear!WiresAreEven(given.cables, given.span) /\ Linear!ZonesGrow(given.voltages)
    <3>1. given \in QuestionsOf("wires")
      BY <2>4 DEF QuestionInv, Asked, QuestionsOf
    <3>2. given.cables \in Int /\ given.span \in Nat /\ given.voltages \in SUBSET Int
      BY <3>1, LinesAssumption
    <3> QED
      BY <3>2, WiresAreAlwaysEven, VoltageZonesAlwaysGrow
  <2>5. ASSUME Asked("catenary") PROVE Linear!CatenaryHolds(given.line, given.length)
    <3>1. given \in QuestionsOf("catenary")
      BY <2>5 DEF QuestionInv, Asked, QuestionsOf
    <3>2. given.length \in Nat
      BY <3>1, LinesAssumption
    <3> QED
      BY <3>2, CatenaryAlwaysHolds
  <2>6. ASSUME Asked("fences") PROVE Linear!FencesHold(given.features)
    <3>1. given \in QuestionsOf("fences")
      BY <2>6 DEF QuestionInv, Asked, QuestionsOf
    <3>2. \A f \in given.features : \A part \in f.parts : Linear!Spaced(part, Linear!FENCE_POST_SPACING)
      BY <3>1, LinesAssumption
    <3> QED
      BY <3>2, FencesAlwaysHold
  <2>7. ASSUME Asked("stations") PROVE Linear!StationsStand(given.features)
    <3>1. given \in QuestionsOf("stations")
      BY <2>7 DEF QuestionInv, Asked, QuestionsOf
    <3>2. \A f \in given.features : IsFiniteSet(f.ground) /\ f.ground \subseteq Int
      BY <3>1, LinesAssumption
    <3> QED
      BY <3>2, StationsAlwaysStand
  <2>8. ASSUME Asked("rail") PROVE Linear!RailIsLaid(given.features, given.point)
    <3>1. given \in QuestionsOf("rail")
      BY <2>8 DEF QuestionInv, Asked, QuestionsOf
    <3>2. /\ given.point \in Int \X Int
          /\ \A f \in given.features : /\ f.gauge \in Int /\ f.tracks \in Int
                                         /\ \A part \in f.parts : IsPart(part)
      BY <3>1, LinesAssumption DEF IsPart
    <3> QED
      BY <3>2, RailIsAlwaysLaid
  <2> QED
    BY <2>1, <2>2, <2>3, <2>4, <2>5, <2>6, <2>7, <2>8 DEF LinesHold
<1> QED
  BY <1>1, QuestionsAlways, PTL
-----------------------------------------------------------------------------
(* Buildings (Buildings).                                                   *)

\* Buildings has the operators of the library under names of its own.
LEMMA BuildingsMax == \A S : Buildings!Max(S) = Max(S)
BY DEF Buildings!Max, Max

LEMMA BuildingsMin == \A S : Buildings!Min(S) = Min(S)
BY DEF Buildings!Min, Min

LEMMA BuildingsCount == \A S : Buildings!Cardinality(S) = Cardinality(S)
BY DEF Buildings!Cardinality, Cardinality

\* The faces of the walls, one by one.
Walls == {<<1, 3, 2>>, <<1, 4, 3>>, <<1, 2, 6>>, <<2, 3, 7>>, <<3, 4, 8>>, <<4, 1, 5>>,
          <<1, 6, 5>>, <<2, 7, 6>>, <<3, 8, 7>>, <<4, 5, 8>>}

\* The faces are those of _wall_mesh.
LEMMA WallsAre == Buildings!WallFaces = Walls
BY DEF Buildings!WallFaces, Walls, Buildings!Turned

\* No two faces run along an edge the same way.
RunOnce(F) ==
  \A f, g \in F : \A i, j \in 1..3 : f[i] = g[j] /\ f[Next3(i)] = g[Next3(j)] => f = g

\* Along every edge another face runs back.
RunBack(F) ==
  \A f \in F : \A i \in 1..3 : \E g \in F : \E j \in 1..3 : f[i] = g[Next3(j)] /\ f[Next3(i)] = g[j]

\* So every edge has one face each way.
LEMMA ClosedWhen ==
  ASSUME NEW mesh, RunOnce(mesh.faces), RunBack(mesh.faces)
  PROVE  Buildings!IsClosed(mesh)
<1> DEFINE F == mesh.faces
           Along(e) == {g \in F : e \in Buildings!Edges(g)}
<1>1. ASSUME NEW f \in F, NEW i \in 1..3, NEW g \in F
      PROVE  <<f[i], f[Next3(i)]>> \in Buildings!Edges(g) => g = f
  <2>1. ASSUME NEW j \in 1..3, <<f[i], f[Next3(i)]>> = <<g[j], g[(j % 3) + 1]>> PROVE g = f
    BY <2>1 DEF RunOnce, Next3
  <2> QED
    BY <2>1 DEF Buildings!Edges
<1>2. ASSUME NEW f \in F, NEW i \in 1..3 PROVE Buildings!Cardinality(Along(<<f[i], f[Next3(i)]>>)) = 1
  <2>1. <<f[i], f[Next3(i)]>> \in Buildings!Edges(f)
    BY DEF Buildings!Edges, Next3
  <2>2. Along(<<f[i], f[Next3(i)]>>) = {f}
    BY <1>1, <2>1
  <2> QED
    BY <2>2, FS_Singleton, BuildingsCount
<1>3. ASSUME NEW f \in F, NEW i \in 1..3 PROVE Buildings!Cardinality(Along(<<f[Next3(i)], f[i]>>)) = 1
  <2>1. PICK g \in F, j \in 1..3 : f[i] = g[Next3(j)] /\ f[Next3(i)] = g[j]
    BY DEF RunBack
  <2> QED
    BY <1>2, <2>1
<1>4. ASSUME NEW f \in F, NEW e \in Buildings!Edges(f)
      PROVE  Buildings!Cardinality(Along(e)) = 1 /\ Buildings!Cardinality(Along(<<e[2], e[1]>>)) = 1
  <2>1. PICK i \in 1..3 : e = <<f[i], f[Next3(i)]>>
    BY DEF Buildings!Edges, Next3
  <2>2. e[1] = f[i] /\ e[2] = f[Next3(i)]
    BY <2>1
  <2> QED
    BY <1>2, <1>3, <2>1, <2>2
<1> QED
  BY <1>4 DEF Buildings!IsClosed

\* The four ways a roof closes the walls.
LEMMA PyramidCloses ==
  LET F == Walls \cup Buildings!PyramidFaces IN RunOnce(F) /\ RunBack(F)
<1> DEFINE F == Walls \cup Buildings!PyramidFaces
<1>1. RunOnce(F)
  BY DEF RunOnce, Next3, Walls, Buildings!PyramidFaces
<1>2. RunBack(F)
  BY DEF RunBack, Next3, Walls, Buildings!PyramidFaces
<1> QED
  BY <1>1, <1>2

\* So does a slope.
LEMMA SkillionCloses ==
  LET F == Walls \cup Buildings!SkillionFaces IN RunOnce(F) /\ RunBack(F)
<1> DEFINE F == Walls \cup Buildings!SkillionFaces
<1>1. RunOnce(F)
  BY DEF RunOnce, Next3, Walls, Buildings!SkillionFaces
<1>2. RunBack(F)
  BY DEF RunBack, Next3, Walls, Buildings!SkillionFaces
<1> QED
  BY <1>1, <1>2

\* So does a ridge, whichever way it lies.
LEMMA RidgeCloses ==
  ASSUME NEW params
  PROVE  LET F == Walls \cup Buildings!TurnedRidgeFaces(params) IN RunOnce(F) /\ RunBack(F)
<1> DEFINE F == Walls \cup Buildings!TurnedRidgeFaces(params)
           along == {<<5, 6, 10>>, <<5, 10, 9>>, <<7, 8, 9>>, <<7, 9, 10>>, <<5, 9, 8>>, <<6, 7, 10>>}
           across == {<<6, 7, 10>>, <<6, 10, 9>>, <<8, 5, 9>>, <<8, 9, 10>>, <<6, 9, 5>>, <<7, 8, 10>>}
<1>1. Buildings!TurnedRidgeFaces(params) = IF params.alongLong THEN along ELSE across
  BY DEF Buildings!TurnedRidgeFaces, Buildings!RidgeFaces
<1>2. CASE params.alongLong
  <2>1. F = Walls \cup along
    BY <1>1, <1>2
  <2>2. RunOnce(Walls \cup along)
    BY DEF RunOnce, Next3, Walls
  <2>3. RunBack(Walls \cup along)
    BY DEF RunBack, Next3, Walls
  <2> QED
    BY <2>1, <2>2, <2>3
<1>3. CASE ~params.alongLong
  <2>1. F = Walls \cup across
    BY <1>1, <1>3
  <2>2. RunOnce(Walls \cup across)
    BY DEF RunOnce, Next3, Walls
  <2>3. RunBack(Walls \cup across)
    BY DEF RunBack, Next3, Walls
  <2> QED
    BY <2>1, <2>2, <2>3
<1> QED
  BY <1>2, <1>3
-----------------------------------------------------------------------------
(* The volume of a building (Buildings).                                    *)

\* Six times the volume between a face and the origin.
DetOf(v, F) == [f \in F |-> Buildings!Det(v[f[1]], v[f[2]], v[f[3]])]

Points3 == Int \X Int \X Int

\* Of whole corners a whole volume.
LEMMA DetType == \A a, b, c \in Points3 : Buildings!Det(a, b, c) \in Int
BY DEF Buildings!Det, Points3

\* A mesh has the volume of its faces together.
LEMMA VolumeIsSum ==
  ASSUME NEW mesh, IsFiniteSet(mesh.faces),
         \A f \in mesh.faces : {mesh.vertices[f[1]], mesh.vertices[f[2]], mesh.vertices[f[3]]} \subseteq Points3
  PROVE  /\ Whole(DetOf(mesh.vertices, mesh.faces), mesh.faces)
         /\ Buildings!Volume(mesh) = SumOf(DetOf(mesh.vertices, mesh.faces), mesh.faces)
<1> DEFINE v == mesh.vertices
           F == mesh.faces
           w == DetOf(v, F)
           Folds(h) == h = [s \in SUBSET F |->
             IF s = {} THEN 0
             ELSE Buildings!Det(v[Pick(s)[1]], v[Pick(s)[2]], v[Pick(s)[3]]) + h[s \ {Pick(s)}]]
           h == CHOOSE h : Folds(h)
<1>1. Whole(w, F)
  BY DetType DEF Whole, DetOf
<1>2. ASSUME NEW g, Counts(g, w, F) PROVE Folds(g)
  <2> DEFINE u == [s \in SUBSET F |-> IF s = {} THEN 0 ELSE w[Pick(s)] + g[s \ {Pick(s)}]]
             t == [s \in SUBSET F |->
                     IF s = {} THEN 0
                     ELSE Buildings!Det(v[Pick(s)[1]], v[Pick(s)[2]], v[Pick(s)[3]]) + g[s \ {Pick(s)}]]
  <2>1. ASSUME NEW s \in SUBSET F PROVE u[s] = t[s]
    <3>1. s # {} => Pick(s) \in F
      BY PickIn
    <3> QED
      BY <3>1 DEF DetOf
  <2>2. u = t
    BY <2>1
  <2>3. g = u
    BY <1>2 DEF Counts
  <2> QED
    BY <2>2, <2>3
<1>3. PICK g : Counts(g, w, F) /\ SumOf(w, F) = g[F]
  BY <1>1, SumCounts
<1>4. Folds(h)
  BY <1>2, <1>3
<1>5. Buildings!Volume(mesh) = h[F]
  BY DEF Buildings!Volume, Buildings!MapThenFoldSet, Pick
<1> HIDE DEF h
<1>6. Counts(h, w, F)
  <2> DEFINE u == [s \in SUBSET F |-> IF s = {} THEN 0 ELSE w[Pick(s)] + h[s \ {Pick(s)}]]
             t == [s \in SUBSET F |->
                     IF s = {} THEN 0
                     ELSE Buildings!Det(v[Pick(s)[1]], v[Pick(s)[2]], v[Pick(s)[3]]) + h[s \ {Pick(s)}]]
  <2>1. ASSUME NEW s \in SUBSET F PROVE u[s] = t[s]
    <3>1. s # {} => Pick(s) \in F
      BY PickIn
    <3> QED
      BY <3>1 DEF DetOf
  <2>2. u = t
    BY <2>1
  <2>3. h = t
    BY <1>4
  <2> QED
    BY <2>2, <2>3 DEF Counts
<1>7. F \in SUBSET F /\ \A x \in F : w[x] = w[x]
  OBVIOUS
<1> HIDE DEF w
<1>8. h[F] = g[F]
  BY <1>1, <1>3, <1>6, <1>7, CountsAgree
<1> QED
  BY <1>1, <1>3, <1>5, <1>8 DEF w

\* A sum goes on by an element, by two and by four.
LEMMA SumAdds ==
  ASSUME NEW F, NEW w, Whole(w, F), IsFiniteSet(F), NEW S \in SUBSET F, NEW a \in F, a \notin S
  PROVE  SumOf(w, S \cup {a}) = SumOf(w, S) + w[a] /\ SumOf(w, S) \in Int
<1> DEFINE T == S \cup {a}
<1>1. Whole(w, S) /\ Whole(w, T) /\ T \ {a} = S /\ a \in T
  BY DEF Whole
<1>2. IsFiniteSet(S) /\ IsFiniteSet(T)
  BY FS_Subset
<1> HIDE DEF T
<1>3. SumOf(w, T) = w[a] + SumOf(w, T \ {a}) /\ SumOf(w, S) \in Int /\ w[a] \in Int
  BY <1>1, <1>2, SumTakes DEF Whole
<1>4. SumOf(w, T) = SumOf(w, S) + w[a]
  <2>1. SumOf(w, T \ {a}) = SumOf(w, S)
    BY <1>1
  <2> QED
    BY <1>3, <2>1
<1> QED
  BY <1>3, <1>4 DEF T

\* And two terms.
LEMMA SumAddsTwo ==
  ASSUME NEW F, NEW w, Whole(w, F), IsFiniteSet(F), NEW S \in SUBSET F,
         NEW a \in F, NEW b \in F, a \notin S, b \notin S, a # b
  PROVE  SumOf(w, S \cup {a, b}) = SumOf(w, S) + w[a] + w[b] /\ SumOf(w, S) \in Int
<1> DEFINE T == S \cup {a}
<1>1. T \in SUBSET F /\ b \notin T /\ S \cup {a, b} = T \cup {b}
  OBVIOUS
<1>2. SumOf(w, T) = SumOf(w, S) + w[a] /\ SumOf(w, S) \in Int
  <2>1. SumOf(w, S \cup {a}) = SumOf(w, S) + w[a]
    BY SumAdds
  <2>2. SumOf(w, S) \in Int
    BY SumAdds
  <2> QED
    BY <2>1, <2>2
<1> HIDE DEF T
<1>3. SumOf(w, T \cup {b}) = SumOf(w, T) + w[b]
  BY <1>1, SumAdds
<1> QED
  BY <1>1, <1>2, <1>3

\* And four.
LEMMA SumAddsFour ==
  ASSUME NEW F, NEW w, Whole(w, F), IsFiniteSet(F), NEW S \in SUBSET F,
         NEW a \in F, NEW b \in F, NEW c \in F, NEW d \in F,
         {a, b, c, d} \cap S = {}, a # b, a # c, a # d, b # c, b # d, c # d
  PROVE  SumOf(w, S \cup {a, b, c, d}) = SumOf(w, S) + w[a] + w[b] + w[c] + w[d] /\ SumOf(w, S) \in Int
<1> DEFINE T == S \cup {a, b}
<1>1. T \in SUBSET F /\ c \notin T /\ d \notin T /\ S \cup {a, b, c, d} = T \cup {c, d}
  OBVIOUS
<1>2. SumOf(w, T) = SumOf(w, S) + w[a] + w[b] /\ SumOf(w, S) \in Int
  BY SumAddsTwo
<1> HIDE DEF T
<1>3. SumOf(w, T \cup {c, d}) = SumOf(w, T) + w[c] + w[d]
  BY <1>1, SumAddsTwo
<1> QED
  BY <1>1, <1>2, <1>3

\* The corners of the walls in halves of the sides, from b up to e.
CornersAt(v, l, w, b, e) ==
  /\ v[1] = <<-l, -w, b>> /\ v[2] = <<l, -w, b>> /\ v[3] = <<l, w, b>> /\ v[4] = <<-l, w, b>>
  /\ v[5] = <<-l, -w, e>> /\ v[6] = <<l, -w, e>> /\ v[7] = <<l, w, e>> /\ v[8] = <<-l, w, e>>

\* The floor and the walls: sixteen times the prism up to the eaves, without the part below.
LEMMA WallsVolume ==
  ASSUME NEW l \in Int, NEW w \in Int, NEW b \in Int, NEW e \in Int, NEW v, CornersAt(v, l, w, b, e),
         NEW F, IsFiniteSet(F), Walls \subseteq F, Whole(DetOf(v, F), F)
  PROVE  SumOf(DetOf(v, F), Walls) = 16 * (e * l * w) - 24 * (b * l * w)
<1> DEFINE d == DetOf(v, F)
           two == {<<1, 3, 2>>, <<1, 4, 3>>}
           low == {<<1, 2, 6>>, <<2, 3, 7>>, <<3, 4, 8>>, <<4, 1, 5>>}
           high == {<<1, 6, 5>>, <<2, 7, 6>>, <<3, 8, 7>>, <<4, 5, 8>>}
           B == b * l * w
           E == e * l * w
<1>1. {<<1, 3, 2>>, <<1, 4, 3>>, <<1, 2, 6>>, <<2, 3, 7>>, <<3, 4, 8>>, <<4, 1, 5>>,
       <<1, 6, 5>>, <<2, 7, 6>>, <<3, 8, 7>>, <<4, 5, 8>>} \subseteq F
  BY DEF Walls
<1>2. \A i, j, k : <<i, j, k>> \in F => d[<<i, j, k>>] = Buildings!Det(v[i], v[j], v[k])
  BY DEF DetOf
<1>3. B \in Int /\ E \in Int
  OBVIOUS
<1>0. Whole(d, F)
  OBVIOUS
<1> HIDE DEF d
<1>4. d[<<1, 3, 2>>] = -4 * B /\ d[<<1, 4, 3>>] = -4 * B
  BY <1>1, <1>2 DEF CornersAt, Buildings!Det
<1>5. /\ d[<<1, 2, 6>>] = 2 * E - 2 * B /\ d[<<2, 3, 7>>] = 2 * E - 2 * B
      /\ d[<<3, 4, 8>>] = 2 * E - 2 * B /\ d[<<4, 1, 5>>] = 2 * E - 2 * B
  <2>1. d[<<1, 2, 6>>] = 2 * E - 2 * B /\ d[<<2, 3, 7>>] = 2 * E - 2 * B
    BY <1>1, <1>2 DEF CornersAt, Buildings!Det
  <2>2. d[<<3, 4, 8>>] = 2 * E - 2 * B /\ d[<<4, 1, 5>>] = 2 * E - 2 * B
    BY <1>1, <1>2 DEF CornersAt, Buildings!Det
  <2> QED
    BY <2>1, <2>2
<1>6. /\ d[<<1, 6, 5>>] = 2 * E - 2 * B /\ d[<<2, 7, 6>>] = 2 * E - 2 * B
      /\ d[<<3, 8, 7>>] = 2 * E - 2 * B /\ d[<<4, 5, 8>>] = 2 * E - 2 * B
  BY <1>1, <1>2 DEF CornersAt, Buildings!Det
<1> HIDE DEF B, E, two, low, high
<1>7. SumOf(d, {}) = 0
  BY SumEmpty
<1>8. SumOf(d, two) = -8 * B
  <2>1. PICK p, q : p = <<1, 3, 2>> /\ q = <<1, 4, 3>>
    OBVIOUS
  <2>2. {p, q} \subseteq F /\ p # q
    BY <1>1, <2>1
  <2>3. {} \in SUBSET F /\ {p, q} \cap ({}) = {}
    BY <1>1, <2>1
  <2>4. SumOf(d, ({}) \cup {p, q}) = SumOf(d, {}) + d[p] + d[q]
    BY <1>0, <2>2, <2>3, SumAddsTwo
  <2> QED
    BY <1>3, <1>4, <1>7, <2>1, <2>4 DEF two
<1>9. SumOf(d, two \cup low) = 8 * E - 16 * B
  <2>1. PICK p, q, r, s : p = <<1, 2, 6>> /\ q = <<2, 3, 7>> /\ r = <<3, 4, 8>> /\ s = <<4, 1, 5>>
    OBVIOUS
  <2>2. {p, q, r, s} \subseteq F /\ p # q /\ p # r /\ p # s /\ q # r /\ q # s /\ r # s
    BY <1>1, <2>1
  <2>3. two \in SUBSET F /\ {p, q, r, s} \cap two = {}
    BY <1>1, <2>1 DEF two
  <2>4. SumOf(d, two \cup {p, q, r, s}) = SumOf(d, two) + d[p] + d[q] + d[r] + d[s]
    BY <1>0, <2>2, <2>3, SumAddsFour
  <2> QED
    BY <1>3, <1>5, <1>8, <2>1, <2>4 DEF low
<1>10. SumOf(d, two \cup low \cup high) = 16 * E - 24 * B
  <2>1. PICK p, q, r, s : p = <<1, 6, 5>> /\ q = <<2, 7, 6>> /\ r = <<3, 8, 7>> /\ s = <<4, 5, 8>>
    OBVIOUS
  <2>2. {p, q, r, s} \subseteq F /\ p # q /\ p # r /\ p # s /\ q # r /\ q # s /\ r # s
    BY <1>1, <2>1
  <2>3. two \cup low \in SUBSET F /\ {p, q, r, s} \cap (two \cup low) = {}
    BY <1>1, <2>1 DEF two, low
  <2>4. SumOf(d, (two \cup low) \cup {p, q, r, s}) = SumOf(d, two \cup low) + d[p] + d[q] + d[r] + d[s]
    BY <1>0, <2>2, <2>3, SumAddsFour
  <2> QED
    BY <1>3, <1>6, <1>9, <2>1, <2>4 DEF high
<1>11. Walls = two \cup low \cup high
  BY DEF Walls, two, low, high
<1> QED
  BY <1>10, <1>11 DEF d, B, E

\* A pyramid holds eight times the box of its corner above the eaves, and what is below it.
LEMMA PyramidVolume ==
  ASSUME NEW l \in Int, NEW w \in Int, NEW b \in Int, NEW e \in Int, NEW t \in Int,
         NEW v, CornersAt(v, l, w, b, e), v[9] = <<0, 0, t>>,
         NEW F, F = Walls \cup Buildings!PyramidFaces, IsFiniteSet(F), Whole(DetOf(v, F), F)
  PROVE  SumOf(DetOf(v, F), F) = 16 * (e * l * w) - 24 * (b * l * w) + 8 * (t * l * w)
<1> DEFINE d == DetOf(v, F)
           T == t * l * w
           W == 16 * (e * l * w) - 24 * (b * l * w)
<1>0. Whole(d, F) /\ IsFiniteSet(F)
  OBVIOUS
<1>1. Walls \subseteq F /\ {<<5, 6, 9>>, <<6, 7, 9>>, <<7, 8, 9>>, <<8, 5, 9>>} \subseteq F
  BY DEF Buildings!PyramidFaces
<1>2. \A i, j, k : <<i, j, k>> \in F => d[<<i, j, k>>] = Buildings!Det(v[i], v[j], v[k])
  BY DEF DetOf
<1>3. SumOf(d, Walls) = W
  BY <1>1, WallsVolume
<1>4. T \in Int /\ W \in Int
  OBVIOUS
<1> HIDE DEF d
<1>5. d[<<5, 6, 9>>] = 2 * T /\ d[<<6, 7, 9>>] = 2 * T
  BY <1>1, <1>2 DEF CornersAt, Buildings!Det
<1>6. d[<<7, 8, 9>>] = 2 * T /\ d[<<8, 5, 9>>] = 2 * T
  BY <1>1, <1>2 DEF CornersAt, Buildings!Det
<1> HIDE DEF T, W
<1>7. SumOf(d, Walls \cup Buildings!PyramidFaces) = W + 8 * T
  <2>1. PICK p, q, r, s : p = <<5, 6, 9>> /\ q = <<6, 7, 9>> /\ r = <<7, 8, 9>> /\ s = <<8, 5, 9>>
    OBVIOUS
  <2>2. {p, q, r, s} \subseteq F /\ p # q /\ p # r /\ p # s /\ q # r /\ q # s /\ r # s
    BY <1>1, <2>1
  <2>3. Walls \in SUBSET F /\ {p, q, r, s} \cap Walls = {}
    BY <1>1, <2>1 DEF Walls
  <2>4. SumOf(d, Walls \cup {p, q, r, s}) = SumOf(d, Walls) + d[p] + d[q] + d[r] + d[s]
    BY ONLY <1>0, <2>2, <2>3, SumAddsFour
  <2> QED
    BY <1>3, <1>4, <1>5, <1>6, <2>1, <2>4 DEF Buildings!PyramidFaces
<1> QED
  BY <1>7 DEF d, T, W

\* The ridge along the long sides, and across.
RidgeAlong(v, r, t) == v[9] = <<-r, 0, t>> /\ v[10] = <<r, 0, t>>

RidgeAcross(v, r, t) == v[9] = <<0, -r, t>> /\ v[10] = <<0, r, t>>

FacesAlong == {<<5, 6, 10>>, <<5, 10, 9>>, <<7, 8, 9>>, <<7, 9, 10>>, <<5, 9, 8>>, <<6, 7, 10>>}

FacesAcross == {<<6, 7, 10>>, <<6, 10, 9>>, <<8, 5, 9>>, <<8, 9, 10>>, <<6, 9, 5>>, <<7, 8, 10>>}

\* A ridge of 2r along the sides that are turned to it.
LEMMA LongRidgeVolume ==
  ASSUME NEW l \in Int, NEW w \in Int, NEW b \in Int, NEW e \in Int, NEW t \in Int, NEW r \in Int,
         NEW v, CornersAt(v, l, w, b, e), RidgeAlong(v, r, t),
         NEW F, F = Walls \cup FacesAlong,
         IsFiniteSet(F), Whole(DetOf(v, F), F)
  PROVE  SumOf(DetOf(v, F), F)
           = 16 * (e * l * w) - 24 * (b * l * w) + 8 * (t * l * w) + 4 * (t * r * w) - 4 * (e * r * w)
<1> DEFINE d == DetOf(v, F)
           slopes == {<<5, 6, 10>>, <<5, 10, 9>>, <<7, 8, 9>>, <<7, 9, 10>>}
           ends == {<<5, 9, 8>>, <<6, 7, 10>>}
           T == t * l * w
           E == e * l * w
           R == t * r * w
           S == e * r * w
           W == 16 * (e * l * w) - 24 * (b * l * w)
<1>0. Whole(d, F) /\ IsFiniteSet(F)
  OBVIOUS
<1>1. Walls \subseteq F /\ {<<5, 6, 10>>, <<5, 10, 9>>, <<7, 8, 9>>, <<7, 9, 10>>, <<5, 9, 8>>, <<6, 7, 10>>} \subseteq F
  BY DEF FacesAlong
<1>2. \A i, j, k : <<i, j, k>> \in F => d[<<i, j, k>>] = Buildings!Det(v[i], v[j], v[k])
  BY DEF DetOf
<1>3. SumOf(d, Walls) = W
  BY <1>1, WallsVolume
<1>4. T \in Int /\ E \in Int /\ R \in Int /\ S \in Int /\ W \in Int
  OBVIOUS
<1>8. F = Walls \cup slopes \cup ends
  BY DEF FacesAlong
<1> HIDE DEF d
<1>5. d[<<5, 6, 10>>] = 2 * T /\ d[<<5, 10, 9>>] = 2 * R
  BY <1>1, <1>2 DEF CornersAt, RidgeAlong, Buildings!Det
<1>6. d[<<7, 8, 9>>] = 2 * T /\ d[<<7, 9, 10>>] = 2 * R
  BY <1>1, <1>2 DEF CornersAt, RidgeAlong, Buildings!Det
<1>7. d[<<5, 9, 8>>] = 2 * T - 2 * S /\ d[<<6, 7, 10>>] = 2 * T - 2 * S
  <2>1. d[<<5, 9, 8>>] = 2 * T - 2 * S
    <3>1. d[<<5, 9, 8>>] = Buildings!Det(v[5], v[9], v[8])
      BY <1>1, <1>2
    <3> QED
      BY <3>1 DEF CornersAt, RidgeAlong, Buildings!Det
  <2>2. d[<<6, 7, 10>>] = 2 * T - 2 * S
    <3>1. d[<<6, 7, 10>>] = Buildings!Det(v[6], v[7], v[10])
      BY <1>1, <1>2
    <3> QED
      BY <3>1 DEF CornersAt, RidgeAlong, Buildings!Det
  <2> QED
    BY <2>1, <2>2
<1> HIDE DEF T, E, R, S, W, slopes, ends
<1>9. SumOf(d, Walls \cup slopes) = W + 4 * T + 4 * R
  <2>1. PICK p, q, m, s : p = <<5, 6, 10>> /\ q = <<5, 10, 9>> /\ m = <<7, 8, 9>> /\ s = <<7, 9, 10>>
    OBVIOUS
  <2>2. {p, q, m, s} \subseteq F /\ p # q /\ p # m /\ p # s /\ q # m /\ q # s /\ m # s
    BY <1>1, <2>1
  <2>3. Walls \in SUBSET F /\ {p, q, m, s} \cap Walls = {}
    BY <1>1, <2>1 DEF Walls
  <2>4. SumOf(d, Walls \cup {p, q, m, s}) = SumOf(d, Walls) + d[p] + d[q] + d[m] + d[s]
    BY ONLY <1>0, <2>2, <2>3, SumAddsFour
  <2> QED
    BY <1>3, <1>4, <1>5, <1>6, <2>1, <2>4 DEF slopes
<1>10. SumOf(d, Walls \cup slopes \cup ends) = W + 8 * T + 4 * R - 4 * S
  <2>1. PICK p, q : p = <<5, 9, 8>> /\ q = <<6, 7, 10>>
    OBVIOUS
  <2>2. {p, q} \subseteq F /\ p # q
    BY <1>1, <2>1
  <2>3. Walls \cup slopes \in SUBSET F /\ p \notin (Walls \cup slopes) /\ q \notin (Walls \cup slopes)
    BY <1>1, <2>1 DEF Walls, slopes
  <2>4. SumOf(d, (Walls \cup slopes) \cup {p, q}) = SumOf(d, Walls \cup slopes) + d[p] + d[q]
    BY ONLY <1>0, <2>2, <2>3, SumAddsTwo
  <2> QED
    BY <1>4, <1>7, <1>9, <2>1, <2>4 DEF ends
<1> QED
  BY <1>8, <1>10 DEF d, T, E, R, S, W

\* A ridge across, from side to side.
LEMMA ShortRidgeVolume ==
  ASSUME NEW l \in Int, NEW w \in Int, NEW b \in Int, NEW e \in Int, NEW t \in Int,
         NEW v, CornersAt(v, l, w, b, e), RidgeAcross(v, w, t),
         NEW F, F = Walls \cup FacesAcross,
         IsFiniteSet(F), Whole(DetOf(v, F), F)
  PROVE  SumOf(DetOf(v, F), F) = 16 * (e * l * w) - 24 * (b * l * w) + 12 * (t * l * w) - 4 * (e * l * w)
<1> DEFINE d == DetOf(v, F)
           slopes == {<<6, 7, 10>>, <<6, 10, 9>>, <<8, 5, 9>>, <<8, 9, 10>>}
           ends == {<<6, 9, 5>>, <<7, 8, 10>>}
           T == t * l * w
           E == e * l * w
           W == 16 * (e * l * w) - 24 * (b * l * w)
<1>0. Whole(d, F) /\ IsFiniteSet(F)
  OBVIOUS
<1>1. Walls \subseteq F /\ {<<6, 7, 10>>, <<6, 10, 9>>, <<8, 5, 9>>, <<8, 9, 10>>, <<6, 9, 5>>, <<7, 8, 10>>} \subseteq F
  BY DEF FacesAcross
<1>2. \A i, j, k : <<i, j, k>> \in F => d[<<i, j, k>>] = Buildings!Det(v[i], v[j], v[k])
  BY DEF DetOf
<1>3. SumOf(d, Walls) = W
  BY <1>1, WallsVolume
<1>4. T \in Int /\ E \in Int /\ W \in Int
  OBVIOUS
<1>8. F = Walls \cup slopes \cup ends
  BY DEF FacesAcross
<1> HIDE DEF d
<1>5. d[<<6, 7, 10>>] = 2 * T /\ d[<<6, 10, 9>>] = 2 * T
  BY <1>1, <1>2 DEF CornersAt, RidgeAcross, Buildings!Det
<1>6. d[<<8, 5, 9>>] = 2 * T /\ d[<<8, 9, 10>>] = 2 * T
  BY <1>1, <1>2 DEF CornersAt, RidgeAcross, Buildings!Det
<1>7. d[<<6, 9, 5>>] = 2 * T - 2 * E /\ d[<<7, 8, 10>>] = 2 * T - 2 * E
  <2>1. d[<<6, 9, 5>>] = 2 * T - 2 * E
    <3>1. d[<<6, 9, 5>>] = Buildings!Det(v[6], v[9], v[5])
      BY <1>1, <1>2
    <3> QED
      BY <3>1 DEF CornersAt, RidgeAcross, Buildings!Det
  <2>2. d[<<7, 8, 10>>] = 2 * T - 2 * E
    <3>1. d[<<7, 8, 10>>] = Buildings!Det(v[7], v[8], v[10])
      BY <1>1, <1>2
    <3> QED
      BY <3>1 DEF CornersAt, RidgeAcross, Buildings!Det
  <2> QED
    BY <2>1, <2>2
<1> HIDE DEF T, E, W, slopes, ends
<1>9. SumOf(d, Walls \cup slopes) = W + 8 * T
  <2>1. PICK p, q, r, s : p = <<6, 7, 10>> /\ q = <<6, 10, 9>> /\ r = <<8, 5, 9>> /\ s = <<8, 9, 10>>
    OBVIOUS
  <2>2. {p, q, r, s} \subseteq F /\ p # q /\ p # r /\ p # s /\ q # r /\ q # s /\ r # s
    BY <1>1, <2>1
  <2>3. Walls \in SUBSET F /\ {p, q, r, s} \cap Walls = {}
    BY <1>1, <2>1 DEF Walls
  <2>4. SumOf(d, Walls \cup {p, q, r, s}) = SumOf(d, Walls) + d[p] + d[q] + d[r] + d[s]
    BY ONLY <1>0, <2>2, <2>3, SumAddsFour
  <2> QED
    BY <1>3, <1>4, <1>5, <1>6, <2>1, <2>4 DEF slopes
<1>10. SumOf(d, Walls \cup slopes \cup ends) = W + 12 * T - 4 * E
  <2>1. PICK p, q : p = <<6, 9, 5>> /\ q = <<7, 8, 10>>
    OBVIOUS
  <2>2. {p, q} \subseteq F /\ p # q
    BY <1>1, <2>1
  <2>3. Walls \cup slopes \in SUBSET F /\ p \notin (Walls \cup slopes) /\ q \notin (Walls \cup slopes)
    BY <1>1, <2>1 DEF Walls, slopes
  <2>4. SumOf(d, (Walls \cup slopes) \cup {p, q}) = SumOf(d, Walls \cup slopes) + d[p] + d[q]
    BY ONLY <1>0, <2>2, <2>3, SumAddsTwo
  <2> QED
    BY <1>4, <1>7, <1>9, <2>1, <2>4 DEF ends
<1> QED
  BY <1>8, <1>10 DEF d, T, E, W

\* The corners of a slope, each at a height of its own.
SlopeAt(v, l, w, z1, z2, z3, z4) ==
  v[9] = <<-l, -w, z1>> /\ v[10] = <<l, -w, z2>> /\ v[11] = <<l, w, z3>> /\ v[12] = <<-l, w, z4>>

\* A slope: corners of any heights above those of the walls, and sides up to them.
LEMMA SkillionVolume ==
  ASSUME NEW l \in Int, NEW w \in Int, NEW b \in Int, NEW e \in Int,
         NEW z1 \in Int, NEW z2 \in Int, NEW z3 \in Int, NEW z4 \in Int,
         NEW v, CornersAt(v, l, w, b, e),
         SlopeAt(v, l, w, z1, z2, z3, z4),
         NEW F, F = Walls \cup Buildings!SkillionFaces, IsFiniteSet(F), Whole(DetOf(v, F), F)
  PROVE  SumOf(DetOf(v, F), F)
           = 16 * (e * l * w) - 24 * (b * l * w)
             + 8 * (z1 * l * w) + 4 * (z2 * l * w) + 8 * (z3 * l * w) + 4 * (z4 * l * w) - 16 * (e * l * w)
<1> DEFINE d == DetOf(v, F)
           low == {<<5, 6, 10>>, <<6, 7, 11>>, <<7, 8, 12>>, <<8, 5, 9>>}
           high == {<<5, 10, 9>>, <<6, 11, 10>>, <<7, 12, 11>>, <<8, 9, 12>>}
           top == {<<9, 10, 11>>, <<9, 11, 12>>}
           A == z1 * l * w
           B == z2 * l * w
           C == z3 * l * w
           D == z4 * l * w
           E == e * l * w
           W == 16 * (e * l * w) - 24 * (b * l * w)
<1>0. Whole(d, F) /\ IsFiniteSet(F)
  OBVIOUS
<1>1. /\ Walls \subseteq F
      /\ {<<5, 6, 10>>, <<6, 7, 11>>, <<7, 8, 12>>, <<8, 5, 9>>} \subseteq F
      /\ {<<5, 10, 9>>, <<6, 11, 10>>, <<7, 12, 11>>, <<8, 9, 12>>} \subseteq F
      /\ {<<9, 10, 11>>, <<9, 11, 12>>} \subseteq F
  BY DEF Buildings!SkillionFaces
<1>2. \A i, j, k : <<i, j, k>> \in F => d[<<i, j, k>>] = Buildings!Det(v[i], v[j], v[k])
  BY DEF DetOf
<1>3. SumOf(d, Walls) = W
  BY <1>1, WallsVolume
<1>4. A \in Int /\ B \in Int /\ C \in Int /\ D \in Int /\ E \in Int /\ W \in Int
  OBVIOUS
<1>8. F = Walls \cup low \cup high \cup top
  BY DEF Buildings!SkillionFaces
<1> HIDE DEF d
<1>5. d[<<5, 6, 10>>] = 2 * B - 2 * E /\ d[<<6, 7, 11>>] = 2 * C - 2 * E
  BY <1>1, <1>2 DEF CornersAt, SlopeAt, Buildings!Det
<1>6. d[<<7, 8, 12>>] = 2 * D - 2 * E /\ d[<<8, 5, 9>>] = 2 * A - 2 * E
  BY <1>1, <1>2 DEF CornersAt, SlopeAt, Buildings!Det
<1>7. d[<<5, 10, 9>>] = 2 * A - 2 * E /\ d[<<6, 11, 10>>] = 2 * B - 2 * E
  BY <1>1, <1>2 DEF CornersAt, SlopeAt, Buildings!Det
<1>9. d[<<7, 12, 11>>] = 2 * C - 2 * E /\ d[<<8, 9, 12>>] = 2 * D - 2 * E
  BY <1>1, <1>2 DEF CornersAt, SlopeAt, Buildings!Det
<1>10. d[<<9, 10, 11>>] = 2 * A + 2 * C /\ d[<<9, 11, 12>>] = 2 * A + 2 * C
  BY <1>1, <1>2 DEF CornersAt, SlopeAt, Buildings!Det
<1> HIDE DEF A, B, C, D, E, W, low, high, top
<1>11. SumOf(d, Walls \cup low) = W + 2 * A + 2 * B + 2 * C + 2 * D - 8 * E
  <2>1. PICK p, q, r, s : p = <<5, 6, 10>> /\ q = <<6, 7, 11>> /\ r = <<7, 8, 12>> /\ s = <<8, 5, 9>>
    OBVIOUS
  <2>2. {p, q, r, s} \subseteq F /\ p # q /\ p # r /\ p # s /\ q # r /\ q # s /\ r # s
    BY <1>1, <2>1
  <2>3. Walls \in SUBSET F /\ {p, q, r, s} \cap Walls = {}
    BY <1>1, <2>1 DEF Walls, low
  <2>4. SumOf(d, Walls \cup {p, q, r, s}) = SumOf(d, Walls) + d[p] + d[q] + d[r] + d[s]
    BY ONLY <1>0, <2>2, <2>3, SumAddsFour
  <2> QED
    BY <1>3, <1>4, <1>5, <1>6, <2>1, <2>4 DEF low
<1>12. SumOf(d, Walls \cup low \cup high) = W + 4 * A + 4 * B + 4 * C + 4 * D - 16 * E
  <2>1. PICK p, q, r, s : p = <<5, 10, 9>> /\ q = <<6, 11, 10>> /\ r = <<7, 12, 11>> /\ s = <<8, 9, 12>>
    OBVIOUS
  <2>2. {p, q, r, s} \subseteq F /\ p # q /\ p # r /\ p # s /\ q # r /\ q # s /\ r # s
    BY <1>1, <2>1
  <2>3. Walls \cup low \in SUBSET F /\ {p, q, r, s} \cap (Walls \cup low) = {}
    BY <1>1, <2>1 DEF Walls, low, high
  <2>4. SumOf(d, (Walls \cup low) \cup {p, q, r, s}) = SumOf(d, Walls \cup low) + d[p] + d[q] + d[r] + d[s]
    BY ONLY <1>0, <2>2, <2>3, SumAddsFour
  <2> QED
    BY <1>4, <1>7, <1>9, <1>11, <2>1, <2>4 DEF high
<1>13. SumOf(d, Walls \cup low \cup high \cup top) = W + 8 * A + 4 * B + 8 * C + 4 * D - 16 * E
  <2>1. PICK p, q : p = <<9, 10, 11>> /\ q = <<9, 11, 12>>
    OBVIOUS
  <2>2. {p, q} \subseteq F /\ p # q
    BY <1>1, <2>1
  <2>3. /\ Walls \cup low \cup high \in SUBSET F
        /\ p \notin (Walls \cup low \cup high) /\ q \notin (Walls \cup low \cup high)
    BY <1>1, <2>1 DEF Walls, low, high, top
  <2>4. SumOf(d, (Walls \cup low \cup high) \cup {p, q}) = SumOf(d, Walls \cup low \cup high) + d[p] + d[q]
    BY ONLY <1>0, <2>2, <2>3, SumAddsTwo
  <2> QED
    BY <1>4, <1>10, <1>12, <2>1, <2>4 DEF top
<1> QED
  BY <1>8, <1>13 DEF d, A, B, C, D, E, W

\* Faces are finitely many.
LEMMA FewAreFinite ==
  ASSUME NEW a, NEW b, NEW c, NEW d
  PROVE  IsFiniteSet({a, b}) /\ IsFiniteSet({a, b, c, d})
<1>1. IsFiniteSet({a}) /\ IsFiniteSet({b}) /\ IsFiniteSet({c}) /\ IsFiniteSet({d})
  BY FS_Singleton
<1>2. IsFiniteSet({a} \cup {b}) /\ IsFiniteSet({c} \cup {d})
  BY <1>1, FS_Union
<1>3. IsFiniteSet(({a} \cup {b}) \cup ({c} \cup {d}))
  BY <1>2, FS_Union
<1>4. {a, b} = {a} \cup {b} /\ {a, b, c, d} = ({a} \cup {b}) \cup ({c} \cup {d})
  OBVIOUS
<1> QED
  BY <1>2, <1>3, <1>4

\* So are the walls.
LEMMA WallsAreFinite == IsFiniteSet(Walls)
<1> DEFINE two == {<<1, 3, 2>>, <<1, 4, 3>>}
           low == {<<1, 2, 6>>, <<2, 3, 7>>, <<3, 4, 8>>, <<4, 1, 5>>}
           high == {<<1, 6, 5>>, <<2, 7, 6>>, <<3, 8, 7>>, <<4, 5, 8>>}
<1>1. Walls = (two \cup low) \cup high
  BY DEF Walls
<1>2. IsFiniteSet(two) /\ IsFiniteSet(low) /\ IsFiniteSet(high)
  BY FewAreFinite
<1> HIDE DEF two, low, high
<1>3. IsFiniteSet(two \cup low)
  BY <1>2, FS_Union
<1>4. IsFiniteSet((two \cup low) \cup high)
  BY <1>2, <1>3, FS_Union
<1> QED
  BY <1>1, <1>4

\* A function on 1..n is a sequence.
LEMMA RowIsSeq ==
  ASSUME NEW n \in Nat, NEW S, NEW f \in [1..n -> S]
  PROVE  f \in Seq(S) /\ Len(f) = n
OBVIOUS

\* A point of the plane and a height.
LEMMA AppendThird ==
  ASSUME NEW x \in Int, NEW y \in Int, NEW z \in Int
  PROVE  Append(<<x, y>>, z) = <<x, y, z>>
<1>1. <<x, y>> \in Seq(Int) /\ <<x, y, z>> \in Seq(Int) /\ Len(<<x, y>>) = 2 /\ Len(<<x, y, z>>) = 3
  OBVIOUS
<1>2. /\ Append(<<x, y>>, z) \in Seq(Int) /\ Len(Append(<<x, y>>, z)) = 3
    /\ \A i \in 1..3 : Append(<<x, y>>, z)[i] = IF i <= 2 THEN <<x, y>>[i] ELSE z
  BY <1>1, AppendProperties
<1>3. \A i \in 1..3 : Append(<<x, y>>, z)[i] = <<x, y, z>>[i]
  BY <1>2
<1> QED
  BY <1>1, <1>2, <1>3, SeqEqual

\* The walls stand on the corners of the box, and a roof is put on them.
LEMMA WallsStand ==
  ASSUME NEW box, box.length \in Int, box.width \in Int, NEW base \in Int, NEW eave \in Int
  PROVE  LET s == Buildings!WallVertices(box, base, eave)
         IN  /\ CornersAt(s, box.length, box.width, base, eave)
             /\ s \in Seq(Points3) /\ Len(s) = 8
<1> DEFINE s == Buildings!WallVertices(box, base, eave)
           l == box.length
           w == box.width
           c == Buildings!Corners(box)
<1>1. c[1] = <<-l, -w>> /\ c[2] = <<l, -w>> /\ c[3] = <<l, w>> /\ c[4] = <<-l, w>>
  BY DEF Buildings!Corners
<1>2. DOMAIN s = 1..8 /\ s = [i \in 1..8 |-> s[i]]
  BY DEF Buildings!WallVertices
<1>10. \A i \in 1..8 : s[i] = IF i <= 4 THEN Append(c[i], base) ELSE Append(c[i - 4], eave)
  BY DEF Buildings!WallVertices
<1> HIDE DEF c, s
<1>3. /\ s[1] = Append(<<-l, -w>>, base) /\ s[2] = Append(<<l, -w>>, base)
      /\ s[3] = Append(<<l, w>>, base) /\ s[4] = Append(<<-l, w>>, base)
      /\ s[5] = Append(<<-l, -w>>, eave) /\ s[6] = Append(<<l, -w>>, eave)
      /\ s[7] = Append(<<l, w>>, eave) /\ s[8] = Append(<<-l, w>>, eave)
  <2>1. ASSUME NEW i \in 1..4 PROVE s[i] = Append(c[i], base)
    BY <1>10, i \in 1..8, i <= 4
  <2>2. ASSUME NEW i \in 5..8 PROVE s[i] = Append(c[i - 4], eave)
    BY <1>10, i \in 1..8, ~(i <= 4)
  <2>7. 1 \in 1..4 /\ 2 \in 1..4 /\ 3 \in 1..4 /\ 4 \in 1..4
    OBVIOUS
  <2>3. s[1] = Append(<<-l, -w>>, base) /\ s[2] = Append(<<l, -w>>, base)
    <3>1. s[1] = Append(c[1], base) /\ s[2] = Append(c[2], base)
      BY <2>1, <2>7
    <3> QED
      BY <1>1, <3>1
  <2>4. s[3] = Append(<<l, w>>, base) /\ s[4] = Append(<<-l, w>>, base)
    <3>1. s[3] = Append(c[3], base) /\ s[4] = Append(c[4], base)
      BY <2>1, <2>7
    <3> QED
      BY <1>1, <3>1
  <2>5. s[5] = Append(<<-l, -w>>, eave) /\ s[6] = Append(<<l, -w>>, eave)
    <3>1. 5 \in 5..8 /\ 6 \in 5..8 /\ 5 - 4 = 1 /\ 6 - 4 = 2
      OBVIOUS
    <3>2. s[5] = Append(c[1], eave) /\ s[6] = Append(c[2], eave)
      BY <2>2, <3>1
    <3> QED
      BY <1>1, <3>2
  <2>6. s[7] = Append(<<l, w>>, eave) /\ s[8] = Append(<<-l, w>>, eave)
    <3>1. 7 \in 5..8 /\ 8 \in 5..8 /\ 7 - 4 = 3 /\ 8 - 4 = 4
      OBVIOUS
    <3>2. s[7] = Append(c[3], eave) /\ s[8] = Append(c[4], eave)
      BY <2>2, <3>1
    <3> QED
      BY <1>1, <3>2
  <2> QED
    BY <2>3, <2>4, <2>5, <2>6
<1>4. \A x, y, z \in Int : Append(<<x, y>>, z) = <<x, y, z>>
  BY AppendThird
<1>5. l \in Int /\ w \in Int /\ -l \in Int /\ -w \in Int
  OBVIOUS
<1>6. CornersAt(s, l, w, base, eave)
  BY <1>3, <1>4, <1>5 DEF CornersAt
<1>7. \A i \in 1..8 : s[i] \in Points3
  BY <1>5, <1>6 DEF CornersAt, Points3
<1>8. s \in [1..8 -> Points3]
  BY <1>2, <1>7
<1>9. s \in Seq(Points3) /\ Len(s) = 8
  <2>1. 8 \in Nat
    OBVIOUS
  <2> QED
    BY <1>8, <2>1, RowIsSeq
<1> QED
  BY <1>6, <1>9 DEF s

\* Corners of a mesh are put on after those of the walls.
LEMMA RoofIsPutOn ==
  ASSUME NEW box, box.length \in Int, box.width \in Int, NEW base \in Int, NEW eave \in Int,
         NEW n \in Nat, NEW top \in [1..n -> Points3]
  PROVE  LET v == Buildings!WallVertices(box, base, eave) \o top
         IN  /\ CornersAt(v, box.length, box.width, base, eave)
             /\ \A i \in 1..n : v[8 + i] = top[i]
             /\ \A i \in 1..(8 + n) : v[i] \in Points3
<1> DEFINE s == Buildings!WallVertices(box, base, eave)
           v == s \o top
<1>1. CornersAt(s, box.length, box.width, base, eave) /\ s \in Seq(Points3) /\ Len(s) = 8
  BY WallsStand
<1>2. top \in Seq(Points3) /\ Len(top) = n
  OBVIOUS
<1> HIDE DEF s
<1>7. \A i \in 1..(8 + n) : v[i] = IF i <= 8 THEN s[i] ELSE top[i - 8]
  <2>1. \A i \in 1..(Len(s) + Len(top)) : v[i] = IF i <= Len(s) THEN s[i] ELSE top[i - Len(s)]
    BY <1>1, <1>2, ConcatProperties
  <2> QED
    BY <1>1, <1>2, <2>1
<1> HIDE DEF v
<1>3. \A i \in 1..8 : v[i] = s[i]
  BY <1>7
<1>4. \A i \in 1..n : v[8 + i] = top[i]
  <2> SUFFICES ASSUME NEW i \in 1..n PROVE v[8 + i] = top[i]
    OBVIOUS
  <2>1. 8 + i \in 1..(8 + n) /\ ~(8 + i <= 8) /\ (8 + i) - 8 = i
    OBVIOUS
  <2> QED
    BY <1>7, <2>1
<1>5. CornersAt(v, box.length, box.width, base, eave)
  <2>2. v[1] = s[1] /\ v[2] = s[2] /\ v[3] = s[3] /\ v[4] = s[4]
    BY <1>3
  <2>3. v[5] = s[5] /\ v[6] = s[6] /\ v[7] = s[7] /\ v[8] = s[8]
    BY <1>3
  <2> QED
    BY <1>1, <2>2, <2>3, Zenon DEF CornersAt
<1>6. \A i \in 1..(8 + n) : v[i] \in Points3
  <2> SUFFICES ASSUME NEW i \in 1..(8 + n) PROVE v[i] \in Points3
    OBVIOUS
  <2>1. CASE i <= 8
    <3>0. i \in 1..8
      BY <2>1
    <3>1. i \in 1..Len(s) /\ v[i] = s[i]
      BY <1>1, <1>3, <3>0
    <3> QED
      BY <1>1, <3>1, ElementOfSeq
  <2>2. CASE i > 8
    <3>1. i - 8 \in 1..n /\ i = 8 + (i - 8)
      BY <2>2
    <3>2. v[i] = top[i - 8]
      BY <1>4, <3>1
    <3> QED
      BY <3>1, <3>2
  <2> QED
    BY <2>1, <2>2
<1> QED
  BY <1>4, <1>5, <1>6 DEF s, v

\* A mesh of points has the volume of its faces together, if it has no more corners than n.
LEMMA VolumeOfRoof ==
  ASSUME NEW v, NEW n \in Nat, \A i \in 1..n : v[i] \in Points3,
         NEW R, IsFiniteSet(R), NEW F, F = Walls \cup R,
         \A f \in F : f[1] \in 1..n /\ f[2] \in 1..n /\ f[3] \in 1..n
  PROVE  /\ IsFiniteSet(F) /\ Whole(DetOf(v, F), F)
         /\ Buildings!Volume([vertices |-> v, faces |-> F]) = SumOf(DetOf(v, F), F)
<1> DEFINE mesh == [vertices |-> v, faces |-> F]
<1>1. IsFiniteSet(F)
  BY WallsAreFinite, FS_Union
<1>2. mesh.vertices = v /\ mesh.faces = F
  OBVIOUS
<1>3. \A f \in F : {v[f[1]], v[f[2]], v[f[3]]} \subseteq Points3
  OBVIOUS
<1> HIDE DEF mesh
<1>4. /\ Whole(DetOf(mesh.vertices, mesh.faces), mesh.faces)
      /\ Buildings!Volume(mesh) = SumOf(DetOf(mesh.vertices, mesh.faces), mesh.faces)
  BY <1>1, <1>2, <1>3, VolumeIsSum
<1> QED
  BY <1>1, <1>2, <1>4 DEF mesh

\* The mesh of a pyramid.
LEMMA PyramidIsSound ==
  ASSUME NEW box, box.length \in Nat \ {0}, box.width \in Nat \ {0}, NEW base \in Int, NEW eave \in Int,
         NEW params, params.shape = "pyramidal", params.height \in Int
  PROVE  Buildings!MeshIsSound(box, params, base, eave)
<1> DEFINE l == box.length
           w == box.width
           t == eave + params.height
           top == <<<<0, 0, t>>>>
           v == Buildings!WallVertices(box, base, eave) \o top
           F == Walls \cup Buildings!PyramidFaces
           mesh == Buildings!RoofMesh(box, params, base, eave)
<1>1. mesh = [vertices |-> v, faces |-> F]
  BY WallsAre DEF Buildings!RoofMesh
<1>2. l \in Int /\ w \in Int /\ t \in Int
  OBVIOUS
<1>3. top \in [1..1 -> Points3] /\ top[1] = <<0, 0, t>>
  BY <1>2 DEF Points3
<1> HIDE DEF t, top
<1>4. CornersAt(v, l, w, base, eave) /\ v[9] = <<0, 0, t>> /\ \A i \in 1..9 : v[i] \in Points3
  <2>1. 1 \in Nat
    OBVIOUS
  <2>2. /\ CornersAt(v, l, w, base, eave)
        /\ \A i \in 1..1 : v[8 + i] = top[i]
        /\ \A i \in 1..(8 + 1) : v[i] \in Points3
    BY <1>2, <1>3, <2>1, RoofIsPutOn
  <2> HIDE DEF v
  <2>3. v[8 + 1] = top[1]
    BY <2>2
  <2> QED
    BY <1>3, <2>2, <2>3
<1>5. \A f \in F : f[1] \in 1..9 /\ f[2] \in 1..9 /\ f[3] \in 1..9
  BY DEF Walls, Buildings!PyramidFaces
<1>6. IsFiniteSet(Buildings!PyramidFaces)
  BY FewAreFinite DEF Buildings!PyramidFaces
<1> HIDE DEF v, mesh
<1>7. F = Walls \cup Buildings!PyramidFaces
  OBVIOUS
<1>8. RunOnce(F) /\ RunBack(F)
  BY PyramidCloses
<1> HIDE DEF F
<1>9. Buildings!IsClosed(mesh)
  BY <1>1, <1>8, ClosedWhen
<1>10. IsFiniteSet(F) /\ Whole(DetOf(v, F), F) /\ Buildings!Volume(mesh) = SumOf(DetOf(v, F), F)
  <2>1. 9 \in Nat
    OBVIOUS
  <2> QED
    BY <1>1, <1>4, <1>5, <1>6, <1>7, <2>1, VolumeOfRoof
<1>11. SumOf(DetOf(v, F), F) = 16 * (eave * l * w) - 24 * (base * l * w) + 8 * (t * l * w)
  BY <1>2, <1>4, <1>7, <1>10, PyramidVolume
<1>12. 16 * (eave * l * w) - 24 * (base * l * w) + 8 * (t * l * w)
         = 6 * 4 * l * w * (eave - base) + 2 * (2 * l) * (2 * w) * params.height
  BY <1>2 DEF t
<1>13. Buildings!RoofVolume(box, params) = 2 * (2 * l) * (2 * w) * params.height
  BY DEF Buildings!RoofVolume
<1> QED
  BY <1>9, <1>10, <1>11, <1>12, <1>13 DEF Buildings!MeshIsSound, mesh

\* What is divided by what it was multiplied with.
LEMMA DivideBack ==
  ASSUME NEW h \in Int, NEW m \in Nat \ {0}
  PROVE  (h * (2 * m)) \div (2 * m) = h /\ (h * 0) \div (2 * m) = 0
<1>1. 2 * m \in Nat \ {0} /\ h * (2 * m) \in Int
  OBVIOUS
<1>2. (h * (2 * m)) \div (2 * m) = h
  BY <1>1, DivisionUnique
<1>3. h * 0 = 0
  OBVIOUS
<1>4. 0 \div (2 * m) = 0
  BY <1>1, DivisionUnique
<1> QED
  BY <1>2, <1>3, <1>4

\* The corners of a slope: opposite ones are together as high as the roof.
Slopes(top, c, eave, h) ==
  \E d \in [1..4 -> Int] : d[1] + d[3] = h /\ d[2] + d[4] = h /\ top = [i \in 1..4 |-> Append(c[i], eave + d[i])]

\* The vertices of a slope are such.
LEMMA SlopeIsEven ==
  ASSUME NEW box, box.length \in Nat \ {0}, box.width \in Nat \ {0}, NEW eave \in Int,
         NEW params, params.height \in Int, params.direction \in {<<1, 0>>, <<-1, 0>>, <<0, 1>>, <<0, -1>>}
  PROVE  Slopes(Buildings!SkillionVertices(box, params, eave), Buildings!Corners(box), eave, params.height)
<1> DEFINE l == box.length
           w == box.width
           h == params.height
           c == Buildings!Corners(box)
           m == IF params.direction \in {<<1, 0>>, <<-1, 0>>} THEN l ELSE w
           proj == [i \in 1..4 |-> params.direction[1] * c[i][1] + params.direction[2] * c[i][2]]
           most == Max({proj[i] : i \in 1..4})
           d == [i \in 1..4 |-> (h * (most - proj[i])) \div (2 * most)]
<1>1. c[1] = <<-l, -w>> /\ c[2] = <<l, -w>> /\ c[3] = <<l, w>> /\ c[4] = <<-l, w>>
  BY DEF Buildings!Corners
<1>2. l \in Nat \ {0} /\ w \in Nat \ {0} /\ m \in Nat \ {0} /\ h \in Int
  OBVIOUS
<1>3. /\ proj[1] = params.direction[1] * c[1][1] + params.direction[2] * c[1][2]
      /\ proj[2] = params.direction[1] * c[2][1] + params.direction[2] * c[2][2]
      /\ proj[3] = params.direction[1] * c[3][1] + params.direction[2] * c[3][2]
      /\ proj[4] = params.direction[1] * c[4][1] + params.direction[2] * c[4][2]
  OBVIOUS
<1> HIDE DEF proj, c
<1>4. \/ params.direction[1] = 1 /\ params.direction[2] = 0 /\ m = l
      \/ params.direction[1] = -1 /\ params.direction[2] = 0 /\ m = l
      \/ params.direction[1] = 0 /\ params.direction[2] = 1 /\ m = w
      \/ params.direction[1] = 0 /\ params.direction[2] = -1 /\ m = w
  <2>1. CASE params.direction \in {<<1, 0>>, <<-1, 0>>}
    BY <2>1
  <2>2. CASE params.direction \in {<<0, 1>>, <<0, -1>>}
    BY <2>2
  <2> QED
    BY <2>1, <2>2
<1>5. /\ c[1][1] = -l /\ c[1][2] = -w /\ c[2][1] = l /\ c[2][2] = -w
      /\ c[3][1] = l /\ c[3][2] = w /\ c[4][1] = -l /\ c[4][2] = w
  BY <1>1
<1> HIDE DEF m, l, w
<1>6. /\ proj[1] \in {m, -m} /\ proj[2] \in {m, -m} /\ proj[3] = -proj[1] /\ proj[4] = -proj[2]
  <2>1. CASE params.direction[2] = 0
    BY <1>2, <1>3, <1>4, <1>5, <2>1
  <2>2. CASE params.direction[1] = 0
    BY <1>2, <1>3, <1>4, <1>5, <2>2
  <2> QED
    BY <1>4, <2>1, <2>2
<1>7. {proj[i] : i \in 1..4} = {m, -m}
  <2>1. {proj[i] : i \in 1..4} = {proj[1], proj[2], proj[3], proj[4]}
    OBVIOUS
  <2> QED
    BY <1>2, <1>6, <2>1
<1>8. most = m
  <2>1. most = Max({m, -m})
    BY <1>7
  <2>2. m >= -m /\ m \in Int /\ -m \in Int
    BY <1>2
  <2> HIDE DEF most
  <2> QED
    BY <2>1, <2>2, OfTwo
<1> HIDE DEF most
<1>9. ASSUME NEW i \in 1..4
      PROVE  d[i] = (IF proj[i] = m THEN 0 ELSE h) /\ d[i] \in Int /\ (proj[i] = m \/ proj[i] = -m)
  <2>1. proj[i] = m \/ proj[i] = -m
    BY <1>2, <1>6
  <2>2. d[i] = (h * (m - proj[i])) \div (2 * m)
    BY <1>8
  <2> HIDE DEF d
  <2>3. m - m = 0 /\ m - (-m) = 2 * m /\ m # -m
    BY <1>2
  <2>4. (h * (2 * m)) \div (2 * m) = h /\ (h * 0) \div (2 * m) = 0
    BY <1>2, DivideBack
  <2>5. CASE proj[i] = m
    BY <2>2, <2>3, <2>4, <2>5
  <2>6. CASE proj[i] = -m
    BY <1>2, <2>2, <2>3, <2>4, <2>6
  <2> QED
    BY <2>1, <2>5, <2>6
<1>10. d \in [1..4 -> Int]
  BY <1>9
<1>11. Buildings!SkillionVertices(box, params, eave) = [i \in 1..4 |-> Append(c[i], eave + d[i])]
  BY BuildingsMax DEF Buildings!SkillionVertices, c, most, proj
<1> HIDE DEF d
<1>12. d[1] + d[3] = h /\ d[2] + d[4] = h
  <2>1. 1 \in 1..4 /\ 2 \in 1..4 /\ 3 \in 1..4 /\ 4 \in 1..4 /\ m # -m /\ -(-m) = m
    BY <1>2
  <2>2. /\ d[1] = (IF proj[1] = m THEN 0 ELSE h) /\ d[2] = (IF proj[2] = m THEN 0 ELSE h)
        /\ d[3] = (IF proj[3] = m THEN 0 ELSE h) /\ d[4] = (IF proj[4] = m THEN 0 ELSE h)
    BY <1>9, <2>1
  <2> QED
    BY <1>2, <1>6, <2>1, <2>2
<1> QED
  BY <1>10, <1>11, <1>12 DEF c, h, Slopes

\* The mesh of a slope.
LEMMA SkillionIsSound ==
  ASSUME NEW box, box.length \in Nat \ {0}, box.width \in Nat \ {0}, NEW base \in Int, NEW eave \in Int,
         NEW params, params.shape = "skillion", params.height \in Int,
         params.direction \in {<<1, 0>>, <<-1, 0>>, <<0, 1>>, <<0, -1>>}
  PROVE  Buildings!MeshIsSound(box, params, base, eave)
<1> DEFINE l == box.length
           w == box.width
           h == params.height
           c == Buildings!Corners(box)
           top == Buildings!SkillionVertices(box, params, eave)
           v == Buildings!WallVertices(box, base, eave) \o top
           F == Walls \cup Buildings!SkillionFaces
           mesh == Buildings!RoofMesh(box, params, base, eave)
<1>1. mesh = [vertices |-> v, faces |-> F]
  BY WallsAre DEF Buildings!RoofMesh
<1>2. l \in Int /\ w \in Int /\ -l \in Int /\ -w \in Int /\ h \in Int
  OBVIOUS
<1>3. PICK d \in [1..4 -> Int] : /\ d[1] + d[3] = h /\ d[2] + d[4] = h
                                 /\ top = [i \in 1..4 |-> Append(c[i], eave + d[i])]
  <2>1. Slopes(top, c, eave, h)
    BY SlopeIsEven
  <2> HIDE DEF top, c, h
  <2> QED
    BY <2>1 DEF Slopes
<1>4. c[1] = <<-l, -w>> /\ c[2] = <<l, -w>> /\ c[3] = <<l, w>> /\ c[4] = <<-l, w>>
  BY DEF Buildings!Corners
<1> HIDE DEF top, c
<1>5. ASSUME NEW x \in Int, NEW y \in Int, NEW z \in Int PROVE Append(<<x, y>>, z) = <<x, y, z>>
  BY AppendThird
<1>6. PICK z1 \in Int, z2 \in Int, z3 \in Int, z4 \in Int :
        z1 = eave + d[1] /\ z2 = eave + d[2] /\ z3 = eave + d[3] /\ z4 = eave + d[4]
  OBVIOUS
<1>7. top[1] = <<-l, -w, z1>> /\ top[2] = <<l, -w, z2>> /\ top[3] = <<l, w, z3>> /\ top[4] = <<-l, w, z4>>
  <2>1. /\ top[1] = Append(c[1], eave + d[1]) /\ top[2] = Append(c[2], eave + d[2])
        /\ top[3] = Append(c[3], eave + d[3]) /\ top[4] = Append(c[4], eave + d[4])
    <3>1. \A i \in 1..4 : top[i] = Append(c[i], eave + d[i])
      BY <1>3, Zenon
    <3>2. 1 \in 1..4 /\ 2 \in 1..4 /\ 3 \in 1..4 /\ 4 \in 1..4
      OBVIOUS
    <3> QED
      BY <3>1, <3>2, Zenon
  <2>2. top[1] = Append(<<-l, -w>>, z1) /\ top[2] = Append(<<l, -w>>, z2)
    BY <1>4, <1>6, <2>1
  <2>3. top[3] = Append(<<l, w>>, z3) /\ top[4] = Append(<<-l, w>>, z4)
    BY <1>4, <1>6, <2>1
  <2> HIDE DEF l, w
  <2> QED
    BY <1>2, <1>5, <2>2, <2>3
<1>8. top \in [1..4 -> Points3]
  <2>1. DOMAIN top = 1..4 /\ top = [i \in 1..4 |-> top[i]]
    BY <1>3
  <2>2. \A i \in 1..4 : top[i] \in Points3
    BY <1>2, <1>7 DEF Points3
  <2> QED
    BY <2>1, <2>2
<1>9. /\ CornersAt(v, l, w, base, eave) /\ \A i \in 1..12 : v[i] \in Points3
      /\ SlopeAt(v, l, w, z1, z2, z3, z4)
  <2>1. 4 \in Nat
    OBVIOUS
  <2>2. /\ CornersAt(v, l, w, base, eave)
        /\ \A i \in 1..4 : v[8 + i] = top[i]
        /\ \A i \in 1..(8 + 4) : v[i] \in Points3
    BY <1>2, <1>8, <2>1, RoofIsPutOn
  <2> HIDE DEF v, l, w
  <2>3. v[8 + 1] = top[1] /\ v[8 + 2] = top[2] /\ v[8 + 3] = top[3] /\ v[8 + 4] = top[4]
    BY <2>2
  <2> QED
    BY <1>7, <2>2, <2>3 DEF SlopeAt
<1>10. \A f \in F : f[1] \in 1..12 /\ f[2] \in 1..12 /\ f[3] \in 1..12
  BY DEF Walls, Buildings!SkillionFaces
<1>11. IsFiniteSet(Buildings!SkillionFaces)
  <2>1. Buildings!SkillionFaces
          = ({<<5, 6, 10>>, <<5, 10, 9>>, <<6, 7, 11>>, <<6, 11, 10>>}
             \cup {<<7, 8, 12>>, <<7, 12, 11>>, <<8, 5, 9>>, <<8, 9, 12>>}) \cup {<<9, 10, 11>>, <<9, 11, 12>>}
    BY DEF Buildings!SkillionFaces
  <2>2. /\ IsFiniteSet({<<5, 6, 10>>, <<5, 10, 9>>, <<6, 7, 11>>, <<6, 11, 10>>})
        /\ IsFiniteSet({<<7, 8, 12>>, <<7, 12, 11>>, <<8, 5, 9>>, <<8, 9, 12>>})
        /\ IsFiniteSet({<<9, 10, 11>>, <<9, 11, 12>>})
    BY FewAreFinite
  <2> QED
    BY <2>1, <2>2, FS_Union
<1> HIDE DEF v, mesh
<1>12. F = Walls \cup Buildings!SkillionFaces
  OBVIOUS
<1>13. RunOnce(F) /\ RunBack(F)
  BY SkillionCloses
<1> HIDE DEF F
<1>14. Buildings!IsClosed(mesh)
  BY <1>1, <1>13, ClosedWhen
<1>15. IsFiniteSet(F) /\ Whole(DetOf(v, F), F) /\ Buildings!Volume(mesh) = SumOf(DetOf(v, F), F)
  <2>1. 12 \in Nat
    OBVIOUS
  <2> QED
    BY <1>1, <1>9, <1>10, <1>11, <1>12, <2>1, VolumeOfRoof
<1>19. z1 \in Int /\ z2 \in Int /\ z3 \in Int /\ z4 \in Int
  OBVIOUS
<1>16. SumOf(DetOf(v, F), F)
         = 16 * (eave * l * w) - 24 * (base * l * w)
           + 8 * (z1 * l * w) + 4 * (z2 * l * w) + 8 * (z3 * l * w) + 4 * (z4 * l * w) - 16 * (eave * l * w)
  <2> HIDE DEF l, w
  <2> QED
    BY ONLY <1>2, base \in Int, eave \in Int, <1>9, <1>12, <1>15, <1>19, SkillionVolume
<1>17. 16 * (eave * l * w) - 24 * (base * l * w)
         + 8 * (z1 * l * w) + 4 * (z2 * l * w) + 8 * (z3 * l * w) + 4 * (z4 * l * w) - 16 * (eave * l * w)
         = 6 * 4 * l * w * (eave - base) + 3 * (2 * l) * (2 * w) * h
  <2>1. z3 = 2 * eave + h - z1 /\ z4 = 2 * eave + h - z2
    <3>1. \A i \in 1..4 : d[i] \in Int
      OBVIOUS
    <3>2. d[1] \in Int /\ d[2] \in Int /\ d[3] \in Int /\ d[4] \in Int
      BY <3>1
    <3>3. PICK d1 \in Int, d2 \in Int, d3 \in Int, d4 \in Int :
             d1 = d[1] /\ d2 = d[2] /\ d3 = d[3] /\ d4 = d[4]
      BY <3>2
    <3>4. PICK k \in Int : k = h
      BY <1>2
    <3>5. d1 + d3 = k /\ d2 + d4 = k /\ z1 = eave + d1 /\ z2 = eave + d2 /\ z3 = eave + d3 /\ z4 = eave + d4
      BY <1>3, <1>6, <3>3, <3>4
    <3>6. z3 = 2 * eave + k - z1 /\ z4 = 2 * eave + k - z2
      BY ONLY <3>5, d1 \in Int, d2 \in Int, d3 \in Int, d4 \in Int, k \in Int, eave \in Int,
              z1 \in Int, z2 \in Int, z3 \in Int, z4 \in Int
    <3> QED
      BY <3>4, <3>6
  <2> HIDE DEF l, w, h
  <2> QED
    BY <1>2, <2>1
<1>18. Buildings!RoofVolume(box, params) = 3 * (2 * l) * (2 * w) * h
  BY DEF Buildings!RoofVolume
<1> QED
  BY <1>14, <1>15, <1>16, <1>17, <1>18 DEF Buildings!MeshIsSound, mesh

\* So are six.
LEMMA SixAreFinite ==
  ASSUME NEW a, NEW b, NEW c, NEW d, NEW e, NEW f
  PROVE  IsFiniteSet({a, b, c, d, e, f})
<1>1. IsFiniteSet({a, b, c, d}) /\ IsFiniteSet({e, f})
  BY FewAreFinite
<1>2. {a, b, c, d, e, f} = {a, b, c, d} \cup {e, f}
  OBVIOUS
<1> QED
  BY <1>1, <1>2, FS_Union

\* The mesh of a ridge along the long sides, to their ends or hipped.
LEMMA RidgeAlongIsSound ==
  ASSUME NEW box, box.length \in Nat \ {0}, box.width \in Nat \ {0}, NEW base \in Int, NEW eave \in Int,
         NEW params, params.height \in Int, params.alongLong = TRUE,
         params.shape = "gabled" \/ (params.shape = "hipped" /\ box.width <= box.length)
  PROVE  Buildings!MeshIsSound(box, params, base, eave)
<1> DEFINE l == box.length
           w == box.width
           h == params.height
           t == eave + h
           r == IF params.shape = "hipped" THEN l - w ELSE l
           top == <<Append(Buildings!Ridge(box, params)[1], t), Append(Buildings!Ridge(box, params)[2], t)>>
           v == Buildings!WallVertices(box, base, eave) \o top
           F == Walls \cup FacesAlong
           mesh == Buildings!RoofMesh(box, params, base, eave)
<1>1. Buildings!TurnedRidgeFaces(params) = FacesAlong
  BY DEF Buildings!TurnedRidgeFaces, Buildings!RidgeFaces, FacesAlong
<1>2. mesh = [vertices |-> v, faces |-> F]
  BY <1>1, WallsAre DEF Buildings!RoofMesh
<1>3. l \in Int /\ w \in Int /\ t \in Int /\ h \in Int
  OBVIOUS
<1>4. r \in Int /\ -r \in Int
  OBVIOUS
<1>17. params.shape = "hipped" => Buildings!Max({l - w, 0}) = l - w
  <2> SUFFICES ASSUME params.shape = "hipped" PROVE Buildings!Max({l - w, 0}) = l - w
    OBVIOUS
  <2>1. Max({l - w, 0}) = l - w
    <3>1. l - w \in Int /\ 0 \in Int /\ l - w >= 0
      OBVIOUS
    <3> HIDE DEF l, w
    <3> QED
      BY <3>1, OfTwo
  <2> QED
    BY <2>1, BuildingsMax
<1>5. Buildings!Ridge(box, params)[1] = <<-r, 0>> /\ Buildings!Ridge(box, params)[2] = <<r, 0>>
  BY <1>17 DEF Buildings!Ridge
<1>6. top[1] = <<-r, 0, t>> /\ top[2] = <<r, 0, t>>
  <2>1. \A x, y, z \in Int : Append(<<x, y>>, z) = <<x, y, z>>
    BY AppendThird
  <2>2. top[1] = Append(<<-r, 0>>, t) /\ top[2] = Append(<<r, 0>>, t)
    BY <1>5
  <2> HIDE DEF top, t, l, w, r
  <2>3. PICK m \in Int : m = -r
    BY <1>3, <1>4
  <2> QED
    BY <1>3, <1>4, <2>1, <2>2, <2>3
<1>7. top \in [1..2 -> Points3]
  <2>1. top = <<top[1], top[2]>>
    OBVIOUS
  <2> HIDE DEF top, t, r
  <2>2. top[1] \in Points3 /\ top[2] \in Points3
    BY <1>3, <1>4, <1>6 DEF Points3
  <2> QED
    BY <2>1, <2>2
<1> HIDE DEF top
<1>8. CornersAt(v, l, w, base, eave) /\ RidgeAlong(v, r, t) /\ \A i \in 1..10 : v[i] \in Points3
  <2>1. 2 \in Nat
    OBVIOUS
  <2>2. /\ CornersAt(v, l, w, base, eave)
        /\ \A i \in 1..2 : v[8 + i] = top[i]
        /\ \A i \in 1..(8 + 2) : v[i] \in Points3
    BY <1>3, <1>7, <2>1, RoofIsPutOn
  <2> HIDE DEF v, l, w, r, t
  <2>3. v[8 + 1] = top[1] /\ v[8 + 2] = top[2]
    BY <2>2
  <2> QED
    BY <1>6, <2>2, <2>3 DEF RidgeAlong
<1>9. \A f \in F : f[1] \in 1..10 /\ f[2] \in 1..10 /\ f[3] \in 1..10
  BY DEF Walls, FacesAlong
<1>10. IsFiniteSet(FacesAlong)
  BY SixAreFinite DEF FacesAlong
<1> HIDE DEF v, mesh
<1>11. F = Walls \cup FacesAlong
  OBVIOUS
<1>12. RunOnce(F) /\ RunBack(F)
  BY <1>1, RidgeCloses
<1> HIDE DEF F
<1>13. Buildings!IsClosed(mesh)
  BY <1>2, <1>12, ClosedWhen
<1>14. IsFiniteSet(F) /\ Whole(DetOf(v, F), F) /\ Buildings!Volume(mesh) = SumOf(DetOf(v, F), F)
  <2>1. 10 \in Nat
    OBVIOUS
  <2> QED
    BY <1>2, <1>8, <1>9, <1>10, <1>11, <2>1, VolumeOfRoof
<1>15. SumOf(DetOf(v, F), F)
         = 16 * (eave * l * w) - 24 * (base * l * w) + 8 * (t * l * w) + 4 * (t * r * w) - 4 * (eave * r * w)
  <2> HIDE DEF l, w, t, r
  <2> QED
    BY <1>3, <1>4, <1>8, <1>11, <1>14, LongRidgeVolume
<1>16. 16 * (eave * l * w) - 24 * (base * l * w) + 8 * (t * l * w) + 4 * (t * r * w) - 4 * (eave * r * w)
         = 6 * 4 * l * w * (eave - base) + Buildings!RoofVolume(box, params)
  <2>1. CASE params.shape = "gabled"
    <3>1. Buildings!RoofVolume(box, params) = 3 * (2 * l) * (2 * w) * h
      BY <2>1 DEF Buildings!RoofVolume
    <3>2. r = l
      BY <2>1
    <3> HIDE DEF l, w, h, r
    <3> QED
      BY <1>3, <3>1, <3>2 DEF t
  <2>2. CASE params.shape = "hipped"
    <3>1. Buildings!RoofVolume(box, params) = h * (3 * (2 * l) * (2 * w) - (2 * w) * (2 * w))
      BY <2>2 DEF Buildings!RoofVolume
    <3>2. r = l - w
      BY <2>2
    <3> HIDE DEF l, w, h, r
    <3> QED
      BY <1>3, <3>1, <3>2 DEF t
  <2> QED
    BY <2>1, <2>2
<1> QED
  BY <1>13, <1>14, <1>15, <1>16 DEF Buildings!MeshIsSound, mesh

\* The mesh of a ridge along the short sides.
LEMMA RidgeAcrossIsSound ==
  ASSUME NEW box, box.length \in Nat \ {0}, box.width \in Nat \ {0}, NEW base \in Int, NEW eave \in Int,
         NEW params, params.height \in Int, params.alongLong = FALSE, params.shape = "gabled"
  PROVE  Buildings!MeshIsSound(box, params, base, eave)
<1> DEFINE l == box.length
           w == box.width
           h == params.height
           t == eave + h
           top == <<Append(Buildings!Ridge(box, params)[1], t), Append(Buildings!Ridge(box, params)[2], t)>>
           v == Buildings!WallVertices(box, base, eave) \o top
           F == Walls \cup FacesAcross
           mesh == Buildings!RoofMesh(box, params, base, eave)
<1>1. Buildings!TurnedRidgeFaces(params) = FacesAcross
  BY DEF Buildings!TurnedRidgeFaces, Buildings!RidgeFaces, FacesAcross
<1>2. mesh = [vertices |-> v, faces |-> F]
  BY <1>1, WallsAre DEF Buildings!RoofMesh
<1>3. l \in Int /\ w \in Int /\ t \in Int /\ h \in Int
  OBVIOUS
<1>4. w \in Int /\ -w \in Int
  OBVIOUS
<1>5. Buildings!Ridge(box, params)[1] = <<0, -w>> /\ Buildings!Ridge(box, params)[2] = <<0, w>>
  BY DEF Buildings!Ridge
<1>6. top[1] = <<0, -w, t>> /\ top[2] = <<0, w, t>>
  <2>1. \A x, y, z \in Int : Append(<<x, y>>, z) = <<x, y, z>>
    BY AppendThird
  <2>2. top[1] = Append(<<0, -w>>, t) /\ top[2] = Append(<<0, w>>, t)
    BY <1>5
  <2> HIDE DEF top, t, l, w
  <2>3. PICK m \in Int : m = -w
    BY <1>3, <1>4
  <2> QED
    BY <1>3, <1>4, <2>1, <2>2, <2>3
<1>7. top \in [1..2 -> Points3]
  <2>1. top[1] \in Points3 /\ top[2] \in Points3
    BY <1>3, <1>4, <1>6 DEF Points3
  <2>2. top = <<top[1], top[2]>>
    OBVIOUS
  <2> HIDE DEF top
  <2> QED
    BY <2>1, <2>2
<1> HIDE DEF top
<1>8. CornersAt(v, l, w, base, eave) /\ RidgeAcross(v, w, t) /\ \A i \in 1..10 : v[i] \in Points3
  <2>1. 2 \in Nat
    OBVIOUS
  <2>2. /\ CornersAt(v, l, w, base, eave)
        /\ \A i \in 1..2 : v[8 + i] = top[i]
        /\ \A i \in 1..(8 + 2) : v[i] \in Points3
    BY <1>3, <1>7, <2>1, RoofIsPutOn
  <2> HIDE DEF v, l, w, t
  <2>3. v[8 + 1] = top[1] /\ v[8 + 2] = top[2]
    BY <2>2
  <2> QED
    BY <1>6, <2>2, <2>3 DEF RidgeAcross
<1>9. \A f \in F : f[1] \in 1..10 /\ f[2] \in 1..10 /\ f[3] \in 1..10
  BY DEF Walls, FacesAcross
<1>10. IsFiniteSet(FacesAcross)
  BY SixAreFinite DEF FacesAcross
<1> HIDE DEF v, mesh
<1>11. F = Walls \cup FacesAcross
  OBVIOUS
<1>12. RunOnce(F) /\ RunBack(F)
  BY <1>1, RidgeCloses
<1> HIDE DEF F
<1>13. Buildings!IsClosed(mesh)
  BY <1>2, <1>12, ClosedWhen
<1>14. IsFiniteSet(F) /\ Whole(DetOf(v, F), F) /\ Buildings!Volume(mesh) = SumOf(DetOf(v, F), F)
  <2>1. 10 \in Nat
    OBVIOUS
  <2> QED
    BY <1>2, <1>8, <1>9, <1>10, <1>11, <2>1, VolumeOfRoof
<1>15. SumOf(DetOf(v, F), F) = 16 * (eave * l * w) - 24 * (base * l * w) + 12 * (t * l * w) - 4 * (eave * l * w)
  <2> HIDE DEF l, w, t
  <2> QED
    BY <1>3, <1>4, <1>8, <1>11, <1>14, ShortRidgeVolume
<1>16. 16 * (eave * l * w) - 24 * (base * l * w) + 12 * (t * l * w) - 4 * (eave * l * w)
         = 6 * 4 * l * w * (eave - base) + Buildings!RoofVolume(box, params)
  <2>1. Buildings!RoofVolume(box, params) = 3 * (2 * l) * (2 * w) * h
    BY DEF Buildings!RoofVolume
  <2> HIDE DEF l, w, h
  <2> QED
    BY <1>3, <2>1 DEF t
<1> QED
  BY <1>13, <1>14, <1>15, <1>16 DEF Buildings!MeshIsSound, mesh

\* Whatever roof a box gets, its mesh is closed and holds the volume stated.
LEMMA RoofsAreAlwaysSound ==
  ASSUME NEW box, Buildings!IsBox(box), NEW params, Buildings!IsRoof(params), NEW base \in Int, NEW eave \in Int
  PROVE  Buildings!MeshIsSound(box, params, base, eave)
<1>1. box.length \in Nat \ {0} /\ box.width \in Nat \ {0} /\ box.width <= box.length
  BY DEF Buildings!IsBox
<1>2. params.height \in Int /\ (params.alongLong = TRUE \/ params.alongLong = FALSE)
  BY Zenon DEF Buildings!IsRoof
<1>3. CASE params.shape = "pyramidal"
  BY <1>1, <1>2, <1>3, PyramidIsSound
<1>4. CASE params.shape = "skillion"
  <2>1. params.direction \in {<<1, 0>>, <<-1, 0>>, <<0, 1>>, <<0, -1>>}
    BY <1>4, Zenon DEF Buildings!IsRoof
  <2> QED
    BY <1>1, <1>2, <1>4, <2>1, SkillionIsSound
<1>5. CASE params.shape = "hipped"
  <2>1. params.alongLong = TRUE
    <3>1. params.shape # "gabled"
      BY <1>5
    <3> QED
      BY <1>2, <3>1, Zenon DEF Buildings!IsRoof
  <2> QED
    BY <1>1, <1>2, <1>5, <2>1, RidgeAlongIsSound
<1>6. CASE params.shape = "gabled" /\ params.alongLong = TRUE
  BY <1>1, <1>2, <1>6, RidgeAlongIsSound
<1>7. CASE params.shape = "gabled" /\ params.alongLong = FALSE
  BY <1>1, <1>2, <1>7, RidgeAcrossIsSound
<1>8. params.shape \in {"gabled", "hipped", "pyramidal", "skillion"}
  BY Zenon DEF Buildings!IsRoof, Buildings!SUPPORTED_ROOF_SHAPES
<1> QED
  BY <1>2, <1>3, <1>4, <1>5, <1>6, <1>7, <1>8, Zenon

\* A roof by its angle is not rounded to nothing.
LEMMA RoofHeightType ==
  ASSUME NEW tags, Buildings!AreRoofTags(tags), NEW width \in Nat
  PROVE  Buildings!RoofHeight(tags, width) \in Int /\ (4 <= width => Buildings!RoofHeight(tags, width) > 0)
<1> DEFINE angle == IF 0 < tags.angle /\ tags.angle < 90 THEN tags.angle ELSE Buildings!DEFAULT_ROOF_ANGLE
           run == IF tags.shape = "skillion" THEN 2 * width ELSE width
           tan == Buildings!Tan[angle]
<1>1. tags.height \in Int /\ tags.angle \in Int
  BY DEF Buildings!AreRoofTags
<1>2. angle \in {15, 30, 45, 60}
  <2>1. DOMAIN Buildings!Tan = {15, 30, 45, 60}
    BY DEF Buildings!Tan
  <2>2. CASE 0 < tags.angle /\ tags.angle < 90
    BY <1>1, <2>1, <2>2 DEF Buildings!AreRoofTags
  <2>3. CASE ~(0 < tags.angle /\ tags.angle < 90)
    BY <2>3 DEF Buildings!DEFAULT_ROOF_ANGLE
  <2> QED
    BY <2>2, <2>3
<1> HIDE DEF angle
<1>3. tan \in Nat /\ 268 <= tan
  BY <1>2 DEF Buildings!Tan
<1>4. run \in Nat /\ width <= run
  OBVIOUS
<1>5. Buildings!RoofHeight(tags, width) = IF tags.height > 0 THEN tags.height ELSE (run * tan) \div 1000
  BY DEF Buildings!RoofHeight, angle
<1> HIDE DEF tan, run
<1>6. run * tan \in Nat /\ (4 <= width => 1000 <= run * tan)
  <2>1. run * tan \in Nat
    BY <1>3, <1>4
  <2>2. ASSUME 4 <= width PROVE 1000 <= run * tan
    <3>1. 4 <= run /\ run * 268 <= run * tan
      BY <1>3, <1>4, <2>2
    <3> QED
      BY <1>3, <1>4, <2>1, <3>1
  <2> QED
    BY <2>1, <2>2
<1>7. PICK k \in Nat : k = run * tan
  BY <1>6
<1>8. k \div 1000 \in Int /\ (1000 <= k => k \div 1000 > 0)
  OBVIOUS
<1> QED
  BY <1>1, <1>5, <1>6, <1>7, <1>8

\* Tags make a roof that can be built, or a flat one.
LEMMA RoofParamsAre ==
  ASSUME NEW tags, Buildings!AreRoofTags(tags), NEW box, Buildings!IsBox(box)
  PROVE  LET roof == Buildings!RoofParams(tags, box)
         IN  /\ roof.shape = "flat" => roof.height = 0
             /\ roof.shape # "flat" => Buildings!IsRoof(roof) /\ (4 <= box.width => roof.height > 0)
<1> DEFINE roof == Buildings!RoofParams(tags, box)
<1>1. CASE tags.shape \notin Buildings!SUPPORTED_ROOF_SHAPES
  <2>1. roof.shape = "flat" /\ roof.height = 0
    BY <1>1 DEF Buildings!RoofParams, Buildings!FlatRoof
  <2> QED
    BY <2>1
<1>2. CASE tags.shape \in Buildings!SUPPORTED_ROOF_SHAPES
  <2>1. /\ roof.shape = tags.shape
        /\ roof.height = Buildings!RoofHeight(tags, box.width)
    BY <1>2 DEF Buildings!RoofParams
  <2>2. roof.alongLong \in BOOLEAN /\ (tags.shape # "gabled" => roof.alongLong)
    BY <1>2, Zenon DEF Buildings!RoofParams
  <2>3. tags.shape = "skillion" => roof.direction \in {<<1, 0>>, <<-1, 0>>, <<0, 1>>, <<0, -1>>}
    <3> SUFFICES ASSUME tags.shape = "skillion"
                 PROVE  roof.direction \in {<<1, 0>>, <<-1, 0>>, <<0, 1>>, <<0, -1>>}
      OBVIOUS
    <3>1. roof.direction = IF tags.direction # Buildings!NoTag THEN Buildings!Down(tags.direction, box.north)
                           ELSE <<0, 1>>
      BY <1>2 DEF Buildings!RoofParams
    <3>2. tags.direction # Buildings!NoTag => tags.direction \in {0, 90, 180, 270}
      BY DEF Buildings!AreRoofTags
    <3> HIDE DEF roof
    <3> QED
      BY <3>1, <3>2 DEF Buildings!Down
  <2>4. tags.shape # "flat"
    BY <1>2 DEF Buildings!SUPPORTED_ROOF_SHAPES
  <2>5. roof.height \in Int /\ (4 <= box.width => roof.height > 0)
    <3>1. box.width \in Nat
      BY DEF Buildings!IsBox
    <3> QED
      BY <2>1, <3>1, RoofHeightType
  <2>6. Buildings!IsRoof(roof)
    BY <1>2, <2>1, <2>2, <2>3, <2>5, Zenon DEF Buildings!IsRoof
  <2> QED
    BY <2>1, <2>4, <2>5, <2>6
<1> QED
  BY <1>1, <1>2

\* The height of a building is positive, and a default when nothing was known.
LEMMA ComputeHeightIs ==
  ASSUME NEW f, f.height \in Int, f.levels \in Int, NEW overture \in Int
  PROVE  LET height == Buildings!ComputeHeight(f, overture)
         IN  /\ height.height \in Int /\ height.height > 0
             /\ height.confidence = "default" <=> f.height <= 0 /\ f.levels <= 0 /\ overture <= 0
<1> DEFINE height == Buildings!ComputeHeight(f, overture)
           byType == IF f.type \in DOMAIN Buildings!DEFAULT_HEIGHT_BY_TYPE THEN Buildings!DEFAULT_HEIGHT_BY_TYPE[f.type]
                     ELSE Buildings!DEFAULT_HEIGHT_FALLBACK
<1>1. byType \in Int /\ byType > 0
  BY DEF Buildings!DEFAULT_HEIGHT_BY_TYPE, Buildings!DEFAULT_HEIGHT_FALLBACK
<1>2. CASE f.height > 0
  <2>1. height.height = f.height /\ height.confidence = "fact"
    BY <1>2 DEF Buildings!ComputeHeight
  <2> QED
    BY <1>2, <2>1
<1>3. CASE f.height <= 0 /\ f.levels > 0
  <2>1. height.height = 30 * f.levels + 10 /\ height.confidence = "fact"
    BY <1>3 DEF Buildings!ComputeHeight
  <2> QED
    BY <1>3, <2>1
<1>4. CASE f.height <= 0 /\ f.levels <= 0 /\ overture > 0
  <2>1. height.height = overture /\ height.confidence = "fact"
    BY <1>4 DEF Buildings!ComputeHeight
  <2> QED
    BY <1>4, <2>1
<1>5. CASE f.height <= 0 /\ f.levels <= 0 /\ overture <= 0
  <2>1. height.height = byType /\ height.confidence = "default"
    BY <1>5 DEF Buildings!ComputeHeight
  <2> HIDE DEF byType
  <2> QED
    BY <1>1, <1>5, <2>1
<1> QED
  BY <1>2, <1>3, <1>4, <1>5

\* Whatever the tags say, the height is positive and its confidence true, and a roof is lower
\* than its building.
LEMMA HeightsAreAlwaysHonest ==
  ASSUME NEW f, f.height \in Int, f.levels \in Int, Buildings!AreRoofTags(f.roof), NEW overture \in Int,
         NEW box, Buildings!IsBox(box), 4 <= box.width
  PROVE  Buildings!HeightsAreHonest(f, box, overture)
<1> DEFINE height == Buildings!ComputeHeight(f, overture)
           made == Buildings!RoofParams(f.roof, box)
           roof == Buildings!RoofOf(f, box, height.height)
<1>1. /\ height.height \in Int /\ height.height > 0
      /\ height.confidence = "default" <=> f.height <= 0 /\ f.levels <= 0 /\ overture <= 0
  BY ComputeHeightIs
<1>2. /\ made.shape = "flat" => made.height = 0
      /\ made.shape # "flat" => Buildings!IsRoof(made) /\ made.height > 0
  BY RoofParamsAre
<1>3. roof = IF made.shape # "flat" /\ made.height >= height.height THEN Buildings!FlatRoof("default") ELSE made
  BY DEF Buildings!RoofOf
<1> HIDE DEF height, made, roof
<1>4. roof.height < height.height /\ (roof.shape = "flat" <=> roof.height = 0)
  <2>1. CASE made.shape # "flat" /\ made.height >= height.height
    <3>1. roof.shape = "flat" /\ roof.height = 0
      BY <1>3, <2>1 DEF Buildings!FlatRoof
    <3> QED
      BY <1>1, <3>1
  <2>2. CASE made.shape # "flat" /\ ~(made.height >= height.height)
    <3>1. made.height \in Int /\ roof = made
      BY <1>2, <1>3, <2>2 DEF Buildings!IsRoof
    <3> QED
      BY <1>1, <1>2, <2>2, <3>1
  <2>3. CASE made.shape = "flat"
    BY <1>1, <1>2, <1>3, <2>3
  <2> QED
    BY <2>1, <2>2, <2>3
<1> QED
  BY <1>1, <1>4 DEF Buildings!HeightsAreHonest, height, roof

IsPiece(p) == IsFiniteSet(p.area) /\ p.area \subseteq Int \X Int /\ p.yards \subseteq Int \X Int

\* A footprint is what the outer ring of a piece of its feature holds, or nothing.
LEMMA FootprintIsPiece ==
  ASSUME NEW f, IsFiniteSet(f.pieces), \A p \in f.pieces : IsPiece(p)
  PROVE  Buildings!RepairFootprint(f) \subseteq Int \X Int
<1> DEFINE size == [p \in f.pieces |-> Cardinality(p.area)]
           sizes == {size[p] : p \in f.pieces}
           largest == CHOOSE p \in f.pieces : \A q \in f.pieces :
                        Buildings!Cardinality(q.area) <= Buildings!Cardinality(p.area)
           whole == largest.area \cup largest.yards
<1>1. \A p \in f.pieces : size[p] \in Nat /\ size[p] = Buildings!Cardinality(p.area)
  BY FS_CardinalityType, BuildingsCount DEF IsPiece
<1> HIDE DEF size
<1>2. ASSUME f.pieces # {} PROVE largest \in f.pieces
  <2>1. IsFiniteSet(sizes)
    BY FiniteImage
  <2>2. sizes \subseteq Int /\ sizes # {}
    BY <1>1, <1>2
  <2>3. PICK m \in sizes : \A k \in sizes : m >= k
    BY <2>1, <2>2, FiniteBounds
  <2>4. PICK p \in f.pieces : m = size[p]
    BY <2>3
  <2>5. \A q \in f.pieces : Buildings!Cardinality(q.area) <= Buildings!Cardinality(p.area)
    BY <1>1, <2>3, <2>4
  <2> QED
    BY <2>5
<1>3. Buildings!RepairFootprint(f)
        = IF f.pieces # {} /\ Buildings!Cardinality(whole) >= Buildings!MIN_FOOTPRINT_AREA THEN whole ELSE {}
  BY Zenon DEF Buildings!RepairFootprint
<1>4. f.pieces # {} => whole \subseteq Int \X Int
  BY <1>2 DEF IsPiece
<1> QED
  BY <1>3, <1>4

\* Pieces meet each other.
LEMMA MeetsIsMutual ==
  ASSUME NEW p \in SUBSET (Int \X Int), NEW q \in SUBSET (Int \X Int), Buildings!Meets(p, q)
  PROVE  Buildings!Meets(q, p)
<1>1. PICK c \in p, d \in q : c[1] - d[1] \in -1..1 /\ c[2] - d[2] \in -1..1
  BY DEF Buildings!Meets
<1>2. c[1] \in Int /\ c[2] \in Int /\ d[1] \in Int /\ d[2] \in Int
  BY <1>1
<1>3. d[1] - c[1] \in -1..1 /\ d[2] - c[2] \in -1..1
  BY <1>1, <1>2
<1> QED
  BY <1>3 DEF Buildings!Meets

\* Every building of a site is built once: no outline where a part is, no part lost, none
\* of its entrances left outside.
LEMMA BuildingsAreAlwaysOnce ==
  ASSUME NEW features, NEW box,
         \A f \in features : /\ IsFiniteSet(f.pieces)
                             /\ \A p \in f.pieces : IsPiece(p)
                             /\ f.at \in Int \X Int
  PROVE  Buildings!EachBuildingOnce(features, box)
<1> DEFINE foot(f) == Buildings!RepairFootprint(f)
           parts == Buildings!BuiltParts(features)
           kept == {g \in features : /\ g.layer = "osm_buildings"
                                     /\ foot(g) # {}
                                     /\ ~\E part \in parts : Buildings!Replaces(part, g)}
           solid(f, isPart) == Buildings!ExtrudeSingle(f, features, isPart, box)
           solids == Buildings!ExtrudeBuildings(features, box)
           built == {s.id : s \in solids}
<1>1. solids = {solid(f, FALSE) : f \in kept} \cup {solid(f, TRUE) : f \in parts}
  BY DEF Buildings!ExtrudeBuildings
<1>2. \A f : \A k \in BOOLEAN :
        /\ solid(f, k).id = f.id /\ solid(f, k).isPart = k /\ solid(f, k).footprint = foot(f)
        /\ solid(f, k).entrances = Buildings!MatchEntrances(foot(f), features)
  BY DEF Buildings!ExtrudeSingle
<1>3. parts = {f \in features : f.layer = "osm_building_parts" /\ foot(f) # {}}
  BY DEF Buildings!BuiltParts
<1>4. \A p, g : Buildings!Replaces(p, g) <=> Buildings!Meets(foot(p), foot(g))
  BY DEF Buildings!Replaces
<1>5. \A f \in features : foot(f) \in SUBSET (Int \X Int)
  BY FootprintIsPiece
<1> HIDE DEF foot, parts, solid, solids
<1>6. \A f \in kept, g \in parts : ~Buildings!Meets(foot(f), foot(g)) /\ ~Buildings!Meets(foot(g), foot(f))
  <2> SUFFICES ASSUME NEW f \in kept, NEW g \in parts
               PROVE  ~Buildings!Meets(foot(f), foot(g)) /\ ~Buildings!Meets(foot(g), foot(f))
    OBVIOUS
  <2>1. f \in features /\ g \in features /\ ~Buildings!Meets(foot(g), foot(f))
    BY <1>3, <1>4
  <2>2. foot(f) \in SUBSET (Int \X Int) /\ foot(g) \in SUBSET (Int \X Int)
    BY <1>5, <2>1
  <2> QED
    BY <2>1, <2>2, MeetsIsMutual
<1> HIDE DEF kept
<1>7. \A s \in solids : \/ \E f \in kept : s = solid(f, FALSE) /\ s.isPart = FALSE /\ s.footprint = foot(f)
                        \/ \E f \in parts : s = solid(f, TRUE) /\ s.isPart = TRUE /\ s.footprint = foot(f)
  <2> SUFFICES ASSUME NEW s \in solids
               PROVE  \/ \E f \in kept : s = solid(f, FALSE) /\ s.isPart = FALSE /\ s.footprint = foot(f)
                      \/ \E f \in parts : s = solid(f, TRUE) /\ s.isPart = TRUE /\ s.footprint = foot(f)
    OBVIOUS
  <2>1. ASSUME NEW f \in kept, s = solid(f, FALSE) PROVE s.isPart = FALSE /\ s.footprint = foot(f)
    BY <1>2, <2>1
  <2>2. ASSUME NEW f \in parts, s = solid(f, TRUE) PROVE s.isPart = TRUE /\ s.footprint = foot(f)
    BY <1>2, <2>2
  <2> QED
    BY <1>1, <2>1, <2>2, Zenon
<1>8. ASSUME NEW s \in solids, NEW t \in solids, s.isPart # t.isPart
      PROVE  ~Buildings!Meets(s.footprint, t.footprint)
  BY <1>6, <1>7, <1>8
<1>9. ASSUME NEW f \in parts PROVE solid(f, TRUE) \in solids /\ f.id \in built
  BY <1>1, <1>2
<1>10. ASSUME NEW f \in features, f.layer = "osm_buildings", foot(f) # {}, f.id \notin built
       PROVE  \E s \in solids : s.isPart /\ Buildings!Meets(s.footprint, foot(f))
  <2>1. f \notin kept
    <3>1. SUFFICES ASSUME f \in kept PROVE FALSE
      OBVIOUS
    <3>2. solid(f, FALSE) \in solids /\ solid(f, FALSE).id = f.id
      BY <1>1, <1>2, <3>1
    <3> QED
      BY <1>10, <3>2
  <2>2. PICK p \in parts : Buildings!Meets(foot(p), foot(f))
    BY <1>4, <1>10, <2>1 DEF kept
  <2>3. solid(p, TRUE) \in solids /\ solid(p, TRUE).isPart = TRUE /\ solid(p, TRUE).footprint = foot(p)
    BY <1>2, <1>9
  <2> QED
    BY <2>2, <2>3
<1>11. ASSUME NEW s \in solids, NEW e \in features, e.layer = "osm_entrances", e.at \in s.footprint
       PROVE  e.id \in s.entrances
  <2>1. e.at[1] \in Int /\ e.at[2] \in Int
    OBVIOUS
  <2>2. Buildings!Nearby(e.at, e.at)
    BY <2>1 DEF Buildings!Nearby
  <2>3. s.entrances = Buildings!MatchEntrances(s.footprint, features)
    BY <1>2, <1>7
  <2> QED
    BY <1>11, <2>2, <2>3 DEF Buildings!MatchEntrances
<1>12. \A f \in features : f.layer = "osm_building_parts" /\ foot(f) # {} => f.id \in built
  BY <1>3, <1>9
<1> QED
  BY <1>8, <1>10, <1>11, <1>12 DEF Buildings!EachBuildingOnce, solids, foot
-----------------------------------------------------------------------------
(* BuildingsAreSolid.                                                       *)

\* Whatever box, roof, tags and outlines are asked about: the mesh of walls and roof is closed,
\* looks outwards and holds the volume that roofs.py states (build_pitched_building_mesh);
\* a height is positive, its confidence is true and a roof is lower than its building
\* (compute_height_m, compute_roof_params); no part of a building is lost and no outline
\* stands where its parts do (extrude_buildings).
THEOREM BuildingsAreAlwaysSolid == RulesSpec => []BuildingsAreSolid
<1>1. QuestionInv => BuildingsAreSolid
  <2> SUFFICES ASSUME QuestionInv PROVE BuildingsAreSolid
    OBVIOUS
  <2>1. ASSUME Asked("roof") PROVE Buildings!MeshIsSound(given.box, given.params, given.base, given.eave)
    <3>1. given \in QuestionsOf("roof")
      BY <2>1 DEF QuestionInv, Asked, QuestionsOf
    <3>2. /\ Buildings!IsBox(given.box) /\ Buildings!IsRoof(given.params)
          /\ given.base \in Int /\ given.eave \in Int
      BY <3>1, BuildingsAssumption
    <3> QED
      BY <3>2, RoofsAreAlwaysSound
  <2>2. ASSUME Asked("height") PROVE Buildings!HeightsAreHonest(given.feature, given.box, given.overture)
    <3>1. given \in QuestionsOf("height")
      BY <2>2 DEF QuestionInv, Asked, QuestionsOf
    <3>2. /\ given.feature.height \in Int /\ given.feature.levels \in Int /\ given.overture \in Int
          /\ Buildings!AreRoofTags(given.feature.roof)
          /\ Buildings!IsBox(given.box) /\ 4 <= given.box.width
      BY <3>1, BuildingsAssumption
    <3> QED
      BY <3>2, HeightsAreAlwaysHonest
  <2>3. ASSUME Asked("outlines") PROVE Buildings!EachBuildingOnce(given.features, given.box)
    <3>1. given \in QuestionsOf("outlines")
      BY <2>3 DEF QuestionInv, Asked, QuestionsOf
    <3>2. \A f \in given.features : /\ IsFiniteSet(f.pieces)
                                    /\ \A p \in f.pieces : IsPiece(p)
                                    /\ f.at \in Int \X Int
      BY <3>1, BuildingsAssumption DEF IsPiece
    <3> QED
      BY <3>2, BuildingsAreAlwaysOnce
  <2> QED
    BY <2>1, <2>2, <2>3 DEF BuildingsAreSolid
<1> QED
  BY <1>1, QuestionsAlways, PTL
-----------------------------------------------------------------------------
(* OutputsAgree.                                                           *)

\* Whatever model, polygon, heights, buildings, lines and lists are asked about: the files
\* of the two networks share the roads of the site's file (build_site_ifc), the registry of the
\* model finds for every object its product in the IFC4X3 file and none of the IFC4 file
\* (register_global_ids), the scene is a tree whose views follow each other
\* (convert_ifc_to_glb); prisms and poles are closed, poles look outwards and prisms too when
\* their outline is counter-clockwise (extrude_polygon_mesh, mesh_cylinder); pavement up to
\* three metres wide lies above the ground and paint above pavement
\* (lane_pavement_elevation_fn); every building, road and surface is in the file it belongs
\* to, every source and file in its list.
THEOREM OutputsAlwaysAgree == RulesSpec => []OutputsAgree
<1>1. QuestionInv => OutputsAgree
  <2> SUFFICES ASSUME QuestionInv PROVE OutputsAgree
    OBVIOUS
  <2>1. ASSUME Asked("assembly")
        PROVE  /\ Assembly!FilesAgree(given.schema, given.model)
               /\ Assembly!ProductsAreFound(given.schema, given.model)
               /\ Assembly!GlbIsATree(Assembly!BuildSiteIfc(given.schema, given.model, Assembly!NoFilter))
    <3> DEFINE model == given.model
               schema == given.schema
    <3>1. given \in QuestionsOf("assembly")
      BY <2>1 DEF QuestionInv, Asked, QuestionsOf
    <3>2. /\ Modelled(model)
          /\ \A l \in Assembly!RoadLayers \cap DOMAIN model : \A i \in DOMAIN model[l] :
               model[l][i].network \in Assembly!Networks
      BY <3>1, OutputsAssumption
    <3> HIDE DEF model, schema
    <3>3. \A l \in Assembly!RoadLayers \cap DOMAIN model : \A o \in ToSet(model[l]) : o.network \in Assembly!Networks
      BY <3>2 DEF ToSet
    <3>4. Assembly!FilesAgree(schema, model) /\ Assembly!ProductsAreFound(schema, model)
      BY <3>2, <3>3, FilesAlwaysAgree, ProductsAreAlwaysFound
    <3>5. Assembly!BuildSiteIfc(schema, model, Assembly!NoFilter) \in Seq(Items)
      BY <3>2, SiteIs
    <3>6. Assembly!GlbIsATree(Assembly!BuildSiteIfc(schema, model, Assembly!NoFilter))
      BY <3>5, GlbAlwaysATree
    <3> QED
      BY <3>4, <3>6 DEF model, schema
  <2>2. ASSUME Asked("solids")
        PROVE  Assembly!SolidsAreClosed(given.rings, given.triangles, given.ccw, given.segments)
    <3>1. given \in QuestionsOf("solids")
      BY <2>2 DEF QuestionInv, Asked, QuestionsOf
    <3>2. /\ given.ccw \in BOOLEAN /\ Triangulates(given.rings, given.triangles, given.ccw)
          /\ given.segments \in Nat /\ given.segments >= 3
      BY <3>1, OutputsAssumption
    <3> QED
      BY <3>2, SolidsAlwaysClosed
  <2>3. ASSUME Asked("pavement")
        PROVE  Assembly!PavementIsOnTop(given.long, given.short, given.ground, given.offset)
    <3>1. given \in QuestionsOf("pavement")
      BY <2>3 DEF QuestionInv, Asked, QuestionsOf
    <3>2. /\ {given.long, given.short, given.offset} \subseteq Nat /\ given.ground \in Int
          /\ 2 * given.offset <= given.short
          /\ given.ground = Assembly!Unknown
               \/ given.ground + Assembly!PAVEMENT_CLEARANCE + Assembly!MARKING_CLEARANCE < Assembly!Unknown
      BY <3>1, OutputsAssumption
    <3>3. given.long \in Nat /\ given.short \in Nat /\ given.offset \in Nat
      BY <3>2
    <3> QED
      BY <3>2, <3>3, PavementIsAlwaysOnTop
  <2>4. ASSUME Asked("city") PROVE Exports!BuildingsAgree(given.buildings)
    <3>1. given \in QuestionsOf("city")
      BY <2>4 DEF QuestionInv, Asked, QuestionsOf
    <3>2. /\ given.buildings \in Seq(CityBuildings)
          /\ \A i, j \in DOMAIN given.buildings : given.buildings[i].id = given.buildings[j].id => i = j
      BY <3>1, OutputsAssumption DEF CityBuildings
    <3> QED
      BY <3>2, BuildingsAlwaysAgree
  <2>5. ASSUME Asked("lines") PROVE Exports!LinesAgree(given.tin, given.roads, given.rail)
    <3>1. given \in QuestionsOf("lines")
      BY <2>5 DEF QuestionInv, Asked, QuestionsOf
    <3>2. /\ given.tin.vertices \in Nat /\ IsFiniteSet(given.tin.triangles)
          /\ given.tin.triangles \subseteq
               (0..(given.tin.vertices - 1)) \X (0..(given.tin.vertices - 1)) \X (0..(given.tin.vertices - 1))
          /\ \A i, j \in DOMAIN given.roads : given.roads[i].id = given.roads[j].id => i = j
      BY <3>1, OutputsAssumption
    <3>3. given.roads \in Seq(SiteLines) /\ given.rail \in Seq(SiteLines)
      <4>1. {given.roads, given.rail} \subseteq Seq([id : Int, axis : BOOLEAN, length : Int, rings : Seq(Nat)])
        BY <3>1, OutputsAssumption
      <4> QED
        BY <4>1 DEF SiteLines
    <3> QED
      BY <3>2, <3>3, LinesAlwaysAgree
  <2>6. ASSUME Asked("lists")
        PROVE  Exports!ListsAreComplete(given.coverages, given.keys, given.stored, given.name)
    <3>1. given \in QuestionsOf("lists")
      BY <2>6 DEF QuestionInv, Asked, QuestionsOf
    <3>2. /\ given.coverages \in Seq(Coverages)
          /\ \A i, j \in DOMAIN given.coverages : i < j => given.coverages[j].priority <= given.coverages[i].priority
          /\ given.keys \in Seq(STRING)
          /\ \A i, j \in DOMAIN given.keys : given.name[given.keys[i]] = given.name[given.keys[j]] => i = j
      BY <3>1, OutputsAssumption DEF Coverages
    <3> QED
      BY <3>2, ListsAreAlwaysComplete
  <2> QED
    BY <2>1, <2>2, <2>3, <2>4, <2>5, <2>6 DEF OutputsAgree
<1> QED
  BY <1>1, QuestionsAlways, PTL
=============================================================================
