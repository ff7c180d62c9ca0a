---------------------------- MODULE TerrainProofs ----------------------------
(***************************************************************************)
(* What the tiles, the relief, the surface of a site and the roads, lines,  *)
(* plants and water on it promise, for every size of a tile, every ring,    *)
(* width and smoothing, and every input.                                   *)
(*                                                                         *)
(* The arguments.  The contour of a tile is sampled alike on both sides and *)
(* the background stays strictly inside.  A merge shows, at a place, the    *)
(* last source that is valid there, blended at its edge only.  A point of   *)
(* the surface gives way only to one that matters more, and what is         *)
(* symmetric about a place has the mean of that place.                      *)
(* What is summed up or folded is taken apart one element at a time, as    *)
(* SetRecursion of FilesProofs allows.                                     *)
(***************************************************************************)
EXTENDS Ground, FilesProofs

-----------------------------------------------------------------------------
(* The grid and the seams (Tiles).                                         *)

\* What \div leaves is less than what it divides by.
LEMMA Division ==
  ASSUME NEW n \in Int, NEW d \in Nat \ {0}
  PROVE  n \div d \in Int /\ (n \div d) * d <= n /\ n < (n \div d) * d + d
OBVIOUS

\* Rounding down keeps the order.
LEMMA DivisionMonotone ==
  ASSUME NEW m \in Int, NEW n \in Int, NEW d \in Nat \ {0}, m <= n
  PROVE  m \div d <= n \div d
<1> DEFINE a == m \div d
           b == n \div d
<1>1. a \in Int /\ b \in Int /\ a * d <= n /\ n < b * d + d
  BY Division
<1> HIDE DEF a, b
<1>2. SUFFICES ASSUME b + 1 <= a PROVE FALSE
  BY <1>1 DEF a, b
<1>3. (b + 1) * d <= a * d
  BY <1>1, <1>2
<1> QED
  BY <1>1, <1>3

\* The quotient is the only number with the property of Division.
LEMMA DivisionUnique ==
  ASSUME NEW n \in Int, NEW d \in Nat \ {0}, NEW q \in Int, q * d <= n, n < q * d + d
  PROVE  n \div d = q
<1> DEFINE a == n \div d
<1>1. a \in Int /\ a * d <= n /\ n < a * d + d
  BY Division
<1> HIDE DEF a
<1>2. ~ (a <= q - 1)
  <2> SUFFICES ASSUME a + 1 <= q PROVE FALSE
    BY <1>1
  <2>1. (a + 1) * d <= q * d
    BY <1>1
  <2> QED
    BY <1>1, <2>1
<1>3. ~ (q <= a - 1)
  <2> SUFFICES ASSUME q + 1 <= a PROVE FALSE
    BY <1>1
  <2>1. (q + 1) * d <= a * d
    BY <1>1
  <2> QED
    BY <1>1, <2>1
<1>4. a = q
  BY <1>1, <1>2, <1>3
<1> QED
  BY <1>4 DEF a

\* Who is not further from zero has no larger square, and the other way round.
LEMMA SquareMonotone ==
  ASSUME NEW x \in Int, NEW y \in Int, -y <= x, x <= y
  PROVE  x * x <= y * y
<1>1. CASE x >= 0
  BY <1>1
<1>2. CASE x < 0
  <2>1. 0 <= -x /\ -x <= y
    BY <1>2
  <2>2. (-x) * (-x) <= y * y
    BY <2>1
  <2> QED
    BY <2>2
<1> QED
  BY <1>1, <1>2

\* The same backwards.
LEMMA SquareReflects ==
  ASSUME NEW x \in Int, NEW y \in Nat, x * x <= y * y
  PROVE  -y <= x /\ x <= y
<1>1. ~ (x > y)
  <2> SUFFICES ASSUME x >= y + 1 PROVE FALSE
    OBVIOUS
  <2>1. x * x >= (y + 1) * (y + 1)
    OBVIOUS
  <2> QED
    BY <2>1
<1>2. ~ (-x > y)
  <2> SUFFICES ASSUME -x >= y + 1 PROVE FALSE
    OBVIOUS
  <2>1. (-x) * (-x) >= (y + 1) * (y + 1)
    OBVIOUS
  <2> QED
    BY <2>1
<1> QED
  BY <1>1, <1>2

\* One axis of world_to_tile_index.
LEMMA Cell ==
  ASSUME NEW x \in Int, NEW c \in Int, NEW r \in Nat, c - r <= x, x <= c + r
  PROVE  /\ x \div TileSize \in (c - r) \div TileSize .. (c + r) \div TileSize
         /\ (x \div TileSize) * TileSize <= x
         /\ x < (x \div TileSize) * TileSize + TileSize
         /\ (x \div TileSize) * TileSize \in Int
<1> DEFINE low == c - r
           high == c + r
<1>1. low \in Int /\ high \in Int /\ low <= x /\ x <= high
  OBVIOUS
<1> HIDE DEF low, high
<1>2. low \div TileSize <= x \div TileSize
  BY <1>1, SizeAssumption, DivisionMonotone
<1>3. x \div TileSize <= high \div TileSize
  BY <1>1, SizeAssumption, DivisionMonotone
<1>4. low \div TileSize \in Int /\ high \div TileSize \in Int /\ x \div TileSize \in Int
  BY <1>1, SizeAssumption, Division
<1>5. /\ (x \div TileSize) * TileSize <= x
      /\ x < (x \div TileSize) * TileSize + TileSize
  BY SizeAssumption, Division
<1>6. (x \div TileSize) * TileSize \in Int
  BY <1>4, SizeAssumption
<1> QED
  BY <1>2, <1>3, <1>4, <1>5, <1>6 DEF low, high

\* Every place of the circle lies in one of its tiles (tiles_covering_circle).
THEOREM CircleIsCovered ==
  ASSUME NEW center \in Int \X Int, NEW radius \in Nat, NEW p \in Int \X Int,
         Distance2(center, p) <= Square(radius)
  PROVE  WorldToTileIndex(p) \in TilesCoveringCircle(center, radius)
<1> DEFINE t == WorldToTileIndex(p)
           X == center[1] - p[1]
           Y == center[2] - p[2]
<1>1. X \in Int /\ Y \in Int /\ X * X >= 0 /\ Y * Y >= 0
  OBVIOUS
<1>2. X * X <= radius * radius /\ Y * Y <= radius * radius
  BY <1>1 DEF Distance2, Square
<1>3. /\ -radius <= X /\ X <= radius
      /\ -radius <= Y /\ Y <= radius
  BY <1>1, <1>2, SquareReflects
<1>4. t = <<p[1] \div TileSize, p[2] \div TileSize>> /\ t[1] \in Int /\ t[2] \in Int
  BY SizeAssumption, Division DEF WorldToTileIndex
<1>5. /\ t[1] \in (center[1] - radius) \div TileSize .. (center[1] + radius) \div TileSize
      /\ t[2] \in (center[2] - radius) \div TileSize .. (center[2] + radius) \div TileSize
  <2>1. /\ center[1] - radius <= p[1] /\ p[1] <= center[1] + radius
        /\ center[2] - radius <= p[2] /\ p[2] <= center[2] + radius
    BY <1>3
  <2>2. p[1] \div TileSize \in (center[1] - radius) \div TileSize .. (center[1] + radius) \div TileSize
    BY <2>1, Cell
  <2>3. p[2] \div TileSize \in (center[2] - radius) \div TileSize .. (center[2] + radius) \div TileSize
    BY <2>1, Cell
  <2> QED
    BY <1>4, <2>2, <2>3
<1>6. \A axis \in {1, 2} : Low(t, axis) <= p[axis] /\ p[axis] < High(t, axis)
                           /\ Low(t, axis) \in Int /\ High(t, axis) \in Int
  <2>1. \A x \in Int : /\ (x \div TileSize) * TileSize <= x
                       /\ x < (x \div TileSize) * TileSize + TileSize
                       /\ (x \div TileSize) * TileSize \in Int
    BY Cell
  <2>2. /\ t[1] = p[1] \div TileSize /\ t[2] = p[2] \div TileSize
        /\ p[1] \in Int /\ p[2] \in Int
    BY <1>4
  <2> HIDE DEF t
  <2> QED
    BY <2>1, <2>2, SizeAssumption DEF Low, High
<1> HIDE DEF t
<1> DEFINE N(axis) == Nearest(center, t, axis)
<1>7. \A axis \in {1, 2} :
        /\ N(axis) \in Int
        /\ \/ 0 <= center[axis] - N(axis) /\ center[axis] - N(axis) <= center[axis] - p[axis]
           \/ center[axis] - N(axis) <= 0 /\ center[axis] - N(axis) >= center[axis] - p[axis]
  BY <1>6 DEF Nearest
<1> HIDE DEF N, t
<1>8. \A axis \in {1, 2} :
        (center[axis] - N(axis)) * (center[axis] - N(axis)) <= (center[axis] - p[axis]) * (center[axis] - p[axis])
  <2> SUFFICES ASSUME NEW axis \in {1, 2}
               PROVE  (center[axis] - N(axis)) * (center[axis] - N(axis))
                        <= (center[axis] - p[axis]) * (center[axis] - p[axis])
    OBVIOUS
  <2> DEFINE a == center[axis] - N(axis)
             b == center[axis] - p[axis]
  <2>1. a \in Int /\ b \in Int /\ ((0 <= a /\ a <= b) \/ (a <= 0 /\ a >= b))
    BY <1>7
  <2> HIDE DEF a, b
  <2>2. CASE 0 <= a /\ a <= b
    BY <2>1, <2>2, SquareMonotone DEF a, b
  <2>3. CASE a <= 0 /\ a >= b
    <3>1. a * a <= (-b) * (-b)
      BY <2>1, <2>3, SquareMonotone
    <3> QED
      BY <3>1, <2>1 DEF a, b
  <2> QED
    BY <2>1, <2>2, <2>3
<1>9. (center[1] - N(1)) * (center[1] - N(1)) + (center[2] - N(2)) * (center[2] - N(2)) <= radius * radius
  <2>1. X * X + Y * Y <= radius * radius
    BY DEF Distance2, Square
  <2> QED
    BY <1>1, <1>7, <1>8, <2>1
<1> QED
  BY <1>4, <1>5, <1>9 DEF TilesCoveringCircle, Distance2, Square, N, t

\* The smoothing window is at least one cell.
LEMMA WindowType == ASSUME NEW step \in Nat \ {0} PROVE WindowCells(step) \in Nat
<1> DEFINE S == {(2 * SmoothingWindow + step) \div (2 * step), 1}
<1>1. (2 * SmoothingWindow + step) \div (2 * step) \in Nat
  BY RingAssumption
<1>2. \E x \in S : \A y \in S : x >= y
  BY <1>1
<1>3. Max(S) \in S
  BY <1>2 DEF Max
<1> QED
  BY <1>1, <1>3 DEF WindowCells

\* The background lies strictly inside of its tile.
LEMMA BackgroundInside ==
  ASSUME NEW low \in Int, NEW step \in Nat \ {0}, NEW x \in BackgroundAxis(low, low + TileSize, step)
  PROVE  low < x /\ x < low + TileSize
<1> DEFINE pad == WindowCells(step) \div 2
           q == (TileSize - 1) \div step
           first == low + step - pad * step
           count == (low + TileSize + pad * step - first + step - 1) \div step
<1>1. pad \in Nat
  BY WindowType
<1>2. q \in Int /\ q * step <= TileSize - 1
  BY SizeAssumption, Division
<1>3. PICK k \in pad..count - pad - 1 : x = first + k * step
  BY DEF BackgroundAxis
<1>4. count = 2 * pad + q
  <2>1. low + TileSize + pad * step - first + step - 1 = (TileSize - 1) + (2 * pad) * step
    BY <1>1, SizeAssumption
  <2>2. ((TileSize - 1) + (2 * pad) * step) \div step = q + 2 * pad
    <3>1. TileSize - 1 < q * step + step
      BY SizeAssumption, Division
    <3>2. (q + 2 * pad) * step = q * step + (2 * pad) * step
      BY <1>1, <1>2
    <3> DEFINE n == (TileSize - 1) + (2 * pad) * step
    <3>3. n \in Int /\ (q + 2 * pad) * step <= n /\ n < (q + 2 * pad) * step + step /\ q + 2 * pad \in Int
      BY <1>1, <1>2, <3>1, <3>2, SizeAssumption
    <3> HIDE DEF n, q, pad
    <3>4. n \div step = q + 2 * pad
      BY <3>3, DivisionUnique
    <3> QED
      BY <3>4 DEF n
  <2> QED
    BY <2>1, <2>2, <1>1, <1>2
<1> HIDE DEF pad, q, count
<1>5. PICK i \in 0..q - 1 : k = pad + i
  <2>1. k - pad \in 0..q - 1
    BY <1>1, <1>2, <1>3, <1>4
  <2> QED
    BY <2>1, <1>1, <1>3
<1>6. x = low + (i + 1) * step
  BY <1>1, <1>3, <1>5
<1>7. (i + 1) * step <= q * step /\ (i + 1) * step >= step
  BY <1>2, <1>5
<1> QED
  BY <1>2, <1>6, <1>7, SizeAssumption

\* So no place of the contour is of the background: its vertices are the seam's.
LEMMA ContourIsSeam ==
  ASSUME NEW t \in Int \X Int, NEW ring \in Rings, NEW raster, NEW v \in TileVertices(t, ring, raster),
         v.at \in BoundaryPoints(t)
  PROVE  v.smoothed = FALSE /\ HasHeight(raster, v.at)
         /\ v = [at |-> v.at, smoothed |-> FALSE]
<1> DEFINE step == RingStep[ring]
           seam == {p \in BoundaryPoints(t) : HasHeight(raster, p)}
           background == {p \in BackgroundAxis(Low(t, 1), High(t, 1), step)
                                \X BackgroundAxis(Low(t, 2), High(t, 2), step) : HasSmoothed(raster, p, step)}
<1>1. step \in Nat \ {0}
  BY RingAssumption
<1>2. \/ v \in [at : seam, smoothed : {FALSE}]
      \/ v \in [at : background \ seam, smoothed : {TRUE}]
  BY DEF TileVertices
<1>3. ~ (v.at \in background)
  <2> SUFFICES ASSUME v.at \in background PROVE FALSE
    OBVIOUS
  <2>1. /\ Low(t, 1) \in Int /\ Low(t, 2) \in Int
        /\ High(t, 1) = Low(t, 1) + TileSize /\ High(t, 2) = Low(t, 2) + TileSize
    BY SizeAssumption DEF Low, High
  <2>2. /\ v.at[1] \in BackgroundAxis(Low(t, 1), Low(t, 1) + TileSize, step)
        /\ v.at[2] \in BackgroundAxis(Low(t, 2), Low(t, 2) + TileSize, step)
    BY <2>1
  <2> HIDE DEF step, background
  <2>3. /\ Low(t, 1) < v.at[1] /\ v.at[1] < Low(t, 1) + TileSize
        /\ Low(t, 2) < v.at[2] /\ v.at[2] < Low(t, 2) + TileSize
    BY <1>1, <2>1, <2>2, BackgroundInside
  <2>4. \E axis \in 1..2 : v.at[axis] \in {Low(t, axis), High(t, axis)}
    BY DEF BoundaryPoints
  <2>5. v.at[1] \in {Low(t, 1), High(t, 1)} \/ v.at[2] \in {Low(t, 2), High(t, 2)}
    BY <2>4
  <2> QED
    BY <2>1, <2>3, <2>5, SizeAssumption
<1> QED
  BY <1>2, <1>3

\* No crack opens between neighbours, whatever their rings, the steps of their background
\* and the relief that is missing (build_tile_terrain).
THEOREM SeamsAlwaysMatch ==
  ASSUME NEW t \in Int \X Int, NEW u \in Int \X Int, NEW tRing \in Rings, NEW uRing \in Rings, NEW raster
  PROVE  SeamsMatch(t, u, tRing, uRing, raster)
<1> DEFINE Common == BoundaryPoints(t) \cap BoundaryPoints(u)
           Edge == [at : {p \in Common : HasHeight(raster, p)}, smoothed : {FALSE}]
<1>1. ASSUME NEW s \in {t, u}, NEW ring \in Rings
      PROVE  {v \in TileVertices(s, ring, raster) : v.at \in Common} = Edge
  <2>1. ASSUME NEW v \in TileVertices(s, ring, raster), v.at \in Common PROVE v \in Edge
    <3>1. HasHeight(raster, v.at) /\ v = [at |-> v.at, smoothed |-> FALSE]
      BY <2>1, ContourIsSeam, ZenonT(30)
    <3> DEFINE q == v.at
    <3>2. q \in Common /\ HasHeight(raster, q) /\ v = [at |-> q, smoothed |-> FALSE]
      BY <2>1, <3>1
    <3> HIDE DEF q, Common
    <3>3. q \in {p \in Common : HasHeight(raster, p)}
      BY <3>2
    <3> QED
      BY <3>2, <3>3
  <2>2. ASSUME NEW v \in Edge PROVE v \in TileVertices(s, ring, raster) /\ v.at \in Common
    <3>1. v.at \in Common /\ HasHeight(raster, v.at)
      BY <2>2
    <3>2. v \in [at : {p \in BoundaryPoints(s) : HasHeight(raster, p)}, smoothed : {FALSE}]
      BY <2>2
    <3> QED
      BY <3>1, <3>2 DEF TileVertices
  <2> QED
    BY <2>1, <2>2
<1> QED
  BY <1>1 DEF SeamsMatch
-----------------------------------------------------------------------------
(* The relief and its coding (Relief).                                     *)

\* The distance to a set of cells is a number.
LEMMA DistanceType ==
  ASSUME NEW S \in SUBSET Cells, NEW c \in Cells, NEW phantom \in Nat
  PROVE  DistanceTo(S, c, phantom) \in Nat
<1>1. CASE S = {}
  BY <1>1 DEF DistanceTo
<1>2. CASE S # {}
  <2> DEFINE T == {Gap(c, d) : d \in S}
  <2>1. \A d \in S : Gap(c, d) \in 0..Width
    BY WidthAssumption DEF Gap, Cells
  <2>2. T \subseteq Nat /\ T # {}
    BY <1>2, <2>1
  <2>3. PICK n \in T : \A y \in T : y >= n
    <3> HIDE DEF T
    <3> QED
      BY <2>2, LeastOne
  <2>4. n \in 0..Width /\ (\E d \in S : Gap(c, d) = n) /\ (\A d \in S : Gap(c, d) >= n)
    BY <2>1, <2>3
  <2>5. DistanceTo(S, c, phantom) \in 0..Width
    BY <1>2, <2>4 DEF DistanceTo
  <2> QED
    BY <2>5, WidthAssumption
<1> QED
  BY <1>1, <1>2

\* A weighted mean lies between what it is the mean of.
LEMMA MeanBetween ==
  ASSUME NEW a \in Int, NEW b \in Int, a <= b, NEW n \in Nat \ {0}, NEW w \in 0..n
  PROVE  LET mean == (w * b + (n - w) * a) \div n
         IN  mean \in Int /\ a <= mean /\ mean <= b
<1> DEFINE sum == w * b + (n - w) * a
           q == sum \div n
<1>1. sum \in Int /\ w * a <= w * b /\ (n - w) * a <= (n - w) * b
  OBVIOUS
<1>2. n * a <= sum /\ sum <= n * b
  <2>1. w * a + (n - w) * a = n * a /\ w * b + (n - w) * b = n * b
    OBVIOUS
  <2> QED
    BY <1>1, <2>1
<1> HIDE DEF sum
<1>3. q \in Int /\ n * q <= sum /\ sum < n * q + n
  BY <1>1
<1> HIDE DEF q
<1>4. a <= q
  <2> SUFFICES ASSUME q + 1 <= a PROVE FALSE
    BY <1>3
  <2>1. n * (q + 1) <= n * a
    BY <1>3
  <2> QED
    BY <1>1, <1>2, <1>3, <2>1
<1>5. q <= b
  <2> SUFFICES ASSUME b + 1 <= q PROVE FALSE
    BY <1>3
  <2>1. n * (b + 1) <= n * q
    BY <1>3
  <2> QED
    BY <1>1, <1>2, <1>3, <2>1
<1> QED
  BY <1>3, <1>4, <1>5 DEF q, sum

\* Wherever a cell lies and whatever SciPy says of the distance to nothing, a blended
\* height lies between the two that are blended (merge_with_transition).
THEOREM BlendLiesBetween ==
  ASSUME NEW base \in Int, NEW overlay \in Int, NEW valid \in SUBSET Cells, NEW c \in Cells,
         NEW phantom \in Nat
  PROVE  LET z == Blended(base, overlay, valid, c, phantom)
         IN  \/ base <= z /\ z <= overlay
             \/ overlay <= z /\ z <= base
<1> DEFINE whole == IF TransitionWidth = 0 THEN 1 ELSE 2 * TransitionWidth
           alpha == Alpha(valid, c, phantom)
<1>1. whole \in Nat \ {0}
  BY TransitionAssumption
<1>2. alpha \in 0..whole
  <2>1. CASE TransitionWidth = 0
    BY <2>1 DEF Alpha
  <2>2. CASE TransitionWidth # 0
    <3>1. /\ DistanceTo(Cells \ valid, c, phantom) \in Nat
          /\ DistanceTo(valid, c, phantom) \in Nat
      BY DistanceType
    <3> QED
      BY <2>2, <3>1, TransitionAssumption DEF Alpha, Limit
  <2> QED
    BY <2>1, <2>2
<1>3. Blended(base, overlay, valid, c, phantom) = (alpha * overlay + (whole - alpha) * base) \div whole
  BY DEF Blended
<1> HIDE DEF whole, alpha
<1>4. CASE base <= overlay
  BY <1>1, <1>2, <1>3, <1>4, MeanBetween
<1>5. CASE overlay <= base
  <2>1. whole - alpha \in 0..whole /\ whole - (whole - alpha) = alpha
    BY <1>1, <1>2
  <2>2. LET mean == ((whole - alpha) * base + (whole - (whole - alpha)) * overlay) \div whole
        IN  overlay <= mean /\ mean <= base
    BY <1>1, <1>5, <2>1, MeanBetween
  <2>3. (whole - alpha) * base + alpha * overlay = alpha * overlay + (whole - alpha) * base
    BY <1>1, <1>2
  <2> QED
    BY <1>3, <2>1, <2>2, <2>3
<1> QED
  BY <1>4, <1>5

\* A byte of each channel, and half a step at most (encode_terrain_rgb, decode_terrain_rgb).
THEOREM CodingIsAlwaysFaithful ==
  ASSUME NEW height \in Int
  PROVE  CodingIsFaithful(height)
<1> DEFINE kept == Limit(height, MIN_ENCODABLE, MAX_ENCODABLE)
           over == kept - MIN_ENCODABLE
           down == over \div 10
           value == IF over % 10 > 5 \/ (over % 10 = 5 /\ down % 2 = 1) THEN down + 1 ELSE down
<1>1. over \in Nat /\ over <= 167772150 /\ kept = MIN_ENCODABLE + over
  BY DEF Limit, MIN_ENCODABLE, MAX_ENCODABLE
<1>2. value \in Nat /\ value <= 16777215 /\ -5 <= value * 10 - over /\ value * 10 - over <= 5
  BY <1>1
<1> HIDE DEF kept, value
<1> DEFINE rgb == [r |-> (value \div 65536) % 256, g |-> (value \div 256) % 256, b |-> value % 256]
<1>3. rgb.r * 65536 + rgb.g * 256 + rgb.b = value /\ rgb.r \in 0..255
  BY <1>2
<1>4. EncodeRgb(height) = rgb
  BY DEF EncodeRgb, kept, value
<1>5. DecodeRgb(rgb) = MIN_ENCODABLE + value * 10
  BY <1>3 DEF DecodeRgb
<1> QED
  BY <1>1, <1>2, <1>3, <1>4, <1>5 DEF CodingIsFaithful, Gap, MIN_ENCODABLE, kept
-----------------------------------------------------------------------------

\* So Min and Max choose it.
LEMMA MinIs ==
  ASSUME NEW S, S \subseteq Int, S # {}, IsFiniteSet(S)
  PROVE  Min(S) \in S /\ Min(S) \in Int /\ \A y \in S : Min(S) <= y
<1>1. \E x \in S : \A y \in S : x =< y
  BY FiniteBounds
<1> QED
  BY <1>1 DEF Min

\* The least of any natural numbers.
LEMMA MinOfNaturals ==
  ASSUME NEW S, S \subseteq Nat, S # {}
  PROVE  Min(S) \in S /\ Min(S) \in Nat /\ \A y \in S : Min(S) <= y
<1>1. \E x \in S : \A y \in S : x =< y
  BY LeastOne
<1> QED
  BY <1>1 DEF Min
-----------------------------------------------------------------------------
(* Sums.                                                                   *)

Pick(s) == CHOOSE x \in s : TRUE

\* iter[s] is the sum of w over s, taken in the order of Pick.
Counts(iter, w, S) ==
  iter = [s \in SUBSET S |-> IF s = {} THEN 0 ELSE w[Pick(s)] + iter[s \ {Pick(s)}]]

Whole(w, S) == \A x \in S : w[x] \in Int

\* iter is a sum: whichever element is taken.
Adds(iter, w, S) ==
  /\ iter[{}] = 0
  /\ \A T \in SUBSET S : iter[T] \in Int /\ \A x \in T : iter[T] = w[x] + iter[T \ {x}]

\* The folds of the library take an element of what is left.
LEMMA PickIn == \A s : s # {} => Pick(s) \in s
BY DEF Pick

\* Such a function exists: the recursive definition of a sum is one.
LEMMA CountsExists ==
  ASSUME NEW S, IsFiniteSet(S), NEW w, Whole(w, S)
  PROVE  \E iter : Counts(iter, w, S)
<1> USE DEF Whole
<1> DEFINE pick == [s \in SUBSET S |-> Pick(s)]
           step == [x \in S |-> [v \in Int |-> w[x] + v]]
<1>1. Picks(pick, S)
  BY PickIn DEF Picks
<1>2. StaysIn(step, S, Int)
  BY DEF StaysIn
<1>3. \A x \in S, v \in Int : step[x][v] = w[x] + v
  OBVIOUS
<1>4. \A s \in SUBSET S : pick[s] = Pick(s)
  OBVIOUS
<1> HIDE DEF pick, step
<1>5. PICK iter \in [SUBSET S -> Int] : Iterates(iter, 0, pick, step, S)
  <2>1. 0 \in Int
    OBVIOUS
  <2> QED
    BY <1>1, <1>2, <2>1, SetRecursion
<1>6. ASSUME NEW s \in SUBSET S
      PROVE  iter[s] = IF s = {} THEN 0 ELSE w[Pick(s)] + iter[s \ {Pick(s)}]
  <2>0. iter[s] = IF s = {} THEN 0 ELSE step[pick[s]][iter[s \ {pick[s]}]]
    BY <1>5 DEF Iterates
  <2>1. CASE s = {}
    BY <2>0, <2>1
  <2>2. CASE s # {}
    <3>1. Pick(s) \in S /\ s \ {Pick(s)} \in SUBSET S /\ pick[s] = Pick(s)
      BY <1>4, <2>2, PickIn
    <3>2. iter[s \ {Pick(s)}] \in Int
      BY <1>5, <3>1
    <3>3. step[pick[s]][iter[s \ {pick[s]}]] = w[Pick(s)] + iter[s \ {Pick(s)}]
      BY <1>3, <3>1, <3>2
    <3> QED
      BY <2>0, <2>2, <3>3
  <2> QED
    BY <2>1, <2>2
<1>7. iter = [s \in SUBSET S |-> IF s = {} THEN 0 ELSE w[Pick(s)] + iter[s \ {Pick(s)}]]
  BY <1>5, <1>6
<1> QED
  BY <1>7 DEF Counts

\* The sum does not depend on which element is taken first.
LEMMA CountsTakes ==
  ASSUME NEW S, IsFiniteSet(S), NEW w, Whole(w, S), NEW iter, Counts(iter, w, S)
  PROVE  Adds(iter, w, S)
<1> USE DEF Whole
<1>1. \A s \in SUBSET S : iter[s] = IF s = {} THEN 0 ELSE w[Pick(s)] + iter[s \ {Pick(s)}]
  <2> DEFINE g == [s \in SUBSET S |-> IF s = {} THEN 0 ELSE w[Pick(s)] + iter[s \ {Pick(s)}]]
  <2>1. iter = g
    BY DEF Counts
  <2>2. \A s \in SUBSET S : g[s] = IF s = {} THEN 0 ELSE w[Pick(s)] + iter[s \ {Pick(s)}]
    OBVIOUS
  <2> HIDE DEF g
  <2> QED
    BY <2>1, <2>2
<1>2. iter[{}] = 0
  BY <1>1
<1>3. \A T \in SUBSET S : iter[T] \in Int
  <2> DEFINE Good == {T \in SUBSET S : iter[T] \in Int}
  <2>1. {} \in Good
    BY <1>2
  <2>2. ASSUME NEW T \in SUBSET S, T # {}, \A x \in T : T \ {x} \in Good PROVE T \in Good
    <3>1. Pick(T) \in T /\ iter[T] = w[Pick(T)] + iter[T \ {Pick(T)}]
      BY <1>1, <2>2, PickIn
    <3>2. iter[T \ {Pick(T)}] \in Int /\ w[Pick(T)] \in Int
      BY <2>2, <3>1
    <3> QED
      BY <3>1, <3>2
  <2> HIDE DEF Good
  <2>3. \A T \in SUBSET S : T \in Good
    BY <2>1, <2>2, SubsetInduction
  <2> QED
    BY <2>3 DEF Good
<1>4. \A T \in SUBSET S : \A x \in T : iter[T] = w[x] + iter[T \ {x}]
  <2> DEFINE Good == {T \in SUBSET S : \A x \in T : iter[T] = w[x] + iter[T \ {x}]}
  <2>1. {} \in Good
    OBVIOUS
  <2>2. ASSUME NEW T \in SUBSET S, T # {}, \A x \in T : T \ {x} \in Good PROVE T \in Good
    <3> SUFFICES ASSUME NEW x \in T PROVE iter[T] = w[x] + iter[T \ {x}]
      OBVIOUS
    <3> DEFINE y == Pick(T)
               both == T \ {x, y}
    <3>1. y \in T /\ iter[T] = w[y] + iter[T \ {y}]
      BY <1>1, <2>2, PickIn
    <3> HIDE DEF y
    <3>2. CASE x # y
      <4>1. both = (T \ {y}) \ {x} /\ both = (T \ {x}) \ {y} /\ x \in T \ {y} /\ y \in T \ {x}
        BY <3>1, <3>2
      <4>2. iter[T \ {y}] = w[x] + iter[both]
        BY <2>2, <3>1, <4>1
      <4>3. iter[T \ {x}] = w[y] + iter[both]
        BY <2>2, <3>1, <4>1
      <4>4. iter[both] \in Int /\ w[x] \in Int /\ w[y] \in Int
        BY <1>3, <3>1
      <4> QED
        BY <3>1, <4>2, <4>3, <4>4
    <3> QED
      BY <3>1, <3>2
  <2> HIDE DEF Good
  <2>3. \A T \in SUBSET S : T \in Good
    BY <2>1, <2>2, SubsetInduction
  <2> QED
    BY <2>3 DEF Good
<1> QED
  BY <1>2, <1>3, <1>4 DEF Adds

\* Two such functions agree where both are defined.
LEMMA CountsAgree ==
  ASSUME NEW S, IsFiniteSet(S), NEW R \in SUBSET S, NEW w, Whole(w, S),
         NEW v, Whole(v, R), \A x \in R : v[x] = w[x],
         NEW f, Counts(f, w, S), NEW g, Counts(g, v, R)
  PROVE  f[R] = g[R]
<1>1. IsFiniteSet(R)
  BY FS_Subset
<1>2. Adds(f, w, S) /\ Adds(g, v, R)
  BY <1>1, CountsTakes
<1> DEFINE Good == {T \in SUBSET R : f[T] = g[T]}
<1>3. {} \in Good
  BY <1>2 DEF Adds
<1>4. ASSUME NEW T \in SUBSET R, T # {}, \A x \in T : T \ {x} \in Good PROVE T \in Good
  <2>1. PICK x \in T : TRUE
    BY <1>4
  <2>2. f[T \ {x}] = g[T \ {x}] /\ T \in SUBSET S /\ v[x] = w[x]
    BY <1>4
  <2>3. f[T] = w[x] + f[T \ {x}] /\ g[T] = v[x] + g[T \ {x}]
    BY <1>2, <2>2 DEF Adds
  <2> QED
    BY <2>2, <2>3
<1> HIDE DEF Good
<1>5. \A T \in SUBSET R : T \in Good
  BY <1>1, <1>3, <1>4, SubsetInduction
<1> QED
  BY <1>5 DEF Good

\* SumOf is such a function's value.
LEMMA SumCounts ==
  ASSUME NEW S, IsFiniteSet(S), NEW w, Whole(w, S)
  PROVE  \E f : Counts(f, w, S) /\ SumOf(w, S) = f[S]
<1> DEFINE f == CHOOSE f : Counts(f, w, S)
<1>1. Counts(f, w, S)
  BY CountsExists
<1>2. SumOf(w, S) = f[S]
  BY DEF SumOf, FoldSet, MapThenFoldSet, Counts, Pick
<1> QED
  BY <1>1, <1>2

\* The sum of nothing, and of one more element.
LEMMA SumEmpty == \A w : SumOf(w, {}) = 0
<1> SUFFICES ASSUME NEW w PROVE SumOf(w, {}) = 0
  OBVIOUS
<1>1. Whole(w, {}) /\ IsFiniteSet({})
  BY FS_EmptySet DEF Whole
<1>2. PICK f : Counts(f, w, {}) /\ SumOf(w, {}) = f[{}]
  BY <1>1, SumCounts
<1>3. Adds(f, w, {})
  BY <1>1, <1>2, CountsTakes
<1> QED
  BY <1>2, <1>3 DEF Adds

LEMMA SumTakes ==
  ASSUME NEW S, IsFiniteSet(S), NEW w, Whole(w, S)
  PROVE  SumOf(w, S) \in Int /\ \A x \in S : SumOf(w, S) = w[x] + SumOf(w, S \ {x})
<1>1. PICK f : Counts(f, w, S) /\ SumOf(w, S) = f[S]
  BY SumCounts
<1>2. Adds(f, w, S)
  BY <1>1, CountsTakes
<1>3. ASSUME NEW x \in S PROVE SumOf(w, S \ {x}) = f[S \ {x}]
  <2> DEFINE R == S \ {x}
  <2>1. R \in SUBSET S /\ Whole(w, R)
    BY DEF Whole
  <2>2. IsFiniteSet(R)
    BY <2>1, FS_Subset
  <2> HIDE DEF R
  <2>3. PICK g : Counts(g, w, R) /\ SumOf(w, R) = g[R]
    BY <2>1, <2>2, SumCounts
  <2>4. \A y \in R : w[y] = w[y]
    OBVIOUS
  <2>5. f[R] = g[R]
    BY <1>1, <2>1, <2>2, <2>3, <2>4, CountsAgree
  <2> QED
    BY <2>3, <2>5 DEF R
<1> QED
  BY <1>1, <1>2, <1>3 DEF Adds

\* The sum depends on what is summed and on nothing else.
LEMMA SumAgrees ==
  ASSUME NEW S, IsFiniteSet(S), NEW w, NEW v, Whole(w, S), \A x \in S : v[x] = w[x]
  PROVE  SumOf(w, S) = SumOf(v, S)
<1>1. PICK f : Counts(f, w, S) /\ SumOf(w, S) = f[S]
  BY SumCounts
<1>2. Whole(v, S)
  BY DEF Whole
<1>3. PICK g : Counts(g, v, S) /\ SumOf(v, S) = g[S]
  BY <1>2, SumCounts
<1>4. S \in SUBSET S
  OBVIOUS
<1>5. f[S] = g[S]
  BY <1>1, <1>2, <1>3, <1>4, CountsAgree
<1> QED
  BY <1>1, <1>3, <1>5
-----------------------------------------------------------------------------

\* The inequality of Cauchy and Schwarz in the plane.
LEMMA CauchySchwarz ==
  ASSUME NEW a \in Int, NEW b \in Int, NEW c \in Int, NEW d \in Int
  PROVE  (a * c + b * d) * (a * c + b * d) <= (a * a + b * b) * (c * c + d * d)
<1>1. (a * d - b * c) * (a * d - b * c) >= 0
  <2> DEFINE x == a * d - b * c
  <2>1. x \in Int
    OBVIOUS
  <2> HIDE DEF x
  <2>2. x * x >= 0
    BY <2>1
  <2> QED
    BY <2>2 DEF x
<1>2. (a * a + b * b) * (c * c + d * d)
        = (a * c + b * d) * (a * c + b * d) + (a * d - b * c) * (a * d - b * c)
  OBVIOUS
<1> QED
  BY <1>1, <1>2

\* So two sides of a triangle are together no shorter than the third: the square of the
\* sum of vectors no longer than 2n and no longer, in each axis, than m.
LEMMA Triangle ==
  ASSUME NEW a \in Int, NEW b \in Int, NEW c \in Int, NEW d \in Int, NEW n \in Nat, NEW m \in Nat,
         a * a + b * b <= 4 * (n * n), -m <= c, c <= m, -m <= d, d <= m
  PROVE  (a + c) * (a + c) + (b + d) * (b + d) <= 4 * (n * n) + 8 * (n * m) + 2 * (m * m)
<1>1. c * c <= m * m /\ d * d <= m * m
  BY SquareMonotone
<1> DEFINE s == a * c + b * d
           A == a * a + b * b
           B == c * c + d * d
           N == 4 * (n * n)
           M == 2 * (m * m)
<1>2. s \in Int /\ A \in Nat /\ B \in Nat /\ N \in Nat /\ M \in Nat
  <2>1. \A x \in Int : x * x \in Nat
    OBVIOUS
  <2> QED
    BY <2>1
<1>3. s * s <= A * B
  BY CauchySchwarz
<1>4. A <= N /\ B <= M
  BY <1>1
<1>5. N * M <= (4 * (n * m)) * (4 * (n * m))
  <2> DEFINE k == n * m
  <2>1. N * M = 8 * (k * k) /\ (4 * k) * (4 * k) = 16 * (k * k) /\ k \in Nat
    OBVIOUS
  <2> HIDE DEF k, N, M
  <2>2. k * k \in Nat
    BY <2>1
  <2> QED
    BY <2>1, <2>2 DEF k
<1>6. (a + c) * (a + c) + (b + d) * (b + d) = A + 2 * s + B
  OBVIOUS
<1> HIDE DEF s, A, B, N, M
<1>7. A * B <= N * M
  <2>1. A * B <= N * B
    BY <1>2, <1>4
  <2>2. N * B <= N * M
    BY <1>2, <1>4
  <2>3. A * B \in Int /\ N * B \in Int /\ N * M \in Int
    BY <1>2
  <2> QED
    BY <2>1, <2>2, <2>3
<1>8. s <= 4 * (n * m)
  <2> DEFINE k == 4 * (n * m)
  <2>1. k \in Nat /\ N * M <= k * k
    BY <1>5
  <2> HIDE DEF k
  <2>2. s * s <= k * k
    <3>1. s * s \in Int /\ A * B \in Int /\ N * M \in Int /\ k * k \in Int
      BY <1>2, <2>1
    <3> QED
      BY <1>3, <1>7, <2>1, <3>1
  <2>3. s <= k
    BY <1>2, <2>1, <2>2, SquareReflects
  <2> QED
    BY <2>3 DEF k
<1>9. A + 2 * s + B <= N + 8 * (n * m) + M
  BY <1>2, <1>4, <1>8
<1> QED
  BY <1>6, <1>9 DEF N, M
-----------------------------------------------------------------------------

\* A place lies no further than the size of a tile, twice, from the middle of its tile.
LEMMA MiddleIsNear ==
  ASSUME NEW x \in Int
  PROVE  LET t == x \div TileSize
             v == 2 * (t * TileSize) + TileSize - 2 * x
         IN  t \in Int /\ v \in Int /\ -TileSize <= v /\ v <= TileSize
<1> DEFINE t == x \div TileSize
           k == t * TileSize
<1>1. t \in Int /\ k <= x /\ x < k + TileSize
  BY SizeAssumption, Division
<1>2. k \in Int
  BY <1>1, SizeAssumption
<1> HIDE DEF k
<1>3. LET v == 2 * k + TileSize - 2 * x IN v \in Int /\ -TileSize <= v /\ v <= TileSize
  BY <1>1, <1>2, SizeAssumption
<1> QED
  BY <1>1, <1>3 DEF k

\* The ring of a squared distance, four times as large.
LEMMA RingOfQuarter ==
  ASSUME NEW d \in Int
  PROVE  /\ d <= 4 * (Lod2Max * Lod2Max) => ClassifyLodRing((d + 3) \div 4) = "LOD2"
         /\ d > 4 * (Lod1Max * Lod1Max) => ClassifyLodRing((d + 3) \div 4) # "LOD1"
<1> DEFINE q == (d + 3) \div 4
           m == Lod2Max * Lod2Max
           n == Lod1Max * Lod1Max
<1>1. q \in Int /\ 4 * q <= d + 3 /\ d <= 4 * q
  OBVIOUS
<1>2. m \in Int /\ n \in Int
  BY RingAssumption
<1> HIDE DEF q, m, n
<1>3. d <= 4 * m => q <= m
  BY <1>1, <1>2
<1>4. d > 4 * n => ~ (q <= n)
  BY <1>1, <1>2
<1>5. q <= m => ClassifyLodRing(q) = "LOD2"
  <2> SUFFICES ASSUME q <= m PROVE ClassifyLodRing(q) = "LOD2"
    OBVIOUS
  <2>1. ~ (q > m) /\ ~ (q > n)
    <3>1. m <= n
      BY RingAssumption, SquareMonotone DEF m, n
    <3> QED
      BY <1>1, <1>2, <3>1
  <2> QED
    BY <2>1 DEF ClassifyLodRing, Square, m, n
<1>6. ~ (q <= n) => ClassifyLodRing(q) # "LOD1"
  BY DEF ClassifyLodRing, Square, n
<1> QED
  BY <1>3, <1>4, <1>5, <1>6 DEF q, m, n

\* The detail of a place is that of its distance, but for a tile.
LEMMA DetailOfPlace ==
  ASSUME NEW p \in Int \X Int, NEW center \in Int \X Int
  PROVE  LET t == WorldToTileIndex(p)
         IN  /\ TileSize <= Lod2Max /\ Distance2(p, center) <= Square(Lod2Max - TileSize)
                  => RingOfTile(t, center) = "LOD2"
             /\ Distance2(p, center) >= Square(Lod1Max + TileSize) => RingOfTile(t, center) # "LOD1"
<1> DEFINE t == WorldToTileIndex(p)
           a == 2 * p[1] - 2 * center[1]
           b == 2 * p[2] - 2 * center[2]
           c == 2 * (t[1] * TileSize) + TileSize - 2 * p[1]
           d == 2 * (t[2] * TileSize) + TileSize - 2 * p[2]
           far == (a + c) * (a + c) + (b + d) * (b + d)
<1>1. /\ t[1] = p[1] \div TileSize /\ t[2] = p[2] \div TileSize
      /\ p[1] \in Int /\ p[2] \in Int /\ center[1] \in Int /\ center[2] \in Int
  BY DEF WorldToTileIndex
<1>2. /\ t[1] \in Int /\ t[2] \in Int /\ a \in Int /\ b \in Int /\ c \in Int /\ d \in Int
      /\ -TileSize <= c /\ c <= TileSize /\ -TileSize <= d /\ d <= TileSize
  BY <1>1, MiddleIsNear
<1>3. CentreDistance2(t, center) = far
  <2>1. /\ Low(t, 1) + High(t, 1) - 2 * center[1] = a + c
        /\ Low(t, 2) + High(t, 2) - 2 * center[2] = b + d
        /\ Low(t, 1) \in Int /\ High(t, 1) \in Int /\ Low(t, 2) \in Int /\ High(t, 2) \in Int
    <3> HIDE DEF t
    <3>1. t[1] * TileSize \in Int /\ t[2] * TileSize \in Int
      BY <1>2, SizeAssumption
    <3> QED
      BY <1>1, <3>1, SizeAssumption DEF Low, High
  <2> DEFINE X == Low(t, 1) + High(t, 1)
             Y == Low(t, 2) + High(t, 2)
             U == 2 * center[1]
             V == 2 * center[2]
  <2>2. CentreDistance2(t, center) = (X - U) * (X - U) + (Y - V) * (Y - V)
    BY DEF CentreDistance2, Distance2, Square
  <2> HIDE DEF t, a, b, c, d
  <2>3. X - U = a + c /\ Y - V = b + d
    BY <1>1, <1>2, <2>1
  <2> HIDE DEF X, Y, U, V
  <2> QED
    BY <2>2, <2>3
<1>4. a * a + b * b = 4 * Distance2(p, center)
  BY <1>1 DEF Distance2, Square
<1>5. far \in Int
  BY <1>2
<1>6. RingOfTile(t, center) = ClassifyLodRing((far + 3) \div 4)
  BY <1>3 DEF RingOfTile
<1>7. ASSUME TileSize <= Lod2Max, Distance2(p, center) <= Square(Lod2Max - TileSize)
      PROVE  RingOfTile(t, center) = "LOD2"
  <2> DEFINE n == Lod2Max - TileSize
  <2>1. n \in Nat /\ a * a + b * b <= 4 * (n * n)
    <3>1. Distance2(p, center) \in Int /\ Square(n) \in Int
      BY <1>1, RingAssumption, SizeAssumption DEF Distance2, Square
    <3> QED
      BY <1>4, <1>7, <3>1, RingAssumption, SizeAssumption DEF Square
  <2> HIDE DEF n, a, b, c, d
  <2>2. far <= 4 * (n * n) + 8 * (n * TileSize) + 2 * (TileSize * TileSize)
    BY <1>2, <2>1, SizeAssumption, Triangle
  <2> HIDE DEF far
  <2>3. 4 * (n * n) + 8 * (n * TileSize) + 4 * (TileSize * TileSize) = 4 * (Lod2Max * Lod2Max)
    <3>1. Lod2Max = n + TileSize
      BY RingAssumption, SizeAssumption DEF n
    <3> QED
      BY <2>1, <3>1, SizeAssumption
  <2>4. TileSize * TileSize \in Nat /\ n * n \in Int /\ n * TileSize \in Int /\ Lod2Max * Lod2Max \in Int
    BY <2>1, SizeAssumption, RingAssumption
  <2>5. far <= 4 * (Lod2Max * Lod2Max)
    BY <1>5, <2>2, <2>3, <2>4
  <2> QED
    BY <1>5, <1>6, <2>5, RingOfQuarter
<1>8. ASSUME Distance2(p, center) >= Square(Lod1Max + TileSize)
      PROVE  RingOfTile(t, center) # "LOD1"
  <2> DEFINE n == Lod1Max
             x == a + c
             y == b + d
  <2>1. n \in Nat /\ x \in Int /\ y \in Int /\ a = x + (-c) /\ b = y + (-d)
    BY <1>2, RingAssumption
  <2>2. a * a + b * b >= 4 * ((n + TileSize) * (n + TileSize))
    <3>1. Distance2(p, center) \in Int /\ Square(Lod1Max + TileSize) \in Int
      BY <1>1, RingAssumption, SizeAssumption DEF Distance2, Square
    <3> QED
      BY <1>4, <1>8, <3>1, RingAssumption, SizeAssumption DEF Square
  <2>3. -c \in Int /\ -d \in Int /\ -TileSize <= -c /\ -c <= TileSize /\ -TileSize <= -d /\ -d <= TileSize
    BY <1>2, SizeAssumption
  <2>4. far = x * x + y * y
    OBVIOUS
  <2>5. ASSUME far <= 4 * (n * n) PROVE FALSE
    <3> DEFINE e == -c
               f == -d
    <3>0. /\ e \in Int /\ f \in Int /\ -TileSize <= e /\ e <= TileSize /\ -TileSize <= f /\ f <= TileSize
          /\ x \in Int /\ y \in Int /\ x * x + y * y <= 4 * (n * n) /\ a = x + e /\ b = y + f
      BY <2>1, <2>3, <2>4, <2>5
    <3> HIDE DEF n, a, b, c, d, x, y, e, f
    <3>1. (x + e) * (x + e) + (y + f) * (y + f) <= 4 * (n * n) + 8 * (n * TileSize) + 2 * (TileSize * TileSize)
      BY <2>1, <3>0, SizeAssumption, Triangle
    <3>2. a * a + b * b <= 4 * (n * n) + 8 * (n * TileSize) + 2 * (TileSize * TileSize)
      BY <3>0, <3>1
    <3>3. 4 * ((n + TileSize) * (n + TileSize)) = 4 * (n * n) + 8 * (n * TileSize) + 4 * (TileSize * TileSize)
      BY <2>1, SizeAssumption
    <3>4. TileSize * TileSize \in Nat \ {0}
      BY SizeAssumption
    <3>5. n * n \in Int /\ n * TileSize \in Int /\ a * a + b * b \in Int
      BY <1>2, <2>1, SizeAssumption
    <3> QED
      BY <2>2, <3>2, <3>3, <3>4, <3>5
  <2>6. far > 4 * (Lod1Max * Lod1Max)
    <3>1. 4 * (Lod1Max * Lod1Max) \in Int
      BY RingAssumption
    <3> QED
      BY <1>5, <2>5, <3>1
  <2> HIDE DEF far
  <2> QED
    BY <1>5, <1>6, <2>6, RingOfQuarter
<1> QED
  BY <1>7, <1>8
-----------------------------------------------------------------------------

\* A sum lies between as many times the least and the greatest of its terms.
LEMMA SumIsBetween ==
  ASSUME NEW S, IsFiniteSet(S), NEW w, NEW low \in Int, NEW high \in Int,
         \A x \in S : w[x] \in Int /\ low <= w[x] /\ w[x] <= high
  PROVE  Cardinality(S) * low <= SumOf(w, S) /\ SumOf(w, S) <= Cardinality(S) * high
<1> DEFINE Good == {T \in SUBSET S : /\ Cardinality(T) * low <= SumOf(w, T)
                                     /\ SumOf(w, T) <= Cardinality(T) * high}
<1>1. {} \in Good
  <2>1. SumOf(w, {}) = 0 /\ Cardinality({}) = 0
    BY SumEmpty, FS_EmptySet
  <2> QED
    BY <2>1
<1>2. ASSUME NEW T \in SUBSET S, T # {}, \A x \in T : T \ {x} \in Good PROVE T \in Good
  <2>1. PICK x \in T : TRUE
    BY <1>2
  <2> DEFINE n == Cardinality(T \ {x})
             rest == SumOf(w, T \ {x})
             total == SumOf(w, T)
             one == w[x]
  <2>2. IsFiniteSet(T) /\ Whole(w, T) /\ IsFiniteSet(T \ {x}) /\ Whole(w, T \ {x})
    BY FS_Subset DEF Whole
  <2>3. total = one + rest
    BY <2>2, SumTakes
  <2>4. rest \in Int
    BY <2>2, SumTakes
  <2>5. Cardinality(T) = n + 1 /\ n \in Nat
    BY <2>1, <2>2, FS_RemoveElement, FS_CardinalityType
  <2>6. n * low <= rest /\ rest <= n * high
    BY <1>2, <2>1
  <2>7. one \in Int /\ low <= one /\ one <= high
    BY <2>1
  <2> HIDE DEF n, rest, total, one
  <2>8. (n + 1) * low = n * low + low /\ (n + 1) * high = n * high + high
    BY <2>5
  <2>9. (n + 1) * low <= total /\ total <= (n + 1) * high
    <3>1. n * low \in Int /\ n * high \in Int
      BY <2>5
    <3> QED
      BY <2>3, <2>4, <2>6, <2>7, <2>8, <3>1
  <2> QED
    BY <2>5, <2>9 DEF total
<1> HIDE DEF Good
<1>3. \A T \in SUBSET S : T \in Good
  BY <1>1, <1>2, SubsetInduction
<1> QED
  BY <1>3 DEF Good

\* A difference is summed by its parts.
LEMMA SumDiffers ==
  ASSUME NEW S, IsFiniteSet(S), NEW u, NEW v, NEW d, Whole(u, S), Whole(v, S),
         \A x \in S : d[x] = u[x] - v[x]
  PROVE  SumOf(u, S) - SumOf(v, S) = SumOf(d, S)
<1>0. Whole(d, S)
  BY DEF Whole
<1> DEFINE Good == {T \in SUBSET S : SumOf(u, T) - SumOf(v, T) = SumOf(d, T)}
<1>1. {} \in Good
  <2>1. SumOf(u, {}) = 0 /\ SumOf(v, {}) = 0 /\ SumOf(d, {}) = 0
    BY SumEmpty
  <2> QED
    BY <2>1
<1>2. ASSUME NEW T \in SUBSET S, T # {}, \A x \in T : T \ {x} \in Good PROVE T \in Good
  <2>1. PICK x \in T : TRUE
    BY <1>2
  <2> DEFINE R == T \ {x}
  <2>2. /\ IsFiniteSet(T) /\ Whole(u, T) /\ Whole(v, T) /\ Whole(d, T)
        /\ IsFiniteSet(R) /\ Whole(u, R) /\ Whole(v, R) /\ Whole(d, R)
    BY <1>0, FS_Subset DEF Whole
  <2>3. /\ SumOf(u, T) = u[x] + SumOf(u, R) /\ SumOf(v, T) = v[x] + SumOf(v, R)
        /\ SumOf(d, T) = d[x] + SumOf(d, R)
    BY <2>1, <2>2, SumTakes
  <2>4. SumOf(u, R) \in Int /\ SumOf(v, R) \in Int /\ SumOf(d, R) \in Int
    BY <2>2, SumTakes
  <2>5. SumOf(u, R) - SumOf(v, R) = SumOf(d, R)
    BY <1>2, <2>1
  <2>6. u[x] \in Int /\ v[x] \in Int /\ d[x] = u[x] - v[x]
    BY <2>1 DEF Whole
  <2> HIDE DEF R
  <2>7. SumOf(u, T) - SumOf(v, T) = SumOf(d, T)
    BY <2>3, <2>4, <2>5, <2>6
  <2> QED
    BY <2>7
<1> HIDE DEF Good
<1>3. \A T \in SUBSET S : T \in Good
  BY <1>1, <1>2, SubsetInduction
<1> QED
  BY <1>3 DEF Good

\* A sequence of different elements of T, in the order of their weights.
Sorts(s, w, T) ==
  /\ s \in [1..Cardinality(T) -> T]
  /\ \A i, j \in 1..Cardinality(T) : i < j => s[i] # s[j] /\ w[s[i]] <= w[s[j]]

\* Every finite set can be put in order.
LEMMA SortExists ==
  ASSUME NEW S, IsFiniteSet(S), NEW w, Whole(w, S)
  PROVE  \E s : Sorts(s, w, S)
<1> DEFINE Good == {T \in SUBSET S : \E s : Sorts(s, w, T)}
<1>1. {} \in Good
  <2>1. Cardinality({}) = 0
    BY FS_EmptySet
  <2>2. <<>> \in [1..0 -> {}] /\ 1..0 = {}
    OBVIOUS
  <2>3. Sorts(<<>>, w, {})
    BY <2>1, <2>2 DEF Sorts
  <2> QED
    BY <2>3
<1>2. ASSUME NEW T \in SUBSET S, T # {}, \A x \in T : T \ {x} \in Good PROVE T \in Good
  <2>1. IsFiniteSet(T)
    BY FS_Subset
  <2>2. PICK x \in T : \A y \in T : w[x] >= w[y]
    <3> DEFINE V == {w[y] : y \in T}
    <3>1. V \subseteq Int /\ V # {} /\ \A y \in T : w[y] \in V
      BY <1>2 DEF Whole
    <3>2. IsFiniteSet(V)
      BY <2>1, FiniteImage
    <3>3. PICK m \in V : \A y \in V : m >= y
      <4> HIDE DEF V
      <4> QED
        BY <3>1, <3>2, FiniteBounds
    <3>4. PICK x \in T : m = w[x]
      OBVIOUS
    <3> QED
      BY <3>1, <3>3, <3>4
  <2> DEFINE R == T \ {x}
             n == Cardinality(R)
  <2>3. PICK s : Sorts(s, w, R)
    BY <1>2
  <2>4. n \in Nat /\ Cardinality(T) = n + 1
    <3>1. IsFiniteSet(R) /\ Cardinality(R) = Cardinality(T) - 1 /\ Cardinality(T) \in Nat
      BY <2>1, FS_RemoveElement, FS_CardinalityType
    <3>2. n \in Nat
      BY <3>1, FS_CardinalityType
    <3> QED
      BY <3>1, <3>2
  <2> HIDE DEF n
  <2>5. s \in [1..n -> R] /\ \A i, j \in 1..n : i < j => s[i] # s[j] /\ w[s[i]] <= w[s[j]]
    BY <2>3 DEF Sorts, n
  <2> DEFINE t == [i \in 1..(n + 1) |-> IF i = n + 1 THEN x ELSE s[i]]
  <2>6. /\ \A i \in 1..n : t[i] = s[i] /\ t[i] \in R
        /\ t[n + 1] = x
    BY <2>4, <2>5
  <2>7. t \in [1..(n + 1) -> T]
    <3>1. \A i \in 1..(n + 1) : t[i] \in T
      <4> SUFFICES ASSUME NEW i \in 1..(n + 1) PROVE t[i] \in T
        OBVIOUS
      <4>1. CASE i = n + 1
        BY <2>6, <4>1
      <4>2. CASE i # n + 1
        <5>1. i \in 1..n
          BY <2>4, <4>2
        <5> QED
          BY <2>6, <5>1
      <4> QED
        BY <4>1, <4>2
    <3> QED
      BY <3>1
  <2> HIDE DEF t
  <2>8. ASSUME NEW i \in 1..(n + 1), NEW j \in 1..(n + 1), i < j PROVE t[i] # t[j] /\ w[t[i]] <= w[t[j]]
    <3>1. i \in 1..n
      BY <2>4, <2>8
    <3>2. CASE j = n + 1
      <4>1. t[i] \in R /\ t[j] = x
        BY <2>6, <3>1, <3>2
      <4>2. w[t[i]] \in Int /\ w[x] \in Int /\ w[x] >= w[t[i]]
        BY <2>2, <4>1 DEF Whole
      <4> QED
        BY <4>1, <4>2
    <3>3. CASE j # n + 1
      <4>1. j \in 1..n
        BY <2>4, <3>3
      <4> QED
        BY <2>5, <2>6, <2>8, <3>1, <4>1
    <3> QED
      BY <3>2, <3>3
  <2>9. Sorts(t, w, T)
    BY <2>4, <2>7, <2>8 DEF Sorts
  <2> QED
    BY <2>9
<1> HIDE DEF Good
<1>3. \A T \in SUBSET S : T \in Good
  BY <1>1, <1>2, SubsetInduction
<1> QED
  BY <1>3 DEF Good

\* As many different elements as there are are all of them.
LEMMA SortIsOnto ==
  ASSUME NEW S, IsFiniteSet(S), NEW w, NEW s, Sorts(s, w, S)
  PROVE  {s[i] : i \in DOMAIN s} = S
<1> DEFINE n == Cardinality(S)
<1>1. n \in Nat
  BY FS_CardinalityType
<1>2. s \in [1..n -> S] /\ \A i, j \in 1..n : i < j => s[i] # s[j]
  BY DEF Sorts
<1>3. Cardinality(1..n) = n
  <2> HIDE DEF n
  <2>1. Cardinality(1..n) = IF 1 > n THEN 0 ELSE n - 1 + 1
    BY <1>1, FS_Interval
  <2> QED
    BY <1>1, <2>1
<1>4. s \in Injection(1..n, S)
  <2> HIDE DEF n
  <2>1. \A i, j \in 1..n : s[i] = s[j] => i = j
    <3> SUFFICES ASSUME NEW i \in 1..n, NEW j \in 1..n, i # j PROVE s[i] # s[j]
      OBVIOUS
    <3>1. i < j \/ j < i
      BY <1>1
    <3> QED
      BY <1>2, <3>1
  <2> QED
    BY <1>2, <2>1 DEF Injection, IsInjective
<1>5. s \in Surjection(1..n, S)
  BY <1>3, <1>4, FS_Injection
<1> QED
  BY <1>2, <1>5 DEF Surjection

\* A circle is covered by finitely many tiles.
LEMMA TilesAreFinite ==
  ASSUME NEW center \in Int \X Int, NEW radius \in Nat
  PROVE  /\ TilesCoveringCircle(center, radius) \subseteq Int \X Int
         /\ IsFiniteSet(TilesCoveringCircle(center, radius))
<1> DEFINE a == (center[1] - radius) \div TileSize
           b == (center[1] + radius) \div TileSize
           c == (center[2] - radius) \div TileSize
           d == (center[2] + radius) \div TileSize
           All == (a..b) \X (c..d)
<1>1. a \in Int /\ b \in Int /\ c \in Int /\ d \in Int
  BY SizeAssumption, Division
<1>2. TilesCoveringCircle(center, radius) \subseteq All
  BY DEF TilesCoveringCircle
<1> HIDE DEF a, b, c, d
<1>3. IsFiniteSet(a..b) /\ IsFiniteSet(c..d)
  BY <1>1, FS_Interval
<1>4. IsFiniteSet(All)
  BY <1>3, FS_Product
<1>5. All \subseteq Int \X Int
  BY <1>1
<1> HIDE DEF All
<1> QED
  BY <1>2, <1>4, <1>5, FS_Subset

\* What is seen of a tile.
LEMMA LeastAndGreatest ==
  ASSUME NEW x \in Int, NEW y \in Int
  PROVE  Max({x, y}) \in Int /\ Max({x, y}) >= x /\ Max({x, y}) >= y
<1>1. IsFiniteSet({x, y})
  <2>1. IsFiniteSet({x}) /\ {x, y} = {x} \cup {y}
    BY FS_Singleton
  <2>2. IsFiniteSet({x} \cup {y})
    BY <2>1, FS_AddElement
  <2> QED
    BY <2>1, <2>2
<1> QED
  BY <1>1, MaxIs

\* A tile of the tileset has a box and an error in whole numbers.
LEMMA EntryType ==
  ASSUME NEW t \in Int \X Int, NEW center \in Int \X Int, NEW buildings, NEW ground,
         ground.low \in Int, ground.high \in Int, IsFiniteSet(buildings),
         \A b \in buildings : b.base \in Int /\ b.height \in Int,
         RingOfTile(t, center) # "none"
  PROVE  LET e == Entry(t, center, buildings, ground)
         IN  /\ e.tile = t /\ e.lod \in Rings
             /\ \A i \in 1..3 : e.low[i] \in Int /\ e.high[i] \in Int
<1> DEFINE here == BuildingsOf(t, buildings)
           ring == RingOfTile(t, center)
           bases == {ground.low} \cup {b.base : b \in here}
           tops == {ground.high} \cup {TopOf(b, ring) : b \in here}
           e == Entry(t, center, buildings, ground)
<1>1. here \subseteq buildings /\ IsFiniteSet(here)
  BY FS_Subset DEF BuildingsOf
<1> HIDE DEF here, ring
<1>2. IsFiniteSet({b.base : b \in here}) /\ IsFiniteSet({TopOf(b, ring) : b \in here})
  <2> DEFINE f == [b \in here |-> b.base]
             g == [b \in here |-> TopOf(b, ring)]
  <2>1. {b.base : b \in here} = {f[b] : b \in here} /\ {TopOf(b, ring) : b \in here} = {g[b] : b \in here}
    OBVIOUS
  <2> HIDE DEF f, g
  <2>2. IsFiniteSet({f[b] : b \in here}) /\ IsFiniteSet({g[b] : b \in here})
    BY <1>1, FiniteImage
  <2> QED
    BY <2>1, <2>2
<1>3. IsFiniteSet(bases) /\ IsFiniteSet(tops) /\ bases # {} /\ tops # {}
  BY <1>2, FS_Singleton, FS_Union
<1>4. bases \subseteq Int /\ tops \subseteq Int
  BY <1>1 DEF TopOf
<1> HIDE DEF bases, tops
<1>5. Min(bases) \in Int /\ Max(tops) \in Int
  BY <1>3, <1>4, MinIs, MaxIs
<1>6. e = [tile |-> t, lod |-> ring,
           low |-> <<Low(t, 1) - center[1], Low(t, 2) - center[2], Min(bases)>>,
           high |-> <<High(t, 1) - center[1], High(t, 2) - center[2], Max(tops)>>]
  BY DEF Entry, bases, tops, here, ring
<1>7. ring \in Rings
  BY DEF ring, RingOfTile, ClassifyLodRing, Rings
<1>8. Low(t, 1) \in Int /\ Low(t, 2) \in Int /\ High(t, 1) \in Int /\ High(t, 2) \in Int
  <2>1. t[1] * TileSize \in Int /\ t[2] * TileSize \in Int
    BY SizeAssumption
  <2> QED
    BY <2>1, SizeAssumption DEF Low, High
<1> QED
  BY <1>5, <1>6, <1>7, <1>8

\* The box of the root holds that of every tile.
LEMMA RootHoldsAll ==
  ASSUME NEW entries, IsFiniteSet(entries),
         \A e \in entries : e.lod \in Rings /\ (\A i \in 1..3 : e.low[i] \in Int /\ e.high[i] \in Int),
         NEW e \in entries
  PROVE  /\ RingStep[e.lod] <= Root(entries).error
         /\ \A i \in 1..3 :
              /\ Root(entries).box.centre[i] - Root(entries).box.half[i] <= 2 * e.low[i]
              /\ 2 * e.high[i] <= Root(entries).box.centre[i] + Root(entries).box.half[i]
<1> DEFINE steps == {RingStep[r] : r \in Rings}
           lows(i) == {x.low[i] : x \in entries}
           highs(i) == {x.high[i] : x \in entries}
           low == [i \in 1..3 |-> Min(lows(i))]
           high == [i \in 1..3 |-> Max(highs(i))]
<1>1. /\ Root(entries).error = Max(steps)
      /\ Root(entries).box.centre = [i \in 1..3 |-> low[i] + high[i]]
      /\ Root(entries).box.half = [i \in 1..3 |-> IF i = 3 THEN Max({high[i] - low[i], 1}) ELSE high[i] - low[i]]
  BY DEF Root, Box
<1>2. RingStep[e.lod] <= Max(steps)
  <2>1. IsFiniteSet(Rings)
    <3>1. Rings = ({"LOD2"} \cup {"LOD1"}) \cup {"LOD0"}
      BY DEF Rings
    <3> QED
      BY <3>1, FS_Singleton, FS_Union
  <2>2. IsFiniteSet(steps)
    BY <2>1, FiniteImage
  <2>3. steps \subseteq Int /\ RingStep[e.lod] \in steps
    BY RingAssumption
  <2> HIDE DEF steps
  <2>4. \A y \in steps : Max(steps) >= y
    BY <2>2, <2>3, MaxIs
  <2> QED
    BY <2>2, <2>3, <2>4, MaxIs
<1>3. ASSUME NEW i \in 1..3
      PROVE  /\ low[i] \in Int /\ high[i] \in Int
             /\ low[i] <= e.low[i] /\ e.high[i] <= high[i]
  <2>1. IsFiniteSet(lows(i)) /\ IsFiniteSet(highs(i))
    <3> DEFINE f == [x \in entries |-> x.low[i]]
               g == [x \in entries |-> x.high[i]]
    <3>1. lows(i) = {f[x] : x \in entries} /\ highs(i) = {g[x] : x \in entries}
      OBVIOUS
    <3> HIDE DEF f, g
    <3>2. IsFiniteSet({f[x] : x \in entries}) /\ IsFiniteSet({g[x] : x \in entries})
      BY FiniteImage
    <3> QED
      BY <3>1, <3>2
  <2>2. lows(i) \subseteq Int /\ highs(i) \subseteq Int /\ e.low[i] \in lows(i) /\ e.high[i] \in highs(i)
    OBVIOUS
  <2>3. low[i] = Min(lows(i)) /\ high[i] = Max(highs(i))
    OBVIOUS
  <2> HIDE DEF lows, highs, low, high
  <2> DEFINE L == lows(i)
             H == highs(i)
  <2>4. /\ L \subseteq Int /\ L # {} /\ IsFiniteSet(L) /\ e.low[i] \in L
        /\ H \subseteq Int /\ H # {} /\ IsFiniteSet(H) /\ e.high[i] \in H
    BY <2>1, <2>2
  <2> HIDE DEF L, H
  <2>5. Min(L) \in Int /\ Min(L) <= e.low[i] /\ Max(H) \in Int /\ Max(H) >= e.high[i]
    BY <2>4, MinIs, MaxIs
  <2>6. low[i] = Min(L) /\ high[i] = Max(H)
    BY <2>3 DEF L, H
  <2> QED
    BY <2>2, <2>4, <2>5, <2>6
<1> HIDE DEF low, high, steps
<1>4. ASSUME NEW i \in 1..3
      PROVE  /\ Root(entries).box.centre[i] - Root(entries).box.half[i] <= 2 * e.low[i]
             /\ 2 * e.high[i] <= Root(entries).box.centre[i] + Root(entries).box.half[i]
  <2> DEFINE a == low[i]
             b == high[i]
             h == IF i = 3 THEN Max({b - a, 1}) ELSE b - a
  <2>1. Root(entries).box.centre[i] = a + b /\ Root(entries).box.half[i] = h
    BY <1>1
  <2>2. a \in Int /\ b \in Int /\ a <= e.low[i] /\ e.high[i] <= b /\ e.low[i] \in Int /\ e.high[i] \in Int
    BY <1>3
  <2> HIDE DEF a, b
  <2>3. h \in Int /\ h >= b - a
    <3>1. b - a \in Int /\ 1 \in Int
      BY <2>2
    <3>2. Max({b - a, 1}) \in Int /\ Max({b - a, 1}) >= b - a
      BY <3>1, LeastAndGreatest
    <3> QED
      BY <3>1, <3>2
  <2> HIDE DEF h
  <2> QED
    BY <2>1, <2>2, <2>3
<1> QED
  BY <1>1, <1>2, <1>4
-----------------------------------------------------------------------------

\* The tileset covers the site and its root holds it, whatever is asked for.
LEMMA TilesetIsAlwaysComplete ==
  ASSUME NEW center \in Int \X Int, NEW radius \in Nat, NEW margin \in Nat, NEW buildings, NEW ground,
         ground.low \in Int, ground.high \in Int, IsFiniteSet(buildings),
         \A b \in buildings : b.centroid \in Int \X Int /\ b.base \in Int /\ b.height \in Int
  PROVE  TilesetIsComplete(center, radius, margin, buildings, ground)
<1> DEFINE tiles == TilesOfTileset(center, radius, margin, buildings)
           entries == {Entry(t, center, buildings, ground) : t \in tiles}
           root == Root(entries)
           Circle == {p \in (center[1] - radius .. center[1] + radius)
                            \X (center[2] - radius .. center[2] + radius) :
                        Distance2(p, center) <= Square(radius)}
<1>1. ASSUME NEW p \in Circle
      PROVE  p \in Int \X Int /\ WorldToTileIndex(p) \in TilesCoveringCircle(center, radius)
  <2>1. p \in Int \X Int /\ Distance2(p, center) <= Square(radius)
    OBVIOUS
  <2>2. Distance2(center, p) = Distance2(p, center)
    BY <2>1 DEF Distance2, Square
  <2> QED
    BY <2>1, <2>2, CircleIsCovered
<1>2. tiles \subseteq TilesCoveringCircle(center, radius) /\ \A t \in tiles : RingOfTile(t, center) # "none"
  BY DEF TilesOfTileset
<1>3. ASSUME NEW t \in tiles
      PROVE  LET e == Entry(t, center, buildings, ground)
             IN  /\ e.tile = t /\ e.lod \in Rings
                 /\ \A i \in 1..3 : e.low[i] \in Int /\ e.high[i] \in Int
  <2>1. t \in Int \X Int /\ RingOfTile(t, center) # "none"
    BY <1>2, TilesAreFinite
  <2> HIDE DEF tiles
  <2> QED
    BY <2>1, EntryType
<1>4. ASSUME NEW b \in buildings, b.centroid \in Circle, RingOfTile(WorldToTileIndex(b.centroid), center) # "none"
      PROVE  \E e \in entries : e.tile = WorldToTileIndex(b.centroid)
  <2> DEFINE t == WorldToTileIndex(b.centroid)
  <2>1. t \in TilesCoveringCircle(center, radius)
    BY <1>1, <1>4
  <2>2. b \in BuildingsOf(t, buildings)
    BY DEF BuildingsOf
  <2>3. t \in tiles
    BY <1>4, <2>1, <2>2 DEF TilesOfTileset
  <2> HIDE DEF t, tiles
  <2>4. Entry(t, center, buildings, ground).tile = t /\ Entry(t, center, buildings, ground) \in entries
    BY <1>3, <2>3
  <2> HIDE DEF entries
  <2>5. \E e \in entries : e.tile = t
    BY <2>4
  <2> QED
    BY <2>5 DEF t
<1>5. ASSUME NEW e \in entries
      PROVE  /\ RingStep[e.lod] <= root.error
             /\ \A i \in 1..3 : /\ root.box.centre[i] - root.box.half[i] <= 2 * e.low[i]
                                /\ 2 * e.high[i] <= root.box.centre[i] + root.box.half[i]
  <2>1. IsFiniteSet(tiles)
    BY <1>2, TilesAreFinite, FS_Subset
  <2>2. IsFiniteSet(entries)
    <3> DEFINE f == [t \in tiles |-> Entry(t, center, buildings, ground)]
    <3> HIDE DEF tiles
    <3>1. entries = {f[t] : t \in tiles}
      OBVIOUS
    <3> HIDE DEF f, entries
    <3> QED
      BY <2>1, <3>1, FiniteImage
  <2>3. \A x \in entries : x.lod \in Rings /\ (\A i \in 1..3 : x.low[i] \in Int /\ x.high[i] \in Int)
    BY <1>3
  <2> HIDE DEF entries
  <2> QED
    BY <2>2, <2>3, RootHoldsAll
<1>6. ASSUME NEW p \in Circle
      PROVE  LET t == WorldToTileIndex(p)
             IN  /\ TileSize <= Lod2Max /\ Distance2(p, center) <= Square(Lod2Max - TileSize)
                      => RingOfTile(t, center) = "LOD2"
                 /\ Distance2(p, center) >= Square(Lod1Max + TileSize) => RingOfTile(t, center) # "LOD1"
  <2>1. p \in Int \X Int
    BY <1>1
  <2> HIDE DEF Circle
  <2> QED
    BY <2>1, DetailOfPlace
<1> HIDE DEF Circle, root, entries, tiles
<1> QED
  BY <1>1, <1>4, <1>5, <1>6 DEF TilesetIsComplete, Circle, root, entries, tiles
-----------------------------------------------------------------------------
(* Orders and ranks.                                                       *)

\* less is a strict order of all of S.
Orders(less, S) ==
  /\ \A x \in S : <<x, x>> \notin less
  /\ \A x, y, z \in S : <<x, y>> \in less /\ <<y, z>> \in less => <<x, z>> \in less
  /\ \A x, y \in S : x = y \/ <<x, y>> \in less \/ <<y, x>> \in less

RankIn(less, S, x) == Cardinality({y \in S : <<y, x>> \in less}) + 1

Ranked(less, S) ==
  /\ \A x \in S : RankIn(less, S, x) \in 1..Cardinality(S)
  /\ \A x, y \in S : <<x, y>> \in less => RankIn(less, S, x) < RankIn(less, S, y)
  /\ \A k \in 1..Cardinality(S) : \E x \in S : RankIn(less, S, x) = k

\* The ranks of the elements of a finite set are 1, 2, ..., in their order.
LEMMA Ranks ==
  ASSUME NEW S, IsFiniteSet(S), NEW less, Orders(less, S)
  PROVE  Ranked(less, S)
<1> DEFINE Below(x) == {y \in S : <<y, x>> \in less}
           R(x) == RankIn(less, S, x)
           n == Cardinality(S)
<1>0. n \in Nat
  BY FS_CardinalityType
<1>1. ASSUME NEW x \in S
      PROVE  IsFiniteSet(Below(x)) /\ Cardinality(Below(x)) \in Nat /\ R(x) = Cardinality(Below(x)) + 1 /\ R(x) \in 1..n
  <2>1. Below(x) \in SUBSET S /\ x \notin Below(x)
    BY DEF Orders
  <2> HIDE DEF Below
  <2>2. IsFiniteSet(Below(x)) /\ Cardinality(Below(x)) <= n /\ (n = Cardinality(Below(x)) => S = Below(x))
    BY <2>1, FS_Subset
  <2>3. Cardinality(Below(x)) \in Nat /\ Cardinality(Below(x)) # n
    BY <2>1, <2>2, FS_CardinalityType
  <2>4. R(x) = Cardinality(Below(x)) + 1
    BY DEF RankIn, Below
  <2> HIDE DEF R, n
  <2> QED
    BY <1>0, <2>2, <2>3, <2>4
<1>2. ASSUME NEW x \in S, NEW y \in S, <<x, y>> \in less
      PROVE  R(x) < R(y)
  <2>1. Below(x) \in SUBSET Below(y) /\ x \in Below(y) /\ x \notin Below(x)
    BY <1>2 DEF Orders
  <2> HIDE DEF Below, R
  <2>2. Cardinality(Below(x)) <= Cardinality(Below(y)) /\ Cardinality(Below(x)) # Cardinality(Below(y))
    BY <1>1, <2>1, FS_Subset
  <2> QED
    BY <1>1, <2>2
<1>3. \A k \in 1..n : \E x \in S : R(x) = k
  <2> DEFINE f == [x \in S |-> R(x)]
             T == 1..n
  <2>1. f \in Injection(S, T)
    <3>1. f \in [S -> T]
      BY <1>1
    <3>2. ASSUME NEW x \in S, NEW y \in S, x # y PROVE f[x] # f[y]
      <4> HIDE DEF R
      <4>1. R(x) < R(y) \/ R(y) < R(x)
        BY <1>2, <3>2 DEF Orders
      <4>2. R(x) \in 1..n /\ R(y) \in 1..n
        BY <1>1
      <4> QED
        BY <1>0, <4>1, <4>2
    <3> HIDE DEF f, T
    <3> QED
      BY <3>1, <3>2 DEF Injection, IsInjective
  <2>2. IsFiniteSet(T) /\ Cardinality(T) = n
    BY <1>0, FS_Interval
  <2> HIDE DEF f, T
  <2>3. f \in Surjection(S, T)
    BY <2>1, <2>2, FS_Injection
  <2>4. \A k \in T : \E x \in S : f[x] = k
    BY <2>3 DEF Surjection
  <2> QED
    BY <2>4 DEF f, T
<1> HIDE DEF R, n
<1> QED
  BY <1>1, <1>2, <1>3 DEF R, n, Ranked
-----------------------------------------------------------------------------
(* Folds of sequences.                                                     *)
-----------------------------------------------------------------------------
(* The merge of sources (Relief).                                          *)

IsRow(row) == row.priority \in Int /\ row.valid \subseteq Cells /\ row.height \in [row.valid -> Int]

Dems == [mask : SUBSET Cells, value : [Cells -> Int]]

\* Blending and merging keep a relief a relief.
LEMMA BlendedType ==
  ASSUME NEW base \in Int, NEW overlay \in Int, NEW valid \in SUBSET Cells, NEW c \in Cells, NEW phantom \in Nat
  PROVE  /\ Blended(base, overlay, valid, c, phantom) \in Int
         /\ c \in valid /\ 2 * DistanceTo(Cells \ valid, c, phantom) >= TransitionWidth
              => Blended(base, overlay, valid, c, phantom) = overlay
<1> DEFINE whole == IF TransitionWidth = 0 THEN 1 ELSE 2 * TransitionWidth
           alpha == Alpha(valid, c, phantom)
           far == DistanceTo(Cells \ valid, c, phantom)
<1>1. whole \in Nat \ {0}
  BY TransitionAssumption
<1>2. far \in Nat /\ DistanceTo(valid, c, phantom) \in Nat
  BY DistanceType
<1>3. alpha \in Int
  <2>1. CASE TransitionWidth = 0
    BY <2>1 DEF Alpha
  <2>2. CASE TransitionWidth # 0
    BY <1>2, <2>2, TransitionAssumption DEF Alpha, Limit
  <2> QED
    BY <2>1, <2>2
<1>4. Blended(base, overlay, valid, c, phantom) = (alpha * overlay + (whole - alpha) * base) \div whole
  BY DEF Blended
<1>5. ASSUME c \in valid, 2 * far >= TransitionWidth
      PROVE  alpha = whole
  <2>1. CASE TransitionWidth = 0
    BY <1>5, <2>1 DEF Alpha
  <2>2. CASE TransitionWidth # 0
    <3>1. alpha = Limit(2 * far + TransitionWidth, 0, 2 * TransitionWidth)
      BY <1>5, <2>2 DEF Alpha
    <3> HIDE DEF far
    <3> QED
      BY <1>2, <1>5, <2>2, <3>1, TransitionAssumption DEF Limit
  <2> QED
    BY <2>1, <2>2
<1> HIDE DEF whole, alpha
<1>6. (alpha * overlay + (whole - alpha) * base) \div whole \in Int
  <2>1. alpha * overlay + (whole - alpha) * base \in Int
    BY <1>1, <1>3
  <2> QED
    BY <1>1, <2>1
<1>7. alpha = whole => (alpha * overlay + (whole - alpha) * base) \div whole = overlay
  <2> SUFFICES ASSUME alpha = whole PROVE (alpha * overlay + (whole - alpha) * base) \div whole = overlay
    OBVIOUS
  <2>1. alpha * overlay + (whole - alpha) * base = overlay * whole
    BY <1>1
  <2>2. (overlay * whole) \div whole = overlay
    <3>1. overlay * whole \in Int /\ overlay * whole <= overlay * whole /\ overlay * whole < overlay * whole + whole
      BY <1>1
    <3> QED
      BY <1>1, <3>1, DivisionUnique
  <2> QED
    BY <2>1, <2>2
<1> QED
  BY <1>4, <1>5, <1>6, <1>7

LEMMA MergedType ==
  ASSUME NEW dem \in Dems, NEW row, IsRow(row), NEW phantom \in Nat
  PROVE  Merged(dem, row, phantom) \in Dems
<1>1. dem.mask \subseteq Cells /\ dem.value \in [Cells -> Int] /\ row.valid \subseteq Cells
  BY DEF Dems, IsRow
<1>2. ASSUME NEW c \in Cells
      PROVE  (IF c \notin row.valid THEN dem.value[c]
              ELSE IF c \in dem.mask
                   THEN Blended(dem.value[c], row.height[c], row.valid, c, phantom)
                   ELSE row.height[c]) \in Int
  <2>1. c \in row.valid => row.height[c] \in Int
    BY DEF IsRow
  <2>2. dem.value[c] \in Int
    BY <1>1
  <2> QED
    BY <1>1, <2>1, <2>2, BlendedType
<1> QED
  BY <1>1, <1>2 DEF Merged, Dems

\* get_dem merges one source after the other.
Turns(dem, seq, n, phantom) ==
  /\ dem \in [0..n -> Dems]
  /\ dem[0] = NoRelief
  /\ \A k \in 1..n : dem[k] = Merged(dem[k - 1], seq[k], phantom)

\* get_dem is the fold of the merge over the sources, in their order.
LEMMA DemTurns ==
  ASSUME NEW n \in Nat, NEW seq, DOMAIN seq = 1..n, \A k \in 1..n : IsRow(seq[k]), NEW phantom \in Nat
  PROVE  \E dem : /\ Turns(dem, seq, n, phantom)
                  /\ FoldLeft(LAMBDA d, row : Merged(d, row, phantom), NoRelief, seq) = dem[n]
<1> DEFINE S == 1..n
           step == [k \in S |-> [d \in Dems |-> Merged(d, seq[k], phantom)]]
           Folds(f) == f = [s \in SUBSET S |-> IF s = {} THEN NoRelief
                                               ELSE Merged(f[s \ {Max(s)}], seq[Max(s)], phantom)]
           f == CHOOSE f : Folds(f)
<1>0. NoRelief \in Dems
  BY DEF NoRelief, Dems
<1>1. StaysIn(step, S, Dems)
  BY MergedType DEF StaysIn
<1>2. Picks(LastOf(n), S) /\ IsFiniteSet(S) /\ \A s \in SUBSET S : LastOf(n)[s] = Max(s)
  BY LastIn DEF LastOf
<1>3. \A k \in S, d \in Dems : step[k][d] = Merged(d, seq[k], phantom)
  OBVIOUS
<1> HIDE DEF step
<1>4. \E g : Folds(g)
  <2>1. PICK g \in [SUBSET S -> Dems] : Iterates(g, NoRelief, LastOf(n), step, S)
    BY <1>0, <1>1, <1>2, SetRecursion
  <2>2. ASSUME NEW s \in SUBSET S
        PROVE  g[s] = IF s = {} THEN NoRelief ELSE Merged(g[s \ {Max(s)}], seq[Max(s)], phantom)
    <3>1. s # {} => Max(s) \in S /\ g[s \ {Max(s)}] \in Dems
      BY <1>2, <2>1 DEF Picks
    <3>2. g[s] = IF s = {} THEN NoRelief ELSE step[Max(s)][g[s \ {Max(s)}]]
      BY <1>2, <2>1 DEF Iterates
    <3> QED
      BY <1>3, <3>1, <3>2
  <2> QED
    BY <2>1, <2>2
<1>5. Folds(f)
  BY <1>4
<1>6. FoldLeft(LAMBDA d, row : Merged(d, row, phantom), NoRelief, seq) = f[S]
  BY DEF FoldLeft, MapThenFoldSet
<1> HIDE DEF f
<1>7. \A s \in SUBSET S : f[s] = IF s = {} THEN NoRelief ELSE Merged(f[s \ {Max(s)}], seq[Max(s)], phantom)
  <2> DEFINE g == [s \in SUBSET S |-> IF s = {} THEN NoRelief ELSE Merged(f[s \ {Max(s)}], seq[Max(s)], phantom)]
  <2>1. f = g
    BY <1>5
  <2>2. \A s \in SUBSET S : g[s] = IF s = {} THEN NoRelief ELSE Merged(f[s \ {Max(s)}], seq[Max(s)], phantom)
    OBVIOUS
  <2> HIDE DEF g
  <2> QED
    BY <2>1, <2>2
<1>8. \A s \in SUBSET S : f[s] \in Dems
  <2> DEFINE Good == {s \in SUBSET S : f[s] \in Dems}
  <2>1. {} \in Good
    BY <1>0, <1>7
  <2>2. ASSUME NEW s \in SUBSET S, s # {}, \A x \in s : s \ {x} \in Good PROVE s \in Good
    <3>1. Max(s) \in s /\ Max(s) \in S
      BY <1>2, <2>2 DEF Picks
    <3>2. f[s \ {Max(s)}] \in Dems
      BY <2>2, <3>1
    <3>3. f[s] = Merged(f[s \ {Max(s)}], seq[Max(s)], phantom)
      BY <1>7, <2>2
    <3>4. f[s] \in Dems
      BY <3>1, <3>2, <3>3, MergedType
    <3> QED
      BY <3>4
  <2> HIDE DEF Good
  <2>3. \A s \in SUBSET S : s \in Good
    <3>1. IsFiniteSet(S)
      BY <1>2
    <3> HIDE DEF S
    <3> QED
      BY <2>1, <2>2, <3>1, SubsetInduction
  <2> QED
    BY <2>3 DEF Good
<1>9. Iterates(f, NoRelief, LastOf(n), step, S)
  <2> SUFFICES ASSUME NEW s \in SUBSET S
               PROVE  f[s] = IF s = {} THEN NoRelief ELSE step[LastOf(n)[s]][f[s \ {LastOf(n)[s]}]]
    BY DEF Iterates
  <2>1. CASE s = {}
    BY <1>7, <2>1
  <2>2. CASE s # {}
    <3>1. Max(s) \in S /\ f[s \ {Max(s)}] \in Dems /\ LastOf(n)[s] = Max(s)
      BY <1>2, <1>8, <2>2 DEF Picks
    <3>2. f[s] = Merged(f[s \ {Max(s)}], seq[Max(s)], phantom)
      BY <1>7, <2>2
    <3> QED
      BY <1>3, <2>2, <3>1, <3>2
  <2> QED
    BY <2>1, <2>2
<1>10. PICK run \in [0..n -> Dems] : Runs(run, NoRelief, step, n) /\ f[S] = run[n]
  <2>1. RunsTo(f[1..n], NoRelief, step, n, Dems)
    BY <1>0, <1>1, <1>9, FoldRuns
  <2> QED
    BY <2>1 DEF RunsTo
<1>11. ASSUME NEW k \in 1..n PROVE run[k] = Merged(run[k - 1], seq[k], phantom)
  <2>1. run[k] = step[k][run[k - 1]] /\ run[k - 1] \in Dems
    BY <1>10 DEF Runs
  <2> QED
    BY <1>3, <2>1
<1>12. Turns(run, seq, n, phantom)
  BY <1>10, <1>11 DEF Turns, Runs
<1> QED
  BY <1>6, <1>10, <1>12
-----------------------------------------------------------------------------

\* pos is the place of each of the rows that were found in their order by priority.
Places(pos, seq, rows, found) ==
  /\ \A i \in found : pos[i] \in 1..Cardinality(found) /\ seq[pos[i]] = rows[i]
  /\ \A k \in 1..Cardinality(found) : \E i \in found : pos[i] = k
  /\ \A i, j \in found : pos[i] < pos[j] => rows[i].priority <= rows[j].priority
  /\ \A i, j \in found : pos[i] = pos[j] => i = j

\* Every source that was found has one place in the order by priority.
LEMMA AscendingPlaces ==
  ASSUME NEW found \in SUBSET Nat, IsFiniteSet(found), NEW rows, \A i \in found : rows[i].priority \in Int
  PROVE  /\ DOMAIN Ascending(rows, found) = 1..Cardinality(found)
         /\ \E pos : Places(pos, Ascending(rows, found), rows, found)
<1> DEFINE Before(i, j) == rows[i].priority < rows[j].priority
                           \/ (rows[i].priority = rows[j].priority /\ i < j)
           Rank(i) == Cardinality({j \in found : Before(j, i)}) + 1
           less == {p \in found \X found : Before(p[1], p[2])}
           pos == [i \in found |-> Rank(i)]
           seq == Ascending(rows, found)
           n == Cardinality(found)
<1>1. \A i, j \in found : <<i, j>> \in less <=> Before(i, j)
  OBVIOUS
<1>2. Orders(less, found)
  <2>1. ASSUME NEW x \in found PROVE ~ Before(x, x)
    <3>1. rows[x].priority \in Int /\ x \in Nat
      OBVIOUS
    <3> QED
      BY <3>1
  <2>2. ASSUME NEW x \in found, NEW y \in found, NEW z \in found, Before(x, y), Before(y, z) PROVE Before(x, z)
    <3>1. /\ rows[x].priority \in Int /\ rows[y].priority \in Int /\ rows[z].priority \in Int
          /\ x \in Nat /\ y \in Nat /\ z \in Nat
      OBVIOUS
    <3> QED
      BY <2>2, <3>1
  <2>3. ASSUME NEW x \in found, NEW y \in found PROVE x = y \/ Before(x, y) \/ Before(y, x)
    <3>1. /\ rows[x].priority \in Int /\ rows[y].priority \in Int /\ x \in Nat /\ y \in Nat
      OBVIOUS
    <3> QED
      BY <3>1
  <2> HIDE DEF less, Before
  <2> QED
    BY <1>1, <2>1, <2>2, <2>3 DEF Orders
<1>3. \A i \in found : Rank(i) = RankIn(less, found, i)
  <2> SUFFICES ASSUME NEW i \in found PROVE {j \in found : Before(j, i)} = {j \in found : <<j, i>> \in less}
    BY DEF RankIn
  <2> HIDE DEF less, Before
  <2> QED
    BY <1>1
<1> HIDE DEF less, Before
<1>4. /\ \A i \in found : RankIn(less, found, i) \in 1..n
      /\ \A i, j \in found : <<i, j>> \in less => RankIn(less, found, i) < RankIn(less, found, j)
      /\ \A k \in 1..n : \E i \in found : RankIn(less, found, i) = k
  <2>1. Ranked(less, found)
    BY <1>2, Ranks
  <2> QED
    BY <2>1 DEF Ranked
<1>5. seq = [k \in 1..n |-> rows[CHOOSE i \in found : Rank(i) = k]]
  BY DEF Ascending, Before
<1>6. /\ \A i \in found : pos[i] = RankIn(less, found, i) /\ pos[i] = Rank(i)
      /\ \A k \in 1..n : \E i \in found : pos[i] = k
  BY <1>3, <1>4
<1> HIDE DEF pos, Rank, seq
<1>7. ASSUME NEW i \in found, NEW j \in found
      PROVE  /\ pos[i] < pos[j] => rows[i].priority <= rows[j].priority
             /\ pos[i] = pos[j] => i = j
  <2>1. pos[i] \in Int /\ pos[j] \in Int
    BY <1>4, <1>6, FS_CardinalityType, SMTT(30)
  <2>2. <<i, j>> \in less => pos[i] < pos[j]
    BY <1>4, <1>6
  <2>3. <<j, i>> \in less => pos[j] < pos[i]
    BY <1>4, <1>6
  <2>4. i = j \/ <<i, j>> \in less \/ <<j, i>> \in less
    BY <1>2 DEF Orders
  <2>5. <<i, j>> \in less => rows[i].priority <= rows[j].priority
    <3>1. rows[i].priority \in Int /\ rows[j].priority \in Int
      OBVIOUS
    <3>2. <<i, j>> \in less => Before(i, j)
      BY <1>1
    <3> QED
      BY <3>1, <3>2 DEF Before
  <2> QED
    BY <2>1, <2>2, <2>3, <2>4, <2>5
<1>8. ASSUME NEW i \in found PROVE pos[i] \in 1..n /\ seq[pos[i]] = rows[i]
  <2>1. pos[i] \in 1..n
    BY <1>4, <1>6
  <2> DEFINE c == CHOOSE j \in found : Rank(j) = pos[i]
  <2>2. c \in found /\ Rank(c) = pos[i]
    BY <1>6
  <2>3. seq[pos[i]] = rows[c]
    BY <1>5, <2>1
  <2> HIDE DEF c
  <2>4. c = i
    BY <1>6, <1>7, <2>2
  <2> QED
    BY <2>1, <2>3, <2>4
<1>9. Places(pos, seq, rows, found)
  BY <1>6, <1>7, <1>8 DEF Places
<1>10. DOMAIN seq = 1..n
  BY <1>5
<1> QED
  BY <1>9, <1>10 DEF seq

\* What the first k sources cover, and between which of them a height lies.
Sound(dem, seq, k) ==
  /\ dem.mask = UNION {seq[x].valid : x \in 1..k}
  /\ \A c \in dem.mask : \E x, y \in 1..k :
       /\ c \in seq[x].valid /\ c \in seq[y].valid
       /\ seq[x].height[c] <= dem.value[c] /\ dem.value[c] <= seq[y].height[c]

\* One merge shows the new source where it is valid, the old relief where it is not.
LEMMA MergedSound ==
  ASSUME NEW seq, NEW k \in Nat, NEW phantom \in Nat, \A x \in 1..(k + 1) : IsRow(seq[x]),
         NEW dem \in Dems, Sound(dem, seq, k)
  PROVE  Sound(Merged(dem, seq[k + 1], phantom), seq, k + 1)
<1> DEFINE row == seq[k + 1]
           next == Merged(dem, row, phantom)
<1>1. k + 1 \in 1..(k + 1) /\ 1..(k + 1) = (1..k) \cup {k + 1}
  OBVIOUS
<1>2. IsRow(row) /\ row.valid \subseteq Cells /\ dem.mask \subseteq Cells /\ dem.value \in [Cells -> Int]
  BY <1>1 DEF IsRow, Dems
<1>3. next.mask = dem.mask \cup row.valid
  BY DEF Merged
<1>4. next.mask = UNION {seq[x].valid : x \in 1..(k + 1)}
  BY <1>1, <1>3 DEF Sound
<1>5. ASSUME NEW c \in Cells
      PROVE  next.value[c] = IF c \notin row.valid THEN dem.value[c]
                             ELSE IF c \in dem.mask
                                  THEN Blended(dem.value[c], row.height[c], row.valid, c, phantom)
                                  ELSE row.height[c]
  BY DEF Merged
<1>6. ASSUME NEW c \in next.mask
      PROVE  \E x, y \in 1..(k + 1) :
               /\ c \in seq[x].valid /\ c \in seq[y].valid
               /\ seq[x].height[c] <= next.value[c] /\ next.value[c] <= seq[y].height[c]
  <2>0. c \in Cells /\ (c \in dem.mask \/ c \in row.valid)
    BY <1>2, <1>3
  <2> HIDE DEF next
  <2>1. CASE c \notin row.valid
    <3>1. c \in dem.mask /\ next.value[c] = dem.value[c]
      BY <1>5, <2>0, <2>1
    <3>2. PICK x \in 1..k, y \in 1..k :
            /\ c \in seq[x].valid /\ c \in seq[y].valid
            /\ seq[x].height[c] <= dem.value[c] /\ dem.value[c] <= seq[y].height[c]
      BY <3>1 DEF Sound
    <3> QED
      BY <1>1, <3>1, <3>2
  <2>2. CASE c \in row.valid /\ c \notin dem.mask
    <3>1. next.value[c] = row.height[c] /\ row.height[c] \in Int
      BY <1>2, <1>5, <2>0, <2>2 DEF IsRow
    <3> QED
      BY <1>1, <2>2, <3>1
  <2>3. CASE c \in row.valid /\ c \in dem.mask
    <3> DEFINE b == dem.value[c]
               o == row.height[c]
               z == next.value[c]
    <3>1. z = Blended(b, o, row.valid, c, phantom) /\ b \in Int /\ o \in Int
      BY <1>2, <1>5, <2>0, <2>3 DEF IsRow
    <3> HIDE DEF b, o, z
    <3>2. z \in Int /\ ((b <= z /\ z <= o) \/ (o <= z /\ z <= b))
      <4> DEFINE v == row.valid
      <4>1. v \in SUBSET Cells
        BY <1>2
      <4> HIDE DEF v
      <4>2. Blended(b, o, v, c, phantom) \in Int
        BY <2>0, <3>1, <4>1, BlendedType
      <4>3. \/ b <= Blended(b, o, v, c, phantom) /\ Blended(b, o, v, c, phantom) <= o
            \/ o <= Blended(b, o, v, c, phantom) /\ Blended(b, o, v, c, phantom) <= b
        BY <2>0, <3>1, <4>1, BlendLiesBetween
      <4>4. z = Blended(b, o, v, c, phantom)
        BY <3>1 DEF v
      <4> DEFINE w == Blended(b, o, v, c, phantom)
      <4>5. z = w /\ w \in Int /\ ((b <= w /\ w <= o) \/ (o <= w /\ w <= b))
        BY <4>2, <4>3, <4>4
      <4> HIDE DEF w
      <4> QED
        BY <4>5
    <3>3. PICK x \in 1..k, y \in 1..k :
            /\ c \in seq[x].valid /\ c \in seq[y].valid
            /\ seq[x].height[c] <= b /\ b <= seq[y].height[c]
      BY <2>3 DEF Sound, b
    <3>4. seq[x].height[c] \in Int /\ seq[y].height[c] \in Int
      BY <1>1, <3>3 DEF IsRow
    <3>5. CASE b <= z /\ z <= o
      <4>1. seq[x].height[c] <= z /\ z <= seq[k + 1].height[c]
        BY <3>1, <3>2, <3>3, <3>4, <3>5 DEF o
      <4> QED
        BY <1>1, <2>3, <3>3, <4>1 DEF z
    <3>6. CASE o <= z /\ z <= b
      <4>1. seq[k + 1].height[c] <= z /\ z <= seq[y].height[c]
        BY <3>1, <3>2, <3>3, <3>4, <3>6 DEF o
      <4> QED
        BY <1>1, <2>3, <3>3, <4>1 DEF z
    <3> QED
      BY <3>2, <3>5, <3>6
  <2> QED
    BY <2>0, <2>1, <2>2, <2>3
<1> QED
  BY <1>4, <1>6 DEF Sound
-----------------------------------------------------------------------------

\* What a place shows is decided by the last source that is valid there.
LEMMA DemIsSound ==
  ASSUME NEW seq, NEW n \in Nat, \A x \in 1..n : IsRow(seq[x]), NEW phantom \in Nat,
         NEW dem, Turns(dem, seq, n, phantom)
  PROVE  Sound(dem[n], seq, n)
<1> DEFINE A == {k \in Nat : k <= n => Sound(dem[k], seq, k)}
<1>1. 0 \in A
  <2>1. dem[0] = NoRelief /\ 1..0 = {}
    BY DEF Turns
  <2>2. Sound(NoRelief, seq, 0)
    BY <2>1 DEF Sound, NoRelief
  <2> QED
    BY <2>1, <2>2
<1>2. ASSUME NEW k \in Nat, k \in A PROVE k + 1 \in A
  <2> SUFFICES ASSUME k + 1 <= n PROVE Sound(dem[k + 1], seq, k + 1)
    OBVIOUS
  <2>1. Sound(dem[k], seq, k)
    BY <1>2
  <2>2. k \in 0..n /\ k + 1 \in 1..n /\ k + 1 - 1 = k /\ \A x \in 1..(k + 1) : x \in 1..n
    OBVIOUS
  <2>3. dem[k] \in Dems /\ dem[k + 1] = Merged(dem[k], seq[k + 1], phantom)
    BY <2>2 DEF Turns
  <2>4. \A x \in 1..(k + 1) : IsRow(seq[x])
    BY <2>2
  <2>5. Sound(Merged(dem[k], seq[k + 1], phantom), seq, k + 1)
    BY <2>1, <2>3, <2>4, MergedSound
  <2> QED
    BY <2>3, <2>5
<1> HIDE DEF A
<1>3. n \in A
  BY <1>1, <1>2, InductionOnSet
<1> QED
  BY <1>3 DEF A

Deep(valid, c, phantom) ==
  c \in valid /\ 2 * DistanceTo(Cells \ valid, c, phantom) >= TransitionWidth

NoneAfter(seq, n, m, c) == \A k \in 1..n : k > m => c \notin seq[k].valid

\* From the turn of a source on that is far from its border and that no later one covers.
LEMMA BestIsSeen ==
  ASSUME NEW seq, NEW n \in Nat, \A x \in 1..n : IsRow(seq[x]), NEW phantom \in Nat,
         NEW dem, Turns(dem, seq, n, phantom), NEW c \in Cells, NEW m \in 1..n,
         Deep(seq[m].valid, c, phantom), NoneAfter(seq, n, m, c)
  PROVE  dem[n].value[c] = seq[m].height[c]
<1> DEFINE A == {k \in Nat : m <= k /\ k <= n => dem[k].value[c] = seq[m].height[c]}
<1>1. 0 \in A
  OBVIOUS
<1>2. ASSUME NEW k \in Nat, k \in A PROVE k + 1 \in A
  <2> SUFFICES ASSUME m <= k + 1, k + 1 <= n PROVE dem[k + 1].value[c] = seq[m].height[c]
    OBVIOUS
  <2>1. k \in 0..n /\ k + 1 \in 1..n /\ k + 1 - 1 = k
    OBVIOUS
  <2>2. dem[k] \in Dems /\ dem[k + 1] = Merged(dem[k], seq[k + 1], phantom)
    BY <2>1 DEF Turns
  <2>3. dem[k + 1].value[c] =
          IF c \notin seq[k + 1].valid THEN dem[k].value[c]
          ELSE IF c \in dem[k].mask
               THEN Blended(dem[k].value[c], seq[k + 1].height[c], seq[k + 1].valid, c, phantom)
               ELSE seq[k + 1].height[c]
    BY <2>2 DEF Merged
  <2>4. CASE m = k + 1
    <3> DEFINE b == dem[k].value[c]
               o == seq[m].height[c]
               v == seq[m].valid
    <3>1. b \in Int /\ o \in Int /\ v \in SUBSET Cells
      BY <2>2 DEF Dems, IsRow, Deep
    <3>2. c \in v /\ 2 * DistanceTo(Cells \ v, c, phantom) >= TransitionWidth
      BY DEF Deep
    <3> HIDE DEF b, o, v
    <3>3. Blended(b, o, v, c, phantom) = o
      BY <3>1, <3>2, BlendedType
    <3> QED
      BY <2>3, <2>4, <3>2, <3>3 DEF b, o, v
  <2>5. CASE m < k + 1
    <3>1. c \notin seq[k + 1].valid /\ m <= k /\ k <= n
      BY <2>1, <2>5 DEF NoneAfter
    <3> QED
      BY <1>2, <2>3, <3>1
  <2> QED
    BY <2>4, <2>5
<1> HIDE DEF A
<1>3. n \in A
  BY <1>1, <1>2, InductionOnSet
<1> QED
  BY <1>3 DEF A

\* The merge of any sources, whatever their priorities and their gaps.
LEMMA MergeIsAlwaysSound ==
  ASSUME NEW N \in Nat, NEW rows, DOMAIN rows = 1..N, \A i \in 1..N : IsRow(rows[i]), NEW phantom \in Nat
  PROVE  MergeIsSound(rows, GetDem(rows, phantom))
<1> DEFINE found == Found(rows, Cells)
           seq == Ascending(rows, found)
           n == Cardinality(found)
           out == GetDem(rows, phantom)
<1>1. found \in SUBSET (1..N) /\ found \in SUBSET Nat
  BY DEF Found
<1>2. IsFiniteSet(found)
  BY <1>1, FS_Interval, FS_Subset
<1>3. \A i \in found : rows[i].priority \in Int
  BY <1>1 DEF IsRow
<1>4. \A i \in 1..N : \A c : c \in rows[i].valid => i \in found
  BY DEF Found, IsRow
<1>5. out = FoldLeft(LAMBDA d, row : Merged(d, row, phantom), NoRelief, seq)
  BY DEF GetDem
<1> HIDE DEF found, out, seq
<1>6. n \in Nat
  BY <1>2, FS_CardinalityType
<1>7. DOMAIN seq = 1..n /\ \E pos : Places(pos, seq, rows, found)
  BY <1>1, <1>2, <1>3, AscendingPlaces DEF seq
<1>8. PICK pos : Places(pos, seq, rows, found)
  BY <1>7
<1>9. \A k \in 1..n : IsRow(seq[k])
  BY <1>1, <1>8 DEF Places
<1>10. PICK dem : Turns(dem, seq, n, phantom) /\ out = dem[n]
  <2>1. \E dem : /\ Turns(dem, seq, n, phantom)
                 /\ FoldLeft(LAMBDA d, row : Merged(d, row, phantom), NoRelief, seq) = dem[n]
    <3> HIDE DEF n
    <3> QED
      BY <1>6, <1>7, <1>9, DemTurns, Zenon
  <2> QED
    BY <1>5, <2>1, Zenon
<1>11. Sound(out, seq, n)
  BY <1>6, <1>9, <1>10, DemIsSound
<1>12. out.mask = UNION {rows[i].valid : i \in DOMAIN rows}
  <2>1. out.mask = UNION {seq[k].valid : k \in 1..n}
    BY <1>11 DEF Sound
  <2>2. ASSUME NEW c, c \in out.mask PROVE \E i \in DOMAIN rows : c \in rows[i].valid
    <3>1. PICK k \in 1..n : c \in seq[k].valid
      BY <2>1, <2>2
    <3>2. PICK i \in found : pos[i] = k
      BY <1>8 DEF Places
    <3>3. seq[k] = rows[i]
      BY <1>8, <3>2 DEF Places
    <3> QED
      BY <1>1, <3>1, <3>3
  <2>3. ASSUME NEW i \in DOMAIN rows, NEW c, c \in rows[i].valid PROVE c \in out.mask
    <3>1. i \in found
      BY <1>4, <2>3
    <3>2. pos[i] \in 1..n /\ seq[pos[i]] = rows[i]
      BY <1>8, <3>1 DEF Places
    <3> QED
      BY <2>1, <2>3, <3>2
  <2> QED
    BY <2>2, <2>3
<1>13. ASSUME NEW c \in out.mask
       PROVE  \E i, j \in Sources(rows, c) : rows[i].height[c] <= out.value[c] /\ out.value[c] <= rows[j].height[c]
  <2>1. PICK x \in 1..n, y \in 1..n :
          /\ c \in seq[x].valid /\ c \in seq[y].valid
          /\ seq[x].height[c] <= out.value[c] /\ out.value[c] <= seq[y].height[c]
    BY <1>11 DEF Sound
  <2>2. PICK i \in found : pos[i] = x
    BY <1>8 DEF Places
  <2>3. PICK j \in found : pos[j] = y
    BY <1>8 DEF Places
  <2>4. seq[x] = rows[i] /\ seq[y] = rows[j]
    BY <1>8, <2>2, <2>3 DEF Places
  <2> QED
    BY <1>1, <2>1, <2>4 DEF Sources
<1>15. ASSUME NEW c \in Cells, NEW m \in 1..n, Deep(seq[m].valid, c, phantom), NoneAfter(seq, n, m, c)
       PROVE  dem[n].value[c] = seq[m].height[c]
  <2>1. Turns(dem, seq, n, phantom)
    BY <1>10
  <2> HIDE DEF n
  <2> QED
    BY <1>6, <1>9, <1>15, <2>1, BestIsSeen
<1>14. ASSUME NEW c \in out.mask, NEW i \in Best(rows, c), Inside(rows[i].valid, c)
       PROVE  out.value[c] = rows[i].height[c]
  <2>1. i \in 1..N /\ c \in rows[i].valid /\ i \in found
    BY <1>4 DEF Best, Sources
  <2>2. c \in Cells
    BY <2>1 DEF IsRow
  <2> DEFINE m == pos[i]
  <2>3. m \in 1..n /\ seq[m] = rows[i]
    BY <1>8, <2>1 DEF Places
  <2>4. ASSUME NEW k \in 1..n, k > m PROVE c \notin seq[k].valid
    <3> SUFFICES ASSUME c \in seq[k].valid PROVE FALSE
      OBVIOUS
    <3>1. PICK j \in found : pos[j] = k
      BY <1>8 DEF Places
    <3>2. seq[k] = rows[j]
      BY <1>8, <3>1 DEF Places
    <3>3. j \in Sources(rows, c) /\ j # i
      BY <1>1, <2>3, <2>4, <3>1, <3>2 DEF Sources
    <3>4. rows[j].priority < rows[i].priority
      BY <3>3 DEF Best
    <3>5. rows[i].priority <= rows[j].priority
      BY <1>8, <2>1, <2>4, <3>1 DEF Places
    <3>6. rows[i].priority \in Int /\ rows[j].priority \in Int
      BY <1>3, <2>1
    <3> QED
      BY <3>4, <3>5, <3>6
  <2>5. Deep(seq[m].valid, c, phantom)
    <3>1. Cells \ seq[m].valid # {} /\ 2 * DistanceTo(Cells \ seq[m].valid, c, 0) >= TransitionWidth
      BY <1>14, <2>3 DEF Inside
    <3>2. DistanceTo(Cells \ seq[m].valid, c, 0) = DistanceTo(Cells \ seq[m].valid, c, phantom)
      BY <3>1 DEF DistanceTo
    <3> QED
      BY <2>1, <2>3, <3>1, <3>2 DEF Deep
  <2>6. NoneAfter(seq, n, m, c)
    BY <2>4 DEF NoneAfter
  <2>7. Turns(dem, seq, n, phantom) /\ m \in 1..n /\ c \in Cells
    BY <1>10, <2>2, <2>3
  <2>8. dem[n].value[c] = seq[m].height[c]
    BY <1>15, <2>5, <2>6, <2>7
  <2> QED
    BY <1>10, <2>3, <2>8
<1> QED
  BY <1>12, <1>13, <1>14 DEF MergeIsSound, out
-----------------------------------------------------------------------------
(* The surface of a site (SiteTin).                                        *)

IsFeature(f) == f.layer \in Layers /\ f.low \in Int /\ f.high \in Int /\ f.low <= f.high /\ f.level \in Int

TinPoints == [at : Int, z : [sum : Int, count : {1}], source : Layers]

\* The level of a feature is a whole number, whatever relief is missing.
LEMMA LevelType ==
  ASSUME NEW f, IsFeature(f), NEW raster, IsRaster(raster)
  PROVE  Level(f, raster) \in Int
<1> DEFINE here == {f.low, f.high} \cap DOMAIN raster
           levels == {raster[c] : c \in here}
<1>1. IsFiniteSet({f.low, f.high})
  <2>1. IsFiniteSet({f.low} \cup {f.high})
    BY FS_Singleton, FS_AddElement
  <2>2. {f.low, f.high} = {f.low} \cup {f.high}
    OBVIOUS
  <2> QED
    BY <2>1, <2>2
<1>2. IsFiniteSet(here)
  BY <1>1, FS_Intersection
<1>3. IsFiniteSet(levels)
  BY <1>2, FiniteImage
<1>4. levels \subseteq Int
  BY DEF IsRaster
<1>5. Level(f, raster) = IF f.layer = "road" THEN f.level ELSE IF levels = {} THEN 0 ELSE Min(levels)
  BY DEF Level
<1> HIDE DEF levels
<1>6. levels # {} => Min(levels) \in Int
  BY <1>3, <1>4, MinIs
<1> QED
  BY <1>5, <1>6 DEF IsFeature

\* A feature's points are in its zone, of its layer and level.
LEMMA PointsAre ==
  ASSUME NEW f, IsFeature(f), NEW raster, IsRaster(raster)
  PROVE  /\ PointsOf(f, raster) \in SUBSET TinPoints
         /\ \A q \in PointsOf(f, raster) : /\ q.at \in Zone(f) /\ q.source = f.layer
                                           /\ q.z = [sum |-> Level(f, raster), count |-> 1]
         /\ \A p, q \in PointsOf(f, raster) : p.at = q.at => p = q
<1> DEFINE places == IF f.layer = "road" THEN {f.low, (f.low + f.high) \div 2, f.high}
                     ELSE {f.low, f.high} \cup {c \in Zone(f) : c < f.high /\ (c - f.low) % 2 = 1}
           z == [sum |-> Level(f, raster), count |-> 1]
<1>1. places \subseteq Zone(f) /\ Zone(f) \subseteq Int
  <2> DEFINE m == (f.low + f.high) \div 2
             n == f.low + f.high
  <2>1. f.low \in Int /\ f.high \in Int /\ n \in Int /\ f.low <= f.high
    BY DEF IsFeature
  <2>2. m \in Int /\ m * 2 <= n /\ n < m * 2 + 2
    <3>1. m = n \div 2
      OBVIOUS
    <3> HIDE DEF n, m
    <3>2. n \div 2 \in Int /\ (n \div 2) * 2 <= n /\ n < (n \div 2) * 2 + 2
      BY <2>1, Division
    <3> QED
      BY <3>1, <3>2
  <2> HIDE DEF m
  <2>3. f.low <= m /\ m <= f.high
    BY <2>1, <2>2
  <2> QED
    BY <2>1, <2>2, <2>3 DEF Zone, m
<1>2. PointsOf(f, raster) = [at : places, z : {z}, source : {f.layer}]
  BY DEF PointsOf
<1>3. z \in [sum : Int, count : {1}]
  BY LevelType
<1>4. f.layer \in Layers
  BY DEF IsFeature
<1> HIDE DEF places, z
<1>5. ASSUME NEW q \in PointsOf(f, raster)
      PROVE  /\ q \in TinPoints /\ q.at \in Zone(f) /\ q.source = f.layer /\ q.z = z
             /\ q = [at |-> q.at, z |-> z, source |-> f.layer]
  BY <1>1, <1>2, <1>3, <1>4 DEF TinPoints
<1>6. ASSUME NEW p \in PointsOf(f, raster), NEW q \in PointsOf(f, raster), p.at = q.at PROVE p = q
  BY <1>5, <1>6
<1> QED
  BY <1>5, <1>6 DEF z
-----------------------------------------------------------------------------

OnePerPlace(points) == \A p, q \in points : p.at = q.at => p = q

\* Each of the points is there, or one at its place that matters as much.
Holds(kept, points) == \A q \in points : \E p \in kept : p.at = q.at /\ Priority[p.source] >= Priority[q.source]

\* Every layer has a priority.
LEMMA PriorityType == \A l \in Layers : Priority[l] \in 1..3
BY DEF Priority, Layers

\* A step of _dedupe_points leaves one point at a place, the most important one.
LEMMA WithPointsHolds ==
  ASSUME NEW kept \in SUBSET TinPoints, NEW points \in SUBSET TinPoints,
         OnePerPlace(kept), OnePerPlace(points)
  PROVE  /\ WithPoints(kept, points) \in SUBSET TinPoints
         /\ WithPoints(kept, points) \subseteq kept \cup points
         /\ OnePerPlace(WithPoints(kept, points))
         /\ Holds(WithPoints(kept, points), kept) /\ Holds(WithPoints(kept, points), points)
<1> DEFINE old == {p \in kept : \A q \in points : q.at = p.at => Priority[q.source] <= Priority[p.source]}
           new == {q \in points : \A p \in kept : p.at = q.at => Priority[q.source] > Priority[p.source]}
<1>1. WithPoints(kept, points) = old \cup new
  BY DEF WithPoints
<1>2. \A p \in kept \cup points : Priority[p.source] \in 1..3
  BY PriorityType DEF TinPoints
<1>3. OnePerPlace(old \cup new)
  <2> SUFFICES ASSUME NEW p \in old \cup new, NEW q \in old \cup new, p.at = q.at PROVE p = q
    BY DEF OnePerPlace
  <2>1. CASE p \in old /\ q \in old
    BY <2>1 DEF OnePerPlace
  <2>2. CASE p \in new /\ q \in new
    BY <2>2 DEF OnePerPlace
  <2>3. CASE p \in old /\ q \in new
    <3>1. Priority[q.source] <= Priority[p.source] /\ Priority[q.source] > Priority[p.source]
      BY <2>3
    <3> QED
      BY <1>2, <2>3, <3>1
  <2>4. CASE p \in new /\ q \in old
    <3>1. Priority[p.source] <= Priority[q.source] /\ Priority[p.source] > Priority[q.source]
      BY <2>4
    <3> QED
      BY <1>2, <2>4, <3>1
  <2> QED
    BY <2>1, <2>2, <2>3, <2>4
<1>4. ASSUME NEW p \in kept
      PROVE  \E r \in old \cup new : r.at = p.at /\ Priority[r.source] >= Priority[p.source]
  <2>1. CASE p \in old
    BY <1>2, <2>1
  <2>2. CASE p \notin old
    <3>1. PICK q \in points : q.at = p.at /\ ~ (Priority[q.source] <= Priority[p.source])
      BY <2>2
    <3>2. \A r \in kept : r.at = q.at => r = p
      BY <3>1 DEF OnePerPlace
    <3>3. Priority[q.source] > Priority[p.source]
      BY <1>2, <3>1
    <3>4. q \in new
      BY <3>2, <3>3
    <3> QED
      BY <1>2, <3>1, <3>3, <3>4
  <2> QED
    BY <2>1, <2>2
<1>5. ASSUME NEW q \in points
      PROVE  \E r \in old \cup new : r.at = q.at /\ Priority[r.source] >= Priority[q.source]
  <2>1. CASE q \in new
    BY <1>2, <2>1
  <2>2. CASE q \notin new
    <3>1. PICK p \in kept : p.at = q.at /\ ~ (Priority[q.source] > Priority[p.source])
      BY <2>2
    <3>2. PICK r \in old \cup new : r.at = p.at /\ Priority[r.source] >= Priority[p.source]
      BY <1>4
    <3>3. r \in kept \cup points
      OBVIOUS
    <3>4. Priority[r.source] >= Priority[q.source]
      BY <1>2, <3>1, <3>2, <3>3
    <3> QED
      BY <3>1, <3>2, <3>4
  <2> QED
    BY <2>1, <2>2
<1> HIDE DEF old, new
<1>6. Holds(old \cup new, kept)
  BY <1>4 DEF Holds
<1>7. Holds(old \cup new, points)
  BY <1>5 DEF Holds
<1>8. old \cup new \subseteq kept \cup points
  BY DEF old, new
<1> QED
  BY <1>1, <1>3, <1>6, <1>7, <1>8
-----------------------------------------------------------------------------

\* All of the features are taken, each once.
LEMMA ByLayerTakesAll ==
  ASSUME NEW n \in Nat, NEW features, DOMAIN features = 1..n, \A i \in 1..n : IsFeature(features[i])
  PROVE  /\ DOMAIN ByLayer(features) = 1..n
         /\ \A i \in 1..n : \E j \in 1..n : ByLayer(features)[i] = features[j]
         /\ \A j \in 1..n : \E i \in 1..n : ByLayer(features)[i] = features[j]
<1> DEFINE S == 1..n
           P(i) == Priority[features[i].layer]
           Before(i, j) == \/ P(i) < P(j)
                           \/ features[i].layer = features[j].layer /\ i < j
           Ascends(s) == \A i, j \in S : i < j => Before(s[i], s[j])
           order == CHOOSE s \in [S -> S] : Ascends(s)
           w == [i \in S |-> P(i) * (n + 1) + i]
<1>1. IsFiniteSet(S) /\ Cardinality(S) = n
  <2>1. IsFiniteSet(1..n) /\ Cardinality(1..n) = IF 1 > n THEN 0 ELSE n - 1 + 1
    BY FS_Interval
  <2> QED
    BY <2>1
<1>2. \A i \in S : P(i) \in 1..3
  BY PriorityType DEF IsFeature
<1>3. \A i \in S : w[i] = P(i) * (n + 1) + i /\ w[i] \in Int
  BY <1>2
<1>4. ASSUME NEW i \in S, NEW j \in S, i # j, w[i] <= w[j] PROVE Before(i, j)
  <2> DEFINE a == P(i)
             b == P(j)
  <2>1. a \in 1..3 /\ b \in 1..3
    BY <1>2
  <2>2. a * (n + 1) + i <= b * (n + 1) + j
    BY <1>3, <1>4
  <2>3. a = b => features[i].layer = features[j].layer
    BY DEF IsFeature, Layers, Priority
  <2> HIDE DEF a, b
  <2>4. ~ (a > b)
    <3> SUFFICES ASSUME a > b PROVE FALSE
      OBVIOUS
    <3>1. a * (n + 1) >= (b + 1) * (n + 1)
      BY <2>1
    <3>2. (b + 1) * (n + 1) = b * (n + 1) + n + 1 /\ b * (n + 1) \in Int /\ a * (n + 1) \in Int
      BY <2>1
    <3> QED
      BY <2>2, <3>1, <3>2
  <2>5. a = b => i < j
    BY <1>4, <2>1, <2>2
  <2>6. a < b \/ a = b
    BY <2>1, <2>4
  <2> QED
    BY <2>3, <2>5, <2>6 DEF a, b
<1>5. Whole(w, S)
  BY <1>3 DEF Whole
<1> HIDE DEF w, Before, S
<1>6. PICK t : Sorts(t, w, S)
  BY <1>1, <1>5, SortExists
<1>7. t \in [S -> S] /\ Ascends(t)
  <2>1. 1..Cardinality(S) = S
    BY <1>1 DEF S
  <2>2. t \in [S -> S] /\ \A i, j \in S : i < j => t[i] # t[j] /\ w[t[i]] <= w[t[j]]
    BY <1>6, <2>1 DEF Sorts
  <2> QED
    BY <1>4, <2>2
<1>8. order \in [S -> S] /\ Ascends(order)
  <2> HIDE DEF Ascends
  <2> QED
    BY <1>7
<1>9. ByLayer(features) = [i \in S |-> features[order[i]]]
  BY DEF ByLayer, Before, S
<1>10. \A i, j \in S : order[i] = order[j] => i = j
  <2>1. ASSUME NEW k \in S, Before(k, k) PROVE FALSE
    <3> DEFINE a == P(k)
    <3>1. a < a \/ k < k
      BY <2>1 DEF Before
    <3>2. a \in Int /\ k \in Int
      BY <1>2 DEF S
    <3> HIDE DEF a
    <3> QED
      BY <3>1, <3>2
  <2>2. ASSUME NEW i \in S, NEW j \in S, i < j, order[i] = order[j] PROVE FALSE
    <3>1. Before(order[i], order[i]) /\ order[i] \in S
      BY <1>8, <2>2
    <3> QED
      BY <2>1, <3>1
  <2>3. \A i, j \in S : i # j => i < j \/ j < i
    BY DEF S
  <2> QED
    BY <2>2, <2>3
<1> HIDE DEF order
<1>11. order \in Injection(S, S)
  BY <1>8, <1>10 DEF Injection, IsInjective
<1>12. order \in Surjection(S, S)
  BY <1>1, <1>11, FS_Injection
<1>13. \A j \in S : \E i \in S : order[i] = j
  BY <1>12 DEF Surjection
<1>14. DOMAIN ByLayer(features) = S /\ \A i \in S : ByLayer(features)[i] = features[order[i]]
  BY <1>9
<1> QED
  BY <1>8, <1>13, <1>14, SMTT(30) DEF S

\* What is kept after each feature.
Keeps(kept, seq, n, raster) ==
  /\ kept \in [0..n -> SUBSET TinPoints]
  /\ kept[0] = {}
  /\ \A k \in 1..n : kept[k] = WithPoints(kept[k - 1], PointsOf(seq[k], raster))

AllPoints(seq, raster) == FoldLeft(LAMBDA old, g : WithPoints(old, PointsOf(g, raster)), {}, seq)

\* The features are put into the surface one after the other.
LEMMA FoldKeeps ==
  ASSUME NEW n \in Nat, NEW seq, DOMAIN seq = 1..n, \A k \in 1..n : IsFeature(seq[k]),
         NEW raster, IsRaster(raster)
  PROVE  \E run : /\ Keeps(run, seq, n, raster)
                  /\ AllPoints(seq, raster) = run[n]
<1> DEFINE S == 1..n
           V == SUBSET TinPoints
           none == {}
           step == [k \in S |-> [v \in V |-> WithPoints(v, PointsOf(seq[k], raster))]]
           Folds(f) == f = [s \in SUBSET S |-> IF s = {} THEN none ELSE WithPoints(f[s \ {Max(s)}], PointsOf(seq[Max(s)], raster))]
           f == CHOOSE f : Folds(f)
<1>0. none \in V
  OBVIOUS
<1>1. \A k \in S, v \in V : WithPoints(v, PointsOf(seq[k], raster)) \in V
  <2> SUFFICES ASSUME NEW k \in S, NEW v \in V PROVE WithPoints(v, PointsOf(seq[k], raster)) \in V
    OBVIOUS
  <2>1. PointsOf(seq[k], raster) \in V
    BY PointsAre
  <2> QED
    BY <2>1 DEF WithPoints
<1>2. \A k \in S, v \in V : step[k][v] = WithPoints(v, PointsOf(seq[k], raster))
  OBVIOUS
<1> HIDE DEF V, none
<1>3. StaysIn(step, S, V)
  BY <1>1, <1>2 DEF StaysIn
<1>4. Picks(LastOf(n), S) /\ IsFiniteSet(S) /\ \A s \in SUBSET S : LastOf(n)[s] = Max(s)
  BY LastIn DEF LastOf
<1> HIDE DEF step
<1>5. \E g : Folds(g)
  <2>1. PICK g \in [SUBSET S -> V] : Iterates(g, none, LastOf(n), step, S)
    BY <1>0, <1>3, <1>4, SetRecursion
  <2>2. ASSUME NEW s \in SUBSET S
        PROVE  g[s] = IF s = {} THEN none ELSE WithPoints(g[s \ {Max(s)}], PointsOf(seq[Max(s)], raster))
    <3>1. s # {} => Max(s) \in S /\ g[s \ {Max(s)}] \in V
      BY <1>4, <2>1 DEF Picks
    <3>2. g[s] = IF s = {} THEN none ELSE step[Max(s)][g[s \ {Max(s)}]]
      BY <1>4, <2>1 DEF Iterates
    <3> QED
      BY <1>2, <3>1, <3>2
  <2> QED
    BY <2>1, <2>2
<1>6. Folds(f)
  BY <1>5
<1>7. AllPoints(seq, raster) = f[S]
  BY DEF AllPoints, FoldLeft, MapThenFoldSet, none
<1> HIDE DEF f
<1>8. \A s \in SUBSET S : f[s] = IF s = {} THEN none ELSE WithPoints(f[s \ {Max(s)}], PointsOf(seq[Max(s)], raster))
  <2> DEFINE g == [s \in SUBSET S |-> IF s = {} THEN none ELSE WithPoints(f[s \ {Max(s)}], PointsOf(seq[Max(s)], raster))]
  <2>1. f = g
    BY <1>6
  <2>2. \A s \in SUBSET S : g[s] = IF s = {} THEN none ELSE WithPoints(f[s \ {Max(s)}], PointsOf(seq[Max(s)], raster))
    OBVIOUS
  <2> HIDE DEF g
  <2> QED
    BY <2>1, <2>2
<1> DEFINE kept == [k \in 0..n |-> f[1..k]]
<1>9. kept[0] = none
  <2>1. 1..0 = {} /\ {} \in SUBSET S /\ 0 \in 0..n
    OBVIOUS
  <2> QED
    BY <1>8, <2>1
<1>10. \A k \in S : kept[k] = WithPoints(kept[k - 1], PointsOf(seq[k], raster))
  <2> SUFFICES ASSUME NEW k \in S PROVE kept[k] = WithPoints(kept[k - 1], PointsOf(seq[k], raster))
    OBVIOUS
  <2>1. 1..k \in SUBSET S /\ k \in 1..k /\ k \in 0..n /\ k - 1 \in 0..n
    OBVIOUS
  <2>2. Max(1..k) = k /\ (1..k) \ {k} = 1..(k - 1)
    BY <1>4, <2>1, LastIn
  <2>3. f[1..k] = WithPoints(f[(1..k) \ {Max(1..k)}], PointsOf(seq[Max(1..k)], raster))
    BY <1>8, <2>1
  <2> QED
    BY <2>1, <2>2, <2>3
<1>11. kept \in [0..n -> V] /\ kept[n] = f[S]
  <2> DEFINE A == {k \in Nat : k <= n => kept[k] \in V}
  <2>1. kept[n] = f[S] /\ DOMAIN kept = 0..n /\ kept = [k \in 0..n |-> kept[k]]
    OBVIOUS
  <2> HIDE DEF kept
  <2>2. 0 \in A
    BY <1>0, <1>9
  <2>3. ASSUME NEW k \in Nat, k \in A PROVE k + 1 \in A
    <3> SUFFICES ASSUME k + 1 <= n PROVE kept[k + 1] \in V
      OBVIOUS
    <3>1. k + 1 \in S /\ kept[k] \in V /\ k + 1 - 1 = k
      BY <2>3
    <3>2. kept[k + 1] = WithPoints(kept[k], PointsOf(seq[k + 1], raster))
      BY <1>10, <3>1
    <3> QED
      BY <1>1, <3>1, <3>2
  <2> HIDE DEF A
  <2>4. \A k \in Nat : k \in A
    BY <2>2, <2>3, InductionOnSet
  <2>5. \A k \in 0..n : kept[k] \in V
    BY <2>4 DEF A
  <2> QED
    BY <2>1, <2>5
<1> HIDE DEF kept
<1> QED
  BY <1>7, <1>9, <1>10, <1>11 DEF Keeps, V, none

\* After all of the features: one point at a place, the most important of those that any of
\* them put there.
LEMMA PriorityPointsAre ==
  ASSUME NEW n \in Nat, NEW features, DOMAIN features = 1..n, \A i \in 1..n : IsFeature(features[i]),
         NEW raster, IsRaster(raster)
  PROVE  LET points == PriorityPoints(features, raster)
         IN  /\ points \in SUBSET TinPoints
             /\ OnePerPlace(points)
             /\ \A i \in 1..n : Holds(points, PointsOf(features[i], raster))
             /\ \A p \in points : \E i \in 1..n : p \in PointsOf(features[i], raster)
<1> DEFINE seq == ByLayer(features)
           points == PriorityPoints(features, raster)
<1>1. /\ DOMAIN seq = 1..n
      /\ \A i \in 1..n : \E j \in 1..n : seq[i] = features[j]
      /\ \A j \in 1..n : \E i \in 1..n : seq[i] = features[j]
  BY ByLayerTakesAll
<1>2. points = AllPoints(seq, raster)
  BY DEF PriorityPoints, AllPoints
<1> HIDE DEF seq, points
<1>3. \A k \in 1..n : IsFeature(seq[k])
  BY <1>1
<1>4. PICK kept : Keeps(kept, seq, n, raster) /\ points = kept[n]
  <2>1. DOMAIN seq = 1..n
    BY <1>1
  <2>2. \E run : Keeps(run, seq, n, raster) /\ AllPoints(seq, raster) = run[n]
    BY <1>3, <2>1, FoldKeeps
  <2> QED
    BY <1>2, <2>2
<1> DEFINE Put(k) == PointsOf(seq[k], raster)
           Right(k) == /\ OnePerPlace(kept[k])
                       /\ \A j \in 1..k : Holds(kept[k], Put(j))
                       /\ \A p \in kept[k] : \E j \in 1..k : p \in Put(j)
           A == {k \in Nat : k <= n => Right(k)}
<1>5. 0 \in A
  BY <1>4 DEF Keeps, OnePerPlace
<1>6. ASSUME NEW k \in Nat, k \in A PROVE k + 1 \in A
  <2> SUFFICES ASSUME k + 1 <= n PROVE Right(k + 1)
    OBVIOUS
  <2> DEFINE m == k + 1
             before == kept[k]
             after == kept[m]
             put == Put(m)
  <2>1. m \in 1..n /\ k \in 0..n /\ m - 1 = k
    OBVIOUS
  <2>2. before \in SUBSET TinPoints /\ after = WithPoints(before, put)
    BY <1>4, <2>1 DEF Keeps
  <2>3. put \in SUBSET TinPoints /\ OnePerPlace(put)
    BY <1>3, <2>1, PointsAre DEF OnePerPlace
  <2>4. Right(k)
    BY <1>6
  <2>5. /\ after \in SUBSET TinPoints /\ after \subseteq before \cup put /\ OnePerPlace(after)
        /\ Holds(after, before) /\ Holds(after, put)
    BY <2>2, <2>3, <2>4, WithPointsHolds
  <2>6. ASSUME NEW j \in 1..m PROVE Holds(after, Put(j))
    <3>1. CASE j = m
      BY <2>5, <3>1
    <3>2. CASE j # m
      <4>1. j \in 1..k /\ j \in 1..n
        BY <2>1, <3>2
      <4>2. Holds(before, Put(j)) /\ Put(j) \in SUBSET TinPoints
        BY <1>3, <2>4, <4>1, PointsAre
      <4> HIDE DEF before, after, Put, m
      <4>3. ASSUME NEW q \in Put(j)
            PROVE  \E r \in after : r.at = q.at /\ Priority[r.source] >= Priority[q.source]
        <5>1. PICK p \in before : p.at = q.at /\ Priority[p.source] >= Priority[q.source]
          BY <4>2 DEF Holds
        <5>2. PICK r \in after : r.at = p.at /\ Priority[r.source] >= Priority[p.source]
          BY <2>5 DEF Holds
        <5>3. Priority[p.source] \in 1..3 /\ Priority[q.source] \in 1..3 /\ Priority[r.source] \in 1..3
          BY <2>2, <2>5, <4>2, PriorityType DEF TinPoints
        <5> QED
          BY <5>1, <5>2, <5>3
      <4> QED
        BY <4>3 DEF Holds
    <3> QED
      BY <3>1, <3>2
  <2>7. ASSUME NEW p \in after PROVE \E j \in 1..m : p \in Put(j)
    <3>1. CASE p \in put
      <4>1. m \in 1..m
        OBVIOUS
      <4> QED
        BY <3>1, <4>1
    <3>2. CASE p \in before
      <4>1. PICK j \in 1..k : p \in Put(j)
        BY <2>4, <3>2
      <4>2. j \in 1..m
        OBVIOUS
      <4> QED
        BY <4>1, <4>2
    <3> QED
      BY <2>5, <3>1, <3>2
  <2> QED
    BY <2>5, <2>6, <2>7
<1> HIDE DEF A
<1>7. \A k \in Nat : k \in A
  BY <1>5, <1>6, InductionOnSet
<1>8. Right(n)
  BY <1>7 DEF A
<1>9. points \in SUBSET TinPoints
  BY <1>4 DEF Keeps
<1>10. \A i \in 1..n : Holds(points, PointsOf(features[i], raster))
  BY <1>1, <1>4, <1>8
<1>11. \A p \in points : \E i \in 1..n : p \in PointsOf(features[i], raster)
  BY <1>1, <1>4, <1>8
<1> QED
  BY <1>4, <1>8, <1>9, <1>10, <1>11 DEF points
-----------------------------------------------------------------------------

\* A height that is asked for comes from the closest vertices on both sides.
LEMMA ClosestIs ==
  ASSUME NEW S \in SUBSET TinPoints, S # {}, NEW x \in Int
  PROVE  (CHOOSE v \in S : \A w \in S : Max({v.at - x, x - v.at}) <= Max({w.at - x, x - w.at})) \in S
<1> DEFINE away(v) == Max({v.at - x, x - v.at})
           T == {away(v) : v \in S}
<1>1. ASSUME NEW v \in S PROVE away(v) \in Nat
  <2> DEFINE a == v.at - x
             b == x - v.at
  <2>1. a \in Int /\ b \in Int /\ a = -b
    BY DEF TinPoints
  <2> HIDE DEF a, b
  <2>2. \E y \in {a, b} : \A z \in {a, b} : y >= z
    BY <2>1
  <2>3. Max({a, b}) \in {a, b} /\ \A z \in {a, b} : Max({a, b}) >= z
    BY <2>2 DEF Max
  <2>4. Max({a, b}) \in Nat
    BY <2>1, <2>3
  <2> QED
    BY <2>4 DEF a, b
<1>2. PICK t \in T : \A u \in T : u >= t
  <2>1. T \subseteq Nat /\ T # {}
    BY <1>1
  <2> HIDE DEF T
  <2> QED
    BY <2>1, LeastOne
<1>3. PICK v \in S : \A w \in S : away(v) <= away(w)
  <2>1. PICK v \in S : t = away(v)
    OBVIOUS
  <2>2. ASSUME NEW w \in S PROVE away(v) <= away(w)
    <3>1. away(w) \in T /\ away(w) \in Nat /\ away(v) \in Nat
      BY <1>1
    <3> HIDE DEF away, T
    <3> QED
      BY <1>2, <2>1, <3>1
  <2> QED
    BY <2>2
<1> HIDE DEF away
<1>4. (CHOOSE u \in S : \A w \in S : away(u) <= away(w)) \in S
  BY <1>3
<1> QED
  BY <1>4 DEF away

\* So it is between those of two vertices.
LEMMA HeightIsBetween ==
  ASSUME NEW points \in SUBSET TinPoints, points # {}, NEW x \in Int
  PROVE  LET z == InterpolateZ(points, x)
         IN  \E p, q \in points : p.z.sum * z.count <= z.sum /\ z.sum <= q.z.sum * z.count
<1> DEFINE left == {v \in points : v.at <= x}
           right == {v \in points : v.at >= x}
           Closest(S) == CHOOSE v \in S : \A w \in S : Max({v.at - x, x - v.at}) <= Max({w.at - x, x - w.at})
           c == Closest(points)
           l == Closest(left)
           r == Closest(right)
           z == InterpolateZ(points, x)
<1>1. z = IF left = {} \/ right = {} THEN c.z
          ELSE IF l.at = r.at THEN l.z
          ELSE [sum |-> l.z.sum * r.z.count * (r.at - x) + r.z.sum * l.z.count * (x - l.at),
                count |-> l.z.count * r.z.count * (r.at - l.at)]
  BY DEF InterpolateZ
<1>2. c \in points
  BY ClosestIs
<1>3. left # {} => l \in left
  <2>1. left \in SUBSET TinPoints
    OBVIOUS
  <2> HIDE DEF left
  <2> QED
    BY <2>1, ClosestIs
<1>4. right # {} => r \in right
  <2>1. right \in SUBSET TinPoints
    OBVIOUS
  <2> HIDE DEF right
  <2> QED
    BY <2>1, ClosestIs
<1>5. \A v \in points : v.at \in Int /\ v.z.sum \in Int /\ v.z.count = 1
  BY DEF TinPoints
<1> HIDE DEF z, c, l, r
<1> SUFFICES \E p, q \in points : p.z.sum * z.count <= z.sum /\ z.sum <= q.z.sum * z.count
  BY DEF z
<1>6. ASSUME NEW v \in points, z = v.z
      PROVE  \E p, q \in points : p.z.sum * z.count <= z.sum /\ z.sum <= q.z.sum * z.count
  <2>1. v.z.sum * z.count <= z.sum /\ z.sum <= v.z.sum * z.count
    BY <1>5, <1>6
  <2> QED
    BY <2>1
<1>7. CASE left = {} \/ right = {}
  BY <1>1, <1>2, <1>6, <1>7
<1>8. CASE left # {} /\ right # {} /\ l.at = r.at
  BY <1>1, <1>3, <1>6, <1>8
<1>9. CASE left # {} /\ right # {} /\ l.at # r.at
  <2> DEFINE s == l.z.sum
             t == r.z.sum
             a == r.at - x
             b == x - l.at
  <2>1. l \in points /\ r \in points /\ l.at <= x /\ x <= r.at
    BY <1>3, <1>4, <1>9
  <2>2. s \in Int /\ t \in Int /\ a \in Nat /\ b \in Nat /\ r.at - l.at = a + b
    BY <1>5, <2>1
  <2>3. z = [sum |-> s * 1 * a + t * 1 * b, count |-> 1 * 1 * (a + b)]
    BY <1>1, <1>5, <1>9, <2>1, <2>2
  <2> HIDE DEF s, t, a, b
  <2>4. z.sum = s * a + t * b /\ z.count = a + b
    BY <2>2, <2>3
  <2>5. s * (a + b) = s * a + s * b /\ t * (a + b) = t * a + t * b
    BY <2>2
  <2>6. CASE s <= t
    <3>1. s * b <= t * b /\ s * a <= t * a
      BY <2>2, <2>6
    <3>2. s * (a + b) <= z.sum /\ z.sum <= t * (a + b)
      BY <2>2, <2>4, <2>5, <3>1
    <3> QED
      BY <2>1, <2>4, <3>2 DEF s, t
  <2>7. CASE t <= s
    <3>1. t * b <= s * b /\ t * a <= s * a
      BY <2>2, <2>7
    <3>2. t * (a + b) <= z.sum /\ z.sum <= s * (a + b)
      BY <2>2, <2>4, <2>5, <3>1
    <3> QED
      BY <2>1, <2>4, <3>2 DEF s, t
  <2> QED
    BY <2>2, <2>6, <2>7
<1> QED
  BY <1>7, <1>8, <1>9

\* The features are part of one surface, whatever they are and in whatever order.
LEMMA TinIsAlwaysConsistent ==
  ASSUME NEW features, AreFeatures(features), NEW raster, IsRaster(raster)
  PROVE  TinIsConsistent(features, raster)
<1> DEFINE n == Len(features)
           points == PriorityPoints(features, raster)
           background == BackgroundPoints(features, raster)
           all == points \cup background
           Put(i) == PointsOf(features[i], raster)
<1>1. n \in Nat /\ DOMAIN features = 1..n
  BY DEF AreFeatures
<1>2. \A i \in 1..n : IsFeature(features[i])
  <2>1. \A i \in 1..n : features[i] \in [layer : Layers, low : Int, high : Int, level : Int]
    BY <1>1, ElementOfSeq DEF AreFeatures
  <2> QED
    BY <1>1, <2>1 DEF AreFeatures, IsFeature
<1> HIDE DEF n
<1>3. /\ points \in SUBSET TinPoints
      /\ OnePerPlace(points)
      /\ \A i \in 1..n : Holds(points, Put(i))
      /\ \A p \in points : \E i \in 1..n : p \in Put(i)
  BY <1>1, <1>2, PriorityPointsAre
<1>4. ASSUME NEW i \in 1..n
      PROVE  /\ \A q \in Put(i) : q.at \in Zone(features[i]) /\ q.source = features[i].layer
             /\ \A p, q \in Put(i) : p.z = q.z
  <2>1. IsFeature(features[i])
    BY <1>2
  <2> DEFINE f == features[i]
             z == [sum |-> Level(f, raster), count |-> 1]
  <2> HIDE DEF f, z
  <2>2. \A q \in PointsOf(f, raster) : q.at \in Zone(f) /\ q.source = f.layer /\ q.z = z
    <3>1. IsFeature(f)
      BY <2>1 DEF f
    <3> QED
      BY <3>1, PointsAre, Zenon DEF z
  <2>3. \A p, q \in PointsOf(f, raster) : p.z = q.z
    BY <2>2, Zenon
  <2> QED
    BY <2>2, <2>3, Zenon DEF f
<1>5. \A i \in 1..n : features[i].layer # "terrain"
  BY <1>2 DEF IsFeature, Layers
<1>6. ASSUME NEW p \in background
      PROVE  /\ p = [at |-> p.at, z |-> Smoothed(raster, p.at), source |-> "terrain"]
             /\ \A i \in 1..n : p.at \notin Zone(features[i])
  BY <1>1 DEF BackgroundPoints, ExcludedZones
<1> HIDE DEF points, background, Put
<1>7. ASSUME NEW p \in points PROVE \E i \in 1..n : p \in Put(i) /\ p.at \in Zone(features[i]) /\ p.source # "terrain"
  <2>1. PICK i \in 1..n : p \in Put(i)
    BY <1>3
  <2> QED
    BY <1>4, <1>5, <2>1
<1>8. \A p, q \in all : p.at = q.at => p = q
  <2> SUFFICES ASSUME NEW p \in all, NEW q \in all, p.at = q.at PROVE p = q
    OBVIOUS
  <2>1. CASE p \in points /\ q \in points
    BY <1>3, <2>1 DEF OnePerPlace
  <2>2. CASE p \in background /\ q \in background
    BY <1>6, <2>2
  <2>3. CASE p \in points /\ q \in background
    BY <1>6, <1>7, <2>3
  <2>4. CASE p \in background /\ q \in points
    BY <1>6, <1>7, <2>4
  <2> QED
    BY <2>1, <2>2, <2>3, <2>4
<1>9. \A i \in 1..n : \A q \in Put(i) :
        \E p \in points : p.at = q.at /\ Priority[p.source] >= Priority[q.source]
  BY <1>3 DEF Holds
<1>10. \A i \in 1..n : \A p \in all : p.at \in Zone(features[i]) => p.source # "terrain"
  BY <1>6, <1>7
<1>11. ASSUME NEW i \in 1..n, \A j \in (1..n) \ {i} : Zone(features[j]) \cap Zone(features[i]) = {}
       PROVE  \A p, q \in all : {p.at, q.at} \subseteq Zone(features[i]) => p.z = q.z
  <2>1. ASSUME NEW p \in all, p.at \in Zone(features[i]) PROVE p \in Put(i)
    <3>1. p \in points
      BY <1>6, <2>1
    <3>2. PICK j \in 1..n : p \in Put(j) /\ p.at \in Zone(features[j])
      BY <1>7, <3>1
    <3> QED
      BY <1>11, <2>1, <3>2
  <2> QED
    BY <1>4, <2>1
<1>12. points # {} => \A x \in -Radius - 2 .. Radius + 2 :
         LET z == InterpolateZ(points, x)
         IN  \E p, q \in points : p.z.sum * z.count <= z.sum /\ z.sum <= q.z.sum * z.count
  <2> SUFFICES ASSUME points # {}, NEW x \in -Radius - 2 .. Radius + 2
               PROVE  LET z == InterpolateZ(points, x)
                      IN  \E p, q \in points : p.z.sum * z.count <= z.sum /\ z.sum <= q.z.sum * z.count
    OBVIOUS
  <2>1. x \in Int
    BY TinAssumption
  <2> QED
    BY <1>3, <2>1, HeightIsBetween
<1> QED
  BY <1>1, <1>8, <1>9, <1>10, <1>11, <1>12 DEF TinIsConsistent, points, background, Put
-----------------------------------------------------------------------------

\* When places opposite of c have the mean v, all of them together have it.
Opposite(w, S, c, v) == \A d \in S : 2 * c - d \in S /\ w[d] \in Int /\ w[d] + w[2 * c - d] = 2 * v

\* Places opposite of c are taken together, from the middle outwards.
LEMMA SumIsCentral ==
  ASSUME NEW c \in Int, NEW K \in Nat, NEW S \in SUBSET (c - K .. c + K), NEW w, NEW v \in Int,
         Opposite(w, S, c, v)
  PROVE  SumOf(w, S) = v * Cardinality(S)
<1> DEFINE T(k) == {d \in S : c - k <= d /\ d <= c + k}
           A == {k \in Nat : SumOf(w, T(k)) = v * Cardinality(T(k))}
<1>1. IsFiniteSet(S)
  <2>1. c - K \in Int /\ c + K \in Int
    OBVIOUS
  <2>2. IsFiniteSet(c - K .. c + K)
    BY <2>1, FS_Interval
  <2> QED
    BY <2>2, FS_Subset
<1>2. Whole(w, S) /\ \A d \in S : d \in Int /\ c - K <= d /\ d <= c + K
  BY DEF Opposite, Whole
<1>3. \A R \in SUBSET S : IsFiniteSet(R) /\ Whole(w, R) /\ Cardinality(R) \in Nat /\ SumOf(w, R) \in Int
  <2> SUFFICES ASSUME NEW R \in SUBSET S PROVE IsFiniteSet(R) /\ Whole(w, R) /\ Cardinality(R) \in Nat /\ SumOf(w, R) \in Int
    OBVIOUS
  <2>1. IsFiniteSet(R) /\ Whole(w, R)
    BY <1>1, <1>2, FS_Subset DEF Whole
  <2> QED
    BY <2>1, FS_CardinalityType, SumTakes
<1>4. \A R \in SUBSET S : \A x \in R : /\ SumOf(w, R) = w[x] + SumOf(w, R \ {x})
                                       /\ Cardinality(R) = Cardinality(R \ {x}) + 1
  <2> SUFFICES ASSUME NEW R \in SUBSET S, NEW x \in R
               PROVE  /\ SumOf(w, R) = w[x] + SumOf(w, R \ {x})
                      /\ Cardinality(R) = Cardinality(R \ {x}) + 1
    OBVIOUS
  <2>1. IsFiniteSet(R) /\ Whole(w, R) /\ Cardinality(R) \in Nat
    BY <1>3
  <2>2. Cardinality(R \ {x}) = Cardinality(R) - 1
    BY <2>1, FS_RemoveElement
  <2>3. SumOf(w, R) = w[x] + SumOf(w, R \ {x})
    BY <2>1, SumTakes
  <2> QED
    BY <2>1, <2>2, <2>3
<1>5. SumOf(w, {}) = 0 /\ Cardinality({}) = 0
  BY SumEmpty, FS_EmptySet
<1>6. 0 \in A
  <2>1. CASE c \in S
    <3>1. T(0) = {c} /\ {c} \in SUBSET S /\ {c} \ {c} = {}
      <4>1. \A d \in S : c - 0 <= d /\ d <= c + 0 <=> d = c
        BY <1>2
      <4> QED
        BY <2>1, <4>1
    <3>2. SumOf(w, {c}) = w[c] + SumOf(w, {}) /\ Cardinality({c}) = Cardinality({}) + 1
      BY <1>4, <3>1
    <3>3. w[c] = v
      <4>1. w[c] \in Int /\ w[c] + w[2 * c - c] = 2 * v /\ 2 * c - c = c
        BY <2>1 DEF Opposite
      <4> DEFINE y == w[c]
      <4>2. y \in Int /\ y + y = 2 * v
        BY <4>1
      <4> HIDE DEF y
      <4>3. y = v
        BY <4>2
      <4> QED
        BY <4>3 DEF y
    <3> QED
      BY <1>5, <3>1, <3>2, <3>3
  <2>2. CASE c \notin S
    <3>1. T(0) = {}
      <4>1. \A d \in S : c - 0 <= d /\ d <= c + 0 => d = c
        BY <1>2
      <4> QED
        BY <2>2, <4>1
    <3> QED
      BY <1>5, <3>1
  <2> QED
    BY <2>1, <2>2
<1>7. ASSUME NEW k \in Nat, k \in A PROVE k + 1 \in A
  <2> DEFINE hi == c + k + 1
             lo == c - k - 1
             M == T(k + 1)
  <2>1. hi \in Int /\ lo \in Int /\ hi # lo /\ lo = 2 * c - hi /\ hi = 2 * c - lo
    OBVIOUS
  <2>2. hi \in S <=> lo \in S
    BY <2>1 DEF Opposite
  <2>3. CASE hi \in S
    <3>1. hi \in M /\ lo \in M /\ M \in SUBSET S /\ (M \ {hi}) \ {lo} = T(k)
      <4>1. hi \in M /\ lo \in M /\ M \in SUBSET S
        BY <2>1, <2>2, <2>3
      <4>2. \A d \in S : c - (k + 1) <= d /\ d <= c + (k + 1) <=> (c - k <= d /\ d <= c + k) \/ d = hi \/ d = lo
        BY <1>2
      <4>3. ~ (hi <= c + k) /\ ~ (c - k <= lo)
        OBVIOUS
      <4> HIDE DEF hi, lo
      <4> QED
        BY <4>1, <4>2, <4>3
    <3>2. w[hi] + w[lo] = 2 * v /\ w[hi] \in Int /\ w[lo] \in Int
      BY <2>1, <2>2, <2>3 DEF Opposite
    <3> DEFINE R == M \ {hi}
    <3>3. R \in SUBSET S /\ lo \in R /\ R \ {lo} = T(k) /\ T(k) \in SUBSET S
      BY <2>1, <3>1
    <3> HIDE DEF R, M, T, hi, lo
    <3>4. SumOf(w, M) = w[hi] + SumOf(w, R) /\ Cardinality(M) = Cardinality(R) + 1
      BY <1>4, <3>1 DEF R
    <3>5. SumOf(w, R) = w[lo] + SumOf(w, T(k)) /\ Cardinality(R) = Cardinality(T(k)) + 1
      BY <1>4, <3>3
    <3>6. SumOf(w, T(k)) = v * Cardinality(T(k)) /\ Cardinality(T(k)) \in Nat
      BY <1>3, <1>7, <3>3
    <3> DEFINE s == SumOf(w, M)
               n == Cardinality(T(k))
    <3>7. s = w[hi] + (w[lo] + v * n) /\ Cardinality(M) = n + 1 + 1 /\ n \in Nat
      BY <3>4, <3>5, <3>6
    <3> HIDE DEF s, n
    <3>8. s = v * (n + 1 + 1)
      <4>1. v * (n + 1 + 1) = v * n + 2 * v /\ v * n \in Int
        BY <3>7
      <4> QED
        BY <3>2, <3>7, <4>1
    <3>9. SumOf(w, M) = v * Cardinality(M)
      BY <3>7, <3>8 DEF s
    <3> QED
      BY <3>9 DEF M
  <2>4. CASE hi \notin S
    <3>1. M = T(k)
      <4>1. \A d \in S : c - (k + 1) <= d /\ d <= c + (k + 1) <=> (c - k <= d /\ d <= c + k) \/ d = hi \/ d = lo
        BY <1>2
      <4> HIDE DEF hi, lo
      <4> QED
        BY <2>2, <2>4, <4>1
    <3> HIDE DEF M, T
    <3>2. SumOf(w, M) = v * Cardinality(M)
      BY <1>7, <3>1
    <3> QED
      BY <3>2 DEF M
  <2> QED
    BY <2>3, <2>4
<1>8. T(K) = S
  BY <1>2
<1> HIDE DEF A
<1>9. K \in A
  BY <1>6, <1>7, InductionOnSet
<1> QED
  BY <1>8, <1>9 DEF A
-----------------------------------------------------------------------------

\* The window of a place is symmetric, and of a raster with a slope so is what it sees.
LEMMA SmoothedKeepsSlope ==
  ASSUME NEW slope \in Int, NEW c \in -Radius..Radius, c % 2 = 0
  PROVE  LET whole == [d \in -Radius - 2 * Pad .. Radius + 2 * Pad |-> slope * d]
         IN  Smoothed(whole, c).sum = slope * c * Smoothed(whole, c).count
<1> DEFINE whole == [d \in -Radius - 2 * Pad .. Radius + 2 * Pad |-> slope * d]
           seen == {d \in Window(c) : d % 2 = 0 /\ d \in DOMAIN whole}
<1>1. Pad \in Nat /\ Radius \in Nat /\ c \in Int
  BY TinAssumption DEF Pad
<1> DEFINE K == 2 * Pad
<1>2. K \in Nat /\ Window(c) = c - K .. c + K /\ seen \in SUBSET (c - K .. c + K)
  BY <1>1 DEF Window
<1>3. \A d \in c - K .. c + K : d \in DOMAIN whole /\ whole[d] = slope * d /\ d \in Int
  BY <1>1, <1>2
<1>4. seen = {d \in c - K .. c + K : d % 2 = 0}
  BY <1>2, <1>3
<1>5. Smoothed(whole, c) = [sum |-> SumOf(whole, seen), count |-> Cardinality(seen)]
  BY DEF Smoothed
<1> HIDE DEF K, whole, seen
<1>6. ASSUME NEW d \in seen
      PROVE  2 * c - d \in seen /\ whole[d] \in Int /\ whole[d] + whole[2 * c - d] = 2 * (slope * c)
  <2>1. d \in Int /\ d \in c - K .. c + K /\ d % 2 = 0
    BY <1>3, <1>4
  <2>2. 2 * c - d \in c - K .. c + K
    BY <1>1, <1>2, <2>1
  <2>3. (2 * c - d) % 2 = 0
    BY <1>1, <2>1
  <2>4. whole[d] = slope * d /\ whole[2 * c - d] = slope * (2 * c - d)
    BY <1>3, <2>1, <2>2
  <2>5. slope * (2 * c - d) = 2 * (slope * c) - slope * d /\ slope * d \in Int /\ slope * c \in Int
    BY <1>1, <2>1
  <2> QED
    BY <1>4, <2>2, <2>3, <2>4, <2>5
<1>7. Opposite(whole, seen, c, slope * c)
  BY <1>6 DEF Opposite
<1>8. slope * c \in Int
  BY <1>1
<1>9. SumOf(whole, seen) = (slope * c) * Cardinality(seen)
  BY <1>1, <1>2, <1>7, <1>8, SumIsCentral, ZenonT(30)
<1>10. Smoothed(whole, c).sum = slope * c * Smoothed(whole, c).count
  BY <1>5, <1>9
<1> QED
  BY <1>10 DEF whole
-----------------------------------------------------------------------------

\* A mean of heights is not higher or lower than all of them.
LEMMA SmoothedIsBetween ==
  ASSUME NEW raster, IsRaster(raster), NEW c \in Int, Smoothed(raster, c).count > 0
  PROVE  LET mean == Smoothed(raster, c)
         IN  \E d, e \in DOMAIN raster : /\ raster[d] * mean.count <= mean.sum
                                         /\ mean.sum <= raster[e] * mean.count
<1> DEFINE seen == {d \in Window(c) : d % 2 = 0 /\ d \in DOMAIN raster}
           levels == {raster[d] : d \in seen}
           n == Cardinality(seen)
           s == SumOf(raster, seen)
<1>1. Smoothed(raster, c) = [sum |-> s, count |-> n]
  BY DEF Smoothed
<1>2. IsFiniteSet(seen) /\ seen \subseteq DOMAIN raster
  <2>1. Pad \in Nat
    BY TinAssumption DEF Pad
  <2>2. c - 2 * Pad \in Int /\ c + 2 * Pad \in Int
    BY <2>1
  <2>3. IsFiniteSet(Window(c))
    BY <2>2, FS_Interval DEF Window
  <2> QED
    BY <2>3, FS_Subset
<1> HIDE DEF seen
<1>3. n \in Nat /\ n > 0 /\ seen # {}
  <2>1. n \in Nat
    BY <1>2, FS_CardinalityType
  <2>2. n > 0
    BY <1>1
  <2> QED
    BY <2>1, <2>2, FS_EmptySet
<1>4. IsFiniteSet(levels) /\ levels # {} /\ levels \subseteq Int
  BY <1>2, <1>3, FiniteImage DEF IsRaster
<1>5. PICK d \in seen : \A x \in seen : raster[d] <= raster[x]
  <2>1. PICK low \in levels : \A y \in levels : low <= y
    <3> HIDE DEF levels
    <3> QED
      BY <1>4, FiniteBounds
  <2>2. PICK d \in seen : low = raster[d]
    BY <2>1
  <2>3. \A x \in seen : raster[x] \in levels
    OBVIOUS
  <2> QED
    BY <2>1, <2>2, <2>3
<1>6. PICK e \in seen : \A x \in seen : raster[x] <= raster[e]
  <2>1. PICK high \in levels : \A y \in levels : high >= y
    <3> HIDE DEF levels
    <3> QED
      BY <1>4, FiniteBounds
  <2>2. PICK e \in seen : high = raster[e]
    BY <2>1
  <2>3. ASSUME NEW x \in seen PROVE raster[x] <= raster[e]
    <3>1. raster[x] \in levels /\ raster[x] \in Int /\ raster[e] \in Int
      BY <1>4
    <3> QED
      BY <2>1, <2>2, <3>1
  <2> QED
    BY <2>3
<1> HIDE DEF levels
<1> DEFINE low == raster[d]
           high == raster[e]
<1>7. low \in Int /\ high \in Int /\ \A x \in seen : raster[x] \in Int /\ low <= raster[x] /\ raster[x] <= high
  BY <1>2, <1>5, <1>6 DEF IsRaster
<1> HIDE DEF low, high
<1>8. n * low <= s /\ s <= n * high
  BY <1>2, <1>7, SumIsBetween
<1>9. low * n <= s /\ s <= high * n
  BY <1>3, <1>7, <1>8
<1>10. raster[d] * n <= s /\ s <= raster[e] * n /\ d \in DOMAIN raster /\ e \in DOMAIN raster
  BY <1>2, <1>5, <1>6, <1>9 DEF low, high
<1> QED
  BY <1>1, <1>10
-----------------------------------------------------------------------------

\* A profile with one slope goes on with it beyond its ends.
LEMMA ExtendedKeepsSlope ==
  ASSUME NEW n \in Nat, n > 1, NEW a \in Int, NEW profile \in [1..n -> Int], Len(profile) = n,
         \A j \in 1..n : profile[j] = a * j, NEW j \in Int
  PROVE  Extended(profile, j) = a * j
<1>1. Extended(profile, j) = IF j < 1 THEN profile[1] - (1 - j) * (profile[2] - profile[1])
                             ELSE IF j > n THEN profile[n] + (j - n) * (profile[n] - profile[n - 1])
                             ELSE profile[j]
  BY DEF Extended
<1>2. /\ 1 \in 1..n /\ 2 \in 1..n /\ n \in 1..n /\ n - 1 \in 1..n
      /\ profile[1] = a * 1 /\ profile[2] = a * 2 /\ profile[n] = a * n /\ profile[n - 1] = a * (n - 1)
  OBVIOUS
<1>3. a * 1 = a /\ a * 2 = a + a /\ a * (n - 1) = a * n - a /\ a * n \in Int /\ a * j \in Int
  OBVIOUS
<1>4. CASE j < 1
  <2>1. (1 - j) * a = a - a * j
    OBVIOUS
  <2>2. profile[2] - profile[1] = a
    BY <1>2, <1>3
  <2>3. Extended(profile, j) = a - (1 - j) * a
    BY <1>1, <1>2, <1>3, <1>4, <2>2
  <2> QED
    BY <1>3, <2>1, <2>3
<1>5. CASE j > n
  <2>1. (j - n) * a = a * j - a * n
    OBVIOUS
  <2>2. profile[n] - profile[n - 1] = a
    BY <1>2, <1>3
  <2>3. Extended(profile, j) = a * n + (j - n) * a
    BY <1>1, <1>2, <1>5, <2>2
  <2> QED
    BY <1>3, <2>1, <2>3
<1>6. CASE 1 <= j /\ j <= n
  BY <1>1, <1>6
<1> QED
  BY <1>4, <1>5, <1>6

\* The moving mean of a profile with one slope is the profile, up to its ends.
LEMMA ProfileKeepsSlope ==
  ASSUME NEW slope \in Int, NEW raw \in Seq(Int), NEW i \in DOMAIN raw
  PROVE  LET line == [j \in DOMAIN raw |-> slope * j]
         IN  SmoothedProfile(line, DOMAIN raw)[i] = line[i] * Len(raw) * (2 * ProfileHalfWindow + 1)
<1> DEFINE n == Len(raw)
           line == [j \in DOMAIN raw |-> slope * j]
           filled == FilledProfile(line, DOMAIN raw)
           H == ProfileHalfWindow
           S == i - H .. i + H
           seen == [j \in S |-> Extended(filled, j)]
           a == slope * n
           v == a * i
<1>1. n \in Nat /\ DOMAIN raw = 1..n /\ i \in 1..n /\ n >= 1 /\ H \in Nat /\ i \in Int
  BY TinAssumption
<1> HIDE DEF n, H
<1>2. DOMAIN line = 1..n /\ \A j \in 1..n : line[j] = slope * j
  BY <1>1
<1>3. Cardinality(1..n) = n
  <2>1. Cardinality(1..n) = IF 1 > n THEN 0 ELSE n - 1 + 1
    BY <1>1, FS_Interval
  <2> QED
    BY <1>1, <2>1
<1>4. filled = [j \in 1..n |-> line[j] * n]
  <2>1. DOMAIN raw # {}
    BY <1>1
  <2> HIDE DEF line
  <2> QED
    BY <1>1, <1>2, <1>3, <2>1 DEF FilledProfile
<1>5. SmoothedProfile(line, DOMAIN raw)[i] = SumOf(seen, DOMAIN seen)
  <2> HIDE DEF line
  <2> QED
    BY <1>1, <1>2 DEF SmoothedProfile, H
<1> HIDE DEF line
<1>6. filled \in [1..n -> Int] /\ \A j \in 1..n : filled[j] = a * j
  <2>1. ASSUME NEW j \in 1..n PROVE line[j] * n = a * j /\ line[j] * n \in Int
    <3>1. slope * j * n = slope * n * j /\ slope * j * n \in Int
      BY <1>1
    <3> QED
      BY <1>2, <3>1
  <2> QED
    BY <1>4, <2>1
<1> HIDE DEF filled
<1>7. Len(filled) = n
  <2>1. filled \in Seq(Int)
    BY <1>1, <1>6
  <2> QED
    BY <1>1, <1>6, <2>1
<1>8. a \in Int /\ v \in Int
  BY <1>1
<1> HIDE DEF a
<1>9. ASSUME NEW j \in S PROVE 2 * i - j \in S /\ seen[j] \in Int /\ seen[j] + seen[2 * i - j] = 2 * v
  <2>1. j \in Int /\ 2 * i - j \in S /\ 2 * i - j \in Int
    BY <1>1
  <2>2. seen[j] = Extended(filled, j) /\ seen[2 * i - j] = Extended(filled, 2 * i - j)
    BY <2>1
  <2> HIDE DEF seen, S
  <2>3. CASE n > 1
    <3>1. Extended(filled, j) = a * j /\ Extended(filled, 2 * i - j) = a * (2 * i - j)
      BY <1>1, <1>6, <1>7, <1>8, <2>1, <2>3, ExtendedKeepsSlope, ZenonT(30)
    <3>2. a * (2 * i - j) = 2 * (a * i) - a * j /\ a * j \in Int
      BY <1>1, <1>8, <2>1
    <3> QED
      BY <1>8, <2>1, <2>2, <3>1, <3>2
  <2>4. CASE n = 1
    <3>1. Extended(filled, j) = filled[1] /\ Extended(filled, 2 * i - j) = filled[1]
      BY <1>7, <2>4 DEF Extended
    <3>2. filled[1] = a * 1 /\ i = 1
      BY <1>1, <1>6, <2>4
    <3> QED
      BY <1>8, <2>1, <2>2, <3>1, <3>2
  <2> QED
    BY <1>1, <2>3, <2>4
<1>10. Cardinality(S) = 2 * H + 1
  <2> DEFINE b == i - H
             e == i + H
  <2>1. b \in Int /\ e \in Int /\ e - b + 1 = 2 * H + 1 /\ ~ (b > e)
    BY <1>1
  <2> HIDE DEF b, e
  <2>2. Cardinality(b..e) = IF b > e THEN 0 ELSE e - b + 1
    BY <2>1, FS_Interval
  <2> QED
    BY <2>1, <2>2 DEF b, e
<1>11. DOMAIN seen = S /\ S \in SUBSET (i - H .. i + H)
  OBVIOUS
<1> HIDE DEF seen, S
<1>12. Opposite(seen, S, i, v)
  BY <1>9 DEF Opposite
<1>13. SumOf(seen, S) = v * Cardinality(S)
  <2> HIDE DEF v
  <2>1. i \in Int /\ H \in Nat /\ v \in Int /\ S \in SUBSET (i - H .. i + H) /\ Opposite(seen, S, i, v)
    BY <1>1, <1>8, <1>11, <1>12
  <2> QED
    BY ONLY <2>1, SumIsCentral
<1>14. v = line[i] * n
  <2>1. slope * n * i = slope * i * n
    BY <1>1
  <2> QED
    BY <1>1, <1>2, <2>1 DEF a
<1>15. SmoothedProfile(line, DOMAIN raw)[i] = line[i] * n * (2 * H + 1)
  BY <1>5, <1>10, <1>11, <1>13, <1>14
<1> QED
  BY <1>15 DEF line, n, H

\* A height that is missing is not above all of the known ones.
LEMMA FilledIsBounded ==
  ASSUME NEW raw \in Seq(Int), NEW known \in SUBSET DOMAIN raw, known # {}, NEW i \in DOMAIN raw
  PROVE  \E j \in known : FilledProfile(raw, known)[i] <= raw[j] * Cardinality(known)
<1> DEFINE n == Cardinality(known)
           s == SumOf(raw, known)
           levels == {raw[j] : j \in known}
<1>1. FilledProfile(raw, known)[i] = IF i \in known THEN raw[i] * n ELSE s
  BY DEF FilledProfile
<1>2. DOMAIN raw = 1..Len(raw) /\ Len(raw) \in Nat /\ \A j \in DOMAIN raw : raw[j] \in Int
  BY ElementOfSeq
<1>3. IsFiniteSet(known) /\ n \in Nat
  <2>1. IsFiniteSet(1..Len(raw))
    BY <1>2, FS_Interval
  <2> QED
    BY <1>2, <2>1, FS_Subset, FS_CardinalityType
<1>4. levels # {} /\ levels \subseteq Int /\ IsFiniteSet(levels)
  BY <1>2, <1>3, FiniteImage
<1>5. PICK high \in levels : \A y \in levels : high >= y
  <2> HIDE DEF levels
  <2> QED
    BY <1>4, FiniteBounds
<1>6. PICK low \in levels : \A y \in levels : low <= y
  <2> HIDE DEF levels
  <2> QED
    BY <1>4, FiniteBounds
<1>7. PICK j \in known : high = raw[j]
  BY <1>5
<1>8. high \in Int /\ low \in Int /\ \A x \in known : raw[x] \in Int /\ low <= raw[x] /\ raw[x] <= high
  <2>1. \A x \in known : raw[x] \in levels
    OBVIOUS
  <2> HIDE DEF levels
  <2> QED
    BY <1>4, <1>5, <1>6, <2>1
<1>9. s <= n * high
  BY <1>3, <1>8, SumIsBetween
<1>10. n * high = high * n
  BY <1>3, <1>8
<1>11. CASE i \in known
  <2>1. raw[i] * n <= raw[i] * n
    BY <1>3, <1>8, <1>11
  <2> QED
    BY <1>1, <1>11, <2>1
<1>12. CASE i \notin known
  BY <1>1, <1>7, <1>9, <1>10, <1>12
<1> QED
  BY <1>11, <1>12

\* Smoothing keeps what is even, and lies between what is not.
LEMMA SlopesAreAlwaysKept ==
  ASSUME NEW slope \in Int, NEW raster, IsRaster(raster), NEW raw \in Seq(Int),
         NEW known \in SUBSET DOMAIN raw
  PROVE  SlopesAreKept(slope, raster, raw, known)
<1> DEFINE whole == [d \in -Radius - 2 * Pad .. Radius + 2 * Pad |-> slope * d]
           line == [i \in DOMAIN raw |-> slope * i]
<1>1. ASSUME NEW c \in -Radius..Radius, c % 2 = 0
      PROVE  /\ Smoothed(whole, c).sum = slope * c * Smoothed(whole, c).count
             /\ LET mean == Smoothed(raster, c) IN mean.count > 0 =>
                  \E d, e \in DOMAIN raster : /\ raster[d] * mean.count <= mean.sum
                                              /\ mean.sum <= raster[e] * mean.count
  <2>1. Smoothed(whole, c).sum = slope * c * Smoothed(whole, c).count
    BY <1>1, SmoothedKeepsSlope
  <2>2. c \in Int
    BY TinAssumption
  <2>3. Smoothed(raster, c).count > 0 =>
          \E d, e \in DOMAIN raster : /\ raster[d] * Smoothed(raster, c).count <= Smoothed(raster, c).sum
                                      /\ Smoothed(raster, c).sum <= raster[e] * Smoothed(raster, c).count
    BY <2>2, SmoothedIsBetween
  <2> QED
    BY <2>1, <2>3
<1>2. ASSUME NEW i \in DOMAIN raw
      PROVE  /\ SmoothedProfile(line, DOMAIN raw)[i] = line[i] * Len(raw) * (2 * ProfileHalfWindow + 1)
             /\ known # {} => \E j \in known : FilledProfile(raw, known)[i] <= raw[j] * Cardinality(known)
  BY ProfileKeepsSlope, FilledIsBounded
<1> HIDE DEF whole, line
<1> QED
  BY <1>1, <1>2 DEF SlopesAreKept, whole, line
-----------------------------------------------------------------------------
(* Vegetation and water (Landscape).                                        *)

\* Landscape has the operators of the library under names of its own.
LEMMA LandscapeMax == \A S : Landscape!Max(S) = Max(S)
BY DEF Landscape!Max, Max

LEMMA LandscapeMin == \A S : Landscape!Min(S) = Min(S)
BY DEF Landscape!Min, Min

LEMMA LandscapeCount == \A S : Landscape!Cardinality(S) = Cardinality(S)
BY DEF Landscape!Cardinality, Cardinality

\* The number of plants a polygon is to get.
LEMMA TargetType ==
  ASSUME NEW polygon, IsFiniteSet(polygon), NEW density \in Nat
  PROVE  Landscape!TargetCount(polygon, density) \in Nat
<1> DEFINE n == Cardinality(polygon) * density
           whole == n \div Landscape!CellsPerHectare
<1>1. n \in Nat
  BY FS_CardinalityType
<1>2. Landscape!CellsPerHectare = 1000
  BY DEF Landscape!CellsPerHectare
<1> HIDE DEF n
<1>3. whole \in Nat
  BY <1>1, <1>2
<1>4. Landscape!TargetCount(polygon, density) = Landscape!Rounded(n, Landscape!CellsPerHectare)
  BY LandscapeCount DEF Landscape!TargetCount, n
<1>5. Landscape!Rounded(n, Landscape!CellsPerHectare) \in {whole, whole + 1}
  BY DEF Landscape!Rounded
<1> HIDE DEF whole
<1> QED
  BY <1>3, <1>4, <1>5

\* What is put into a polygon lies in it, and is no more than it is to get.
LEMMA ScatterFits ==
  ASSUME NEW polygon, NEW target \in Nat, NEW draws \in Seq(Int)
  PROVE  /\ Landscape!Scatter(polygon, target, draws) \in Seq(polygon)
         /\ Len(Landscape!Scatter(polygon, target, draws)) <= target
<1> DEFINE n == Landscape!Min({Len(draws), target * Landscape!MAX_PLACEMENT_ATTEMPTS_PER_TREE})
           S == 1..n
           tried == [i \in S |-> draws[i]]
           V == {s \in Seq(polygon) : Len(s) <= target}
           Kept(placed, c) == IF Len(placed) < target /\ c \in polygon THEN Append(placed, c) ELSE placed
           step == [k \in S |-> [v \in V |-> Kept(v, tried[k])]]
           Folds(f) == f = [s \in SUBSET S |-> IF s = {} THEN <<>> ELSE Kept(f[s \ {Max(s)}], tried[Max(s)])]
           f == CHOOSE f : Folds(f)
<1>1. n \in Nat
  <2> DEFINE T == {Len(draws), target * Landscape!MAX_PLACEMENT_ATTEMPTS_PER_TREE}
  <2>1. T \subseteq Nat /\ T # {}
    BY DEF Landscape!MAX_PLACEMENT_ATTEMPTS_PER_TREE
  <2> HIDE DEF T
  <2>2. Min(T) \in Nat
    BY <2>1, MinOfNaturals
  <2> QED
    BY <2>2, LandscapeMin DEF T
<1> HIDE DEF n
<1>2. DOMAIN tried = S /\ Len(tried) = n
  BY <1>1
<1>3. <<>> \in V
  OBVIOUS
<1>4. \A k \in S, v \in V : Kept(v, tried[k]) \in V
  <2> SUFFICES ASSUME NEW k \in S, NEW v \in V PROVE Kept(v, tried[k]) \in V
    OBVIOUS
  <2> DEFINE c == tried[k]
  <2> HIDE DEF tried
  <2>1. CASE Len(v) < target /\ c \in polygon
    <3>1. Append(v, c) \in Seq(polygon) /\ Len(Append(v, c)) = Len(v) + 1 /\ Len(v) \in Nat
      BY <2>1
    <3> QED
      BY <2>1, <3>1
  <2>2. CASE ~ (Len(v) < target /\ c \in polygon)
    BY <2>2
  <2> QED
    BY <2>1, <2>2
<1>5. \A k \in S, v \in V : step[k][v] = Kept(v, tried[k])
  OBVIOUS
<1>6. Landscape!Scatter(polygon, target, draws)
        = Landscape!FoldLeft(LAMBDA placed, c : IF Len(placed) < target /\ c \in polygon THEN Append(placed, c) ELSE placed,
                             <<>>, tried)
  BY DEF Landscape!Scatter, n
<1> HIDE DEF V, Kept, tried
<1>7. StaysIn(step, S, V)
  BY <1>4, <1>5 DEF StaysIn
<1>8. Picks(LastOf(n), S) /\ IsFiniteSet(S) /\ \A s \in SUBSET S : LastOf(n)[s] = Max(s)
  BY <1>1, LastIn DEF LastOf
<1> HIDE DEF step
<1>9. \E g : Folds(g)
  <2>1. PICK g \in [SUBSET S -> V] : Iterates(g, <<>>, LastOf(n), step, S)
    BY <1>3, <1>7, <1>8, SetRecursion
  <2>2. ASSUME NEW s \in SUBSET S
        PROVE  g[s] = IF s = {} THEN <<>> ELSE Kept(g[s \ {Max(s)}], tried[Max(s)])
    <3>1. s # {} => Max(s) \in S /\ g[s \ {Max(s)}] \in V
      BY <1>8, <2>1 DEF Picks
    <3>2. g[s] = IF s = {} THEN <<>> ELSE step[Max(s)][g[s \ {Max(s)}]]
      BY <1>8, <2>1 DEF Iterates
    <3> QED
      BY <1>5, <3>1, <3>2
  <2> QED
    BY <2>1, <2>2
<1>10. Folds(f)
  BY <1>9
<1>11. Landscape!Scatter(polygon, target, draws) = f[S]
  <2>1. Landscape!FoldLeft(LAMBDA placed, c : IF Len(placed) < target /\ c \in polygon THEN Append(placed, c) ELSE placed,
                             <<>>, tried) = f[DOMAIN tried]
    BY <1>2, LandscapeMax DEF Landscape!FoldLeft, Landscape!MapThenFoldSet, Kept
  <2> QED
    BY <1>2, <1>6, <2>1
<1> HIDE DEF f
<1>12. \A s \in SUBSET S : f[s] = IF s = {} THEN <<>> ELSE Kept(f[s \ {Max(s)}], tried[Max(s)])
  <2> DEFINE g == [s \in SUBSET S |-> IF s = {} THEN <<>> ELSE Kept(f[s \ {Max(s)}], tried[Max(s)])]
  <2>1. f = g
    BY <1>10
  <2>2. \A s \in SUBSET S : g[s] = IF s = {} THEN <<>> ELSE Kept(f[s \ {Max(s)}], tried[Max(s)])
    OBVIOUS
  <2> HIDE DEF g
  <2> QED
    BY <2>1, <2>2
<1> DEFINE Good == {s \in SUBSET S : f[s] \in V}
<1>13. {} \in Good
  BY <1>3, <1>12
<1>14. ASSUME NEW s \in SUBSET S, s # {}, \A x \in s : s \ {x} \in Good PROVE s \in Good
  <2>1. Max(s) \in s /\ Max(s) \in S
    BY <1>8, <1>14 DEF Picks
  <2>2. f[s \ {Max(s)}] \in V
    BY <1>14, <2>1
  <2>3. f[s] = Kept(f[s \ {Max(s)}], tried[Max(s)])
    BY <1>12, <1>14
  <2> QED
    BY <1>4, <2>1, <2>2, <2>3
<1> HIDE DEF Good
<1>15. \A s \in SUBSET S : s \in Good
  <2>1. IsFiniteSet(S)
    BY <1>8
  <2> HIDE DEF S
  <2> QED
    BY <1>13, <1>14, <2>1, SubsetInduction
<1> QED
  BY <1>11, <1>15 DEF Good, V

\* Densities are natural numbers.
LEMMA DensityType == \A leaf : Landscape!Density(leaf) \in Nat
BY DEF Landscape!Density

\* Trees and shrubs stand in their polygons, no more of them than the density asks for, trees
\* on no grass or scrub and shrubs on scrub only, however the draws fall.
LEMMA GreenIsAlwaysSorted ==
  ASSUME NEW features, NEW draws,
         \A f \in features : \A p \in f.polygons : IsFiniteSet(p) /\ draws[p] \in Seq(Int)
  PROVE  Landscape!GreenIsSorted(features, draws)
<1>1. ASSUME NEW f \in features, NEW p \in f.polygons, NEW density \in Nat
      PROVE  LET trees == Landscape!Scatter(p, Landscape!TargetCount(p, density), draws[p])
             IN  /\ Landscape!Range(trees) \subseteq p
                 /\ Len(trees) <= Landscape!TargetCount(p, density)
  <2> DEFINE trees == Landscape!Scatter(p, Landscape!TargetCount(p, density), draws[p])
  <2>1. Landscape!TargetCount(p, density) \in Nat
    BY TargetType
  <2>2. trees \in Seq(p) /\ Len(trees) <= Landscape!TargetCount(p, density)
    BY <2>1, ScatterFits
  <2> HIDE DEF trees
  <2>3. Landscape!Range(trees) \subseteq p
    BY <2>2 DEF Landscape!Range
  <2> QED
    BY <2>2, <2>3 DEF trees
<1>2. ASSUME NEW t \in Landscape!ScatterTrees(features, draws)
      PROVE  \E f \in features :
               /\ f.id = t.id /\ ~ Landscape!IsGrass(f) /\ ~ Landscape!IsScrub(f)
               /\ \E p \in f.polygons :
                    /\ Landscape!Range(t.trees) \subseteq p
                    /\ Len(t.trees) <= Landscape!TargetCount(p, Landscape!Density(f.leaf))
  <2>1. PICK f \in Landscape!Forests(features) : \E p \in f.polygons :
          t = [id |-> f.id,
               trees |-> Landscape!Scatter(p, Landscape!TargetCount(p, Landscape!Density(f.leaf)), draws[p])]
    BY DEF Landscape!ScatterTrees
  <2>2. PICK p \in f.polygons :
          t = [id |-> f.id,
               trees |-> Landscape!Scatter(p, Landscape!TargetCount(p, Landscape!Density(f.leaf)), draws[p])]
    BY <2>1
  <2>3. f \in features /\ ~ Landscape!IsGrass(f) /\ ~ Landscape!IsScrub(f)
    BY <2>1 DEF Landscape!Forests
  <2>4. Landscape!Range(t.trees) \subseteq p /\ Len(t.trees) <= Landscape!TargetCount(p, Landscape!Density(f.leaf))
    BY <1>1, <2>2, <2>3, DensityType
  <2> QED
    BY <2>2, <2>3, <2>4
<1>3. ASSUME NEW s \in Landscape!ScatterShrubs(features, draws)
      PROVE  \E f \in Landscape!Shrubs(features) :
               /\ f.id = s.id
               /\ \E p \in f.polygons :
                    /\ Landscape!Range(s.trees) \subseteq p
                    /\ Len(s.trees) <= Landscape!TargetCount(p, Landscape!SHRUB_DENSITY)
  <2>1. PICK f \in Landscape!Shrubs(features) : \E p \in f.polygons :
          s = [id |-> f.id,
               trees |-> Landscape!Scatter(p, Landscape!TargetCount(p, Landscape!SHRUB_DENSITY), draws[p])]
    BY DEF Landscape!ScatterShrubs
  <2>2. PICK p \in f.polygons :
          s = [id |-> f.id,
               trees |-> Landscape!Scatter(p, Landscape!TargetCount(p, Landscape!SHRUB_DENSITY), draws[p])]
    BY <2>1
  <2>3. f \in features /\ Landscape!SHRUB_DENSITY \in Nat
    BY <2>1 DEF Landscape!Shrubs, Landscape!SHRUB_DENSITY
  <2>4. Landscape!Range(s.trees) \subseteq p /\ Len(s.trees) <= Landscape!TargetCount(p, Landscape!SHRUB_DENSITY)
    BY <1>1, <2>2, <2>3
  <2> QED
    BY <2>1, <2>2, <2>4
<1>4. {l.id : l \in Landscape!BuildLawns(features)}
        = {f.id : f \in {g \in features : g.landuse = "grass" /\ g.polygons # {}}}
  <2> DEFINE grass == {g \in features : g.landuse = "grass" /\ g.polygons # {}}
             lawns == Landscape!BuildLawns(features)
  <2>1. Landscape!Lawns(features) = {g \in features : g.landuse = "grass"}
    BY DEF Landscape!Lawns, Landscape!IsGrass
  <2>2. ASSUME NEW l \in lawns PROVE l.id \in {f.id : f \in grass}
    <3>1. PICK f \in Landscape!Lawns(features) : l \in {[id |-> f.id, polygon |-> p] : p \in f.polygons}
      BY DEF Landscape!BuildLawns
    <3>2. f \in grass /\ l.id = f.id
      BY <2>1, <3>1
    <3> QED
      BY <3>2
  <2>3. ASSUME NEW f \in grass PROVE f.id \in {l.id : l \in lawns}
    <3>1. PICK p \in f.polygons : TRUE
      OBVIOUS
    <3> DEFINE l == [id |-> f.id, polygon |-> p]
    <3>2. f \in Landscape!Lawns(features) /\ l \in {[id |-> f.id, polygon |-> q] : q \in f.polygons}
      BY <2>1, <3>1
    <3>3. l \in lawns
      BY <3>2 DEF Landscape!BuildLawns
    <3>4. l.id = f.id
      OBVIOUS
    <3> HIDE DEF l, lawns
    <3> QED
      BY <3>3, <3>4
  <2> HIDE DEF grass, lawns
  <2>4. {l.id : l \in lawns} = {f.id : f \in grass}
    BY <2>2, <2>3
  <2> QED
    BY <2>4 DEF grass, lawns
<1> QED
  BY <1>2, <1>3, <1>4 DEF Landscape!GreenIsSorted

\* A tree is said to be of the species that a tag names, and of none when no tag does.
LEMMA TreesAreAlwaysHonest ==
  ASSUME NEW tags, NEW height \in Int
  PROVE  Landscape!TreesAreHonest(tags, height)
<1> DEFINE named == tags.species # "" \/ tags.genus # "" \/ tags.leaf \in Landscape!LEAF_TYPE_LABELS
           species == Landscape!NormalizeVegetation(tags)
           tree == Landscape!IndividualTree(species, height)
<1>1. "" \notin Landscape!LEAF_TYPE_LABELS
  BY DEF Landscape!LEAF_TYPE_LABELS
<1>2. CASE tags.species # ""
  BY <1>2 DEF Landscape!NormalizeVegetation, Landscape!TreesAreHonest, Landscape!IndividualTree
<1>3. CASE tags.species = "" /\ tags.genus # ""
  BY <1>3 DEF Landscape!NormalizeVegetation, Landscape!TreesAreHonest, Landscape!IndividualTree
<1>4. CASE tags.species = "" /\ tags.genus = "" /\ tags.leaf \in Landscape!LEAF_TYPE_LABELS
  BY <1>1, <1>4 DEF Landscape!NormalizeVegetation, Landscape!TreesAreHonest, Landscape!IndividualTree
<1>5. CASE tags.species = "" /\ tags.genus = "" /\ tags.leaf \notin Landscape!LEAF_TYPE_LABELS
  BY <1>5 DEF Landscape!NormalizeVegetation, Landscape!TreesAreHonest, Landscape!IndividualTree
<1> QED
  BY <1>2, <1>3, <1>4, <1>5

\* A corner that is cut lies between its two vertices.
LEMMA CutLiesBetween ==
  ASSUME NEW p \in Int \X Int, NEW q \in Int \X Int, NEW side \in {1, 2}
  PROVE  /\ Landscape!Cut(p, q)[side] \in Int \X Int
         /\ \A axis \in {1, 2} : \A low, high \in Int :
              low <= p[axis] /\ low <= q[axis] /\ p[axis] <= high /\ q[axis] <= high
                => 4 * low <= Landscape!Cut(p, q)[side][axis] /\ Landscape!Cut(p, q)[side][axis] <= 4 * high
<1>1. PICK x1, y1, x2, y2 \in Int : p = <<x1, y1>> /\ q = <<x2, y2>>
  OBVIOUS
<1>2. CASE side = 1
  BY <1>1, <1>2 DEF Landscape!Cut
<1>3. CASE side = 2
  BY <1>1, <1>3 DEF Landscape!Cut
<1> QED
  BY <1>2, <1>3

\* The corners that are cut are points again, and every one of them is cut from two vertices.
LEMMA CutsAre ==
  ASSUME NEW pts \in Seq(Int \X Int), NEW n \in 0..Len(pts)
  PROVE  /\ Landscape!Cuts(pts, n) \in Seq(Int \X Int)
         /\ Len(Landscape!Cuts(pts, n)) = 2 * n
         /\ \A k \in 1 .. 2 * n : \E i, j \in DOMAIN pts, side \in {1, 2} :
              Landscape!Cuts(pts, n)[k] = Landscape!Cut(pts[i], pts[j])[side]
<1> DEFINE cuts == Landscape!Cuts(pts, n)
           side(k) == IF k % 2 = 1 THEN 1 ELSE 2
           here(k) == (k + 1) \div 2
           next(k) == (here(k) % Len(pts)) + 1
<1>1. cuts = [k \in 1 .. 2 * n |-> Landscape!Cut(pts[here(k)], pts[next(k)])[side(k)]]
  BY DEF Landscape!Cuts
<1>2. ASSUME NEW k \in 1 .. 2 * n
      PROVE  here(k) \in 1..Len(pts) /\ next(k) \in 1..Len(pts) /\ side(k) \in {1, 2}
  <2>1. here(k) \in 1..n /\ n \in Nat /\ Len(pts) \in Nat
    OBVIOUS
  <2>2. side(k) \in {1, 2}
    OBVIOUS
  <2> HIDE DEF here, side
  <2>3. Len(pts) \in Nat \ {0} /\ here(k) \in 1..Len(pts)
    BY <2>1
  <2>4. next(k) \in 1..Len(pts)
    BY <2>3, SMTT(30)
  <2> QED
    BY <2>2, <2>3, <2>4
<1> HIDE DEF cuts, here, next, side
<1>3. DOMAIN pts = 1..Len(pts)
  OBVIOUS
<1>4. ASSUME NEW k \in 1 .. 2 * n
      PROVE  /\ cuts[k] \in Int \X Int
             /\ \E i, j \in DOMAIN pts, s \in {1, 2} : cuts[k] = Landscape!Cut(pts[i], pts[j])[s]
  <2>1. cuts[k] = Landscape!Cut(pts[here(k)], pts[next(k)])[side(k)]
    BY <1>1
  <2>2. pts[here(k)] \in Int \X Int /\ pts[next(k)] \in Int \X Int
    BY <1>2
  <2>3. Landscape!Cut(pts[here(k)], pts[next(k)])[side(k)] \in Int \X Int
    BY <1>2, <2>2, CutLiesBetween
  <2> QED
    BY <1>2, <1>3, <2>1, <2>3
<1>5. cuts \in [1 .. 2 * n -> Int \X Int]
  BY <1>1, <1>4
<1>6. cuts \in Seq(Int \X Int) /\ Len(cuts) = 2 * n
  <2> DEFINE m == 2 * n
  <2>1. m \in Nat
    OBVIOUS
  <2> HIDE DEF m
  <2>2. ASSUME cuts \in [1..m -> Int \X Int] PROVE cuts \in Seq(Int \X Int) /\ Len(cuts) = m
    BY <2>1, <2>2
  <2> QED
    BY <1>5, <2>2 DEF m
<1> QED
  BY <1>4, <1>6 DEF cuts

\* A round of smoothing a ring leaves it in its box.
LEMMA RingStays ==
  ASSUME NEW pts \in Seq(Int \X Int)
  PROVE  /\ Landscape!SmoothClosed(pts) \in Seq(Int \X Int)
         /\ \A axis \in {1, 2} : \A low, high \in Int :
              (\A i \in DOMAIN pts : low <= pts[i][axis] /\ pts[i][axis] <= high)
                => \A k \in DOMAIN Landscape!SmoothClosed(pts) :
                     /\ 4 * low <= Landscape!SmoothClosed(pts)[k][axis]
                     /\ Landscape!SmoothClosed(pts)[k][axis] <= 4 * high
<1> DEFINE n == Len(pts)
           cuts == Landscape!Cuts(pts, n)
<1>1. n \in 0..Len(pts) /\ n \in Nat
  OBVIOUS
<1>2. /\ cuts \in Seq(Int \X Int) /\ Len(cuts) = 2 * n
      /\ \A k \in 1 .. 2 * n : \E i, j \in DOMAIN pts, side \in {1, 2} : cuts[k] = Landscape!Cut(pts[i], pts[j])[side]
  BY <1>1, CutsAre
<1>3. Landscape!SmoothClosed(pts) = cuts
  BY DEF Landscape!SmoothClosed
<1> HIDE DEF n, cuts
<1>4. DOMAIN cuts = 1 .. 2 * n
  BY <1>2
<1>5. ASSUME NEW axis \in {1, 2}, NEW low \in Int, NEW high \in Int,
             \A i \in DOMAIN pts : low <= pts[i][axis] /\ pts[i][axis] <= high,
             NEW k \in DOMAIN cuts
      PROVE  4 * low <= cuts[k][axis] /\ cuts[k][axis] <= 4 * high
  <2>1. PICK i, j \in DOMAIN pts, side \in {1, 2} : cuts[k] = Landscape!Cut(pts[i], pts[j])[side]
    BY <1>2, <1>4
  <2>2. pts[i] \in Int \X Int /\ pts[j] \in Int \X Int
    OBVIOUS
  <2>3. low <= pts[i][axis] /\ low <= pts[j][axis] /\ pts[i][axis] <= high /\ pts[j][axis] <= high
    BY <1>5
  <2>4. /\ 4 * low <= Landscape!Cut(pts[i], pts[j])[side][axis]
        /\ Landscape!Cut(pts[i], pts[j])[side][axis] <= 4 * high
    BY <2>2, <2>3, CutLiesBetween
  <2> QED
    BY <2>1, <2>4
<1> QED
  BY <1>2, <1>3, <1>5

\* Two sequences in a row.
LEMMA InARow ==
  ASSUME NEW T, NEW a \in Seq(T), NEW b \in Seq(T)
  PROVE  /\ a \o b \in Seq(T) /\ Len(a \o b) = Len(a) + Len(b)
         /\ \A i \in 1..Len(a) : (a \o b)[i] = a[i]
         /\ \A i \in 1..Len(b) : (a \o b)[Len(a) + i] = b[i]
<1>1. a \o b \in Seq(T)
  OBVIOUS
<1>2. Len(a \o b) = Len(a) + Len(b)
  OBVIOUS
<1>3. \A i \in 1..Len(a) : (a \o b)[i] = a[i]
  OBVIOUS
<1>4. \A i \in 1..Len(b) : (a \o b)[Len(a) + i] = b[i]
  OBVIOUS
<1> QED
  BY <1>1, <1>2, <1>3, <1>4

\* A round of smoothing a line leaves its ends where they are.
LEMMA EndsStay ==
  ASSUME NEW pts \in Seq(Int \X Int), pts # <<>>
  PROVE  LET round == Landscape!SmoothOpen(pts)
         IN  /\ round \in Seq(Int \X Int) /\ round # <<>>
             /\ Head(round) = Landscape!Scaled(Head(pts))
             /\ Landscape!Last(round) = Landscape!Scaled(Landscape!Last(pts))
<1> DEFINE n == Len(pts) - 1
           cuts == Landscape!Cuts(pts, n)
           first == <<Landscape!Scaled(Head(pts))>>
           last == <<Landscape!Scaled(Landscape!Last(pts))>>
           front == first \o cuts
           round == front \o last
<1>1. n \in 0..Len(pts) /\ n \in Nat
  OBVIOUS
<1>2. cuts \in Seq(Int \X Int) /\ Len(cuts) = 2 * n
  BY <1>1, CutsAre
<1>3. Landscape!SmoothOpen(pts) = round
  BY DEF Landscape!SmoothOpen
<1>4. Head(pts) \in Int \X Int /\ Landscape!Last(pts) \in Int \X Int
  BY DEF Landscape!Last
<1>5. \A p \in Int \X Int : Landscape!Scaled(p) \in Int \X Int
  BY DEF Landscape!Scaled
<1>6. first \in Seq(Int \X Int) /\ Len(first) = 1 /\ last \in Seq(Int \X Int) /\ Len(last) = 1
  BY <1>4, <1>5
<1>7. first[1] = Landscape!Scaled(Head(pts)) /\ last[1] = Landscape!Scaled(Landscape!Last(pts))
  OBVIOUS
<1> HIDE DEF cuts, first, last, n
<1>8. front \in Seq(Int \X Int) /\ Len(front) = 1 + 2 * n /\ front[1] = first[1]
  <2>1. /\ first \o cuts \in Seq(Int \X Int) /\ Len(first \o cuts) = Len(first) + Len(cuts)
        /\ \A i \in 1..Len(first) : (first \o cuts)[i] = first[i]
    BY <1>2, <1>6, InARow
  <2>2. 1 \in 1..Len(first)
    BY <1>6
  <2> QED
    BY <1>2, <1>6, <2>1, <2>2
<1> HIDE DEF front
<1>9. /\ round \in Seq(Int \X Int) /\ Len(round) = 2 + 2 * n
      /\ round[1] = front[1] /\ round[Len(round)] = last[1]
  <2>1. /\ front \o last \in Seq(Int \X Int) /\ Len(front \o last) = Len(front) + Len(last)
        /\ \A i \in 1..Len(front) : (front \o last)[i] = front[i]
        /\ \A i \in 1..Len(last) : (front \o last)[Len(front) + i] = last[i]
    <3> DEFINE T == Int \X Int
    <3>1. front \in Seq(T) /\ last \in Seq(T)
      BY <1>6, <1>8
    <3> HIDE DEF T
    <3>2. /\ front \o last \in Seq(T) /\ Len(front \o last) = Len(front) + Len(last)
          /\ \A i \in 1..Len(front) : (front \o last)[i] = front[i]
          /\ \A i \in 1..Len(last) : (front \o last)[Len(front) + i] = last[i]
      BY ONLY <3>1, InARow
    <3> QED
      BY ONLY <3>2 DEF T
  <2>2. 1 \in 1..Len(front) /\ 1 \in 1..Len(last) /\ Len(front) + Len(last) = Len(front) + 1
    BY <1>1, <1>6, <1>8
  <2>3. Len(front) + 1 = 2 + 2 * n
    BY <1>1, <1>8
  <2>4. (front \o last)[Len(front) + 1] = last[1]
    BY <2>1, <2>2
  <2> HIDE DEF round
  <2> QED
    BY <2>1, <2>2, <2>3, <2>4 DEF round
<1> HIDE DEF round
<1>10. round # <<>> /\ Head(round) = round[1]
  BY <1>1, <1>9, SMTT(30)
<1> QED
  BY <1>3, <1>7, <1>8, <1>9, <1>10 DEF Landscape!Last

\* Smoothed or not, a line ends where it did.
LEMMA SmoothedKeepsEnds ==
  ASSUME NEW s \in Seq(Int \X Int), s # <<>>
  PROVE  LET smooth == Landscape!Smoothed(s, FALSE)
             scaled(p) == Landscape!Scaled(Landscape!Scaled(p))
         IN  Head(smooth) = scaled(Head(s)) /\ Landscape!Last(smooth) = scaled(Landscape!Last(s))
<1> DEFINE scaled(p) == Landscape!Scaled(Landscape!Scaled(p))
           smooth == Landscape!Smoothed(s, FALSE)
<1>1. CASE Len(s) < 3
  <2> DEFINE same == [i \in 1..Len(s) |-> scaled(s[i])]
  <2>1. smooth = same
    BY <1>1 DEF Landscape!Smoothed
  <2>2. Len(s) \in Nat \ {0}
    OBVIOUS
  <2> HIDE DEF smooth, scaled
  <2>3. Len(same) = Len(s) /\ same[1] = scaled(s[1]) /\ same[Len(s)] = scaled(s[Len(s)]) /\ same # <<>>
    <3> DEFINE n == Len(s)
    <3>1. n \in Nat \ {0}
      BY <2>2
    <3>2. same = [i \in 1..n |-> scaled(s[i])]
      OBVIOUS
    <3> HIDE DEF n, same
    <3>3. Len(same) = n /\ same[1] = scaled(s[1]) /\ same[n] = scaled(s[n])
      BY <3>1, <3>2
    <3>4. same # <<>>
      BY <3>1, <3>3
    <3> QED
      BY <3>3, <3>4 DEF n
  <2>4. Head(same) = same[1] /\ Head(s) = s[1]
    BY <2>2, <2>3
  <2> HIDE DEF same
  <2> QED
    BY <2>1, <2>3, <2>4 DEF Landscape!Last, smooth, scaled
<1>2. CASE ~ (Len(s) < 3)
  <2> DEFINE once == Landscape!SmoothOpen(s)
             twice == Landscape!SmoothOpen(once)
  <2>1. smooth = twice
    BY <1>2 DEF Landscape!Smoothed
  <2>2. /\ once \in Seq(Int \X Int) /\ once # <<>> /\ Head(once) = Landscape!Scaled(Head(s))
        /\ Landscape!Last(once) = Landscape!Scaled(Landscape!Last(s))
    BY EndsStay
  <2> HIDE DEF once
  <2>3. /\ Head(twice) = Landscape!Scaled(Head(once))
        /\ Landscape!Last(twice) = Landscape!Scaled(Landscape!Last(once))
    BY <2>2, EndsStay
  <2> HIDE DEF twice
  <2> QED
    BY <2>1, <2>2, <2>3
<1> QED
  BY <1>1, <1>2

\* The numbers up to another are finitely many.
LEMMA UpToIsFinite == \A n \in Nat : IsFiniteSet(1..n)
BY FS_Interval

\* The values of a sequence of numbers are finitely many numbers.
LEMMA ValuesAreFinite ==
  ASSUME NEW s \in Seq(Int)
  PROVE  IsFiniteSet(Landscape!Range(s)) /\ Landscape!Range(s) \subseteq Int
<1> DEFINE D == 1..Len(s)
<1>1. DOMAIN s = D /\ IsFiniteSet(D)
  BY UpToIsFinite
<1>2. \A i \in D : s[i] \in Int
  OBVIOUS
<1> HIDE DEF D
<1>3. IsFiniteSet({s[i] : i \in D})
  BY <1>1, FiniteImage
<1>4. Landscape!Range(s) = {s[i] : i \in D}
  BY <1>1 DEF Landscape!Range
<1> QED
  BY <1>2, <1>3, <1>4

\* The coordinates of a ring are bounded by the least and the greatest of them.
LEMMA BoxHolds ==
  ASSUME NEW ring \in Seq(Int \X Int), ring # <<>>, NEW axis \in {1, 2}
  PROVE  LET box == {ring[i][axis] : i \in DOMAIN ring}
         IN  /\ Min(box) \in Int /\ Max(box) \in Int
             /\ \A i \in DOMAIN ring : Min(box) <= ring[i][axis] /\ ring[i][axis] <= Max(box)
<1> DEFINE D == DOMAIN ring
           f == [i \in D |-> ring[i][axis]]
           box == {ring[i][axis] : i \in D}
<1>1. D = 1..Len(ring) /\ Len(ring) \in Nat \ {0}
  OBVIOUS
<1>2. IsFiniteSet(D) /\ D # {}
  <2>1. Len(ring) \in Nat /\ IsFiniteSet(1..Len(ring))
    BY UpToIsFinite
  <2> HIDE DEF D
  <2>2. IsFiniteSet(D)
    BY ONLY <1>1, <2>1, Zenon
  <2>3. 1 \in D
    BY <1>1
  <2> QED
    BY <2>2, <2>3
<1>3. \A i \in D : ring[i][axis] \in Int
  BY <1>1
<1> HIDE DEF D
<1>4. box = {f[i] : i \in D}
  OBVIOUS
<1> HIDE DEF f
<1>5. IsFiniteSet(box)
  <2>1. IsFiniteSet({f[i] : i \in D})
    BY <1>2, FiniteImage
  <2> QED
    BY <1>4, <2>1
<1>6. box \subseteq Int /\ box # {} /\ \A i \in D : ring[i][axis] \in box
  BY <1>2, <1>3
<1> HIDE DEF box
<1>7. Min(box) \in Int /\ Max(box) \in Int /\ (\A y \in box : Min(box) <= y) /\ (\A y \in box : Max(box) >= y)
  BY <1>5, <1>6, MinIs, MaxIs
<1>8. ASSUME NEW i \in D PROVE Min(box) <= ring[i][axis] /\ ring[i][axis] <= Max(box)
  BY <1>3, <1>6, <1>7
<1> QED
  BY <1>7, <1>8 DEF box, D

\* A smoothed ring lies in the box of the ring.
LEMMA SmoothedStaysInBox ==
  ASSUME NEW ring \in Seq(Int \X Int), NEW axis \in {1, 2},
         NEW k \in DOMAIN Landscape!Smoothed(ring, TRUE)
  PROVE  LET box == {ring[i][axis] : i \in DOMAIN ring}
             c == Landscape!Smoothed(ring, TRUE)[k][axis]
         IN  16 * Min(box) <= c /\ c <= 16 * Max(box)
<1> DEFINE box == {ring[i][axis] : i \in DOMAIN ring}
           low == Min(box)
           high == Max(box)
           smooth == Landscape!Smoothed(ring, TRUE)
<1>1. CASE Len(ring) < 3
  <2>1. smooth = [i \in 1..Len(ring) |-> Landscape!Scaled(Landscape!Scaled(ring[i]))]
    BY <1>1 DEF Landscape!Smoothed
  <2>2. k \in 1..Len(ring) /\ smooth[k] = Landscape!Scaled(Landscape!Scaled(ring[k]))
    BY <2>1
  <2>3. ring # <<>> /\ k \in DOMAIN ring /\ ring[k] \in Int \X Int
    BY <2>2
  <2>4. low \in Int /\ high \in Int /\ low <= ring[k][axis] /\ ring[k][axis] <= high
    BY <2>3, BoxHolds
  <2>5. PICK x, y \in Int : ring[k] = <<x, y>>
    BY <2>3
  <2>6. smooth[k] = <<16 * x, 16 * y>>
    <3>1. Landscape!Scaled(<<x, y>>) = <<4 * x, 4 * y>>
      BY DEF Landscape!Scaled
    <3>2. Landscape!Scaled(<<4 * x, 4 * y>>) = <<4 * (4 * x), 4 * (4 * y)>>
      BY DEF Landscape!Scaled
    <3>3. 4 * (4 * x) = 16 * x /\ 4 * (4 * y) = 16 * y
      OBVIOUS
    <3> QED
      BY <2>2, <2>5, <3>1, <3>2, <3>3
  <2> HIDE DEF low, high, smooth
  <2>7. 16 * low <= smooth[k][axis] /\ smooth[k][axis] <= 16 * high
    BY <2>4, <2>5, <2>6, SMTT(30)
  <2> QED
    BY <2>7 DEF low, high, smooth
<1>2. CASE ~ (Len(ring) < 3)
  <2> DEFINE once == Landscape!SmoothClosed(ring)
             twice == Landscape!SmoothClosed(once)
  <2>1. smooth = twice
    BY <1>2 DEF Landscape!Smoothed
  <2>2. ring # <<>>
    BY <1>2
  <2>3. low \in Int /\ high \in Int /\ \A i \in DOMAIN ring : low <= ring[i][axis] /\ ring[i][axis] <= high
    BY <2>2, BoxHolds
  <2> HIDE DEF low, high
  <2>4. /\ once \in Seq(Int \X Int)
        /\ \A i \in DOMAIN once : 4 * low <= once[i][axis] /\ once[i][axis] <= 4 * high
    BY <2>3, RingStays
  <2> HIDE DEF once
  <2>5. 4 * low \in Int /\ 4 * high \in Int
    BY <2>3
  <2>6. \A i \in DOMAIN twice : 4 * (4 * low) <= twice[i][axis] /\ twice[i][axis] <= 4 * (4 * high)
    BY <2>4, <2>5, RingStays
  <2>7. 4 * (4 * low) = 16 * low /\ 4 * (4 * high) = 16 * high
    BY <2>3
  <2> QED
    BY <2>1, <2>6, <2>7 DEF low, high
<1> QED
  BY <1>1, <1>2

\* The level that is noted for a water area is nowhere above its surface.
LEMMA LevelIsLow ==
  ASSUME NEW area, area.ground \in Seq(Int), area.profile \in Seq(Int)
  PROVE  \A z \in Landscape!Range(Landscape!WaterAreaLevel(area).at) : Landscape!WaterAreaLevel(area).level <= z
<1> DEFINE level == Landscape!WaterAreaLevel(area)
<1>1. CASE Landscape!HasAxis(area)
  <2> DEFINE S == Landscape!Range(area.profile)
  <2>1. level.at = area.profile /\ level.level = Landscape!Min(S)
    BY <1>1 DEF Landscape!WaterAreaLevel
  <2>2. IsFiniteSet(S) /\ S \subseteq Int
    BY ValuesAreFinite
  <2> HIDE DEF S
  <2>3. \A z \in S : Min(S) <= z
    BY <2>2, MinIs
  <2> QED
    BY <2>1, <2>3, LandscapeMin DEF S
<1>2. CASE ~ Landscape!HasAxis(area)
  <2> DEFINE known == {z \in Landscape!Range(area.ground) : z # area.unknown}
             flat == IF known = {} THEN 0 ELSE Landscape!Min(known)
  <2>1. level.at = [i \in DOMAIN area.ground |-> flat] /\ level.level = flat
    BY <1>2 DEF Landscape!WaterAreaLevel
  <2>2. IsFiniteSet(Landscape!Range(area.ground)) /\ Landscape!Range(area.ground) \subseteq Int
    BY ValuesAreFinite
  <2>3. IsFiniteSet(known) /\ known \subseteq Int
    BY <2>2, FS_Subset
  <2> HIDE DEF known
  <2>4. known # {} => Min(known) \in Int
    BY <2>3, MinIs
  <2>5. flat \in Int
    BY <2>4, LandscapeMin
  <2> HIDE DEF flat
  <2>6. \A z \in Landscape!Range(level.at) : z = flat
    BY <2>1 DEF Landscape!Range
  <2> QED
    BY <2>1, <2>5, <2>6
<1> QED
  BY <1>1, <1>2

\* Streams still meet, rings stay in their boxes and no level is above its water.
LEMMA WaterAlwaysMeets ==
  ASSUME NEW s \in Seq(Int \X Int), s # <<>>, NEW t \in Seq(Int \X Int), t # <<>>,
         NEW ring \in Seq(Int \X Int), NEW area, area.ground \in Seq(Int), area.profile \in Seq(Int)
  PROVE  Landscape!WaterMeets(s, t, ring, area)
<1> DEFINE end(line, first) == IF first THEN Head(line) ELSE Landscape!Last(line)
           scaled(p) == Landscape!Scaled(Landscape!Scaled(p))
           box(pts, axis) == {pts[i][axis] : i \in DOMAIN pts}
           smooth == Landscape!Smoothed(ring, TRUE)
<1>1. /\ Head(Landscape!Smoothed(s, FALSE)) = scaled(Head(s))
      /\ Landscape!Last(Landscape!Smoothed(s, FALSE)) = scaled(Landscape!Last(s))
      /\ Head(Landscape!Smoothed(t, FALSE)) = scaled(Head(t))
      /\ Landscape!Last(Landscape!Smoothed(t, FALSE)) = scaled(Landscape!Last(t))
  BY SmoothedKeepsEnds
<1>2. ASSUME NEW a \in BOOLEAN, NEW b \in BOOLEAN, end(s, a) = end(t, b)
      PROVE  end(Landscape!Smoothed(s, FALSE), a) = end(Landscape!Smoothed(t, FALSE), b)
  <2> HIDE DEF scaled
  <2>1. end(Landscape!Smoothed(s, FALSE), a) = scaled(end(s, a))
    BY <1>1
  <2>2. end(Landscape!Smoothed(t, FALSE), b) = scaled(end(t, b))
    BY <1>1
  <2> HIDE DEF end
  <2> QED
    BY <1>2, <2>1, <2>2
<1>3. ASSUME NEW axis \in {1, 2}, NEW c \in box(smooth, axis)
      PROVE  16 * Landscape!Min(box(ring, axis)) <= c /\ c <= 16 * Landscape!Max(box(ring, axis))
  <2>1. PICK k \in DOMAIN smooth : c = smooth[k][axis]
    OBVIOUS
  <2>2. 16 * Min(box(ring, axis)) <= smooth[k][axis] /\ smooth[k][axis] <= 16 * Max(box(ring, axis))
    BY SmoothedStaysInBox
  <2> HIDE DEF box, smooth
  <2> QED
    BY <2>1, <2>2, LandscapeMin, LandscapeMax
<1>4. \A z \in Landscape!Range(Landscape!WaterAreaLevel(area).at) : Landscape!WaterAreaLevel(area).level <= z
  BY LevelIsLow
<1> QED
  BY <1>2, <1>3, <1>4 DEF Landscape!WaterMeets
-----------------------------------------------------------------------------
(* Roads and lines (Roads, LinearObjects).                                  *)

\* Both have the operators of the library under names of their own.
LEMMA LinearMax == \A S : Linear!Max(S) = Max(S) /\ Roads!Max(S) = Max(S)
BY DEF Linear!Max, Roads!Max, Max

LEMMA LinearMin == \A S : Linear!Min(S) = Min(S) /\ Roads!Min(S) = Min(S)
BY DEF Linear!Min, Roads!Min, Min

LEMMA LinearCount == \A S : Linear!Cardinality(S) = Cardinality(S) /\ Roads!Cardinality(S) = Cardinality(S)
BY DEF Linear!Cardinality, Roads!Cardinality, Cardinality

\* The greater and the lesser of two.
LEMMA OfTwo ==
  ASSUME NEW a \in Int, NEW b \in Int
  PROVE  /\ Max({a, b}) = IF a >= b THEN a ELSE b
         /\ Min({a, b}) = IF a <= b THEN a ELSE b
<1> DEFINE S == {a, b}
<1>1. (\E x \in S : \A y \in S : x >= y) /\ (\E x \in S : \A y \in S : x =< y)
  OBVIOUS
<1>2. Max(S) \in S /\ \A y \in S : Max(S) >= y
  BY <1>1 DEF Max
<1>3. Min(S) \in S /\ \A y \in S : Min(S) =< y
  BY <1>1 DEF Min
<1> QED
  BY <1>2, <1>3

\* A part of a line has whole ends.
IsPart(part) == {part.from, part.to, part.across} \subseteq Int

\* A point is projected to the part, and is at a distance from it.
LEMMA ProjectionType ==
  ASSUME NEW part, IsPart(part), Linear!LengthOf(part) > 0, NEW p \in Int \X Int
  PROVE  /\ Linear!Projection(part, p) \in 0..Linear!LengthOf(part)
         /\ Linear!SquareDistance(part, p) \in Nat
<1> DEFINE length == Linear!LengthOf(part)
           x == Linear!Along(part, p) - part.from
           y == Linear!Across(part, p) - part.across
           least == IF length <= x THEN length ELSE x
<1>1. part.from \in Int /\ part.to \in Int /\ part.across \in Int
  BY DEF IsPart
<1>2. length \in Int /\ length > 0
  BY <1>1 DEF Linear!LengthOf
<1>3. Linear!Along(part, p) \in Int /\ Linear!Across(part, p) \in Int
  BY DEF Linear!Along, Linear!Across
<1>4. x \in Int /\ y \in Int
  BY <1>1, <1>3
<1>5. Linear!Projection(part, p) = Max({0, Min({length, x})})
  BY LinearMax, LinearMin DEF Linear!Projection
<1>6. Linear!SquareDistance(part, p) = Linear!Square(x - Linear!Projection(part, p)) + Linear!Square(y)
  BY DEF Linear!SquareDistance
<1> HIDE DEF length, x, y
<1>7. Min({length, x}) = least
  BY <1>2, <1>4, OfTwo
<1>8. least \in Int /\ least <= length
  BY <1>2, <1>4
<1>9. Linear!Projection(part, p) = IF 0 >= least THEN 0 ELSE least
  BY <1>5, <1>7, <1>8, OfTwo
<1> HIDE DEF least
<1>10. Linear!Projection(part, p) \in 0..length
  BY <1>2, <1>8, <1>9
<1>11. \A n \in Int : Linear!Square(n) \in Nat
  BY DEF Linear!Square
<1>12. x - Linear!Projection(part, p) \in Int
  BY <1>2, <1>4, <1>10
<1> QED
  BY <1>4, <1>6, <1>10, <1>11, <1>12 DEF length

\* A place of a part lies on it.
LEMMA PlaceIsOnPart ==
  ASSUME NEW part, IsPart(part), Linear!LengthOf(part) > 0, NEW d \in 0..Linear!LengthOf(part)
  PROVE  /\ Linear!PointAt(part, d) \in Int \X Int
         /\ Linear!Projection(part, Linear!PointAt(part, d)) = d
         /\ Linear!SquareDistance(part, Linear!PointAt(part, d)) = 0
<1> DEFINE length == Linear!LengthOf(part)
           p == Linear!PointAt(part, d)
<1>1. part.from \in Int /\ part.to \in Int /\ part.across \in Int
  BY DEF IsPart
<1>2. length \in Int /\ length > 0 /\ d \in 0..length
  BY <1>1 DEF Linear!LengthOf
<1>3. p \in Int \X Int
  BY <1>1, <1>2 DEF Linear!PointAt
<1>4. Linear!Along(part, p) = part.from + d /\ Linear!Across(part, p) = part.across
  BY <1>1, <1>2 DEF Linear!PointAt, Linear!Along, Linear!Across
<1> HIDE DEF p, length
<1>5. Linear!Along(part, p) - part.from = d
  BY <1>1, <1>2, <1>4
<1>6. Linear!Projection(part, p) = Max({0, Min({length, d})})
  BY <1>5, LinearMax, LinearMin DEF Linear!Projection, length
<1>7. Min({length, d}) = d
  BY <1>2, OfTwo
<1>8. Max({0, d}) = d
  BY <1>2, OfTwo
<1>9. Linear!Projection(part, p) = d
  BY <1>6, <1>7, <1>8
<1>10. Linear!SquareDistance(part, p) = Linear!Square(d - d) + Linear!Square(part.across - part.across)
  BY <1>4, <1>5, <1>9 DEF Linear!SquareDistance
<1>11. d - d = 0 /\ part.across - part.across = 0
  BY <1>1, <1>2
<1>12. Linear!Square(0) = 0
  BY DEF Linear!Square
<1>13. Linear!SquareDistance(part, p) = 0
  BY <1>10, <1>11, <1>12
<1> QED
  BY <1>3, <1>9, <1>13 DEF p

\* Equal spans reach from end to end, and none of them is too long.
LEMMA SpreadReaches ==
  ASSUME NEW length \in Nat \ {0}, NEW spacing \in Nat \ {0},
         length % Linear!Spans(length, spacing) = 0
  PROVE  /\ Linear!Spread(length, spacing) \subseteq 0..length
         /\ {0, length} \subseteq Linear!Spread(length, spacing)
         /\ IsFiniteSet(Linear!Spread(length, spacing))
         /\ \A d \in 0..(length - 1) : \E e \in Linear!Spread(length, spacing) : d < e /\ e <= d + spacing
<1> DEFINE n == Linear!Spans(length, spacing)
           m == Linear!CeilDiv(length, spacing)
           s == length \div n
           places == Linear!Spread(length, spacing)
<1>1. m \in Int /\ length <= m * spacing
  <2> DEFINE a == length + spacing - 1
             b == a \div spacing
  <2>1. m = b /\ a \in Int
    BY DEF Linear!CeilDiv
  <2>2. b \in Int /\ a < b * spacing + spacing
    <3> HIDE DEF a
    <3> QED
      BY <2>1, Division
  <2> HIDE DEF b, m
  <2>3. b * spacing \in Int
    BY <2>2
  <2> QED
    BY <2>1, <2>2, <2>3
<1> HIDE DEF m
<1>2. n = IF 1 >= m THEN 1 ELSE m
  BY <1>1, LinearMax, OfTwo DEF Linear!Spans, m
<1>3. n \in Nat \ {0} /\ length <= n * spacing
  <2>1. CASE m >= 1
    BY <1>1, <1>2, <2>1
  <2>2. CASE m < 1
    <3>1. m * spacing <= 0
      BY <1>1, <2>2
    <3> QED
      BY <1>1, <3>1
  <2> QED
    BY <1>1, <2>1, <2>2
<1>4. places = {i * s : i \in 0..n}
  BY DEF Linear!Spread
<1> HIDE DEF n, places
<1>5. s \in Nat /\ length = n * s
  <2>1. length % n = 0
    BY DEF n
  <2> QED
    BY <1>3, <2>1
<1> HIDE DEF s
<1>6. s >= 1 /\ s <= spacing
  <2>1. s # 0
    BY <1>3, <1>5
  <2>2. ASSUME s >= spacing + 1 PROVE FALSE
    <3>1. n * (spacing + 1) <= n * s
      BY <1>3, <1>5, <2>2
    <3>2. n * (spacing + 1) = n * spacing + n
      BY <1>3
    <3> QED
      BY <1>3, <1>5, <3>1, <3>2
  <2> QED
    BY <1>5, <2>1, <2>2
<1>7. ASSUME NEW i \in 0..n PROVE i * s \in 0..length
  <2>1. i * s \in Nat /\ i * s <= n * s
    BY <1>3, <1>5
  <2> QED
    BY <1>5, <2>1
<1>8. 0 \in places /\ length \in places
  <2>1. 0 \in 0..n /\ n \in 0..n /\ 0 * s = 0
    BY <1>3, <1>5
  <2> QED
    BY <1>4, <1>5, <2>1
<1>9. IsFiniteSet(places)
  <2> DEFINE f == [i \in 0..n |-> i * s]
  <2>1. IsFiniteSet(0..n)
    BY <1>3, FS_Interval
  <2>2. places = {f[i] : i \in 0..n}
    BY <1>4
  <2> HIDE DEF f
  <2>3. IsFiniteSet({f[i] : i \in 0..n})
    BY <2>1, FiniteImage
  <2> QED
    BY <2>2, <2>3
<1>10. ASSUME NEW d \in 0..(length - 1) PROVE \E e \in places : d < e /\ e <= d + spacing
  <2> DEFINE k == d \div s
             e == (k + 1) * s
  <2>1. d \in Nat /\ d < length
    OBVIOUS
  <2>2. k \in Int /\ k * s <= d /\ d < k * s + s
    BY <1>5, <1>6, <2>1, Division
  <2> HIDE DEF k
  <2>3. k >= 0
    <3> SUFFICES ASSUME k <= -1 PROVE FALSE
      BY <2>2
    <3>1. (k + 1) * s <= 0 /\ (k + 1) * s = k * s + s /\ k * s \in Int
      BY <1>5, <2>2
    <3> HIDE DEF e
    <3> QED
      BY <1>5, <2>1, <2>2, <3>1
  <2>4. k < n
    <3> SUFFICES ASSUME n <= k PROVE FALSE
      BY <1>3, <2>2
    <3>1. n * s <= k * s
      BY <1>3, <1>5, <2>2
    <3> QED
      BY <1>5, <2>1, <2>2, <3>1
  <2>5. k + 1 \in 0..n /\ e = k * s + s
    BY <1>3, <1>5, <2>2, <2>3, <2>4
  <2>6. e \in places
    BY <1>4, <2>5
  <2>7. e \in Int /\ k * s \in Int
    BY <1>5, <2>2
  <2> HIDE DEF e
  <2>8. d < e /\ e <= d + spacing
    BY <1>5, <1>6, <2>1, <2>2, <2>5, <2>7
  <2> QED
    BY <2>6, <2>8
<1> QED
  BY <1>4, <1>7, <1>8, <1>9, <1>10 DEF places

\* So they hold a line.
LEMMA SpreadHolds ==
  ASSUME NEW length \in Nat \ {0}, NEW spacing \in Nat \ {0},
         length % Linear!Spans(length, spacing) = 0,
         NEW places, Linear!Spread(length, spacing) \subseteq places, places \subseteq 0..length
  PROVE  Linear!Holds(places, length, spacing)
<1>1. /\ {0, length} \subseteq Linear!Spread(length, spacing)
      /\ \A d \in 0..(length - 1) : \E e \in Linear!Spread(length, spacing) : d < e /\ e <= d + spacing
  BY SpreadReaches
<1>2. \A d \in places \ {length} : d \in 0..(length - 1)
  OBVIOUS
<1> QED
  BY <1>1, <1>2 DEF Linear!Holds

\* A fence has a post at each end of every part and none too far from the next; a wall has none.
LEMMA FencesAlwaysHold ==
  ASSUME NEW features,
         \A f \in features : \A part \in f.parts : Linear!Spaced(part, Linear!FENCE_POST_SPACING)
  PROVE  Linear!FencesHold(features)
<1> SUFFICES ASSUME NEW f \in features, Linear!IsFence(f), NEW part \in Linear!AsLines(f)
             PROVE  \E b \in Linear!Fences(features) :
                      /\ b.id = f.id
                      /\ IF b.kind = "wall" THEN b.posts = {}
                         ELSE Linear!Holds(b.posts, Linear!LengthOf(part), Linear!FENCE_POST_SPACING)
  BY DEF Linear!FencesHold
<1> DEFINE length == Linear!LengthOf(part)
           posts == IF f.barrier = "wall" THEN {} ELSE Linear!Spread(length, Linear!FENCE_POST_SPACING)
           b == [id |-> f.id, kind |-> f.barrier, posts |-> posts]
<1>1. b \in Linear!Fences(features)
  BY DEF Linear!Fences
<1>2. part \in f.parts /\ length > 0 /\ Linear!FENCE_POST_SPACING \in Nat \ {0}
  BY DEF Linear!AsLines, Linear!FENCE_POST_SPACING
<1>3. Linear!Spaced(part, Linear!FENCE_POST_SPACING)
  BY <1>2
<1>4. length \in Int
  BY <1>3 DEF Linear!Spaced, Linear!LengthOf
<1>5. length \in Nat \ {0} /\ length % Linear!Spans(length, Linear!FENCE_POST_SPACING) = 0
  BY <1>2, <1>3, <1>4 DEF Linear!Spaced
<1> HIDE DEF length
<1>6. Linear!Spread(length, Linear!FENCE_POST_SPACING) \subseteq 0..length
  BY <1>2, <1>5, SpreadReaches
<1>7. Linear!Holds(Linear!Spread(length, Linear!FENCE_POST_SPACING), length, Linear!FENCE_POST_SPACING)
  BY <1>2, <1>5, <1>6, SpreadHolds
<1>8. b.id = f.id /\ b.kind = f.barrier /\ b.posts = posts
  OBVIOUS
<1> HIDE DEF b
<1>9. IF b.kind = "wall" THEN b.posts = {} ELSE Linear!Holds(b.posts, length, Linear!FENCE_POST_SPACING)
  BY <1>7, <1>8
<1> QED
  BY <1>1, <1>8, <1>9 DEF length

\* Catenary poles stand at the multiples of their spacing below the length.
LEMMA CatenaryAlwaysHolds ==
  ASSUME NEW f, NEW length \in Nat
  PROVE  Linear!CatenaryHolds(f, length)
<1> DEFINE spacing == Linear!RAIL_POLE_SPACING
           n == length \div spacing
           poles == Linear!CatenaryPoles(f, length)
<1>1. spacing = 100
  BY DEF Linear!RAIL_POLE_SPACING
<1>2. n \in Nat /\ n * 100 <= length /\ length < n * 100 + 100
  BY <1>1
<1>3. CASE f.electrified \in {"", "no"}
  <2>1. ~ Linear!Electrified(f)
    BY <1>3 DEF Linear!Electrified
  <2>2. poles = {}
    BY <2>1 DEF Linear!CatenaryPoles
  <2> QED
    BY <1>3, <2>2 DEF Linear!CatenaryHolds
<1>4. CASE f.electrified \notin {"", "no"}
  <2>1. Linear!Electrified(f)
    BY <1>4 DEF Linear!Electrified
  <2>2. poles = {i * spacing : i \in 0..n} \ {length}
    BY <2>1 DEF Linear!CatenaryPoles
  <2> HIDE DEF n, spacing, poles
  <2>3. ASSUME NEW d \in poles PROVE d \in Nat /\ d < length /\ \E i \in 0..n : d = i * 100
    <3>1. PICK i \in 0..n : d = i * spacing
      BY <2>2
    <3>2. d = i * 100 /\ i \in Nat /\ i <= n /\ d # length
      BY <1>1, <1>2, <2>2, <3>1
    <3> QED
      BY <1>2, <3>2
  <2>4. length # 0 => 0 \in poles
    <3>1. 0 \in 0..n /\ 0 * spacing = 0
      BY <1>1, <1>2
    <3> QED
      BY <2>2, <3>1
  <2>5. ASSUME NEW d \in poles PROVE length <= d + spacing \/ d + spacing \in poles
    <3>1. PICK i \in 0..n : d = i * 100
      BY <2>3
    <3>2. CASE i < n
      <4>1. i + 1 \in 0..n /\ (i + 1) * spacing = d + spacing
        BY <1>1, <1>2, <3>1, <3>2
      <4>2. d + spacing = length \/ d + spacing \in poles
        BY <2>2, <4>1
      <4> QED
        BY <4>2
    <3>3. CASE i = n
      BY <1>1, <1>2, <3>1, <3>3
    <3> QED
      BY <1>2, <3>2, <3>3
  <2>6. length = 0 => poles = {}
    BY <2>3
  <2>7. length # 0 /\ length <= spacing => poles = {0}
    <3> SUFFICES ASSUME length # 0, length <= spacing, NEW d \in poles PROVE d = 0
      BY <2>4
    <3>1. PICK i \in 0..n : d = i * 100 /\ d < length
      BY <2>3
    <3> QED
      BY <1>1, <1>2, <3>1
  <2> QED
    BY <1>4, <2>3, <2>4, <2>5, <2>6, <2>7 DEF Linear!CatenaryHolds, poles, spacing
<1> QED
  BY <1>3, <1>4

\* Strands lie in pairs about the axis, and a wire sags most in its middle.
LEMMA WiresAreAlwaysEven ==
  ASSUME NEW cables \in Int, NEW span \in Nat
  PROVE  Linear!WiresAreEven(cables, span)
<1>1. \A s \in 0..(cables - 1) : Linear!StrandOffset(s, cables) = -Linear!StrandOffset(cables - 1 - s, cables)
  BY DEF Linear!StrandOffset
<1>2. Linear!WIRE_SAMPLE_COUNT = 8 /\ Linear!WIRE_SAMPLE_COUNT \div 2 = 4
  BY DEF Linear!WIRE_SAMPLE_COUNT
<1>3. \A i \in 0..8 : Linear!Drop(span, i) = span * 3 * i * (8 - i)
  BY <1>2 DEF Linear!Drop
<1>4. Linear!Drop(span, 0) = 0 /\ Linear!Drop(span, 8) = 0 /\ Linear!Drop(span, 4) = 48 * span
  BY <1>3
<1>5. ASSUME NEW i \in 0..8 PROVE Linear!Drop(span, i) <= 48 * span
  <2>1. i \in {0, 1, 2, 3, 4, 5, 6, 7, 8}
    OBVIOUS
  <2>2. Linear!Drop(span, i) = span * 3 * i * (8 - i)
    BY <1>3
  <2> QED
    BY <2>1, <2>2
<1> QED
  BY <1>1, <1>2, <1>4, <1>5 DEF Linear!WiresAreEven

\* The classes of voltage, and their zones, grow from row to row.
LEMMA VoltageZonesAlwaysGrow ==
  ASSUME NEW voltages \in SUBSET Int
  PROVE  Linear!ZonesGrow(voltages)
<1> DEFINE table == Linear!SAFETY_ZONE_HALF_WIDTH_BY_VOLTAGE
           reaching(v) == {i \in 1..Len(table) : v <= table[i][1]}
<1>1. /\ Len(table) = 8
      /\ \A i \in 1..8 : table[i][1] \in Nat /\ table[i][2] \in Nat /\ table[i][2] > 0
  BY DEF Linear!SAFETY_ZONE_HALF_WIDTH_BY_VOLTAGE
<1>2. \A i, j \in 1..8 : i <= j => table[i][2] <= table[j][2]
  BY DEF Linear!SAFETY_ZONE_HALF_WIDTH_BY_VOLTAGE
<1> DEFINE row(v) == IF reaching(v) = {} THEN 8 ELSE Min(reaching(v))
<1>3. ASSUME NEW v \in Int, v > 0 PROVE Linear!SafetyZone(v) = table[row(v)][2]
  BY <1>1, <1>3, LinearMin DEF Linear!SafetyZone, Linear!Absent
<1> HIDE DEF table
<1>4. ASSUME NEW v \in Int
      PROVE  row(v) \in 1..8 /\ (reaching(v) # {} => row(v) \in reaching(v) /\ \A i \in reaching(v) : row(v) <= i)
  <2>1. reaching(v) \subseteq Nat /\ reaching(v) \subseteq 1..8
    BY <1>1
  <2> DEFINE S == reaching(v)
  <2> HIDE DEF S
  <2>2. S # {} => Min(S) \in S /\ \A i \in S : Min(S) <= i
    BY <2>1, MinOfNaturals DEF S
  <2>3. row(v) = IF S = {} THEN 8 ELSE Min(S)
    BY DEF S
  <2>4. 8 \in 1..8 /\ S \subseteq 1..8
    BY <2>1 DEF S
  <2> HIDE DEF row
  <2>5. row(v) \in 1..8 /\ (S # {} => row(v) \in S /\ \A i \in S : row(v) <= i)
    BY <2>2, <2>3, <2>4
  <2> QED
    BY <2>5 DEF S
<1>5. ASSUME NEW v \in Int, NEW w \in Int, v <= w PROVE row(v) <= row(w)
  <2>1. reaching(w) \subseteq reaching(v)
    BY <1>1, <1>5
  <2> HIDE DEF reaching
  <2> QED
    BY <1>4, <2>1
<1> SUFFICES ASSUME NEW v \in voltages, NEW w \in voltages, 0 < v, v <= w
             PROVE  0 < Linear!SafetyZone(v) /\ Linear!SafetyZone(v) <= Linear!SafetyZone(w)
  BY DEF Linear!ZonesGrow
<1>6. v \in Int /\ w \in Int /\ w > 0
  OBVIOUS
<1>7. row(v) \in 1..8 /\ row(w) \in 1..8 /\ row(v) <= row(w)
  BY <1>4, <1>5, <1>6
<1>8. Linear!SafetyZone(v) = table[row(v)][2] /\ Linear!SafetyZone(w) = table[row(w)][2]
  BY <1>3, <1>6
<1> HIDE DEF row
<1> QED
  BY <1>1, <1>2, <1>7, <1>8

\* A substation stands on its lowest known ground.
LEMMA StationsAlwaysStand ==
  ASSUME NEW features, \A f \in features : IsFiniteSet(f.ground) /\ f.ground \subseteq Int
  PROVE  Linear!StationsStand(features)
<1> SUFFICES ASSUME NEW s \in Linear!Substations(features)
             PROVE  \E f \in features : f.id = s.id /\ \A z \in f.ground : s.base <= z
  BY DEF Linear!StationsStand
<1>1. PICK f \in features : s = [id |-> f.id, base |-> IF f.ground = {} THEN 0 ELSE Linear!Min(f.ground)]
  BY DEF Linear!Substations
<1>2. s.id = f.id /\ s.base = IF f.ground = {} THEN 0 ELSE Min(f.ground)
  BY <1>1, LinearMin
<1>3. \A z \in f.ground : s.base <= z
  BY <1>2, MinIs
<1> QED
  BY <1>2, <1>3

\* Beds of tracks grow with the gauge, and a level crossing takes the width of the nearest track.
LEMMA RailIsAlwaysLaid ==
  ASSUME NEW features, NEW p \in Int \X Int,
         \A f \in features : /\ f.gauge \in Int /\ f.tracks \in Int
                             /\ \A part \in f.parts : IsPart(part)
  PROVE  Linear!RailIsLaid(features, p)
<1> DEFINE rails == Linear!RailRibbons(features)
           sizes == Linear!CrossingSizes(p, rails)
           Distance(r) == Linear!DistanceToRail(r, p)
           nearest == {r \in rails : \A o \in rails : Distance(r) <= Distance(o)}
<1>1. ASSUME NEW r \in rails PROVE Distance(r) \in Nat /\ (r.axis => Linear!Cardinality(r.parts) = 1)
  <2>1. PICK f \in features :
          /\ Linear!AsLines(f) # {}
          /\ r = [id |-> f.id, parts |-> Linear!AsLines(f), ballast |-> Linear!BallastWidth(f),
                  axis |-> Linear!Cardinality(Linear!AsLines(f)) = 1]
    BY DEF Linear!RailRibbons
  <2> DEFINE D == {Linear!SquareDistance(part, p) : part \in r.parts}
  <2>2. r.parts = Linear!AsLines(f) /\ (r.axis => Linear!Cardinality(r.parts) = 1)
    BY <2>1
  <2>3. \A part \in r.parts : IsPart(part) /\ Linear!LengthOf(part) > 0
    BY <2>2 DEF Linear!AsLines
  <2>4. D \subseteq Nat /\ D # {}
    BY <2>1, <2>2, <2>3, ProjectionType
  <2>5. Distance(r) = Min(D)
    BY LinearMin DEF Linear!DistanceToRail
  <2> HIDE DEF D
  <2> QED
    BY <2>2, <2>4, <2>5, MinOfNaturals
<1> HIDE DEF rails
<1>2. rails # {} => sizes = {r.ballast.width : r \in nearest}
  BY DEF Linear!CrossingSizes
<1>3. rails = {} => sizes # {}
  BY DEF Linear!CrossingSizes
<1>4. rails # {} => nearest # {}
  <2> SUFFICES ASSUME rails # {} PROVE nearest # {}
    OBVIOUS
  <2> DEFINE D == {Distance(r) : r \in rails}
  <2>1. D \subseteq Nat /\ D # {}
    BY <1>1
  <2>2. PICK d \in D : \A e \in D : e >= d
    <3> HIDE DEF D
    <3> QED
      BY <2>1, LeastOne
  <2>3. PICK r \in rails : d = Distance(r)
    OBVIOUS
  <2>4. \A o \in rails : Distance(o) >= Distance(r)
    BY <2>2, <2>3
  <2>5. \A o \in rails : Distance(r) <= Distance(o)
    BY <1>1, <2>4
  <2> QED
    BY <2>5
<1> HIDE DEF sizes
<1>5. sizes # {} /\ \A s \in sizes : rails = {} \/ \E r \in rails : r.ballast.width = s
  BY <1>2, <1>3, <1>4
<1>6. ASSUME NEW r \in rails, \A o \in rails \ {r} : Distance(r) < Distance(o)
      PROVE  sizes = {r.ballast.width}
  <2>1. r \in nearest /\ \A q \in nearest : q = r
    BY <1>1, <1>6
  <2> HIDE DEF nearest
  <2> QED
    BY <1>2, <2>1
<1>7. ASSUME NEW f \in features, NEW g \in features, f.tracks = g.tracks, 0 < f.gauge, f.gauge <= g.gauge
      PROVE  Linear!BallastWidth(f).width <= Linear!BallastWidth(g).width
  <2> DEFINE t == (Linear!Positive(f.tracks, 1) - 1) * Linear!TRACK_SPACING
             s == 2 * Linear!BALLAST_SHOULDER
  <2>1. Linear!Positive(f.gauge, Linear!DEFAULT_GAUGE) = f.gauge /\ Linear!Positive(g.gauge, Linear!DEFAULT_GAUGE) = g.gauge
    BY <1>7 DEF Linear!Positive
  <2>2. Linear!BallastWidth(f).width = f.gauge + s + t /\ Linear!BallastWidth(g).width = g.gauge + s + t
    BY <1>7, <2>1 DEF Linear!BallastWidth
  <2>3. t \in Int /\ s \in Int
    BY DEF Linear!Positive, Linear!TRACK_SPACING, Linear!BALLAST_SHOULDER
  <2> HIDE DEF t, s
  <2> QED
    BY <1>7, <2>2, <2>3
<1>8. \A f \in Linear!Platforms(features) : f.polygon \/ \E part \in f.parts : Linear!LengthOf(part) > 0
  BY DEF Linear!Platforms, Linear!AsLines
<1> QED
  BY <1>1, <1>5, <1>6, <1>7, <1>8 DEF Linear!RailIsLaid, rails, sizes

\* A finite set can be listed.
LEMMA ListExists ==
  ASSUME NEW S, IsFiniteSet(S)
  PROVE  /\ Linear!SetToSeq(S) \in [1..Cardinality(S) -> S]
         /\ \A x \in S : \E i \in 1..Cardinality(S) : Linear!SetToSeq(S)[i] = x
<1> DEFINE n == Cardinality(S)
           list == Linear!SetToSeq(S)
           Lists(f) == f \in [1..n -> S] /\ Linear!IsInjective(f)
<1>1. n \in Nat
  BY FS_CardinalityType
<1>2. PICK f : f \in Bijection(1..n, S)
  BY FS_CardinalityType DEF ExistsBijection
<1>3. f \in [1..n -> S] /\ \A a, b \in 1..n : f[a] = f[b] => a = b
  BY <1>2 DEF Bijection, Injection, IsInjective
<1> HIDE DEF n
<1>4. Lists(f)
  BY <1>3 DEF Linear!IsInjective
<1>5. list = CHOOSE g \in [1..n -> S] : Linear!IsInjective(g)
  BY LinearCount DEF Linear!SetToSeq, n
<1> HIDE DEF list
<1>6. list \in [1..n -> S] /\ Linear!IsInjective(list)
  BY <1>4, <1>5
<1>7. \A a, b \in 1..n : list[a] = list[b] => a = b
  BY <1>6 DEF Linear!IsInjective
<1>8. list \in Injection(1..n, S)
  BY <1>6, <1>7 DEF Injection, IsInjective
<1>9. IsFiniteSet(1..n) /\ Cardinality(1..n) = n
  <2>1. IsFiniteSet(1..n) /\ Cardinality(1..n) = IF 1 > n THEN 0 ELSE n - 1 + 1
    BY <1>1, FS_Interval
  <2> QED
    BY <1>1, <2>1
<1>10. list \in Surjection(1..n, S)
  BY <1>8, <1>9, FS_Injection DEF n
<1> QED
  BY <1>6, <1>10 DEF Surjection, list, n

\* In the order along a part every pole near it has its turn.
LEMMA OrderTakesAll ==
  ASSUME NEW part, IsPart(part), Linear!LengthOf(part) > 0,
         NEW poles, \A p \in poles : p.at \in Int \X Int, IsFiniteSet(Linear!NearPart(part, poles))
  PROVE  LET near == Linear!NearPart(part, poles)
             s    == Linear!Ordered(part, poles)
         IN  /\ DOMAIN s = 1..Cardinality(near) /\ \A k \in DOMAIN s : s[k] \in near
             /\ \A p \in near : \E k \in DOMAIN s : s[k] = p
<1> DEFINE near == Linear!NearPart(part, poles)
           n == Cardinality(near)
           D == 1..n
           list == Linear!SetToSeq(near)
           place == [i \in D |-> Linear!Projection(part, list[i].at)]
           less == {q \in D \X D : place[q[1]] < place[q[2]] \/ (place[q[1]] = place[q[2]] /\ q[1] < q[2])}
           rank == [i \in D |-> RankIn(less, D, i)]
           s == Linear!Ordered(part, poles)
<1>1. n \in Nat /\ list \in [D -> near] /\ \A p \in near : \E i \in D : list[i] = p
  BY FS_CardinalityType, ListExists
<1>2. near \subseteq poles
  BY DEF Linear!NearPart
<1> HIDE DEF near, n, list
<1>3. DOMAIN list = D
  BY <1>1
<1>4. ASSUME NEW i \in D PROVE place[i] = Linear!Projection(part, list[i].at) /\ place[i] \in Int
  <2>1. list[i].at \in Int \X Int
    BY <1>1, <1>2
  <2> QED
    BY <2>1, ProjectionType
<1>5. \A i, j \in D : <<i, j>> \in less <=> (place[i] < place[j] \/ (place[i] = place[j] /\ i < j))
  OBVIOUS
<1> HIDE DEF place, less
<1>6. Orders(less, D)
  <2>1. \A i \in D : <<i, i>> \notin less
    BY <1>1, <1>4, <1>5
  <2>2. ASSUME NEW i \in D, NEW j \in D, NEW k \in D, <<i, j>> \in less, <<j, k>> \in less
        PROVE  <<i, k>> \in less
    <3>1. i \in Int /\ j \in Int /\ k \in Int
      BY <1>1
    <3>2. place[i] \in Int /\ place[j] \in Int /\ place[k] \in Int
      BY <1>4
    <3>3. /\ place[i] < place[j] \/ (place[i] = place[j] /\ i < j)
          /\ place[j] < place[k] \/ (place[j] = place[k] /\ j < k)
      BY <1>5, <2>2
    <3>4. place[i] < place[k] \/ (place[i] = place[k] /\ i < k)
      BY <3>1, <3>2, <3>3, SMTT(30)
    <3> QED
      BY <1>5, <3>4
  <2>3. ASSUME NEW i \in D, NEW j \in D PROVE i = j \/ <<i, j>> \in less \/ <<j, i>> \in less
    BY <1>1, <1>4, <1>5
  <2> QED
    BY <2>1, <2>2, <2>3 DEF Orders
<1>7. IsFiniteSet(D) /\ Cardinality(D) = n
  <2>1. IsFiniteSet(1..n) /\ Cardinality(1..n) = IF 1 > n THEN 0 ELSE n - 1 + 1
    BY <1>1, FS_Interval
  <2> QED
    BY <1>1, <2>1
<1>8. Ranked(less, D)
  <2> HIDE DEF D
  <2> QED
    BY <1>6, <1>7, Ranks
<1>9. /\ \A i \in D : rank[i] \in D
      /\ \A i, j \in D : i # j => rank[i] # rank[j]
      /\ \A k \in D : \E i \in D : rank[i] = k
  <2>1. \A i \in D : rank[i] = RankIn(less, D, i)
    OBVIOUS
  <2> HIDE DEF rank, D
  <2>2. /\ \A i \in D : rank[i] \in 1..n
        /\ \A i, j \in D : <<i, j>> \in less => rank[i] < rank[j]
        /\ \A k \in 1..n : \E i \in D : rank[i] = k
    BY <1>7, <1>8, <2>1 DEF Ranked
  <2>3. ASSUME NEW i \in D, NEW j \in D, i # j PROVE rank[i] # rank[j]
    <3>1. rank[i] \in Int /\ rank[j] \in Int
      BY <1>1, <2>2
    <3>2. <<i, j>> \in less \/ <<j, i>> \in less
      BY <1>6, <2>3 DEF Orders
    <3> QED
      BY <2>2, <3>1, <3>2
  <2> QED
    BY <2>2, <2>3 DEF D
<1>10. \A i \in D : rank[i] = Linear!Cardinality({j \in D : place[j] < place[i] \/ (place[j] = place[i] /\ j < i)}) + 1
  <2> SUFFICES ASSUME NEW i \in D
               PROVE  RankIn(less, D, i) = Linear!Cardinality({j \in D : place[j] < place[i] \/ (place[j] = place[i] /\ j < i)}) + 1
    OBVIOUS
  <2>1. {j \in D : <<j, i>> \in less} = {j \in D : place[j] < place[i] \/ (place[j] = place[i] /\ j < i)}
    BY <1>5
  <2> QED
    BY <2>1, LinearCount DEF RankIn
<1> HIDE DEF rank
<1>11. s = [k \in D |-> list[CHOOSE i \in D : rank[i] = k]]
  <2> DEFINE p(i) == Linear!Projection(part, list[i].at)
             r(i) == Linear!Cardinality({j \in D : p(j) < p(i) \/ (p(j) = p(i) /\ j < i)}) + 1
  <2>1. s = [k \in D |-> list[CHOOSE i \in D : r(i) = k]]
    BY <1>3 DEF Linear!Ordered, near, list
  <2>2. \A i \in D : place[i] = p(i)
    BY <1>4
  <2> HIDE DEF p
  <2>3. ASSUME NEW i \in D PROVE r(i) = rank[i]
    <3>1. {j \in D : p(j) < p(i) \/ (p(j) = p(i) /\ j < i)} = {j \in D : place[j] < place[i] \/ (place[j] = place[i] /\ j < i)}
      BY <2>2
    <3> QED
      BY <1>10, <3>1
  <2> HIDE DEF r, s
  <2> DEFINE a(k) == list[CHOOSE i \in D : r(i) = k]
             b(k) == list[CHOOSE i \in D : rank[i] = k]
  <2>4. ASSUME NEW k \in D PROVE a(k) = b(k)
    BY <2>3
  <2> HIDE DEF a, b, D
  <2>5. [k \in D |-> a(k)] = [k \in D |-> b(k)]
    BY <2>4
  <2> QED
    BY <2>1, <2>5 DEF a, b
<1> HIDE DEF s
<1>12. ASSUME NEW k \in D PROVE s[k] \in near
  <2>1. (CHOOSE i \in D : rank[i] = k) \in D
    BY <1>9
  <2> QED
    BY <1>1, <1>11, <2>1
<1>13. ASSUME NEW p \in near PROVE \E k \in D : s[k] = p
  <2>1. PICK i \in D : list[i] = p
    BY <1>1
  <2>2. rank[i] \in D /\ (CHOOSE j \in D : rank[j] = rank[i]) = i
    BY <1>9
  <2> QED
    BY <1>11, <2>1, <2>2
<1>14. DOMAIN s = D
  BY <1>11
<1> QED
  BY <1>12, <1>13, <1>14 DEF s, near, n

\* Of poles in a row, not all at one place, each is at an end of a span between neighbours.
LEMMA RowIsSpanned ==
  ASSUME NEW n \in Nat, NEW s, NEW k \in 1..n, NEW m \in 1..n, s[k].at # s[m].at
  PROVE  \E i \in 1..(n - 1) : s[i].at # s[i + 1].at /\ s[k].at \in {s[i].at, s[i + 1].at}
<1>1. CASE k < m
  <2> DEFINE T == {j \in 1..n : k < j /\ s[j].at # s[k].at}
  <2>1. T \subseteq Nat /\ T # {}
    BY <1>1
  <2>2. PICK j \in T : \A i \in T : i >= j
    <3> HIDE DEF T
    <3> QED
      BY <2>1, LeastOne
  <2>3. j - 1 \in 1..(n - 1) /\ j - 1 \notin T /\ j - 1 >= k
    BY <2>2
  <2>4. s[j - 1].at = s[k].at
    BY <2>3
  <2>5. (j - 1) + 1 = j
    BY <2>2
  <2> QED
    BY <2>2, <2>3, <2>4, <2>5
<1>2. CASE m < k
  <2> DEFINE T == {j \in Nat : k - j \in 1..n /\ 0 < j /\ s[k - j].at # s[k].at}
  <2>1. T \subseteq Nat /\ k - m \in T
    <3>1. k - m \in Nat /\ k - (k - m) = m
      BY <1>2
    <3> QED
      BY <1>2, <3>1
  <2>2. PICK j \in T : \A i \in T : i >= j
    <3> HIDE DEF T
    <3> QED
      BY <2>1, LeastOne
  <2> DEFINE i == k - j
  <2>3. i \in 1..(n - 1) /\ i + 1 \in 1..n /\ j - 1 \notin T
    BY <2>2
  <2>4. i + 1 = k - (j - 1)
    BY <2>2
  <2>5. s[i + 1].at = s[k].at
    <3>1. CASE j = 1
      BY <2>4, <3>1
    <3>2. CASE j > 1
      BY <2>3, <2>4, <3>2
    <3> QED
      BY <2>2, <3>1, <3>2
  <2>6. s[i].at # s[k].at
    BY <2>2
  <2> HIDE DEF i
  <2> QED
    BY <2>3, <2>5, <2>6
<1>3. k # m
  OBVIOUS
<1> QED
  BY <1>1, <1>2, <1>3

\* The poles of a site are finitely many, at whole places, and those of a part without a real
\* one stand at equal distances along it.
LEMMA PolesAre ==
  ASSUME NEW features, IsFiniteSet(features),
         \A f \in features : /\ f.at \in Int \X Int /\ IsFiniteSet(f.parts)
                             /\ \A part \in f.parts : Linear!Spaced(part, Linear!CALCULATED_POLE_SPACING)
  PROVE  LET real  == Linear!RealPoles(features)
             poles == real \cup Linear!CalculatedPoles(features, real)
         IN  /\ \A p \in poles : p.at \in Int \X Int
             /\ IsFiniteSet(poles)
<1> DEFINE real == Linear!RealPoles(features)
           calculated == Linear!CalculatedPoles(features, real)
           spacing == Linear!CALCULATED_POLE_SPACING
           Pole(part, d) == [at |-> Linear!PointAt(part, d), height |-> Linear!POLE_HEIGHT.pole, source |-> "default"]
           Row(part) == {Pole(part, d) : d \in Linear!Spread(Linear!LengthOf(part), spacing)}
           Free(f) == {q \in Linear!AsLines(f) : Linear!NearPart(q, real) = {}}
           lines == {f \in features : Linear!IsLine(f)}
           free == UNION {Free(f) : f \in lines}
<1>1. IsFiniteSet(real) /\ \A p \in real : p.at \in Int \X Int
  <2> DEFINE T == {g \in features : g.layer = "osm_power" /\ g.point /\ g.power \in DOMAIN Linear!POLE_HEIGHT}
             h == [f \in T |-> [at |-> f.at, height |-> Linear!Positive(f.height, Linear!POLE_HEIGHT[f.power]), source |-> "fact"]]
  <2>1. IsFiniteSet(T)
    BY FS_Subset
  <2>2. real = {h[f] : f \in T}
    BY DEF Linear!RealPoles
  <2>3. \A f \in T : h[f].at \in Int \X Int
    OBVIOUS
  <2> HIDE DEF T, h, real
  <2>4. IsFiniteSet({h[f] : f \in T})
    BY <2>1, FiniteImage
  <2> QED
    BY <2>2, <2>3, <2>4
<1>2. calculated = UNION {Row(part) : part \in free}
  BY DEF Linear!CalculatedPoles
<1> HIDE DEF real
<1>3. IsFiniteSet(free)
  <2> DEFINE h == [f \in lines |-> Free(f)]
             family == {Free(f) : f \in lines}
  <2>1. IsFiniteSet(lines)
    BY FS_Subset
  <2>2. family = {h[f] : f \in lines}
    OBVIOUS
  <2>3. ASSUME NEW f \in lines PROVE IsFiniteSet(Free(f))
    <3>1. Free(f) \subseteq f.parts
      BY DEF Linear!AsLines
    <3>2. f \in features /\ IsFiniteSet(f.parts)
      OBVIOUS
    <3> HIDE DEF Free
    <3> QED
      BY <3>1, <3>2, FS_Subset
  <2> HIDE DEF h, lines, Free
  <2>4. IsFiniteSet({h[f] : f \in lines})
    BY <2>1, FiniteImage
  <2>5. IsFiniteSet(family) /\ \A T \in family : IsFiniteSet(T)
    BY <2>2, <2>3, <2>4
  <2> HIDE DEF family
  <2>6. IsFiniteSet(UNION family)
    BY <2>5, FS_UNION
  <2> QED
    BY <2>6 DEF family
<1>4. ASSUME NEW part \in free
      PROVE  IsFiniteSet(Row(part)) /\ \A p \in Row(part) : p.at \in Int \X Int
  <2> DEFINE length == Linear!LengthOf(part)
             D == Linear!Spread(length, spacing)
             h == [d \in D |-> Pole(part, d)]
  <2>1. PICK f \in features : part \in f.parts /\ length > 0
    BY DEF Linear!AsLines
  <2>2. Linear!Spaced(part, spacing) /\ spacing \in Nat \ {0}
    BY <2>1 DEF Linear!CALCULATED_POLE_SPACING
  <2>3. IsPart(part) /\ length \in Int
    BY <2>2 DEF Linear!Spaced, IsPart, Linear!LengthOf
  <2>4. length \in Nat \ {0} /\ length % Linear!Spans(length, spacing) = 0
    BY <2>1, <2>2, <2>3 DEF Linear!Spaced
  <2> HIDE DEF spacing
  <2>5. IsFiniteSet(D) /\ D \subseteq 0..length
    <3> HIDE DEF length
    <3> QED
      BY <2>2, <2>4, SpreadReaches
  <2>6. Row(part) = {h[d] : d \in D}
    OBVIOUS
  <2>7. ASSUME NEW d \in D PROVE h[d].at \in Int \X Int
    <3>1. d \in 0..length
      BY <2>5
    <3>2. Linear!PointAt(part, d) \in Int \X Int
      BY <2>1, <2>3, <3>1, PlaceIsOnPart
    <3> QED
      BY <3>2
  <2> HIDE DEF h, D, Row
  <2>8. IsFiniteSet({h[d] : d \in D})
    BY <2>5, FiniteImage
  <2> QED
    BY <2>6, <2>7, <2>8
<1> HIDE DEF free, Row
<1>5. IsFiniteSet(calculated) /\ \A p \in calculated : p.at \in Int \X Int
  <2> DEFINE h == [part \in free |-> Row(part)]
             family == {Row(part) : part \in free}
  <2>1. family = {h[part] : part \in free}
    OBVIOUS
  <2> HIDE DEF h
  <2>2. IsFiniteSet({h[part] : part \in free})
    BY <1>3, FiniteImage
  <2>3. IsFiniteSet(family) /\ \A T \in family : IsFiniteSet(T)
    BY <1>4, <2>1, <2>2
  <2>4. \A p \in UNION family : p.at \in Int \X Int
    BY <1>4
  <2> HIDE DEF family
  <2>5. IsFiniteSet(UNION family)
    BY <2>3, FS_UNION
  <2> QED
    BY <1>2, <2>4, <2>5 DEF family
<1> HIDE DEF calculated
<1> QED
  BY <1>1, <1>5, FS_Union DEF real, calculated

\* The safety zones of a line are those of its parts.
LEMMA ZonesAreOfParts ==
  ASSUME NEW features, \A f, g \in features : f.id = g.id => f = g,
         NEW f \in features, Linear!IsLine(f), NEW part \in Linear!AsLines(f)
  PROVE  Linear!SafetyZone(f.voltage) # 0 <=> \E z \in Linear!SafetyZones(features) : z.line = f.id /\ z.part = part
<1> DEFINE z == [line |-> f.id, part |-> part, half |-> Linear!SafetyZone(f.voltage)]
<1>1. ASSUME Linear!SafetyZone(f.voltage) # 0
      PROVE  z \in Linear!SafetyZones(features)
  BY <1>1 DEF Linear!SafetyZones
<1>2. z.line = f.id /\ z.part = part
  OBVIOUS
<1>3. ASSUME NEW y \in Linear!SafetyZones(features), y.line = f.id PROVE Linear!SafetyZone(f.voltage) # 0
  <2>1. PICK g \in features :
          /\ Linear!SafetyZone(g.voltage) # 0
          /\ y \in {[line |-> g.id, part |-> q, half |-> Linear!SafetyZone(g.voltage)] : q \in Linear!AsLines(g)}
    BY DEF Linear!SafetyZones
  <2>2. g.id = f.id
    BY <1>3, <2>1
  <2> QED
    BY <2>1, <2>2
<1> HIDE DEF z
<1> QED
  BY <1>1, <1>2, <1>3

\* Power lines hang on poles from end to end.
LEMMA PowerIsAlwaysHung ==
  ASSUME NEW features, IsFiniteSet(features), \A f, g \in features : f.id = g.id => f = g,
         \A f \in features : /\ f.at \in Int \X Int /\ IsFiniteSet(f.parts)
                             /\ \A part \in f.parts : Linear!Spaced(part, Linear!CALCULATED_POLE_SPACING)
  PROVE  Linear!PowerIsHung(features)
<1> DEFINE real == Linear!RealPoles(features)
           calculated == Linear!CalculatedPoles(features, real)
           poles == real \cup calculated
           spacing == Linear!CALCULATED_POLE_SPACING
<1>1. (\A p \in poles : p.at \in Int \X Int) /\ IsFiniteSet(poles)
  BY PolesAre
<1>2. spacing \in Nat \ {0}
  BY DEF Linear!CALCULATED_POLE_SPACING
<1> SUFFICES ASSUME NEW f \in features, Linear!IsLine(f), NEW part \in Linear!AsLines(f)
             PROVE  LET near  == Linear!NearPart(part, poles)
                        spans == Linear!WireSpans(part, poles)
                    IN  /\ near # {}
                        /\ Linear!NearPart(part, real) = {} =>
                             Linear!Holds({Linear!Projection(part, p.at) : p \in near}, Linear!LengthOf(part), spacing)
                        /\ Linear!Cardinality({p.at : p \in near}) > 1 =>
                             \A p \in near : \E span \in spans : p.at \in {span[1].at, span[2].at}
                        /\ Linear!Cardinality({p.at : p \in near}) = 1 => spans = {}
                        /\ Linear!SafetyZone(f.voltage) # 0 <=>
                             \E z \in Linear!SafetyZones(features) : z.line = f.id /\ z.part = part
  BY DEF Linear!PowerIsHung
<1> DEFINE length == Linear!LengthOf(part)
           near == Linear!NearPart(part, poles)
           spans == Linear!WireSpans(part, poles)
           s == Linear!Ordered(part, poles)
           n == Cardinality(near)
           ats == {p.at : p \in near}
           places == {Linear!Projection(part, p.at) : p \in near}
           spread == Linear!Spread(length, spacing)
<1>3. part \in f.parts /\ length > 0
  BY DEF Linear!AsLines
<1>4. IsPart(part) /\ length \in Nat \ {0} /\ length % Linear!Spans(length, spacing) = 0
  <2>1. Linear!Spaced(part, spacing)
    BY <1>3
  <2>2. IsPart(part) /\ length \in Int
    BY <2>1 DEF Linear!Spaced, IsPart, Linear!LengthOf
  <2> QED
    BY <1>3, <2>1, <2>2 DEF Linear!Spaced
<1>5. spread \subseteq 0..length /\ {0, length} \subseteq spread
  <2> HIDE DEF length, spacing
  <2> QED
    BY <1>2, <1>4, SpreadReaches
<1>6. near \subseteq poles /\ IsFiniteSet(near) /\ n \in Nat
  <2>1. near \subseteq poles
    BY DEF Linear!NearPart
  <2> HIDE DEF near, poles
  <2> QED
    BY <1>1, <2>1, FS_Subset, FS_CardinalityType
<1>7. Linear!NearPart(part, real) \subseteq near
  BY DEF Linear!NearPart
<1>8. ASSUME Linear!NearPart(part, real) = {}, NEW d \in spread
      PROVE  \E p \in near : Linear!Projection(part, p.at) = d
  <2> DEFINE p == [at |-> Linear!PointAt(part, d), height |-> Linear!POLE_HEIGHT.pole, source |-> "default"]
  <2>1. p \in calculated
    BY <1>8 DEF Linear!CalculatedPoles
  <2>2. Linear!Projection(part, Linear!PointAt(part, d)) = d /\ Linear!SquareDistance(part, Linear!PointAt(part, d)) = 0
    <3>1. d \in 0..length
      BY <1>5
    <3> QED
      BY <1>3, <1>4, <3>1, PlaceIsOnPart
  <2>3. 0 <= Linear!Square(Linear!POLE_SNAP_DISTANCE)
    BY DEF Linear!Square, Linear!POLE_SNAP_DISTANCE
  <2>4. p.at = Linear!PointAt(part, d)
    OBVIOUS
  <2> HIDE DEF p, calculated
  <2>5. p \in near
    BY <2>1, <2>2, <2>3, <2>4 DEF Linear!NearPart
  <2> QED
    BY <2>2, <2>4, <2>5
<1>9. near # {}
  BY <1>5, <1>7, <1>8
<1>10. ASSUME Linear!NearPart(part, real) = {} PROVE Linear!Holds(places, length, spacing)
  <2>1. spread \subseteq places
    BY <1>8, <1>10
  <2>2. ASSUME NEW p \in near PROVE Linear!Projection(part, p.at) \in 0..length
    <3>1. p.at \in Int \X Int
      BY <1>1, <1>6
    <3> QED
      BY <1>3, <1>4, <3>1, ProjectionType
  <2>3. places \subseteq 0..length
    BY <2>2
  <2> HIDE DEF places, length, spacing
  <2> QED
    BY <1>2, <1>4, <2>1, <2>3, SpreadHolds
<1>11. /\ DOMAIN s = 1..n /\ \A k \in DOMAIN s : s[k] \in near
       /\ \A p \in near : \E k \in DOMAIN s : s[k] = p
  <2> HIDE DEF poles
  <2> QED
    BY <1>1, <1>3, <1>4, <1>6, OrderTakesAll
<1> HIDE DEF s, n, near
<1>12. spans = {<<s[i], s[i + 1]>> : i \in {j \in 1..(n - 1) : s[j].at # s[j + 1].at}}
  <2>1. Len(s) = n
    BY <1>6, <1>11
  <2> QED
    BY <2>1 DEF Linear!WireSpans, s
<1> HIDE DEF spans
<1>13. IsFiniteSet(ats) /\ ats # {}
  <2> DEFINE h == [p \in near |-> p.at]
  <2>1. ats = {h[p] : p \in near}
    OBVIOUS
  <2> HIDE DEF h
  <2>2. IsFiniteSet({h[p] : p \in near})
    BY <1>6, FiniteImage
  <2>3. ats # {}
    BY <1>9
  <2> HIDE DEF ats
  <2> QED
    BY <2>1, <2>2, <2>3
<1>14. ASSUME Linear!Cardinality(ats) > 1, NEW p \in near
       PROVE  \E span \in spans : p.at \in {span[1].at, span[2].at}
  <2>1. \E q \in near : q.at # p.at
    <3> SUFFICES ASSUME \A q \in near : q.at = p.at PROVE FALSE
      OBVIOUS
    <3>1. ats = {p.at}
      OBVIOUS
    <3>2. Cardinality({p.at}) = 1
      BY FS_Singleton
    <3> HIDE DEF ats
    <3> QED
      BY <1>14, <3>1, <3>2, LinearCount
  <2>2. PICK q \in near : q.at # p.at
    BY <2>1
  <2>3. PICK k \in 1..n, m \in 1..n : s[k] = p /\ s[m] = q
    BY <1>11
  <2>4. s[k].at # s[m].at
    BY <2>2, <2>3
  <2>5. PICK i \in 1..(n - 1) : s[i].at # s[i + 1].at /\ s[k].at \in {s[i].at, s[i + 1].at}
    BY <1>6, <2>4, RowIsSpanned
  <2> DEFINE span == <<s[i], s[i + 1]>>
  <2>6. span \in spans
    BY <1>12, <2>5
  <2>7. span[1] = s[i] /\ span[2] = s[i + 1]
    OBVIOUS
  <2> HIDE DEF span
  <2> QED
    BY <2>3, <2>5, <2>6, <2>7
<1>15. ASSUME Linear!Cardinality(ats) = 1 PROVE spans = {}
  <2>1. PICK a : ats = {a}
    <3> HIDE DEF ats
    <3> QED
      BY <1>13, <1>15, LinearCount, FS_Singleton
  <2>2. \A i \in 1..n : s[i].at = a
    <3>1. \A p \in near : p.at = a
      BY <2>1
    <3> QED
      BY <1>11, <3>1
  <2>3. \A j \in 1..(n - 1) : j \in 1..n /\ j + 1 \in 1..n
    BY <1>6
  <2>4. \A j \in 1..(n - 1) : s[j].at = s[j + 1].at
    BY <2>2, <2>3
  <2> QED
    BY <1>12, <2>4
<1>16. Linear!SafetyZone(f.voltage) # 0 <=> \E z \in Linear!SafetyZones(features) : z.line = f.id /\ z.part = part
  BY ZonesAreOfParts
<1> HIDE DEF ats, places, length, spacing
<1> QED
  BY <1>9, <1>10, <1>14, <1>15, <1>16 DEF near, spans, ats, places, length, spacing

\* Clearances are whole numbers and finitely many.
LEMMA ClearancesAre ==
  ASSUME NEW bridge, bridge.z0 \in Int, bridge.z1 \in Int, bridge.length \in Nat \ {0},
         NEW crossings, IsFiniteSet(crossings),
         \A c \in crossings : c.kind \in {"road", "rail"} /\ c.at \in Int /\ c.ground \in Int,
         NEW kind
  PROVE  /\ IsFiniteSet(Roads!Clearances(bridge, crossings, kind))
         /\ Roads!Clearances(bridge, crossings, kind) \subseteq Int
<1> DEFINE T == {d \in crossings : d.kind = kind /\ d.ground # Roads!Unknown}
           h == [c \in T |-> Roads!Deck(bridge, c.at) - c.ground * bridge.length]
<1>1. IsFiniteSet(T)
  BY FS_Subset
<1>2. Roads!Clearances(bridge, crossings, kind) = {h[c] : c \in T}
  BY DEF Roads!Clearances
<1>3. \A c \in T : h[c] \in Int
  <2>1. \A z \in Int : Roads!OrZero(z) \in Int
    BY DEF Roads!OrZero
  <2>2. \A c \in T : Roads!Deck(bridge, c.at) \in Int
    BY <2>1 DEF Roads!Deck
  <2> QED
    BY <2>2
<1> HIDE DEF T, h
<1>4. IsFiniteSet({h[c] : c \in T})
  BY <1>1, FiniteImage
<1> QED
  BY <1>2, <1>3, <1>4

\* The lift is the greater deficit of the two kinds, or nothing.
LEMMA LiftSuffices ==
  ASSUME NEW bridge, bridge.z0 \in Int, bridge.z1 \in Int, bridge.length \in Nat \ {0},
         NEW crossings, IsFiniteSet(crossings),
         \A c \in crossings : c.kind \in {"road", "rail"} /\ c.at \in Int /\ c.ground \in Int
  PROVE  LET lift == Roads!Lift(bridge, crossings)
             Measured(kind) == Roads!Clearances(bridge, crossings, kind)
         IN  /\ lift \in Nat
             /\ \A kind \in {"road", "rail"} : \A z \in Measured(kind) :
                  z + lift >= Roads!CLEARANCE[kind] * bridge.length
             /\ lift # 0 => \E kind \in {"road", "rail"} : \E z \in Measured(kind) :
                  z + lift = Roads!CLEARANCE[kind] * bridge.length
<1> DEFINE lift == Roads!Lift(bridge, crossings)
           Measured(kind) == Roads!Clearances(bridge, crossings, kind)
           norm(kind) == Roads!CLEARANCE[kind] * bridge.length
           Deficit(kind) == IF Measured(kind) = {} THEN 0 ELSE norm(kind) - Min(Measured(kind))
           D == {Deficit("road"), Deficit("rail"), 0}
<1>1. ASSUME NEW kind \in {"road", "rail"}
      PROVE  /\ norm(kind) \in Int /\ Deficit(kind) \in Int
             /\ \A z \in Measured(kind) : z \in Int /\ z >= norm(kind) - Deficit(kind)
             /\ Measured(kind) # {} => norm(kind) - Deficit(kind) \in Measured(kind)
  <2>1. norm(kind) \in Int
    BY DEF Roads!CLEARANCE
  <2>2. IsFiniteSet(Measured(kind)) /\ Measured(kind) \subseteq Int
    BY ClearancesAre
  <2> HIDE DEF Measured, norm
  <2>3. Measured(kind) # {} => Min(Measured(kind)) \in Measured(kind) /\ Min(Measured(kind)) \in Int /\ \A z \in Measured(kind) : Min(Measured(kind)) <= z
    BY <2>2, MinIs
  <2>4. Measured(kind) # {} => norm(kind) - Deficit(kind) = Min(Measured(kind))
    BY <2>1, <2>3
  <2> QED
    BY <2>1, <2>2, <2>3, <2>4
<1>2. lift = Max(D)
  BY LinearMax, LinearMin DEF Roads!Lift
<1> HIDE DEF Deficit, norm, Measured
<1>3. D \subseteq Int /\ D # {} /\ IsFiniteSet(D)
  <2>1. IsFiniteSet({Deficit("road")} \cup {Deficit("rail")}) /\ IsFiniteSet({0})
    BY FS_Union, FS_Singleton
  <2>2. D = ({Deficit("road")} \cup {Deficit("rail")}) \cup {0}
    OBVIOUS
  <2> HIDE DEF D
  <2>3. IsFiniteSet(D)
    BY <2>1, <2>2, FS_Union
  <2> QED
    BY <1>1, <2>2, <2>3
<1>4. lift \in D /\ lift \in Int /\ \A d \in D : lift >= d
  <2> HIDE DEF D, lift
  <2> QED
    BY <1>2, <1>3, MaxIs
<1> HIDE DEF lift
<1>5. lift \in Nat /\ lift >= Deficit("road") /\ lift >= Deficit("rail")
  BY <1>4
<1>6. ASSUME NEW kind \in {"road", "rail"}, NEW z \in Measured(kind) PROVE z + lift >= norm(kind)
  <2>1. lift >= Deficit(kind)
    BY <1>5
  <2> QED
    BY <1>1, <1>4, <2>1
<1>7. ASSUME lift # 0 PROVE \E kind \in {"road", "rail"} : \E z \in Measured(kind) : z + lift = norm(kind)
  <2>1. PICK kind \in {"road", "rail"} : lift = Deficit(kind)
    BY <1>4, <1>7
  <2>2. Measured(kind) # {}
    BY <1>7, <2>1 DEF Deficit
  <2>3. norm(kind) - lift \in Measured(kind)
    BY <1>1, <2>1, <2>2
  <2>4. (norm(kind) - lift) + lift = norm(kind)
    BY <1>1, <1>4
  <2> QED
    BY <2>3, <2>4
<1> QED
  BY <1>5, <1>6, <1>7 DEF Measured, norm, lift

\* A road is drawn once, and a bridge that crosses something is above it.
LEMMA RoadsAreAlwaysWhole ==
  ASSUME NEW features, \A f, g \in features : f.id = g.id => f = g,
         \A f \in features : f.parts \in Nat /\ f.multi \in BOOLEAN,
         NEW bridge, bridge.z0 \in Int, bridge.z1 \in Int, bridge.length \in Nat \ {0},
         NEW crossings, IsFiniteSet(crossings),
         \A c \in crossings : c.kind \in {"road", "rail"} /\ c.at \in Int /\ c.ground \in Int
  PROVE  Roads!RoadsAreWhole(features, bridge, crossings)
<1> DEFINE ribbons == Roads!RoadRibbons(features)
           b == Roads!BridgeRibbon(bridge, crossings)
           lift == Roads!Lift(bridge, crossings)
           Measured(kind) == Roads!Clearances(bridge, crossings, kind)
           norm(kind) == Roads!CLEARANCE[kind] * bridge.length
           Ribbon(f) == [id |-> f.id, width |-> Roads!ComputeWidth(f), network |-> Roads!ClassifyRoadNetwork(f.class),
                         axis |-> f.parts = 1]
<1>1. ASSUME NEW f \in features, f.layer = "osm_roads", f.parts > 0
      PROVE  {r \in ribbons : r.id = f.id} = IF Roads!IsBridge(f) THEN {} ELSE {Ribbon(f)}
  <2>1. ribbons = {Ribbon(g) : g \in {g \in features : g.layer = "osm_roads" /\ ~ Roads!IsBridge(g) /\ g.parts > 0}}
    BY DEF Roads!RoadRibbons
  <2>2. \A g \in features : Ribbon(g).id = g.id
    OBVIOUS
  <2> HIDE DEF Ribbon, ribbons
  <2>3. ASSUME NEW r \in ribbons, r.id = f.id PROVE ~ Roads!IsBridge(f) /\ r = Ribbon(f)
    <3>1. PICK g \in features : r = Ribbon(g) /\ ~ Roads!IsBridge(g)
      BY <2>1
    <3>2. g = f
      BY <2>2, <2>3, <3>1
    <3> QED
      BY <3>1, <3>2
  <2>4. ~ Roads!IsBridge(f) => Ribbon(f) \in ribbons /\ Ribbon(f).id = f.id
    BY <1>1, <2>1, <2>2
  <2> QED
    BY <2>3, <2>4
<1>2. ASSUME NEW f \in features, f.layer = "osm_roads", f.parts > 0
      PROVE  /\ Roads!Cardinality({r \in ribbons : r.id = f.id}) + (IF Roads!HasDeck(f) THEN 1 ELSE 0)
                  = IF Roads!IsBridge(f) /\ (f.multi \/ f.parts > 1) THEN 0 ELSE 1
             /\ f.class \in Roads!BACKBONE_HIGHWAY_CLASSES => \A r \in ribbons : r.id = f.id => ~ Roads!CanRebuild(r, 1)
  <2> DEFINE mine == {r \in ribbons : r.id = f.id}
  <2>1. mine = IF Roads!IsBridge(f) THEN {} ELSE {Ribbon(f)}
    BY <1>1, <1>2
  <2>2. Cardinality({}) = 0 /\ Cardinality({Ribbon(f)}) = 1
    BY FS_EmptySet, FS_Singleton
  <2>3. ASSUME f.class \in Roads!BACKBONE_HIGHWAY_CLASSES, NEW r \in mine PROVE ~ Roads!CanRebuild(r, 1)
    <3>1. r = Ribbon(f)
      BY <2>1
    <3>2. r.network = "backbone"
      BY <2>3, <3>1 DEF Roads!ClassifyRoadNetwork
    <3> QED
      BY <3>2 DEF Roads!CanRebuild
  <2> HIDE DEF Ribbon
  <2>4. Roads!Cardinality(mine) = IF Roads!IsBridge(f) THEN 0 ELSE 1
    BY <2>1, <2>2, LinearCount
  <2>5. Roads!HasDeck(f) <=> Roads!IsBridge(f) /\ ~ (f.multi \/ f.parts > 1)
    BY <1>2 DEF Roads!HasDeck
  <2>6. Roads!Cardinality(mine) + (IF Roads!HasDeck(f) THEN 1 ELSE 0)
          = IF Roads!IsBridge(f) /\ (f.multi \/ f.parts > 1) THEN 0 ELSE 1
    <3> HIDE DEF mine
    <3> QED
      BY <2>4, <2>5
  <2> QED
    BY <2>3, <2>6
<1>3. /\ lift \in Nat
      /\ \A kind \in {"road", "rail"} : \A z \in Measured(kind) : z + lift >= norm(kind)
      /\ lift # 0 => \E kind \in {"road", "rail"} : \E z \in Measured(kind) : z + lift = norm(kind)
  BY LiftSuffices
<1>4. \A kind : Measured(kind) = {Roads!Deck(bridge, c.at) - c.ground * bridge.length :
                                 c \in {d \in crossings : d.kind = kind /\ d.ground # Roads!Unknown}}
  BY DEF Roads!Clearances
<1>5. b.lift = lift /\ (b.official <=> lift = 0)
  BY DEF Roads!BridgeRibbon
<1>6. b.clearance = IF Measured("road") \cup Measured("rail") = {} THEN {} ELSE {Min(Measured("road") \cup Measured("rail")) + lift}
  BY LinearMin DEF Roads!BridgeRibbon
<1>7. \A z \in Int : Roads!OrZero(z) \in Int
  BY DEF Roads!OrZero
<1>8. \A at \in Int : Roads!Deck(bridge, at) \in Int
  BY <1>7 DEF Roads!Deck
<1> HIDE DEF b, lift, Measured
<1>9. ASSUME NEW c \in crossings, c.ground # Roads!Unknown
      PROVE  Roads!Deck(bridge, c.at) + b.lift - c.ground * bridge.length >= norm(c.kind)
  <2> DEFINE z == Roads!Deck(bridge, c.at) - c.ground * bridge.length
             k == c.kind
  <2>1. z \in Measured(k) /\ k \in {"road", "rail"}
    BY <1>4, <1>9
  <2>2. z + lift >= norm(k)
    BY <1>3, <2>1
  <2>3. Roads!Deck(bridge, c.at) \in Int /\ c.ground * bridge.length \in Int /\ lift \in Int
    BY <1>3, <1>8
  <2>4. Roads!Deck(bridge, c.at) + b.lift - c.ground * bridge.length = z + lift
    BY <1>5, <2>3
  <2> QED
    BY <2>2, <2>4
<1>10. ASSUME ~ b.official
       PROVE  \E c \in crossings : Roads!Deck(bridge, c.at) + b.lift - c.ground * bridge.length = norm(c.kind)
  <2>0. PICK kind \in {"road", "rail"} : \E z \in Measured(kind) : z + lift = norm(kind)
    BY <1>3, <1>5, <1>10
  <2>1. PICK z \in Measured(kind) : z + lift = norm(kind)
    BY <2>0
  <2>2. PICK c \in crossings : c.kind = kind /\ z = Roads!Deck(bridge, c.at) - c.ground * bridge.length
    BY <1>4
  <2>3. Roads!Deck(bridge, c.at) \in Int /\ c.ground * bridge.length \in Int /\ lift \in Int
    BY <1>3, <1>8
  <2>4. Roads!Deck(bridge, c.at) + b.lift - c.ground * bridge.length = norm(c.kind)
    BY <1>5, <2>1, <2>2, <2>3
  <2> QED
    BY <2>4
<1>11. Roads!Deck(bridge, bridge.length) = Roads!OrZero(bridge.z1) * bridge.length
  <2> DEFINE x == Roads!OrZero(bridge.z0)
             y == Roads!OrZero(bridge.z1)
             l == bridge.length
  <2>1. x \in Int /\ y \in Int /\ l \in Int
    BY <1>7
  <2>2. Roads!Deck(bridge, l) = x * l + (y - x) * l
    BY DEF Roads!Deck
  <2> HIDE DEF x, y, l
  <2>3. x * l + (y - x) * l = y * l
    BY <2>1
  <2> QED
    BY <2>2, <2>3 DEF x, y, l
<1>12. \A z \in b.clearance : z >= norm("road")
  <2> DEFINE all == Measured("road") \cup Measured("rail")
  <2>1. IsFiniteSet(Measured("road")) /\ Measured("road") \subseteq Int /\ IsFiniteSet(Measured("rail")) /\ Measured("rail") \subseteq Int
    BY ClearancesAre DEF Measured
  <2>2. IsFiniteSet(all) /\ all \subseteq Int
    BY <2>1, FS_Union
  <2>3. norm("road") <= norm("rail") /\ norm("road") \in Int /\ norm("rail") \in Int
    BY DEF Roads!CLEARANCE
  <2> HIDE DEF norm
  <2>4. \A z \in all : z + lift >= norm("road")
    BY <1>3, <2>1, <2>3
  <2>5. b.clearance = IF all = {} THEN {} ELSE {Min(all) + lift}
    BY <1>6
  <2> HIDE DEF all
  <2>6. all # {} => Min(all) \in all
    BY <2>2, MinIs
  <2> QED
    BY <2>4, <2>5, <2>6
<1> HIDE DEF ribbons
<1> QED
  BY <1>2, <1>9, <1>10, <1>11, <1>12 DEF Roads!RoadsAreWhole, ribbons, b

\* The network of a single way is that of its class.
LEMMA NetworkOfOne ==
  ASSUME NEW ways \in Seq(Int), Len(ways) = 1, NEW tagsOf
  PROVE  Roads!NetworkOf(ways, tagsOf) = Roads!ClassifyRoadNetwork(Roads!Tags(ways[1], tagsOf).highway)
<1> DEFINE key == "highway"
           with == {i \in DOMAIN ways : Roads!Tags(ways[i], tagsOf)[key] # Roads!None}
           first == Roads!FirstTag(ways, tagsOf, key)
<1>1. DOMAIN ways = {1}
  OBVIOUS
<1>2. first = IF with = {} THEN Roads!None ELSE Roads!Tags(ways[Roads!Min(with)], tagsOf)[key]
  BY DEF Roads!FirstTag
<1>3. with = {} \/ with = {1}
  BY <1>1, ZenonT(30)
<1>4. Min({1}) = 1
  <2>1. \E x \in {1} : \A y \in {1} : x <= y
    OBVIOUS
  <2>2. Min({1}) \in {1}
    BY ONLY <2>1, SMTT(30) DEF Min
  <2> QED
    BY <2>2
<1>5. with = {} => Roads!Tags(ways[1], tagsOf)[key] = Roads!None
  BY <1>1
<1> HIDE DEF with, first
<1>6. first = Roads!Tags(ways[1], tagsOf)[key]
  BY <1>2, <1>3, <1>4, <1>5, LinearMin
<1> QED
  BY <1>6 DEF Roads!NetworkOf, first

\* Lanes fit together.
LEMMA LanesAlwaysFit ==
  ASSUME NEW lanes, \A l \in lanes : l \in [ways : Seq(Int), type : STRING, cells : SUBSET Int],
         NEW areas, \A a \in areas : a \in [type : STRING, cells : SUBSET Int],
         NEW tagsOf, NEW circle
  PROVE  Roads!LanesFit(lanes, areas, tagsOf, circle)
<1> DEFINE here == Roads!Localized(lanes, circle)
           n == Roads!LaneNetwork(lanes, areas, tagsOf, circle)
           Row(l) == [lane |-> l, surface |-> Roads!SurfaceForLane(l, tagsOf), network |-> Roads!NetworkOf(l.ways, tagsOf)]
           backbone == UNION {l.cells : l \in {k \in here : Roads!NetworkOf(k.ways, tagsOf) = "backbone"}}
           Paved(ways) == \A i \in DOMAIN ways : Roads!Tags(ways[i], tagsOf).surface \notin Roads!UNPAVED_SURFACES
           Area(a) == [area |-> a, network |-> IF Roads!Touch(a.cells, backbone) THEN "backbone" ELSE "internal"]
<1>1. ASSUME NEW l \in here PROVE l \in [ways : Seq(Int), type : STRING, cells : SUBSET Int] /\ l.cells \subseteq circle
  <2>1. PICK t \in lanes : l = [t EXCEPT !.cells = t.cells \cap circle]
    BY DEF Roads!Localized
  <2>2. t \in [ways : Seq(Int), type : STRING, cells : SUBSET Int]
    OBVIOUS
  <2> QED
    BY <2>1, <2>2
<1>2. /\ n.lanes = {Row(l) : l \in here}
      /\ n.curbs = Roads!Curbs(here, tagsOf)
      /\ n.areas = {Area(a) : a \in Roads!Localized(areas, circle)}
  BY DEF Roads!LaneNetwork
<1> HIDE DEF n, here
<1>3. \A l \in n.lanes : l.lane \in here /\ l = Row(l.lane)
  BY <1>2
<1>4. ASSUME NEW ways, NEW c
      PROVE  <<ways, c>> \in n.curbs <=>
               /\ ways \in {l.ways : l \in here} /\ c \in UNION {l.cells : l \in here}
               /\ Paved(ways)
               /\ \/ c \in Roads!CellsOfType(here, ways, "Driving") /\ c + 1 \in Roads!CellsOfType(here, ways, "Sidewalk")
                  \/ c \in Roads!CellsOfType(here, ways, "Sidewalk") /\ c + 1 \in Roads!CellsOfType(here, ways, "Driving")
  BY <1>2 DEF Roads!Curbs
<1>5. ASSUME NEW l \in here PROVE l.cells \subseteq Roads!CellsOfType(here, l.ways, l.type)
  BY DEF Roads!CellsOfType
<1>6. ASSUME NEW l \in n.lanes, NEW k \in n.lanes, NEW c \in l.lane.cells,
             l.lane.ways = k.lane.ways, {l.lane.type, k.lane.type} = {"Driving", "Sidewalk"}, c + 1 \in k.lane.cells
      PROVE  Paved(l.lane.ways) <=> <<l.lane.ways, c>> \in n.curbs
  <2> DEFINE a == l.lane
             b == k.lane
  <2>1. a \in here /\ b \in here /\ a.ways = b.ways /\ c \in a.cells /\ c + 1 \in b.cells
    BY <1>3, <1>6
  <2>2. \/ a.type = "Driving" /\ b.type = "Sidewalk"
        \/ a.type = "Sidewalk" /\ b.type = "Driving"
    BY <1>6
  <2> HIDE DEF a, b
  <2>3. c \in Roads!CellsOfType(here, a.ways, a.type) /\ c + 1 \in Roads!CellsOfType(here, a.ways, b.type)
    BY <1>5, <2>1
  <2>4. a.ways \in {x.ways : x \in here} /\ c \in UNION {x.cells : x \in here}
    BY <2>1
  <2> HIDE DEF Paved
  <2>5. Paved(a.ways) <=> <<a.ways, c>> \in n.curbs
    BY <1>4, <2>2, <2>3, <2>4
  <2> QED
    BY <2>5 DEF a
<1>7. ASSUME NEW x \in n.curbs PROVE {x[2], x[2] + 1} \subseteq circle
  <2>1. PICK ways, c : x = <<ways, c>>
    BY <1>2 DEF Roads!Curbs
  <2>2. \A type : Roads!CellsOfType(here, ways, type) \subseteq circle
    BY <1>1 DEF Roads!CellsOfType
  <2>3. c \in circle /\ c + 1 \in circle
    BY <1>4, <2>1, <2>2
  <2> QED
    BY <2>1, <2>3
<1>8. ASSUME NEW l \in n.lanes, Len(l.lane.ways) = 1
      PROVE  l.network = Roads!ClassifyRoadNetwork(Roads!Tags(l.lane.ways[1], tagsOf).highway)
  <2>1. l.lane \in here /\ l.network = Roads!NetworkOf(l.lane.ways, tagsOf)
    BY <1>3
  <2>2. l.lane.ways \in Seq(Int)
    BY <1>1, <2>1
  <2> QED
    BY <1>8, <2>1, <2>2, NetworkOfOne
<1>9. ASSUME NEW a \in n.areas
      PROVE  a.network = "backbone" <=> \E l \in n.lanes : l.network = "backbone" /\ Roads!Touch(a.area.cells, l.lane.cells)
  <2>1. a.network = "backbone" <=> Roads!Touch(a.area.cells, backbone)
    BY <1>2
  <2> DEFINE cells == a.area.cells
  <2>2. ASSUME Roads!Touch(cells, backbone)
        PROVE  \E l \in n.lanes : l.network = "backbone" /\ Roads!Touch(cells, l.lane.cells)
    <3>1. PICK c \in cells, d \in backbone : c - d \in {-1, 0, 1}
      BY <2>2 DEF Roads!Touch
    <3>2. PICK l \in here : Roads!NetworkOf(l.ways, tagsOf) = "backbone" /\ d \in l.cells
      OBVIOUS
    <3>3. Row(l) \in n.lanes /\ Row(l).lane = l /\ Row(l).network = "backbone"
      BY <1>2, <3>2
    <3>4. Roads!Touch(cells, l.cells)
      BY <3>1, <3>2 DEF Roads!Touch
    <3> HIDE DEF Row
    <3> QED
      BY <3>3, <3>4
  <2>3. ASSUME NEW l \in n.lanes, l.network = "backbone", Roads!Touch(cells, l.lane.cells)
        PROVE  Roads!Touch(cells, backbone)
    <3>1. l.lane \in here /\ Roads!NetworkOf(l.lane.ways, tagsOf) = "backbone"
      BY <1>3, <2>3
    <3>2. l.lane.cells \subseteq backbone
      BY <3>1
    <3> HIDE DEF backbone
    <3> QED
      BY <2>3, <3>2 DEF Roads!Touch
  <2> QED
    BY <2>1, <2>2, <2>3
<1>10. ASSUME NEW l \in n.lanes, l.lane.type = "Buffer(Verge)" PROVE l.surface = "grass"
  <2>1. l.surface = Roads!SurfaceForLane(l.lane, tagsOf)
    BY <1>3
  <2> QED
    BY <1>10, <2>1 DEF Roads!SurfaceForLane
<1> HIDE DEF Paved, Row, Area, backbone
<1> QED
  BY <1>6, <1>7, <1>8, <1>9, <1>10 DEF Roads!LanesFit, n, Paved
=============================================================================
