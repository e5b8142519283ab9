------------------------------ MODULE SurveyProofs ------------------------------
(***************************************************************************)
(* Theorems about Survey for all boundaries, resolutions, spacings, swaths *)
(* and runs.                                                               *)
(*                                                                         *)
(* The sampling loop has counted and boxed what it has passed (Seen), and  *)
(* two calculations of one resolution pass the same cells, if any; so what *)
(* a recommended line reaches is not missed again.  Where coordinates are  *)
(* exact floats the lines of a plan are evenly Spaced, and a centre inside *)
(* the boundary is past the last of them by at most a spacing.             *)
(*                                                                         *)
(* A ray crosses of the two parts of a ring the edges it crosses of the    *)
(* whole and, for both parts or for neither, the line of the cut; the sums *)
(* of their areas have that line once forth and once back.  Rounding keeps *)
(* the order of a number and a float, and no float is passed over, so the  *)
(* lines of a plan advance wherever floats are as close as they are.       *)
(***************************************************************************)
EXTENDS Survey, FiniteSetTheorems, SequenceTheorems, TLAPS

Polygons == Seq(Seq(Int \X Int))

-----------------------------------------------------------------------------
(* Least and greatest numbers *)

LEMMA MinIs ==
  ASSUME NEW S, S \subseteq Int, NEW x \in S, \A y \in S : x <= y
  PROVE  Min(S) = x
<1>1. \A z \in S : (\A y \in S : z <= y) => z = x
  OBVIOUS
<1> QED
  BY <1>1 DEF Min

LEMMA MaxIs ==
  ASSUME NEW S, S \subseteq Int, NEW x \in S, \A y \in S : x >= y
  PROVE  Max(S) = x
<1>1. \A z \in S : (\A y \in S : z >= y) => z = x
  OBVIOUS
<1> QED
  BY <1>1 DEF Max

LEMMA MinOfTwo ==
  ASSUME NEW a \in Int, NEW b \in Int
  PROVE  Min({a, b}) = IF a <= b THEN a ELSE b
<1>1. CASE a <= b
  BY <1>1, MinIs
<1>2. CASE ~(a <= b)
  BY <1>2, MinIs
<1> QED
  BY <1>1, <1>2

LEMMA MaxOfTwo ==
  ASSUME NEW a \in Int, NEW b \in Int
  PROVE  Max({a, b}) = IF a >= b THEN a ELSE b
<1>1. CASE a >= b
  BY <1>1, MaxIs
<1>2. CASE ~(a >= b)
  BY <1>2, MaxIs
<1> QED
  BY <1>1, <1>2

(* A finite set of numbers has a least one and a greatest one: of those that *)
(* had not, one would be minimal, and so would it less any of its members.   *)
LEMMA FiniteHasEnds ==
  ASSUME NEW S, S \subseteq Int, IsFiniteSet(S), S # {}
  PROVE  \E x, z \in S : \A y \in S : x <= y /\ y <= z
<1> DEFINE Ended(U) == \E x, z \in U : \A y \in U : x <= y /\ y <= z
           Bad == {U \in FiniteSubsetsOf(S) : U # {} /\ ~Ended(U)}
<1> SUFFICES ASSUME ~Ended(S) PROVE FALSE
  OBVIOUS
<1>1. S \in Bad
  BY DEF FiniteSubsetsOf
<1>2. PICK U \in Bad : \A V \in Bad : ~(<<V, U>> \in StrictSubsetOrdering(S))
  BY <1>1, FS_StrictSubsetOrderingWellFounded, WFMin
<1>3. U \subseteq S /\ IsFiniteSet(U) /\ U # {} /\ ~Ended(U)
  BY DEF FiniteSubsetsOf
<1>4. PICK u \in U : TRUE
  BY <1>3
<1> DEFINE V == U \ {u}
<1>5. V \subseteq S /\ IsFiniteSet(V) /\ V \subseteq U /\ V # U
  BY <1>3, <1>4, FS_RemoveElement
<1>6. V = {} \/ Ended(V)
  BY <1>2, <1>5, <1>3 DEF StrictSubsetOrdering, FiniteSubsetsOf
<1>7. CASE V = {}
  BY <1>3, <1>4, <1>7
<1>8. CASE Ended(V)
  <2>1. PICK x \in V, z \in V : \A y \in V : x <= y /\ y <= z
    BY <1>8
  <2>2. u \in Int /\ x \in Int /\ z \in Int /\ U = V \cup {u} /\ V \subseteq Int
    BY <1>3, <1>4, <2>1
  <2> HIDE DEF V
  <2> DEFINE a == IF u <= x THEN u ELSE x
             b == IF u >= z THEN u ELSE z
  <2>3. a \in U /\ b \in U /\ \A y \in U : a <= y /\ y <= b
    BY <2>1, <2>2
  <2> QED
    BY <1>3, <2>3
<1> QED
  BY <1>6, <1>7, <1>8

LEMMA FiniteEnds ==
  ASSUME NEW S, S \subseteq Int, IsFiniteSet(S), S # {}
  PROVE  /\ Min(S) \in S /\ Max(S) \in S
         /\ \A y \in S : Min(S) <= y /\ y <= Max(S)
<1>1. PICK x \in S, z \in S : \A y \in S : x <= y /\ y <= z
  BY FiniteHasEnds
<1>2. Min(S) = x /\ Max(S) = z
  BY <1>1, MinIs, MaxIs
<1> QED
  BY <1>1, <1>2

-----------------------------------------------------------------------------
(* Bounds *)

LEMMA ImageIsFinite ==
  ASSUME NEW f, IsFiniteSet(DOMAIN f), f = [x \in DOMAIN f |-> f[x]]
  PROVE  IsFiniteSet({f[x] : x \in DOMAIN f})
<1>1. f \in Surjection(DOMAIN f, {f[x] : x \in DOMAIN f})
  BY DEF Surjection
<1> QED
  BY <1>1, FS_Surjection

LEMMA CoordinatesFinite ==
  ASSUME NEW polygon \in Polygons, NEW axis \in 1..2
  PROVE  Coordinates(polygon, axis) \subseteq Int /\ IsFiniteSet(Coordinates(polygon, axis))
<1> DEFINE of == [r \in DOMAIN polygon |-> {polygon[r][i][axis] : i \in DOMAIN polygon[r]}]
<1>1. DOMAIN polygon = 1..Len(polygon) /\ Len(polygon) \in Nat
      /\ \A r \in DOMAIN polygon : polygon[r] \in Seq(Int \X Int)
  BY DEF Polygons
<1>2. ASSUME NEW r \in DOMAIN polygon
      PROVE  /\ {polygon[r][i][axis] : i \in DOMAIN polygon[r]} \subseteq Int
             /\ IsFiniteSet({polygon[r][i][axis] : i \in DOMAIN polygon[r]})
  <2>1. /\ DOMAIN polygon[r] = 1..Len(polygon[r]) /\ Len(polygon[r]) \in Nat
        /\ \A i \in DOMAIN polygon[r] : polygon[r][i] \in Int \X Int
    BY <1>1
  <2> DEFINE f == [i \in DOMAIN polygon[r] |-> polygon[r][i][axis]]
  <2>2. \A i \in DOMAIN polygon[r] : polygon[r][i][axis] \in Int
    BY <2>1
  <2>3. IsFiniteSet(DOMAIN polygon[r])
    BY <2>1, FS_Interval
  <2>4. DOMAIN f = DOMAIN polygon[r] /\ \A i \in DOMAIN polygon[r] : f[i] = polygon[r][i][axis]
    OBVIOUS
  <2>5. IsFiniteSet({f[x] : x \in DOMAIN f})
    <3>1. IsFiniteSet(DOMAIN f) /\ f = [x \in DOMAIN f |-> f[x]]
      BY <2>3
    <3> HIDE DEF f
    <3> QED
      BY <3>1, ImageIsFinite
  <2>6. {f[x] : x \in DOMAIN f} = {polygon[r][i][axis] : i \in DOMAIN polygon[r]}
    BY <2>4
  <2> QED
    BY <2>2, <2>5, <2>6
<1>3. IsFiniteSet(DOMAIN polygon)
  BY <1>1, FS_Interval
<1>4. IsFiniteSet({of[r] : r \in DOMAIN of})
  <2>1. IsFiniteSet(DOMAIN of) /\ of = [x \in DOMAIN of |-> of[x]]
    BY <1>3
  <2> HIDE DEF of
  <2> QED
    BY <2>1, ImageIsFinite
<1>5. Coordinates(polygon, axis) = UNION {of[r] : r \in DOMAIN of}
  BY DEF Coordinates
<1>6. \A T \in {of[r] : r \in DOMAIN of} : IsFiniteSet(T) /\ T \subseteq Int
  BY <1>2
<1> HIDE DEF of
<1> QED
  BY <1>4, <1>5, <1>6, FS_UNION

LEMMA BoundsHold ==
  ASSUME NEW polygon \in Polygons, ValidPolygon(polygon)
  PROVE  /\ Bounds(polygon) \in Box
         /\ \A axis \in 1..2 :
              /\ Bounds(polygon).min[axis] = Min(Coordinates(polygon, axis))
              /\ Bounds(polygon).max[axis] = Max(Coordinates(polygon, axis))
              /\ Bounds(polygon).min[axis] \in Coordinates(polygon, axis)
              /\ Bounds(polygon).max[axis] \in Coordinates(polygon, axis)
              /\ \A n \in Coordinates(polygon, axis) :
                   Bounds(polygon).min[axis] <= n /\ n <= Bounds(polygon).max[axis]
<1>1. ASSUME NEW axis \in 1..2
      PROVE  Coordinates(polygon, axis) # {}
  <2>1. 1 \in DOMAIN polygon /\ 1 \in DOMAIN polygon[1]
    <3>1. polygon # << >> /\ polygon[1] \in Seq(Int \X Int) /\ Len(polygon[1]) >= 4
      BY DEF ValidPolygon, Polygons
    <3> QED
      BY <3>1 DEF Polygons
  <2>2. polygon[1][1][axis] \in {polygon[1][i][axis] : i \in DOMAIN polygon[1]}
    BY <2>1
  <2>3. {polygon[1][i][axis] : i \in DOMAIN polygon[1]}
          \in {{polygon[r][i][axis] : i \in DOMAIN polygon[r]} : r \in DOMAIN polygon}
    BY <2>1
  <2> QED
    BY <2>2, <2>3 DEF Coordinates
<1>2. \A axis \in 1..2 :
        LET S == Coordinates(polygon, axis) IN
        /\ Min(S) \in S /\ Max(S) \in S /\ S \subseteq Int
        /\ \A y \in S : Min(S) <= y /\ y <= Max(S)
  BY <1>1, CoordinatesFinite, FiniteEnds
<1>3. \A axis \in 1..2 :
        /\ Bounds(polygon).min[axis] = Min(Coordinates(polygon, axis))
        /\ Bounds(polygon).max[axis] = Max(Coordinates(polygon, axis))
  BY DEF Bounds
<1>4. Bounds(polygon) \in Box
  BY <1>2 DEF Bounds, Box
<1> QED
  BY <1>2, <1>3, <1>4

-----------------------------------------------------------------------------
(* Grids *)

GridType ==
  [near : Int \X Int, columns : Int, rows : Int, resolution : Nat \ {0}]
Places == [column : Nat, row : Nat]
Start == [column |-> 0, row |-> 0]

(* The centres that the loop has left behind when it stands at a.            *)
Seen(g, a) ==
  {p \in Centres(g) : \E column \in 0..(g.columns - 1), row \in 0..(g.rows - 1) :
     /\ p = Centre(g, column, row)
     /\ row < a.row \/ (row = a.row /\ column < a.column)}

LEMMA CentreType ==
  ASSUME NEW g \in GridType, NEW column \in Int, NEW row \in Int
  PROVE  /\ Centre(g, column, row) \in Int \X Int
         /\ Centre(g, column, row)[1] = g.near[1] + column * g.resolution + g.resolution \div 2
         /\ Centre(g, column, row)[2] = g.near[2] + row * g.resolution + g.resolution \div 2
<1>1. /\ g.resolution \in Int /\ g.resolution \div 2 \in Int
      /\ g.near[1] \in Int /\ g.near[2] \in Int
  BY DEF GridType
<1>2. column * g.resolution \in Int /\ row * g.resolution \in Int
  BY <1>1
<1> QED
  BY <1>1, <1>2 DEF Centre

(* No two cells have the same centre. *)
LEMMA CentreTellsCell ==
  ASSUME NEW g \in GridType, NEW column \in Int, NEW row \in Int, NEW i \in Int, NEW j \in Int,
         Centre(g, column, row) = Centre(g, i, j)
  PROVE  column = i /\ row = j
<1> DEFINE r == g.resolution
           half == g.resolution \div 2
<1>1. /\ r \in Nat \ {0} /\ half \in Int /\ g.near[1] \in Int /\ g.near[2] \in Int
  BY DEF GridType
<1>2. /\ g.near[1] + column * r + half = g.near[1] + i * r + half
      /\ g.near[2] + row * r + half = g.near[2] + j * r + half
  BY CentreType
<1> HIDE DEF r, half
<1>3. column * r = i * r /\ row * r = j * r
  <2>1. column * r \in Int /\ i * r \in Int /\ row * r \in Int /\ j * r \in Int
    BY <1>1
  <2> HIDE <1>2
  <2> QED
    BY <1>1, <1>2, <2>1
<1>4. \A x, y \in Int : x * r = y * r => x = y
  BY <1>1
<1> QED
  BY <1>3, <1>4

LEMMA CentresFinite ==
  ASSUME NEW g \in GridType
  PROVE  IsFiniteSet(Centres(g)) /\ Centres(g) \subseteq Int \X Int
<1> DEFINE pairs == (0..(g.columns - 1)) \X (0..(g.rows - 1))
           f == [x \in pairs |-> Centre(g, x[1], x[2])]
<1>1. IsFiniteSet(0..(g.columns - 1)) /\ IsFiniteSet(0..(g.rows - 1))
  <2>1. g.columns - 1 \in Int /\ g.rows - 1 \in Int
    BY DEF GridType
  <2> QED
    BY <2>1, FS_Interval
<1>2. IsFiniteSet(pairs)
  BY <1>1, FS_Product
<1>3. IsFiniteSet({f[x] : x \in DOMAIN f})
  <2>1. IsFiniteSet(DOMAIN f) /\ f = [x \in DOMAIN f |-> f[x]]
    BY <1>2
  <2> HIDE DEF f
  <2> QED
    BY <2>1, ImageIsFinite
<1>4. {f[x] : x \in DOMAIN f} = Centres(g)
  <2>1. \A x \in pairs : f[x] = Centre(g, x[1], x[2]) /\ x[1] \in 0..(g.columns - 1)
                         /\ x[2] \in 0..(g.rows - 1)
    OBVIOUS
  <2>2. \A column \in 0..(g.columns - 1), row \in 0..(g.rows - 1) :
          <<column, row>> \in pairs /\ f[<<column, row>>] = Centre(g, column, row)
    OBVIOUS
  <2>3. DOMAIN f = pairs
    OBVIOUS
  <2> HIDE DEF f, pairs
  <2>4. {f[x] : x \in DOMAIN f} \subseteq Centres(g)
    BY <2>1, <2>3 DEF Centres
  <2>5. ASSUME NEW p \in Centres(g)
        PROVE  p \in {f[x] : x \in DOMAIN f}
    <3>1. PICK column \in 0..(g.columns - 1), row \in 0..(g.rows - 1) : p = Centre(g, column, row)
      BY <2>5 DEF Centres
    <3> QED
      BY <2>2, <2>3, <3>1
  <2> QED
    BY <2>4, <2>5
<1>5. Centres(g) \subseteq Int \X Int
  BY CentreType DEF Centres
<1> QED
  BY <1>3, <1>4, <1>5

LEMMA SeenCell ==
  ASSUME NEW g \in GridType, NEW a \in Places, a.row < g.rows, a.column < g.columns
  PROVE  LET p == Centre(g, a.column, a.row)
             next == [a EXCEPT !.column = @ + 1]
         IN  /\ next \in Places
             /\ p \in Centres(g) /\ p \notin Seen(g, a)
             /\ Seen(g, next) = Seen(g, a) \cup {p}
<1> DEFINE p == Centre(g, a.column, a.row)
           next == [a EXCEPT !.column = @ + 1]
<1>1. /\ a.column \in 0..(g.columns - 1) /\ a.row \in 0..(g.rows - 1)
      /\ next \in Places /\ next.row = a.row /\ next.column = a.column + 1
      /\ a.column \in Nat /\ a.row \in Nat
  BY DEF Places, GridType
<1>2. p \in Centres(g)
  BY <1>1 DEF Centres
<1>3. p \notin Seen(g, a)
  <2> SUFFICES ASSUME NEW column \in 0..(g.columns - 1), NEW row \in 0..(g.rows - 1),
                      p = Centre(g, column, row),
                      row < a.row \/ (row = a.row /\ column < a.column)
               PROVE  FALSE
    BY DEF Seen
  <2>1. column = a.column /\ row = a.row
    BY <1>1, CentreTellsCell
  <2> QED
    BY <1>1, <2>1
<1>4. Seen(g, next) = Seen(g, a) \cup {p}
  <2>1. \A column, row \in Int :
          row < next.row \/ (row = next.row /\ column < next.column) <=>
            \/ row < a.row \/ (row = a.row /\ column < a.column)
            \/ row = a.row /\ column = a.column
    BY <1>1
  <2>2. Seen(g, next) \subseteq Seen(g, a) \cup {p}
    BY <2>1 DEF Seen
  <2>3. Seen(g, a) \cup {p} \subseteq Seen(g, next)
    BY <1>1, <1>2, <2>1 DEF Seen
  <2> QED
    BY <2>2, <2>3
<1> QED
  BY <1>1, <1>2, <1>3, <1>4

LEMMA SeenRow ==
  ASSUME NEW g \in GridType, NEW a \in Places, a.column >= g.columns
  PROVE  /\ [column |-> 0, row |-> a.row + 1] \in Places
         /\ Seen(g, [column |-> 0, row |-> a.row + 1]) = Seen(g, a)
<1> DEFINE next == [column |-> 0, row |-> a.row + 1]
<1>1. next \in Places /\ next.row = a.row + 1 /\ next.column = 0 /\ a.row \in Nat /\ a.column \in Nat
      /\ g.columns \in Int
  BY DEF Places, GridType
<1> HIDE DEF next
<1>2. \A column \in 0..(g.columns - 1), row \in Nat :
        row < next.row \/ (row = next.row /\ column < next.column) <=>
          row < a.row \/ (row = a.row /\ column < a.column)
  BY <1>1
<1>3. \A row \in 0..(g.rows - 1) : row \in Nat
  BY DEF GridType
<1>4. Seen(g, next) = Seen(g, a)
  BY <1>2, <1>3 DEF Seen
<1> QED
  BY <1>1, <1>4 DEF next

LEMMA SeenEnds ==
  ASSUME NEW g \in GridType
  PROVE  /\ Start \in Places /\ Seen(g, Start) = {}
         /\ \A a \in Places : a.row >= g.rows => Seen(g, a) = Centres(g)
<1>1. Start \in Places /\ Start.row = 0 /\ Start.column = 0
  BY DEF Start, Places
<1>2. Seen(g, Start) = {}
  BY <1>1 DEF Seen, GridType
<1>3. ASSUME NEW a \in Places, a.row >= g.rows
      PROVE  Seen(g, a) = Centres(g)
  <2>1. \A row \in 0..(g.rows - 1) : row < a.row
    BY <1>3 DEF Places, GridType
  <2> QED
    BY <2>1 DEF Seen, Centres
<1> QED
  BY <1>1, <1>2, <1>3

-----------------------------------------------------------------------------
(* What the loop has measured when it has seen the centres V                 *)

Inside(c, V) == {p \in V : PolygonContains(c.boundary, p)}
Missed(c, V) == {p \in Inside(c, V) : \A t \in DOMAIN c.tracks : ~CoveredBy(p, c.tracks[t])}
Repeated(c, V) ==
  {p \in Inside(c, V) : \E s, t \in DOMAIN c.tracks :
     s # t /\ CoveredBy(p, c.tracks[s]) /\ CoveredBy(p, c.tracks[t])}

Tallied(c, V) ==
  [inside |-> Cardinality(Inside(c, V)),
   covered |-> Cardinality(Inside(c, V) \ Missed(c, V)),
   overlap |-> Cardinality(Repeated(c, V))]

(* The least box around the cells of U, whose centres are half from a side.  *)
Boxes(box, U, half) ==
  /\ box = None <=> U = {}
  /\ U # {} =>
       /\ box \in Box
       /\ \A axis \in 1..2 :
            /\ \A p \in U : box.min[axis] <= p[axis] - half /\ p[axis] + half <= box.max[axis]
            /\ \E p \in U : box.min[axis] = p[axis] - half
            /\ \E p \in U : box.max[axis] = p[axis] + half

LEMMA PassesCount ==
  ASSUME NEW p, NEW tracks, IsFiniteSet(DOMAIN tracks)
  PROVE  /\ CoveragePasses(p, tracks) \in Nat
         /\ CoveragePasses(p, tracks) > 0 <=> \E t \in DOMAIN tracks : CoveredBy(p, tracks[t])
         /\ CoveragePasses(p, tracks) > 1 <=>
              \E s, t \in DOMAIN tracks :
                s # t /\ CoveredBy(p, tracks[s]) /\ CoveredBy(p, tracks[t])
<1> DEFINE T == {t \in DOMAIN tracks : CoveredBy(p, tracks[t])}
<1>1. IsFiniteSet(T)
  BY FS_Subset
<1>2. Cardinality(T) \in Nat
  BY <1>1, FS_CardinalityType
<1>3. Cardinality(T) = 0 <=> T = {}
  BY <1>1, FS_EmptySet
<1>4. Cardinality(T) = 1 <=> \E x : T = {x}
  BY <1>1, FS_Singleton
<1>5. T # {} <=> \E t \in DOMAIN tracks : CoveredBy(p, tracks[t])
  OBVIOUS
<1>6. (T # {} /\ ~\E x : T = {x}) <=>
        \E s, t \in DOMAIN tracks : s # t /\ CoveredBy(p, tracks[s]) /\ CoveredBy(p, tracks[t])
  <2>1. ASSUME T # {}, ~\E x : T = {x}
        PROVE  \E s, t \in T : s # t
    <3>1. PICK s \in T : TRUE
      BY <2>1
    <3>2. T # {s}
      BY <2>1
    <3> HIDE DEF T
    <3> QED
      BY <3>1, <3>2
  <2>2. ASSUME NEW s \in T, NEW t \in T, s # t
        PROVE  T # {} /\ ~\E x : T = {x}
    <3> HIDE DEF T
    <3> QED
      BY <2>2
  <2> QED
    BY <2>1, <2>2
<1>7. CoveragePasses(p, tracks) = Cardinality(T)
  BY DEF CoveragePasses
<1> DEFINE n == CoveragePasses(p, tracks)
<1>8. n \in Nat /\ (n > 0 <=> n # 0) /\ (n > 1 <=> n # 0 /\ n # 1)
  BY <1>2, <1>7
<1>9. (n = 0 <=> T = {}) /\ (n = 1 <=> \E x : T = {x})
  BY <1>3, <1>4, <1>7
<1> HIDE DEF T, n
<1>10. n > 0 <=> \E t \in DOMAIN tracks : CoveredBy(p, tracks[t])
  BY <1>5, <1>8, <1>9
<1>11. n > 1 <=> \E s, t \in DOMAIN tracks : s # t /\ CoveredBy(p, tracks[s]) /\ CoveredBy(p, tracks[t])
  BY <1>6, <1>8, <1>9
<1> QED
  BY <1>8, <1>10, <1>11 DEF n

LEMMA PartsFinite ==
  ASSUME NEW c, NEW V, IsFiniteSet(V)
  PROVE  /\ IsFiniteSet(Inside(c, V)) /\ IsFiniteSet(Missed(c, V)) /\ IsFiniteSet(Repeated(c, V))
         /\ IsFiniteSet(Inside(c, V) \ Missed(c, V))
<1>1. IsFiniteSet(Inside(c, V))
  BY FS_Subset DEF Inside
<1>2. Missed(c, V) \subseteq Inside(c, V) /\ Repeated(c, V) \subseteq Inside(c, V)
  BY DEF Missed, Repeated
<1> QED
  BY <1>1, <1>2, FS_Subset

(* A centre more outside the boundary changes nothing, one inside is counted.*)
LEMMA OneMore ==
  ASSUME NEW c, IsFiniteSet(DOMAIN c.tracks), NEW V, IsFiniteSet(V), NEW p, p \notin V
  PROVE  LET W == V \cup {p}
             passes == CoveragePasses(p, c.tracks)
         IN  IF PolygonContains(c.boundary, p)
               THEN /\ Tallied(c, W) = Counted(Tallied(c, V), passes)
                    /\ Missed(c, W) = IF passes = 0 THEN Missed(c, V) \cup {p} ELSE Missed(c, V)
               ELSE Tallied(c, W) = Tallied(c, V) /\ Missed(c, W) = Missed(c, V)
<1> DEFINE W == V \cup {p}
           passes == CoveragePasses(p, c.tracks)
           some == \E t \in DOMAIN c.tracks : CoveredBy(p, c.tracks[t])
           several == \E s, t \in DOMAIN c.tracks :
                        s # t /\ CoveredBy(p, c.tracks[s]) /\ CoveredBy(p, c.tracks[t])
<1>1. passes \in Nat /\ (passes > 0 <=> some) /\ (passes > 1 <=> several)
  BY PassesCount
<1>2. CASE ~PolygonContains(c.boundary, p)
  <2>1. Inside(c, W) = Inside(c, V)
    BY <1>2 DEF Inside
  <2>2. Missed(c, W) = Missed(c, V) /\ Repeated(c, W) = Repeated(c, V)
    BY <2>1 DEF Missed, Repeated
  <2> QED
    BY <1>2, <2>1, <2>2 DEF Tallied
<1>3. CASE PolygonContains(c.boundary, p)
  <2>1. Inside(c, W) = Inside(c, V) \cup {p} /\ p \notin Inside(c, V)
    BY <1>3 DEF Inside
  <2>2. Missed(c, W) = (IF some THEN Missed(c, V) ELSE Missed(c, V) \cup {p}) /\ p \notin Missed(c, V)
    BY <2>1 DEF Missed
  <2>3. Repeated(c, W) = (IF several THEN Repeated(c, V) \cup {p} ELSE Repeated(c, V))
        /\ p \notin Repeated(c, V)
    BY <2>1 DEF Repeated
  <2>4. Inside(c, W) \ Missed(c, W) =
          IF some THEN (Inside(c, V) \ Missed(c, V)) \cup {p} ELSE Inside(c, V) \ Missed(c, V)
    BY <2>1, <2>2
  <2>5. /\ IsFiniteSet(Inside(c, V)) /\ IsFiniteSet(Repeated(c, V))
        /\ IsFiniteSet(Inside(c, V) \ Missed(c, V))
    BY PartsFinite
  <2>6. Cardinality(Inside(c, W)) = Cardinality(Inside(c, V)) + 1
    BY <2>1, <2>5, FS_AddElement
  <2>7. Cardinality(Inside(c, W) \ Missed(c, W)) =
          IF some THEN Cardinality(Inside(c, V) \ Missed(c, V)) + 1
                  ELSE Cardinality(Inside(c, V) \ Missed(c, V))
    <3>1. p \notin Inside(c, V) \ Missed(c, V)
      BY <2>1
    <3>2. Cardinality((Inside(c, V) \ Missed(c, V)) \cup {p}) = Cardinality(Inside(c, V) \ Missed(c, V)) + 1
      BY <2>5, <3>1, FS_AddElement
    <3> QED
      BY <2>4, <3>2
  <2>8. Cardinality(Repeated(c, W)) =
          IF several THEN Cardinality(Repeated(c, V)) + 1 ELSE Cardinality(Repeated(c, V))
    BY <2>3, <2>5, FS_AddElement
  <2> HIDE DEF W, passes, some, several
  <2>9. Counted(Tallied(c, V), passes) = Tallied(c, W)
    BY <1>1, <2>6, <2>7, <2>8 DEF Counted, Tallied
  <2>10. passes = 0 <=> ~some
    BY <1>1
  <2> QED
    BY <1>3, <2>2, <2>9, <2>10 DEF W, passes
<1> QED
  BY <1>2, <1>3

LEMMA WidenedBox ==
  ASSUME NEW box, NEW U \in SUBSET (Int \X Int), NEW half \in Nat, Boxes(box, U, half),
         NEW p \in Int \X Int
  PROVE  Boxes(Widened(box, p, half), U \cup {p}, half)
<1> DEFINE cell == [min |-> <<p[1] - half, p[2] - half>>, max |-> <<p[1] + half, p[2] + half>>]
           W == U \cup {p}
<1>1. /\ cell \in Box
      /\ \A axis \in 1..2 : /\ cell.min[axis] = p[axis] - half /\ cell.max[axis] = p[axis] + half
                            /\ p[axis] \in Int
  BY DEF Box
<1> HIDE DEF cell
<1>2. CASE box = None
  <2>1. U = {} /\ Widened(box, p, half) = cell
    BY <1>2 DEF Boxes, Widened, cell
  <2> QED
    BY <1>1, <2>1, NoneAssumption DEF Boxes
<1>3. CASE box # None
  <2> DEFINE new == Widened(box, p, half)
  <2>1. U # {} /\ box \in Box
    BY <1>3 DEF Boxes
  <2>2. new = [min |-> <<Min({box.min[1], cell.min[1]}), Min({box.min[2], cell.min[2]})>>,
               max |-> <<Max({box.max[1], cell.max[1]}), Max({box.max[2], cell.max[2]})>>]
    BY <1>3 DEF Widened, cell
  <2>3. \A axis \in 1..2 : /\ box.min[axis] \in Int /\ cell.min[axis] \in Int
                           /\ box.max[axis] \in Int /\ cell.max[axis] \in Int
    BY <1>1, <2>1 DEF Box
  <2>4. \A axis \in 1..2 :
          /\ new.min[axis] = Min({box.min[axis], cell.min[axis]})
          /\ new.max[axis] = Max({box.max[axis], cell.max[axis]})
    <3>1. /\ new.min[1] = Min({box.min[1], cell.min[1]}) /\ new.min[2] = Min({box.min[2], cell.min[2]})
          /\ new.max[1] = Max({box.max[1], cell.max[1]}) /\ new.max[2] = Max({box.max[2], cell.max[2]})
      BY <2>2
    <3>2. \A axis \in 1..2 : axis = 1 \/ axis = 2
      OBVIOUS
    <3> HIDE DEF new
    <3> QED
      BY <3>1, <3>2
  <2>5. \A axis \in 1..2 :
          /\ new.min[axis] = IF box.min[axis] <= cell.min[axis] THEN box.min[axis] ELSE cell.min[axis]
          /\ new.max[axis] = IF box.max[axis] >= cell.max[axis] THEN box.max[axis] ELSE cell.max[axis]
    BY <2>3, <2>4, MinOfTwo, MaxOfTwo, SMTT(60)
  <2>6. new \in Box
    <3>1. /\ Min({box.min[1], cell.min[1]}) \in Int /\ Min({box.min[2], cell.min[2]}) \in Int
          /\ Max({box.max[1], cell.max[1]}) \in Int /\ Max({box.max[2], cell.max[2]}) \in Int
      BY <2>3, MinOfTwo, MaxOfTwo, SMTT(30)
    <3>2. \A a, b, c, d \in Int : [min |-> <<a, b>>, max |-> <<c, d>>] \in Box
      BY DEF Box
    <3> HIDE DEF new
    <3> QED
      BY <2>2, <3>1, <3>2
  <2> HIDE DEF new
  <2>7. ASSUME NEW axis \in 1..2
        PROVE  /\ \A q \in W : new.min[axis] <= q[axis] - half /\ q[axis] + half <= new.max[axis]
               /\ \E q \in W : new.min[axis] = q[axis] - half
               /\ \E q \in W : new.max[axis] = q[axis] + half
    <3>1. /\ \A q \in U : box.min[axis] <= q[axis] - half /\ q[axis] + half <= box.max[axis]
          /\ \E q \in U : box.min[axis] = q[axis] - half
          /\ \E q \in U : box.max[axis] = q[axis] + half
      BY <2>1 DEF Boxes
    <3>2. \A q \in W : q[axis] \in Int
      OBVIOUS
    <3>3. ASSUME NEW q \in W
          PROVE  new.min[axis] <= q[axis] - half /\ q[axis] + half <= new.max[axis]
      BY <1>1, <2>3, <2>5, <3>1, <3>2
    <3>4. \E q \in W : new.min[axis] = q[axis] - half
      BY <1>1, <2>5, <3>1
    <3>5. \E q \in W : new.max[axis] = q[axis] + half
      BY <1>1, <2>5, <3>1
    <3> QED
      BY <3>3, <3>4, <3>5
  <2>8. new # None /\ W # {}
    BY <2>6, NoneAssumption
  <2> QED
    BY <2>6, <2>7, <2>8 DEF Boxes, new
<1> QED
  BY <1>2, <1>3

-----------------------------------------------------------------------------
(* The invariant of a calculation *)

(* A call of CalculateCoverage: over the boundary b, with the first n runs.  *)
Asked(b, list, n, resolution) ==
  [boundary |-> b, tracks |-> [r \in 1..n |-> Track(list[r])], resolution |-> resolution]
AskedOf(c, b, list) ==
  \E n \in 0..Len(list), resolution \in Resolutions : c = Asked(b, list, n, resolution)

IsList(list) == \E S : list \in Seq(S)

Calculating ==
  IF call = None
    THEN at = Start /\ tally = EmptyTally /\ gap = None
    ELSE /\ AskedOf(call, boundary, runs)
         /\ grid \in Grids(call)
         /\ at \in Places
         /\ tally = Tallied(call, Seen(grid, at))
         /\ Boxes(gap, Missed(call, Seen(grid, at)), call.resolution \div 2)

(* What was returned is measured, on a grid that has cells.                  *)
Answered(answer, b, list) ==
  answer # None /\ answer.status = "ok" =>
    LET cells == Centres(answer.grid) IN
    /\ AskedOf(answer.call, b, list)
    /\ answer.grid \in Grids(answer.call)
    /\ answer.grid.columns > 0 /\ answer.grid.rows > 0
    /\ answer.tally = Tallied(answer.call, cells)
    /\ Boxes(answer.gap, Missed(answer.call, cells), answer.call.resolution \div 2)
    /\ answer.gap # None => answer.line = RecommendedLine(answer.gap, answer.call.resolution)

BoundaryInv == boundary \in Polygons /\ ValidPolygon(boundary)

CalculationInv ==
  BoundaryInv /\ IsList(runs) /\ Calculating /\ Answered(result, boundary, runs)

(* The grid of a calculation that has cells: what does not fit an int is cut.*)
FullGrid(b, resolution) ==
  [near |-> Bounds(b).min,
   columns |-> IF CellsAcross(Bounds(b), 1, resolution) <= MaxInt
                 THEN CellsAcross(Bounds(b), 1, resolution) ELSE MaxInt,
   rows |-> IF CellsAcross(Bounds(b), 2, resolution) <= MaxInt
              THEN CellsAcross(Bounds(b), 2, resolution) ELSE MaxInt,
   resolution |-> resolution]

LEMMA ResolutionType ==
  ASSUME NEW resolution \in Resolutions
  PROVE  resolution \in Nat \ {0} /\ resolution \div 2 \in Nat /\ resolution = 2 * (resolution \div 2)
<1>1. resolution \in Nat \ {0} /\ resolution % 2 = 0
  BY SurveyAssumption
<1> QED
  BY <1>1

LEMMA IntsAre == MinInt \in Int /\ MaxInt \in Int /\ MinInt < 0 /\ 0 <= MaxInt
<1>1. 2^(IntBits - 1) \in Int /\ 0 < 2^(IntBits - 1)
  BY CoverageAssumption
<1> QED
  BY <1>1 DEF MinInt, MaxInt

LEMMA AskedIs ==
  ASSUME NEW b, NEW list, NEW c, AskedOf(c, b, list), Len(list) \in Nat
  PROVE  c.boundary = b /\ c.resolution \in Resolutions /\ IsFiniteSet(DOMAIN c.tracks)
<1>1. PICK n \in 0..Len(list), resolution \in Resolutions : c = Asked(b, list, n, resolution)
  BY DEF AskedOf
<1>2. c.boundary = b /\ c.resolution = resolution /\ DOMAIN c.tracks = 1..n
  BY <1>1 DEF Asked
<1>3. IsFiniteSet(1..n)
  BY FS_Interval
<1> QED
  BY <1>2, <1>3

LEMMA GridIs ==
  ASSUME NEW b \in Polygons, ValidPolygon(b), NEW c, c.boundary = b, c.resolution \in Resolutions,
         NEW g \in Grids(c)
  PROVE  /\ g \in GridType /\ g.resolution = c.resolution
         /\ g.columns > 0 /\ g.rows > 0 => g = FullGrid(b, c.resolution)
<1> DEFINE box == Bounds(b)
           across(axis) == CellsAcross(box, axis, c.resolution)
<1>1. box \in Box
  BY BoundsHold
<1>2. c.resolution \in Nat \ {0}
  BY ResolutionType
<1>3. across(1) \in Int /\ across(2) \in Int
  <2>1. /\ box.max[1] - box.min[1] + c.resolution - 1 \in Int
        /\ box.max[2] - box.min[2] + c.resolution - 1 \in Int
    BY <1>1, <1>2 DEF Box
  <2> QED
    BY <1>2, <2>1 DEF CellsAcross
<1>4. g \in [near : {box.min}, columns : Converted(across(1)), rows : Converted(across(2)),
             resolution : {c.resolution}]
  BY DEF Grids
<1> HIDE DEF box
<1>5. /\ g = [near |-> box.min, columns |-> g.columns, rows |-> g.rows, resolution |-> c.resolution]
      /\ g.columns \in Converted(across(1)) /\ g.rows \in Converted(across(2))
      /\ g.near = box.min /\ g.resolution = c.resolution
  BY <1>4
<1> HIDE DEF across
<1>6. ASSUME NEW n \in Int, NEW m \in Converted(n)
      PROVE  m \in Int /\ (m > 0 => m = IF n <= MaxInt THEN n ELSE MaxInt)
  BY <1>6, IntsAre DEF Converted
<1>7. g \in GridType
  <2>1. g.columns \in Int /\ g.rows \in Int /\ box.min \in Int \X Int
    BY <1>1, <1>3, <1>5, <1>6 DEF Box
  <2> QED
    BY <1>2, <1>5, <2>1 DEF GridType
<1>8. g.columns > 0 /\ g.rows > 0 => g = FullGrid(b, c.resolution)
  <2> SUFFICES ASSUME g.columns > 0, g.rows > 0 PROVE g = FullGrid(b, c.resolution)
    OBVIOUS
  <2>1. /\ g.columns = IF across(1) <= MaxInt THEN across(1) ELSE MaxInt
        /\ g.rows = IF across(2) <= MaxInt THEN across(2) ELSE MaxInt
    BY <1>3, <1>5, <1>6
  <2> QED
    BY <1>5, <2>1 DEF FullGrid, across, box
<1> QED
  BY <1>5, <1>7, <1>8

(* What a list of runs gains does not change the calls it was used in.       *)
LEMMA LongerList ==
  ASSUME NEW list, IsList(list), NEW run
  PROVE  /\ IsList(Append(list, run)) /\ Len(list) \in Nat
         /\ Len(Append(list, run)) = Len(list) + 1
         /\ DOMAIN list = 1..Len(list)
         /\ \A r \in 1..Len(list) : Append(list, run)[r] = list[r]
         /\ Append(list, run)[Len(list) + 1] = run
         /\ \A c, b : AskedOf(c, b, list) => AskedOf(c, b, Append(list, run))
<1>1. PICK S : list \in Seq(S)
  BY DEF IsList
<1> DEFINE T == S \cup {run}
           longer == Append(list, run)
<1>2. list \in Seq(T) /\ run \in T
  BY <1>1
<1> HIDE DEF T
<1>3. /\ longer \in Seq(T) /\ Len(list) \in Nat /\ Len(longer) = Len(list) + 1
      /\ DOMAIN list = 1..Len(list) /\ DOMAIN longer = 1..Len(longer)
      /\ \A r \in 1..Len(list) : longer[r] = list[r]
  BY <1>2
<1>4. longer[Len(list) + 1] = run
  BY <1>2
<1>5. IsList(longer)
  BY <1>3 DEF IsList
<1> HIDE DEF longer
<1>6. ASSUME NEW c, NEW b, AskedOf(c, b, list)
      PROVE  AskedOf(c, b, longer)
  <2>1. PICK n \in 0..Len(list), resolution \in Resolutions : c = Asked(b, list, n, resolution)
    BY <1>6 DEF AskedOf
  <2>2. n \in 0..Len(longer) /\ \A r \in 1..n : longer[r] = list[r]
    BY <1>3
  <2>3. [r \in 1..n |-> Track(longer[r])] = [r \in 1..n |-> Track(list[r])]
    BY <2>2
  <2> QED
    BY <2>1, <2>2, <2>3 DEF AskedOf, Asked
<1> QED
  BY <1>3, <1>4, <1>5, <1>6 DEF longer

-----------------------------------------------------------------------------
(* The steps of a calculation *)

LEMMA CalculationStarts == Init => CalculationInv
<1> SUFFICES ASSUME Init PROVE CalculationInv
  OBVIOUS
<1>1. BoundaryInv
  BY SurveyAssumption DEF Init, Admissible, BoundaryInv, Polygons
<1>2. IsList(runs)
  <2>1. runs \in Seq({})
    BY DEF Init
  <2> QED
    BY <2>1 DEF IsList
<1>3. Calculating /\ Answered(result, boundary, runs)
  BY DEF Init, CoverageInit, Calculating, Answered, Start
<1> QED
  BY <1>1, <1>2, <1>3 DEF CalculationInv

LEMMA ReturnKeeps ==
  ASSUME CalculationInv, UNCHANGED <<boundary, runs>>, NEW answer, Return(answer),
         Answered(answer, boundary, runs)
  PROVE  CalculationInv'
<1>1. BoundaryInv' /\ IsList(runs') /\ Answered(result', boundary', runs')
  BY DEF CalculationInv, BoundaryInv, Return
<1>2. Calculating'
  BY DEF Return, Calculating, Start
<1> QED
  BY <1>1, <1>2 DEF CalculationInv

LEMMA RefusalAnswers ==
  ASSUME NEW c, NEW status \in {"invalid", "too_large"}, NEW b, NEW list
  PROVE  Answered(Refusal(c, status), b, list)
  BY DEF Refusal, Answered

LEMMA DetectKeeps == ASSUME CalculationInv, Detect PROVE CalculationInv'
<1>1. PICK resolution \in Resolutions :
         CallCoverage([boundary |-> boundary, tracks |-> [r \in DOMAIN runs |-> Track(runs[r])],
                       resolution |-> resolution])
  BY DEF Detect
<1> DEFINE c == Asked(boundary, runs, Len(runs), resolution)
<1>2. Len(runs) \in Nat /\ DOMAIN runs = 1..Len(runs)
  BY LongerList DEF CalculationInv
<1>3. CallCoverage(c) /\ AskedOf(c, boundary, runs)
  <2>1. CallCoverage(c)
    BY <1>1, <1>2 DEF Asked
  <2>2. Len(runs) \in 0..Len(runs)
    BY <1>2
  <2> QED
    BY <2>1, <2>2 DEF AskedOf
<1>4. c.boundary = boundary /\ c.resolution \in Resolutions
  BY DEF Asked
<1> HIDE DEF c
<1>5. UNCHANGED <<boundary, runs>>
  BY DEF Detect
<1>6. CASE \E status \in {"invalid", "too_large"} : Return(Refusal(c, status))
  BY <1>5, <1>6, ReturnKeeps, RefusalAnswers
<1>7. CASE \E g \in Grids(c) : call = None /\ call' = c /\ grid' = g /\ result' = None
                               /\ UNCHANGED <<at, tally, gap>>
  <2>1. PICK g \in Grids(c) : call = None /\ call' = c /\ grid' = g /\ result' = None
                              /\ UNCHANGED <<at, tally, gap>>
    BY <1>7
  <2>2. g \in GridType
    BY <1>4, GridIs DEF CalculationInv, BoundaryInv
  <2>3. at' = Start /\ tally' = EmptyTally /\ gap' = None
    BY <2>1 DEF CalculationInv, Calculating
  <2>4. Start \in Places /\ Seen(g, Start) = {}
    BY <2>2, SeenEnds
  <2>5. Inside(c, {}) = {} /\ Missed(c, {}) = {} /\ Repeated(c, {}) = {}
    BY DEF Inside, Missed, Repeated
  <2>6. Tallied(c, {}) = EmptyTally
    BY <2>5, FS_EmptySet DEF Tallied, EmptyTally
  <2>7. Boxes(None, {}, c.resolution \div 2)
    BY DEF Boxes
  <2>8. Calculating'
    BY <1>3, <1>5, <2>1, <2>3, <2>4, <2>5, <2>6, <2>7 DEF Calculating
  <2>9. Answered(result', boundary', runs')
    BY <2>1 DEF Answered
  <2> QED
    BY <1>5, <2>8, <2>9 DEF CalculationInv, BoundaryInv
<1> QED
  BY <1>3, <1>6, <1>7 DEF CallCoverage

LEMMA SampleKeeps ==
  ASSUME CalculationInv, SampleCell, UNCHANGED <<boundary, runs>>
  PROVE  CalculationInv'
<1> DEFINE p == Centre(grid, at.column, at.row)
           passes == CoveragePasses(p, call.tracks)
           half == call.resolution \div 2
           V == Seen(grid, at)
<1>1. /\ call # None /\ at.row < grid.rows /\ at.column < grid.columns
      /\ at' = [at EXCEPT !.column = @ + 1] /\ UNCHANGED <<call, grid, result>>
      /\ ~PolygonContains(call.boundary, p) => UNCHANGED <<tally, gap>>
      /\ PolygonContains(call.boundary, p) =>
           /\ tally' = Counted(tally, passes)
           /\ gap' = IF passes = 0 THEN Widened(gap, p, half) ELSE gap
  BY DEF SampleCell
<1>2. /\ AskedOf(call, boundary, runs) /\ grid \in Grids(call) /\ at \in Places
      /\ tally = Tallied(call, V) /\ Boxes(gap, Missed(call, V), half)
  BY <1>1 DEF CalculationInv, Calculating
<1>3. /\ call.boundary = boundary /\ call.resolution \in Resolutions
      /\ IsFiniteSet(DOMAIN call.tracks)
  BY <1>2, AskedIs, LongerList DEF CalculationInv
<1>4. grid \in GridType /\ half \in Nat
  BY <1>2, <1>3, GridIs, ResolutionType DEF CalculationInv, BoundaryInv
<1>5. at' \in Places /\ p \in Centres(grid) /\ p \notin V /\ Seen(grid, at') = V \cup {p}
  BY <1>1, <1>2, <1>4, SeenCell
<1>6. IsFiniteSet(V) /\ V \subseteq Int \X Int /\ p \in Int \X Int
  <2>1. V \subseteq Centres(grid)
    BY DEF Seen
  <2> QED
    BY <1>4, <1>5, <2>1, CentresFinite, FS_Subset
<1>7. Missed(call, V) \in SUBSET (Int \X Int)
  BY <1>6 DEF Missed, Inside
<1> HIDE DEF p, V, half
<1>8. tally' = Tallied(call, V \cup {p}) /\ Boxes(gap', Missed(call, V \cup {p}), half)
  <2>1. CASE PolygonContains(call.boundary, p)
    <3>1. /\ Tallied(call, V \cup {p}) = Counted(Tallied(call, V), passes)
          /\ Missed(call, V \cup {p}) = IF passes = 0 THEN Missed(call, V) \cup {p} ELSE Missed(call, V)
      BY <1>3, <1>5, <1>6, <2>1, OneMore
    <3>2. Boxes(Widened(gap, p, half), Missed(call, V) \cup {p}, half)
      BY <1>2, <1>4, <1>6, <1>7, WidenedBox
    <3> HIDE DEF passes
    <3> QED
      BY <1>1, <1>2, <2>1, <3>1, <3>2
  <2>2. CASE ~PolygonContains(call.boundary, p)
    <3>1. Tallied(call, V \cup {p}) = Tallied(call, V) /\ Missed(call, V \cup {p}) = Missed(call, V)
      BY <1>3, <1>5, <1>6, <2>2, OneMore
    <3> QED
      BY <1>1, <1>2, <2>2, <3>1
  <2> QED
    BY <2>1, <2>2
<1>9. Calculating'
  BY <1>1, <1>2, <1>5, <1>8 DEF Calculating, half
<1> QED
  BY <1>1, <1>9 DEF CalculationInv, BoundaryInv

LEMMA NextRowKeeps ==
  ASSUME CalculationInv, NextRow, UNCHANGED <<boundary, runs>>
  PROVE  CalculationInv'
<1>1. /\ call # None /\ at.column >= grid.columns /\ at' = [column |-> 0, row |-> at.row + 1]
      /\ UNCHANGED <<call, grid, tally, gap, result>>
  BY DEF NextRow
<1>2. /\ AskedOf(call, boundary, runs) /\ grid \in Grids(call) /\ at \in Places
      /\ tally = Tallied(call, Seen(grid, at))
      /\ Boxes(gap, Missed(call, Seen(grid, at)), call.resolution \div 2)
  BY <1>1 DEF CalculationInv, Calculating
<1>3. grid \in GridType
  BY <1>2, AskedIs, LongerList, GridIs DEF CalculationInv, BoundaryInv
<1>4. at' \in Places /\ Seen(grid, at') = Seen(grid, at)
  BY <1>1, <1>2, <1>3, SeenRow
<1>5. Calculating'
  BY <1>1, <1>2, <1>4 DEF Calculating
<1> QED
  BY <1>1, <1>5 DEF CalculationInv, BoundaryInv

LEMMA ReturnCoverageKeeps ==
  ASSUME CalculationInv, ReturnCoverage, UNCHANGED <<boundary, runs>>
  PROVE  CalculationInv'
<1> DEFINE answer == Result(call, grid, tally, gap)
<1>1. /\ call # None /\ at.row >= grid.rows
      /\ Return(IF tally.inside = 0 THEN Refusal(call, "invalid") ELSE answer)
  BY DEF ReturnCoverage
<1>2. CASE tally.inside = 0
  BY <1>1, <1>2, ReturnKeeps, RefusalAnswers
<1>3. CASE tally.inside # 0
  <2>1. /\ AskedOf(call, boundary, runs) /\ grid \in Grids(call) /\ at \in Places
        /\ tally = Tallied(call, Seen(grid, at))
        /\ Boxes(gap, Missed(call, Seen(grid, at)), call.resolution \div 2)
    BY <1>1 DEF CalculationInv, Calculating
  <2>2. grid \in GridType
    BY <2>1, AskedIs, LongerList, GridIs DEF CalculationInv, BoundaryInv
  <2>3. Seen(grid, at) = Centres(grid)
    BY <1>1, <2>1, <2>2, SeenEnds
  <2>4. Inside(call, Centres(grid)) # {}
    BY <1>3, <2>1, <2>3, FS_EmptySet DEF Tallied
  <2>5. grid.columns > 0 /\ grid.rows > 0
    <3>1. Centres(grid) # {}
      BY <2>4 DEF Inside
    <3> QED
      BY <2>2, <3>1 DEF Centres, GridType
  <2>6. /\ answer.call = call /\ answer.grid = grid /\ answer.tally = tally /\ answer.gap = gap
        /\ answer.gap # None => answer.line = RecommendedLine(gap, call.resolution)
    BY DEF Result
  <2> HIDE DEF answer
  <2>7. Answered(answer, boundary, runs)
    BY <2>1, <2>3, <2>5, <2>6 DEF Answered
  <2> QED
    BY <1>1, <1>3, <2>7, ReturnKeeps
<1> QED
  BY <1>2, <1>3

(* A run is stored between calculations.                                     *)
LEMMA SailingKeeps ==
  ASSUME CalculationInv, call = None, NEW run, runs' = Append(runs, run),
         UNCHANGED <<calculation, boundary>>
  PROVE  CalculationInv'
<1>1. IsList(runs') /\ \A c, b : AskedOf(c, b, runs) => AskedOf(c, b, runs')
  BY LongerList DEF CalculationInv
<1>2. BoundaryInv' /\ Calculating'
  BY DEF CalculationInv, BoundaryInv, Calculating, calculation
<1>3. Answered(result', boundary', runs')
  <2>1. Answered(result, boundary, runs)
    BY DEF CalculationInv
  <2>2. Answered(result, boundary, runs')
    BY <1>1, <2>1 DEF Answered
  <2> QED
    BY <2>2 DEF calculation
<1> QED
  BY <1>1, <1>2, <1>3 DEF CalculationInv

-----------------------------------------------------------------------------
(* Reaching a point from a line along an axis *)

LEMMA SquaresGrow ==
  ASSUME NEW x \in Int, NEW y \in Int, -y <= x, x <= y
  PROVE  x * x <= y * y
  OBVIOUS

LEMMA NearSquares ==
  ASSUME NEW y \in Int, NEW s \in Int, -s <= 2 * y, 2 * y <= s
  PROVE  /\ 4 * (y * y) <= s * s
         /\ \A d \in Int : (4 * (y * y)) * (d * d) <= (s * s) * (d * d)
<1>1. (2 * y) * (2 * y) <= s * s
  BY SquaresGrow
<1>2. (2 * y) * (2 * y) = 4 * (y * y)
  OBVIOUS
<1>3. 4 * (y * y) \in Int /\ s * s \in Int
  OBVIOUS
<1>4. ASSUME NEW d \in Int
      PROVE  (4 * (y * y)) * (d * d) <= (s * s) * (d * d)
  <2>1. d * d \in Nat
    <3>1. 0 * 0 <= d * d
      OBVIOUS
    <3> QED
      BY <3>1
  <2>2. \A m, n \in Int, k \in Nat : m <= n => m * k <= n * k
    OBVIOUS
  <2> HIDE <1>2
  <2> QED
    BY <1>1, <1>2, <1>3, <2>1, <2>2
<1> QED
  BY <1>1, <1>2, <1>4

LEMMA SegmentIdentity ==
  ASSUME NEW x \in Int, NEW y \in Int, NEW d \in Int
  PROVE  4 * ((x * x + y * y) * (d * d) - (x * d) * (x * d)) = (4 * (y * y)) * (d * d)
  OBVIOUS

(* x along the segment of length d, y off it.                                *)
LEMMA SegmentCases ==
  ASSUME NEW x \in Int, NEW y \in Int, NEW d \in Int, NEW s \in Int,
         0 <= x, x <= d, -s <= 2 * y, 2 * y <= s
  PROVE  /\ x * d <= 0 => 4 * (x * x + y * y) <= s * s
         /\ x * d > 0 /\ x * d >= d * d => 4 * ((x - d) * (x - d) + y * y) <= s * s
         /\ 4 * ((x * x + y * y) * (d * d) - (x * d) * (x * d)) <= (s * s) * (d * d)
<1>1. 4 * (y * y) <= s * s /\ (4 * (y * y)) * (d * d) <= (s * s) * (d * d)
  BY NearSquares
<1>2. ASSUME x * d <= 0
      PROVE  x = 0
  <2>1. x > 0 => x * d >= x * x
    OBVIOUS
  <2>2. x > 0 => x * x > 0
    OBVIOUS
  <2>3. x * d \in Int /\ x * x \in Int
    OBVIOUS
  <2> QED
    BY <1>2, <2>1, <2>2, <2>3
<1>3. ASSUME x * d > 0, x * d >= d * d
      PROVE  x = d
  <2>1. d > 0
    <3>1. d = 0 => x * d = 0
      OBVIOUS
    <3> QED
      BY <1>3, <3>1
  <2>2. \A m, n \in Int : m < n => m * d < n * d
    BY <2>1
  <2>3. x * d \in Int /\ d * d \in Int
    OBVIOUS
  <2> QED
    BY <1>3, <2>2, <2>3
<1>4. x = 0 => 4 * (x * x + y * y) = 4 * (y * y)
  OBVIOUS
<1>5. x = d => 4 * ((x - d) * (x - d) + y * y) = 4 * (y * y)
  OBVIOUS
<1>6. 4 * ((x * x + y * y) * (d * d) - (x * d) * (x * d)) = (4 * (y * y)) * (d * d)
  BY SegmentIdentity
<1> QED
  BY <1>1, <1>2, <1>3, <1>4, <1>5, <1>6

Other(axis) == 3 - axis

LEMMA ReachedAlong ==
  ASSUME NEW p \in Int \X Int, NEW start \in Int \X Int, NEW end \in Int \X Int,
         NEW axis \in 1..2, NEW swath \in Int,
         start[Other(axis)] = end[Other(axis)],
         start[axis] <= p[axis], p[axis] <= end[axis],
         -swath <= 2 * (p[Other(axis)] - start[Other(axis)]),
         2 * (p[Other(axis)] - start[Other(axis)]) <= swath
  PROVE  Reached(p, start, end, swath)
<1> DEFINE x == p[axis] - start[axis]
           y == p[Other(axis)] - start[Other(axis)]
           d == end[axis] - start[axis]
           dx == end[1] - start[1]
           dy == end[2] - start[2]
           length == dx * dx + dy * dy
           along == (p[1] - start[1]) * dx + (p[2] - start[2]) * dy
<1>1. axis = 1 \/ axis = 2
  OBVIOUS
<1>2. x \in Int /\ y \in Int /\ d \in Int /\ 0 <= x /\ x <= d /\ -swath <= 2 * y /\ 2 * y <= swath
  BY <1>1 DEF Other
<1>3. /\ length = d * d /\ along = x * d
      /\ SquaredDistance(p, start) = x * x + y * y
      /\ SquaredDistance(p, end) = (x - d) * (x - d) + y * y
  <2>1. CASE axis = 1
    <3>1. Other(axis) = 2 /\ start[2] = end[2]
      BY <2>1 DEF Other
    <3> QED
      BY <2>1, <3>1 DEF SquaredDistance, Square
  <2>2. CASE axis = 2
    <3>1. Other(axis) = 1 /\ start[1] = end[1]
      BY <2>2 DEF Other
    <3> QED
      BY <2>2, <3>1 DEF SquaredDistance, Square
  <2> QED
    BY <1>1, <2>1, <2>2
<1>4. Reached(p, start, end, swath) =
        CASE along <= 0 -> 4 * SquaredDistance(p, start) <= Square(swath)
          [] along > 0 /\ along >= length -> 4 * SquaredDistance(p, end) <= Square(swath)
          [] OTHER -> 4 * (SquaredDistance(p, start) * length - Square(along))
                        <= Square(swath) * length
  BY DEF Reached
<1> HIDE DEF x, y, d, length, along
<1>5. /\ x * d <= 0 => 4 * (x * x + y * y) <= swath * swath
      /\ x * d > 0 /\ x * d >= d * d => 4 * ((x - d) * (x - d) + y * y) <= swath * swath
      /\ 4 * ((x * x + y * y) * (d * d) - (x * d) * (x * d)) <= (swath * swath) * (d * d)
  BY <1>2, SegmentCases
<1> QED
  BY <1>3, <1>4, <1>5 DEF Square

LEMMA CoveredAlong ==
  ASSUME NEW p \in Int \X Int, NEW start \in Int \X Int, NEW end \in Int \X Int,
         NEW axis \in 1..2, NEW track, track.swath \in Int, <<start, end>> \in track.lines,
         start[Other(axis)] = end[Other(axis)],
         start[axis] <= p[axis], p[axis] <= end[axis],
         -track.swath <= 2 * (p[Other(axis)] - start[Other(axis)]),
         2 * (p[Other(axis)] - start[Other(axis)]) <= track.swath
  PROVE  CoveredBy(p, track)
<1>1. Reached(p, start, end, track.swath)
  BY ReachedAlong
<1> DEFINE line == <<start, end>>
<1>2. 2 \in 2..Len(line) /\ line[2 - 1] = start /\ line[2] = end /\ line \in track.lines
  OBVIOUS
<1> HIDE DEF line
<1> QED
  BY <1>1, <1>2 DEF CoveredBy

-----------------------------------------------------------------------------
(* The recommended line *)

(* It reaches every centre of the box it was made for.                       *)
LEMMA RecommendedReaches ==
  ASSUME NEW box \in Box, NEW resolution \in Resolutions, NEW p \in Int \X Int,
         \A axis \in 1..2 : /\ box.min[axis] <= p[axis] - resolution \div 2
                            /\ p[axis] + resolution \div 2 <= box.max[axis],
         NEW track, track.lines = {RecommendedLine(box, resolution)},
         track.swath = ShortSide(box)
  PROVE  CoveredBy(p, track) /\ track.swath \in Int
<1> DEFINE half == resolution \div 2
<1>1. resolution \in Nat \ {0} /\ half \in Nat
  BY ResolutionType
<1>2. /\ box.min[1] \in Int /\ box.min[2] \in Int /\ box.max[1] \in Int /\ box.max[2] \in Int
      /\ p[1] \in Int /\ p[2] \in Int
      /\ box.min[1] <= p[1] - half /\ p[1] + half <= box.max[1]
      /\ box.min[2] <= p[2] - half /\ p[2] + half <= box.max[2]
  BY DEF Box
<1> HIDE DEF half
<1>3. /\ Side(box, 1) = box.max[1] - box.min[1] /\ Side(box, 2) = box.max[2] - box.min[2]
      /\ Side(box, 1) \in Int /\ Side(box, 2) \in Int
  BY <1>2 DEF Side
<1>4. track.swath = IF Side(box, 1) <= Side(box, 2) THEN Side(box, 1) ELSE Side(box, 2)
  BY <1>3, MinOfTwo DEF ShortSide
<1>5. track.swath \in Int
  BY <1>3, <1>4
<1>6. ASSUME NEW axis \in 1..2
      PROVE  /\ Middle(box, axis) \in Int
             /\ 2 * (p[axis] - Middle(box, axis)) <= Side(box, axis)
             /\ -Side(box, axis) <= 2 * (p[axis] - Middle(box, axis))
  <2> DEFINE sum == box.min[axis] + box.max[axis]
             mid == sum \div 2
  <2>1. /\ sum \in Int /\ p[axis] \in Int /\ box.min[axis] \in Int /\ box.max[axis] \in Int
        /\ box.min[axis] <= p[axis] - half /\ p[axis] + half <= box.max[axis]
        /\ Side(box, axis) = box.max[axis] - box.min[axis]
    BY <1>2, <1>3
  <2>2. mid \in Int /\ (sum = 2 * mid \/ sum = 2 * mid + 1)
    BY <2>1
  <2>3. Middle(box, axis) = mid
    BY DEF Middle
  <2> HIDE DEF mid
  <2>4. half >= 0 /\ sum = box.min[axis] + box.max[axis]
    BY <1>1
  <2> HIDE DEF sum
  <2>5. half > 0
    <3>1. resolution = 2 * half
      BY ResolutionType DEF half
    <3> QED
      BY <1>1, <3>1
  <2> QED
    BY <1>1, <2>1, <2>2, <2>3, <2>4, <2>5
<1>7. CASE Side(box, 1) >= Side(box, 2)
  <2> DEFINE start == <<box.min[1] - resolution, Middle(box, 2)>>
             end == <<box.max[1] + resolution, Middle(box, 2)>>
  <2>1. track.lines = {<<start, end>>} /\ track.swath = Side(box, 2)
    BY <1>3, <1>4, <1>7 DEF RecommendedLine
  <2>2. /\ start \in Int \X Int /\ end \in Int \X Int /\ start[2] = end[2]
        /\ start[1] <= p[1] /\ p[1] <= end[1] /\ start[2] = Middle(box, 2)
    BY <1>1, <1>2, <1>6
  <2> HIDE DEF start, end
  <2>3. /\ -track.swath <= 2 * (p[2] - start[2]) /\ 2 * (p[2] - start[2]) <= track.swath
    BY <1>6, <2>1, <2>2
  <2>4. Other(1) = 2 /\ 1 \in 1..2 /\ <<start, end>> \in track.lines
    BY <2>1 DEF Other
  <2> QED
    BY <1>5, <2>2, <2>3, <2>4, CoveredAlong
<1>8. CASE ~(Side(box, 1) >= Side(box, 2))
  <2> DEFINE start == <<Middle(box, 1), box.min[2] - resolution>>
             end == <<Middle(box, 1), box.max[2] + resolution>>
  <2>1. track.lines = {<<start, end>>} /\ track.swath = Side(box, 1)
    BY <1>3, <1>4, <1>8 DEF RecommendedLine
  <2>2. /\ start \in Int \X Int /\ end \in Int \X Int /\ start[1] = end[1]
        /\ start[2] <= p[2] /\ p[2] <= end[2] /\ start[1] = Middle(box, 1)
    BY <1>1, <1>2, <1>6
  <2> HIDE DEF start, end
  <2>3. /\ -track.swath <= 2 * (p[1] - start[1]) /\ 2 * (p[1] - start[1]) <= track.swath
    BY <1>6, <2>1, <2>2
  <2>4. Other(2) = 1 /\ 2 \in 1..2 /\ <<start, end>> \in track.lines
    BY <2>1 DEF Other
  <2> QED
    BY <1>5, <2>2, <2>3, <2>4, CoveredAlong
<1> QED
  BY <1>5, <1>7, <1>8

(* Every cell of the grid of a resolution is covered by one of the first r.  *)
CoveredUpTo(r, list, b, resolution) ==
  \A p \in Centres(FullGrid(b, resolution)) : PolygonContains(b, p) =>
    \E j \in 1..r : CoveredBy(p, Track(list[j]))

RunsKnown(list, b) ==
  \A r \in 1..Len(list) :
    /\ list[r].swath \in Int
    /\ list[r].after \in Resolutions \cup {None}
    /\ list[r].after # None => CoveredUpTo(r, list, b, list[r].after)

IInv == CalculationInv /\ RunsKnown(runs, boundary)

LEMMA LongerIsKnown ==
  ASSUME NEW list, IsList(list), NEW b, RunsKnown(list, b), NEW run, run.swath \in Int,
         run.after \in Resolutions \cup {None},
         run.after # None => CoveredUpTo(Len(list) + 1, Append(list, run), b, run.after)
  PROVE  RunsKnown(Append(list, run), b)
<1> DEFINE longer == Append(list, run)
<1>1. /\ Len(list) \in Nat /\ Len(longer) = Len(list) + 1
      /\ \A r \in 1..Len(list) : longer[r] = list[r]
      /\ longer[Len(list) + 1] = run
  BY LongerList
<1> HIDE DEF longer
<1>2. ASSUME NEW r \in 1..Len(list), NEW resolution, CoveredUpTo(r, list, b, resolution)
      PROVE  CoveredUpTo(r, longer, b, resolution)
  <2>1. \A j \in 1..r : longer[j] = list[j]
    BY <1>1
  <2> QED
    BY <1>2, <2>1 DEF CoveredUpTo
<1>3. ASSUME NEW r \in 1..Len(longer)
      PROVE  r \in 1..Len(list) \/ r = Len(list) + 1
  BY <1>1
<1> QED
  BY <1>1, <1>2, <1>3 DEF RunsKnown, longer

LEMMA SailRunKeeps == ASSUME IInv, SailRun PROVE IInv'
<1>1. PICK lines \in SailedTogether \cup {{line} : line \in StrayLines}, swath \in Swaths :
         runs' = Append(runs, [lines |-> lines, swath |-> swath, after |-> None])
  BY DEF SailRun
<1>2. call = None /\ UNCHANGED <<calculation, boundary>>
  BY DEF SailRun
<1>3. CalculationInv'
  BY <1>1, <1>2, SailingKeeps DEF IInv
<1>4. RunsKnown(runs', boundary)
  BY <1>1, LongerIsKnown, SurveyAssumption DEF IInv, CalculationInv
<1> QED
  BY <1>2, <1>3, <1>4 DEF IInv

LEMMA SailRecommendedKeeps == ASSUME IInv, SailRecommended PROVE IInv'
<1> DEFINE resolution == result.call.resolution
           run == [lines |-> {result.line}, swath |-> ShortSide(result.gap), after |-> resolution]
           n == Len(runs)
<1>1. /\ call = None /\ result # None /\ result.status = "ok" /\ result.gap # None
      /\ runs' = Append(runs, run) /\ UNCHANGED <<calculation, boundary>>
  BY DEF SailRecommended, Measured
<1>2. /\ AskedOf(result.call, boundary, runs) /\ result.grid \in Grids(result.call)
      /\ result.grid.columns > 0 /\ result.grid.rows > 0
      /\ Boxes(result.gap, Missed(result.call, Centres(result.grid)), resolution \div 2)
      /\ result.line = RecommendedLine(result.gap, resolution)
  BY <1>1 DEF IInv, CalculationInv, Answered
<1>3. /\ n \in Nat /\ \A r \in 1..n : runs'[r] = runs[r]
      /\ runs'[n + 1] = run /\ IsList(runs)
  BY <1>1, LongerList DEF IInv, CalculationInv
<1>4. result.call.boundary = boundary /\ resolution \in Resolutions
  BY <1>2, <1>3, AskedIs
<1>5. result.grid = FullGrid(boundary, resolution) /\ result.grid \in GridType
  BY <1>2, <1>4, GridIs DEF IInv, CalculationInv, BoundaryInv
<1> DEFINE missed == Missed(result.call, Centres(result.grid))
<1>6. missed # {} /\ result.gap \in Box
      /\ \A axis \in 1..2 : \A p \in missed :
           /\ result.gap.min[axis] <= p[axis] - resolution \div 2
           /\ p[axis] + resolution \div 2 <= result.gap.max[axis]
  BY <1>1, <1>2 DEF Boxes
<1>7. /\ Track(run).lines = {RecommendedLine(result.gap, resolution)}
      /\ Track(run).swath = ShortSide(result.gap)
      /\ run.swath = ShortSide(result.gap) /\ run.after = resolution
  BY <1>2 DEF Track
<1>8. missed \subseteq Int \X Int
  BY <1>5, CentresFinite DEF Missed, Inside
<1> HIDE DEF run, resolution, n
<1>9. ASSUME NEW p \in missed
      PROVE  CoveredBy(p, Track(run)) /\ run.swath \in Int
  BY <1>4, <1>6, <1>7, <1>8, RecommendedReaches
<1>10. CoveredUpTo(n + 1, runs', boundary, resolution)
  <2> SUFFICES ASSUME NEW p \in Centres(result.grid), PolygonContains(boundary, p)
               PROVE  \E j \in 1..(n + 1) : CoveredBy(p, Track(runs'[j]))
    BY <1>5 DEF CoveredUpTo
  <2>1. CASE p \in missed
    <3>1. n + 1 \in 1..(n + 1)
      BY <1>3
    <3> QED
      BY <1>3, <1>9, <2>1, <3>1
  <2>2. CASE p \notin missed
    <3>1. PICK t \in DOMAIN result.call.tracks : CoveredBy(p, result.call.tracks[t])
      BY <1>4, <2>2 DEF Missed, Inside
    <3>2. PICK m \in 0..n, res \in Resolutions : result.call = Asked(boundary, runs, m, res)
      BY <1>2 DEF AskedOf, n
    <3>3. t \in 1..m /\ result.call.tracks[t] = Track(runs[t])
      BY <3>2 DEF Asked
    <3>4. t \in 1..n /\ t \in 1..(n + 1)
      BY <1>3, <3>3
    <3> QED
      BY <1>3, <3>1, <3>3, <3>4
  <2> QED
    BY <2>1, <2>2
<1>11. RunsKnown(runs', boundary)
  <2>1. run.swath \in Int /\ run.after \in Resolutions \cup {None}
    BY <1>4, <1>6, <1>7, <1>9
  <2> QED
    BY <1>1, <1>3, <1>7, <1>10, <2>1, LongerIsKnown DEF IInv, n
<1>12. CalculationInv'
  BY <1>1, SailingKeeps DEF IInv
<1> QED
  BY <1>1, <1>11, <1>12 DEF IInv

LEMMA NextKeeps == IInv /\ [Next]_vars => IInv'
<1> SUFFICES ASSUME IInv, [Next]_vars PROVE IInv'
  OBVIOUS
<1>1. ASSUME UNCHANGED <<calculation, boundary, runs>>
      PROVE  IInv'
  BY <1>1 DEF IInv, CalculationInv, BoundaryInv, Calculating, calculation
<1>2. CASE Detect
  BY <1>2, DetectKeeps DEF IInv, Detect
<1>3. CASE Calculate
  BY <1>3, SampleKeeps, NextRowKeeps, ReturnCoverageKeeps DEF IInv, Calculate
<1>4. CASE AskForLines \/ LayLines
  BY <1>1, <1>4 DEF AskForLines, LayLines
<1>5. CASE UNCHANGED vars
  BY <1>1, <1>5 DEF vars
<1> QED
  BY <1>2, <1>3, <1>4, <1>5, SailRunKeeps, SailRecommendedKeeps DEF Next

LEMMA InvStarts == Init => IInv
<1>1. Init => RunsKnown(runs, boundary)
  BY DEF Init, RunsKnown
<1> QED
  BY <1>1, CalculationStarts DEF IInv

LEMMA Invariance == Spec => []IInv
BY InvStarts, NextKeeps, PTL DEF Spec

-----------------------------------------------------------------------------
(* Floats of coordinates that are exact *)

LEMMA FlExact ==
  ASSUME NEW n \in Int, Abs(n) < 2^MantissaBits
  PROVE  Fl(n) = n
<1> DEFINE Fits(e) == Abs(n) < 2^(MantissaBits + e)
           Least(e) == Fits(e) /\ \A d \in 0..(e - 1) : ~Fits(d)
<1>1. Abs(n) \in Nat /\ MantissaBits + 0 = MantissaBits /\ MantissaBits \in Nat
  BY TransectsAssumption DEF Abs
<1>2. Fits(0)
  BY <1>1
<1>3. 0 \in 0..Abs(n) /\ Least(0)
  BY <1>1, <1>2
<1>4. ASSUME NEW e \in 0..Abs(n), Least(e)
      PROVE  e = 0
  BY <1>1, <1>2, <1>4
<1>5. (CHOOSE e \in 0..Abs(n) : Least(e)) = 0
  <2> HIDE DEF Least
  <2> QED
    BY <1>3, <1>4
<1>6. Ulp(n) = 1
  <2>1. Ulp(n) = 2^(CHOOSE e \in 0..Abs(n) : Least(e))
    BY Zenon DEF Ulp
  <2>2. 2^0 = 1
    OBVIOUS
  <2> HIDE DEF Least
  <2> QED
    BY <1>5, <2>1, <2>2
<1>7. n \div 1 = n /\ n % 1 = 0
  OBVIOUS
<1> QED
  BY <1>6, <1>7 DEF Fl

(* A point inside a polygon is inside its bounds.                            *)
LEMMA CrossingIsBefore ==
  ASSUME NEW x \in Int, NEW y \in Int, NEW m \in Int, NEW d \in Int, NEW e \in Int,
         y <= m, 0 <= m, 0 <= e, e <= d, x * d < y * e
  PROVE  x < m
<1>1. y * e <= m * e
  OBVIOUS
<1>2. m * e <= m * d
  OBVIOUS
<1>3. x * d \in Int /\ y * e \in Int /\ m * e \in Int /\ m * d \in Int
  OBVIOUS
<1>4. x * d < m * d
  BY <1>1, <1>2, <1>3
<1>5. x >= m => x * d >= m * d
  OBVIOUS
<1> QED
  BY <1>3, <1>4, <1>5

LEMMA CrossingBounds ==
  ASSUME NEW a \in Int \X Int, NEW b \in Int \X Int, NEW p \in Int \X Int, Crosses(a, b, p),
         NEW m \in Int, a[1] <= m, b[1] <= m
  PROVE  p[1] <= m /\ (p[2] <= a[2] \/ p[2] <= b[2])
<1> DEFINE x == p[1] - a[1]
           y == b[1] - a[1]
<1>1. a[1] \in Int /\ a[2] \in Int /\ b[1] \in Int /\ b[2] \in Int /\ p[1] \in Int /\ p[2] \in Int
  OBVIOUS
<1>2. (a[2] > p[2]) # (b[2] > p[2])
  BY DEF Crosses
<1>3. x \in Int /\ y \in Int /\ m - a[1] \in Int /\ y <= m - a[1] /\ 0 <= m - a[1]
  BY <1>1
<1>4. CASE b[2] > a[2]
  <2> DEFINE d == b[2] - a[2]
             e == p[2] - a[2]
  <2>1. d \in Int /\ e \in Int /\ 0 <= e /\ e <= d
    BY <1>1, <1>2, <1>4
  <2>2. x * d < y * e
    BY <1>4 DEF Crosses
  <2> HIDE DEF x, y, d, e
  <2>3. x < m - a[1]
    BY <1>3, <2>1, <2>2, CrossingIsBefore
  <2> QED
    BY <1>1, <1>2, <1>4, <2>3 DEF x
<1>5. CASE ~(b[2] > a[2])
  <2> DEFINE d == a[2] - b[2]
             e == a[2] - p[2]
  <2>1. d \in Int /\ e \in Int /\ 0 <= e /\ e <= d
    BY <1>1, <1>2, <1>5
  <2>2. x * (b[2] - a[2]) > y * (p[2] - a[2])
    BY <1>5 DEF Crosses
  <2>3. x * (b[2] - a[2]) = -(x * d) /\ y * (p[2] - a[2]) = -(y * e)
    BY <1>1
  <2>4. x * d \in Int /\ y * e \in Int
    BY <1>3, <2>1
  <2>5. x * d < y * e
    <3> HIDE DEF x, y, d, e
    <3> QED
      BY <2>2, <2>3, <2>4
  <2> HIDE DEF x, y, d, e
  <2>6. x < m - a[1]
    BY <1>3, <2>1, <2>5, CrossingIsBefore
  <2> QED
    BY <1>1, <1>2, <1>5, <2>6 DEF x
<1> QED
  BY <1>4, <1>5

LEMMA CornersInBounds ==
  ASSUME NEW polygon \in Polygons, ValidPolygon(polygon), NEW i \in DOMAIN polygon[1], NEW axis \in 1..2
  PROVE  polygon[1][i] \in Int \X Int /\ polygon[1][i][axis] <= Bounds(polygon).max[axis]
<1>1. 1 \in DOMAIN polygon /\ polygon[1] \in Seq(Int \X Int)
  BY DEF ValidPolygon, Polygons
<1>2. polygon[1][i] \in Int \X Int
  BY <1>1
<1>3. polygon[1][i][axis] \in {polygon[1][j][axis] : j \in DOMAIN polygon[1]}
  OBVIOUS
<1>4. {polygon[1][j][axis] : j \in DOMAIN polygon[1]}
        \in {{polygon[r][j][axis] : j \in DOMAIN polygon[r]} : r \in DOMAIN polygon}
  BY <1>1
<1>5. polygon[1][i][axis] \in Coordinates(polygon, axis)
  BY <1>3, <1>4 DEF Coordinates
<1> QED
  BY <1>2, <1>5, BoundsHold

LEMMA InsideBounds ==
  ASSUME NEW polygon \in Polygons, ValidPolygon(polygon), NEW p \in Int \X Int,
         PolygonContains(polygon, p)
  PROVE  \A axis \in 1..2 : p[axis] <= Bounds(polygon).max[axis]
<1> DEFINE ring == polygon[1]
           crossed == {i \in DOMAIN ring : Crosses(ring[i], ring[Before(ring, i)], p)}
<1>1. Cardinality(crossed) % 2 = 1
  BY DEF PolygonContains, RingContains
<1>2. crossed # {}
  <2>1. 0 % 2 = 0
    OBVIOUS
  <2> QED
    BY <1>1, <2>1, FS_EmptySet
<1>3. PICK i \in DOMAIN ring : Crosses(ring[i], ring[Before(ring, i)], p)
  BY <1>2
<1>4. Before(ring, i) \in DOMAIN ring
  <2>1. ring \in Seq(Int \X Int)
    BY DEF ValidPolygon, Polygons
  <2> HIDE DEF ring
  <2>2. DOMAIN ring = 1..Len(ring) /\ Len(ring) \in Nat
    BY <2>1
  <2>3. i \in 1..Len(ring)
    BY <2>2
  <2> QED
    BY <2>2, <2>3 DEF Before
<1> DEFINE a == ring[i]
           b == ring[Before(ring, i)]
           max == Bounds(polygon).max
<1>5. /\ a \in Int \X Int /\ b \in Int \X Int
      /\ a[1] <= max[1] /\ b[1] <= max[1] /\ a[2] <= max[2] /\ b[2] <= max[2]
  BY <1>4, CornersInBounds
<1>6. max[1] \in Int /\ max[2] \in Int
  BY BoundsHold DEF Box
<1>7. Crosses(a, b, p)
  BY <1>3
<1> HIDE DEF a, b, max, ring
<1>8. p[1] <= max[1] /\ (p[2] <= a[2] \/ p[2] <= b[2])
  BY <1>5, <1>6, <1>7, CrossingBounds
<1>9. p[1] <= max[1] /\ p[2] <= max[2]
  BY <1>5, <1>6, <1>8
<1> QED
  BY <1>9 DEF max

(* And the centre of a cell is not before its grid.                          *)
LEMMA CentreAfterNear ==
  ASSUME NEW g \in GridType, NEW p \in Centres(g), NEW axis \in 1..2
  PROVE  g.near[axis] <= p[axis]
<1>1. PICK column \in 0..(g.columns - 1), row \in 0..(g.rows - 1) : p = Centre(g, column, row)
  BY DEF Centres
<1>2. /\ p[1] = g.near[1] + column * g.resolution + g.resolution \div 2
      /\ p[2] = g.near[2] + row * g.resolution + g.resolution \div 2
  BY <1>1, CentreType
<1>3. /\ g.resolution \in Nat /\ g.resolution \div 2 \in Nat /\ column \in Nat /\ row \in Nat
      /\ g.near[1] \in Int /\ g.near[2] \in Int
  BY DEF GridType
<1>4. column * g.resolution \in Nat /\ row * g.resolution \in Nat
  <2>1. \A m, n \in Nat : m * n \in Nat
    OBVIOUS
  <2> QED
    BY <1>3, <2>1
<1> QED
  BY <1>2, <1>3, <1>4

-----------------------------------------------------------------------------
(* The lines of a plan *)

(* S is laid from near on, a spacing apart and half of one past the edge;    *)
(* the next line would lie at c.                                             *)
Spaced(near, spacing, c, S) ==
  /\ c \in Int /\ S \subseteq Int
  /\ S = {} => c = near + spacing \div 2
  /\ S # {} => c - spacing \in S
  /\ \A x \in S : near < x /\ x <= c - spacing
  /\ S # {} => \A n \in Int : near <= n /\ n <= c - spacing \div 2 =>
                 \E x \in S : -(spacing \div 2) <= n - x /\ n - x <= spacing \div 2

LEMMA NextSpaced ==
  ASSUME NEW near \in Int, NEW spacing \in Spacings, NEW c, NEW S, Spaced(near, spacing, c, S)
  PROVE  near < c /\ Spaced(near, spacing, c + spacing, S \cup {c})
<1> DEFINE half == spacing \div 2
           more == S \cup {c}
<1>1. spacing \in Int /\ half \in Int /\ spacing = 2 * half /\ half > 0
  <2>1. spacing \in Nat \ {0} /\ spacing % 2 = 0
    BY SurveyAssumption
  <2> QED
    BY <2>1
<1>2. c \in Int /\ S \subseteq Int /\ more \subseteq Int
  BY DEF Spaced
<1>3. /\ S = {} => c = near + half
      /\ S # {} => c - spacing \in S
      /\ \A x \in S : near < x /\ x <= c - spacing
      /\ S # {} => \A n \in Int : near <= n /\ n <= c - half =>
                     \E x \in S : -half <= n - x /\ n - x <= half
  BY DEF Spaced
<1> HIDE DEF half, more
<1>4. near < c
  <2>1. CASE S = {}
    BY <1>1, <1>2, <1>3, <2>1
  <2>2. CASE S # {}
    <3>1. near < c - spacing
      BY <1>3, <2>2
    <3> QED
      BY <1>1, <1>2, <3>1
  <2> QED
    BY <2>1, <2>2
<1>5. \A x \in more : near < x /\ x <= (c + spacing) - spacing
  <2> SUFFICES ASSUME NEW x \in more PROVE near < x /\ x <= (c + spacing) - spacing
    OBVIOUS
  <2>1. x \in S \/ x = c
    BY DEF more
  <2>2. x \in S => near < x /\ x <= c - spacing
    BY <1>3
  <2> QED
    BY <1>1, <1>2, <1>4, <2>1, <2>2
<1>6. ASSUME NEW n \in Int, near <= n, n <= (c + spacing) - half
      PROVE  \E x \in more : -half <= n - x /\ n - x <= half
  <2>1. CASE n > c - half
    <3>1. -half <= n - c /\ n - c <= half
      BY <1>1, <1>2, <1>6, <2>1
    <3> QED
      BY <3>1 DEF more
  <2>2. CASE n <= c - half /\ S = {}
    <3>1. -half <= n - c /\ n - c <= half
      BY <1>1, <1>2, <1>3, <1>6, <2>2
    <3> QED
      BY <3>1 DEF more
  <2>3. CASE n <= c - half /\ S # {}
    <3>1. PICK x \in S : -half <= n - x /\ n - x <= half
      BY <1>3, <1>6, <2>3
    <3> QED
      BY <3>1 DEF more
  <2> QED
    BY <1>1, <1>2, <2>1, <2>2, <2>3
<1>7. c \in more /\ (c + spacing) - spacing = c /\ c + spacing \in Int
  BY <1>1, <1>2 DEF more
<1>8. Spaced(near, spacing, c + spacing, more)
  BY <1>2, <1>5, <1>6, <1>7 DEF Spaced, half
<1> QED
  BY <1>4, <1>8 DEF more

(* What an answer to a request for lines has to do with the boundary b.      *)
Laid(state, o, c, S, b) ==
  state \in {"laying", "no_transects", "planned"} =>
    /\ o.boundary = b
    /\ o.spacing \in Spacings
    /\ 2 * o.spacing < 2^MantissaBits
    /\ Spaced(Near(o), o.spacing, c, S)
    /\ state = "planned" => S # {} /\ c >= Far(o)

LinesInv ==
  /\ call # None \/ Measured => runs # << >>
  /\ runs # << >> => laying = "planned" /\ Exact(boundary)
  /\ Exact(boundary) => Laid(laying, order, cursor, ordinates, boundary)

(* The ends of a polygon that is exact.                                      *)
LEMMA ExactEnds ==
  ASSUME NEW b \in Polygons, ValidPolygon(b), Exact(b)
  PROVE  /\ 2^MantissaBits \in Int
         /\ \A axis \in 1..2 :
              /\ Bounds(b).min[axis] \in Int /\ Bounds(b).max[axis] \in Int
              /\ Bounds(b).min[axis] <= Bounds(b).max[axis]
              /\ -(2^MantissaBits) < 4 * Bounds(b).min[axis]
              /\ 4 * Bounds(b).max[axis] < 2^MantissaBits
<1>1. 2^MantissaBits \in Int
  BY TransectsAssumption
<1>2. ASSUME NEW axis \in 1..2
      PROVE  /\ Bounds(b).min[axis] \in Int /\ Bounds(b).max[axis] \in Int
             /\ Bounds(b).min[axis] \in Coordinates(b, 1) \cup Coordinates(b, 2)
             /\ Bounds(b).max[axis] \in Coordinates(b, 1) \cup Coordinates(b, 2)
             /\ Bounds(b).min[axis] <= Bounds(b).max[axis]
  BY BoundsHold DEF Box
<1>3. ASSUME NEW axis \in 1..2
      PROVE  /\ -(2^MantissaBits) < 4 * Bounds(b).min[axis]
             /\ 4 * Bounds(b).max[axis] < 2^MantissaBits
  <2>1. 4 * Abs(Bounds(b).min[axis]) < 2^MantissaBits /\ 4 * Abs(Bounds(b).max[axis]) < 2^MantissaBits
    BY <1>2, <1>3 DEF Exact
  <2> QED
    BY <1>1, <1>2, <1>3, <2>1 DEF Abs
<1> QED
  BY <1>1, <1>2, <1>3

(* A boundary may be exact: then so are its spans and what is laid within it.*)
LEMMA GenerateLays ==
  ASSUME IInv, LinesInv, AskForLines
  PROVE  LinesInv'
<1>1. PICK heading \in Headings, spacing \in Spacings :
         Generate([boundary |-> boundary, heading |-> heading, spacing |-> spacing])
  BY DEF AskForLines
<1> DEFINE o == [boundary |-> boundary, heading |-> heading, spacing |-> spacing]
           B == 2^MantissaBits
<1>2. /\ call = None /\ runs = << >> /\ UNCHANGED <<calculation, boundary, runs>>
      /\ ~Measured
  BY DEF AskForLines, LinesInv
<1>3. o.boundary = boundary /\ o.spacing = spacing
  OBVIOUS
<1>4. /\ order' = o /\ ordinates' = {}
      /\ laying' \in {"spacing_invalid", "laying"}
      /\ laying' = "laying" => /\ cursor' = FirstLine(o)
                               /\ ~(spacing > Max({Span(boundary, 1), Span(boundary, 2)}))
  BY <1>1 DEF Generate
<1>5. boundary \in Polygons /\ ValidPolygon(boundary)
  BY DEF IInv, CalculationInv, BoundaryInv
<1> HIDE DEF o
<1>6. ASSUME Exact(boundary), laying' = "laying"
      PROVE  Laid(laying', order', cursor', ordinates', boundary)
  <2>1. /\ B \in Int
        /\ \A axis \in 1..2 :
             /\ Bounds(boundary).min[axis] \in Int /\ Bounds(boundary).max[axis] \in Int
             /\ Bounds(boundary).min[axis] <= Bounds(boundary).max[axis]
             /\ -B < 4 * Bounds(boundary).min[axis]
             /\ 4 * Bounds(boundary).max[axis] < B
    BY <1>5, <1>6, ExactEnds
  <2> HIDE DEF B
  <2>2. ASSUME NEW axis \in 1..2
        PROVE  Span(boundary, axis) \in Int /\ 2 * Span(boundary, axis) < B
    <3> DEFINE n == Bounds(boundary).max[axis] - Bounds(boundary).min[axis]
    <3>1. n \in Int /\ 0 <= n /\ 2 * n < B
      BY <2>1, <2>2
    <3>2. Abs(n) < B
      BY <2>1, <3>1 DEF Abs
    <3> HIDE DEF n
    <3>3. Fl(n) = n
      BY <3>1, <3>2, FlExact DEF B
    <3> QED
      BY <3>1, <3>3 DEF Span, n
  <2>3. spacing \in Nat \ {0} /\ spacing % 2 = 0
    BY SurveyAssumption
  <2> DEFINE half == spacing \div 2
             near == Near(o)
  <2>4. half \in Int /\ spacing = 2 * half /\ half > 0
    BY <2>3
  <2>5. 2 * spacing < B
    <3>1. /\ Span(boundary, 1) \in Int /\ 2 * Span(boundary, 1) < B
          /\ Span(boundary, 2) \in Int /\ 2 * Span(boundary, 2) < B
      BY <2>2
    <3>2. ~(spacing > Max({Span(boundary, 1), Span(boundary, 2)}))
      BY <1>4, <1>6
    <3>3. spacing <= Span(boundary, 1) \/ spacing <= Span(boundary, 2)
      BY <2>3, <3>1, <3>2, MaxOfTwo
    <3> QED
      BY <2>1, <2>3, <3>1, <3>3
  <2>6. near \in Int /\ -B < 4 * near /\ 4 * near < B
    <3>1. Axis(o) \in 1..2 /\ near = Bounds(boundary).min[Axis(o)]
      BY <1>3 DEF Near, Axis
    <3> QED
      BY <2>1, <3>1
  <2> HIDE DEF half, near
  <2>7. cursor' = near + half
    <3>1. near + half \in Int /\ Abs(near + half) < B
      BY <2>1, <2>4, <2>5, <2>6 DEF Abs
    <3>2. Fl(near + half) = near + half
      BY <3>1, FlExact DEF B
    <3> QED
      BY <1>3, <1>4, <1>6, <3>2 DEF FirstLine, near, half
  <2>8. near + half \in Int
    BY <2>4, <2>6
  <2>9. Spaced(near, spacing, cursor', {})
    BY <2>7, <2>8 DEF Spaced, half
  <2> QED
    BY <1>3, <1>4, <1>6, <2>5, <2>9 DEF Laid, near, B
<1>7. ASSUME laying' # "laying"
      PROVE  Laid(laying', order', cursor', ordinates', boundary)
  BY <1>4, <1>7 DEF Laid
<1>8. ~(call # None \/ Measured)'
  BY <1>2 DEF Measured, calculation
<1> QED
  BY <1>2, <1>6, <1>7, <1>8 DEF LinesInv

LEMMA LayLays ==
  ASSUME IInv, LinesInv, Lay, UNCHANGED <<calculation, boundary, runs>>
  PROVE  LinesInv'
<1>1. /\ laying = "laying" /\ cursor < Far(order) /\ ordinates' = ordinates \cup {cursor}
      /\ cursor' = NextLine(cursor, order.spacing) /\ UNCHANGED <<laying, order>>
  BY DEF Lay
<1>2. runs = << >> /\ runs' = runs /\ ~(call # None \/ Measured)
  BY <1>1 DEF LinesInv
<1>3. ~(call # None \/ Measured)'
  BY <1>2 DEF Measured, calculation
<1>4. boundary \in Polygons /\ ValidPolygon(boundary)
  BY DEF IInv, CalculationInv, BoundaryInv
<1> DEFINE near == Near(order)
           far == Far(order)
           spacing == order.spacing
           B == 2^MantissaBits
<1>5. ASSUME Exact(boundary)
      PROVE  Laid(laying', order', cursor', ordinates', boundary)
  <2>1. /\ order.boundary = boundary /\ spacing \in Spacings /\ 2 * spacing < B
        /\ Spaced(near, spacing, cursor, ordinates)
    BY <1>1, <1>5 DEF LinesInv, Laid
  <2>2. spacing \in Nat
    BY <2>1, SurveyAssumption
  <2>3. B \in Int /\ near \in Int /\ far \in Int /\ -B < 4 * near /\ 4 * far < B
    <3>1. Axis(order) \in 1..2
      BY DEF Axis
    <3> QED
      BY <1>4, <1>5, <2>1, <3>1, ExactEnds DEF Near, Far
  <2> HIDE DEF near, far, spacing, B
  <2>4. near < cursor /\ Spaced(near, spacing, cursor + spacing, ordinates \cup {cursor})
    BY <2>1, <2>3, NextSpaced
  <2>5. cursor \in Int /\ cursor < far
    BY <1>1, <2>1 DEF Spaced, far
  <2>6. cursor + spacing \in Int /\ Abs(cursor + spacing) < B
    BY <2>1, <2>2, <2>3, <2>4, <2>5 DEF Abs
  <2>7. Fl(cursor + spacing) = cursor + spacing
    BY <2>6, FlExact DEF B
  <2>8. cursor' = cursor + spacing
    BY <1>1, <2>7 DEF NextLine, spacing
  <2> QED
    BY <1>1, <2>1, <2>4, <2>8 DEF Laid, near, spacing, B
<1> QED
  BY <1>2, <1>3, <1>5 DEF LinesInv

LEMMA EndLayingLays ==
  ASSUME LinesInv, EndLaying, UNCHANGED <<calculation, boundary, runs>>
  PROVE  LinesInv'
<1>1. /\ laying = "laying" /\ cursor >= Far(order) /\ UNCHANGED <<order, cursor, ordinates>>
      /\ laying' = IF ordinates = {} THEN "no_transects" ELSE "planned"
  BY DEF EndLaying
<1>2. runs = << >> /\ runs' = runs /\ ~(call # None \/ Measured)
  BY <1>1 DEF LinesInv
<1>3. ~(call # None \/ Measured)'
  BY <1>2 DEF Measured, calculation
<1>4. ASSUME Exact(boundary)
      PROVE  Laid(laying', order, cursor, ordinates, boundary)
  BY <1>1, <1>4 DEF LinesInv, Laid
<1> QED
  BY <1>1, <1>2, <1>3, <1>4 DEF LinesInv

LEMMA LinesHold == Spec => [](IInv /\ LinesInv)
<1>1. Init => IInv /\ LinesInv
  <2>1. Init => IInv
    BY InvStarts
  <2>2. Init => LinesInv
    BY DEF Init, TransectsInit, CoverageInit, LinesInv, Laid, Measured
  <2> QED
    BY <2>1, <2>2
<1>2. IInv /\ LinesInv /\ [Next]_vars => (IInv /\ LinesInv)'
  <2> SUFFICES ASSUME IInv, LinesInv, [Next]_vars PROVE (IInv /\ LinesInv)'
    OBVIOUS
  <2>1. IInv'
    BY NextKeeps
  <2> SUFFICES LinesInv'
    BY <2>1
  <2>2. ASSUME runs # << >>, runs' # << >>, UNCHANGED <<transects, boundary>>
        PROVE  LinesInv'
    BY <2>2 DEF LinesInv, transects
  <2>3. \A run : Append(runs, run) # << >>
    <3> SUFFICES ASSUME NEW run PROVE Append(runs, run) # << >>
      OBVIOUS
    <3>1. Len(runs) \in Nat /\ Len(Append(runs, run)) = Len(runs) + 1
      BY LongerList DEF IInv, CalculationInv
    <3>2. Len(Append(runs, run)) # 0
      BY <3>1
    <3>3. Len(<< >>) = 0
      OBVIOUS
    <3> QED
      BY <3>2, <3>3
  <2>4. CASE AskForLines
    BY <2>4, GenerateLays
  <2>5. CASE LayLines
    BY <2>5, LayLays, EndLayingLays DEF LayLines
  <2>6. CASE SailRun
    <3>1. /\ laying = "planned" /\ Exact(boundary) /\ UNCHANGED <<transects, calculation, boundary>>
          /\ runs' # << >>
      BY <2>3, <2>6 DEF SailRun
    <3> QED
      BY <3>1 DEF LinesInv, transects
  <2>7. CASE SailRecommended
    <3>1. Measured /\ runs' # << >> /\ UNCHANGED <<transects, boundary>>
      BY <2>3, <2>7 DEF SailRecommended
    <3> QED
      BY <2>2, <3>1 DEF LinesInv
  <2>8. CASE Detect
    BY <2>2, <2>8 DEF Detect
  <2>9. CASE Calculate
    <3>1. call # None /\ UNCHANGED <<transects, boundary, runs>>
      BY <2>9 DEF Calculate, SampleCell, NextRow, ReturnCoverage
    <3> QED
      BY <2>2, <3>1 DEF LinesInv
  <2>10. CASE UNCHANGED vars
    BY <2>10 DEF vars, transects, calculation, LinesInv, Measured
  <2> QED
    BY <2>4, <2>5, <2>6, <2>7, <2>8, <2>9, <2>10 DEF Next
<1> QED
  BY <1>1, <1>2, PTL DEF Spec

(* A line that is sailed reaches the points within half a swath of it.       *)
LEMMA PlannedReaches ==
  ASSUME NEW o, o.boundary \in Polygons, ValidPolygon(o.boundary), NEW p \in Int \X Int,
         \A axis \in 1..2 : /\ Bounds(o.boundary).min[axis] <= p[axis]
                            /\ p[axis] <= Bounds(o.boundary).max[axis],
         NEW x \in Int, NEW track, track.swath \in Int, TransectLine(o, x) \in track.lines,
         -track.swath <= 2 * (p[Axis(o)] - x), 2 * (p[Axis(o)] - x) <= track.swath
  PROVE  CoveredBy(p, track)
<1> DEFINE b == Bounds(o.boundary)
<1>1. b.min \in Int \X Int /\ b.max \in Int \X Int
  BY BoundsHold DEF Box
<1>2. b.min[1] \in Int /\ b.min[2] \in Int /\ b.max[1] \in Int /\ b.max[2] \in Int
  BY <1>1
<1>3. b.min[1] <= p[1] /\ p[1] <= b.max[1] /\ b.min[2] <= p[2] /\ p[2] <= b.max[2]
  OBVIOUS
<1>4. CASE Horizontal(o.heading)
  <2> DEFINE start == <<b.min[1], x>>
             end == <<b.max[1], x>>
  <2>1. <<start, end>> \in track.lines /\ Axis(o) = 2
    BY <1>4 DEF TransectLine, Axis
  <2>2. start \in Int \X Int /\ end \in Int \X Int /\ 1 \in 1..2 /\ Other(1) = 2
    BY <1>2 DEF Other
  <2>3. start[1] = b.min[1] /\ end[1] = b.max[1] /\ start[2] = x /\ end[2] = x
    OBVIOUS
  <2> HIDE DEF b, start, end
  <2> QED
    BY <1>3, <2>1, <2>2, <2>3, CoveredAlong
<1>5. CASE ~Horizontal(o.heading)
  <2> DEFINE start == <<x, b.min[2]>>
             end == <<x, b.max[2]>>
  <2>1. <<start, end>> \in track.lines /\ Axis(o) = 1
    BY <1>5 DEF TransectLine, Axis
  <2>2. start \in Int \X Int /\ end \in Int \X Int /\ 2 \in 1..2 /\ Other(2) = 1
    BY <1>2 DEF Other
  <2>3. start[2] = b.min[2] /\ end[2] = b.max[2] /\ start[1] = x /\ end[1] = x
    OBVIOUS
  <2> HIDE DEF b, start, end
  <2> QED
    BY <1>3, <2>1, <2>2, <2>3, CoveredAlong
<1> QED
  BY <1>4, <1>5

(* What a plan leaves uncovered when every line was sailed with a swath.     *)
LEMMA LeftUncovered ==
  ASSUME IInv, LinesInv, Measured, NEW swath \in Int,
         SailedAsPlanned(result.call.tracks, swath)
  PROVE  \A p \in Missed(result.call, Centres(result.grid)), x \in ordinates :
           /\ p[Axis(order)] \in Int /\ x \in Int
           /\ Near(order) <= p[Axis(order)] /\ p[Axis(order)] <= Far(order)
           /\ 2 * (p[Axis(order)] - x) < -swath \/ swath < 2 * (p[Axis(order)] - x)
<1> SUFFICES ASSUME NEW p \in Missed(result.call, Centres(result.grid)), NEW x \in ordinates
             PROVE  /\ p[Axis(order)] \in Int /\ x \in Int
                    /\ Near(order) <= p[Axis(order)] /\ p[Axis(order)] <= Far(order)
                    /\ 2 * (p[Axis(order)] - x) < -swath \/ swath < 2 * (p[Axis(order)] - x)
  OBVIOUS
<1> DEFINE c == result.call
           g == result.grid
           axis == Axis(order)
<1>1. AskedOf(c, boundary, runs) /\ g \in Grids(c) /\ g.columns > 0 /\ g.rows > 0
  BY DEF IInv, CalculationInv, Answered, Measured
<1>2. Len(runs) \in Nat /\ boundary \in Polygons /\ ValidPolygon(boundary)
  BY LongerList DEF IInv, CalculationInv, BoundaryInv
<1>3. c.boundary = boundary /\ c.resolution \in Resolutions
  BY <1>1, <1>2, AskedIs
<1>4. g \in GridType /\ g.near = Bounds(boundary).min
  BY <1>1, <1>2, <1>3, GridIs DEF FullGrid
<1>5. /\ order.boundary = boundary
      /\ Spaced(Near(order), order.spacing, cursor, ordinates)
  BY DEF LinesInv, Laid
<1>6. x \in Int /\ axis \in 1..2
  BY <1>5 DEF Spaced, Axis
<1>7. /\ p \in Centres(g) /\ PolygonContains(boundary, p)
      /\ \A t \in DOMAIN c.tracks : ~CoveredBy(p, c.tracks[t])
  BY <1>3 DEF Missed, Inside
<1>8. p \in Int \X Int
  BY <1>4, <1>7, CentresFinite
<1>9. \A a \in 1..2 : Bounds(boundary).min[a] <= p[a] /\ p[a] <= Bounds(boundary).max[a]
  BY <1>2, <1>4, <1>7, <1>8, CentreAfterNear, InsideBounds
<1>10. PICK t \in DOMAIN c.tracks : TransectLine(order, x) \in c.tracks[t].lines
                                    /\ c.tracks[t].swath >= swath
  BY DEF SailedAsPlanned, PlannedLines
<1>11. c.tracks[t].swath \in Int
  <2>1. PICK m \in 0..Len(runs), resolution \in Resolutions : c = Asked(boundary, runs, m, resolution)
    BY <1>1 DEF AskedOf
  <2>2. t \in 1..Len(runs) /\ c.tracks[t] = Track(runs[t])
    BY <1>2, <2>1 DEF Asked
  <2> QED
    BY <2>2 DEF IInv, RunsKnown, Track
<1>12. ~CoveredBy(p, c.tracks[t])
  BY <1>7
<1> DEFINE n == p[axis]
           wide == c.tracks[t].swath
<1>13. n \in Int
  BY <1>6, <1>8
<1>14. ~(-wide <= 2 * (n - x) /\ 2 * (n - x) <= wide)
  BY <1>2, <1>5, <1>6, <1>8, <1>9, <1>10, <1>11, <1>12, PlannedReaches
<1>15. wide \in Int /\ wide >= swath
  BY <1>10, <1>11
<1>16. Near(order) <= n /\ n <= Far(order)
  BY <1>5, <1>6, <1>9 DEF Near, Far
<1> HIDE DEF n, wide
<1>17. 2 * (n - x) < -swath \/ swath < 2 * (n - x)
  BY <1>6, <1>13, <1>14, <1>15
<1> QED
  BY <1>6, <1>13, <1>16, <1>17 DEF n

-----------------------------------------------------------------------------
(* What is measured, and what it says *)

LEMMA MissedIsUncovered ==
  ASSUME NEW c, NEW g
  PROVE  /\ CellsOf(c, g) = Inside(c, Centres(g))
         /\ Uncovered(c, g) = Missed(c, Centres(g))
  BY DEF CellsOf, Uncovered, Inside, Missed

(* The ratios and the gap of a result are those of the sets they are said to *)
(* be of, whatever the boundary, the tracks and the resolution.              *)
THEOREM ResultsAreMeasured == Spec => []ResultIsMeasured
<1>1. IInv => ResultIsMeasured
  <2> SUFFICES ASSUME IInv, Measured PROVE ResultIsMeasured
    BY DEF ResultIsMeasured
  <2> DEFINE c == result.call
             g == result.grid
             cells == CellsOf(c, g)
             uncovered == Uncovered(c, g)
             half == c.resolution \div 2
             doubly == {p \in cells : \E s, t \in DOMAIN c.tracks :
                          s # t /\ CoveredBy(p, c.tracks[s]) /\ CoveredBy(p, c.tracks[t])}
  <2>1. /\ AskedOf(c, boundary, runs) /\ g \in Grids(c)
        /\ result.tally = Tallied(c, Centres(g))
        /\ Boxes(result.gap, Missed(c, Centres(g)), half)
    BY DEF IInv, CalculationInv, Answered, Measured
  <2>2. c.boundary = boundary /\ c.resolution \in Resolutions
    BY <2>1, AskedIs, LongerList DEF IInv, CalculationInv
  <2>3. g \in GridType /\ half \in Nat
    BY <2>1, <2>2, GridIs, ResolutionType DEF IInv, CalculationInv, BoundaryInv
  <2>4. /\ cells = Inside(c, Centres(g)) /\ uncovered = Missed(c, Centres(g))
        /\ doubly = Repeated(c, Centres(g))
    BY MissedIsUncovered DEF Repeated
  <2>5. uncovered \subseteq Int \X Int
    BY <2>3, <2>4, CentresFinite DEF Missed, Inside
  <2>6. result.tally = [inside |-> Cardinality(cells),
                        covered |-> Cardinality(cells \ uncovered),
                        overlap |-> Cardinality(doubly)]
    BY <2>1, <2>4 DEF Tallied
  <2> HIDE DEF c, g, cells, uncovered, half, doubly
  <2>7. ASSUME uncovered # {}, NEW axis \in 1..2
        PROVE  /\ result.gap.min[axis] = Min({p[axis] : p \in uncovered}) - half
               /\ result.gap.max[axis] = Max({p[axis] : p \in uncovered}) + half
    <3>1. /\ \A p \in uncovered : /\ result.gap.min[axis] <= p[axis] - half
                                  /\ p[axis] + half <= result.gap.max[axis]
          /\ \E p \in uncovered : result.gap.min[axis] = p[axis] - half
          /\ \E p \in uncovered : result.gap.max[axis] = p[axis] + half
          /\ \A p \in uncovered : p[axis] \in Int
      BY <2>1, <2>4, <2>5, <2>7 DEF Boxes
    <3>2. PICK p \in uncovered : result.gap.min[axis] = p[axis] - half
      BY <3>1
    <3>3. PICK q \in uncovered : result.gap.max[axis] = q[axis] + half
      BY <3>1
    <3> DEFINE S == {r[axis] : r \in uncovered}
    <3>4. S \subseteq Int /\ p[axis] \in S /\ q[axis] \in S
      BY <3>1
    <3>5. \A y \in S : p[axis] <= y /\ q[axis] >= y
      BY <2>3, <3>1, <3>2, <3>3
    <3> HIDE DEF S
    <3>6. Min(S) = p[axis] /\ Max(S) = q[axis]
      BY <3>4, <3>5, MinIs, MaxIs
    <3> QED
      BY <3>2, <3>3, <3>6 DEF S
  <2>8. (result.gap = None) <=> (uncovered = {})
    BY <2>1, <2>4 DEF Boxes
  <2> QED
    BY <2>6, <2>7, <2>8 DEF ResultIsMeasured, c, g, cells, uncovered, half, doubly
<1> QED
  BY <1>1, Invariance, PTL

(* Once the recommended line has been sailed, a calculation that takes it    *)
(* into account finds no gap on the same grid.                               *)
THEOREM RecommendationsClose == Spec => []RecommendationCloses
<1>1. IInv => RecommendationCloses
  <2> SUFFICES ASSUME IInv, Measured, NEW r \in DOMAIN runs,
                      runs[r].after = result.call.resolution, r \in DOMAIN result.call.tracks
               PROVE  result.gap = None
    BY DEF RecommendationCloses
  <2> DEFINE c == result.call
             g == result.grid
  <2>1. /\ AskedOf(c, boundary, runs) /\ g \in Grids(c) /\ g.columns > 0 /\ g.rows > 0
        /\ Boxes(result.gap, Missed(c, Centres(g)), c.resolution \div 2)
    BY DEF IInv, CalculationInv, Answered, Measured
  <2>2. Len(runs) \in Nat /\ DOMAIN runs = 1..Len(runs)
    BY LongerList DEF IInv, CalculationInv
  <2>3. c.boundary = boundary /\ c.resolution \in Resolutions
    BY <2>1, <2>2, AskedIs
  <2>4. g = FullGrid(boundary, c.resolution)
    BY <2>1, <2>3, GridIs DEF IInv, CalculationInv, BoundaryInv
  <2>5. c.resolution # None
    BY <2>3, ResolutionType, NoneAssumption
  <2>6. CoveredUpTo(r, runs, boundary, c.resolution)
    BY <2>2, <2>5 DEF IInv, RunsKnown
  <2>7. PICK m \in 0..Len(runs), res \in Resolutions : c = Asked(boundary, runs, m, res)
    BY <2>1 DEF AskedOf
  <2>8. DOMAIN c.tracks = 1..m /\ \A t \in 1..m : c.tracks[t] = Track(runs[t])
    BY <2>7 DEF Asked
  <2>9. \A j \in 1..r : j \in DOMAIN c.tracks
    BY <2>2, <2>8
  <2>10. Missed(c, Centres(g)) = {}
    <3> SUFFICES ASSUME NEW p \in Missed(c, Centres(g)) PROVE FALSE
      OBVIOUS
    <3>1. /\ p \in Centres(g) /\ PolygonContains(boundary, p)
          /\ \A t \in DOMAIN c.tracks : ~CoveredBy(p, c.tracks[t])
      BY <2>3 DEF Missed, Inside
    <3>2. PICK j \in 1..r : CoveredBy(p, Track(runs[j]))
      BY <2>4, <2>6, <3>1 DEF CoveredUpTo
    <3> QED
      BY <2>8, <2>9, <3>1, <3>2
  <2> QED
    BY <2>1, <2>10 DEF Boxes
<1> QED
  BY <1>1, Invariance, PTL

(* Once every planned line was sailed as wide as the spacing, all that is    *)
(* missed is a strip past the last line, less than half a spacing and a cell *)
(* wide; when it was sailed twice as wide, nothing is.                       *)
THEOREM PlansCover == Spec => []PlanCovers
<1>1. IInv /\ LinesInv => PlanCovers
  <2> SUFFICES ASSUME IInv, LinesInv, Measured PROVE PlanCovers
    BY DEF PlanCovers
  <2> DEFINE c == result.call
             missed == Missed(c, Centres(result.grid))
             axis == Axis(order)
             near == Near(order)
             far == Far(order)
             spacing == order.spacing
             half == spacing \div 2
             cell == c.resolution \div 2
             last == LastLine
  <2>1. AskedOf(c, boundary, runs) /\ Boxes(result.gap, missed, cell)
    BY DEF IInv, CalculationInv, Answered, Measured
  <2>2. cell \in Nat /\ c.resolution = 2 * cell /\ c.resolution \in Nat
    <3>1. Len(runs) \in Nat
      BY LongerList DEF IInv, CalculationInv
    <3> QED
      BY <2>1, <3>1, AskedIs, ResolutionType
  <2>3. /\ order.boundary = boundary /\ spacing \in Spacings
        /\ Spaced(near, spacing, cursor, ordinates)
        /\ ordinates # {} /\ cursor >= far
    BY DEF LinesInv, Laid
  <2>4. spacing \in Int /\ half \in Int /\ spacing = 2 * half /\ half > 0
    <3>1. spacing \in Nat \ {0} /\ spacing % 2 = 0
      BY <2>3, SurveyAssumption
    <3> QED
      BY <3>1
  <2>5. near \in Int /\ far \in Int /\ axis \in 1..2
    <3>1. boundary \in Polygons /\ ValidPolygon(boundary)
      BY DEF IInv, CalculationInv, BoundaryInv
    <3>2. Axis(order) \in 1..2
      BY DEF Axis
    <3> QED
      BY <2>3, <3>1, <3>2, BoundsHold DEF Near, Far, Box
  <2> HIDE DEF c, missed, near, far, spacing, half, cell
  <2>6. /\ cursor \in Int /\ ordinates \subseteq Int
        /\ last = cursor - spacing /\ last \in ordinates
        /\ \A n \in Int : near <= n /\ n <= last + half =>
             \E x \in ordinates : -half <= n - x /\ n - x <= half
    <3>1. /\ cursor \in Int /\ ordinates \subseteq Int /\ cursor - spacing \in ordinates
          /\ \A x \in ordinates : x <= cursor - spacing
          /\ \A n \in Int : near <= n /\ n <= cursor - half =>
               \E x \in ordinates : -half <= n - x /\ n - x <= half
      BY <2>3 DEF Spaced, half
    <3>2. \A x \in ordinates : cursor - spacing >= x
      BY <2>4, <3>1
    <3>3. last = cursor - spacing
      BY <3>1, <3>2, MaxIs DEF LastLine
    <3>4. last + half = cursor - half
      BY <2>4, <3>1, <3>3
    <3> QED
      BY <3>1, <3>3, <3>4
  <2> HIDE DEF last
  <2>7. ASSUME SailedAsPlanned(c.tracks, spacing), NEW p \in missed
        PROVE  p[axis] \in Int /\ last + half < p[axis] /\ p[axis] <= far
    <3>1. \A x \in ordinates : /\ p[axis] \in Int /\ x \in Int
                               /\ near <= p[axis] /\ p[axis] <= far
                               /\ 2 * (p[axis] - x) < -spacing \/ spacing < 2 * (p[axis] - x)
      BY <2>4, <2>7, LeftUncovered DEF c, missed, near, far
    <3>2. p[axis] \in Int /\ near <= p[axis] /\ p[axis] <= far
      BY <2>6, <3>1
    <3>3. \A x \in ordinates : ~(-half <= p[axis] - x /\ p[axis] - x <= half)
      BY <2>4, <3>1, <3>2
    <3>4. ~(p[axis] <= last + half)
      BY <2>6, <3>2, <3>3
    <3> QED
      BY <2>4, <2>6, <3>2, <3>4
  <2>8. ASSUME SailedAsPlanned(c.tracks, spacing), result.gap # None
        PROVE  /\ 2 * (result.gap.min[axis] + cell - last) > spacing
               /\ 2 * Side(result.gap, axis) < spacing + 2 * c.resolution
    <3>1. missed # {}
      BY <2>1, <2>8 DEF Boxes
    <3>2. /\ \E p \in missed : result.gap.min[axis] = p[axis] - cell
          /\ \E p \in missed : result.gap.max[axis] = p[axis] + cell
      BY <2>1, <2>5, <3>1 DEF Boxes
    <3>3. PICK p \in missed : result.gap.min[axis] = p[axis] - cell
      BY <3>2
    <3>4. PICK q \in missed : result.gap.max[axis] = q[axis] + cell
      BY <3>2
    <3>5. p[axis] \in Int /\ last + half < p[axis] /\ q[axis] \in Int /\ q[axis] <= far
      BY <2>7, <2>8
    <3>6. last \in Int /\ far <= last + spacing
      BY <2>3, <2>4, <2>5, <2>6
    <3> HIDE DEF axis
    <3>7. 2 * (result.gap.min[axis] + cell - last) > spacing
      BY <2>2, <2>4, <3>3, <3>5, <3>6
    <3>8. 2 * (result.gap.max[axis] - result.gap.min[axis]) < spacing + 2 * c.resolution
      BY <2>2, <2>4, <2>5, <3>3, <3>4, <3>5, <3>6
    <3> QED
      BY <3>7, <3>8 DEF Side
  <2>9. ASSUME SailedAsPlanned(c.tracks, 2 * spacing)
        PROVE  result.gap = None
    <3>1. SailedAsPlanned(c.tracks, spacing)
      <4> SUFFICES ASSUME NEW line \in PlannedLines
                   PROVE  \E t \in DOMAIN c.tracks : /\ line \in c.tracks[t].lines
                                                     /\ c.tracks[t].swath >= spacing
        BY DEF SailedAsPlanned
      <4>1. PICK t \in DOMAIN c.tracks : /\ line \in c.tracks[t].lines
                                         /\ c.tracks[t].swath >= 2 * spacing
        BY <2>9 DEF SailedAsPlanned
      <4>2. c.tracks[t].swath \in Int
        <5>1. PICK m \in 0..Len(runs), resolution \in Resolutions :
                     c = Asked(boundary, runs, m, resolution)
          BY <2>1 DEF AskedOf
        <5>2. Len(runs) \in Nat
          BY LongerList DEF IInv, CalculationInv
        <5>3. t \in 1..Len(runs) /\ c.tracks[t] = Track(runs[t])
          BY <5>1, <5>2 DEF Asked
        <5> QED
          BY <5>3 DEF IInv, RunsKnown, Track
      <4> QED
        BY <2>4, <4>1, <4>2
    <3>2. missed = {}
      <4> SUFFICES ASSUME NEW p \in missed PROVE FALSE
        OBVIOUS
      <4>1. p[axis] \in Int /\ last + half < p[axis] /\ p[axis] <= far
        BY <2>7, <3>1
      <4>2. 2 * (p[axis] - last) < -(2 * spacing) \/ 2 * spacing < 2 * (p[axis] - last)
        BY <2>4, <2>6, <2>9, LeftUncovered DEF c, missed
      <4> HIDE DEF axis
      <4> QED
        BY <2>3, <2>4, <2>5, <2>6, <4>1, <4>2
    <3> QED
      BY <2>1, <3>2 DEF Boxes
  <2> QED
    BY <2>8, <2>9 DEF PlanCovers, c, spacing, cell, last
<1> QED
  BY <1>1, LinesHold, PTL

-----------------------------------------------------------------------------
(* A ring that is cut in two: what its parts contain *)

Point == Int \X Int

(* The edges of a ring that the ray from p crosses.                          *)
Crossed(ring, p) == {k \in DOMAIN ring : Crosses(ring[k], ring[Before(ring, k)], p)}

(* An edge is crossed from whichever end it is looked at.                    *)
LEMMA CrossesBothWays ==
  ASSUME NEW a \in Int \X Int, NEW b \in Int \X Int, NEW p \in Int \X Int
  PROVE  Crosses(a, b, p) <=> Crosses(b, a, p)
<1>1. a[1] \in Int /\ a[2] \in Int /\ b[1] \in Int /\ b[2] \in Int /\ p[1] \in Int /\ p[2] \in Int
  OBVIOUS
<1> DEFINE Left(c, d) == (p[1] - c[1]) * (d[2] - c[2])
           Right(c, d) == (d[1] - c[1]) * (p[2] - c[2])
<1>2. Left(a, b) - Right(a, b) = -(Left(b, a) - Right(b, a))
  BY <1>1
<1>3. \A c, d \in {a, b} : Left(c, d) \in Int /\ Right(c, d) \in Int
  BY <1>1
<1> HIDE DEF Left, Right
<1>4. Left(a, b) < Right(a, b) <=> Left(b, a) > Right(b, a)
  BY <1>2, <1>3
<1>5. Left(b, a) < Right(b, a) <=> Left(a, b) > Right(a, b)
  BY <1>2, <1>3
<1>6. a[2] # b[2] => (b[2] > a[2] <=> ~(a[2] > b[2]))
  BY <1>1
<1> QED
  BY <1>1, <1>4, <1>5, <1>6 DEF Crosses, Left, Right

LEMMA NoEdgeToItself ==
  ASSUME NEW a, NEW p
  PROVE  ~Crosses(a, a, p)
BY DEF Crosses

LEMMA ShiftedCardinality ==
  ASSUME NEW S, S \subseteq Int, IsFiniteSet(S), NEW m \in Int
  PROVE  /\ IsFiniteSet({k + m : k \in S})
         /\ Cardinality({k + m : k \in S}) = Cardinality(S)
<1> DEFINE T == {k + m : k \in S}
           f == [k \in S |-> k + m]
<1>1. \A k, l \in S : k + m = l + m => k = l
  OBVIOUS
<1>2. f \in Bijection(S, T)
  BY <1>1 DEF Bijection, Injection, Surjection, IsInjective
<1> QED
  BY <1>2, FS_Bijection DEF ExistsBijection

LEMMA DisjointCardinality ==
  ASSUME NEW S, NEW T, IsFiniteSet(S), IsFiniteSet(T), S \cap T = {}
  PROVE  /\ IsFiniteSet(S \cup T)
         /\ Cardinality(S \cup T) = Cardinality(S) + Cardinality(T)
         /\ Cardinality(S) \in Nat /\ Cardinality(T) \in Nat
<1>1. /\ IsFiniteSet(S \cup T)
      /\ Cardinality(S \cup T) = Cardinality(S) + Cardinality(T) - Cardinality(S \cap T)
  BY FS_Union
<1>2. Cardinality(S \cap T) = 0
  BY FS_EmptySet
<1>3. Cardinality(S) \in Nat /\ Cardinality(T) \in Nat
  BY FS_CardinalityType
<1> QED
  BY <1>1, <1>2, <1>3

LEMMA SubSeqIs ==
  ASSUME NEW S, NEW s, NEW m \in Int, NEW n \in Int, m <= n, \A k \in m..n : s[k] \in S
  PROVE  /\ SubSeq(s, m, n) \in Seq(S) /\ Len(SubSeq(s, m, n)) = n - m + 1
         /\ \A k \in 1..(n - m + 1) : SubSeq(s, m, n)[k] = s[m + k - 1]
<1>1. Len(SubSeq(s, m, n)) = IF m <= n THEN n - m + 1 ELSE 0
  BY SubSeqProperties
<1>2. /\ SubSeq(s, m, n) \in Seq(S)
      /\ \A k \in 1..(n - m + 1) : SubSeq(s, m, n)[k] = s[m + k - 1]
  BY SubSeqProperties
<1> QED
  BY <1>1, <1>2

(* The corners of a ring that is cut, and of its parts.                      *)
LEMMA CutPlaces ==
  ASSUME NEW S, NEW ring \in Seq(S), NEW i \in DOMAIN ring, NEW j \in (i + 1)..Len(ring)
  PROVE  /\ Len(ring) \in Nat /\ DOMAIN ring = 1..Len(ring)
         /\ i \in 1..Len(ring) /\ j \in 1..Len(ring) /\ i < j
         /\ \A k \in 1..Len(ring) : ring[k] \in S
BY LenProperties

OutIs(S, ring, i, j, part) ==
  /\ part \in Seq(S)
  /\ Len(part) = j - i + 2
  /\ DOMAIN part = 1..(j - i + 2)
  /\ \A k \in 1..(j - i + 1) : part[k] = ring[k + i - 1]
  /\ part[j - i + 2] = ring[i]

LEMMA OutCorners ==
  ASSUME NEW S, NEW ring \in Seq(S), NEW i \in DOMAIN ring, NEW j \in (i + 1)..Len(ring)
  PROVE  OutIs(S, ring, i, j, CutOut(ring, i, j))
<1> DEFINE n == Len(ring)
           between == SubSeq(ring, i, j)
           out == Append(between, ring[i])
<1>1. n \in Nat /\ i \in 1..n /\ j \in 1..n /\ i < j
  BY CutPlaces
<1>2. \A k \in 1..n : ring[k] \in S
  BY CutPlaces
<1> HIDE DEF n
<1>3. /\ between \in Seq(S) /\ Len(between) = j - i + 1
      /\ \A k \in 1..(j - i + 1) : between[k] = ring[i + k - 1]
  <2>1. i \in Int /\ j \in Int /\ i <= j /\ \A k \in i..j : ring[k] \in S
    BY <1>1, <1>2
  <2> QED
    BY <2>1, SubSeqIs, SMTT(60)
<1>6. ring[i] \in S
  BY <1>1, <1>2
<1> HIDE DEF between
<1>7. /\ out \in Seq(S) /\ Len(out) = j - i + 2 /\ out[j - i + 2] = ring[i]
      /\ \A k \in 1..(j - i + 1) : out[k] = ring[k + i - 1]
  <2>1. /\ out \in Seq(S) /\ Len(out) = Len(between) + 1 /\ out[Len(between) + 1] = ring[i]
        /\ \A k \in 1..Len(between) : out[k] = between[k]
    BY <1>3, <1>6, AppendProperties
  <2>2. j - i + 1 + 1 = j - i + 2 /\ \A k \in 1..(j - i + 1) : i + k - 1 = k + i - 1
    BY <1>1
  <2> QED
    BY <1>3, <2>1, <2>2
<1> HIDE DEF out
<1>8. DOMAIN out = 1..(j - i + 2)
  BY <1>7, LenProperties
<1>9. out = CutOut(ring, i, j)
  BY DEF CutOut, out, between
<1> QED
  BY <1>7, <1>8, <1>9 DEF OutIs

LEMMA RestPlace ==
  ASSUME NEW n \in Nat, NEW i \in 1..n, NEW j \in 1..n, i < j, NEW k \in (i + 1)..(i + n - j + 1)
  PROVE  /\ k \in 1..(i + (n - j + 1)) /\ ~(k <= i)
         /\ k - i \in 1..(n - j + 1) /\ j + (k - i) - 1 = k + j - i - 1
OBVIOUS

OffIs(S, ring, i, j, part) ==
  /\ part \in Seq(S)
  /\ Len(part) = i + Len(ring) - j + 1
  /\ DOMAIN part = 1..(i + Len(ring) - j + 1)
  /\ \A k \in 1..i : part[k] = ring[k]
  /\ \A k \in (i + 1)..(i + Len(ring) - j + 1) : part[k] = ring[k + j - i - 1]

LEMMA OffCorners ==
  ASSUME NEW S, NEW ring \in Seq(S), NEW i \in DOMAIN ring, NEW j \in (i + 1)..Len(ring)
  PROVE  OffIs(S, ring, i, j, CutOff(ring, i, j))
<1> DEFINE n == Len(ring)
           first == SubSeq(ring, 1, i)
           rest == SubSeq(ring, j, n)
           off == first \o rest
<1>1. n \in Nat /\ i \in 1..n /\ j \in 1..n /\ i < j
  BY CutPlaces
<1>2. \A k \in 1..n : ring[k] \in S
  BY CutPlaces
<1> HIDE DEF n
<1>4. /\ first \in Seq(S) /\ Len(first) = i
      /\ \A k \in 1..i : first[k] = ring[k]
  <2>1. i \in Int /\ 1 <= i /\ \A k \in 1..i : ring[k] \in S
    BY <1>1, <1>2
  <2>2. /\ first \in Seq(S) /\ Len(first) = i - 1 + 1
        /\ \A k \in 1..(i - 1 + 1) : first[k] = ring[1 + k - 1]
    BY <2>1, SubSeqIs
  <2>3. i - 1 + 1 = i /\ \A k \in 1..i : 1 + k - 1 = k
    BY <2>1
  <2> QED
    BY <2>2, <2>3
<1>5. /\ rest \in Seq(S) /\ Len(rest) = n - j + 1
      /\ \A k \in 1..(n - j + 1) : rest[k] = ring[j + k - 1]
  <2>1. j \in Int /\ n \in Int /\ j <= n /\ \A k \in j..n : ring[k] \in S
    BY <1>1, <1>2
  <2> QED
    BY <2>1, SubSeqIs
<1> HIDE DEF first, rest
<1>8. /\ off \in Seq(S) /\ Len(off) = i + (n - j + 1)
      /\ \A k \in 1..(i + (n - j + 1)) : off[k] = IF k <= i THEN first[k] ELSE rest[k - i]
  <2>1. /\ off \in Seq(S) /\ Len(off) = Len(first) + Len(rest)
        /\ \A k \in 1..(Len(first) + Len(rest)) :
             off[k] = IF k <= Len(first) THEN first[k] ELSE rest[k - Len(first)]
    BY <1>4, <1>5, ConcatProperties
  <2> QED
    BY <1>4, <1>5, <2>1
<1>9. i + (n - j + 1) = i + n - j + 1 /\ i <= i + n - j + 1
  BY <1>1
<1>10. \A k \in 1..i : off[k] = ring[k]
  <2> SUFFICES ASSUME NEW k \in 1..i PROVE off[k] = ring[k]
    OBVIOUS
  <2>1. k \in 1..(i + (n - j + 1)) /\ k <= i
    BY <1>1
  <2> QED
    BY <1>4, <1>8, <2>1
<1>11. ASSUME NEW k \in (i + 1)..(i + n - j + 1)
       PROVE  off[k] = ring[k + j - i - 1]
  <2>1. /\ k \in 1..(i + (n - j + 1)) /\ ~(k <= i)
        /\ k - i \in 1..(n - j + 1) /\ j + (k - i) - 1 = k + j - i - 1
    BY <1>1, <1>11, RestPlace
  <2> QED
    BY <1>5, <1>8, <2>1
<1> HIDE DEF off
<1>12. DOMAIN off = 1..(i + n - j + 1)
  BY <1>8, <1>9, LenProperties
<1>13. off = CutOff(ring, i, j)
  BY DEF CutOff, off, first, rest, n
<1> QED
  BY <1>8, <1>9, <1>10, <1>11, <1>12, <1>13 DEF OffIs, n

(* Where the k-th corner of a part lies in the whole.                        *)
OutPlace(n, i, j, k) ==
  /\ k + i - 1 \in (i + 1)..j /\ k + i - 1 \in 1..n /\ k + i - 1 # 1
  /\ k \in 1..(j - i + 2) /\ k # 1 /\ k \in 1..(j - i + 1) /\ k - 1 \in 1..(j - i + 1)
  /\ (k - 1) + i - 1 = (k + i - 1) - 1 /\ (k + i - 1) + (1 - i) = k

OffPlace(n, i, j, k) ==
  /\ k + j - i - 1 \in (j + 1)..n /\ k + j - i - 1 \in 1..n /\ k + j - i - 1 # 1
  /\ k \in 1..(i + n - j + 1) /\ k # 1
  /\ k \in (i + 1)..(i + n - j + 1) /\ k - 1 \in (i + 1)..(i + n - j + 1)
  /\ (k - 1) + j - i - 1 = (k + j - i - 1) - 1 /\ (k + j - i - 1) + (i - j + 1) = k

LEMMA PlacesAre ==
  ASSUME NEW n \in Nat, NEW i \in 1..n, NEW j \in 1..n, i < j, NEW k \in Int
  PROVE  /\ k \in 2..(j - i + 1) => OutPlace(n, i, j, k)
         /\ k \in (i + 2)..(i + n - j + 1) => OffPlace(n, i, j, k)
BY DEF OutPlace, OffPlace

(* The crossed edges of a part are those that it has of the whole and, if it *)
(* is crossed, the cut.                                                      *)
LEMMA CrossedOut ==
  ASSUME NEW S, NEW ring \in Seq(S), NEW i \in DOMAIN ring, NEW j \in (i + 1)..Len(ring), NEW p
  PROVE  Crossed(CutOut(ring, i, j), p) =
           {k + (1 - i) : k \in Crossed(ring, p) \cap ((i + 1)..j)}
             \cup (IF Crosses(ring[i], ring[j], p) THEN {j - i + 2} ELSE {})
<1> DEFINE n == Len(ring)
           part == CutOut(ring, i, j)
           last == j - i + 2
<1>0. n \in Nat /\ DOMAIN ring = 1..n /\ i \in 1..n /\ j \in 1..n /\ i < j
  BY CutPlaces
<1>1. /\ Len(part) = last /\ DOMAIN part = 1..last /\ part[last] = ring[i]
      /\ \A k \in 1..(j - i + 1) : part[k] = ring[k + i - 1]
  <2>1. OutIs(S, ring, i, j, part)
    BY OutCorners
  <2> HIDE DEF part
  <2> QED
    BY <2>1 DEF OutIs
<1> HIDE DEF n, part
<1>2. part[1] = ring[i] /\ part[last - 1] = ring[j] /\ last \in Nat /\ last > 2
  <2>1. 1 \in 1..(j - i + 1) /\ 1 + i - 1 = i /\ last - 1 \in 1..(j - i + 1) /\ last - 1 + i - 1 = j
    BY <1>0
  <2>2. last \in Nat /\ last > 2
    BY <1>0
  <2>3. part[1] = ring[1 + i - 1] /\ part[last - 1] = ring[last - 1 + i - 1]
    BY <1>1, <2>1
  <2> QED
    BY <2>1, <2>2, <2>3
<1>3. 1 \notin Crossed(part, p)
  BY <1>1, <1>2, NoEdgeToItself DEF Crossed, Before
<1>4. last \in Crossed(part, p) <=> Crosses(ring[i], ring[j], p)
  BY <1>1, <1>2 DEF Crossed, Before
<1>5. ASSUME NEW k \in 2..(last - 1)
      PROVE  /\ k + i - 1 \in (i + 1)..j /\ (k + i - 1) + (1 - i) = k
             /\ k \in Crossed(part, p) <=> k + i - 1 \in Crossed(ring, p)
  <2>1. OutPlace(n, i, j, k)
    <3>1. k \in Int /\ k \in 2..(j - i + 1)
      OBVIOUS
    <3> QED
      BY <1>0, <3>1, PlacesAre
  <2>2. part[k] = ring[k + i - 1] /\ part[k - 1] = ring[(k + i - 1) - 1]
    BY <1>1, <2>1 DEF OutPlace
  <2> QED
    BY <1>0, <1>1, <2>1, <2>2 DEF OutPlace, Crossed, Before
<1>6. ASSUME NEW k \in (i + 1)..j
      PROVE  k + (1 - i) \in 2..(last - 1) /\ (k + (1 - i)) + i - 1 = k
  BY <1>0
<1>7. Crossed(part, p) \subseteq 1..last /\ 1..last = {1} \cup 2..(last - 1) \cup {last}
  BY <1>1, <1>2, SMTT(60) DEF Crossed
<1>8. Crossed(part, p) \cap (2..(last - 1)) =
        {k + (1 - i) : k \in Crossed(ring, p) \cap ((i + 1)..j)}
  <2>1. ASSUME NEW m \in Crossed(part, p) \cap (2..(last - 1))
        PROVE  m \in {k + (1 - i) : k \in Crossed(ring, p) \cap ((i + 1)..j)}
    BY <1>5
  <2>2. ASSUME NEW k \in Crossed(ring, p) \cap ((i + 1)..j)
        PROVE  k + (1 - i) \in Crossed(part, p) \cap (2..(last - 1))
    BY <1>5, <1>6
  <2> QED
    BY <2>1, <2>2
<1> HIDE DEF last
<1> QED
  BY <1>3, <1>4, <1>7, <1>8 DEF part, last

LEMMA CrossedOff ==
  ASSUME NEW S, NEW ring \in Seq(S), NEW i \in DOMAIN ring, NEW j \in (i + 1)..Len(ring), NEW p
  PROVE  Crossed(CutOff(ring, i, j), p) =
           (Crossed(ring, p) \cap (1..i))
             \cup {k + (i - j + 1) : k \in Crossed(ring, p) \cap ((j + 1)..Len(ring))}
             \cup (IF Crosses(ring[j], ring[i], p) THEN {i + 1} ELSE {})
<1> DEFINE n == Len(ring)
           part == CutOff(ring, i, j)
           last == i + n - j + 1
<1>0. n \in Nat /\ DOMAIN ring = 1..n /\ i \in 1..n /\ j \in 1..n /\ i < j
  BY CutPlaces
<1>1. /\ Len(part) = last /\ DOMAIN part = 1..last
      /\ \A k \in 1..i : part[k] = ring[k]
      /\ \A k \in (i + 1)..last : part[k] = ring[k + j - i - 1]
  <2>1. OffIs(S, ring, i, j, part)
    BY OffCorners
  <2> HIDE DEF part
  <2> QED
    BY <2>1 DEF OffIs
<1> HIDE DEF n, part
<1>2. /\ last \in Nat /\ i + 1 <= last
      /\ part[last] = ring[n] /\ part[i] = ring[i] /\ part[i + 1] = ring[j]
  <2>1. /\ last \in (i + 1)..last /\ last + j - i - 1 = n /\ i \in 1..i
        /\ i + 1 \in (i + 1)..last /\ (i + 1) + j - i - 1 = j
    BY <1>0, SMTT(60)
  <2>2. part[last] = ring[last + j - i - 1] /\ part[i + 1] = ring[(i + 1) + j - i - 1]
    BY <1>1, <2>1
  <2>3. last \in Nat /\ i + 1 <= last
    BY <1>0
  <2> QED
    BY <1>0, <2>1, <2>2, <2>3, <1>1
<1>3. i + 1 \in Crossed(part, p) <=> Crosses(ring[j], ring[i], p)
  <2>1. i + 1 \in 1..last /\ i + 1 # 1 /\ (i + 1) - 1 = i
    BY <1>0, <1>2, SMTT(60)
  <2> QED
    BY <1>1, <1>2, <2>1 DEF Crossed, Before
<1>4. ASSUME NEW k \in 1..i
      PROVE  k \in Crossed(part, p) <=> k \in Crossed(ring, p)
  <2>1. k \in 1..last /\ k \in 1..n /\ (k # 1 => k - 1 \in 1..i)
    BY <1>0, <1>2, SMTT(60)
  <2>2. part[k] = ring[k] /\ part[Before(part, k)] = ring[Before(ring, k)]
    BY <1>0, <1>1, <1>2, <2>1 DEF Before, n
  <2> QED
    BY <1>0, <1>1, <2>1, <2>2 DEF Crossed
<1>5. ASSUME NEW k \in (i + 2)..last
      PROVE  /\ k + j - i - 1 \in (j + 1)..n /\ (k + j - i - 1) + (i - j + 1) = k
             /\ k \in Crossed(part, p) <=> k + j - i - 1 \in Crossed(ring, p)
  <2>1. OffPlace(n, i, j, k)
    <3>1. k \in Int
      OBVIOUS
    <3> QED
      BY <1>0, <3>1, PlacesAre
  <2>2. part[k] = ring[k + j - i - 1] /\ part[k - 1] = ring[(k + j - i - 1) - 1]
    BY <1>1, <2>1 DEF OffPlace
  <2> QED
    BY <1>0, <1>1, <2>1, <2>2 DEF OffPlace, Crossed, Before
<1>6. ASSUME NEW k \in (j + 1)..n
      PROVE  k + (i - j + 1) \in (i + 2)..last /\ (k + (i - j + 1)) + j - i - 1 = k
  BY <1>0, SMTT(60)
<1>7. Crossed(part, p) \subseteq 1..last /\ 1..last = (1..i) \cup {i + 1} \cup ((i + 2)..last)
  BY <1>0, <1>1, <1>2, SMTT(60) DEF Crossed
<1>8. Crossed(part, p) \cap ((i + 2)..last) =
        {k + (i - j + 1) : k \in Crossed(ring, p) \cap ((j + 1)..n)}
  <2>1. ASSUME NEW m \in Crossed(part, p) \cap ((i + 2)..last)
        PROVE  m \in {k + (i - j + 1) : k \in Crossed(ring, p) \cap ((j + 1)..n)}
    BY <1>5
  <2>2. ASSUME NEW k \in Crossed(ring, p) \cap ((j + 1)..n)
        PROVE  k + (i - j + 1) \in Crossed(part, p) \cap ((i + 2)..last)
    BY <1>5, <1>6
  <2> QED
    BY <2>1, <2>2
<1>9. Crossed(part, p) \cap (1..i) = Crossed(ring, p) \cap (1..i)
  BY <1>4
<1> HIDE DEF last
<1> QED
  BY <1>3, <1>7, <1>8, <1>9 DEF part, n

Odd(n) == n % 2 = 1

LEMMA OddOfTwo ==
  ASSUME NEW a \in Nat, NEW b \in Nat, NEW c \in Nat, NEW o \in 0..1
  PROVE  Odd(a + b + c) <=> ~(Odd(c + o) <=> Odd(a + b + o))
BY DEF Odd

(* Of the parts of a ring that is cut, a point is in just one if it was in   *)
(* the ring, and in both or none if it was not: the cut is crossed for both. *)
LEMMA CutContains ==
  ASSUME NEW ring \in Seq(Point), NEW i \in DOMAIN ring, NEW j \in (i + 1)..Len(ring),
         NEW p \in Point
  PROVE  RingContains(ring, p) <=>
           ~(RingContains(CutOut(ring, i, j), p) <=> RingContains(CutOff(ring, i, j), p))
<1> DEFINE n == Len(ring)
           cut == Crosses(ring[i], ring[j], p)
           once == IF cut THEN 1 ELSE 0
           inner == Crossed(ring, p) \cap ((i + 1)..j)
           before == Crossed(ring, p) \cap (1..i)
           after == Crossed(ring, p) \cap ((j + 1)..n)
<1>1. /\ n \in Nat /\ DOMAIN ring = 1..n /\ i \in 1..n /\ j \in 1..n /\ i < j
      /\ ring[i] \in Point /\ ring[j] \in Point
  BY CutPlaces
<1>2. Crosses(ring[j], ring[i], p) <=> cut
  BY <1>1, CrossesBothWays DEF Point
<1>3. /\ inner \subseteq (i + 1)..j /\ before \subseteq 1..i /\ after \subseteq (j + 1)..n
      /\ Crossed(ring, p) = (before \cup after) \cup inner
  <2>1. Crossed(ring, p) \subseteq 1..n
    BY <1>1 DEF Crossed
  <2>2. 1..n = (1..i) \cup ((i + 1)..j) \cup ((j + 1)..n)
    BY <1>1
  <2> QED
    BY <2>1, <2>2
<1>4. IsFiniteSet(inner) /\ IsFiniteSet(before) /\ IsFiniteSet(after)
  <2>1. IsFiniteSet((i + 1)..j) /\ IsFiniteSet(1..i) /\ IsFiniteSet((j + 1)..n)
    BY <1>1, FS_Interval
  <2> QED
    BY <1>3, <2>1, FS_Subset
<1> DEFINE moved == {k + (1 - i) : k \in inner}
           shifted == {k + (i - j + 1) : k \in after}
           C(m) == IF cut THEN {m} ELSE {}
<1>5. /\ Crossed(CutOut(ring, i, j), p) = moved \cup C(j - i + 2)
      /\ Crossed(CutOff(ring, i, j), p) = (before \cup shifted) \cup C(i + 1)
  BY <1>2, CrossedOut, CrossedOff
<1> HIDE DEF n, cut, inner, before, after
<1>6. /\ i \in Int /\ j \in Int /\ 1 - i \in Int /\ i - j + 1 \in Int
      /\ inner \subseteq Int /\ after \subseteq Int
  BY <1>1, <1>3
<1>7. /\ IsFiniteSet(moved) /\ Cardinality(moved) = Cardinality(inner)
      /\ IsFiniteSet(shifted) /\ Cardinality(shifted) = Cardinality(after)
  BY <1>4, <1>6, ShiftedCardinality
<1>8. moved \subseteq 2..(j - i + 1) /\ shifted \subseteq (i + 2)..(i + n - j + 1)
  <2>1. \A k \in (i + 1)..j : k + (1 - i) \in 2..(j - i + 1)
    BY <1>6, SMTT(60)
  <2>2. \A k \in (j + 1)..n : k + (i - j + 1) \in (i + 2)..(i + n - j + 1)
    BY <1>1, <1>6, SMTT(60)
  <2> QED
    BY <1>3, <2>1, <2>2
<1>9. \A m : IsFiniteSet(C(m)) /\ Cardinality(C(m)) = once
  BY FS_EmptySet, FS_Singleton
<1> HIDE DEF moved, shifted, C, once
<1>10. Cardinality(Crossed(CutOut(ring, i, j), p)) = Cardinality(inner) + once
  <2>1. moved \cap C(j - i + 2) = {}
    BY <1>6, <1>8, SMTT(60) DEF C
  <2> QED
    <3>1. Cardinality(moved \cup C(j - i + 2)) = Cardinality(moved) + Cardinality(C(j - i + 2))
      BY <1>7, <1>9, <2>1, DisjointCardinality
    <3> QED
      BY <1>5, <1>7, <1>9, <3>1
<1>11. Cardinality(Crossed(CutOff(ring, i, j), p)) = Cardinality(before) + Cardinality(after) + once
  <2>1. before \cap shifted = {} /\ (before \cup shifted) \cap C(i + 1) = {}
    <3>1. (\A k \in before : k <= i) /\ (\A k \in shifted : k >= i + 2)
      BY <1>3, <1>8
    <3>2. before \subseteq Int /\ shifted \subseteq Int
      BY <1>3, <1>8
    <3> QED
      BY <1>6, <3>1, <3>2, SMTT(60) DEF C
  <2>2. /\ IsFiniteSet(before \cup shifted)
        /\ Cardinality(before \cup shifted) = Cardinality(before) + Cardinality(after)
    BY <1>4, <1>7, <2>1, DisjointCardinality, ZenonT(30)
  <2> QED
    <3>1. Cardinality((before \cup shifted) \cup C(i + 1)) =
            Cardinality(before \cup shifted) + Cardinality(C(i + 1))
      BY <1>9, <2>1, <2>2, DisjointCardinality
    <3> QED
      BY <1>5, <1>9, <2>2, <3>1
<1>12. Cardinality(Crossed(ring, p)) = Cardinality(before) + Cardinality(after) + Cardinality(inner)
  <2>1. before \cap after = {} /\ (before \cup after) \cap inner = {}
    <3>1. /\ \A k \in before : k <= i
          /\ \A k \in inner : i < k /\ k <= j
          /\ \A k \in after : j < k
          /\ before \subseteq Int
      BY <1>3, <1>6, SMTT(60)
    <3> QED
      BY <1>1, <1>6, <3>1
  <2>2. /\ IsFiniteSet(before \cup after)
        /\ Cardinality(before \cup after) = Cardinality(before) + Cardinality(after)
    BY <1>4, <2>1, DisjointCardinality
  <2> QED
    BY <1>3, <1>4, <2>1, <2>2, DisjointCardinality
<1>13. Cardinality(before) \in Nat /\ Cardinality(after) \in Nat /\ Cardinality(inner) \in Nat
  BY <1>4, FS_CardinalityType
<1>14. \A r : RingContains(r, p) <=> Cardinality(Crossed(r, p)) % 2 = 1
  BY DEF RingContains, Crossed
<1>15. once \in 0..1
  BY DEF once
<1> DEFINE whole == Cardinality(Crossed(ring, p))
           out == Cardinality(Crossed(CutOut(ring, i, j), p))
           off == Cardinality(Crossed(CutOff(ring, i, j), p))
<1>16. Odd(whole) <=> ~(Odd(out) <=> Odd(off))
  <2> DEFINE a == Cardinality(before)
             b == Cardinality(after)
             c == Cardinality(inner)
  <2>1. Odd(a + b + c) <=> ~(Odd(c + once) <=> Odd(a + b + once))
    BY <1>13, <1>15, OddOfTwo
  <2> QED
    BY <1>10, <1>11, <1>12, <2>1
<1> QED
  BY <1>14, <1>16 DEF Odd

-----------------------------------------------------------------------------
(* Sums over finite sets *)

(* Of the subsets of a finite set that are in Bad, one is minimal.           *)
LEMMA MinimalSubset ==
  ASSUME NEW S, IsFiniteSet(S), NEW Bad, Bad \subseteq SUBSET S, Bad # {}
  PROVE  \E T \in Bad : IsFiniteSet(T) /\ \A U \in SUBSET T : U # T => U \notin Bad
<1>1. Bad \subseteq FiniteSubsetsOf(S)
  BY FS_Subset DEF FiniteSubsetsOf
<1>2. PICK T \in Bad : \A V \in Bad : ~(<<V, T>> \in StrictSubsetOrdering(S))
  BY <1>1, FS_StrictSubsetOrderingWellFounded, WFMin
<1>3. T \subseteq S /\ IsFiniteSet(T)
  BY <1>1 DEF FiniteSubsetsOf
<1>4. ASSUME NEW U \in SUBSET T, U # T
      PROVE  U \notin Bad
  BY <1>2, <1>3, <1>4 DEF StrictSubsetOrdering
<1> QED
  BY <1>3, <1>4

First(s) == CHOOSE x \in s : TRUE
Sums(g, f, T) == g = [s \in SUBSET T |-> IF s = {} THEN 0 ELSE f[First(s)] + g[s \ {First(s)}]]

LEMMA SumIsFold ==
  ASSUME NEW f, NEW S
  PROVE  SumFunctionOnSet(f, S) = (CHOOSE g : Sums(g, f, S))[S]
BY DEF SumFunctionOnSet, FoldFunctionOnSet, MapThenFoldSet, Sums, First

LEMMA FirstIsIn ==
  ASSUME NEW s, s # {}
  PROVE  First(s) \in s /\ s \ {First(s)} \subseteq s /\ s \ {First(s)} # s
BY DEF First

LEMMA SumsAt ==
  ASSUME NEW f, NEW g, NEW T, Sums(g, f, T), NEW s \in SUBSET T
  PROVE  g[s] = IF s = {} THEN 0 ELSE f[First(s)] + g[s \ {First(s)}]
BY DEF Sums

LEMMA SumsAgree ==
  ASSUME NEW f, NEW g, NEW T, Sums(g, f, T), NEW h, NEW U, Sums(h, f, U),
         NEW S, IsFiniteSet(S), S \subseteq T, S \subseteq U
  PROVE  g[S] = h[S]
<1> DEFINE Bad == {s \in SUBSET S : g[s] # h[s]}
<1> SUFFICES ASSUME Bad # {} PROVE FALSE
  OBVIOUS
<1>0. Bad \subseteq SUBSET S /\ \A s : s \in Bad <=> s \subseteq S /\ g[s] # h[s]
  OBVIOUS
<1> HIDE DEF Bad
<1>1. PICK s \in Bad : \A r \in SUBSET s : r # s => r \notin Bad
  BY <1>0, MinimalSubset
<1>2. s \subseteq T /\ s \subseteq U /\ s \subseteq S /\ g[s] # h[s]
  BY <1>0, <1>1
<1> DEFINE r == s \ {First(s)}
<1>3. g[s] = IF s = {} THEN 0 ELSE f[First(s)] + g[r]
  BY <1>2, SumsAt
<1>4. h[s] = IF s = {} THEN 0 ELSE f[First(s)] + h[r]
  BY <1>2, SumsAt, SMTT(60)
<1>5. ASSUME s # {}
      PROVE  g[r] = h[r]
  <2>1. r \subseteq s /\ r # s
    BY <1>5, FirstIsIn
  <2> HIDE DEF r
  <2> QED
    BY <1>0, <1>1, <1>2, <2>1
<1> HIDE DEF r
<1> QED
  BY <1>2, <1>3, <1>4, <1>5

LEMMA SumsExist ==
  ASSUME NEW f, NEW S, IsFiniteSet(S)
  PROVE  \E g : Sums(g, f, S)
<1> DEFINE Bad == {T \in SUBSET S : ~\E g : Sums(g, f, T)}
<1> SUFFICES ASSUME Bad # {} PROVE FALSE
  OBVIOUS
<1>0. Bad \subseteq SUBSET S /\ \A T : T \in Bad <=> T \subseteq S /\ ~\E g : Sums(g, f, T)
  OBVIOUS
<1> HIDE DEF Bad
<1>1. PICK T \in Bad : IsFiniteSet(T) /\ \A U \in SUBSET T : U # T => U \notin Bad
  BY <1>0, MinimalSubset
<1>2. T \subseteq S /\ ~\E g : Sums(g, f, T)
  BY <1>0, <1>1
<1> DEFINE G(s) == CHOOSE g : Sums(g, f, s)
           g == [s \in SUBSET T |->
                  IF s # T THEN G(s)[s]
                  ELSE IF T = {} THEN 0 ELSE f[First(T)] + G(T \ {First(T)})[T \ {First(T)}]]
<1>3. \A s \in SUBSET T : s # T => Sums(G(s), f, s) /\ g[s] = G(s)[s]
  BY <1>0, <1>1, <1>2
<1> HIDE DEF G
<1>4. ASSUME NEW s \in SUBSET T
      PROVE  g[s] = IF s = {} THEN 0 ELSE f[First(s)] + g[s \ {First(s)}]
  <2>1. CASE s = T
    BY <1>3, <2>1, FirstIsIn
  <2>2. CASE s # T /\ s = {}
    BY <1>3, <2>2, SumsAt
  <2>3. CASE s # T /\ s # {}
    <3> DEFINE r == s \ {First(s)}
    <3>1. r \subseteq s /\ r \in SUBSET T /\ r # T
      BY <2>3, FirstIsIn
    <3>2. IsFiniteSet(r)
      BY <1>1, <3>1, FS_Subset
    <3>3. g[s] = G(s)[s] /\ g[r] = G(r)[r] /\ Sums(G(s), f, s) /\ Sums(G(r), f, r)
      BY <1>3, <2>3, <3>1
    <3>4. G(s)[s] = f[First(s)] + G(s)[r]
      BY <2>3, <3>3, SumsAt
    <3>5. G(s)[r] = G(r)[r]
      BY <3>1, <3>2, <3>3, SumsAgree
    <3> HIDE DEF g, r
    <3>6. g[s] = f[First(s)] + g[r]
      BY <3>3, <3>4, <3>5
    <3> QED
      BY <2>3, <3>6 DEF r
  <2> QED
    BY <2>1, <2>2, <2>3
<1>5. g = [s \in SUBSET T |-> g[s]]
  OBVIOUS
<1> HIDE DEF g
<1>6. Sums(g, f, T)
  BY <1>4, <1>5 DEF Sums
<1> QED
  BY <1>2, <1>6

LEMMA SumEquation ==
  ASSUME NEW f, NEW S, IsFiniteSet(S)
  PROVE  SumFunctionOnSet(f, S) =
           IF S = {} THEN 0 ELSE f[First(S)] + SumFunctionOnSet(f, S \ {First(S)})
<1> DEFINE G(T) == CHOOSE g : Sums(g, f, T)
           R == S \ {First(S)}
<1>1. Sums(G(S), f, S) /\ SumFunctionOnSet(f, S) = G(S)[S]
  BY SumsExist, SumIsFold
<1> HIDE DEF G
<1>2. CASE S = {}
  BY <1>1, <1>2, SumsAt
<1>3. CASE S # {}
  <2>1. IsFiniteSet(R) /\ R \subseteq S
    BY <1>3, FS_Subset
  <2>2. Sums(G(R), f, R) /\ SumFunctionOnSet(f, R) = G(R)[R]
    BY <2>1, SumsExist, SumIsFold DEF G
  <2>3. G(S)[R] = G(R)[R]
    BY <1>1, <2>1, <2>2, SumsAgree
  <2>4. G(S)[S] = f[First(S)] + G(S)[R]
    BY <1>1, <1>3, SumsAt
  <2> QED
    BY <1>1, <1>3, <2>2, <2>3, <2>4
<1> QED
  BY <1>2, <1>3

(* Any member of a finite set can be taken out of a sum over it.             *)
LEMMA SumTakesOut ==
  ASSUME NEW S, IsFiniteSet(S), NEW f, \A x \in S : f[x] \in Int
  PROVE  /\ SumFunctionOnSet(f, {}) = 0
         /\ SumFunctionOnSet(f, S) \in Int
         /\ \A x \in S : SumFunctionOnSet(f, S) = f[x] + SumFunctionOnSet(f, S \ {x})
<1> DEFINE F(T) == SumFunctionOnSet(f, T)
           Bad == {T \in SUBSET S : ~(F(T) \in Int /\ \A x \in T : F(T) = f[x] + F(T \ {x}))}
<1>1. F({}) = 0
  BY SumEquation, FS_EmptySet
<1>2. ASSUME Bad # {}
      PROVE  FALSE
  <2>0. Bad \subseteq SUBSET S /\ \A T : T \in Bad <=> T \subseteq S /\ ~(F(T) \in Int /\ \A x \in T : F(T) = f[x] + F(T \ {x}))
    OBVIOUS
  <2> HIDE DEF Bad, F
  <2>1. PICK T \in Bad : IsFiniteSet(T) /\ \A U \in SUBSET T : U # T => U \notin Bad
    BY <1>2, <2>0, MinimalSubset
  <2>2. \A U : U \subseteq T /\ U # T => F(U) \in Int /\ \A x \in U : F(U) = f[x] + F(U \ {x})
    BY <2>0, <2>1
  <2> DEFINE y == First(T)
             R == T \ {y}
  <2>3. F(T) = IF T = {} THEN 0 ELSE f[y] + F(R)
    BY <2>1, SumEquation DEF F
  <2>4. ASSUME T = {}
        PROVE  FALSE
    <3>1. F(T) = 0 /\ \A x \in T : F(T) = f[x] + F(T \ {x})
      BY <1>1, <2>4
    <3>2. T \in Bad
      OBVIOUS
    <3>3. ~(F(T) \in Int /\ \A x \in T : F(T) = f[x] + F(T \ {x}))
      BY <2>0, <3>2
    <3>4. F(T) \in Int
      BY <3>1
    <3> QED
      BY <3>1, <3>3, <3>4
  <2>5. y \in T /\ T \subseteq S
    BY <2>0, <2>1, <2>4, FirstIsIn
  <2> HIDE DEF y
  <2>6. F(R) \in Int /\ F(T) = f[y] + F(R) /\ f[y] \in Int
    BY <2>2, <2>3, <2>4, <2>5
  <2>7. ASSUME NEW x \in T, x # y
        PROVE  F(T) = f[x] + F(T \ {x})
    <3> DEFINE Q == T \ {x}
               B == R \ {x}
    <3>1. F(R) = f[x] + F(B)
      BY <2>2, <2>5, <2>7
    <3>2. F(Q) = f[y] + F(Q \ {y})
      BY <2>2, <2>5, <2>7
    <3>3. Q \ {y} = B
      OBVIOUS
    <3>4. F(B) \in Int /\ f[x] \in Int /\ F(Q) = f[y] + F(B)
      <4>1. B \subseteq T /\ B # T
        BY <2>7
      <4> QED
        BY <2>2, <2>5, <3>2, <3>3, <4>1
    <3> HIDE DEF B, Q, R
    <3> QED
      BY <2>6, <3>1, <3>4 DEF Q
  <2>8. \A x \in T : F(T) = f[x] + F(T \ {x})
    BY <2>6, <2>7
  <2> HIDE DEF R
  <2>9. F(T) \in Int
    BY <2>6
  <2> QED
    BY <2>0, <2>1, <2>8, <2>9
<1>3. S \notin Bad
  BY <1>2
<1> QED
  BY <1>1, <1>3

LEMMA SumOfUnion ==
  ASSUME NEW S, IsFiniteSet(S), NEW T, IsFiniteSet(T), S \cap T = {},
         NEW f, \A x \in S \cup T : f[x] \in Int
  PROVE  SumFunctionOnSet(f, S \cup T) = SumFunctionOnSet(f, S) + SumFunctionOnSet(f, T)
<1> DEFINE F(U) == SumFunctionOnSet(f, U)
           Bad == {U \in SUBSET T : F(S \cup U) # F(S) + F(U)}
<1>1. ASSUME Bad # {}
      PROVE  FALSE
  <2>0. Bad \subseteq SUBSET T /\ \A U : U \in Bad <=> U \subseteq T /\ F(S \cup U) # F(S) + F(U)
    OBVIOUS
  <2> HIDE DEF Bad, F
  <2>1. PICK U \in Bad : IsFiniteSet(U) /\ \A V \in SUBSET U : V # U => V \notin Bad
    BY <1>1, <2>0, MinimalSubset
  <2>2. U \subseteq T /\ F(S \cup U) # F(S) + F(U)
    BY <2>0, <2>1
  <2>3. F({}) = 0 /\ F(S) \in Int
    BY SumTakesOut DEF F
  <2>4. ASSUME U = {}
        PROVE  FALSE
    <3>1. S \cup U = S
      BY <2>4
    <3>2. F(S \cup U) = F(S)
      BY <3>1
    <3>3. F(U) = 0
      BY <2>3, <2>4
    <3>4. F(S) + F(U) = F(S)
      BY <2>3, <3>3
    <3> QED
      BY <2>2, <3>2, <3>4
  <2>5. PICK x \in U : TRUE
    BY <2>4
  <2> DEFINE V == U \ {x}
  <2>6. F(S \cup V) = F(S) + F(V)
    <3>1. V \subseteq U /\ V # U
      BY <2>5
    <3> HIDE DEF V
    <3> QED
      BY <2>0, <2>1, <2>2, <3>1
  <2>7. IsFiniteSet(S \cup U) /\ IsFiniteSet(V)
    BY <2>1, FS_Union, FS_Subset
  <2>8. F(U) = f[x] + F(V)
    BY <2>1, <2>2, SumTakesOut DEF F
  <2>9. F(S \cup U) = f[x] + F((S \cup U) \ {x})
    BY <2>2, <2>7, SumTakesOut DEF F
  <2>10. (S \cup U) \ {x} = S \cup V
    BY <2>2
  <2>11. F(V) \in Int /\ f[x] \in Int
    BY <2>2, <2>7, SumTakesOut DEF F
  <2> HIDE DEF V
  <2>12. F(S \cup U) = f[x] + F(S \cup V)
    BY <2>9, <2>10
  <2>13. F(S \cup U) = f[x] + (F(S) + F(V))
    BY <2>6, <2>12
  <2>14. F(S) + F(U) = F(S) + (f[x] + F(V))
    BY <2>8
  <2>15. f[x] + (F(S) + F(V)) = F(S) + (f[x] + F(V))
    BY <2>3, <2>11
  <2> QED
    BY <2>2, <2>13, <2>14, <2>15
<1>2. T \notin Bad
  BY <1>1
<1> QED
  BY <1>2

Shifted(S, m) == {x + m : x \in S}

(* The sums of two functions agree when one has the values of the other, m   *)
(* places later.                                                             *)
LEMMA SumShifted ==
  ASSUME NEW S \in SUBSET Int, IsFiniteSet(S), NEW m \in Int, NEW T, T = Shifted(S, m),
         NEW f, NEW g, \A x \in S : f[x] \in Int /\ g[x + m] = f[x]
  PROVE  SumFunctionOnSet(g, T) = SumFunctionOnSet(f, S)
<1> DEFINE F(U) == SumFunctionOnSet(f, U)
           I(U) == {x + m : x \in U}
           G(U) == SumFunctionOnSet(g, I(U))
           Bad == {U \in SUBSET S : G(U) # F(U)}
<1>1. ASSUME Bad # {}
      PROVE  FALSE
  <2>0. Bad \subseteq SUBSET S /\ \A U : U \in Bad <=> U \subseteq S /\ G(U) # F(U)
    OBVIOUS
  <2> HIDE DEF Bad, F
  <2>1. PICK U \in Bad : IsFiniteSet(U) /\ \A V \in SUBSET U : V # U => V \notin Bad
    BY <1>1, <2>0, MinimalSubset
  <2>2. U \subseteq S /\ G(U) # F(U)
    BY <2>0, <2>1
  <2>3. U # {}
    <3>1. I({}) = {}
      OBVIOUS
    <3>2. F({}) = 0 /\ SumFunctionOnSet(g, {}) = 0
      BY SumEquation, FS_EmptySet DEF F
    <3>3. G({}) = F({})
      BY <3>1, <3>2
    <3> QED
      BY <2>2, <3>3
  <2>4. PICK x \in U : TRUE
    BY <2>3
  <2> DEFINE V == U \ {x}
  <2>5. G(V) = F(V)
    <3>1. V \subseteq U /\ V # U
      BY <2>4
    <3> HIDE DEF V, G
    <3> QED
      BY <2>0, <2>1, <2>2, <3>1
  <2>6. F(U) = f[x] + F(V)
    BY <2>1, <2>2, SumTakesOut DEF F
  <2>7. IsFiniteSet(I(U))
    <3>1. U \subseteq Int
      BY <2>2
    <3> HIDE DEF I
    <3> QED
      BY <2>1, <3>1, ShiftedCardinality DEF I
  <2>8. x + m \in I(U) /\ \A y \in I(U) : g[y] \in Int
    BY <2>2
  <2>9. I(U) \ {x + m} = I(V)
    BY <2>2
  <2>10. G(U) = g[x + m] + G(V)
    <3> DEFINE J == I(U)
    <3>1. SumFunctionOnSet(g, J) = g[x + m] + SumFunctionOnSet(g, J \ {x + m})
      <4> HIDE DEF J
      <4> QED
        BY <2>7, <2>8, SumTakesOut DEF J
    <3> QED
      BY <2>9, <3>1
  <2>11. g[x + m] = f[x]
    BY <2>2
  <2> HIDE DEF G, V
  <2> QED
    BY <2>2, <2>5, <2>6, <2>10, <2>11
<1>2. S \notin Bad
  BY <1>1
<1> QED
  BY <1>2 DEF Shifted

(* Sums over intervals: cut in two, moved, of one.                           *)
IntsOn(f, lo, hi) == \A k \in lo..hi : f[k] \in Int
Consecutive(lo, mid, next, hi) ==
  lo \in Int /\ mid \in Int /\ next \in Int /\ hi \in Int /\ next = mid + 1 /\ lo <= next /\ mid <= hi
MovedBy(m, lo, hi, first, last) ==
  lo \in Int /\ hi \in Int /\ m \in Int /\ first = lo + m /\ last = hi + m
Moved(f, g, lo, hi, m) == \A k \in lo..hi : f[k] \in Int /\ g[k + m] = f[k]

LEMMA SumOfInterval ==
  ASSUME NEW f, NEW lo, NEW mid, NEW next, NEW hi, Consecutive(lo, mid, next, hi), IntsOn(f, lo, hi)
  PROVE  /\ SumFunctionOnSet(f, lo..hi) =
              SumFunctionOnSet(f, lo..mid) + SumFunctionOnSet(f, next..hi)
         /\ SumFunctionOnSet(f, lo..mid) \in Int
         /\ SumFunctionOnSet(f, next..hi) \in Int
<1> USE DEF Consecutive, IntsOn
<1> DEFINE A == lo..mid
           B == next..hi
<1>1. A \cup B = lo..hi /\ A \cap B = {}
  OBVIOUS
<1>2. IsFiniteSet(A) /\ IsFiniteSet(B)
  BY FS_Interval
<1> HIDE DEF A, B
<1>3. \A k \in A \cup B : f[k] \in Int
  BY <1>1
<1>4. SumFunctionOnSet(f, A \cup B) = SumFunctionOnSet(f, A) + SumFunctionOnSet(f, B)
  BY <1>1, <1>2, <1>3, SumOfUnion
<1>5. SumFunctionOnSet(f, A) \in Int /\ SumFunctionOnSet(f, B) \in Int
  BY <1>2, <1>3, SumTakesOut
<1> QED
  BY <1>1, <1>4, <1>5 DEF A, B

LEMMA SumMoved ==
  ASSUME NEW f, NEW g, NEW lo, NEW hi, NEW m, NEW first, NEW last,
         MovedBy(m, lo, hi, first, last), Moved(f, g, lo, hi, m)
  PROVE  SumFunctionOnSet(g, first..last) = SumFunctionOnSet(f, lo..hi)
<1> USE DEF MovedBy, Moved
<1> DEFINE A == lo..hi
<1>1. {k + m : k \in A} = first..last
  <2>1. \A l \in first..last : l - m \in A /\ (l - m) + m = l
    OBVIOUS
  <2>2. \A k \in A : k + m \in first..last
    OBVIOUS
  <2> HIDE DEF A
  <2> QED
    BY <2>1, <2>2
<1>2. IsFiniteSet(A) /\ A \subseteq Int
  BY FS_Interval
<1>3. \A k \in A : f[k] \in Int /\ g[k + m] = f[k]
  OBVIOUS
<1>4. m \in Int
  OBVIOUS
<1> DEFINE T == first..last
<1>5. T = Shifted(A, m)
  BY <1>1 DEF Shifted
<1> HIDE DEF A, T, MovedBy, Moved
<1>6. SumFunctionOnSet(g, T) = SumFunctionOnSet(f, A)
  BY <1>2, <1>3, <1>4, <1>5, SumShifted
<1> QED
  BY <1>6 DEF A, T

LEMMA SumOfOne ==
  ASSUME NEW f, NEW k \in Int, f[k] \in Int
  PROVE  SumFunctionOnSet(f, k..k) = f[k]
<1>1. k..k = {k} /\ {k} \ {k} = {}
  OBVIOUS
<1>2. IsFiniteSet({k})
  BY FS_Singleton
<1>3. SumFunctionOnSet(f, {k}) = f[k] + SumFunctionOnSet(f, {}) /\ SumFunctionOnSet(f, {}) = 0
  BY <1>1, <1>2, SumTakesOut
<1> QED
  BY <1>1, <1>3

LEMMA SumOfFirst ==
  ASSUME NEW f, NEW lo, NEW next, NEW hi, Consecutive(lo, lo, next, hi), IntsOn(f, lo, hi)
  PROVE  SumFunctionOnSet(f, lo..hi) = f[lo] + SumFunctionOnSet(f, next..hi)
<1>1. PICK mid : mid = lo
  OBVIOUS
<1>2. Consecutive(lo, mid, next, hi)
  BY <1>1
<1>3. SumFunctionOnSet(f, lo..hi) = SumFunctionOnSet(f, lo..mid) + SumFunctionOnSet(f, next..hi)
  BY <1>2, SumOfInterval
<1>4. lo \in lo..hi /\ lo \in Int
  BY DEF Consecutive
<1>5. f[lo] \in Int
  BY <1>4 DEF IntsOn
<1>6. SumFunctionOnSet(f, lo..mid) = f[lo]
  <2>1. SumFunctionOnSet(f, lo..lo) = f[lo]
    BY <1>4, <1>5, SumOfOne
  <2> QED
    BY <1>1, <2>1
<1> QED
  BY <1>3, <1>6

-----------------------------------------------------------------------------
(* The areas of the two parts of a ring add up. *)

Cross(a, b) == a[1] * b[2] - b[1] * a[2]
Edges(ring) == [k \in DOMAIN ring |-> Cross(ring[k], ring[After(ring, k)])]

LEMMA CrossIs ==
  ASSUME NEW a \in Point, NEW b \in Point
  PROVE  Cross(a, b) \in Int /\ Cross(a, b) + Cross(b, a) = 0 /\ Cross(a, a) = 0
BY DEF Cross, Point

LEMMA RingAreaIs ==
  ASSUME NEW ring \in Seq(Point)
  PROVE  /\ TwiceRingArea(ring) = SumFunctionOnSet(Edges(ring), 1..Len(ring))
         /\ \A k \in 1..(Len(ring) - 1) : Edges(ring)[k] = Cross(ring[k], ring[k + 1])
         /\ Len(ring) > 0 => Edges(ring)[Len(ring)] = Cross(ring[Len(ring)], ring[1])
         /\ \A k \in 1..Len(ring) : Edges(ring)[k] \in Int
         /\ TwiceRingArea(ring) \in Int
<1>1. Len(ring) \in Nat /\ DOMAIN ring = 1..Len(ring) /\ \A k \in 1..Len(ring) : ring[k] \in Point
  BY LenProperties
<1>2. DOMAIN Edges(ring) = 1..Len(ring) /\ TwiceRingArea(ring) = SumFunction(Edges(ring))
  BY <1>1 DEF TwiceRingArea, Edges, Cross
<1>3. TwiceRingArea(ring) = SumFunctionOnSet(Edges(ring), 1..Len(ring))
  BY <1>2 DEF SumFunction
<1> DEFINE n == Len(ring)
<1> HIDE DEF n
<1>0. n \in Nat
  BY <1>1 DEF n
<1>4. /\ \A k \in 1..(n - 1) : k \in 1..n /\ k + 1 \in 1..n /\ (k % n) + 1 = k + 1
      /\ n > 0 => n \in 1..n /\ 1 \in 1..n /\ (n % n) + 1 = 1
      /\ \A k \in 1..n : k \in 1..(n - 1) \/ (n > 0 /\ k = n)
  BY <1>0
<1>5. /\ \A k \in 1..(n - 1) : Edges(ring)[k] = Cross(ring[k], ring[k + 1])
      /\ n > 0 => Edges(ring)[n] = Cross(ring[n], ring[1])
  BY <1>1, <1>4, Zenon DEF Edges, After, n
<1>6. ASSUME NEW k \in 1..n
      PROVE  Edges(ring)[k] \in Int
  <2>1. CASE k \in 1..(n - 1)
    <3>1. ring[k] \in Point /\ ring[k + 1] \in Point
      BY <1>1, <1>4, <2>1, Zenon DEF n
    <3> QED
      BY <1>5, <2>1, <3>1, CrossIs, Zenon
  <2>2. CASE n > 0 /\ k = n
    <3>1. ring[n] \in Point /\ ring[1] \in Point
      BY <1>1, <1>4, <2>2, Zenon DEF n
    <3> QED
      BY <1>5, <2>2, <3>1, CrossIs, Zenon
  <2> QED
    BY <1>4, <2>1, <2>2
<1>7. SumFunctionOnSet(Edges(ring), 1..n) \in Int
  <2>1. IsFiniteSet(1..n)
    BY <1>1, FS_Interval DEF n
  <2> DEFINE A == 1..n
             f == Edges(ring)
  <2>2. IsFiniteSet(A) /\ \A k \in A : f[k] \in Int
    BY <1>6, <2>1
  <2> HIDE DEF A, f
  <2>3. SumFunctionOnSet(f, A) \in Int
    BY <2>2, SumTakesOut
  <2> QED
    BY <2>3 DEF A, f
<1> QED
  BY <1>3, <1>5, <1>6, <1>7 DEF n

(* The sums over the parts of an interval from which i..j-1 is cut out, c and *)
(* -c being put in at the cut.                                               *)
AreParts(n, i, j, e, eo, ef, c) ==
  /\ n \in Nat /\ i \in Nat /\ j \in Nat /\ 1 <= i /\ i < j /\ j <= n /\ c \in Int
  /\ \A k \in 1..n : e[k] \in Int
  /\ \A k \in 1..(j - i) : eo[k] = e[k + (i - 1)]
  /\ eo[j - i + 1] = -c /\ eo[j - i + 2] = 0
  /\ \A k \in 1..(i - 1) : ef[k] = e[k]
  /\ ef[i] = c
  /\ \A k \in (i + 1)..(i + n - j + 1) : ef[k] = e[k + (j - i - 1)]

LEMMA PartsAre ==
  ASSUME NEW n, NEW i, NEW j, NEW e, NEW eo, NEW ef, NEW c, AreParts(n, i, j, e, eo, ef, c),
         NEW h, NEW d, NEW m, NEW l, NEW p, NEW q,
         h = i - 1, d = j - i, q = d + 1, m = j - i + 2, p = i + 1, l = i + n - j + 1
  PROVE  /\ Consecutive(1, h, i, n) /\ Consecutive(i, j - 1, j, n) /\ IntsOn(e, 1, n) /\ IntsOn(e, i, n)
         /\ Consecutive(1, d, q, m) /\ Consecutive(q, q, m, m)
         /\ Consecutive(1, h, i, l) /\ Consecutive(i, i, p, l)
         /\ MovedBy(h, 1, d, i, j - 1) /\ MovedBy(0, 1, h, 1, h) /\ MovedBy(d - 1, p, l, j, n)
<1>1. n \in Nat /\ i \in Nat /\ j \in Nat /\ 1 <= i /\ i < j /\ j <= n
  BY DEF AreParts
<1>2. \A k \in 1..n : e[k] \in Int
  BY DEF AreParts
<1>3. \A k \in i..n : k \in 1..n
  BY <1>1
<1> QED
  BY <1>1, <1>2, <1>3 DEF Consecutive, IntsOn, MovedBy

LEMMA PartsMove ==
  ASSUME NEW n, NEW i, NEW j, NEW e, NEW eo, NEW ef, NEW c, AreParts(n, i, j, e, eo, ef, c),
         NEW h, NEW d, NEW m, NEW l, NEW p, NEW q,
         h = i - 1, d = j - i, q = d + 1, m = j - i + 2, p = i + 1, l = i + n - j + 1
  PROVE  /\ Moved(eo, e, 1, d, h) /\ Moved(e, ef, 1, h, 0) /\ Moved(ef, e, p, l, d - 1)
         /\ IntsOn(eo, 1, m) /\ IntsOn(eo, q, m) /\ IntsOn(ef, 1, l) /\ IntsOn(ef, i, l)
<1>1. n \in Nat /\ i \in Nat /\ j \in Nat /\ 1 <= i /\ i < j /\ j <= n /\ c \in Int
  BY DEF AreParts
<1>2. \A k \in 1..n : e[k] \in Int
  BY DEF AreParts
<1>3. \A k \in 1..d : eo[k] = e[k + h]
  BY DEF AreParts
<1>4. \A k \in p..l : ef[k] = e[k + (d - 1)]
  <2>1. j - i - 1 = d - 1
    BY <1>1
  <2> QED
    BY <2>1 DEF AreParts
<1>5. eo[q] = -c /\ eo[m] = 0 /\ ef[i] = c /\ \A k \in 1..h : ef[k] = e[k]
  BY DEF AreParts
<1>6. /\ \A k \in 1..d : k + h \in 1..n
      /\ \A k \in 1..h : k \in 1..n /\ k + 0 = k
      /\ \A k \in p..l : k + (d - 1) \in 1..n
      /\ \A k \in 1..m : k \in 1..d \/ k = q \/ k = m
      /\ \A k \in q..m : k = q \/ k = m
      /\ \A k \in 1..l : k \in 1..h \/ k = i \/ k \in p..l
      /\ \A k \in i..l : k = i \/ k \in p..l
      /\ -c \in Int
  BY <1>1
<1>7. Moved(eo, e, 1, d, h)
  BY <1>2, <1>3, <1>6 DEF Moved
<1>8. Moved(e, ef, 1, h, 0)
  BY <1>2, <1>5, <1>6 DEF Moved
<1>9. Moved(ef, e, p, l, d - 1)
  BY <1>2, <1>4, <1>6 DEF Moved
<1>10. IntsOn(eo, 1, m) /\ IntsOn(eo, q, m)
  <2>1. /\ \A k \in 1..m : k \in 1..d \/ k = q \/ k = m
        /\ \A k \in q..m : k = q \/ k = m
    BY <1>6
  <2>2. \A k \in 1..d : eo[k] \in Int
    BY <1>7 DEF Moved
  <2>3. eo[q] \in Int /\ eo[m] \in Int
    BY <1>1, <1>5
  <2> QED
    BY <2>1, <2>2, <2>3 DEF IntsOn
<1>11. IntsOn(ef, 1, l) /\ IntsOn(ef, i, l)
  <2>1. /\ \A k \in 1..l : k \in 1..h \/ k = i \/ k \in p..l
        /\ \A k \in i..l : k = i \/ k \in p..l
    BY <1>6
  <2>2. \A k \in p..l : ef[k] \in Int
    BY <1>9 DEF Moved
  <2>3. \A k \in 1..h : ef[k] \in Int
    BY <1>2, <1>5, <1>6
  <2>4. ef[i] \in Int
    BY <1>1, <1>5
  <2> QED
    BY <2>1, <2>2, <2>3, <2>4 DEF IntsOn
<1> QED
  BY <1>7, <1>8, <1>9, <1>10, <1>11

LEMMA SumOfParts ==
  ASSUME NEW n, NEW i, NEW j, NEW e, NEW eo, NEW ef, NEW c, AreParts(n, i, j, e, eo, ef, c)
  PROVE  SumFunctionOnSet(e, 1..n) =
           SumFunctionOnSet(eo, 1..(j - i + 2)) + SumFunctionOnSet(ef, 1..(i + n - j + 1))
<1> DEFINE h == i - 1
           d == j - i
           q == d + 1
           p == i + 1
           m == j - i + 2
           l == i + n - j + 1
           A == SumFunctionOnSet(e, 1..h)
           B == SumFunctionOnSet(e, i..(j - 1))
           C == SumFunctionOnSet(e, j..n)
<1>0. i \in Int /\ j \in Int /\ c \in Int /\ eo[j - i + 1] = -c /\ eo[j - i + 2] = 0 /\ ef[i] = c
  BY DEF AreParts
<1>1. q \in Int /\ m \in Int /\ eo[q] = -c /\ eo[m] = 0 /\ -c \in Int
  BY <1>0
<1>2. h = i - 1 /\ d = j - i /\ q = d + 1 /\ p = i + 1 /\ m = j - i + 2 /\ l = i + n - j + 1
  OBVIOUS
<1> HIDE DEF h, d, m, l, q, p
<1>3. /\ Consecutive(1, h, i, n) /\ Consecutive(i, j - 1, j, n) /\ IntsOn(e, 1, n) /\ IntsOn(e, i, n)
      /\ Consecutive(1, d, q, m) /\ Consecutive(q, q, m, m)
      /\ Consecutive(1, h, i, l) /\ Consecutive(i, i, p, l)
      /\ MovedBy(h, 1, d, i, j - 1) /\ MovedBy(0, 1, h, 1, h) /\ MovedBy(d - 1, p, l, j, n)
  BY <1>2, PartsAre
<1>4. /\ Moved(eo, e, 1, d, h) /\ Moved(e, ef, 1, h, 0) /\ Moved(ef, e, p, l, d - 1)
      /\ IntsOn(eo, 1, m) /\ IntsOn(eo, q, m) /\ IntsOn(ef, 1, l) /\ IntsOn(ef, i, l)
  BY <1>2, PartsMove
<1>5. SumFunctionOnSet(e, 1..n) = A + (B + C) /\ A \in Int /\ B \in Int /\ C \in Int
  <2>1. SumFunctionOnSet(e, 1..n) = A + SumFunctionOnSet(e, i..n) /\ A \in Int
    BY <1>3, SumOfInterval
  <2>2. SumFunctionOnSet(e, i..n) = B + C /\ B \in Int /\ C \in Int
    BY <1>3, SumOfInterval
  <2> QED
    BY <2>1, <2>2
<1>6. SumFunctionOnSet(eo, 1..m) = B + (-c + 0)
  <2>1. SumFunctionOnSet(eo, 1..m) = SumFunctionOnSet(eo, 1..d) + SumFunctionOnSet(eo, q..m)
    BY <1>3, <1>4, SumOfInterval
  <2>2. SumFunctionOnSet(eo, q..m) = -c + SumFunctionOnSet(eo, m..m)
    <3>1. PICK r : r = m
      OBVIOUS
    <3>2. Consecutive(q, q, r, m)
      BY <1>3, <3>1
    <3>3. SumFunctionOnSet(eo, q..m) = eo[q] + SumFunctionOnSet(eo, r..m)
      BY <1>4, <3>2, SumOfFirst
    <3> QED
      BY <1>1, <3>1, <3>3
  <2>3. SumFunctionOnSet(eo, m..m) = 0
    BY <1>1, SumOfOne
  <2>5. B = SumFunctionOnSet(eo, 1..d)
    BY <1>3, <1>4, SumMoved
  <2> QED
    BY <2>1, <2>2, <2>3, <2>5
<1>7. SumFunctionOnSet(ef, 1..l) = A + (c + C)
  <2>1. SumFunctionOnSet(ef, 1..l) = SumFunctionOnSet(ef, 1..h) + SumFunctionOnSet(ef, i..l)
    BY <1>3, <1>4, SumOfInterval
  <2>2. SumFunctionOnSet(ef, i..l) = c + SumFunctionOnSet(ef, p..l)
    <3>1. SumFunctionOnSet(ef, i..l) = ef[i] + SumFunctionOnSet(ef, p..l)
      BY <1>3, <1>4, SumOfFirst
    <3> QED
      BY <1>0, <3>1
  <2>4. SumFunctionOnSet(ef, 1..h) = A
    BY <1>3, <1>4, SumMoved
  <2>5. SumFunctionOnSet(ef, p..l) = C
    BY <1>3, <1>4, SumMoved
  <2> QED
    BY <2>1, <2>2, <2>4, <2>5
<1> HIDE DEF A, B, C
<1>8. SumFunctionOnSet(e, 1..n) = SumFunctionOnSet(eo, 1..m) + SumFunctionOnSet(ef, 1..l)
  BY <1>0, <1>5, <1>6, <1>7
<1> QED
  BY <1>8 DEF m, l

LastOutPlace(i, j, m) ==
  /\ j - i + 1 \in 1..(j - i + 1) /\ j - i + 1 \in 1..(m - 1) /\ 1 \in 1..(j - i + 1) /\ m > 0
  /\ (j - i + 1) + i - 1 = j /\ 1 + i - 1 = i /\ (j - i + 1) + 1 = m
NextOffPlace(n, i, j, k, l) ==
  /\ k \in 1..(l - 1) /\ k + 1 \in (i + 1)..l /\ k + (j - i - 1) \in 1..(n - 1)
  /\ (k + 1) + j - i - 1 = (k + (j - i - 1)) + 1

LEMMA EdgePlaces ==
  ASSUME NEW n \in Nat, NEW i \in Nat, NEW j \in Nat, 1 <= i, i < j, j <= n, NEW m, NEW l, NEW k,
         m = j - i + 2, l = i + n - j + 1
  PROVE  /\ LastOutPlace(i, j, m)
         /\ k \in (i + 1)..l /\ k # l => NextOffPlace(n, i, j, k, l)
BY DEF LastOutPlace, NextOffPlace

(* What the two parts of a cut ring have of its edges.                       *)
LEMMA PartEdges ==
  ASSUME NEW ring \in Seq(Point), NEW i \in DOMAIN ring, NEW j \in (i + 1)..Len(ring)
  PROVE  AreParts(Len(ring), i, j, Edges(ring), Edges(CutOut(ring, i, j)), Edges(CutOff(ring, i, j)),
                  Cross(ring[i], ring[j]))
<1> DEFINE n == Len(ring)
           out == CutOut(ring, i, j)
           off == CutOff(ring, i, j)
           e == Edges(ring)
           eo == Edges(out)
           ef == Edges(off)
           d == j - i
           m == j - i + 2
           l == i + n - j + 1
           a == ring[i]
           b == ring[j]
           AreOut == \A k \in 1..(j - i + 1) : out[k] = ring[k + i - 1]
           AreOff == /\ \A k \in 1..i : off[k] = ring[k]
                     /\ \A k \in (i + 1)..l : off[k] = ring[k + j - i - 1]
           EdgesAre == /\ \A k \in 1..(n - 1) : e[k] = Cross(ring[k], ring[k + 1])
                       /\ n > 0 => e[n] = Cross(ring[n], ring[1])
           OutEdges == /\ \A k \in 1..(m - 1) : eo[k] = Cross(out[k], out[k + 1])
                       /\ m > 0 => eo[m] = Cross(out[m], out[1])
           OffEdges == /\ \A k \in 1..(l - 1) : ef[k] = Cross(off[k], off[k + 1])
                       /\ l > 0 => ef[l] = Cross(off[l], off[1])
<1>1. /\ n \in Nat /\ i \in 1..n /\ j \in 1..n /\ i < j /\ \A k \in 1..n : ring[k] \in Point
      /\ out \in Seq(Point) /\ Len(out) = m /\ off \in Seq(Point) /\ Len(off) = l
      /\ out[m] = ring[i]
      /\ AreOut /\ AreOff
  <2>1. n \in Nat /\ i \in 1..n /\ j \in 1..n /\ i < j /\ \A k \in 1..n : ring[k] \in Point
    BY CutPlaces
  <2>2. out \in Seq(Point) /\ Len(out) = m /\ out[m] = ring[i] /\ AreOut
    <3>1. OutIs(Point, ring, i, j, out)
      BY OutCorners
    <3> HIDE DEF out
    <3> QED
      BY <3>1 DEF OutIs
  <2>3. off \in Seq(Point) /\ Len(off) = l /\ AreOff
    <3>1. OffIs(Point, ring, i, j, off)
      BY OffCorners
    <3> HIDE DEF off
    <3> QED
      BY <3>1 DEF OffIs
  <2> QED
    BY <2>1, <2>2, <2>3
<1>2. EdgesAre /\ \A k \in 1..n : e[k] \in Int
  BY RingAreaIs
<1>3. OutEdges
  <2> HIDE DEF m, out
  <2> QED
    BY <1>1, RingAreaIs
<1>4. OffEdges
  <2> HIDE DEF l, off
  <2> QED
    BY <1>1, RingAreaIs
<1> HIDE DEF n, out, off, e, eo, ef, a, b
<1>5. a \in Point /\ b \in Point
  BY <1>1 DEF a, b
<1>0. n \in Nat /\ i \in Nat /\ j \in Nat /\ 1 <= i /\ i < j /\ j <= n
  BY <1>1
<1> HIDE DEF AreOut, AreOff, EdgesAre, OutEdges, OffEdges
<1>6. ASSUME NEW k \in 1..d
      PROVE  eo[k] = e[k + (i - 1)]
  <2>1. /\ k \in 1..(j - i + 1) /\ k + 1 \in 1..(j - i + 1) /\ k \in 1..(m - 1)
        /\ k + (i - 1) \in 1..(n - 1)
        /\ k + i - 1 = k + (i - 1) /\ (k + 1) + i - 1 = (k + (i - 1)) + 1
    BY <1>0, <1>6, SMTT(60)
  <2> HIDE DEF m, d
  <2>2. out[k] = ring[k + (i - 1)] /\ out[k + 1] = ring[(k + (i - 1)) + 1]
    <3>1. out[k] = ring[k + i - 1] /\ out[k + 1] = ring[(k + 1) + i - 1]
      BY <1>1, <2>1 DEF AreOut
    <3> QED
      BY <2>1, <3>1
  <2>3. eo[k] = Cross(out[k], out[k + 1])
    BY <1>3, <2>1 DEF OutEdges
  <2>4. e[k + (i - 1)] = Cross(ring[k + (i - 1)], ring[(k + (i - 1)) + 1])
    BY <1>2, <2>1 DEF EdgesAre
  <2> QED
    BY <2>2, <2>3, <2>4
<1>7. eo[j - i + 1] = Cross(b, a) /\ eo[m] = Cross(a, a)
  <2>1. LastOutPlace(i, j, m)
    BY <1>0, EdgePlaces
  <2> USE DEF LastOutPlace
  <2>2. out[j - i + 1] = b /\ out[1] = a /\ out[m] = a
    <3>1. out[j - i + 1] = ring[(j - i + 1) + i - 1] /\ out[1] = ring[1 + i - 1]
      BY <1>1, <2>1 DEF AreOut
    <3> QED
      BY <1>1, <2>1, <3>1 DEF a, b
  <2> HIDE DEF m
  <2>3. eo[j - i + 1] = Cross(out[j - i + 1], out[(j - i + 1) + 1]) /\ eo[m] = Cross(out[m], out[1])
    BY <1>3, <2>1 DEF OutEdges
  <2> QED
    BY <2>1, <2>2, <2>3
<1>8. ASSUME NEW k \in 1..(i - 1)
      PROVE  ef[k] = e[k]
  <2>1. k \in 1..i /\ k + 1 \in 1..i /\ k \in 1..(l - 1) /\ k \in 1..(n - 1)
    BY <1>0, <1>8, SMTT(60)
  <2> HIDE DEF l
  <2>2. off[k] = ring[k] /\ off[k + 1] = ring[k + 1]
    BY <1>1, <2>1 DEF AreOff
  <2>3. ef[k] = Cross(off[k], off[k + 1])
    BY <1>4, <2>1 DEF OffEdges
  <2>4. e[k] = Cross(ring[k], ring[k + 1])
    BY <1>2, <2>1 DEF EdgesAre
  <2> QED
    BY <2>2, <2>3, <2>4
<1>9. ef[i] = Cross(a, b)
  <2>1. i \in 1..i /\ i + 1 \in (i + 1)..l /\ i \in 1..(l - 1) /\ (i + 1) + j - i - 1 = j
    BY <1>0, SMTT(60)
  <2> HIDE DEF l
  <2>2. off[i] = a /\ off[i + 1] = b
    BY <1>1, <2>1 DEF AreOff, a, b
  <2>3. ef[i] = Cross(off[i], off[i + 1])
    BY <1>4, <2>1 DEF OffEdges
  <2> QED
    BY <2>2, <2>3
<1>10. ASSUME NEW k \in (i + 1)..l
       PROVE  ef[k] = e[k + (j - i - 1)]
  <2>1. k + j - i - 1 = k + (j - i - 1) /\ n > 0 /\ l > 0 /\ 1 \in 1..i
    BY <1>0, <1>10, SMTT(60)
  <2>2. CASE k # l
    <3>1. NextOffPlace(n, i, j, k, l)
      BY <1>0, <1>10, <2>2, EdgePlaces
    <3> USE DEF NextOffPlace
    <3> HIDE DEF l
    <3>2. off[k] = ring[k + (j - i - 1)] /\ off[k + 1] = ring[(k + (j - i - 1)) + 1]
      <4>1. off[k] = ring[k + j - i - 1] /\ off[k + 1] = ring[(k + 1) + j - i - 1]
        BY <1>1, <1>10, <3>1 DEF AreOff
      <4> QED
        BY <2>1, <3>1, <4>1
    <3>3. ef[k] = Cross(off[k], off[k + 1])
      BY <1>4, <3>1 DEF OffEdges
    <3>4. e[k + (j - i - 1)] = Cross(ring[k + (j - i - 1)], ring[(k + (j - i - 1)) + 1])
      BY <1>2, <3>1 DEF EdgesAre
    <3> QED
      BY <3>2, <3>3, <3>4
  <2>3. CASE k = l
    <3>1. k + (j - i - 1) = n
      BY <1>0, <2>3
    <3> HIDE DEF l
    <3>2. off[k] = ring[n] /\ off[1] = ring[1]
      <4>1. off[k] = ring[k + j - i - 1] /\ off[1] = ring[1]
        BY <1>1, <1>10, <2>1 DEF AreOff
      <4> QED
        BY <2>1, <3>1, <4>1
    <3>3. ef[k] = Cross(off[k], off[1])
      BY <1>4, <2>1, <2>3 DEF OffEdges
    <3>4. e[n] = Cross(ring[n], ring[1])
      BY <1>2, <2>1 DEF EdgesAre
    <3> QED
      BY <3>1, <3>2, <3>3, <3>4
  <2> QED
    BY <2>2, <2>3
<1>11. Cross(a, b) \in Int /\ Cross(b, a) = -Cross(a, b) /\ Cross(a, a) = 0
  <2>1. Cross(a, b) \in Int /\ Cross(b, a) \in Int /\ Cross(a, b) + Cross(b, a) = 0 /\ Cross(a, a) = 0
    BY <1>5, CrossIs
  <2> QED
    BY <2>1
<1>12. AreParts(n, i, j, e, eo, ef, Cross(a, b))
  BY <1>0, <1>2, <1>6, <1>7, <1>8, <1>9, <1>10, <1>11 DEF AreParts
<1> QED
  BY <1>12 DEF n, out, off, e, eo, ef, a, b

LEMMA CutArea ==
  ASSUME NEW ring \in Seq(Point), NEW i \in DOMAIN ring, NEW j \in (i + 1)..Len(ring)
  PROVE  /\ TwiceRingArea(ring) = TwiceRingArea(CutOut(ring, i, j)) + TwiceRingArea(CutOff(ring, i, j))
         /\ TwiceRingArea(CutOut(ring, i, j)) \in Int
         /\ TwiceRingArea(CutOff(ring, i, j)) \in Int
<1> DEFINE out == CutOut(ring, i, j)
           off == CutOff(ring, i, j)
<1>1. /\ out \in Seq(Point) /\ Len(out) = j - i + 2
      /\ off \in Seq(Point) /\ Len(off) = i + Len(ring) - j + 1
  <2>1. OutIs(Point, ring, i, j, out) /\ OffIs(Point, ring, i, j, off)
    BY OutCorners, OffCorners
  <2> HIDE DEF out, off
  <2> QED
    BY <2>1 DEF OutIs, OffIs
<1>2. AreParts(Len(ring), i, j, Edges(ring), Edges(out), Edges(off), Cross(ring[i], ring[j]))
  BY PartEdges
<1> HIDE DEF out, off
<1>3. SumFunctionOnSet(Edges(ring), 1..Len(ring)) =
        SumFunctionOnSet(Edges(out), 1..(j - i + 2))
          + SumFunctionOnSet(Edges(off), 1..(i + Len(ring) - j + 1))
  BY <1>2, SumOfParts
<1>4. TwiceRingArea(ring) = SumFunctionOnSet(Edges(ring), 1..Len(ring))
  BY RingAreaIs
<1>5. TwiceRingArea(out) = SumFunctionOnSet(Edges(out), 1..Len(out)) /\ TwiceRingArea(out) \in Int
  BY <1>1, RingAreaIs
<1>6. TwiceRingArea(off) = SumFunctionOnSet(Edges(off), 1..Len(off)) /\ TwiceRingArea(off) \in Int
  BY <1>1, RingAreaIs
<1>7. TwiceRingArea(ring) = TwiceRingArea(out) + TwiceRingArea(off)
  BY <1>1, <1>3, <1>4, <1>5, <1>6
<1> QED
  BY <1>5, <1>6, <1>7 DEF out, off

-----------------------------------------------------------------------------
(* Areas that share a border *)

LEMMA OneRingArea ==
  ASSUME NEW ring \in Seq(Point)
  PROVE  TwiceArea(<<ring>>) = Abs(TwiceRingArea(ring))
<1> DEFINE holes == [r \in 2..Len(<<ring>>) |-> Abs(TwiceRingArea(<<ring>>[r]))]
<1>1. <<ring>> # << >> /\ <<ring>>[1] = ring /\ Len(<<ring>>) = 1
  OBVIOUS
<1>2. SumFunction(holes) = 0
  <2>1. DOMAIN holes = {}
    BY <1>1
  <2> HIDE DEF holes
  <2>2. SumFunctionOnSet(holes, {}) = 0
    BY SumEquation, FS_EmptySet
  <2> QED
    BY <2>1, <2>2 DEF SumFunction
<1>3. TwiceArea(<<ring>>) = Max({Abs(TwiceRingArea(ring)) - SumFunction(holes), 0})
  BY <1>1 DEF TwiceArea
<1> HIDE DEF holes
<1>4. Abs(TwiceRingArea(ring)) \in Nat
  BY RingAreaIs DEF Abs
<1>5. Abs(TwiceRingArea(ring)) - SumFunction(holes) = Abs(TwiceRingArea(ring))
  BY <1>2, <1>4
<1> HIDE DEF Abs
<1>6. Max({Abs(TwiceRingArea(ring)), 0}) = Abs(TwiceRingArea(ring))
  BY <1>4, MaxOfTwo
<1> QED
  BY <1>3, <1>5, <1>6

LEMMA SingleIs ==
  ASSUME NEW S, NEW s \in Seq(S), Len(s) = 1
  PROVE  s[1] \in S /\ s = <<s[1]>>
<1>1. DOMAIN s = 1..1 /\ s = [k \in 1..1 |-> s[k]]
  BY LenProperties
<1>2. <<s[1]>> = [k \in 1..1 |-> s[1]] /\ \A k \in 1..1 : k = 1
  OBVIOUS
<1>3. s[1] \in S
  OBVIOUS
<1> QED
  BY <1>1, <1>2, <1>3

LEMMA OneRingContains ==
  ASSUME NEW polygon, Len(polygon) = 1, NEW p
  PROVE  PolygonContains(polygon, p) <=> RingContains(polygon[1], p)
BY DEF PolygonContains

LEMMA AreasOfOneSign ==
  ASSUME NEW a \in Int, NEW b \in Int, a * b >= 0
  PROVE  Abs(a + b) = Abs(a) + Abs(b)
<1>1. (a >= 0 /\ b >= 0) \/ (a <= 0 /\ b <= 0)
  <2>1. ~(a > 0 /\ b < 0) /\ ~(a < 0 /\ b > 0)
    <3>1. ASSUME NEW x \in Int, NEW y \in Int, x > 0, y < 0
          PROVE  ~(x * y >= 0)
      BY <3>1
    <3>2. a * b = b * a
      OBVIOUS
    <3> QED
      BY <3>1, <3>2
  <2> QED
    BY <2>1
<1> QED
  BY <1>1 DEF Abs

(* What a polygon that is cut in two has, its parts have between them.       *)
LEMMA HalvedIsExact ==
  ASSUME NEW whole \in Polygons, NEW one, NEW other, Halved(whole, one, other)
  PROVE  /\ \A p \in Int \X Int :
              PolygonContains(whole, p) <=> ~(PolygonContains(one, p) <=> PolygonContains(other, p))
         /\ TwiceArea(whole) = TwiceArea(one) + TwiceArea(other)
<1> DEFINE ring == whole[1]
<1>1. Len(whole) = 1 /\ TwiceRingArea(one[1]) * TwiceRingArea(other[1]) >= 0
  BY DEF Halved
<1>2. ring \in Seq(Point) /\ whole = <<ring>>
  <2>1. whole \in Seq(Seq(Point))
    BY DEF Polygons, Point
  <2> QED
    BY <1>1, <2>1, SingleIs
<1> HIDE DEF ring
<1>0. PICK i \in DOMAIN ring : \E j \in (i + 1)..Len(ring) :
        one = <<CutOut(ring, i, j)>> /\ other = <<CutOff(ring, i, j)>>
  BY DEF Halved, ring
<1>3. PICK j \in (i + 1)..Len(ring) :
        one = <<CutOut(ring, i, j)>> /\ other = <<CutOff(ring, i, j)>>
  BY <1>0
<1> DEFINE out == CutOut(ring, i, j)
           off == CutOff(ring, i, j)
<1>4. out \in Seq(Point) /\ off \in Seq(Point)
  BY <1>2, OutCorners, OffCorners DEF OutIs, OffIs
<1>5. ASSUME NEW p \in Point
      PROVE  PolygonContains(whole, p) <=> ~(PolygonContains(one, p) <=> PolygonContains(other, p))
  <2>1. RingContains(ring, p) <=> ~(RingContains(out, p) <=> RingContains(off, p))
    BY <1>2, CutContains
  <2> HIDE DEF out, off
  <2>2. /\ Len(whole) = 1 /\ whole[1] = ring /\ Len(one) = 1 /\ one[1] = out
        /\ Len(other) = 1 /\ other[1] = off
    BY <1>2, <1>3 DEF out, off
  <2>3. /\ PolygonContains(whole, p) <=> RingContains(ring, p)
        /\ PolygonContains(one, p) <=> RingContains(out, p)
        /\ PolygonContains(other, p) <=> RingContains(off, p)
    BY <2>2, OneRingContains
  <2> QED
    BY <2>1, <2>3
<1>6. TwiceArea(whole) = TwiceArea(one) + TwiceArea(other)
  <2>1. /\ TwiceRingArea(ring) = TwiceRingArea(out) + TwiceRingArea(off)
        /\ TwiceRingArea(out) \in Int /\ TwiceRingArea(off) \in Int
    BY <1>2, CutArea
  <2> HIDE DEF out, off
  <2>2. one = <<out>> /\ other = <<off>> /\ one[1] = out /\ other[1] = off
    BY <1>3 DEF out, off
  <2>3. /\ TwiceArea(whole) = Abs(TwiceRingArea(ring))
        /\ TwiceArea(one) = Abs(TwiceRingArea(out))
        /\ TwiceArea(other) = Abs(TwiceRingArea(off))
    BY <1>2, <1>4, <2>2, OneRingArea DEF out, off
  <2>4. TwiceRingArea(out) * TwiceRingArea(off) >= 0
    BY <1>1, <2>2
  <2>5. Abs(TwiceRingArea(out) + TwiceRingArea(off)) = Abs(TwiceRingArea(out)) + Abs(TwiceRingArea(off))
    BY <2>1, <2>4, AreasOfOneSign
  <2> QED
    BY <2>1, <2>3, <2>5
<1> QED
  BY <1>5, <1>6 DEF Point

(* However a boundary of one ring is cut along a line between two of its     *)
(* corners, no cell is counted twice or lost, and no area.                   *)
THEOREM BordersExact == Spec => []BordersAreExact
<1>1. IInv => BordersAreExact
  <2> SUFFICES ASSUME IInv, Measured, NEW split \in Splits, split[1] = boundary
               PROVE  /\ \A p \in Centres(result.grid) :
                           PolygonContains(boundary, p) =
                             (PolygonContains(split[2], p) # PolygonContains(split[3], p))
                      /\ TwiceArea(boundary) = TwiceArea(split[2]) + TwiceArea(split[3])
    BY DEF BordersAreExact
  <2>1. Halved(boundary, split[2], split[3])
    BY SurveyAssumption
  <2>2. boundary \in Polygons /\ ValidPolygon(boundary)
    BY DEF IInv, CalculationInv, BoundaryInv
  <2>3. Centres(result.grid) \subseteq Int \X Int
    <3>1. AskedOf(result.call, boundary, runs) /\ result.grid \in Grids(result.call)
      BY DEF IInv, CalculationInv, Answered, Measured
    <3>2. result.call.boundary = boundary /\ result.call.resolution \in Resolutions
      BY <3>1, AskedIs, LongerList DEF IInv, CalculationInv
    <3> QED
      BY <2>2, <3>1, <3>2, GridIs, CentresFinite
  <2>4. /\ \A p \in Int \X Int :
             PolygonContains(boundary, p)
               <=> ~(PolygonContains(split[2], p) <=> PolygonContains(split[3], p))
        /\ TwiceArea(boundary) = TwiceArea(split[2]) + TwiceArea(split[3])
    BY <2>1, <2>2, HalvedIsExact
  <2>5. ASSUME NEW p \in Centres(result.grid)
        PROVE  PolygonContains(boundary, p) =
                 (PolygonContains(split[2], p) # PolygonContains(split[3], p))
    <3>1. PolygonContains(boundary, p)
            <=> ~(PolygonContains(split[2], p) <=> PolygonContains(split[3], p))
      BY <2>3, <2>4
    <3>2. /\ PolygonContains(boundary, p) \in BOOLEAN
          /\ PolygonContains(split[2], p) \in BOOLEAN
          /\ PolygonContains(split[3], p) \in BOOLEAN
      BY DEF PolygonContains
    <3> QED
      BY <3>1, <3>2
  <2> QED
    BY <2>4, <2>5
<1> QED
  BY <1>1, Invariance, PTL

-----------------------------------------------------------------------------
(* Powers of two *)

(* Two to the n counts the subsets of a set of n: those with a new member    *)
(* are as many as those without.                                             *)
LEMMA PowerDoubles ==
  ASSUME NEW n \in Nat
  PROVE  2^n \in Nat \ {0} /\ 2^(n + 1) = 2 * 2^n
<1> DEFINE S == 1..n
           T == 1..(n + 1)
           last == n + 1
           with == {U \cup {last} : U \in SUBSET S}
           f == [U \in SUBSET S |-> U \cup {last}]
<1>1. /\ IsFiniteSet(S) /\ Cardinality(S) = n
      /\ IsFiniteSet(T) /\ Cardinality(T) = n + 1
  BY FS_Interval
<1>2. T = S \cup {last} /\ last \notin S
  OBVIOUS
<1> HIDE DEF S, T, last
<1>3. /\ IsFiniteSet(SUBSET S) /\ Cardinality(SUBSET S) = 2^n
      /\ Cardinality(SUBSET T) = 2^(n + 1)
  BY <1>1, FS_SUBSET
<1>4. f \in Bijection(SUBSET S, with)
  <2>1. ASSUME NEW U \in SUBSET S, NEW V \in SUBSET S, U \cup {last} = V \cup {last}
        PROVE  U = V
    <3>1. U = (U \cup {last}) \ {last} /\ V = (V \cup {last}) \ {last}
      BY <1>2
    <3> QED
      BY <2>1, <3>1
  <2>2. /\ f \in [SUBSET S -> with] /\ \A U \in SUBSET S : f[U] = U \cup {last}
        /\ \A W \in with : \E U \in SUBSET S : f[U] = W
    OBVIOUS
  <2> HIDE DEF f, with
  <2> QED
    BY <2>1, <2>2, SMTT(30) DEF Bijection, Injection, Surjection, IsInjective
<1>5. IsFiniteSet(with) /\ Cardinality(with) = Cardinality(SUBSET S)
  BY <1>3, <1>4, FS_Bijection DEF ExistsBijection
<1>6. SUBSET T = (SUBSET S) \cup with
  <2>1. ASSUME NEW U \in SUBSET T
        PROVE  U \in SUBSET S \/ U \in with
    <3>1. CASE last \in U
      <4>1. U \ {last} \in SUBSET S /\ U = (U \ {last}) \cup {last}
        BY <1>2, <3>1
      <4> QED
        BY <4>1
    <3>2. CASE last \notin U
      BY <1>2, <3>2
    <3> QED
      BY <3>1, <3>2
  <2>2. ASSUME NEW U, U \in SUBSET S \/ U \in with
        PROVE  U \in SUBSET T
    BY <1>2, <2>2
  <2> HIDE DEF with
  <2> DEFINE A == SUBSET S
             B == SUBSET T
  <2>3. \A U : U \in B <=> U \in A \/ U \in with
    BY <2>1, <2>2
  <2> HIDE DEF A, B
  <2>4. B = A \cup with
    BY <2>3
  <2> QED
    BY <2>4 DEF A, B
<1>7. (SUBSET S) \cap with = {}
  <2>1. ASSUME NEW U \in SUBSET S, U \in with
        PROVE  FALSE
    BY <1>2, <2>1
  <2> DEFINE A == SUBSET S
  <2>2. \A U \in A : U \notin with
    BY <2>1
  <2> HIDE DEF A, with
  <2>3. A \cap with = {}
    BY <2>2
  <2> QED
    BY <2>3 DEF A
<1>8. {} \in SUBSET S
  OBVIOUS
<1> HIDE DEF with
<1>9. Cardinality(SUBSET T) = Cardinality(SUBSET S) + Cardinality(with) /\ Cardinality(SUBSET S) \in Nat
  BY <1>3, <1>5, <1>6, <1>7, DisjointCardinality
<1>10. Cardinality(SUBSET S) # 0
  <2>1. SUBSET S # {}
    BY <1>8
  <2> QED
    BY <1>3, <2>1, FS_EmptySet
<1>11. 2^n \in Nat /\ 2^n # 0
  BY <1>3, <1>9, <1>10
<1>12. 2^(n + 1) = 2^n + 2^n
  BY <1>3, <1>5, <1>9
<1> QED
  BY <1>11, <1>12

LEMMA LeastIs ==
  ASSUME NEW S \in SUBSET Nat, S # {}
  PROVE  \E n \in S : \A m \in S : n <= m
<1>1. PICK k \in S : TRUE
  OBVIOUS
<1> DEFINE R == S \cap (0..k)
<1>2. IsFiniteSet(0..k)
  BY <1>1, FS_Interval
<1>3. R \subseteq Int /\ R # {} /\ R \subseteq 0..k
  BY <1>1
<1>4. IsFiniteSet(R)
  <2> HIDE DEF R
  <2> QED
    BY <1>2, <1>3, FS_Subset
<1>5. PICK x \in R, z \in R : \A y \in R : x <= y /\ y <= z
  <2> HIDE DEF R
  <2> QED
    BY <1>3, <1>4, FiniteHasEnds
<1>6. \A m \in S : x <= m
  <2> SUFFICES ASSUME NEW m \in S PROVE x <= m
    OBVIOUS
  <2>1. CASE m \in R
    BY <1>5, <2>1
  <2>2. CASE m \notin R
    BY <1>1, <1>5, <2>2
  <2> QED
    BY <2>1, <2>2
<1> QED
  BY <1>5, <1>6

LEMMA PowerAdds ==
  ASSUME NEW d \in Nat, NEW k \in Nat
  PROVE  2^(d + k) = 2^d * 2^k
<1> DEFINE Bad == {n \in Nat : 2^(d + n) # 2^d * 2^n}
<1>1. ASSUME Bad # {}
      PROVE  FALSE
  <2>0. Bad \subseteq Nat /\ \A n : n \in Bad <=> n \in Nat /\ 2^(d + n) # 2^d * 2^n
    OBVIOUS
  <2> HIDE DEF Bad
  <2>1. PICK n \in Bad : \A m \in Bad : n <= m
    BY <1>1, <2>0, LeastIs
  <2>2. n \in Nat /\ 2^(d + n) # 2^d * 2^n
    BY <2>0
  <2>3. CASE n = 0
    <3>1. d + n = d /\ 2^n = 1
      BY <2>3
    <3>2. 2^d * 1 = 2^d
      BY PowerDoubles
    <3> QED
      BY <2>2, <3>1, <3>2
  <2>4. CASE n # 0
    <3> DEFINE m == n - 1
    <3>1. m \in Nat /\ ~(n <= m) /\ n = m + 1 /\ d + n = (d + m) + 1 /\ d + m \in Nat
      BY <2>2, <2>4
    <3> HIDE DEF m
    <3>2. 2^(d + m) = 2^d * 2^m
      BY <2>0, <2>1, <3>1
    <3>3. 2^(d + n) = 2 * 2^(d + m) /\ 2^n = 2 * 2^m
      BY <3>1, PowerDoubles
    <3>4. 2^d \in Nat /\ 2^m \in Nat
      BY <3>1, PowerDoubles
    <3> DEFINE x == 2^d
               y == 2^m
    <3>5. 2 * (x * y) = x * (2 * y)
      <4> HIDE DEF x, y
      <4>1. x \in Nat /\ y \in Nat
        BY <3>4 DEF x, y
      <4> QED
        BY <4>1
    <3>6. 2^(d + n) = 2^d * 2^n
      BY <3>2, <3>3, <3>5
    <3> QED
      BY <2>2, <3>6
  <2> QED
    BY <2>3, <2>4
<1>2. k \notin Bad
  BY <1>1
<1> QED
  BY <1>2

LEMMA PowerExceeds ==
  ASSUME NEW n \in Nat
  PROVE  n < 2^n
<1> DEFINE Bad == {m \in Nat : ~(m < 2^m)}
<1>1. ASSUME Bad # {}
      PROVE  FALSE
  <2>0. Bad \subseteq Nat /\ \A m : m \in Bad <=> m \in Nat /\ ~(m < 2^m)
    OBVIOUS
  <2> HIDE DEF Bad
  <2>1. PICK m \in Bad : \A l \in Bad : m <= l
    BY <1>1, <2>0, LeastIs
  <2>2. m \in Nat /\ ~(m < 2^m)
    BY <2>0
  <2>3. m # 0
    <3>1. 0 < 2^0
      OBVIOUS
    <3> QED
      BY <2>2, <3>1
  <2> DEFINE l == m - 1
  <2>4. l \in Nat /\ ~(m <= l) /\ m = l + 1
    BY <2>2, <2>3
  <2> HIDE DEF l
  <2>5. l < 2^l
    BY <2>0, <2>1, <2>4
  <2>6. 2^m = 2 * 2^l /\ 2^l \in Nat
    BY <2>4, PowerDoubles
  <2> QED
    BY <2>2, <2>4, <2>5, <2>6
<1>2. n \notin Bad
  BY <1>1
<1> QED
  BY <1>2

LEMMA PowerGrows ==
  ASSUME NEW d \in Nat, NEW e \in Nat, d <= e
  PROVE  2^d <= 2^e /\ 2^e % 2^d = 0
<1> DEFINE k == e - d
           x == 2^d
           y == 2^k
<1>1. k \in Nat /\ d + k = e
  OBVIOUS
<1> HIDE DEF k
<1>2. 2^e = x * y /\ x \in Nat \ {0} /\ y \in Nat \ {0}
  BY <1>1, PowerAdds, PowerDoubles
<1> HIDE DEF x, y
<1>3. x <= x * y /\ (x * y) % x = 0
  <2>1. y >= 1 /\ x >= 0
    BY <1>2
  <2>2. x * y = x * (y - 1) + x /\ x * (y - 1) >= 0
    BY <1>2, <2>1
  <2>3. x <= x * y
    BY <1>2, <2>2
  <2>4. (x * y) % x = 0
    BY <1>2
  <2> QED
    BY <2>3, <2>4
<1> QED
  BY <1>2, <1>3 DEF x

-----------------------------------------------------------------------------
(* The distance of floats *)

Fits(n, e) == Abs(n) < 2^(MantissaBits + e)

LEMMA UlpIs ==
  ASSUME NEW n \in Int
  PROVE  \E e \in Nat : Ulp(n) = 2^e /\ Fits(n, e) /\ \A d \in 0..(e - 1) : ~Fits(n, d)
<1> DEFINE S == {e \in Nat : Fits(n, e)}
           Least(e) == Fits(n, e) /\ \A d \in 0..(e - 1) : ~Fits(n, d)
<1>1. Abs(n) \in Nat /\ MantissaBits \in Nat
  BY TransectsAssumption DEF Abs
<1>2. Abs(n) \in S
  <2>1. Abs(n) < 2^Abs(n)
    BY <1>1, PowerExceeds
  <2>2. MantissaBits + Abs(n) \in Nat /\ Abs(n) <= MantissaBits + Abs(n)
    BY <1>1
  <2>3. 2^Abs(n) <= 2^(MantissaBits + Abs(n))
    BY <1>1, <2>2, PowerGrows
  <2>4. 2^Abs(n) \in Nat /\ 2^(MantissaBits + Abs(n)) \in Nat
    BY <1>1, <2>2, PowerDoubles
  <2>5. Abs(n) < 2^(MantissaBits + Abs(n))
    <3> HIDE DEF Abs
    <3> QED
      BY <1>1, <2>1, <2>3, <2>4
  <2> QED
    BY <1>1, <2>5 DEF Fits
<1>3. PICK e \in S : \A m \in S : e <= m
  <2>1. S \in SUBSET Nat /\ S # {}
    BY <1>2
  <2> HIDE DEF S
  <2> QED
    BY <2>1, LeastIs
<1>4. e \in Nat /\ Fits(n, e) /\ e <= Abs(n) /\ \A m \in Nat : Fits(n, m) => e <= m
  BY <1>2, <1>3
<1>5. e \in 0..Abs(n) /\ Least(e)
  <2>1. \A d \in 0..(e - 1) : d \in Nat /\ ~(e <= d)
    BY <1>4
  <2> QED
    BY <1>1, <1>4, <2>1
<1> DEFINE c == CHOOSE x \in 0..Abs(n) : Least(x)
<1>6. c \in 0..Abs(n) /\ Least(c)
  <2> HIDE DEF Least
  <2> QED
    BY <1>5
<1>7. Ulp(n) = 2^c
  BY Zenon DEF Ulp, Fits
<1> HIDE DEF c
<1> QED
  BY <1>1, <1>6, <1>7

LEMMA UlpType ==
  ASSUME NEW n \in Int
  PROVE  Ulp(n) \in Nat \ {0}
BY UlpIs, PowerDoubles

LEMMA FlType ==
  ASSUME NEW n \in Int
  PROVE  Fl(n) \in Int
<1> DEFINE u == Ulp(n)
<1>1. u \in Nat \ {0}
  BY UlpType
<1> HIDE DEF u
<1>2. n \div u \in Int
  BY <1>1
<1>3. u * (n \div u) \in Int /\ u * (n \div u + 1) \in Int
  BY <1>1, <1>2
<1>4. Fl(n) = u * (n \div u) \/ Fl(n) = u * (n \div u + 1)
  BY DEF Fl, u
<1> QED
  BY <1>3, <1>4

-----------------------------------------------------------------------------
(* Floats and rounding *)

(* Floats: a significand of at most MantissaBits bits, or their negative,    *)
(* times a power of two.                                                     *)
Significands == -(2^MantissaBits)..2^MantissaBits
Floating(f) == \E e \in Nat, q \in Significands : f = q * 2^e

LEMMA BitsAre == MantissaBits \in Nat /\ 2^MantissaBits \in Nat \ {0} /\ Significands \subseteq Int
<1>1. MantissaBits \in Nat
  BY TransectsAssumption
<1> QED
  BY <1>1, PowerDoubles DEF Significands

(* The numbers that fit into e bits more than those of a significand.        *)
LEMMA FitsIs ==
  ASSUME NEW n \in Int, NEW e \in Nat
  PROVE  Fits(n, e) <=> -(2^MantissaBits * 2^e) < n /\ n < 2^MantissaBits * 2^e
<1>1. 2^(MantissaBits + e) = 2^MantissaBits * 2^e
  BY BitsAre, PowerAdds
<1> DEFINE x == 2^MantissaBits * 2^e
<1>2. x \in Int
  BY BitsAre, PowerDoubles
<1> HIDE DEF x
<1>3. Abs(n) < x <=> -x < n /\ n < x
  BY <1>2 DEF Abs
<1> QED
  BY <1>1, <1>3 DEF Fits, x

(* Rounding by u: the multiple of u that is next to v, below or above.       *)
LEMMA FlIs ==
  ASSUME NEW v \in Int
  PROVE  \E b \in Int : /\ Ulp(v) * b <= v /\ v < Ulp(v) * (b + 1)
                        /\ Fl(v) = Ulp(v) * b \/ Fl(v) = Ulp(v) * (b + 1)
<1> DEFINE u == Ulp(v)
           b == v \div u
<1>1. u \in Nat \ {0}
  BY UlpType
<1>2. Fl(v) = u * b \/ Fl(v) = u * (b + 1)
  BY DEF Fl
<1> HIDE DEF u
<1>3. b \in Int /\ u * b <= v /\ v < u * (b + 1)
  <2>1. b \in Int
    BY <1>1
  <2>2. u * b <= v
    BY <1>1
  <2>3. v < u * b + u
    BY <1>1
  <2> HIDE DEF b
  <2>4. u * (b + 1) = u * b + u
    BY <1>1, <2>1
  <2> QED
    BY <2>1, <2>2, <2>3, <2>4
<1> HIDE DEF b
<1> QED
  BY <1>2, <1>3 DEF u

LEMMA MultiplesApart ==
  ASSUME NEW u \in Nat \ {0}, NEW a \in Int, NEW b \in Int
  PROVE  /\ u * a < u * b => a < b
         /\ a <= b => u * a <= u * b
         /\ u * a \in Int /\ u * b \in Int
<1>1. u * (b - a) = u * b - u * a
  OBVIOUS
<1>2. b - a <= 0 => u * (b - a) <= 0
  OBVIOUS
<1>3. b - a >= 0 => u * (b - a) >= 0
  OBVIOUS
<1>4. u * a \in Int /\ u * b \in Int
  OBVIOUS
<1> QED
  BY <1>1, <1>2, <1>3, <1>4

(* What is rounded is a float. *)
LEMMA FlFloats ==
  ASSUME NEW v \in Int
  PROVE  Floating(Fl(v))
<1>1. PICK e \in Nat : Ulp(v) = 2^e /\ Fits(v, e)
  BY UlpIs
<1> DEFINE u == 2^e
           m == 2^MantissaBits
<1>2. u \in Nat \ {0} /\ m \in Nat \ {0}
  BY BitsAre, PowerDoubles
<1>3. -(m * u) < v /\ v < m * u
  BY <1>1, FitsIs
<1>4. PICK b \in Int : u * b <= v /\ v < u * (b + 1) /\ (Fl(v) = u * b \/ Fl(v) = u * (b + 1))
  BY <1>1, FlIs
<1> HIDE DEF u, m
<1>5. u * b < u * m /\ u * (-m) < u * (b + 1)
  <2>1. m * u = u * m /\ u * (-m) = -(m * u) /\ m * u \in Int
    BY <1>2
  <2>2. u * b \in Int /\ u * (b + 1) \in Int
    BY <1>2
  <2> QED
    BY <1>3, <1>4, <2>1, <2>2
<1>6. b < m /\ -m < b + 1
  <2>1. m \in Int /\ -m \in Int /\ b + 1 \in Int
    BY <1>2
  <2>2. b < m
    BY <1>2, <1>5, <2>1, MultiplesApart
  <2>3. -m < b + 1
    BY <1>2, <1>5, <2>1, MultiplesApart
  <2> QED
    BY <2>2, <2>3
<1>7. b \in -m..m /\ b + 1 \in -m..m
  BY <1>2, <1>6
<1>8. Fl(v) = b * u \/ Fl(v) = (b + 1) * u
  <2>1. u * b = b * u /\ u * (b + 1) = (b + 1) * u
    BY <1>2
  <2> QED
    BY <1>4, <2>1
<1> QED
  BY <1>7, <1>8 DEF Floating, Significands, u, m

(* A float that is at most v lies at most at a multiple of the distance of   *)
(* the floats around v that is itself at most v.                             *)
LEMMA FloatBelow ==
  ASSUME NEW v \in Int, NEW f, Floating(f), f <= v
  PROVE  \E q \in Int : f <= Ulp(v) * q /\ Ulp(v) * q <= v
<1>1. PICK a \in Nat : Ulp(v) = 2^a /\ \A d \in 0..(a - 1) : ~Fits(v, d)
  BY UlpIs
<1>2. PICK e \in Nat, s \in Significands : f = s * 2^e
  BY DEF Floating
<1> DEFINE m == 2^MantissaBits
           u == 2^a
<1>3. u \in Nat \ {0} /\ m \in Nat \ {0} /\ s \in Int /\ -m <= s /\ s <= m
  BY BitsAre, PowerDoubles DEF Significands
<1>4. CASE a <= e
  <2> DEFINE k == e - a
             w == 2^k
  <2>1. k \in Nat /\ a + k = e
    BY <1>4
  <2> HIDE DEF k
  <2>2. w \in Nat /\ 2^e = u * w
    BY <2>1, PowerAdds, PowerDoubles
  <2> HIDE DEF w, u
  <2>3. f = u * (s * w) /\ s * w \in Int /\ f \in Int
    <3>1. s * (u * w) = u * (s * w) /\ s * w \in Int
      BY <1>3, <2>2
    <3>2. u * (s * w) \in Int
      BY <1>3, <3>1
    <3> QED
      BY <1>2, <2>2, <3>1, <3>2
  <2> QED
    BY <1>1, <2>3 DEF u
<1>5. CASE e < a
  <2> DEFINE d == a - 1
             h == 2^d
             k == d - e
  <2>1. d \in Nat /\ d + 1 = a /\ d \in 0..(a - 1) /\ e <= d
    BY <1>5
  <2> HIDE DEF d
  <2>2. u = 2 * h /\ h \in Nat \ {0}
    BY <2>1, PowerDoubles
  <2>3. ~(-(m * h) < v /\ v < m * h)
    <3>1. ~Fits(v, d)
      BY <1>1, <2>1
    <3> QED
      BY <2>1, <3>1, FitsIs
  <2> DEFINE p == 2^e
  <2>4. p \in Nat \ {0} /\ p <= h
    BY <2>1, PowerDoubles, PowerGrows
  <2>5. PICK r \in Int : m = 2 * r
    <3>1. MantissaBits - 1 \in Nat /\ (MantissaBits - 1) + 1 = MantissaBits
      BY TransectsAssumption
    <3>2. 2^MantissaBits = 2 * 2^(MantissaBits - 1) /\ 2^(MantissaBits - 1) \in Int
      BY <3>1, PowerDoubles
    <3> QED
      BY <3>2
  <2> HIDE DEF m, u, h, p
  <2>6. -(m * h) <= f /\ f <= m * h /\ f \in Int /\ m * h \in Int
    <3>1. f = p * s /\ f \in Int
      BY <1>2, <1>3, <2>4 DEF p
    <3>2. p * (-m) <= p * s /\ p * s <= p * m
      BY <1>3, <2>4, MultiplesApart
    <3>3. m * p <= m * h
      BY <1>3, <2>2, <2>4, MultiplesApart
    <3>4. p * (-m) = -(m * p) /\ p * m = m * p /\ m * p \in Int /\ m * h \in Int
      BY <1>3, <2>2, <2>4
    <3> QED
      BY <3>1, <3>2, <3>3, <3>4
  <2>7. m * h = u * r /\ -(m * h) = u * (-r)
    <3>1. (2 * r) * h = (2 * h) * r /\ -((2 * r) * h) = (2 * h) * (-r)
      BY <2>2, <2>5
    <3> QED
      BY <2>2, <2>5, <3>1
  <2>8. CASE v >= m * h
    BY <1>1, <2>5, <2>6, <2>7, <2>8 DEF u
  <2>9. CASE v <= -(m * h)
    <3>1. v = -(m * h) /\ f = v
      BY <2>6, <2>9
    <3>2. -r \in Int /\ f <= u * (-r) /\ u * (-r) <= v
      BY <2>5, <2>6, <2>7, <3>1
    <3> QED
      BY <1>1, <3>2 DEF u
  <2> QED
    BY <2>3, <2>6, <2>8, <2>9
<1> QED
  BY <1>4, <1>5

(* Rounding never passes a float. *)
LEMMA FlAbove ==
  ASSUME NEW v \in Int, NEW f \in Int, Floating(f), f <= v
  PROVE  f <= Fl(v)
<1> DEFINE u == Ulp(v)
<1>1. u \in Nat \ {0}
  BY UlpType
<1>2. PICK q \in Int : f <= u * q /\ u * q <= v
  BY FloatBelow
<1>3. PICK b \in Int : u * b <= v /\ v < u * (b + 1) /\ (Fl(v) = u * b \/ Fl(v) = u * (b + 1))
  BY FlIs
<1> HIDE DEF u
<1>4. u * q \in Int /\ u * b \in Int /\ u * (b + 1) = u * b + u
  BY <1>1
<1>5. u * q < u * (b + 1)
  BY <1>1, <1>2, <1>3, <1>4
<1>6. q < b + 1
  BY <1>1, <1>5, MultiplesApart
<1>7. q <= b
  BY <1>6
<1>8. u * q <= u * b
  BY <1>1, <1>7, MultiplesApart
<1> QED
  BY <1>1, <1>2, <1>3, <1>4, <1>8

(* Where floats are u apart, the next one is at most u away.                 *)
LEMMA NextFloat ==
  ASSUME NEW c \in Int, Floating(c), NEW k \in Nat,
         -(2^MantissaBits * 2^k) <= c, c < 2^MantissaBits * 2^k
  PROVE  \E f \in Int : Floating(f) /\ c < f /\ f <= c + 2^k
<1> DEFINE m == 2^MantissaBits
           u == 2^k
<1>1. PICK e \in Nat, s \in Significands : c = s * 2^e
  BY DEF Floating
<1>2. u \in Nat \ {0} /\ m \in Nat \ {0} /\ s \in Int /\ -m <= s /\ s <= m
  BY BitsAre, PowerDoubles DEF Significands
<1>7. -(m * u) <= c /\ c < m * u
  OBVIOUS
<1>3. ASSUME NEW d \in Nat, NEW q \in Int, -m <= q, q < m, c = q * 2^d, d <= k
      PROVE  \E f \in Int : Floating(f) /\ c < f /\ f <= c + u
  <2> DEFINE w == 2^d
             f == (q + 1) * w
  <2>1. w \in Nat \ {0} /\ w <= u
    BY <1>3, PowerDoubles, PowerGrows
  <2>2. q + 1 \in Significands
    BY <1>2, <1>3 DEF Significands
  <2>3. Floating(f)
    BY <2>2 DEF Floating
  <2> HIDE DEF w, u
  <2>4. f = q * w + w /\ c = q * w /\ f \in Int
    BY <1>3, <2>1 DEF w
  <2> HIDE DEF f
  <2>5. c < f /\ f <= c + u
    BY <1>2, <2>1, <2>4
  <2> QED
    BY <2>3, <2>4, <2>5
<1>4. CASE e <= k /\ s < m
  BY <1>1, <1>2, <1>3, <1>4
<1>5. CASE e <= k /\ s = m
  <2>1. PICK r \in Nat : m = 2 * r
    <3>1. MantissaBits - 1 \in Nat /\ (MantissaBits - 1) + 1 = MantissaBits
      BY TransectsAssumption
    <3>2. 2^MantissaBits = 2 * 2^(MantissaBits - 1) /\ 2^(MantissaBits - 1) \in Nat
      BY <3>1, PowerDoubles
    <3> QED
      BY <3>2
  <2>2. e # k
    BY <1>1, <1>5
  <2>3. e + 1 \in Nat /\ e + 1 <= k
    BY <1>5, <2>2
  <2>4. 2^(e + 1) = 2 * 2^e /\ 2^e \in Nat
    BY PowerDoubles
  <2> DEFINE w == 2^e
  <2> HIDE DEF w, m
  <2>5. c = r * (2 * w)
    <3>1. c = (2 * r) * w
      BY <1>1, <1>5, <2>1 DEF w
    <3>2. (2 * r) * w = r * (2 * w)
      BY <2>4 DEF w
    <3> QED
      BY <3>1, <3>2
  <2>6. c = r * 2^(e + 1)
    BY <2>4, <2>5 DEF w
  <2>7. r \in Int /\ -m <= r /\ r < m
    BY <1>2, <2>1
  <2> QED
    BY <1>3, <2>3, <2>6, <2>7
<1>6. CASE e > k
  <2> DEFINE d == e - k
             t == s * 2^d
  <2>1. d \in Nat /\ k + d = e
    BY <1>6
  <2> HIDE DEF d
  <2>2. 2^d \in Nat /\ 2^e = u * 2^d
    BY <2>1, PowerAdds, PowerDoubles
  <2>3. t \in Int
    BY <1>2, <2>2
  <2> DEFINE w == 2^d
  <2>4. c = u * t
    <3> HIDE DEF u, w
    <3>1. s * (u * w) = u * (s * w)
      BY <1>2, <2>2 DEF w
    <3> QED
      BY <1>1, <2>2, <3>1 DEF w
  <2> HIDE DEF t, w
  <2> HIDE DEF m, u
  <2>5. u * (-m) <= u * t /\ u * t < u * m
    <3>1. u * (-m) = -(m * u) /\ u * m = m * u
      BY <1>2
    <3> QED
      BY <1>7, <2>4, <3>1
  <2>6. -m <= t /\ t < m
    <3>1. -m \in Int /\ t < m
      BY <1>2, <2>3, <2>5, MultiplesApart
    <3>2. ~(t < -m)
      <4>1. SUFFICES ASSUME t < -m PROVE FALSE
        OBVIOUS
      <4>2. u * (t + 1) <= u * (-m) /\ u * t \in Int /\ u * (-m) \in Int
        <5>1. t + 1 <= -m /\ t + 1 \in Int /\ -m \in Int
          BY <1>2, <2>3, <4>1
        <5> QED
          BY <1>2, <2>3, <5>1, MultiplesApart
      <4>3. u * (t + 1) = u * t + u
        BY <1>2, <2>3
      <4> QED
        BY <1>2, <2>5, <4>2, <4>3
    <3> QED
      BY <1>2, <2>3, <3>1, <3>2
  <2>7. c = t * 2^k /\ k <= k
    BY <1>2, <2>3, <2>4 DEF u
  <2> QED
    BY <1>3, <2>3, <2>6, <2>7 DEF u
<1> QED
  BY <1>2, <1>4, <1>5, <1>6

(* The far end of what a float reaches that is u from its neighbours.        *)
LEMMA LowFloats ==
  ASSUME NEW k \in Nat
  PROVE  Floating(-(2^MantissaBits * 2^k)) /\ -(2^MantissaBits * 2^k) \in Int
<1> DEFINE m == 2^MantissaBits
           u == 2^k
<1>1. m \in Nat \ {0} /\ u \in Nat \ {0}
  BY BitsAre, PowerDoubles
<1>2. -m \in Significands
  BY <1>1 DEF Significands
<1> HIDE DEF m, u
<1>3. -(m * u) = (-m) * u /\ -(m * u) \in Int
  BY <1>1
<1> QED
  BY <1>2, <1>3 DEF Floating, m, u

-----------------------------------------------------------------------------
(* Types *)

Reach(o) == Max({Abs(Near(o)), Abs(Far(o))})

(* While lines are laid the next one is a float, and not below all floats    *)
(* that are as close as those at the far edge.                               *)
LayingInv ==
  /\ laying \in {"idle", "spacing_invalid", "laying", "no_transects", "planned"}
  /\ laying # "idle" => order.boundary = boundary /\ order.spacing \in Spacings
  /\ cursor \in Int
  /\ ordinates \subseteq Int
  /\ laying = "laying" =>
       Floating(cursor) /\ -(2^MantissaBits * Ulp(Reach(order))) <= cursor

(* One run more than the bound is one that was recommended.                  *)
RunsInv ==
  /\ Len(runs) <= MaxRuns + 1
  /\ Len(runs) > MaxRuns => \E r \in DOMAIN runs : runs[r].after # None

LEMMA ReachIs ==
  ASSUME NEW o, o.boundary \in Polygons, ValidPolygon(o.boundary)
  PROVE  /\ Near(o) \in Int /\ Far(o) \in Int /\ Reach(o) \in Int
         /\ -Reach(o) <= Near(o) /\ Far(o) <= Reach(o) /\ 0 <= Reach(o)
<1>1. Bounds(o.boundary) \in Box /\ Axis(o) \in 1..2
  BY BoundsHold DEF Axis
<1>2. Near(o) \in Int /\ Far(o) \in Int
  BY <1>1 DEF Near, Far, Box
<1>3. /\ Abs(Near(o)) \in Int /\ 0 <= Abs(Near(o)) /\ -Abs(Near(o)) <= Near(o)
      /\ Abs(Far(o)) \in Int /\ Far(o) <= Abs(Far(o))
  BY <1>2 DEF Abs
<1> QED
  BY <1>2, <1>3, MaxOfTwo DEF Reach

(* The floats as close as those at the far edge lie around both edges.       *)
LEMMA ReachFits ==
  ASSUME NEW o, o.boundary \in Polygons, ValidPolygon(o.boundary)
  PROVE  \E k \in Nat : /\ Ulp(Reach(o)) = 2^k
                        /\ -(2^MantissaBits * 2^k) < Near(o) /\ Far(o) < 2^MantissaBits * 2^k
<1>1. PICK k \in Nat : Ulp(Reach(o)) = 2^k /\ Fits(Reach(o), k)
  BY ReachIs, UlpIs
<1> DEFINE x == 2^MantissaBits * 2^k
<1>2. -x < Reach(o) /\ Reach(o) < x
  BY <1>1, ReachIs, FitsIs
<1>3. x \in Int
  BY BitsAre, PowerDoubles
<1> HIDE DEF x
<1>4. -x < Near(o) /\ Far(o) < x
  BY <1>2, <1>3, ReachIs
<1> QED
  BY <1>1, <1>4 DEF x

LEMMA AskForLinesTyped ==
  ASSUME BoundaryInv, LayingInv, AskForLines
  PROVE  LayingInv'
<1>1. PICK heading \in Headings, spacing \in Spacings :
         Generate([boundary |-> boundary, heading |-> heading, spacing |-> spacing])
  BY DEF AskForLines
<1> DEFINE o == [boundary |-> boundary, heading |-> heading, spacing |-> spacing]
<1>2. o.boundary = boundary /\ o.spacing = spacing
  OBVIOUS
<1>3. /\ order' = o /\ ordinates' = {} /\ boundary' = boundary
      /\ \/ laying' = "spacing_invalid" /\ cursor' = cursor
         \/ laying' = "laying" /\ cursor' = FirstLine(o)
  BY <1>1 DEF Generate, AskForLines
<1> HIDE DEF o
<1>4. boundary \in Polygons /\ ValidPolygon(boundary)
  BY DEF BoundaryInv
<1>5. PICK k \in Nat : Ulp(Reach(o)) = 2^k /\ -(2^MantissaBits * 2^k) < Near(o)
  BY <1>2, <1>4, ReachFits
<1> DEFINE low == -(2^MantissaBits * 2^k)
           first == Near(o) + spacing \div 2
<1>6. low \in Int /\ Floating(low)
  BY LowFloats
<1>7. first \in Int /\ Near(o) <= first
  <2>1. spacing \div 2 \in Int /\ 0 <= spacing \div 2
    <3>1. spacing \in Nat
      BY SurveyAssumption
    <3> QED
      BY <3>1
  <2>2. Near(o) \in Int
    BY <1>2, <1>4, ReachIs
  <2> QED
    BY <2>1, <2>2
<1>8. FirstLine(o) = Fl(first)
  BY <1>2 DEF FirstLine
<1>9. low < Near(o) /\ Near(o) \in Int
  BY <1>2, <1>4, <1>5, ReachIs
<1> HIDE DEF low, first
<1>10. Fl(first) \in Int /\ Floating(Fl(first))
  BY <1>7, FlType, FlFloats
<1>11. low <= Fl(first)
  BY <1>6, <1>7, <1>9, FlAbove
<1>12. -(2^MantissaBits * Ulp(Reach(o))) <= Fl(first)
  BY <1>5, <1>11 DEF low
<1>13. CASE laying' = "spacing_invalid" /\ cursor' = cursor
  BY <1>2, <1>3, <1>13 DEF LayingInv
<1>14. CASE laying' = "laying" /\ cursor' = FirstLine(o)
  <2>1. (-(2^MantissaBits * Ulp(Reach(order))) <= cursor)'
    BY <1>3, <1>8, <1>12, <1>14 DEF Reach, Near, Far, Axis, Horizontal
  <2> QED
    BY <1>2, <1>3, <1>8, <1>10, <1>14, <2>1, SMTT(60) DEF LayingInv
<1> QED
  BY <1>3, <1>13, <1>14

(* Rounding takes no step back.                                              *)
LEMMA LayAdvances ==
  ASSUME BoundaryInv, LayingInv, Lay
  PROVE  /\ cursor' \in Int /\ Floating(cursor') /\ cursor <= cursor'
         /\ Resolvable(order) => cursor < cursor'
<1> DEFINE spacing == order.spacing
           sum == cursor + spacing
<1>1. /\ laying = "laying" /\ cursor < Far(order) /\ cursor' = Fl(sum)
  BY DEF Lay, NextLine
<1>2. /\ order.boundary = boundary /\ spacing \in Spacings /\ cursor \in Int
      /\ Floating(cursor) /\ -(2^MantissaBits * Ulp(Reach(order))) <= cursor
  BY <1>1 DEF LayingInv
<1>3. order.boundary \in Polygons /\ ValidPolygon(order.boundary)
  BY <1>2 DEF BoundaryInv
<1>4. spacing \in Nat
  BY <1>2, SurveyAssumption
<1> HIDE DEF spacing
<1>5. sum \in Int /\ cursor <= sum
  BY <1>2, <1>4
<1>6. Fl(sum) \in Int /\ Floating(Fl(sum)) /\ cursor <= Fl(sum)
  <2> HIDE DEF sum
  <2> QED
    BY <1>2, <1>5, FlType, FlFloats, FlAbove
<1>7. ASSUME Resolvable(order)
      PROVE  cursor < Fl(sum)
  <2>1. PICK k \in Nat : Ulp(Reach(order)) = 2^k /\ Far(order) < 2^MantissaBits * 2^k
    BY <1>3, ReachFits
  <2> DEFINE x == 2^MantissaBits * 2^k
             u == 2^k
  <2>2. x \in Int /\ u \in Int /\ Far(order) \in Int
    BY <1>3, BitsAre, PowerDoubles, ReachIs
  <2>3. u <= spacing
    BY <1>7, <2>1 DEF Resolvable, Reach, spacing
  <2>4. -x <= cursor
    BY <1>2, <2>1
  <2>5. Far(order) < x
    BY <2>1
  <2>6. cursor < x
    <3> HIDE DEF x
    <3> QED
      BY <1>1, <1>2, <2>2, <2>5
  <2>7. PICK f \in Int : Floating(f) /\ cursor < f /\ f <= cursor + u
    BY <1>2, <2>4, <2>6, NextFloat
  <2> HIDE DEF x, u
  <2>8. f <= sum
    BY <1>2, <1>4, <2>2, <2>3, <2>7
  <2> HIDE DEF sum
  <2>9. f <= Fl(sum)
    BY <1>5, <2>7, <2>8, FlAbove
  <2> QED
    BY <1>2, <1>6, <2>7, <2>9
<1> QED
  BY <1>1, <1>6, <1>7

LEMMA LayTyped ==
  ASSUME BoundaryInv, LayingInv, Lay, UNCHANGED boundary
  PROVE  LayingInv'
<1>1. /\ laying = "laying" /\ ordinates' = ordinates \cup {cursor} /\ UNCHANGED <<laying, order>>
  BY DEF Lay
<1>2. cursor' \in Int /\ Floating(cursor') /\ cursor <= cursor'
  BY LayAdvances
<1>3. (-(2^MantissaBits * Ulp(Reach(order))) <= cursor)'
  <2> DEFINE low == -(2^MantissaBits * Ulp(Reach(order)))
  <2>1. order.boundary = boundary
    BY <1>1 DEF LayingInv
  <2>2. Ulp(Reach(order)) \in Int
    BY <2>1, ReachIs, UlpType DEF BoundaryInv
  <2>3. low \in Int
    <3> DEFINE u == Ulp(Reach(order))
               m == 2^MantissaBits
    <3>1. u \in Int /\ m \in Int
      BY <2>2, BitsAre
    <3> HIDE DEF u, m
    <3>2. -(m * u) \in Int
      BY <3>1
    <3> QED
      BY <3>2 DEF u, m
  <2>4. low <= cursor /\ cursor \in Int
    BY <1>1 DEF LayingInv
  <2>5. low' = low
    BY <1>1 DEF Reach, Near, Far, Axis, Horizontal
  <2>6. low <= cursor'
    <3> HIDE DEF low
    <3> QED
      BY <1>2, <2>3, <2>4
  <2> QED
    BY <2>5, <2>6
<1> QED
  BY <1>1, <1>2, <1>3 DEF LayingInv

LEMMA RunsStored ==
  ASSUME IsList(runs), RunsInv, SailRun \/ SailRecommended, Answered(result, boundary, runs)
  PROVE  RunsInv'
<1>1. PICK run : runs' = Append(runs, run)
  BY DEF SailRun, SailRecommended
<1>2. /\ Len(runs) \in Nat /\ DOMAIN runs = 1..Len(runs) /\ Len(runs') = Len(runs) + 1
      /\ \A r \in 1..Len(runs) : runs'[r] = runs[r]
      /\ runs'[Len(runs) + 1] = run /\ IsList(runs')
  BY <1>1, LongerList
<1>3. DOMAIN runs' = 1..(Len(runs) + 1)
  BY <1>2, LongerList
<1>4. MaxRuns \in Nat
  BY SurveyAssumption
<1>5. CASE SailRun
  <2>1. Len(runs) < MaxRuns
    BY <1>5 DEF SailRun
  <2> QED
    BY <1>2, <1>4, <2>1 DEF RunsInv
<1>6. CASE SailRecommended
  <2>1. /\ Measured /\ result.gap # None /\ \A r \in DOMAIN runs : runs[r].after = None
        /\ run.after = result.call.resolution
    <3>1. /\ Measured /\ result.gap # None /\ \A r \in DOMAIN runs : runs[r].after = None
          /\ runs' = Append(runs, [lines |-> {result.line}, swath |-> ShortSide(result.gap),
                                   after |-> result.call.resolution])
      BY <1>6 DEF SailRecommended
    <3>2. Append(runs, [lines |-> {result.line}, swath |-> ShortSide(result.gap),
                        after |-> result.call.resolution])[Len(runs) + 1].after = result.call.resolution
      BY LongerList
    <3> QED
      BY <1>2, <3>1, <3>2
  <2>2. AskedOf(result.call, boundary, runs)
    BY <2>1 DEF Measured, Answered
  <2>3. result.call.resolution \in Resolutions
    BY <1>2, <2>2, AskedIs
  <2>4. run.after # None
    BY <2>1, <2>3, ResolutionType, NoneAssumption
  <2>5. Len(runs) + 1 \in DOMAIN runs' /\ runs'[Len(runs) + 1].after # None
    BY <1>2, <1>3, <2>4
  <2>6. Len(runs) <= MaxRuns
    BY <1>2, <1>4, <2>1 DEF RunsInv
  <2> QED
    BY <1>2, <1>4, <2>5, <2>6 DEF RunsInv
<1> QED
  BY <1>5, <1>6

TypeInv == LayingInv /\ RunsInv

LEMMA TypesHold == Spec => [](IInv /\ TypeInv)
<1>1. Init => IInv /\ TypeInv
  <2>1. Init => IInv
    BY InvStarts
  <2>2. Init => LayingInv
    BY DEF Init, TransectsInit, LayingInv
  <2>3. Init => RunsInv
    BY SurveyAssumption DEF Init, RunsInv
  <2> QED
    BY <2>1, <2>2, <2>3 DEF TypeInv
<1>2. IInv /\ TypeInv /\ [Next]_vars => (IInv /\ TypeInv)'
  <2> SUFFICES ASSUME IInv, LayingInv, RunsInv, [Next]_vars PROVE (IInv /\ LayingInv /\ RunsInv)'
    BY DEF TypeInv
  <2>1. IInv'
    BY NextKeeps
  <2>2. BoundaryInv /\ IsList(runs) /\ Answered(result, boundary, runs)
    BY SMTT(60) DEF IInv, CalculationInv
  <2>3. ASSUME UNCHANGED <<transects, boundary>>
        PROVE  LayingInv'
    BY <2>3 DEF LayingInv, transects, Reach, Near, Far, Axis, Horizontal
  <2>4. ASSUME UNCHANGED runs
        PROVE  RunsInv'
    BY <2>4 DEF RunsInv
  <2>5. CASE AskForLines
    BY <2>1, <2>2, <2>4, <2>5, AskForLinesTyped DEF AskForLines
  <2>6. CASE LayLines
    <3>1. CASE Lay
      BY <2>1, <2>2, <2>4, <2>6, <3>1, LayTyped DEF LayLines
    <3>2. CASE EndLaying
      <4>1. /\ laying' \in {"no_transects", "planned"} /\ laying = "laying"
            /\ UNCHANGED <<order, cursor, ordinates, boundary, runs>>
        BY <2>6, <3>2 DEF EndLaying, LayLines
      <4>2. LayingInv'
        BY <4>1 DEF LayingInv
      <4> QED
        BY <2>1, <2>4, <4>1, <4>2
    <3> QED
      BY <2>6, <3>1, <3>2 DEF LayLines
  <2>7. CASE SailRun \/ SailRecommended
    BY <2>1, <2>2, <2>3, <2>7, RunsStored DEF SailRun, SailRecommended
  <2>8. CASE Detect \/ Calculate
    BY <2>1, <2>3, <2>4, <2>8 DEF Detect, Calculate
  <2>9. CASE UNCHANGED vars
    BY <2>1, <2>3, <2>4, <2>9 DEF vars
  <2> QED
    BY <2>5, <2>6, <2>7, <2>8, <2>9 DEF Next
<1> QED
  BY <1>1, <1>2, PTL DEF Spec

(* A cell that several runs cover is one that some run covers.               *)
LEMMA TalliesOrdered ==
  ASSUME NEW c, NEW V, IsFiniteSet(V)
  PROVE  /\ Tallied(c, V).overlap <= Tallied(c, V).covered
         /\ Tallied(c, V).covered <= Tallied(c, V).inside
<1>1. /\ IsFiniteSet(Inside(c, V)) /\ IsFiniteSet(Inside(c, V) \ Missed(c, V))
      /\ Inside(c, V) \ Missed(c, V) \subseteq Inside(c, V)
  BY PartsFinite
<1>2. Repeated(c, V) \subseteq Inside(c, V) \ Missed(c, V)
  BY DEF Repeated, Missed
<1> QED
  BY <1>1, <1>2, FS_Subset DEF Tallied

(* A box is not so far across that an int would turn negative.               *)
LEMMA GridFits ==
  ASSUME NEW b \in Polygons, ValidPolygon(b), NEW c, c.boundary = b, c.resolution \in Resolutions,
         NEW g \in Grids(c)
  PROVE  g.columns \in MinInt..MaxInt /\ g.rows \in MinInt..MaxInt
<1> DEFINE box == Bounds(b)
           n(axis) == CellsAcross(box, axis, c.resolution)
<1>1. c.resolution \in Nat \ {0}
  BY ResolutionType
<1>2. ASSUME NEW axis \in 1..2
      PROVE  n(axis) \in Int /\ 0 <= n(axis)
  <2> DEFINE lo == box.min[axis]
             hi == box.max[axis]
             size == c.resolution
             s == hi - lo + size - 1
  <2>1. hi \in Int /\ lo \in Int /\ lo <= hi
    BY <1>2, BoundsHold DEF Box
  <2>2. size \in Nat \ {0}
    BY <1>1
  <2> HIDE DEF lo, hi, size
  <2>3. s \in Int /\ 0 <= s
    BY <2>1, <2>2
  <2> HIDE DEF s
  <2>4. s \div size \in Int /\ 0 <= s \div size
    BY <2>2, <2>3
  <2> QED
    BY <2>4 DEF CellsAcross, s, lo, hi, size
<1>3. g.columns \in Converted(n(1)) /\ g.rows \in Converted(n(2))
  <2>1. g \in [near : {box.min}, columns : Converted(n(1)), rows : Converted(n(2)),
               resolution : {c.resolution}]
    BY DEF Grids
  <2> HIDE DEF n, box
  <2> QED
    BY <2>1
<1>4. ASSUME NEW k \in Int, 0 <= k, NEW m \in Converted(k)
      PROVE  m \in MinInt..MaxInt
  BY <1>4, IntsAre DEF Converted
<1> HIDE DEF n
<1> QED
  BY <1>2, <1>3, <1>4

(* A calculation counts what it passes in the order it should, on a grid     *)
(* whose size an int holds, and a plan is made of numbers.                   *)
THEOREM SurveyTyped == Spec => []TypeOK
<1>1. ASSUME IInv, TypeInv
      PROVE  TypeOK
  <2>1. LayingInv /\ RunsInv
    BY <1>1 DEF TypeInv
  <2>2. BoundaryInv /\ IsList(runs) /\ Calculating
    BY <1>1 DEF IInv, CalculationInv
  <2>3. CASE call = None
    <3>1. tally.overlap <= tally.covered /\ tally.covered <= tally.inside
      BY <2>2, <2>3 DEF Calculating, EmptyTally
    <3> QED
      BY <2>1, <2>3, <3>1 DEF TypeOK, LayingInv, RunsInv
  <2>4. CASE call # None
    <3>1. /\ AskedOf(call, boundary, runs) /\ grid \in Grids(call) /\ at \in Places
          /\ tally = Tallied(call, Seen(grid, at))
      BY <2>2, <2>4 DEF Calculating
    <3>2. /\ call.boundary = boundary /\ call.resolution \in Resolutions
          /\ boundary \in Polygons /\ ValidPolygon(boundary)
      BY <2>2, <3>1, AskedIs, LongerList DEF BoundaryInv
    <3>3. IsFiniteSet(Seen(grid, at))
      <4>1. grid \in GridType /\ Seen(grid, at) \subseteq Centres(grid)
        BY <3>1, <3>2, GridIs DEF Seen
      <4> QED
        BY <4>1, CentresFinite, FS_Subset
    <3>4. tally.overlap <= tally.covered /\ tally.covered <= tally.inside
      BY <3>1, <3>3, TalliesOrdered
    <3>5. grid.columns \in MinInt..MaxInt /\ grid.rows \in MinInt..MaxInt
      BY <3>1, <3>2, GridFits
    <3>6. at.row \in Nat /\ at.column \in Nat
      BY <3>1 DEF Places
    <3> QED
      BY <2>1, <3>4, <3>5, <3>6 DEF TypeOK, LayingInv, RunsInv
  <2> QED
    BY <2>3, <2>4
<1> QED
  BY <1>1, TypesHold, PTL

(* No line of a plan lies before the one laid last, and as long as floats at *)
(* the far edge are no further apart than the lines each lies past it: the   *)
(* loop of Generate gets nearer to its end, whatever the boundary.           *)
THEOREM PlansAdvance == Spec => LayingAdvances
<1>1. IInv /\ TypeInv /\ [Next]_vars =>
        [Lay => cursor' >= cursor /\ (Resolvable(order) => cursor' > cursor)]_transects
  <2> SUFFICES ASSUME IInv, TypeInv, Lay
               PROVE  cursor' >= cursor /\ (Resolvable(order) => cursor' > cursor)
    OBVIOUS
  <2>1. BoundaryInv /\ LayingInv
    BY DEF IInv, CalculationInv, TypeInv
  <2>2. cursor \in Int /\ cursor' \in Int /\ cursor <= cursor'
        /\ (Resolvable(order) => cursor < cursor')
    BY <2>1, LayAdvances DEF LayingInv
  <2> QED
    BY <2>2
<1> QED
  BY <1>1, TypesHold, PTL DEF Spec, LayingAdvances
=============================================================================
