------------------------------ MODULE Coverage ------------------------------
(***************************************************************************)
(* CalculateCoverage as the loop it is: a grid over the bounds of the      *)
(* boundary, the cells whose centre lies inside counted row by row, and    *)
(* what was not covered wrapped in a box.  A length is an integer and a    *)
(* resolution an even one, so that centres are integers; an int of the     *)
(* program has IntBits bits.                                               *)
(***************************************************************************)
EXTENDS Geometry

CONSTANTS
  IntBits,     \* of an int; 64 in the program
  CellLimit    \* the cells a calculation may have; 60000 in the program

ASSUME CoverageAssumption ==
  /\ IntBits \in Nat \ {0}
  /\ CellLimit \in Nat
  /\ CellLimit < 2^(IntBits - 1)

VARIABLES
  call,     \* the boundary, the tracks and the resolution of the call at hand
  grid,     \* its columns and rows, as ints
  at,       \* the loop's variables
  tally,    \* inside, covered, overlap
  gap,      \* the box around the cells that were not covered
  result    \* of the last call

calculation == <<call, grid, at, tally, gap, result>>

-----------------------------------------------------------------------------
(* The grid *)

MinInt == -(2^(IntBits - 1))
MaxInt == 2^(IntBits - 1) - 1

(* int(f) of a float: one that does not fit becomes the least int on amd64   *)
(* and the nearest on arm64.                                                 *)
Converted(n) == IF n <= MaxInt THEN {n} ELSE {MinInt, MaxInt}
(* The product of two ints wraps around. *)
Product(a, b) == ((a * b - MinInt) % 2^IntBits) + MinInt

CellsAcross(b, axis, resolution) == (b.max[axis] - b.min[axis] + resolution - 1) \div resolution

(* The grids that a call may be given. *)
Grids(c) ==
  LET b == Bounds(c.boundary)
  IN  [near : {b.min}, columns : Converted(CellsAcross(b, 1, c.resolution)),
       rows : Converted(CellsAcross(b, 2, c.resolution)), resolution : {c.resolution}]

Centre(g, column, row) ==
  LET half == g.resolution \div 2
  IN  <<g.near[1] + column * g.resolution + half, g.near[2] + row * g.resolution + half>>
Centres(g) == {Centre(g, column, row) : column \in 0..(g.columns - 1), row \in 0..(g.rows - 1)}

-----------------------------------------------------------------------------
(* Boxes *)

(* A slip: the box reaches the centre of a cell, not its border. *)
WidenedToCentre(box, p, half) ==
  IF box = None THEN [min |-> p, max |-> p]
  ELSE [min |-> <<Min({box.min[1], p[1]}), Min({box.min[2], p[2]})>>,
        max |-> <<Max({box.max[1], p[1]}), Max({box.max[2], p[2]})>>]
Widened(box, p, half) ==
  LET cell == [min |-> <<p[1] - half, p[2] - half>>, max |-> <<p[1] + half, p[2] + half>>]
  IN  IF box = None THEN cell
      ELSE [min |-> <<Min({box.min[1], cell.min[1]}), Min({box.min[2], cell.min[2]})>>,
            max |-> <<Max({box.max[1], cell.max[1]}), Max({box.max[2], cell.max[2]})>>]

Box == [min : Int \X Int, max : Int \X Int]

(* No box is no box, and no length either. *)
ASSUME NoneAssumption == None \notin Box /\ None \notin Nat

Side(box, axis) == box.max[axis] - box.min[axis]
Middle(box, axis) == (box.min[axis] + box.max[axis]) \div 2
ShortSide(box) == Min({Side(box, 1), Side(box, 2)})

(* A slip: the line runs across the box. *)
RecommendedAcross(box, resolution) ==
  IF Side(box, 1) < Side(box, 2)
    THEN << <<box.min[1] - resolution, Middle(box, 2)>>, <<box.max[1] + resolution, Middle(box, 2)>> >>
    ELSE << <<Middle(box, 1), box.min[2] - resolution>>, <<Middle(box, 1), box.max[2] + resolution>> >>
RecommendedLine(box, resolution) ==
  IF Side(box, 1) >= Side(box, 2)
    THEN << <<box.min[1] - resolution, Middle(box, 2)>>, <<box.max[1] + resolution, Middle(box, 2)>> >>
    ELSE << <<Middle(box, 1), box.min[2] - resolution>>, <<Middle(box, 1), box.max[2] + resolution>> >>

-----------------------------------------------------------------------------
(* CalculateCoverage *)

EmptyTally == [inside |-> 0, covered |-> 0, overlap |-> 0]

CoverageInit ==
  /\ call = None
  /\ grid = None
  /\ at = [column |-> 0, row |-> 0]
  /\ tally = EmptyTally
  /\ gap = None
  /\ result = None

Return(answer) ==
  /\ result' = answer
  /\ call' = None
  /\ grid' = None
  /\ at' = [column |-> 0, row |-> 0]
  /\ tally' = EmptyTally
  /\ gap' = None

Refusal(c, status) ==
  [status |-> status, call |-> c, grid |-> None, tally |-> EmptyTally, gap |-> None, line |-> None]

(* gapArtifacts: what stands here for None is a point in the middle of the   *)
(* bounds, as a polygon and as a line.                                       *)
Result(c, g, t, box) ==
  [status |-> "ok", call |-> c, grid |-> g, tally |-> t, gap |-> box,
   line |-> IF box = None THEN None ELSE RecommendedLine(box, c.resolution)]

(* "processed tracks are required" is asked before the bounds are looked at. *)
CallCoverage(c) ==
  /\ call = None
  /\ IF c.tracks = << >> THEN Return(Refusal(c, "invalid"))
     ELSE \E g \in Grids(c) :
            IF Product(g.columns, g.rows) > CellLimit
              THEN Return(Refusal(c, "too_large"))
              ELSE /\ call' = c
                   /\ grid' = g
                   /\ result' = None
                   /\ UNCHANGED <<at, tally, gap>>

(* A slip: a cell is covered or overlapped, not both. *)
CountedEither(t, passes) ==
  [inside |-> t.inside + 1,
   covered |-> IF passes = 1 THEN t.covered + 1 ELSE t.covered,
   overlap |-> IF passes > 1 THEN t.overlap + 1 ELSE t.overlap]
Counted(t, passes) ==
  [inside |-> t.inside + 1,
   covered |-> IF passes > 0 THEN t.covered + 1 ELSE t.covered,
   overlap |-> IF passes > 1 THEN t.overlap + 1 ELSE t.overlap]

SampleCell ==
  /\ call # None
  /\ at.row < grid.rows
  /\ at.column < grid.columns
  /\ LET p == Centre(grid, at.column, at.row)
         passes == CoveragePasses(p, call.tracks)
     IN IF ~PolygonContains(call.boundary, p)
          THEN UNCHANGED <<tally, gap>>
          ELSE /\ tally' = Counted(tally, passes)
               /\ gap' = IF passes = 0 THEN Widened(gap, p, call.resolution \div 2) ELSE gap
  /\ at' = [at EXCEPT !.column = @ + 1]
  /\ UNCHANGED <<call, grid, result>>

NextRow ==
  /\ call # None
  /\ at.row < grid.rows
  /\ at.column >= grid.columns
  /\ at' = [column |-> 0, row |-> at.row + 1]
  /\ UNCHANGED <<call, grid, tally, gap, result>>

(* "no analysis cells fall inside boundary", or the result. *)
ReturnCoverage ==
  /\ call # None
  /\ at.row >= grid.rows
  /\ Return(IF tally.inside = 0 THEN Refusal(call, "invalid")
            ELSE Result(call, grid, tally, gap))

Measured == result # None /\ result.status = "ok"

-----------------------------------------------------------------------------
(* Properties *)

CellsOf(c, g) ==
  {p \in Centres(g) : PolygonContains(c.boundary, p)}
Uncovered(c, g) == {p \in CellsOf(c, g) : \A t \in DOMAIN c.tracks : ~CoveredBy(p, c.tracks[t])}

(* The ratios of a result are those of the sets they are said to be of: the  *)
(* cells inside the boundary, those that some run covers, those that several *)
(* runs do; and the gap is the least box around the cells that no run covers.*)
ResultIsMeasured ==
  Measured =>
    LET cells == CellsOf(result.call, result.grid)
        uncovered == Uncovered(result.call, result.grid)
        half == result.call.resolution \div 2
        doubly == {p \in cells : \E s, t \in DOMAIN result.call.tracks :
                     /\ s # t
                     /\ CoveredBy(p, result.call.tracks[s])
                     /\ CoveredBy(p, result.call.tracks[t])}
    IN  /\ result.tally = [inside |-> Cardinality(cells),
                           covered |-> Cardinality(cells \ uncovered),
                           overlap |-> Cardinality(doubly)]
        /\ (result.gap = None) <=> (uncovered = {})
        /\ uncovered # {} =>
             \A axis \in 1..2 :
               /\ result.gap.min[axis] = Min({p[axis] : p \in uncovered}) - half
               /\ result.gap.max[axis] = Max({p[axis] : p \in uncovered}) + half
=============================================================================
