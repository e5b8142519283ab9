------------------------------- MODULE Survey -------------------------------
(***************************************************************************)
(* From a boundary to its coverage: lines are laid over it (Transects),    *)
(* runs are sailed, along the lines or elsewhere, the coverage of the runs *)
(* is calculated (Coverage), the line it recommends is sailed too, and the *)
(* coverage is calculated again.  The boundary stays as it is; how an area *)
(* is rewritten meanwhile is part of Planning and CoverageGap.             *)
(***************************************************************************)
EXTENDS Transects, Coverage

CONSTANTS
  Boundaries,    \* polygons that clients send
  AreaLimit,     \* the largest area a boundary may have; 10^9 in the program
  Headings,      \* of requests for lines
  Spacings,      \* of requests for lines, even
  Swaths,        \* of runs
  StrayLines,    \* lines that were sailed but not planned
  Resolutions,   \* of calculations, even
  MaxRuns,       \* bound: runs sailed, but for the recommended line
  MaxLines,      \* bound: a plan of more lines is sailed as a whole
  Splits         \* triples: a polygon and the two that it is cut into

(* A ring cut from its i-th corner to its j-th: what lies between them, and  *)
(* what is left.                                                             *)
CutOut(ring, i, j) == Append(SubSeq(ring, i, j), ring[i])
CutOff(ring, i, j) == SubSeq(ring, 1, i) \o SubSeq(ring, j, Len(ring))

(* A polygon cut in two along a line between two of its corners.  That the   *)
(* line runs inside it shows in that neither part is turned round.           *)
Halved(whole, one, other) ==
  /\ Len(whole) = 1
  /\ \E i \in DOMAIN whole[1] : \E j \in (i + 1)..Len(whole[1]) :
       one = <<CutOut(whole[1], i, j)>> /\ other = <<CutOff(whole[1], i, j)>>
  /\ TwiceRingArea(one[1]) * TwiceRingArea(other[1]) >= 0

ASSUME SurveyAssumption ==
  /\ Boundaries \subseteq Seq(Seq(Int \X Int))
  /\ AreaLimit \in Nat
  /\ Headings \subseteq 0..359
  /\ \A n \in Spacings \cup Resolutions : n \in Nat \ {0} /\ n % 2 = 0
  /\ Swaths \subseteq Nat \ {0}
  /\ MaxRuns \in Nat
  /\ MaxLines \in Nat
  /\ \A split \in Splits : Halved(split[1], split[2], split[3])

VARIABLES
  boundary,   \* of the area
  runs        \* sailed over it: lines, swath, and the grid of the gap that led to it

vars == <<transects, calculation, boundary, runs>>

(* validateAreaGeometry *)
Admissible(polygon) == ValidPolygon(polygon) /\ TwiceArea(polygon) <= 2 * AreaLimit

(* Coordinates so small that the calculation's floats are exact. *)
Exact(polygon) ==
  \A n \in Coordinates(polygon, 1) \cup Coordinates(polygon, 2) : 4 * Abs(n) < 2^MantissaBits

Init ==
  /\ TransectsInit
  /\ CoverageInit
  /\ boundary \in {polygon \in Boundaries : Admissible(polygon)}
  /\ runs = << >>

AskForLines ==
  /\ call = None
  /\ runs = << >>
  /\ \E heading \in Headings, spacing \in Spacings :
       Generate([boundary |-> boundary, heading |-> heading, spacing |-> spacing])
  /\ UNCHANGED <<calculation, boundary, runs>>

LayLines ==
  /\ Lay \/ EndLaying
  /\ UNCHANGED <<calculation, boundary, runs>>

PlannedLines == {TransectLine(order, ordinate) : ordinate \in ordinates}
SailedTogether ==
  IF Cardinality(PlannedLines) <= MaxLines THEN SUBSET PlannedLines \ {{}} ELSE {PlannedLines}

(* A run is stored: along some of the planned lines or off them. *)
SailRun ==
  /\ call = None
  /\ laying = "planned"
  /\ Exact(boundary)
  /\ Len(runs) < MaxRuns
  /\ \E lines \in SailedTogether \cup {{line} : line \in StrayLines}, swath \in Swaths :
       runs' = Append(runs, [lines |-> lines, swath |-> swath, after |-> None])
  /\ UNCHANGED <<transects, calculation, boundary>>

(* The recommended line is sailed, with a swath as wide as the box is across.*)
SailRecommended ==
  /\ call = None
  /\ Measured
  /\ result.gap # None
  /\ \A r \in DOMAIN runs : runs[r].after = None
  /\ runs' = Append(runs, [lines |-> {result.line}, swath |-> ShortSide(result.gap),
                          after |-> result.call.resolution])
  /\ UNCHANGED <<transects, calculation, boundary>>

Track(run) == [lines |-> run.lines, swath |-> run.swath]

(* A request names at least one run. *)
Detect ==
  /\ runs # << >>
  /\ \E resolution \in Resolutions :
       CallCoverage([boundary |-> boundary, tracks |-> [r \in DOMAIN runs |-> Track(runs[r])],
                     resolution |-> resolution])
  /\ UNCHANGED <<transects, boundary, runs>>

Calculate ==
  /\ SampleCell \/ NextRow \/ ReturnCoverage
  /\ UNCHANGED <<transects, boundary, runs>>

Next == AskForLines \/ LayLines \/ SailRun \/ SailRecommended \/ Detect \/ Calculate

(* A handler that lays lines goes on; nobody is bound to send a request. *)
Spec == Init /\ [][Next]_vars /\ WF_vars(LayLines)

-----------------------------------------------------------------------------
(* Properties *)

(* Every variable has its type. *)
TypeOK ==
  /\ laying \in {"idle", "spacing_invalid", "laying", "no_transects", "planned"}
  /\ laying # "idle" => order.boundary = boundary
  /\ cursor \in Int
  /\ ordinates \subseteq Int
  /\ Len(runs) <= MaxRuns + 1
  /\ tally.overlap <= tally.covered /\ tally.covered <= tally.inside
  /\ call # None =>
       /\ grid.columns \in MinInt..MaxInt /\ grid.rows \in MinInt..MaxInt
       /\ at.row \in Nat /\ at.column \in Nat

LastLine == Max(ordinates)
SailedAsPlanned(tracks, swath) ==
  \A line \in PlannedLines :
    \E t \in DOMAIN tracks : line \in tracks[t].lines /\ tracks[t].swath >= swath

(* What Generate plans is what CalculateCoverage wants to see.  Once every   *)
(* planned line has been sailed with a swath as wide as the spacing, by      *)
(* however many runs, nothing is missed but a strip past the last line, and  *)
(* that strip is never as wide as half a spacing and a cell; with a swath of *)
(* two spacings nothing is missed at all.                                    *)
PlanCovers ==
  Measured =>
    LET axis == Axis(order)
        half == result.call.resolution \div 2
    IN  /\ SailedAsPlanned(result.call.tracks, order.spacing) /\ result.gap # None =>
             /\ 2 * (result.gap.min[axis] + half - LastLine) > order.spacing
             /\ 2 * Side(result.gap, axis) < order.spacing + 2 * result.call.resolution
        /\ SailedAsPlanned(result.call.tracks, 2 * order.spacing) => result.gap = None

(* The recommended line is worth sailing: a calculation over the runs of an  *)
(* earlier one and the run along the line it recommended, on the same grid,  *)
(* finds no gap any more.                                                    *)
RecommendationCloses ==
  Measured =>
    \A r \in DOMAIN runs :
      runs[r].after = result.call.resolution /\ r \in DOMAIN result.call.tracks => result.gap = None

(* Two areas that share a border share no cell of a grid, and lose none: a   *)
(* centre in the whole is in just one of the parts, were it on the very      *)
(* border or at the height of a corner.  And their areas add up.             *)
BordersAreExact ==
  Measured =>
    \A split \in Splits : split[1] = boundary =>
      /\ \A p \in Centres(result.grid) :
           PolygonContains(boundary, p) =
             (PolygonContains(split[2], p) # PolygonContains(split[3], p))
      /\ TwiceArea(boundary) = TwiceArea(split[2]) + TwiceArea(split[3])
=============================================================================
