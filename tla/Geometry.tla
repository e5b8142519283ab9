------------------------------ MODULE Geometry ------------------------------
(***************************************************************************)
(* The functions of geometry/coverage.go that a survey is measured with,   *)
(* over integer coordinates.  A point is <<x, y>>, a ring a sequence of    *)
(* points, a polygon a sequence of rings whose first is the exterior, a    *)
(* line a sequence of points.  A comparison of quotients or of square      *)
(* roots is made by multiplying it out: on coordinates as small as those   *)
(* of the instances the floats of the code decide it alike.                *)
(***************************************************************************)
EXTENDS Integers, Sequences, FiniteSets, FiniteSetsExt

CONSTANT None   \* a request, a box, a line or a result that is not there

Abs(n) == IF n < 0 THEN -n ELSE n
Square(n) == n * n

(* The place after i, and the one before, in a ring that closes on itself. *)
After(ring, i) == (i % Len(ring)) + 1
Before(ring, i) == IF i = 1 THEN Len(ring) ELSE i - 1

-----------------------------------------------------------------------------
(* Polygons *)

Coordinates(polygon, axis) ==
  UNION {{polygon[r][i][axis] : i \in DOMAIN polygon[r]} : r \in DOMAIN polygon}

Bounds(polygon) ==
  LET xs == Coordinates(polygon, 1)
      ys == Coordinates(polygon, 2)
  IN  [min |-> <<Min(xs), Min(ys)>>, max |-> <<Max(xs), Max(ys)>>]

(* The shoelace sum; ringArea is half of it. *)
TwiceRingArea(ring) ==
  SumFunction([i \in DOMAIN ring |-> LET a == ring[i] b == ring[After(ring, i)]
                                     IN  a[1] * b[2] - b[1] * a[2]])

TwiceArea(polygon) ==
  IF polygon = << >> THEN 0
  ELSE LET holes == SumFunction([r \in 2..Len(polygon) |-> Abs(TwiceRingArea(polygon[r]))])
       IN  Max({Abs(TwiceRingArea(polygon[1])) - holes, 0})

ValidPolygon(polygon) ==
  /\ polygon # << >>
  /\ Len(polygon[1]) >= 4
  /\ TwiceArea(polygon) > 0

(* A slip: an end of the edge at the height of the point counts as above it. *)
CrossesEitherEnd(a, b, p) ==
  /\ (a[2] >= p[2]) # (b[2] > p[2])
  /\ IF b[2] > a[2] THEN (p[1] - a[1]) * (b[2] - a[2]) < (b[1] - a[1]) * (p[2] - a[2])
                    ELSE (p[1] - a[1]) * (b[2] - a[2]) > (b[1] - a[1]) * (p[2] - a[2])
(* The edge from a to b crosses the ray from p towards growing x. *)
Crosses(a, b, p) ==
  /\ (a[2] > p[2]) # (b[2] > p[2])
  /\ IF b[2] > a[2] THEN (p[1] - a[1]) * (b[2] - a[2]) < (b[1] - a[1]) * (p[2] - a[2])
                    ELSE (p[1] - a[1]) * (b[2] - a[2]) > (b[1] - a[1]) * (p[2] - a[2])

RingContains(ring, p) ==
  Cardinality({i \in DOMAIN ring : Crosses(ring[i], ring[Before(ring, i)], p)}) % 2 = 1

PolygonContains(polygon, p) ==
  /\ RingContains(polygon[1], p)
  /\ \A hole \in 2..Len(polygon) : ~RingContains(polygon[hole], p)

-----------------------------------------------------------------------------
(* Tracks: lines sailed with one swath *)

SquaredDistance(a, b) == Square(a[1] - b[1]) + Square(a[2] - b[2])

(* pointSegmentDistance(p, start, end) <= swath / 2 *)
Reached(p, start, end, swath) ==
  LET dx == end[1] - start[1]
      dy == end[2] - start[2]
      length == dx * dx + dy * dy
      along == (p[1] - start[1]) * dx + (p[2] - start[2]) * dy
  IN  CASE along <= 0 -> 4 * SquaredDistance(p, start) <= Square(swath)
        [] along > 0 /\ along >= length -> 4 * SquaredDistance(p, end) <= Square(swath)
        [] OTHER -> 4 * (SquaredDistance(p, start) * length - Square(along))
                      <= Square(swath) * length

CoveredBy(p, track) ==
  \E line \in track.lines : \E i \in 2..Len(line) : Reached(p, line[i - 1], line[i], track.swath)

(* A slip: every line that reaches the point is a pass of its own. *)
CoveragePassesByLine(p, tracks) ==
  MapThenSumSet(LAMBDA t : Cardinality({line \in tracks[t].lines :
                             CoveredBy(p, [tracks[t] EXCEPT !.lines = {line}])}), DOMAIN tracks)
CoveragePasses(p, tracks) == Cardinality({t \in DOMAIN tracks : CoveredBy(p, tracks[t])})
=============================================================================
