----------------------------- MODULE Transects -----------------------------
(***************************************************************************)
(* How TransectPlanService.Generate lays parallel lines over a boundary:   *)
(* from half a spacing past the near edge, a spacing at a time, up to the  *)
(* far edge, in floating point.  Lengths are integers, and a float holds   *)
(* those of at most MantissaBits bits times a power of two: an addition    *)
(* may be absorbed.                                                        *)
(***************************************************************************)
EXTENDS Geometry

CONSTANT MantissaBits   \* of a float; 53 in the program

ASSUME TransectsAssumption == MantissaBits \in Nat \ {0}

VARIABLES
  laying,     \* "idle" before the request, "laying", then how it ended
  order,      \* the boundary, the heading and the spacing of the request
  cursor,     \* the loop's variable
  ordinates   \* where the lines lie, on the axis they are laid along

transects == <<laying, order, cursor, ordinates>>

-----------------------------------------------------------------------------
(* Floating point *)

(* The distance of the floats around n. *)
Ulp(n) ==
  LET Fits(e) == Abs(n) < 2^(MantissaBits + e)
  IN  2^(CHOOSE e \in 0..Abs(n) : Fits(e) /\ \A d \in 0..(e - 1) : ~Fits(d))

(* n rounded to the nearest float, to the even one of two. *)
Fl(n) ==
  LET u == Ulp(n)
      below == n \div u
      rest == n % u
      up == 2 * rest > u \/ (2 * rest = u /\ below % 2 = 1)
  IN  u * (IF up THEN below + 1 ELSE below)

-----------------------------------------------------------------------------
(* Generate *)

(* Lines run along the first axis when they are laid along the second. *)
Horizontal(heading) == heading \in 45..134 \cup 225..314
Axis(o) == IF Horizontal(o.heading) THEN 2 ELSE 1

Near(o) == Bounds(o.boundary).min[Axis(o)]
Far(o) == Bounds(o.boundary).max[Axis(o)]
Span(polygon, axis) == Fl(Bounds(polygon).max[axis] - Bounds(polygon).min[axis])

TransectLine(o, ordinate) ==
  LET b == Bounds(o.boundary)
  IN  IF Horizontal(o.heading) THEN << <<b.min[1], ordinate>>, <<b.max[1], ordinate>> >>
                               ELSE << <<ordinate, b.min[2]>>, <<ordinate, b.max[2]>> >>

TransectsInit ==
  /\ laying = "idle"
  /\ order = None
  /\ cursor = 0
  /\ ordinates = {}

(* A slip: the first line lies a whole spacing past the edge. *)
FirstLineLate(o) == Fl(Near(o) + o.spacing)
FirstLine(o) == Fl(Near(o) + o.spacing \div 2)

(* A slip: the spacing is put in half at every step, as at the first. *)
NextLineHalfway(ordinate, spacing) == Fl(ordinate + spacing \div 2)
NextLine(ordinate, spacing) == Fl(ordinate + spacing)

(* LINE_SPACING_INVALID, or on to the first line. *)
Generate(o) ==
  /\ laying # "laying"
  /\ order' = o
  /\ ordinates' = {}
  /\ IF o.spacing > Max({Span(o.boundary, 1), Span(o.boundary, 2)})
       THEN /\ laying' = "spacing_invalid"
            /\ UNCHANGED cursor
       ELSE /\ laying' = "laying"
            /\ cursor' = FirstLine(o)

Lay ==
  /\ laying = "laying"
  /\ cursor < Far(order)
  /\ ordinates' = ordinates \cup {cursor}
  /\ cursor' = NextLine(cursor, order.spacing)
  /\ UNCHANGED <<laying, order>>

(* NO_TRANSECTS, or the lines that Create stores. *)
EndLaying ==
  /\ laying = "laying"
  /\ cursor >= Far(order)
  /\ laying' = IF ordinates = {} THEN "no_transects" ELSE "planned"
  /\ UNCHANGED <<order, cursor, ordinates>>

-----------------------------------------------------------------------------
(* Properties *)

Resolvable(o) == o.spacing >= Ulp(Max({Abs(Near(o)), Abs(Far(o))}))

(* The next line never lies before the one that was laid and, as long as     *)
(* floats at the far edge are no further apart than the lines, it lies past  *)
(* it: rounding takes no step back, and absorbs none.                        *)
LayingAdvances ==
  [][Lay => /\ cursor' >= cursor
            /\ Resolvable(order) => cursor' > cursor]_transects

(* A request for lines is answered, whatever its boundary and spacing, as    *)
(* long as floats at the far edge are no further apart than the lines.  (If  *)
(* they are, the addition at transect_plan.go:77 may leave its variable      *)
(* where it is, and the handler appends one line for ever.)                  *)
GenerationEnds == (laying = "laying" /\ Resolvable(order)) ~> (laying # "laying")
=============================================================================
