---------------------------- MODULE MCCoverageGap ----------------------------
(* Small instances of CoverageGap.  Handlers, ids and codes are              *)
(* interchangeable; plans and areas are not, for AreaOf ties them together.  *)
EXTENDS CoverageGap, TLC

CONSTANTS p1, p2, a1, a2, b1

OneArea == p1 :> a1
TwoAreas == p1 :> a1 @@ p2 :> a2

CoverageSymmetry == Permutations(Handlers) \cup Permutations(GapIds)
                    \cup Permutations(RunIds) \cup Permutations(Codes)

Detecting == {p \in Handlers : pc[p] \in {"runs", "lookup", "insert", "audit_detect"}}
Reviewing == {p \in Handlers : pc[p] \in {"update", "reload", "audit_transition"}}

(* Detections in areas that keep their boundary: gaps are not reviewed.      *)
DetectFocus ==
  /\ \A a \in Areas : areas[a].boundary = b1
  /\ Reviewing = {}
  /\ \A id \in GapIds : gaps[id] # None => gaps[id].version = 1

(* Detections from the seed's run in an area that is updated, and reviews.   *)
ReviewFocus ==
  /\ \A a \in Areas \ {a1} : areas[a].boundary = b1
  /\ \A r \in RunIds : runs[r] # NoRun => runs[r].plan = p1 /\ runs[r].track = SeedTrack
  /\ locked \subseteq {p1}
  /\ \A p \in Detecting : /\ req[p].area = a1 /\ req[p].resolution # None
                          /\ \A r \in req[p].runs : runs[r] # NoRun

(* A bound: one or the other.                                                *)
Focus == DetectFocus \/ ReviewFocus
=============================================================================
