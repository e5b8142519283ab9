------------------------------ MODULE MCPlanning ------------------------------
(* Small instances of Planning.  Handlers and plan ids are interchangeable. *)
EXTENDS Planning, TLC

PlanningSymmetry == Permutations(Handlers) \cup Permutations(PlanIds)

Serving == {req[p] : p \in {o \in Handlers : pc[o] # "idle"}}

(* A bound: two plans, drawn by hand, in areas that stay as they were        *)
(* created; or one plan, drawn or generated, in areas that are updated.      *)
Focus ==
  \/ /\ \A code \in AreaCodes : areas[code] # None => areas[code].version = 1
     /\ \A q \in Serving \cup audits : q.op \notin {"area.update", "plan.generate"}
  \/ /\ Cardinality({id \in PlanIds : plans[id] # None}) <= 1
     /\ \A q \in Serving : q.op # "plan.copy"
=============================================================================
